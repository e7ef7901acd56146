---------------------------- MODULE SiteProfiles ----------------------------
(***************************************************************************)
(* Learning where to place (topo-core/src/placement.rs): a set of the      *)
(* site-profile table fed by the sampler under its lock, and the lock-free *)
(* table of learned hints, which the sampler rewrites from the profiles    *)
(* now and then, which a host that turns profiling off resets without the  *)
(* lock, and which every unhinted allocation reads.  The table's other     *)
(* sets behave alike (a site hashes to one set).  Rates and intervals are  *)
(* reported only and are left out; time is the number of samples.          *)
(***************************************************************************)
EXTENDS Integers, Sequences, FiniteSets, FiniteSetsExt

CONSTANTS Ways,             \* the ways of the set
          NBuckets, K,      \* size buckets; the buckets a profile tracks
          HotFrom,          \* the least hotness hint that means hot
          Confident, Bp, MinBp, Q, Decay, MadMax,   \* the policy's numbers
          PublishEvery,
          Does,             \* workloads: the sites, buckets, hints and ages that occur
                            \* and how many samples and toggles there are
          None

VARIABLES slots,       \* way -> profile, or None
          seen,        \* way -> bucket -> samples since the profile was made
          fired, samples,
          hints, any,  \* LearnedHints
          basis,       \* what the sites said when the hints were last written
          given,       \* everything sites said in any writing so far
          torn,        \* a reset overlapped a writing
          enabled, at, \* at: where the sampler is
          host,        \* where the host that disables profiling is
          reader, toggles, does

profileVars == <<slots, seen, fired, samples>>
hintVars == <<hints, any, basis, given, torn>>
vars == <<profileVars, hintVars, enabled, at, host, reader, toggles, does>>

Buckets == 1 .. NBuckets
WayIds == 1 .. Ways
Lesser(a, b) == IF a < b THEN a ELSE b
Default == [hot |-> "neutral", life |-> "unspecified"]
Unset == [hot |-> "unset", life |-> "unset"]
Conflict == [hot |-> "conflict", life |-> "conflict"]
Idle == [pc |-> "idle"]

-----------------------------------------------------------------------------
(* A profile.                                                              *)

NewProfile(site) ==
    [site |-> site, dist |-> <<>>, ages |-> [c \in 1 .. 5 |-> 0], hot |-> 0, mad |-> 0,
     allocs |-> 0, last |-> samples]

\* SizeClassDist::observe, the space-saving sketch of K buckets.
Tracked(dist, b) == {i \in DOMAIN dist : dist[i].bucket = b}
Smallest(dist) ==
    Min({i \in DOMAIN dist : \A j \in DOMAIN dist : dist[i].count <= dist[j].count})
Replaced(e, b) == [bucket |-> b, count |-> e.count + 1, error |-> e.count]
Observe(dist, b) ==
    IF Tracked(dist, b) # {} THEN [dist EXCEPT ![Min(Tracked(dist, b))].count = @ + 1]
    ELSE IF Len(dist) < K THEN Append(dist, [bucket |-> b, count |-> 1, error |-> 0])
    ELSE [dist EXCEPT ![Smallest(dist)] = Replaced(@, b)]
DominantBucket(dist) ==
    IF dist = <<>> THEN NBuckets
    ELSE dist[Min({i \in DOMAIN dist : \A j \in DOMAIN dist : dist[i].count >= dist[j].count})].bucket

EwmaStep(cur, sample) ==
    LET next == cur + ((sample - cur) \div Decay) IN IF next < 0 THEN 0 ELSE next
Distance(a, b) == IF a > b THEN a - b ELSE b - a
RecordAlloc(p, b, h) ==
    [p EXCEPT !.dist = Observe(@, b), !.allocs = @ + 1, !.last = samples,
              !.hot = IF p.allocs = 0 THEN h * Q ELSE EwmaStep(@, h * Q),
              !.mad = IF p.allocs = 0 THEN 0 ELSE EwmaStep(@, Distance(h * Q, p.hot))]

\* LifetimeHistogram::dominant: the most frequent class, the longest of a tie.
Observed(p) == MapThenSumSet(LAMBDA c : p.ages[c], 1 .. 5)
DominantAge(p) == Max({c \in 1 .. 5 : \A d \in 1 .. 5 : p.ages[c] >= p.ages[d]})

Maturity(n) == (Lesser(n, Confident) * Bp) \div Confident
Stability(p) ==
    LET mad == p.mad \div Q IN IF mad >= MadMax THEN 0 ELSE ((MadMax - mad) * Bp) \div MadMax
HotConfidence(p) == (Maturity(p.allocs) * Stability(p)) \div Bp
AgeConfidence(p) ==
    IF Observed(p) = 0 THEN 0
    ELSE (Maturity(Observed(p)) * ((p.ages[DominantAge(p)] * Bp) \div Observed(p))) \div Bp
Confidence(p) == Lesser(HotConfidence(p), AgeConfidence(p))

FromHint(h) == IF h = 0 THEN "cold" ELSE IF h >= HotFrom THEN "hot" ELSE "neutral"
ToHint(c) == <<"short", "short", "medium", "long", "long">>[c]
PlaceHints(p) ==
    [hot |-> IF HotConfidence(p) >= MinBp THEN FromHint(p.hot \div Q) ELSE "neutral",
     life |-> IF AgeConfidence(p) >= MinBp THEN ToHint(DominantAge(p)) ELSE "unspecified"]

-----------------------------------------------------------------------------
(* The table: find_or_make takes a free way, or the least confident one,   *)
(* the longest unused of those.                                            *)

Held(site) == {w \in WayIds : slots[w] # None /\ slots[w].site = site}
Empty == {w \in WayIds : slots[w] = None}
Worse(v, w) ==
    LET a == Confidence(slots[v])
        b == Confidence(slots[w])
    IN a < b \/ (a = b /\ slots[v].last < slots[w].last)
Victim == Min({v \in WayIds : \A w \in WayIds : ~Worse(w, v)})
Way(site) ==
    IF Held(site) # {} THEN Min(Held(site)) ELSE IF Empty # {} THEN Min(Empty) ELSE Victim
ProfileAt(site) == IF Held(site) # {} THEN slots[Min(Held(site))] ELSE NewProfile(site)
SeenAt(site) == IF Held(site) # {} THEN seen[Min(Held(site))] ELSE [b \in Buckets |-> 0]

Init ==
    /\ slots = [w \in WayIds |-> None] /\ seen = [w \in WayIds |-> [b \in Buckets |-> 0]]
    /\ fired = 0 /\ samples = 0
    /\ hints = [b \in Buckets |-> Unset] /\ any = FALSE /\ basis = {} /\ given = {}
    /\ torn = FALSE /\ enabled = TRUE /\ at = Idle /\ host = "idle" /\ reader = Idle
    /\ toggles = 0 /\ does \in Does

-----------------------------------------------------------------------------
(* The sampler: on_alloc looks at ENABLED; the rest runs under the lock.   *)

BeginSample ==
    /\ at = Idle /\ enabled /\ samples < does.samples
    /\ samples' = samples + 1 /\ at' = [pc |-> "record"]
    /\ UNCHANGED <<slots, seen, fired, hintVars, enabled, host, reader, toggles, does>>

SampleAlloc(site, b, h) ==
    /\ at.pc = "record"
    /\ slots' = [slots EXCEPT ![Way(site)] = RecordAlloc(ProfileAt(site), b, h)]
    /\ seen' = [seen EXCEPT ![Way(site)] = [SeenAt(site) EXCEPT ![b] = @ + 1]]
    /\ fired' = (fired + 1) % PublishEvery
    /\ at' = IF fired' = 0 THEN [pc |-> "reset"] ELSE Idle
    /\ UNCHANGED <<samples, hintVars, enabled, host, reader, toggles, does>>

\* record_free and record_censored both add one to the class of the age.
SampleEnd(site, age) ==
    /\ at.pc = "record"
    /\ IF Held(site) = {} THEN UNCHANGED slots
       ELSE slots' = [slots EXCEPT ![Min(Held(site))].ages[age] = @ + 1]
    /\ at' = Idle
    /\ UNCHANGED <<seen, fired, samples, hintVars, enabled, host, reader, toggles, does>>

-----------------------------------------------------------------------------
(* write_learned_hints: reset, merge the profiles one by one, publish.     *)

Says(p) == [bucket |-> DominantBucket(p.dist), hint |-> PlaceHints(p)]
Saying == {p \in {slots[w] : w \in WayIds} \ {None} : PlaceHints(p) # Default}

ResetAny ==
    /\ at.pc = "reset" /\ any' = FALSE /\ at' = [pc |-> "clear"]
    /\ basis' = {Says(p) : p \in Saying} /\ given' = given \cup {Says(p) : p \in Saying}
    /\ torn' = (host # "idle")
    /\ UNCHANGED <<profileVars, hints, enabled, host, reader, toggles, does>>
ClearHints ==
    /\ at.pc = "clear" /\ hints' = [b \in Buckets |-> Unset] /\ at' = [pc |-> "merge", way |-> 1]
    /\ UNCHANGED <<profileVars, any, basis, given, torn, enabled, host, reader, toggles, does>>
Merged(cur, h) == IF cur = Unset \/ cur = h THEN h ELSE Conflict
MergeWay ==
    LET p == slots[at.way]
        b == DominantBucket(p.dist)
    IN
    /\ at.pc = "merge" /\ at.way <= Ways
    /\ hints' = IF p = None \/ PlaceHints(p) = Default THEN hints
                ELSE [hints EXCEPT ![b] = Merged(@, PlaceHints(p))]
    /\ at' = [at EXCEPT !.way = @ + 1]
    /\ UNCHANGED <<profileVars, any, basis, given, torn, enabled, host, reader, toggles, does>>
Publish ==
    /\ at.pc = "merge" /\ at.way > Ways
    /\ any' = (\E b \in Buckets : hints[b] \notin {Unset, Conflict})
    /\ at' = Idle
    /\ UNCHANGED <<profileVars, hints, basis, given, torn, enabled, host, reader, toggles, does>>

-----------------------------------------------------------------------------
(* set_rate: disabling resets the engine's hints, without the lock.        *)

SetRate(on) ==
    /\ host = "idle" /\ toggles < does.toggles /\ enabled # on
    /\ toggles' = toggles + 1 /\ enabled' = on
    /\ host' = IF on THEN "idle" ELSE "reset"
    /\ torn' = (torn \/ (~on /\ at # Idle))
    /\ UNCHANGED <<profileVars, hints, any, basis, given, at, reader, does>>
HostReset ==
    /\ host = "reset" /\ any' = FALSE /\ host' = "clear"
    /\ UNCHANGED <<profileVars, hints, basis, given, torn, enabled, at, reader, toggles, does>>
HostClear ==
    /\ host = "clear" /\ hints' = [b \in Buckets |-> Unset] /\ basis' = {} /\ host' = "idle"
    /\ UNCHANGED <<profileVars, any, given, torn, enabled, at, reader, toggles, does>>

-----------------------------------------------------------------------------
(* lookup, by an allocation: the flag, then the bucket's byte.             *)

UnpackHint(byte) == IF byte \in {Unset, Conflict} THEN Default ELSE byte
BucketIndex(b) == b
LookupAny(b) ==
    /\ reader.pc # "slot"
    /\ reader' = IF any THEN [pc |-> "slot", bucket |-> b]
                 ELSE [pc |-> "done", bucket |-> b, hint |-> Default]
    /\ UNCHANGED <<profileVars, hintVars, enabled, at, host, toggles, does>>
LookupSlot ==
    /\ reader.pc = "slot"
    /\ reader' = [pc |-> "done", bucket |-> reader.bucket,
                  hint |-> UnpackHint(hints[BucketIndex(reader.bucket)])]
    /\ UNCHANGED <<profileVars, hintVars, enabled, at, host, toggles, does>>

Next ==
    \/ BeginSample
    \/ \E site \in does.sites :
          \/ \E b \in does.buckets, h \in does.hots : SampleAlloc(site, b, h)
          \/ \E age \in does.ages : SampleEnd(site, age)
    \/ ResetAny \/ ClearHints \/ MergeWay \/ Publish
    \/ \E on \in BOOLEAN : SetRate(on)
    \/ HostReset \/ HostClear
    \/ \E b \in does.buckets : LookupAny(b)
    \/ LookupSlot

Spec == Init /\ [][Next]_vars

-----------------------------------------------------------------------------
TypeOK ==
    /\ samples \in 0 .. does.samples /\ any \in BOOLEAN
    /\ \A w \in WayIds : slots[w] # None => /\ slots[w].site \in does.sites
                                            /\ Cardinality(Held(slots[w].site)) = 1
                                            /\ Len(slots[w].dist) <= K

\* The bucket sketch brackets the truth: a tracked bucket's count is between what
\* was seen and that plus its error, the counts add up to the samples, and a bucket
\* seen more often than one time in K is tracked (SizeClassDist::observe).
DistBounds ==
    \A w \in WayIds : slots[w] # None =>
        LET dist == slots[w].dist IN
        /\ \A i \in DOMAIN dist :
              /\ dist[i].count >= seen[w][dist[i].bucket]
              /\ dist[i].count <= seen[w][dist[i].bucket] + dist[i].error
        /\ MapThenSumSet(LAMBDA i : dist[i].count, DOMAIN dist) = slots[w].allocs
        /\ \A b \in Buckets : seen[w][b] * K > slots[w].allocs => Tracked(dist, b) # {}

\* An allocation that reads the hints while they are rewritten or reset gets no hint
\* or one that a confident site of its bucket gave (lookup, merge).
LookupFromASite ==
    reader.pc = "done" /\ reader.hint # Default =>
        [bucket |-> reader.bucket, hint |-> reader.hint] \in given

\* Published hints are a consensus: a bucket has the one hint all its confident sites
\* give, and none when two disagree, unless a reset overlapped the writing.
ConsensusOnly ==
    at.pc \in {"idle", "record"} /\ host = "idle" /\ ~torn =>
        \A b \in Buckets :
            LET said == {s.hint : s \in {x \in basis : x.bucket = b}} IN
            hints[b] = IF said = {} THEN Unset
                       ELSE IF Cardinality(said) = 1 THEN CHOOSE h \in said : TRUE
                       ELSE Conflict

\* Once profiling is off, and no sample is under way, the allocation path is back to default placement
\* (set_rate_with: "drop the learned hints so the engine stops applying them").
DisabledIsDefault ==
    ~enabled /\ host = "idle" /\ at = Idle =>
        ~any \/ \A b \in Buckets : UnpackHint(hints[b]) = Default
=============================================================================
