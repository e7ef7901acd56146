--------------------------- MODULE FreeClaimProofs ---------------------------
(***************************************************************************)
(* Proofs about FreeClaim, for any number of threads, spans and objects.   *)
(* They cover builds without the quarantine (Covered below says exactly    *)
(* which programs); the quarantine stays with TLC.                         *)
(***************************************************************************)
EXTENDS FreeClaim, TLAPS

\* The instances the theorems are about.  The program is either correct, or it
\* double-frees at will but (1) no free races the vending of the same object by
\* a refill, (2) spans are never re-tagged and (3) no span is ever retired,
\* because a bin that keeps some of the spans empty has room for another.
Covered ==
    /\ ~Quarantine
    /\ DoubleFrees => /\ ~FreesRaceVends
                      /\ "hinted" \notin Tags
                      /\ \A E \in SUBSET Spans :
                           E # Spans => Cardinality(E) < MaxEmptyCachedPerBin

\* What a thread is to an object.  t has set the cached bit of o and not yet
\* handed it on.
Marker(t, o) ==
    /\ obj[t] = o
    /\ \/ pc[t] \in {"revalCentral", "revalQuar", "unmark", "route", "claim",
                     "publish"}
       \/ pc[t] \in {"insert", "insertQuar", "insertUnmark"} /\ via[t] # "plain"

\* t owns o: what Holds says in a build without the quarantine.
Owner(t, o) ==
    /\ obj[t] = o
    /\ \/ pc[t] \in {"route", "claim", "publish"}
       \/ pc[t] = "insert" /\ via[t] # "plain"

\* t is refilling with o and has not marked it yet.
Vending(t, o) == pc[t] = "refillMark" /\ obj[t] = o

\* t is freeing o and holds no claim that admits the free yet.
InFlight(t, o) ==
    /\ obj[t] = o
    /\ \/ pc[t] \in {"screenCached", "screenCentral", "mark", "revalCentral",
                     "revalQuar"}
       \/ pc[t] = "insert" /\ via[t] = "plain"

\* t has revalidated the central bit of o and not yet the quarantined bit.
Revalidated(t, o) == obj[t] = o /\ pc[t] = "revalQuar"

\* t has lost o to another free and is releasing its claim.
Losing(t, o) == obj[t] = o /\ pc[t] \in {"unmark", "rejected"}

\* t is between setting the free bit of o and releasing the bin lock.
Inserting(t, o) == obj[t] = o /\ pc[t] \in {"insertQuar", "insertUnmark"}

\* t took the route of a cacheable object, or the other one.
ByFrontEnd(t, o) ==
    /\ obj[t] = o
    /\ \/ pc[t] \in {"mark", "refillMark"}
       \/ pc[t] \in {"insert", "insertQuar", "insertUnmark"} /\ via[t] # "plain"

ByCentral(t, o) ==
    /\ obj[t] = o /\ via[t] = "plain"
    /\ pc[t] \in {"insert", "insertQuar", "insertUnmark", "rejected"}

\* What a thread is to a span.
InsertingIn(t, s) == pc[t] \in {"insertQuar", "insertUnmark"} /\ SpanOf[obj[t]] = s
Retiring(t, s) == pc[t] = "retire" /\ SpanOf[obj[t]] = s
Reclaiming(t, s) == pc[t] = "reclaim" /\ SpanOf[obj[t]] = s

Live(o) == span[SpanOf[o]] = "Active"

\* Control: nothing of the quarantine is reachable, and the route of a thread
\* agrees with its step.
ControlAt(t) ==
    /\ pc[t] \in {"idle", "screenCached", "screenCentral", "mark",
                  "revalCentral", "revalQuar", "unmark", "route", "insert",
                  "insertQuar", "insertUnmark", "rejected", "retire",
                  "reclaim", "claim", "refillMark", "publish"}
    /\ IF pc[t] = "idle" THEN obj[t] = NoObject ELSE obj[t] \in Objects
    /\ via[t] \in {"none", "cached", "plain", "flush"}
    /\ pc[t] \in {"idle", "screenCached", "screenCentral", "claim"}
          => via[t] = "none"
    /\ pc[t] \in {"mark", "revalCentral", "revalQuar", "unmark", "route"}
          => via[t] = "cached"
    /\ pc[t] \in {"insert", "insertQuar", "insertUnmark"} => via[t] # "none"
    /\ pc[t] = "rejected" => via[t] = "plain"
    /\ pc[t] \in {"refillMark", "publish"} => via[t] = "flush"
    /\ pc[t] \in {"insertQuar", "insertUnmark"} <=> lock = t

\* The shared state of an object, one proposition per place.
Marked(o) == cached[o]
Central(o) == free[o]
WithProgram(o) == app[o]
InFrontEnd(o) == fe[o] = 1
Won(o) == wins[o] = 1

\* Counts: one front-end entry and one admitted free at most.
CountAt(o) == fe[o] \in {0, 1} /\ wins[o] \in {0, 1}

\* Marks: a mark has exactly one owner, a thread or a front-end entry, and only
\* objects of cacheable spans are marked.
MarkAt(o) ==
    /\ InFrontEnd(o) => Marked(o)
    /\ Marked(o) => Cacheable(o)
    /\ Marked(o) => InFrontEnd(o) \/ \E t \in Threads : Marker(t, o)
    /\ \A t \in Threads : Marker(t, o) => Marked(o) /\ ~InFrontEnd(o)
    /\ \A t, u \in Threads : Marker(t, o) /\ Marker(u, o) => t = u

\* Routes: the tag a free or a refill has read is still the tag of the span.
RouteAt(o) ==
    \A t \in Threads : /\ ByFrontEnd(t, o) => Cacheable(o)
                       /\ ByCentral(t, o) => ~Cacheable(o)

\* Places exclude each other and exist only in live spans.
PlaceAt(o) ==
    /\ Central(o) => Live(o) /\ ~WithProgram(o) /\ ~InFrontEnd(o)
    /\ WithProgram(o) => Live(o) /\ ~InFrontEnd(o)
    /\ InFrontEnd(o) => Live(o)
    /\ \A t \in Threads :
          /\ Owner(t, o) => ~Central(o) /\ ~WithProgram(o) /\ Live(o)
          /\ Inserting(t, o) => Central(o)
          /\ Revalidated(t, o) => ~Central(o)

\* A refill between its removal and its mark is alone with its object.
VendAt(o) ==
    \A t \in Threads : Vending(t, o) =>
        /\ ~Central(o) /\ ~WithProgram(o) /\ ~InFrontEnd(o) /\ Live(o) /\ ~Won(o)
        /\ \A u \in Threads : /\ ~Owner(u, o) /\ ~InFlight(u, o)
                              /\ Vending(u, o) => t = u

\* Frees in flight keep their span alive; those of a correct program own it.
FlightAt(o) ==
    /\ \A t \in Threads : InFlight(t, o) \/ Losing(t, o) => Live(o)
    /\ ~DoubleFrees => \A t \in Threads :
          /\ ~Losing(t, o)
          /\ InFlight(t, o) => WithProgram(o)
          /\ \A u \in Threads : InFlight(t, o) /\ InFlight(u, o) => t = u

\* History: once a free is admitted the object rests in a free place until it
\* is vended again.
WinAt(o) ==
    /\ WithProgram(o) => ~Won(o)
    /\ Won(o) /\ Live(o) =>
          Central(o) \/ InFrontEnd(o) \/ \E t \in Threads : Owner(t, o)

\* Conservation: a correct program's objects are always somewhere.
LostAt(o) ==
    ~DoubleFrees /\ Live(o) =>
        \/ WithProgram(o) \/ Central(o) \/ InFrontEnd(o)
        \/ \E t \in Threads : Owner(t, o) \/ Vending(t, o)

ObjInv(o) == /\ CountAt(o) /\ MarkAt(o) /\ RouteAt(o) /\ PlaceAt(o)
             /\ VendAt(o) /\ FlightAt(o) /\ WinAt(o) /\ LostAt(o)

\* Spans: an empty-listed or retiring span has every object central-free, one
\* thread retires it, and none does while an insert is under way.
SpanInv(s) ==
    /\ listed[s] # "none" => span[s] = "Active"
    /\ listed[s] = "empty" => \A o \in ObjectsOf(s) : free[o]
    /\ DoubleFrees => tag[s] # "hinted" /\ span[s] # "Released"
    /\ \A t \in Threads :
          /\ Retiring(t, s) => /\ ~DoubleFrees /\ span[s] = "Active"
                               /\ listed[s] = "none"
                               /\ \A o \in ObjectsOf(s) : free[o]
          /\ Reclaiming(t, s) => ~DoubleFrees /\ span[s] = "Released"
          /\ InsertingIn(t, s) => /\ listed[s] # "empty"
                                  /\ \A u \in Threads : ~Retiring(u, s)
          /\ \A u \in Threads :
                /\ Retiring(t, s) \/ Reclaiming(t, s)
                /\ Retiring(u, s) \/ Reclaiming(u, s)
                => t = u

IInv ==
    /\ TypeOK
    /\ ring = {} /\ quar = [o \in Objects |-> FALSE]
    /\ evicted = [t \in Threads |-> {}]
    /\ \A t \in Threads : ControlAt(t)
    /\ \A s \in Spans : SpanInv(s)
    /\ \A o \in Objects : ObjInv(o)
-----------------------------------------------------------------------------
\* Thread t alone moved, to step l with object o on route v.
Moved(t, o, l, v) ==
    /\ pc'[t] = l /\ obj'[t] = o /\ via'[t] = v
    /\ \A u \in Threads : u # t =>
          pc'[u] = pc[u] /\ obj'[u] = obj[u] /\ via'[u] = via[u]

\* What u is to object x does not change.
SameRoles(u, x) ==
    /\ Marker(u, x)' <=> Marker(u, x)
    /\ Owner(u, x)' <=> Owner(u, x)
    /\ Vending(u, x)' <=> Vending(u, x)
    /\ InFlight(u, x)' <=> InFlight(u, x)
    /\ Revalidated(u, x)' <=> Revalidated(u, x)
    /\ Losing(u, x)' <=> Losing(u, x)
    /\ Inserting(u, x)' <=> Inserting(u, x)
    /\ ByFrontEnd(u, x)' <=> ByFrontEnd(u, x)
    /\ ByCentral(u, x)' <=> ByCentral(u, x)

\* The null values are fresh and every object has a span.
LEMMA NullsFresh == /\ NoObject \notin Objects /\ NoThread \notin Threads
                    /\ SpanOf \in [Objects -> Spans]
BY Zenon, FreeClaimAssumption

\* Take, Goto and Return move the calling thread alone.
LEMMA TakeMoves ==
    ASSUME TypeOK, NEW t \in Threads, NEW o, NEW l, NEW v, Take(t, o, l, v)
    PROVE  Moved(t, o, l, v)
BY Zenon DEF TypeOK, Take, Moved

\* The same for a step on with the same object ...
LEMMA GotoMoves ==
    ASSUME TypeOK, NEW t \in Threads, NEW l, Goto(t, l)
    PROVE  Moved(t, obj[t], l, via[t]) /\ evicted' = evicted
BY Zenon DEF TypeOK, Goto, Moved

\* ... and for the end of an operation.
LEMMA ReturnMoves ==
    ASSUME TypeOK, NEW t \in Threads, Return(t)
    PROVE  Moved(t, NoObject, "idle", "none") /\ evicted' = evicted
BY Zenon, TakeMoves DEF Return

\* A thread's roles towards an object change only by its own step on it.
LEMMA OthersStay ==
    ASSUME NEW t \in Threads, NEW o, NEW l, NEW v, Moved(t, o, l, v),
           NEW x \in Objects, NEW u \in Threads,
           u # t \/ (obj[t] # x /\ o # x)
    PROVE  SameRoles(u, x)
BY Zenon DEF Moved, SameRoles, Marker, Owner, Vending, InFlight, Revalidated,
       Losing, Inserting, ByFrontEnd, ByCentral

\* What the shared state says of object x does not change.
SameState(x) ==
    /\ Marked(x)' <=> Marked(x)
    /\ Central(x)' <=> Central(x)
    /\ WithProgram(x)' <=> WithProgram(x)
    /\ InFrontEnd(x)' <=> InFrontEnd(x)
    /\ Won(x)' <=> Won(x)
    /\ Live(x)' <=> Live(x)
    /\ Cacheable(x)' <=> Cacheable(x)

\* An object whose roles and state stay the same keeps its invariant.
LEMMA ObjectKept ==
    ASSUME NEW x \in Objects, ObjInv(x), CountAt(x)',
           \A u \in Threads : SameRoles(u, x), SameState(x)
    PROVE  ObjInv(x)'
<1>1. MarkAt(x)' BY Zenon DEF ObjInv, MarkAt, SameRoles, SameState
<1>2. RouteAt(x)' BY Zenon DEF ObjInv, RouteAt, SameRoles, SameState
<1>3. PlaceAt(x)' BY Zenon DEF ObjInv, PlaceAt, SameRoles, SameState
<1>4. VendAt(x)' BY Zenon DEF ObjInv, VendAt, SameRoles, SameState
<1>5. FlightAt(x)' BY Zenon DEF ObjInv, FlightAt, SameRoles, SameState
<1>6. WinAt(x)' BY Zenon DEF ObjInv, WinAt, SameRoles, SameState
<1>7. LostAt(x)' BY Zenon DEF ObjInv, LostAt, SameRoles, SameState
<1>8. QED BY Zenon, <1>1, <1>2, <1>3, <1>4, <1>5, <1>6, <1>7 DEF ObjInv

SpanRoles(u, s) ==
    /\ InsertingIn(u, s)' <=> InsertingIn(u, s)
    /\ Retiring(u, s)' <=> Retiring(u, s)
    /\ Reclaiming(u, s)' <=> Reclaiming(u, s)

\* A span whose roles and state stay the same keeps its invariant.
LEMMA SpanKept ==
    ASSUME NEW s \in Spans, SpanInv(s), \A u \in Threads : SpanRoles(u, s),
           \A o \in ObjectsOf(s) : free[o] => free'[o],
           listed'[s] = listed[s], span'[s] = span[s], tag'[s] = tag[s]
    PROVE  SpanInv(s)'
BY Zenon DEF SpanInv, SpanRoles, ObjectsOf

SpanSteps == {"insertQuar", "insertUnmark", "retire", "reclaim"}

\* The counters, when a step leaves them alone, ...
LEMMA CountsKept ==
    ASSUME NEW x \in Objects, CountAt(x), fe'[x] = fe[x], wins'[x] = wins[x]
    PROVE  CountAt(x)'
BY Zenon DEF CountAt

\* ... adds a front-end entry, ...
LEMMA EntryAdded ==
    ASSUME NEW x \in Objects, CountAt(x), ~InFrontEnd(x),
           fe'[x] = fe[x] + 1, wins'[x] = wins[x]
    PROVE  CountAt(x)' /\ InFrontEnd(x)'
BY DEF CountAt, InFrontEnd

\* ... takes one out, ...
LEMMA EntryTaken ==
    ASSUME NEW x \in Objects, CountAt(x), fe[x] > 0,
           fe'[x] = fe[x] - 1, wins'[x] = wins[x]
    PROVE  CountAt(x)' /\ InFrontEnd(x) /\ ~InFrontEnd(x)'
BY DEF CountAt, InFrontEnd

\* ... admits a free, ...
LEMMA WinAdded ==
    ASSUME NEW x \in Objects, CountAt(x), ~Won(x),
           fe'[x] = fe[x], wins'[x] = wins[x] + 1
    PROVE  CountAt(x)' /\ Won(x)'
BY DEF CountAt, Won

\* ... or vends the object.
LEMMA WinsReset ==
    ASSUME NEW x \in Objects, CountAt(x), fe'[x] = fe[x], wins'[x] = 0
    PROVE  CountAt(x)' /\ ~Won(x)'
BY DEF CountAt, Won

\* How the roles are related.
LEMMA RoleFacts ==
    ASSUME NEW u \in Threads, NEW x \in Objects
    PROVE  /\ Owner(u, x) => Marker(u, x)
           /\ Revalidated(u, x) => Marker(u, x) /\ InFlight(u, x)
           /\ Marker(u, x) => \/ Owner(u, x) \/ InFlight(u, x)
                              \/ Losing(u, x) \/ Inserting(u, x)
BY Zenon DEF Marker, Owner, InFlight, Revalidated, Losing, Inserting

\* A step outside the bin lock and outside retirement touches one object.
LEMMA QuietStep ==
    ASSUME IInv, TypeOK', NEW t \in Threads, NEW o \in Objects,
           NEW p, NEW l, NEW v, Moved(t, p, l, v),
           obj[t] \in {o, NoObject}, p \in {o, NoObject},
           pc[t] \notin SpanSteps, l \notin SpanSteps,
           UNCHANGED <<free, span, listed, tag, lock, quar, ring, evicted>>,
           \A x \in Objects \ {o} : /\ cached'[x] = cached[x] /\ app'[x] = app[x]
                                    /\ fe'[x] = fe[x] /\ wins'[x] = wins[x],
           ControlAt(t)', ObjInv(o)'
    PROVE  IInv'
<1>1. ASSUME NEW u \in Threads PROVE ControlAt(u)'
  BY DEF IInv, ControlAt, Moved
<1>2. ASSUME NEW s \in Spans PROVE SpanInv(s)'
  <2>1. ASSUME NEW u \in Threads PROVE SpanRoles(u, s)
    BY Zenon DEF Moved, SpanSteps, SpanRoles, InsertingIn, Retiring, Reclaiming
  <2>2. QED BY Zenon, <2>1, SpanKept DEF IInv
<1>3. ASSUME NEW x \in Objects, x # o PROVE ObjInv(x)'
  <2>1. ObjInv(x) /\ obj[t] # x /\ p # x BY <1>3, NullsFresh DEF IInv
  <2>2. ASSUME NEW u \in Threads PROVE SameRoles(u, x) BY Zenon, <2>1, OthersStay
  <2>3. SameState(x) /\ CountAt(x)'
    BY Zenon, <1>3, <2>1 DEF ObjInv, CountAt, SameState, Marked, Central, WithProgram,
         InFrontEnd, Won, Live, Cacheable
  <2>4. QED BY Zenon, <1>3, <2>1, <2>2, <2>3, ObjectKept
<1>4. QED BY Zenon, <1>1, <1>2, <1>3 DEF IInv

\* The screen of free_with, first load.
LEMMA ScreenCachedInv ==
    ASSUME IInv, Covered, TypeOK', NEW t \in Threads, ScreenCached(t)
    PROVE  IInv'
<1>1. TypeOK /\ ControlAt(t) BY Zenon DEF IInv
<1>2. PICK o \in Objects : o = obj[t] BY Zenon, <1>1 DEF ControlAt, ScreenCached
<1>3. ObjInv(o) BY Zenon, <1>2 DEF IInv
<1>4. pc[t] = "screenCached" /\ obj[t] = o /\ via[t] = "none" /\ lock # t
  BY Zenon, <1>1, <1>2 DEF ControlAt, ScreenCached
<1>5. /\ ~Marker(t, o) /\ ~Owner(t, o) /\ ~Vending(t, o) /\ InFlight(t, o)
      /\ ~Revalidated(t, o) /\ ~Losing(t, o) /\ ~Inserting(t, o)
      /\ ~ByFrontEnd(t, o) /\ ~ByCentral(t, o)
  BY Zenon, <1>4, NullsFresh
    DEF Marker, Owner, Vending, InFlight, Revalidated, Losing, Inserting,
        ByFrontEnd, ByCentral
<1>6. /\ UNCHANGED <<cached, free, app, fe, span, listed, tag, lock, wins>>
      /\ \/ Moved(t, NoObject, "idle", "none")
         \/ Moved(t, o, "screenCentral", "none")
  BY Zenon, <1>1, <1>4, GotoMoves, ReturnMoves
    DEF TypeOK, ScreenCached, markers, central
<1>7. /\ UNCHANGED <<quar, ring, evicted>>
      /\ \A x \in Objects \ {o} : /\ cached'[x] = cached[x] /\ app'[x] = app[x]
                                     /\ fe'[x] = fe[x] /\ wins'[x] = wins[x]
  BY Zenon, <1>1, <1>2, GotoMoves, ReturnMoves
    DEF TypeOK, Covered, ScreenCached, markers, central
<1>8. CASE Moved(t, NoObject, "idle", "none")
  <2>1. ControlAt(t)'
    BY Zenon, <1>4, <1>6, <1>8 DEF ControlAt, Moved
  <2>2. /\ ~Marker(t, o)' /\ ~Owner(t, o)' /\ ~Vending(t, o)'
        /\ ~InFlight(t, o)' /\ ~Revalidated(t, o)' /\ ~Losing(t, o)'
        /\ ~Inserting(t, o)' /\ ~ByFrontEnd(t, o)' /\ ~ByCentral(t, o)'
    BY Zenon, <1>4, <1>6, <1>8, NullsFresh
      DEF Moved, Marker, Owner, Vending, InFlight, Revalidated, Losing,
          Inserting, ByFrontEnd, ByCentral
  <2>3. ASSUME NEW u \in Threads, u # t PROVE SameRoles(u, o)
    BY Zenon, <1>6, <1>8, <2>3, OthersStay
  <2>4. /\ CountAt(o)'
    BY Zenon, <1>3, <1>6, <1>8, CountsKept DEF ObjInv
  <2>5. /\ (Marked(o)' <=> Marked(o)) /\ (Central(o)' <=> Central(o))
        /\ (WithProgram(o)' <=> WithProgram(o))
        /\ (InFrontEnd(o)' <=> InFrontEnd(o)) /\ (Won(o)' <=> Won(o))
        /\ (Live(o)' <=> Live(o)) /\ (Cacheable(o)' <=> Cacheable(o))
    BY Zenon, <1>6, <1>8
      DEF Marked, Central, WithProgram, InFrontEnd, Won, Live, Cacheable
  <2>6. MarkAt(o)'
    BY Zenon, <1>3, <1>5, <2>2, <2>3, <2>4, <2>5 DEF ObjInv, MarkAt, SameRoles
  <2>7. RouteAt(o)'
    BY Zenon, <1>3, <1>5, <2>2, <2>3, <2>4, <2>5
      DEF ObjInv, RouteAt, SameRoles
  <2>8. PlaceAt(o)'
    BY Zenon, <1>3, <1>5, <2>2, <2>3, <2>4, <2>5
      DEF ObjInv, PlaceAt, SameRoles
  <2>9. VendAt(o)'
    BY Zenon, <1>3, <1>5, <2>2, <2>3, <2>4, <2>5 DEF ObjInv, VendAt, SameRoles
  <2>10. FlightAt(o)'
    BY Zenon, <1>3, <1>5, <2>2, <2>3, <2>4, <2>5
      DEF ObjInv, FlightAt, SameRoles
  <2>11. WinAt(o)'
    BY Zenon, <1>3, <1>5, <2>2, <2>3, <2>4, <2>5 DEF ObjInv, WinAt, SameRoles
  <2>12. LostAt(o)'
    BY Zenon, <1>3, <1>5, <2>2, <2>3, <2>4, <2>5 DEF ObjInv, LostAt, SameRoles
  <2>13. ObjInv(o)'
    BY Zenon, <2>4, <2>6, <2>7, <2>8, <2>9, <2>10, <2>11, <2>12 DEF ObjInv
  <2>14. QED
    BY Zenon, <1>4, <1>6, <1>7, <1>8, <2>1, <2>13, QuietStep, NullsFresh
      DEF SpanSteps
<1>9. CASE Moved(t, o, "screenCentral", "none")
  <2>1. ControlAt(t)'
    BY Zenon, <1>4, <1>6, <1>9 DEF ControlAt, Moved
  <2>2. /\ ~Marker(t, o)' /\ ~Owner(t, o)' /\ ~Vending(t, o)'
        /\ InFlight(t, o)' /\ ~Revalidated(t, o)' /\ ~Losing(t, o)'
        /\ ~Inserting(t, o)' /\ ~ByFrontEnd(t, o)' /\ ~ByCentral(t, o)'
    BY Zenon, <1>4, <1>6, <1>9, NullsFresh
      DEF Moved, Marker, Owner, Vending, InFlight, Revalidated, Losing,
          Inserting, ByFrontEnd, ByCentral
  <2>3. ASSUME NEW u \in Threads, u # t PROVE SameRoles(u, o)
    BY Zenon, <1>6, <1>9, <2>3, OthersStay
  <2>4. /\ CountAt(o)'
    BY Zenon, <1>3, <1>6, <1>9, CountsKept DEF ObjInv
  <2>5. /\ (Marked(o)' <=> Marked(o)) /\ (Central(o)' <=> Central(o))
        /\ (WithProgram(o)' <=> WithProgram(o))
        /\ (InFrontEnd(o)' <=> InFrontEnd(o)) /\ (Won(o)' <=> Won(o))
        /\ (Live(o)' <=> Live(o)) /\ (Cacheable(o)' <=> Cacheable(o))
    BY Zenon, <1>6, <1>9
      DEF Marked, Central, WithProgram, InFrontEnd, Won, Live, Cacheable
  <2>6. MarkAt(o)'
    BY Zenon, <1>3, <1>5, <2>2, <2>3, <2>4, <2>5 DEF ObjInv, MarkAt, SameRoles
  <2>7. RouteAt(o)'
    BY Zenon, <1>3, <1>5, <2>2, <2>3, <2>4, <2>5
      DEF ObjInv, RouteAt, SameRoles
  <2>8. PlaceAt(o)'
    BY Zenon, <1>3, <1>5, <2>2, <2>3, <2>4, <2>5
      DEF ObjInv, PlaceAt, SameRoles
  <2>9. VendAt(o)'
    BY Zenon, <1>3, <1>5, <2>2, <2>3, <2>4, <2>5 DEF ObjInv, VendAt, SameRoles
  <2>10. FlightAt(o)'
    BY Zenon, <1>3, <1>5, <2>2, <2>3, <2>4, <2>5
      DEF ObjInv, FlightAt, SameRoles
  <2>11. WinAt(o)'
    BY Zenon, <1>3, <1>5, <2>2, <2>3, <2>4, <2>5 DEF ObjInv, WinAt, SameRoles
  <2>12. LostAt(o)'
    BY Zenon, <1>3, <1>5, <2>2, <2>3, <2>4, <2>5 DEF ObjInv, LostAt, SameRoles
  <2>13. ObjInv(o)'
    BY Zenon, <2>4, <2>6, <2>7, <2>8, <2>9, <2>10, <2>11, <2>12 DEF ObjInv
  <2>14. QED
    BY Zenon, <1>4, <1>6, <1>7, <1>9, <2>1, <2>13, QuietStep, NullsFresh
      DEF SpanSteps
<1>10. QED BY Zenon, <1>6, <1>8, <1>9

\* The screen of free_with, second load, and the choice of the route.
LEMMA ScreenCentralInv ==
    ASSUME IInv, Covered, TypeOK', NEW t \in Threads, ScreenCentral(t)
    PROVE  IInv'
<1>1. TypeOK /\ ControlAt(t) BY Zenon DEF IInv
<1>2. PICK o \in Objects : o = obj[t] BY Zenon, <1>1 DEF ControlAt, ScreenCentral
<1>3. ObjInv(o) BY Zenon, <1>2 DEF IInv
<1>4. pc[t] = "screenCentral" /\ obj[t] = o /\ via[t] = "none" /\ lock # t
  BY Zenon, <1>1, <1>2 DEF ControlAt, ScreenCentral
<1>5. /\ ~Marker(t, o) /\ ~Owner(t, o) /\ ~Vending(t, o) /\ InFlight(t, o)
      /\ ~Revalidated(t, o) /\ ~Losing(t, o) /\ ~Inserting(t, o)
      /\ ~ByFrontEnd(t, o) /\ ~ByCentral(t, o)
  BY Zenon, <1>4, NullsFresh
    DEF Marker, Owner, Vending, InFlight, Revalidated, Losing, Inserting,
        ByFrontEnd, ByCentral
<1>6. /\ UNCHANGED <<cached, free, app, fe, span, listed, tag, lock, wins>>
      /\ \/ Moved(t, NoObject, "idle", "none")
         \/ Cacheable(o) /\ Moved(t, o, "mark", "cached")
         \/ ~Cacheable(o) /\ Moved(t, o, "insert", "plain")
  BY Zenon, <1>1, <1>4, TakeMoves
    DEF TypeOK, ScreenCentral, markers, central, Covered
<1>7. /\ UNCHANGED <<quar, ring, evicted>>
      /\ \A x \in Objects \ {o} : /\ cached'[x] = cached[x] /\ app'[x] = app[x]
                                     /\ fe'[x] = fe[x] /\ wins'[x] = wins[x]
  BY Zenon, <1>1, <1>2, TakeMoves
    DEF TypeOK, Covered, ScreenCentral, markers, central
<1>8. CASE Moved(t, NoObject, "idle", "none")
  <2>1. ControlAt(t)'
    BY Zenon, <1>4, <1>6, <1>8 DEF ControlAt, Moved
  <2>2. /\ ~Marker(t, o)' /\ ~Owner(t, o)' /\ ~Vending(t, o)'
        /\ ~InFlight(t, o)' /\ ~Revalidated(t, o)' /\ ~Losing(t, o)'
        /\ ~Inserting(t, o)' /\ ~ByFrontEnd(t, o)' /\ ~ByCentral(t, o)'
    BY Zenon, <1>4, <1>6, <1>8, NullsFresh
      DEF Moved, Marker, Owner, Vending, InFlight, Revalidated, Losing,
          Inserting, ByFrontEnd, ByCentral
  <2>3. ASSUME NEW u \in Threads, u # t PROVE SameRoles(u, o)
    BY Zenon, <1>6, <1>8, <2>3, OthersStay
  <2>4. /\ CountAt(o)'
    BY Zenon, <1>3, <1>6, <1>8, CountsKept DEF ObjInv
  <2>5. /\ (Marked(o)' <=> Marked(o)) /\ (Central(o)' <=> Central(o))
        /\ (WithProgram(o)' <=> WithProgram(o))
        /\ (InFrontEnd(o)' <=> InFrontEnd(o)) /\ (Won(o)' <=> Won(o))
        /\ (Live(o)' <=> Live(o)) /\ (Cacheable(o)' <=> Cacheable(o))
    BY Zenon, <1>6, <1>8
      DEF Marked, Central, WithProgram, InFrontEnd, Won, Live, Cacheable
  <2>6. MarkAt(o)'
    BY Zenon, <1>3, <1>5, <2>2, <2>3, <2>4, <2>5 DEF ObjInv, MarkAt, SameRoles
  <2>7. RouteAt(o)'
    BY Zenon, <1>3, <1>5, <2>2, <2>3, <2>4, <2>5
      DEF ObjInv, RouteAt, SameRoles
  <2>8. PlaceAt(o)'
    BY Zenon, <1>3, <1>5, <2>2, <2>3, <2>4, <2>5
      DEF ObjInv, PlaceAt, SameRoles
  <2>9. VendAt(o)'
    BY Zenon, <1>3, <1>5, <2>2, <2>3, <2>4, <2>5 DEF ObjInv, VendAt, SameRoles
  <2>10. FlightAt(o)'
    BY Zenon, <1>3, <1>5, <2>2, <2>3, <2>4, <2>5
      DEF ObjInv, FlightAt, SameRoles
  <2>11. WinAt(o)'
    BY Zenon, <1>3, <1>5, <2>2, <2>3, <2>4, <2>5 DEF ObjInv, WinAt, SameRoles
  <2>12. LostAt(o)'
    BY Zenon, <1>3, <1>5, <2>2, <2>3, <2>4, <2>5 DEF ObjInv, LostAt, SameRoles
  <2>13. ObjInv(o)'
    BY Zenon, <2>4, <2>6, <2>7, <2>8, <2>9, <2>10, <2>11, <2>12 DEF ObjInv
  <2>14. QED
    BY Zenon, <1>4, <1>6, <1>7, <1>8, <2>1, <2>13, QuietStep, NullsFresh
      DEF SpanSteps
<1>9. CASE Cacheable(o) /\ Moved(t, o, "mark", "cached")
  <2>1. ControlAt(t)'
    BY Zenon, <1>4, <1>6, <1>9 DEF ControlAt, Moved
  <2>2. /\ ~Marker(t, o)' /\ ~Owner(t, o)' /\ ~Vending(t, o)'
        /\ InFlight(t, o)' /\ ~Revalidated(t, o)' /\ ~Losing(t, o)'
        /\ ~Inserting(t, o)' /\ ByFrontEnd(t, o)' /\ ~ByCentral(t, o)'
    BY Zenon, <1>4, <1>6, <1>9, NullsFresh
      DEF Moved, Marker, Owner, Vending, InFlight, Revalidated, Losing,
          Inserting, ByFrontEnd, ByCentral
  <2>3. ASSUME NEW u \in Threads, u # t PROVE SameRoles(u, o)
    BY Zenon, <1>6, <1>9, <2>3, OthersStay
  <2>4. /\ CountAt(o)' /\ Cacheable(o)
    BY Zenon, <1>3, <1>6, <1>9, CountsKept DEF ObjInv, Cacheable
  <2>5. /\ (Marked(o)' <=> Marked(o)) /\ (Central(o)' <=> Central(o))
        /\ (WithProgram(o)' <=> WithProgram(o))
        /\ (InFrontEnd(o)' <=> InFrontEnd(o)) /\ (Won(o)' <=> Won(o))
        /\ (Live(o)' <=> Live(o)) /\ (Cacheable(o)' <=> Cacheable(o))
    BY Zenon, <1>6, <1>9
      DEF Marked, Central, WithProgram, InFrontEnd, Won, Live, Cacheable
  <2>6. MarkAt(o)'
    BY Zenon, <1>3, <1>5, <2>2, <2>3, <2>4, <2>5 DEF ObjInv, MarkAt, SameRoles
  <2>7. RouteAt(o)'
    BY Zenon, <1>3, <1>5, <2>2, <2>3, <2>4, <2>5
      DEF ObjInv, RouteAt, SameRoles
  <2>8. PlaceAt(o)'
    BY Zenon, <1>3, <1>5, <2>2, <2>3, <2>4, <2>5
      DEF ObjInv, PlaceAt, SameRoles
  <2>9. VendAt(o)'
    BY Zenon, <1>3, <1>5, <2>2, <2>3, <2>4, <2>5 DEF ObjInv, VendAt, SameRoles
  <2>10. FlightAt(o)'
    BY Zenon, <1>3, <1>5, <2>2, <2>3, <2>4, <2>5
      DEF ObjInv, FlightAt, SameRoles
  <2>11. WinAt(o)'
    BY Zenon, <1>3, <1>5, <2>2, <2>3, <2>4, <2>5 DEF ObjInv, WinAt, SameRoles
  <2>12. LostAt(o)'
    BY Zenon, <1>3, <1>5, <2>2, <2>3, <2>4, <2>5 DEF ObjInv, LostAt, SameRoles
  <2>13. ObjInv(o)'
    BY Zenon, <2>4, <2>6, <2>7, <2>8, <2>9, <2>10, <2>11, <2>12 DEF ObjInv
  <2>14. QED
    BY Zenon, <1>4, <1>6, <1>7, <1>9, <2>1, <2>13, QuietStep, NullsFresh
      DEF SpanSteps
<1>10. CASE ~Cacheable(o) /\ Moved(t, o, "insert", "plain")
  <2>1. ControlAt(t)'
    BY Zenon, <1>4, <1>6, <1>10 DEF ControlAt, Moved
  <2>2. /\ ~Marker(t, o)' /\ ~Owner(t, o)' /\ ~Vending(t, o)'
        /\ InFlight(t, o)' /\ ~Revalidated(t, o)' /\ ~Losing(t, o)'
        /\ ~Inserting(t, o)' /\ ~ByFrontEnd(t, o)' /\ ByCentral(t, o)'
    BY Zenon, <1>4, <1>6, <1>10, NullsFresh
      DEF Moved, Marker, Owner, Vending, InFlight, Revalidated, Losing,
          Inserting, ByFrontEnd, ByCentral
  <2>3. ASSUME NEW u \in Threads, u # t PROVE SameRoles(u, o)
    BY Zenon, <1>6, <1>10, <2>3, OthersStay
  <2>4. /\ CountAt(o)' /\ ~Cacheable(o)
    BY Zenon, <1>3, <1>6, <1>10, CountsKept DEF ObjInv, Cacheable
  <2>5. /\ (Marked(o)' <=> Marked(o)) /\ (Central(o)' <=> Central(o))
        /\ (WithProgram(o)' <=> WithProgram(o))
        /\ (InFrontEnd(o)' <=> InFrontEnd(o)) /\ (Won(o)' <=> Won(o))
        /\ (Live(o)' <=> Live(o)) /\ (Cacheable(o)' <=> Cacheable(o))
    BY Zenon, <1>6, <1>10
      DEF Marked, Central, WithProgram, InFrontEnd, Won, Live, Cacheable
  <2>6. MarkAt(o)'
    BY Zenon, <1>3, <1>5, <2>2, <2>3, <2>4, <2>5 DEF ObjInv, MarkAt, SameRoles
  <2>7. RouteAt(o)'
    BY Zenon, <1>3, <1>5, <2>2, <2>3, <2>4, <2>5
      DEF ObjInv, RouteAt, SameRoles
  <2>8. PlaceAt(o)'
    BY Zenon, <1>3, <1>5, <2>2, <2>3, <2>4, <2>5
      DEF ObjInv, PlaceAt, SameRoles
  <2>9. VendAt(o)'
    BY Zenon, <1>3, <1>5, <2>2, <2>3, <2>4, <2>5 DEF ObjInv, VendAt, SameRoles
  <2>10. FlightAt(o)'
    BY Zenon, <1>3, <1>5, <2>2, <2>3, <2>4, <2>5
      DEF ObjInv, FlightAt, SameRoles
  <2>11. WinAt(o)'
    BY Zenon, <1>3, <1>5, <2>2, <2>3, <2>4, <2>5 DEF ObjInv, WinAt, SameRoles
  <2>12. LostAt(o)'
    BY Zenon, <1>3, <1>5, <2>2, <2>3, <2>4, <2>5 DEF ObjInv, LostAt, SameRoles
  <2>13. ObjInv(o)'
    BY Zenon, <2>4, <2>6, <2>7, <2>8, <2>9, <2>10, <2>11, <2>12 DEF ObjInv
  <2>14. QED
    BY Zenon, <1>4, <1>6, <1>7, <1>10, <2>1, <2>13, QuietStep, NullsFresh
      DEF SpanSteps
<1>11. QED BY Zenon, <1>6, <1>8, <1>9, <1>10

\* try_mark_cached: one of the racing frees becomes the marker.
LEMMA TryMarkCachedInv ==
    ASSUME IInv, Covered, TypeOK', NEW t \in Threads, TryMarkCached(t)
    PROVE  IInv'
<1>1. TypeOK /\ ControlAt(t) BY Zenon DEF IInv
<1>2. PICK o \in Objects : o = obj[t] BY Zenon, <1>1 DEF ControlAt, TryMarkCached
<1>3. ObjInv(o) BY Zenon, <1>2 DEF IInv
<1>4. pc[t] = "mark" /\ obj[t] = o /\ via[t] = "cached" /\ lock # t
  BY Zenon, <1>1, <1>2 DEF ControlAt, TryMarkCached
<1>5. /\ ~Marker(t, o) /\ ~Owner(t, o) /\ ~Vending(t, o) /\ InFlight(t, o)
      /\ ~Revalidated(t, o) /\ ~Losing(t, o) /\ ~Inserting(t, o)
      /\ ByFrontEnd(t, o) /\ ~ByCentral(t, o)
  BY Zenon, <1>4, NullsFresh
    DEF Marker, Owner, Vending, InFlight, Revalidated, Losing, Inserting,
        ByFrontEnd, ByCentral
<1>6. /\ UNCHANGED <<free, app, fe, span, listed, tag, lock, wins>>
      /\ \/ cached' = cached /\ Moved(t, NoObject, "idle", "none")
         \/ ~cached[o] /\ cached'[o] /\ Moved(t, o, "revalCentral", "cached")
  BY <1>1, <1>4, GotoMoves, ReturnMoves
    DEF TypeOK, TryMarkCached, markers, central
<1>7. /\ UNCHANGED <<quar, ring, evicted>>
      /\ \A x \in Objects \ {o} : /\ cached'[x] = cached[x] /\ app'[x] = app[x]
                                     /\ fe'[x] = fe[x] /\ wins'[x] = wins[x]
  BY <1>1, <1>2, GotoMoves, ReturnMoves
    DEF TypeOK, Covered, TryMarkCached, markers, central
<1>8. CASE cached' = cached /\ Moved(t, NoObject, "idle", "none")
  <2>1. ControlAt(t)'
    BY Zenon, <1>4, <1>6, <1>8 DEF ControlAt, Moved
  <2>2. /\ ~Marker(t, o)' /\ ~Owner(t, o)' /\ ~Vending(t, o)'
        /\ ~InFlight(t, o)' /\ ~Revalidated(t, o)' /\ ~Losing(t, o)'
        /\ ~Inserting(t, o)' /\ ~ByFrontEnd(t, o)' /\ ~ByCentral(t, o)'
    BY Zenon, <1>4, <1>6, <1>8, NullsFresh
      DEF Moved, Marker, Owner, Vending, InFlight, Revalidated, Losing,
          Inserting, ByFrontEnd, ByCentral
  <2>3. ASSUME NEW u \in Threads, u # t PROVE SameRoles(u, o)
    BY Zenon, <1>6, <1>8, <2>3, OthersStay
  <2>4. /\ CountAt(o)'
    BY Zenon, <1>3, <1>6, <1>8, CountsKept DEF ObjInv
  <2>5. /\ (Marked(o)' <=> Marked(o)) /\ (Central(o)' <=> Central(o))
        /\ (WithProgram(o)' <=> WithProgram(o))
        /\ (InFrontEnd(o)' <=> InFrontEnd(o)) /\ (Won(o)' <=> Won(o))
        /\ (Live(o)' <=> Live(o)) /\ (Cacheable(o)' <=> Cacheable(o))
    BY Zenon, <1>6, <1>8
      DEF Marked, Central, WithProgram, InFrontEnd, Won, Live, Cacheable
  <2>6. MarkAt(o)'
    BY Zenon, <1>3, <1>5, <2>2, <2>3, <2>4, <2>5 DEF ObjInv, MarkAt, SameRoles
  <2>7. RouteAt(o)'
    BY Zenon, <1>3, <1>5, <2>2, <2>3, <2>4, <2>5
      DEF ObjInv, RouteAt, SameRoles
  <2>8. PlaceAt(o)'
    BY Zenon, <1>3, <1>5, <2>2, <2>3, <2>4, <2>5
      DEF ObjInv, PlaceAt, SameRoles
  <2>9. VendAt(o)'
    BY Zenon, <1>3, <1>5, <2>2, <2>3, <2>4, <2>5 DEF ObjInv, VendAt, SameRoles
  <2>10. FlightAt(o)'
    BY Zenon, <1>3, <1>5, <2>2, <2>3, <2>4, <2>5
      DEF ObjInv, FlightAt, SameRoles
  <2>11. WinAt(o)'
    BY Zenon, <1>3, <1>5, <2>2, <2>3, <2>4, <2>5 DEF ObjInv, WinAt, SameRoles
  <2>12. LostAt(o)'
    BY Zenon, <1>3, <1>5, <2>2, <2>3, <2>4, <2>5 DEF ObjInv, LostAt, SameRoles
  <2>13. ObjInv(o)'
    BY Zenon, <2>4, <2>6, <2>7, <2>8, <2>9, <2>10, <2>11, <2>12 DEF ObjInv
  <2>14. QED
    BY Zenon, <1>4, <1>6, <1>7, <1>8, <2>1, <2>13, QuietStep, NullsFresh
      DEF SpanSteps
<1>9. CASE ~cached[o] /\ cached'[o] /\ Moved(t, o, "revalCentral", "cached")
  <2>1. ControlAt(t)'
    BY Zenon, <1>4, <1>6, <1>9 DEF ControlAt, Moved
  <2>2. /\ Marker(t, o)' /\ ~Owner(t, o)' /\ ~Vending(t, o)'
        /\ InFlight(t, o)' /\ ~Revalidated(t, o)' /\ ~Losing(t, o)'
        /\ ~Inserting(t, o)' /\ ~ByFrontEnd(t, o)' /\ ~ByCentral(t, o)'
    BY Zenon, <1>4, <1>6, <1>9, NullsFresh
      DEF Moved, Marker, Owner, Vending, InFlight, Revalidated, Losing,
          Inserting, ByFrontEnd, ByCentral
  <2>3. ASSUME NEW u \in Threads, u # t PROVE SameRoles(u, o)
    BY Zenon, <1>6, <1>9, <2>3, OthersStay
  <2>4. /\ CountAt(o)' /\ ~Marked(o) /\ Marked(o)'
    BY Zenon, <1>3, <1>6, <1>9, CountsKept DEF ObjInv, Marked
  <2>5. /\ (Central(o)' <=> Central(o))
        /\ (WithProgram(o)' <=> WithProgram(o))
        /\ (InFrontEnd(o)' <=> InFrontEnd(o)) /\ (Won(o)' <=> Won(o))
        /\ (Live(o)' <=> Live(o)) /\ (Cacheable(o)' <=> Cacheable(o))
    BY Zenon, <1>6, <1>9
      DEF Central, WithProgram, InFrontEnd, Won, Live, Cacheable
  <2>6. MarkAt(o)'
    BY Zenon, <1>3, <1>5, <2>2, <2>3, <2>4, <2>5, RoleFacts
      DEF ObjInv, MarkAt, RouteAt, SameRoles
  <2>7. RouteAt(o)'
    BY Zenon, <1>3, <1>5, <2>2, <2>3, <2>4, <2>5
      DEF ObjInv, RouteAt, SameRoles
  <2>8. PlaceAt(o)'
    BY Zenon, <1>3, <1>5, <2>2, <2>3, <2>4, <2>5
      DEF ObjInv, PlaceAt, SameRoles
  <2>9. VendAt(o)'
    BY Zenon, <1>3, <1>5, <2>2, <2>3, <2>4, <2>5 DEF ObjInv, VendAt, SameRoles
  <2>10. FlightAt(o)'
    BY Zenon, <1>3, <1>5, <2>2, <2>3, <2>4, <2>5
      DEF ObjInv, FlightAt, SameRoles
  <2>11. WinAt(o)'
    BY Zenon, <1>3, <1>5, <2>2, <2>3, <2>4, <2>5 DEF ObjInv, WinAt, SameRoles
  <2>12. LostAt(o)'
    BY Zenon, <1>3, <1>5, <2>2, <2>3, <2>4, <2>5 DEF ObjInv, LostAt, SameRoles
  <2>13. ObjInv(o)'
    BY Zenon, <2>4, <2>6, <2>7, <2>8, <2>9, <2>10, <2>11, <2>12 DEF ObjInv
  <2>14. QED
    BY Zenon, <1>4, <1>6, <1>7, <1>9, <2>1, <2>13, QuietStep, NullsFresh
      DEF SpanSteps
<1>10. QED BY Zenon, <1>6, <1>8, <1>9

\* The marker looks at the central bit again.
LEMMA RevalidateCentralInv ==
    ASSUME IInv, Covered, TypeOK', NEW t \in Threads, RevalidateCentral(t)
    PROVE  IInv'
<1>1. TypeOK /\ ControlAt(t) BY Zenon DEF IInv
<1>2. PICK o \in Objects : o = obj[t] BY Zenon, <1>1 DEF ControlAt, RevalidateCentral
<1>3. ObjInv(o) BY Zenon, <1>2 DEF IInv
<1>4. pc[t] = "revalCentral" /\ obj[t] = o /\ via[t] = "cached" /\ lock # t
  BY Zenon, <1>1, <1>2 DEF ControlAt, RevalidateCentral
<1>5. /\ Marker(t, o) /\ ~Owner(t, o) /\ ~Vending(t, o) /\ InFlight(t, o)
      /\ ~Revalidated(t, o) /\ ~Losing(t, o) /\ ~Inserting(t, o)
      /\ ~ByFrontEnd(t, o) /\ ~ByCentral(t, o)
  BY Zenon, <1>4, NullsFresh
    DEF Marker, Owner, Vending, InFlight, Revalidated, Losing, Inserting,
        ByFrontEnd, ByCentral
<1>6. /\ UNCHANGED <<cached, free, app, fe, span, listed, tag, lock, wins>>
      /\ \/ free[o] /\ Moved(t, o, "unmark", "cached")
         \/ ~free[o] /\ Moved(t, o, "revalQuar", "cached")
  BY <1>1, <1>4, GotoMoves, ReturnMoves
    DEF TypeOK, RevalidateCentral, markers, central
<1>7. /\ UNCHANGED <<quar, ring, evicted>>
      /\ \A x \in Objects \ {o} : /\ cached'[x] = cached[x] /\ app'[x] = app[x]
                                     /\ fe'[x] = fe[x] /\ wins'[x] = wins[x]
  BY Zenon, <1>1, <1>2, GotoMoves, ReturnMoves
    DEF TypeOK, Covered, RevalidateCentral, markers, central
<1>8. CASE free[o] /\ Moved(t, o, "unmark", "cached")
  <2>1. ControlAt(t)'
    BY Zenon, <1>4, <1>6, <1>8 DEF ControlAt, Moved
  <2>2. /\ Marker(t, o)' /\ ~Owner(t, o)' /\ ~Vending(t, o)'
        /\ ~InFlight(t, o)' /\ ~Revalidated(t, o)' /\ Losing(t, o)'
        /\ ~Inserting(t, o)' /\ ~ByFrontEnd(t, o)' /\ ~ByCentral(t, o)'
    BY Zenon, <1>4, <1>6, <1>8, NullsFresh
      DEF Moved, Marker, Owner, Vending, InFlight, Revalidated, Losing,
          Inserting, ByFrontEnd, ByCentral
  <2>3. ASSUME NEW u \in Threads, u # t PROVE SameRoles(u, o)
    BY Zenon, <1>6, <1>8, <2>3, OthersStay
  <2>4. /\ CountAt(o)' /\ Central(o)
    BY Zenon, <1>3, <1>6, <1>8, CountsKept DEF ObjInv, Central
  <2>5. /\ (Marked(o)' <=> Marked(o)) /\ (Central(o)' <=> Central(o))
        /\ (WithProgram(o)' <=> WithProgram(o))
        /\ (InFrontEnd(o)' <=> InFrontEnd(o)) /\ (Won(o)' <=> Won(o))
        /\ (Live(o)' <=> Live(o)) /\ (Cacheable(o)' <=> Cacheable(o))
    BY Zenon, <1>6, <1>8
      DEF Marked, Central, WithProgram, InFrontEnd, Won, Live, Cacheable
  <2>6. MarkAt(o)'
    BY Zenon, <1>3, <1>5, <2>2, <2>3, <2>4, <2>5 DEF ObjInv, MarkAt, SameRoles
  <2>7. RouteAt(o)'
    BY Zenon, <1>3, <1>5, <2>2, <2>3, <2>4, <2>5
      DEF ObjInv, RouteAt, SameRoles
  <2>8. PlaceAt(o)'
    BY Zenon, <1>3, <1>5, <2>2, <2>3, <2>4, <2>5
      DEF ObjInv, PlaceAt, SameRoles
  <2>9. VendAt(o)'
    BY Zenon, <1>3, <1>5, <2>2, <2>3, <2>4, <2>5 DEF ObjInv, VendAt, SameRoles
  <2>10. FlightAt(o)'
    BY Zenon, <1>3, <1>5, <2>2, <2>3, <2>4, <2>5, RoleFacts
      DEF ObjInv, FlightAt, PlaceAt, SameRoles
  <2>11. WinAt(o)'
    BY Zenon, <1>3, <1>5, <2>2, <2>3, <2>4, <2>5 DEF ObjInv, WinAt, SameRoles
  <2>12. LostAt(o)'
    BY Zenon, <1>3, <1>5, <2>2, <2>3, <2>4, <2>5 DEF ObjInv, LostAt, SameRoles
  <2>13. ObjInv(o)'
    BY Zenon, <2>4, <2>6, <2>7, <2>8, <2>9, <2>10, <2>11, <2>12 DEF ObjInv
  <2>14. QED
    BY Zenon, <1>4, <1>6, <1>7, <1>8, <2>1, <2>13, QuietStep, NullsFresh
      DEF SpanSteps
<1>9. CASE ~free[o] /\ Moved(t, o, "revalQuar", "cached")
  <2>1. ControlAt(t)'
    BY Zenon, <1>4, <1>6, <1>9 DEF ControlAt, Moved
  <2>2. /\ Marker(t, o)' /\ ~Owner(t, o)' /\ ~Vending(t, o)'
        /\ InFlight(t, o)' /\ Revalidated(t, o)' /\ ~Losing(t, o)'
        /\ ~Inserting(t, o)' /\ ~ByFrontEnd(t, o)' /\ ~ByCentral(t, o)'
    BY Zenon, <1>4, <1>6, <1>9, NullsFresh
      DEF Moved, Marker, Owner, Vending, InFlight, Revalidated, Losing,
          Inserting, ByFrontEnd, ByCentral
  <2>3. ASSUME NEW u \in Threads, u # t PROVE SameRoles(u, o)
    BY Zenon, <1>6, <1>9, <2>3, OthersStay
  <2>4. /\ CountAt(o)' /\ ~Central(o)
    BY Zenon, <1>3, <1>6, <1>9, CountsKept DEF ObjInv, Central
  <2>5. /\ (Marked(o)' <=> Marked(o)) /\ (Central(o)' <=> Central(o))
        /\ (WithProgram(o)' <=> WithProgram(o))
        /\ (InFrontEnd(o)' <=> InFrontEnd(o)) /\ (Won(o)' <=> Won(o))
        /\ (Live(o)' <=> Live(o)) /\ (Cacheable(o)' <=> Cacheable(o))
    BY Zenon, <1>6, <1>9
      DEF Marked, Central, WithProgram, InFrontEnd, Won, Live, Cacheable
  <2>6. MarkAt(o)'
    BY Zenon, <1>3, <1>5, <2>2, <2>3, <2>4, <2>5 DEF ObjInv, MarkAt, SameRoles
  <2>7. RouteAt(o)'
    BY Zenon, <1>3, <1>5, <2>2, <2>3, <2>4, <2>5
      DEF ObjInv, RouteAt, SameRoles
  <2>8. PlaceAt(o)'
    BY Zenon, <1>3, <1>5, <2>2, <2>3, <2>4, <2>5
      DEF ObjInv, PlaceAt, SameRoles
  <2>9. VendAt(o)'
    BY Zenon, <1>3, <1>5, <2>2, <2>3, <2>4, <2>5 DEF ObjInv, VendAt, SameRoles
  <2>10. FlightAt(o)'
    BY Zenon, <1>3, <1>5, <2>2, <2>3, <2>4, <2>5
      DEF ObjInv, FlightAt, SameRoles
  <2>11. WinAt(o)'
    BY Zenon, <1>3, <1>5, <2>2, <2>3, <2>4, <2>5 DEF ObjInv, WinAt, SameRoles
  <2>12. LostAt(o)'
    BY Zenon, <1>3, <1>5, <2>2, <2>3, <2>4, <2>5 DEF ObjInv, LostAt, SameRoles
  <2>13. ObjInv(o)'
    BY Zenon, <2>4, <2>6, <2>7, <2>8, <2>9, <2>10, <2>11, <2>12 DEF ObjInv
  <2>14. QED
    BY Zenon, <1>4, <1>6, <1>7, <1>9, <2>1, <2>13, QuietStep, NullsFresh
      DEF SpanSteps
<1>10. QED BY Zenon, <1>6, <1>8, <1>9

\* A marker that passes the revalidation is admitted and owns the object.
LEMMA RevalidateQuarantinedInv ==
    ASSUME IInv, Covered, TypeOK', NEW t \in Threads, RevalidateQuarantined(t)
    PROVE  IInv'
<1>1. TypeOK /\ ControlAt(t) BY Zenon DEF IInv
<1>2. PICK o \in Objects : o = obj[t] BY Zenon, <1>1 DEF ControlAt, RevalidateQuarantined
<1>3. ObjInv(o) BY Zenon, <1>2 DEF IInv
<1>4. pc[t] = "revalQuar" /\ obj[t] = o /\ via[t] = "cached" /\ lock # t
  BY Zenon, <1>1, <1>2 DEF ControlAt, RevalidateQuarantined
<1>5. /\ Marker(t, o) /\ ~Owner(t, o) /\ ~Vending(t, o) /\ InFlight(t, o)
      /\ Revalidated(t, o) /\ ~Losing(t, o) /\ ~Inserting(t, o)
      /\ ~ByFrontEnd(t, o) /\ ~ByCentral(t, o)
  BY Zenon, <1>4, NullsFresh
    DEF Marker, Owner, Vending, InFlight, Revalidated, Losing, Inserting,
        ByFrontEnd, ByCentral
<1>6. /\ UNCHANGED <<cached, free, fe, span, listed, tag, lock>>
      /\ ~app'[o] /\ wins'[o] = wins[o] + 1 /\ Moved(t, o, "route", "cached")
  BY <1>1, <1>4, GotoMoves
    DEF IInv, TypeOK, Covered, RevalidateQuarantined, EndLife, markers,
        central
<1>7. /\ UNCHANGED <<quar, ring, evicted>>
      /\ \A x \in Objects \ {o} : /\ cached'[x] = cached[x] /\ app'[x] = app[x]
                                     /\ fe'[x] = fe[x] /\ wins'[x] = wins[x]
  BY <1>1, <1>2, GotoMoves
    DEF IInv, TypeOK, Covered, RevalidateQuarantined, EndLife, markers,
        central
<1>f. Live(o) /\ ~Won(o)
  BY Zenon, <1>3, <1>5, RoleFacts DEF ObjInv, MarkAt, PlaceAt, FlightAt, WinAt
<1>8. ControlAt(t)'
  BY Zenon, <1>4, <1>6 DEF ControlAt, Moved
<1>9. /\ Marker(t, o)' /\ Owner(t, o)' /\ ~Vending(t, o)' /\ ~InFlight(t, o)'
      /\ ~Revalidated(t, o)' /\ ~Losing(t, o)' /\ ~Inserting(t, o)'
      /\ ~ByFrontEnd(t, o)' /\ ~ByCentral(t, o)'
  BY Zenon, <1>4, <1>6, NullsFresh
    DEF Moved, Marker, Owner, Vending, InFlight, Revalidated, Losing,
        Inserting, ByFrontEnd, ByCentral
<1>10. ASSUME NEW u \in Threads, u # t PROVE SameRoles(u, o)
  BY Zenon, <1>6, <1>10, OthersStay
<1>11. /\ CountAt(o)' /\ Live(o) /\ ~Won(o) /\ ~WithProgram(o)' /\ Won(o)'
  BY Zenon, <1>3, <1>6, <1>f, WinAdded DEF ObjInv, WithProgram, Live
<1>12. /\ (Marked(o)' <=> Marked(o)) /\ (Central(o)' <=> Central(o))
      /\ (InFrontEnd(o)' <=> InFrontEnd(o)) /\ (Live(o)' <=> Live(o))
      /\ (Cacheable(o)' <=> Cacheable(o))
  BY Zenon, <1>6 DEF Marked, Central, InFrontEnd, Live, Cacheable
<1>13. MarkAt(o)'
  BY Zenon, <1>3, <1>5, <1>9, <1>10, <1>11, <1>12
    DEF ObjInv, MarkAt, SameRoles
<1>14. RouteAt(o)'
  BY Zenon, <1>3, <1>5, <1>9, <1>10, <1>11, <1>12
    DEF ObjInv, RouteAt, SameRoles
<1>15. PlaceAt(o)'
  BY Zenon, <1>3, <1>5, <1>9, <1>10, <1>11, <1>12, RoleFacts
    DEF ObjInv, PlaceAt, FlightAt, SameRoles
<1>16. VendAt(o)'
  BY Zenon, <1>3, <1>5, <1>9, <1>10, <1>11, <1>12
    DEF ObjInv, VendAt, SameRoles
<1>17. FlightAt(o)'
  BY Zenon, <1>3, <1>5, <1>9, <1>10, <1>11, <1>12, RoleFacts
    DEF ObjInv, FlightAt, PlaceAt, SameRoles
<1>18. WinAt(o)'
  BY Zenon, <1>3, <1>5, <1>9, <1>10, <1>11, <1>12 DEF ObjInv, WinAt, SameRoles
<1>19. LostAt(o)'
  BY Zenon, <1>3, <1>5, <1>9, <1>10, <1>11, <1>12
    DEF ObjInv, LostAt, SameRoles
<1>20. ObjInv(o)'
  BY Zenon, <1>11, <1>13, <1>14, <1>15, <1>16, <1>17, <1>18, <1>19 DEF ObjInv
<1>21. QED
  BY Zenon, <1>4, <1>6, <1>7, <1>8, <1>20, QuietStep, NullsFresh DEF SpanSteps

\* A marker that lost takes its mark off.
LEMMA UnmarkInv ==
    ASSUME IInv, Covered, TypeOK', NEW t \in Threads, Unmark(t)
    PROVE  IInv'
<1>1. TypeOK /\ ControlAt(t) BY Zenon DEF IInv
<1>2. PICK o \in Objects : o = obj[t] BY Zenon, <1>1 DEF ControlAt, Unmark
<1>3. ObjInv(o) BY Zenon, <1>2 DEF IInv
<1>4. pc[t] = "unmark" /\ obj[t] = o /\ lock # t
  BY Zenon, <1>1, <1>2 DEF ControlAt, Unmark
<1>5. /\ Marker(t, o) /\ ~Owner(t, o) /\ ~Vending(t, o) /\ ~InFlight(t, o)
      /\ ~Revalidated(t, o) /\ Losing(t, o) /\ ~Inserting(t, o)
      /\ ~ByFrontEnd(t, o) /\ ~ByCentral(t, o)
  BY Zenon, <1>4, NullsFresh
    DEF Marker, Owner, Vending, InFlight, Revalidated, Losing, Inserting,
        ByFrontEnd, ByCentral
<1>6. /\ UNCHANGED <<free, app, fe, span, listed, tag, lock, wins>>
      /\ ~cached'[o] /\ Moved(t, NoObject, "idle", "none")
  BY Zenon, <1>1, <1>4, GotoMoves, ReturnMoves DEF TypeOK, Unmark, markers, central
<1>7. /\ UNCHANGED <<quar, ring, evicted>>
      /\ \A x \in Objects \ {o} : /\ cached'[x] = cached[x] /\ app'[x] = app[x]
                                     /\ fe'[x] = fe[x] /\ wins'[x] = wins[x]
  BY <1>1, <1>2, GotoMoves, ReturnMoves
    DEF TypeOK, Covered, Unmark, markers, central
<1>8. ControlAt(t)'
  BY Zenon, <1>4, <1>6 DEF ControlAt, Moved
<1>9. /\ ~Marker(t, o)' /\ ~Owner(t, o)' /\ ~Vending(t, o)'
      /\ ~InFlight(t, o)' /\ ~Revalidated(t, o)' /\ ~Losing(t, o)'
      /\ ~Inserting(t, o)' /\ ~ByFrontEnd(t, o)' /\ ~ByCentral(t, o)'
  BY Zenon, <1>4, <1>6, NullsFresh
    DEF Moved, Marker, Owner, Vending, InFlight, Revalidated, Losing,
        Inserting, ByFrontEnd, ByCentral
<1>10. ASSUME NEW u \in Threads, u # t PROVE SameRoles(u, o)
  BY Zenon, <1>6, <1>10, OthersStay
<1>11. /\ CountAt(o)' /\ ~Marked(o)'
  BY Zenon, <1>3, <1>6, CountsKept DEF ObjInv, Marked
<1>12. /\ (Central(o)' <=> Central(o)) /\ (WithProgram(o)' <=> WithProgram(o))
      /\ (InFrontEnd(o)' <=> InFrontEnd(o)) /\ (Won(o)' <=> Won(o))
      /\ (Live(o)' <=> Live(o)) /\ (Cacheable(o)' <=> Cacheable(o))
  BY Zenon, <1>6 DEF Central, WithProgram, InFrontEnd, Won, Live, Cacheable
<1>13. MarkAt(o)'
  BY Zenon, <1>3, <1>5, <1>9, <1>10, <1>11, <1>12
    DEF ObjInv, MarkAt, SameRoles
<1>14. RouteAt(o)'
  BY Zenon, <1>3, <1>5, <1>9, <1>10, <1>11, <1>12
    DEF ObjInv, RouteAt, SameRoles
<1>15. PlaceAt(o)'
  BY Zenon, <1>3, <1>5, <1>9, <1>10, <1>11, <1>12
    DEF ObjInv, PlaceAt, SameRoles
<1>16. VendAt(o)'
  BY Zenon, <1>3, <1>5, <1>9, <1>10, <1>11, <1>12
    DEF ObjInv, VendAt, SameRoles
<1>17. FlightAt(o)'
  BY Zenon, <1>3, <1>5, <1>9, <1>10, <1>11, <1>12
    DEF ObjInv, FlightAt, SameRoles
<1>18. WinAt(o)'
  BY Zenon, <1>3, <1>5, <1>9, <1>10, <1>11, <1>12 DEF ObjInv, WinAt, SameRoles
<1>19. LostAt(o)'
  BY Zenon, <1>3, <1>5, <1>9, <1>10, <1>11, <1>12, RoleFacts
    DEF ObjInv, LostAt, FlightAt, SameRoles
<1>20. ObjInv(o)'
  BY Zenon, <1>11, <1>13, <1>14, <1>15, <1>16, <1>17, <1>18, <1>19 DEF ObjInv
<1>21. QED
  BY Zenon, <1>4, <1>6, <1>7, <1>8, <1>20, QuietStep, NullsFresh DEF SpanSteps

\* The owner gives the object to the front end or goes on to insert it.
LEMMA RouteInv ==
    ASSUME IInv, Covered, TypeOK', NEW t \in Threads, Route(t)
    PROVE  IInv'
<1>1. TypeOK /\ ControlAt(t) BY Zenon DEF IInv
<1>2. PICK o \in Objects : o = obj[t] BY Zenon, <1>1 DEF ControlAt, Route
<1>3. ObjInv(o) BY Zenon, <1>2 DEF IInv
<1>4. pc[t] = "route" /\ obj[t] = o /\ via[t] = "cached" /\ lock # t
  BY Zenon, <1>1, <1>2 DEF ControlAt, Route
<1>5. /\ Marker(t, o) /\ Owner(t, o) /\ ~Vending(t, o) /\ ~InFlight(t, o)
      /\ ~Revalidated(t, o) /\ ~Losing(t, o) /\ ~Inserting(t, o)
      /\ ~ByFrontEnd(t, o) /\ ~ByCentral(t, o)
  BY Zenon, <1>4, NullsFresh
    DEF Marker, Owner, Vending, InFlight, Revalidated, Losing, Inserting,
        ByFrontEnd, ByCentral
<1>6. /\ UNCHANGED <<cached, free, app, span, listed, tag, lock, wins>>
      /\ \/ fe'[o] = fe[o] + 1 /\ Moved(t, NoObject, "idle", "none")
         \/ fe' = fe /\ Moved(t, o, "insert", "cached")
  BY Zenon, <1>1, <1>4, GotoMoves, ReturnMoves DEF TypeOK, Route, markers, central
<1>7. /\ UNCHANGED <<quar, ring, evicted>>
      /\ \A x \in Objects \ {o} : /\ cached'[x] = cached[x] /\ app'[x] = app[x]
                                     /\ fe'[x] = fe[x] /\ wins'[x] = wins[x]
  BY <1>1, <1>2, GotoMoves, ReturnMoves
    DEF TypeOK, Covered, Route, markers, central
<1>8. CASE fe'[o] = fe[o] + 1 /\ Moved(t, NoObject, "idle", "none")
  <2>1. ControlAt(t)'
    BY Zenon, <1>4, <1>6, <1>8 DEF ControlAt, Moved
  <2>2. /\ ~Marker(t, o)' /\ ~Owner(t, o)' /\ ~Vending(t, o)'
        /\ ~InFlight(t, o)' /\ ~Revalidated(t, o)' /\ ~Losing(t, o)'
        /\ ~Inserting(t, o)' /\ ~ByFrontEnd(t, o)' /\ ~ByCentral(t, o)'
    BY Zenon, <1>4, <1>6, <1>8, NullsFresh
      DEF Moved, Marker, Owner, Vending, InFlight, Revalidated, Losing,
          Inserting, ByFrontEnd, ByCentral
  <2>3. ASSUME NEW u \in Threads, u # t PROVE SameRoles(u, o)
    BY Zenon, <1>6, <1>8, <2>3, OthersStay
  <2>4. /\ CountAt(o)' /\ ~InFrontEnd(o) /\ InFrontEnd(o)'
    BY Zenon, <1>3, <1>6, <1>8, <1>5, EntryAdded DEF ObjInv, MarkAt
  <2>5. /\ (Marked(o)' <=> Marked(o)) /\ (Central(o)' <=> Central(o))
        /\ (WithProgram(o)' <=> WithProgram(o)) /\ (Won(o)' <=> Won(o))
        /\ (Live(o)' <=> Live(o)) /\ (Cacheable(o)' <=> Cacheable(o))
    BY Zenon, <1>6, <1>8
      DEF Marked, Central, WithProgram, Won, Live, Cacheable
  <2>6. MarkAt(o)'
    BY Zenon, <1>3, <1>5, <2>2, <2>3, <2>4, <2>5 DEF ObjInv, MarkAt, SameRoles
  <2>7. RouteAt(o)'
    BY Zenon, <1>3, <1>5, <2>2, <2>3, <2>4, <2>5
      DEF ObjInv, RouteAt, SameRoles
  <2>8. PlaceAt(o)'
    BY Zenon, <1>3, <1>5, <2>2, <2>3, <2>4, <2>5, RoleFacts
      DEF ObjInv, PlaceAt, MarkAt, SameRoles
  <2>9. VendAt(o)'
    BY Zenon, <1>3, <1>5, <2>2, <2>3, <2>4, <2>5 DEF ObjInv, VendAt, SameRoles
  <2>10. FlightAt(o)'
    BY Zenon, <1>3, <1>5, <2>2, <2>3, <2>4, <2>5
      DEF ObjInv, FlightAt, SameRoles
  <2>11. WinAt(o)'
    BY Zenon, <1>3, <1>5, <2>2, <2>3, <2>4, <2>5 DEF ObjInv, WinAt, SameRoles
  <2>12. LostAt(o)'
    BY Zenon, <1>3, <1>5, <2>2, <2>3, <2>4, <2>5 DEF ObjInv, LostAt, SameRoles
  <2>13. ObjInv(o)'
    BY Zenon, <2>4, <2>6, <2>7, <2>8, <2>9, <2>10, <2>11, <2>12 DEF ObjInv
  <2>14. QED
    BY Zenon, <1>4, <1>6, <1>7, <1>8, <2>1, <2>13, QuietStep, NullsFresh
      DEF SpanSteps
<1>9. CASE fe' = fe /\ Moved(t, o, "insert", "cached")
  <2>1. ControlAt(t)'
    BY Zenon, <1>4, <1>6, <1>9 DEF ControlAt, Moved
  <2>2. /\ Marker(t, o)' /\ Owner(t, o)' /\ ~Vending(t, o)'
        /\ ~InFlight(t, o)' /\ ~Revalidated(t, o)' /\ ~Losing(t, o)'
        /\ ~Inserting(t, o)' /\ ByFrontEnd(t, o)' /\ ~ByCentral(t, o)'
    BY Zenon, <1>4, <1>6, <1>9, NullsFresh
      DEF Moved, Marker, Owner, Vending, InFlight, Revalidated, Losing,
          Inserting, ByFrontEnd, ByCentral
  <2>3. ASSUME NEW u \in Threads, u # t PROVE SameRoles(u, o)
    BY Zenon, <1>6, <1>9, <2>3, OthersStay
  <2>4. /\ CountAt(o)'
    BY Zenon, <1>3, <1>6, <1>9, CountsKept DEF ObjInv
  <2>5. /\ (Marked(o)' <=> Marked(o)) /\ (Central(o)' <=> Central(o))
        /\ (WithProgram(o)' <=> WithProgram(o))
        /\ (InFrontEnd(o)' <=> InFrontEnd(o)) /\ (Won(o)' <=> Won(o))
        /\ (Live(o)' <=> Live(o)) /\ (Cacheable(o)' <=> Cacheable(o))
    BY Zenon, <1>6, <1>9
      DEF Marked, Central, WithProgram, InFrontEnd, Won, Live, Cacheable
  <2>6. MarkAt(o)'
    BY Zenon, <1>3, <1>5, <2>2, <2>3, <2>4, <2>5 DEF ObjInv, MarkAt, SameRoles
  <2>7. RouteAt(o)'
    BY Zenon, <1>3, <1>5, <2>2, <2>3, <2>4, <2>5, RoleFacts
      DEF ObjInv, RouteAt, MarkAt, SameRoles
  <2>8. PlaceAt(o)'
    BY Zenon, <1>3, <1>5, <2>2, <2>3, <2>4, <2>5
      DEF ObjInv, PlaceAt, SameRoles
  <2>9. VendAt(o)'
    BY Zenon, <1>3, <1>5, <2>2, <2>3, <2>4, <2>5 DEF ObjInv, VendAt, SameRoles
  <2>10. FlightAt(o)'
    BY Zenon, <1>3, <1>5, <2>2, <2>3, <2>4, <2>5
      DEF ObjInv, FlightAt, SameRoles
  <2>11. WinAt(o)'
    BY Zenon, <1>3, <1>5, <2>2, <2>3, <2>4, <2>5 DEF ObjInv, WinAt, SameRoles
  <2>12. LostAt(o)'
    BY Zenon, <1>3, <1>5, <2>2, <2>3, <2>4, <2>5 DEF ObjInv, LostAt, SameRoles
  <2>13. ObjInv(o)'
    BY Zenon, <2>4, <2>6, <2>7, <2>8, <2>9, <2>10, <2>11, <2>12 DEF ObjInv
  <2>14. QED
    BY Zenon, <1>4, <1>6, <1>7, <1>9, <2>1, <2>13, QuietStep, NullsFresh
      DEF SpanSteps
<1>10. QED BY Zenon, <1>6, <1>8, <1>9

\* Only a free without the cached claim can find the insert refused.
LEMMA InsertRejectedInv ==
    ASSUME IInv, Covered, TypeOK', NEW t \in Threads, InsertRejected(t)
    PROVE  IInv'
<1>1. TypeOK /\ ControlAt(t) BY Zenon DEF IInv
<1>2. PICK o \in Objects : o = obj[t] BY Zenon, <1>1 DEF ControlAt, InsertRejected
<1>3. ObjInv(o) BY Zenon, <1>2 DEF IInv
<1>p. via[t] = "plain"
  BY Zenon, <1>1, <1>2, <1>3
    DEF InsertRejected, ObjInv, PlaceAt, Owner, Central, Live
<1>4. pc[t] = "insert" /\ obj[t] = o /\ via[t] = "plain" /\ lock # t
  BY Zenon, <1>1, <1>2, <1>p DEF ControlAt, InsertRejected
<1>5. /\ ~Marker(t, o) /\ ~Owner(t, o) /\ ~Vending(t, o) /\ InFlight(t, o)
      /\ ~Revalidated(t, o) /\ ~Losing(t, o) /\ ~Inserting(t, o)
      /\ ~ByFrontEnd(t, o) /\ ByCentral(t, o)
  BY Zenon, <1>4, NullsFresh
    DEF Marker, Owner, Vending, InFlight, Revalidated, Losing, Inserting,
        ByFrontEnd, ByCentral
<1>6. /\ UNCHANGED <<cached, free, app, fe, span, listed, tag, lock, wins>>
      /\ DoubleFrees /\ Moved(t, o, "rejected", "plain")
  BY <1>1, <1>3, <1>4, <1>5, GotoMoves
    DEF TypeOK, InsertRejected, ObjInv, PlaceAt, FlightAt, Central, Live,
        markers, central
<1>7. /\ UNCHANGED <<quar, ring, evicted>>
      /\ \A x \in Objects \ {o} : /\ cached'[x] = cached[x] /\ app'[x] = app[x]
                                     /\ fe'[x] = fe[x] /\ wins'[x] = wins[x]
  BY Zenon, <1>1, <1>4, GotoMoves DEF InsertRejected, markers, central
<1>8. ControlAt(t)'
  BY Zenon, <1>4, <1>6 DEF ControlAt, Moved
<1>9. /\ ~Marker(t, o)' /\ ~Owner(t, o)' /\ ~Vending(t, o)'
      /\ ~InFlight(t, o)' /\ ~Revalidated(t, o)' /\ Losing(t, o)'
      /\ ~Inserting(t, o)' /\ ~ByFrontEnd(t, o)' /\ ByCentral(t, o)'
  BY Zenon, <1>4, <1>6, NullsFresh
    DEF Moved, Marker, Owner, Vending, InFlight, Revalidated, Losing,
        Inserting, ByFrontEnd, ByCentral
<1>10. ASSUME NEW u \in Threads, u # t PROVE SameRoles(u, o)
  BY Zenon, <1>6, <1>10, OthersStay
<1>11. /\ CountAt(o)' /\ DoubleFrees /\ Live(o)
  BY Zenon, <1>3, <1>6, <1>5, CountsKept DEF ObjInv, Live, FlightAt
<1>12. /\ (Marked(o)' <=> Marked(o)) /\ (Central(o)' <=> Central(o))
      /\ (WithProgram(o)' <=> WithProgram(o))
      /\ (InFrontEnd(o)' <=> InFrontEnd(o)) /\ (Won(o)' <=> Won(o))
      /\ (Live(o)' <=> Live(o)) /\ (Cacheable(o)' <=> Cacheable(o))
  BY Zenon, <1>6
    DEF Marked, Central, WithProgram, InFrontEnd, Won, Live, Cacheable
<1>13. MarkAt(o)'
  BY Zenon, <1>3, <1>5, <1>9, <1>10, <1>11, <1>12
    DEF ObjInv, MarkAt, SameRoles
<1>14. RouteAt(o)'
  BY Zenon, <1>3, <1>5, <1>9, <1>10, <1>11, <1>12
    DEF ObjInv, RouteAt, SameRoles
<1>15. PlaceAt(o)'
  BY Zenon, <1>3, <1>5, <1>9, <1>10, <1>11, <1>12
    DEF ObjInv, PlaceAt, SameRoles
<1>16. VendAt(o)'
  BY Zenon, <1>3, <1>5, <1>9, <1>10, <1>11, <1>12
    DEF ObjInv, VendAt, SameRoles
<1>17. FlightAt(o)'
  BY Zenon, <1>3, <1>5, <1>9, <1>10, <1>11, <1>12
    DEF ObjInv, FlightAt, SameRoles
<1>18. WinAt(o)'
  BY Zenon, <1>3, <1>5, <1>9, <1>10, <1>11, <1>12 DEF ObjInv, WinAt, SameRoles
<1>19. LostAt(o)'
  BY Zenon, <1>3, <1>5, <1>9, <1>10, <1>11, <1>12
    DEF ObjInv, LostAt, SameRoles
<1>20. ObjInv(o)'
  BY Zenon, <1>11, <1>13, <1>14, <1>15, <1>16, <1>17, <1>18, <1>19 DEF ObjInv
<1>21. QED
  BY Zenon, <1>4, <1>6, <1>7, <1>8, <1>20, QuietStep, NullsFresh DEF SpanSteps

\* Such a free has no mark to take off.
LEMMA ReleaseClaimInv ==
    ASSUME IInv, Covered, TypeOK', NEW t \in Threads, ReleaseClaim(t)
    PROVE  IInv'
<1>1. TypeOK /\ ControlAt(t) BY Zenon DEF IInv
<1>2. PICK o \in Objects : o = obj[t] BY Zenon, <1>1 DEF ControlAt, ReleaseClaim
<1>3. ObjInv(o) BY Zenon, <1>2 DEF IInv
<1>4. pc[t] = "rejected" /\ obj[t] = o /\ via[t] = "plain" /\ lock # t
  BY Zenon, <1>1, <1>2 DEF ControlAt, ReleaseClaim
<1>5. /\ ~Marker(t, o) /\ ~Owner(t, o) /\ ~Vending(t, o) /\ ~InFlight(t, o)
      /\ ~Revalidated(t, o) /\ Losing(t, o) /\ ~Inserting(t, o)
      /\ ~ByFrontEnd(t, o) /\ ByCentral(t, o)
  BY Zenon, <1>4, NullsFresh
    DEF Marker, Owner, Vending, InFlight, Revalidated, Losing, Inserting,
        ByFrontEnd, ByCentral
<1>6. /\ UNCHANGED <<free, app, fe, span, listed, tag, lock, wins>>
      /\ ~cached[o] /\ ~cached'[o] /\ Moved(t, NoObject, "idle", "none")
  BY Zenon, <1>1, <1>3, <1>4, <1>5, ReturnMoves
    DEF TypeOK, ReleaseClaim, ObjInv, MarkAt, RouteAt, Marked, central
<1>7. /\ UNCHANGED <<quar, ring, evicted>>
      /\ \A x \in Objects \ {o} : /\ cached'[x] = cached[x] /\ app'[x] = app[x]
                                     /\ fe'[x] = fe[x] /\ wins'[x] = wins[x]
  BY <1>1, <1>2, GotoMoves, ReturnMoves
    DEF TypeOK, Covered, ReleaseClaim, markers, central
<1>8. ControlAt(t)'
  BY Zenon, <1>4, <1>6 DEF ControlAt, Moved
<1>9. /\ ~Marker(t, o)' /\ ~Owner(t, o)' /\ ~Vending(t, o)'
      /\ ~InFlight(t, o)' /\ ~Revalidated(t, o)' /\ ~Losing(t, o)'
      /\ ~Inserting(t, o)' /\ ~ByFrontEnd(t, o)' /\ ~ByCentral(t, o)'
  BY Zenon, <1>4, <1>6, NullsFresh
    DEF Moved, Marker, Owner, Vending, InFlight, Revalidated, Losing,
        Inserting, ByFrontEnd, ByCentral
<1>10. ASSUME NEW u \in Threads, u # t PROVE SameRoles(u, o)
  BY Zenon, <1>6, <1>10, OthersStay
<1>11. /\ CountAt(o)' /\ ~Marked(o) /\ ~Marked(o)'
  BY Zenon, <1>3, <1>6, CountsKept DEF ObjInv, Marked
<1>12. /\ (Central(o)' <=> Central(o)) /\ (WithProgram(o)' <=> WithProgram(o))
      /\ (InFrontEnd(o)' <=> InFrontEnd(o)) /\ (Won(o)' <=> Won(o))
      /\ (Live(o)' <=> Live(o)) /\ (Cacheable(o)' <=> Cacheable(o))
  BY Zenon, <1>6 DEF Central, WithProgram, InFrontEnd, Won, Live, Cacheable
<1>13. MarkAt(o)'
  BY Zenon, <1>3, <1>5, <1>9, <1>10, <1>11, <1>12
    DEF ObjInv, MarkAt, SameRoles
<1>14. RouteAt(o)'
  BY Zenon, <1>3, <1>5, <1>9, <1>10, <1>11, <1>12
    DEF ObjInv, RouteAt, SameRoles
<1>15. PlaceAt(o)'
  BY Zenon, <1>3, <1>5, <1>9, <1>10, <1>11, <1>12
    DEF ObjInv, PlaceAt, SameRoles
<1>16. VendAt(o)'
  BY Zenon, <1>3, <1>5, <1>9, <1>10, <1>11, <1>12
    DEF ObjInv, VendAt, SameRoles
<1>17. FlightAt(o)'
  BY Zenon, <1>3, <1>5, <1>9, <1>10, <1>11, <1>12
    DEF ObjInv, FlightAt, SameRoles
<1>18. WinAt(o)'
  BY Zenon, <1>3, <1>5, <1>9, <1>10, <1>11, <1>12 DEF ObjInv, WinAt, SameRoles
<1>19. LostAt(o)'
  BY Zenon, <1>3, <1>5, <1>9, <1>10, <1>11, <1>12, RoleFacts
    DEF ObjInv, LostAt, FlightAt, SameRoles
<1>20. ObjInv(o)'
  BY Zenon, <1>11, <1>13, <1>14, <1>15, <1>16, <1>17, <1>18, <1>19 DEF ObjInv
<1>21. QED
  BY Zenon, <1>4, <1>6, <1>7, <1>8, <1>20, QuietStep, NullsFresh DEF SpanSteps

\* A free starts.
LEMMA FreeCallInv ==
    ASSUME IInv, Covered, TypeOK', NEW t \in Threads, NEW o \in Objects, FreeCall(t, o)
    PROVE  IInv'
<1>1. TypeOK /\ ControlAt(t) BY Zenon DEF IInv
<1>2. pc[t] = "idle" /\ obj[t] = NoObject BY Zenon, <1>1 DEF ControlAt, FreeCall
<1>3. ObjInv(o) BY Zenon DEF IInv
<1>4. pc[t] = "idle" /\ obj[t] = NoObject /\ lock # t
  BY Zenon, <1>1, <1>2 DEF ControlAt, FreeCall
<1>5. /\ ~Marker(t, o) /\ ~Owner(t, o) /\ ~Vending(t, o) /\ ~InFlight(t, o)
      /\ ~Revalidated(t, o) /\ ~Losing(t, o) /\ ~Inserting(t, o)
      /\ ~ByFrontEnd(t, o) /\ ~ByCentral(t, o)
  BY Zenon, <1>4, NullsFresh
    DEF Marker, Owner, Vending, InFlight, Revalidated, Losing, Inserting,
        ByFrontEnd, ByCentral
<1>6. /\ UNCHANGED <<cached, free, app, fe, span, listed, tag, lock, wins>>
      /\ Live(o)
      /\ Moved(t, o, "screenCached", "none")
  BY Zenon, <1>1, <1>4, TakeMoves DEF FreeCall, Live, markers, central
<1>7. /\ UNCHANGED <<quar, ring, evicted>>
      /\ \A x \in Objects \ {o} : /\ cached'[x] = cached[x] /\ app'[x] = app[x]
                                     /\ fe'[x] = fe[x] /\ wins'[x] = wins[x]
  BY Zenon, <1>1, <1>2, TakeMoves DEF TypeOK, Covered, FreeCall, markers, central
<1>f. /\ DoubleFrees => \A u \in Threads : ~Vending(u, o)
      /\ ~DoubleFrees => WithProgram(o) /\ \A u \in Threads : ~InFlight(u, o)
  BY Zenon DEF FreeCall, MayFree, BeingVended, Covered, Unclaimed, Vending, InFlight,
       WithProgram
<1>8. ControlAt(t)'
  BY Zenon, <1>4, <1>6 DEF ControlAt, Moved
<1>9. /\ ~Marker(t, o)' /\ ~Owner(t, o)' /\ ~Vending(t, o)' /\ InFlight(t, o)'
      /\ ~Revalidated(t, o)' /\ ~Losing(t, o)' /\ ~Inserting(t, o)'
      /\ ~ByFrontEnd(t, o)' /\ ~ByCentral(t, o)'
  BY Zenon, <1>4, <1>6, NullsFresh
    DEF Moved, Marker, Owner, Vending, InFlight, Revalidated, Losing,
        Inserting, ByFrontEnd, ByCentral
<1>10. ASSUME NEW u \in Threads, u # t PROVE SameRoles(u, o)
  BY Zenon, <1>6, <1>10, OthersStay
<1>11. /\ CountAt(o)' /\ Live(o)
  BY Zenon, <1>3, <1>6, CountsKept DEF ObjInv, Live
<1>12. /\ (Marked(o)' <=> Marked(o)) /\ (Central(o)' <=> Central(o))
      /\ (WithProgram(o)' <=> WithProgram(o))
      /\ (InFrontEnd(o)' <=> InFrontEnd(o)) /\ (Won(o)' <=> Won(o))
      /\ (Live(o)' <=> Live(o)) /\ (Cacheable(o)' <=> Cacheable(o))
  BY Zenon, <1>6
    DEF Marked, Central, WithProgram, InFrontEnd, Won, Live, Cacheable
<1>13. MarkAt(o)'
  BY Zenon, <1>3, <1>5, <1>f, <1>9, <1>10, <1>11, <1>12
    DEF ObjInv, MarkAt, SameRoles
<1>14. RouteAt(o)'
  BY Zenon, <1>3, <1>5, <1>f, <1>9, <1>10, <1>11, <1>12
    DEF ObjInv, RouteAt, SameRoles
<1>15. PlaceAt(o)'
  BY Zenon, <1>3, <1>5, <1>f, <1>9, <1>10, <1>11, <1>12
    DEF ObjInv, PlaceAt, SameRoles
<1>16. VendAt(o)'
  BY Zenon, <1>3, <1>5, <1>f, <1>9, <1>10, <1>11, <1>12, RoleFacts
    DEF ObjInv, VendAt, PlaceAt, SameRoles
<1>17. FlightAt(o)'
  BY Zenon, <1>3, <1>5, <1>f, <1>9, <1>10, <1>11, <1>12
    DEF ObjInv, FlightAt, SameRoles
<1>18. WinAt(o)'
  BY Zenon, <1>3, <1>5, <1>f, <1>9, <1>10, <1>11, <1>12
    DEF ObjInv, WinAt, SameRoles
<1>19. LostAt(o)'
  BY Zenon, <1>3, <1>5, <1>f, <1>9, <1>10, <1>11, <1>12
    DEF ObjInv, LostAt, SameRoles
<1>20. ObjInv(o)'
  BY Zenon, <1>11, <1>13, <1>14, <1>15, <1>16, <1>17, <1>18, <1>19 DEF ObjInv
<1>21. QED
  BY Zenon, <1>4, <1>6, <1>7, <1>8, <1>20, QuietStep, NullsFresh DEF SpanSteps

\* An allocation takes an entry, and with it the mark.
LEMMA FrontEndPopInv ==
    ASSUME IInv, Covered, TypeOK', NEW t \in Threads, NEW o \in Objects, FrontEndPop(t, o)
    PROVE  IInv'
<1>1. TypeOK /\ ControlAt(t) BY Zenon DEF IInv
<1>2. pc[t] = "idle" /\ obj[t] = NoObject BY Zenon, <1>1 DEF ControlAt, FrontEndPop
<1>3. ObjInv(o) BY Zenon DEF IInv
<1>4. pc[t] = "idle" /\ obj[t] = NoObject /\ lock # t
  BY Zenon, <1>1, <1>2 DEF ControlAt, FrontEndPop
<1>5. /\ ~Marker(t, o) /\ ~Owner(t, o) /\ ~Vending(t, o) /\ ~InFlight(t, o)
      /\ ~Revalidated(t, o) /\ ~Losing(t, o) /\ ~Inserting(t, o)
      /\ ~ByFrontEnd(t, o) /\ ~ByCentral(t, o)
  BY Zenon, <1>4, NullsFresh
    DEF Marker, Owner, Vending, InFlight, Revalidated, Losing, Inserting,
        ByFrontEnd, ByCentral
<1>6. /\ UNCHANGED <<cached, free, app, span, listed, tag, lock, wins>>
      /\ fe[o] > 0 /\ fe'[o] = fe[o] - 1 /\ Moved(t, o, "claim", "none")
  BY Zenon, <1>1, <1>3, <1>4, TakeMoves DEF TypeOK, FrontEndPop, markers, central
<1>7. /\ UNCHANGED <<quar, ring, evicted>>
      /\ \A x \in Objects \ {o} : /\ cached'[x] = cached[x] /\ app'[x] = app[x]
                                     /\ fe'[x] = fe[x] /\ wins'[x] = wins[x]
  BY <1>1, <1>2, TakeMoves DEF TypeOK, Covered, FrontEndPop, markers, central
<1>8. ControlAt(t)'
  BY Zenon, <1>4, <1>6 DEF ControlAt, Moved
<1>9. /\ Marker(t, o)' /\ Owner(t, o)' /\ ~Vending(t, o)' /\ ~InFlight(t, o)'
      /\ ~Revalidated(t, o)' /\ ~Losing(t, o)' /\ ~Inserting(t, o)'
      /\ ~ByFrontEnd(t, o)' /\ ~ByCentral(t, o)'
  BY Zenon, <1>4, <1>6, NullsFresh
    DEF Moved, Marker, Owner, Vending, InFlight, Revalidated, Losing,
        Inserting, ByFrontEnd, ByCentral
<1>10. ASSUME NEW u \in Threads, u # t PROVE SameRoles(u, o)
  BY Zenon, <1>6, <1>10, OthersStay
<1>11. /\ CountAt(o)' /\ InFrontEnd(o) /\ ~InFrontEnd(o)'
  BY Zenon, <1>3, <1>6, EntryTaken DEF ObjInv
<1>12. /\ (Marked(o)' <=> Marked(o)) /\ (Central(o)' <=> Central(o))
      /\ (WithProgram(o)' <=> WithProgram(o)) /\ (Won(o)' <=> Won(o))
      /\ (Live(o)' <=> Live(o)) /\ (Cacheable(o)' <=> Cacheable(o))
  BY Zenon, <1>6 DEF Marked, Central, WithProgram, Won, Live, Cacheable
<1>13. MarkAt(o)'
  BY Zenon, <1>3, <1>5, <1>9, <1>10, <1>11, <1>12, RoleFacts
    DEF ObjInv, MarkAt, PlaceAt, SameRoles
<1>14. RouteAt(o)'
  BY Zenon, <1>3, <1>5, <1>9, <1>10, <1>11, <1>12
    DEF ObjInv, RouteAt, SameRoles
<1>15. PlaceAt(o)'
  BY Zenon, <1>3, <1>5, <1>9, <1>10, <1>11, <1>12, RoleFacts
    DEF ObjInv, PlaceAt, MarkAt, SameRoles
<1>16. VendAt(o)'
  BY Zenon, <1>3, <1>5, <1>9, <1>10, <1>11, <1>12
    DEF ObjInv, VendAt, SameRoles
<1>17. FlightAt(o)'
  BY Zenon, <1>3, <1>5, <1>9, <1>10, <1>11, <1>12
    DEF ObjInv, FlightAt, SameRoles
<1>18. WinAt(o)'
  BY Zenon, <1>3, <1>5, <1>9, <1>10, <1>11, <1>12 DEF ObjInv, WinAt, SameRoles
<1>19. LostAt(o)'
  BY Zenon, <1>3, <1>5, <1>9, <1>10, <1>11, <1>12
    DEF ObjInv, LostAt, SameRoles
<1>20. ObjInv(o)'
  BY Zenon, <1>11, <1>13, <1>14, <1>15, <1>16, <1>17, <1>18, <1>19 DEF ObjInv
<1>21. QED
  BY Zenon, <1>4, <1>6, <1>7, <1>8, <1>20, QuietStep, NullsFresh DEF SpanSteps

\* So does a flush.
LEMMA FlushPopInv ==
    ASSUME IInv, Covered, TypeOK', NEW t \in Threads, NEW o \in Objects, FlushPop(t, o)
    PROVE  IInv'
<1>1. TypeOK /\ ControlAt(t) BY Zenon DEF IInv
<1>2. pc[t] = "idle" /\ obj[t] = NoObject BY Zenon, <1>1 DEF ControlAt, FlushPop
<1>3. ObjInv(o) BY Zenon DEF IInv
<1>4. pc[t] = "idle" /\ obj[t] = NoObject /\ lock # t
  BY Zenon, <1>1, <1>2 DEF ControlAt, FlushPop
<1>5. /\ ~Marker(t, o) /\ ~Owner(t, o) /\ ~Vending(t, o) /\ ~InFlight(t, o)
      /\ ~Revalidated(t, o) /\ ~Losing(t, o) /\ ~Inserting(t, o)
      /\ ~ByFrontEnd(t, o) /\ ~ByCentral(t, o)
  BY Zenon, <1>4, NullsFresh
    DEF Marker, Owner, Vending, InFlight, Revalidated, Losing, Inserting,
        ByFrontEnd, ByCentral
<1>6. /\ UNCHANGED <<cached, free, app, span, listed, tag, lock, wins>>
      /\ fe[o] > 0 /\ fe'[o] = fe[o] - 1 /\ Moved(t, o, "publish", "flush")
  BY Zenon, <1>1, <1>3, <1>4, TakeMoves DEF TypeOK, FlushPop, markers, central
<1>7. /\ UNCHANGED <<quar, ring, evicted>>
      /\ \A x \in Objects \ {o} : /\ cached'[x] = cached[x] /\ app'[x] = app[x]
                                     /\ fe'[x] = fe[x] /\ wins'[x] = wins[x]
  BY <1>1, <1>2, TakeMoves DEF TypeOK, Covered, FlushPop, markers, central
<1>8. ControlAt(t)'
  BY Zenon, <1>4, <1>6 DEF ControlAt, Moved
<1>9. /\ Marker(t, o)' /\ Owner(t, o)' /\ ~Vending(t, o)' /\ ~InFlight(t, o)'
      /\ ~Revalidated(t, o)' /\ ~Losing(t, o)' /\ ~Inserting(t, o)'
      /\ ~ByFrontEnd(t, o)' /\ ~ByCentral(t, o)'
  BY Zenon, <1>4, <1>6, NullsFresh
    DEF Moved, Marker, Owner, Vending, InFlight, Revalidated, Losing,
        Inserting, ByFrontEnd, ByCentral
<1>10. ASSUME NEW u \in Threads, u # t PROVE SameRoles(u, o)
  BY Zenon, <1>6, <1>10, OthersStay
<1>11. /\ CountAt(o)' /\ InFrontEnd(o) /\ ~InFrontEnd(o)'
  BY Zenon, <1>3, <1>6, EntryTaken DEF ObjInv
<1>12. /\ (Marked(o)' <=> Marked(o)) /\ (Central(o)' <=> Central(o))
      /\ (WithProgram(o)' <=> WithProgram(o)) /\ (Won(o)' <=> Won(o))
      /\ (Live(o)' <=> Live(o)) /\ (Cacheable(o)' <=> Cacheable(o))
  BY Zenon, <1>6 DEF Marked, Central, WithProgram, Won, Live, Cacheable
<1>13. MarkAt(o)'
  BY Zenon, <1>3, <1>5, <1>9, <1>10, <1>11, <1>12, RoleFacts
    DEF ObjInv, MarkAt, PlaceAt, SameRoles
<1>14. RouteAt(o)'
  BY Zenon, <1>3, <1>5, <1>9, <1>10, <1>11, <1>12
    DEF ObjInv, RouteAt, SameRoles
<1>15. PlaceAt(o)'
  BY Zenon, <1>3, <1>5, <1>9, <1>10, <1>11, <1>12, RoleFacts
    DEF ObjInv, PlaceAt, MarkAt, SameRoles
<1>16. VendAt(o)'
  BY Zenon, <1>3, <1>5, <1>9, <1>10, <1>11, <1>12
    DEF ObjInv, VendAt, SameRoles
<1>17. FlightAt(o)'
  BY Zenon, <1>3, <1>5, <1>9, <1>10, <1>11, <1>12
    DEF ObjInv, FlightAt, SameRoles
<1>18. WinAt(o)'
  BY Zenon, <1>3, <1>5, <1>9, <1>10, <1>11, <1>12 DEF ObjInv, WinAt, SameRoles
<1>19. LostAt(o)'
  BY Zenon, <1>3, <1>5, <1>9, <1>10, <1>11, <1>12
    DEF ObjInv, LostAt, SameRoles
<1>20. ObjInv(o)'
  BY Zenon, <1>11, <1>13, <1>14, <1>15, <1>16, <1>17, <1>18, <1>19 DEF ObjInv
<1>21. QED
  BY Zenon, <1>4, <1>6, <1>7, <1>8, <1>20, QuietStep, NullsFresh DEF SpanSteps

\* claim_cached_object hands the object out.
LEMMA ClaimCachedObjectInv ==
    ASSUME IInv, Covered, TypeOK', NEW t \in Threads, ClaimCachedObject(t)
    PROVE  IInv'
<1>1. TypeOK /\ ControlAt(t) BY Zenon DEF IInv
<1>2. PICK o \in Objects : o = obj[t] BY Zenon, <1>1 DEF ControlAt, ClaimCachedObject
<1>3. ObjInv(o) BY Zenon, <1>2 DEF IInv
<1>4. pc[t] = "claim" /\ obj[t] = o /\ lock # t
  BY Zenon, <1>1, <1>2 DEF ControlAt, ClaimCachedObject
<1>5. /\ Marker(t, o) /\ Owner(t, o) /\ ~Vending(t, o) /\ ~InFlight(t, o)
      /\ ~Revalidated(t, o) /\ ~Losing(t, o) /\ ~Inserting(t, o)
      /\ ~ByFrontEnd(t, o) /\ ~ByCentral(t, o)
  BY Zenon, <1>4, NullsFresh
    DEF Marker, Owner, Vending, InFlight, Revalidated, Losing, Inserting,
        ByFrontEnd, ByCentral
<1>6. /\ UNCHANGED <<free, fe, span, listed, tag, lock>>
      /\ ~cached'[o] /\ app'[o] /\ wins'[o] = 0 /\ Moved(t, NoObject, "idle", "none")
  BY SMTT(20), <1>1, <1>3, <1>4, <1>5, ReturnMoves
    DEF TypeOK, ClaimCachedObject, ObjInv, PlaceAt, MarkAt, Live, Marked,
        central
<1>7. /\ UNCHANGED <<quar, ring, evicted>>
      /\ \A x \in Objects \ {o} : /\ cached'[x] = cached[x] /\ app'[x] = app[x]
                                     /\ fe'[x] = fe[x] /\ wins'[x] = wins[x]
  BY <1>1, <1>2, GotoMoves, ReturnMoves
    DEF TypeOK, Covered, ClaimCachedObject, markers, central
<1>8. ControlAt(t)'
  BY Zenon, <1>4, <1>6 DEF ControlAt, Moved
<1>9. /\ ~Marker(t, o)' /\ ~Owner(t, o)' /\ ~Vending(t, o)'
      /\ ~InFlight(t, o)' /\ ~Revalidated(t, o)' /\ ~Losing(t, o)'
      /\ ~Inserting(t, o)' /\ ~ByFrontEnd(t, o)' /\ ~ByCentral(t, o)'
  BY Zenon, <1>4, <1>6, NullsFresh
    DEF Moved, Marker, Owner, Vending, InFlight, Revalidated, Losing,
        Inserting, ByFrontEnd, ByCentral
<1>10. ASSUME NEW u \in Threads, u # t PROVE SameRoles(u, o)
  BY Zenon, <1>6, <1>10, OthersStay
<1>11. /\ CountAt(o)' /\ ~Marked(o)' /\ WithProgram(o)' /\ ~Won(o)'
  BY Zenon, <1>3, <1>6, WinsReset DEF ObjInv, Marked, WithProgram
<1>12. /\ (Central(o)' <=> Central(o)) /\ (InFrontEnd(o)' <=> InFrontEnd(o))
      /\ (Live(o)' <=> Live(o)) /\ (Cacheable(o)' <=> Cacheable(o))
  BY Zenon, <1>6 DEF Central, InFrontEnd, Live, Cacheable
<1>13. MarkAt(o)'
  BY Zenon, <1>3, <1>5, <1>9, <1>10, <1>11, <1>12
    DEF ObjInv, MarkAt, SameRoles
<1>14. RouteAt(o)'
  BY Zenon, <1>3, <1>5, <1>9, <1>10, <1>11, <1>12
    DEF ObjInv, RouteAt, SameRoles
<1>15. PlaceAt(o)'
  BY Zenon, <1>3, <1>5, <1>9, <1>10, <1>11, <1>12, RoleFacts
    DEF ObjInv, PlaceAt, MarkAt, SameRoles
<1>16. VendAt(o)'
  BY Zenon, <1>3, <1>5, <1>9, <1>10, <1>11, <1>12
    DEF ObjInv, VendAt, SameRoles
<1>17. FlightAt(o)'
  BY Zenon, <1>3, <1>5, <1>9, <1>10, <1>11, <1>12
    DEF ObjInv, FlightAt, SameRoles
<1>18. WinAt(o)'
  BY Zenon, <1>3, <1>5, <1>9, <1>10, <1>11, <1>12 DEF ObjInv, WinAt, SameRoles
<1>19. LostAt(o)'
  BY Zenon, <1>3, <1>5, <1>9, <1>10, <1>11, <1>12
    DEF ObjInv, LostAt, SameRoles
<1>20. ObjInv(o)'
  BY Zenon, <1>11, <1>13, <1>14, <1>15, <1>16, <1>17, <1>18, <1>19 DEF ObjInv
<1>21. QED
  BY ZenonT(30), <1>4, <1>6, <1>7, <1>8, <1>20, QuietStep, NullsFresh DEF SpanSteps

\* A refill marks what it removed, or drops it.
LEMMA RefillMarkInv ==
    ASSUME IInv, Covered, TypeOK', NEW t \in Threads, RefillMark(t)
    PROVE  IInv'
<1>1. TypeOK /\ ControlAt(t) BY Zenon DEF IInv
<1>2. PICK o \in Objects : o = obj[t] BY Zenon, <1>1 DEF ControlAt, RefillMark
<1>3. ObjInv(o) BY Zenon, <1>2 DEF IInv
<1>4. pc[t] = "refillMark" /\ obj[t] = o /\ via[t] = "flush" /\ lock # t
  BY Zenon, <1>1, <1>2 DEF ControlAt, RefillMark
<1>5. /\ ~Marker(t, o) /\ ~Owner(t, o) /\ Vending(t, o) /\ ~InFlight(t, o)
      /\ ~Revalidated(t, o) /\ ~Losing(t, o) /\ ~Inserting(t, o)
      /\ ByFrontEnd(t, o) /\ ~ByCentral(t, o)
  BY Zenon, <1>4, NullsFresh
    DEF Marker, Owner, Vending, InFlight, Revalidated, Losing, Inserting,
        ByFrontEnd, ByCentral
<1>6. /\ UNCHANGED <<free, app, fe, span, listed, tag, lock, wins>>
      /\ \/ cached[o] /\ cached' = cached /\ Moved(t, NoObject, "idle", "none")
         \/ ~cached[o] /\ cached'[o] /\ Moved(t, o, "publish", "flush")
  BY <1>1, <1>4, GotoMoves, ReturnMoves
    DEF TypeOK, RefillMark, markers, central
<1>7. /\ UNCHANGED <<quar, ring, evicted>>
      /\ \A x \in Objects \ {o} : /\ cached'[x] = cached[x] /\ app'[x] = app[x]
                                     /\ fe'[x] = fe[x] /\ wins'[x] = wins[x]
  BY <1>1, <1>2, GotoMoves, ReturnMoves
    DEF TypeOK, Covered, RefillMark, markers, central
<1>8. CASE cached[o] /\ cached' = cached /\ Moved(t, NoObject, "idle", "none")
  <2>1. ControlAt(t)'
    BY Zenon, <1>4, <1>6, <1>8 DEF ControlAt, Moved
  <2>2. /\ ~Marker(t, o)' /\ ~Owner(t, o)' /\ ~Vending(t, o)'
        /\ ~InFlight(t, o)' /\ ~Revalidated(t, o)' /\ ~Losing(t, o)'
        /\ ~Inserting(t, o)' /\ ~ByFrontEnd(t, o)' /\ ~ByCentral(t, o)'
    BY Zenon, <1>4, <1>6, <1>8, NullsFresh
      DEF Moved, Marker, Owner, Vending, InFlight, Revalidated, Losing,
          Inserting, ByFrontEnd, ByCentral
  <2>3. ASSUME NEW u \in Threads, u # t PROVE SameRoles(u, o)
    BY Zenon, <1>6, <1>8, <2>3, OthersStay
  <2>4. /\ CountAt(o)' /\ Marked(o)
    BY Zenon, <1>3, <1>6, <1>8, CountsKept DEF ObjInv, Marked
  <2>5. /\ (Marked(o)' <=> Marked(o)) /\ (Central(o)' <=> Central(o))
        /\ (WithProgram(o)' <=> WithProgram(o))
        /\ (InFrontEnd(o)' <=> InFrontEnd(o)) /\ (Won(o)' <=> Won(o))
        /\ (Live(o)' <=> Live(o)) /\ (Cacheable(o)' <=> Cacheable(o))
    BY Zenon, <1>6, <1>8
      DEF Marked, Central, WithProgram, InFrontEnd, Won, Live, Cacheable
  <2>6. MarkAt(o)'
    BY Zenon, <1>3, <1>5, <2>2, <2>3, <2>4, <2>5 DEF ObjInv, MarkAt, SameRoles
  <2>7. RouteAt(o)'
    BY Zenon, <1>3, <1>5, <2>2, <2>3, <2>4, <2>5
      DEF ObjInv, RouteAt, SameRoles
  <2>8. PlaceAt(o)'
    BY Zenon, <1>3, <1>5, <2>2, <2>3, <2>4, <2>5
      DEF ObjInv, PlaceAt, SameRoles
  <2>9. VendAt(o)'
    BY Zenon, <1>3, <1>5, <2>2, <2>3, <2>4, <2>5 DEF ObjInv, VendAt, SameRoles
  <2>10. FlightAt(o)'
    BY Zenon, <1>3, <1>5, <2>2, <2>3, <2>4, <2>5
      DEF ObjInv, FlightAt, SameRoles
  <2>11. WinAt(o)'
    BY Zenon, <1>3, <1>5, <2>2, <2>3, <2>4, <2>5, RoleFacts
      DEF ObjInv, WinAt, VendAt, SameRoles
  <2>12. LostAt(o)'
    BY Zenon, <1>3, <1>5, <2>2, <2>3, <2>4, <2>5, RoleFacts
      DEF ObjInv, LostAt, VendAt, FlightAt, MarkAt, PlaceAt, SameRoles
  <2>13. ObjInv(o)'
    BY Zenon, <2>4, <2>6, <2>7, <2>8, <2>9, <2>10, <2>11, <2>12 DEF ObjInv
  <2>14. QED
    BY Zenon, <1>4, <1>6, <1>7, <1>8, <2>1, <2>13, QuietStep, NullsFresh
      DEF SpanSteps
<1>9. CASE ~cached[o] /\ cached'[o] /\ Moved(t, o, "publish", "flush")
  <2>1. ControlAt(t)'
    BY Zenon, <1>4, <1>6, <1>9 DEF ControlAt, Moved
  <2>2. /\ Marker(t, o)' /\ Owner(t, o)' /\ ~Vending(t, o)'
        /\ ~InFlight(t, o)' /\ ~Revalidated(t, o)' /\ ~Losing(t, o)'
        /\ ~Inserting(t, o)' /\ ~ByFrontEnd(t, o)' /\ ~ByCentral(t, o)'
    BY Zenon, <1>4, <1>6, <1>9, NullsFresh
      DEF Moved, Marker, Owner, Vending, InFlight, Revalidated, Losing,
          Inserting, ByFrontEnd, ByCentral
  <2>3. ASSUME NEW u \in Threads, u # t PROVE SameRoles(u, o)
    BY Zenon, <1>6, <1>9, <2>3, OthersStay
  <2>4. /\ CountAt(o)' /\ ~Marked(o) /\ Marked(o)'
    BY Zenon, <1>3, <1>6, <1>9, CountsKept DEF ObjInv, Marked
  <2>5. /\ (Central(o)' <=> Central(o))
        /\ (WithProgram(o)' <=> WithProgram(o))
        /\ (InFrontEnd(o)' <=> InFrontEnd(o)) /\ (Won(o)' <=> Won(o))
        /\ (Live(o)' <=> Live(o)) /\ (Cacheable(o)' <=> Cacheable(o))
    BY Zenon, <1>6, <1>9
      DEF Central, WithProgram, InFrontEnd, Won, Live, Cacheable
  <2>6. MarkAt(o)'
    BY Zenon, <1>3, <1>5, <2>2, <2>3, <2>4, <2>5, RoleFacts
      DEF ObjInv, MarkAt, VendAt, RouteAt, SameRoles
  <2>7. RouteAt(o)'
    BY Zenon, <1>3, <1>5, <2>2, <2>3, <2>4, <2>5
      DEF ObjInv, RouteAt, SameRoles
  <2>8. PlaceAt(o)'
    BY Zenon, <1>3, <1>5, <2>2, <2>3, <2>4, <2>5, RoleFacts
      DEF ObjInv, PlaceAt, VendAt, SameRoles
  <2>9. VendAt(o)'
    BY Zenon, <1>3, <1>5, <2>2, <2>3, <2>4, <2>5 DEF ObjInv, VendAt, SameRoles
  <2>10. FlightAt(o)'
    BY Zenon, <1>3, <1>5, <2>2, <2>3, <2>4, <2>5
      DEF ObjInv, FlightAt, SameRoles
  <2>11. WinAt(o)'
    BY Zenon, <1>3, <1>5, <2>2, <2>3, <2>4, <2>5, RoleFacts
      DEF ObjInv, WinAt, VendAt, SameRoles
  <2>12. LostAt(o)'
    BY Zenon, <1>3, <1>5, <2>2, <2>3, <2>4, <2>5 DEF ObjInv, LostAt, SameRoles
  <2>13. ObjInv(o)'
    BY Zenon, <2>4, <2>6, <2>7, <2>8, <2>9, <2>10, <2>11, <2>12 DEF ObjInv
  <2>14. QED
    BY Zenon, <1>4, <1>6, <1>7, <1>9, <2>1, <2>13, QuietStep, NullsFresh
      DEF SpanSteps
<1>10. QED BY Zenon, <1>6, <1>8, <1>9

\* A refill or a flush publishes what it owns.
LEMMA PublishInv ==
    ASSUME IInv, Covered, TypeOK', NEW t \in Threads, Publish(t)
    PROVE  IInv'
<1>1. TypeOK /\ ControlAt(t) BY Zenon DEF IInv
<1>2. PICK o \in Objects : o = obj[t] BY Zenon, <1>1 DEF ControlAt, Publish
<1>3. ObjInv(o) BY Zenon, <1>2 DEF IInv
<1>4. pc[t] = "publish" /\ obj[t] = o /\ via[t] = "flush" /\ lock # t
  BY Zenon, <1>1, <1>2 DEF ControlAt, Publish
<1>5. /\ Marker(t, o) /\ Owner(t, o) /\ ~Vending(t, o) /\ ~InFlight(t, o)
      /\ ~Revalidated(t, o) /\ ~Losing(t, o) /\ ~Inserting(t, o)
      /\ ~ByFrontEnd(t, o) /\ ~ByCentral(t, o)
  BY Zenon, <1>4, NullsFresh
    DEF Marker, Owner, Vending, InFlight, Revalidated, Losing, Inserting,
        ByFrontEnd, ByCentral
<1>6. /\ UNCHANGED <<cached, free, app, span, listed, tag, lock, wins>>
      /\ \/ fe'[o] = fe[o] + 1 /\ Moved(t, NoObject, "idle", "none")
         \/ fe' = fe /\ Moved(t, o, "insert", "flush")
  BY <1>1, <1>3, <1>4, <1>5, GotoMoves, ReturnMoves
    DEF TypeOK, Publish, ObjInv, PlaceAt, Live, markers, central
<1>7. /\ UNCHANGED <<quar, ring, evicted>>
      /\ \A x \in Objects \ {o} : /\ cached'[x] = cached[x] /\ app'[x] = app[x]
                                     /\ fe'[x] = fe[x] /\ wins'[x] = wins[x]
  BY <1>1, <1>2, GotoMoves, ReturnMoves
    DEF TypeOK, Covered, Publish, markers, central
<1>8. CASE fe'[o] = fe[o] + 1 /\ Moved(t, NoObject, "idle", "none")
  <2>1. ControlAt(t)'
    BY Zenon, <1>4, <1>6, <1>8 DEF ControlAt, Moved
  <2>2. /\ ~Marker(t, o)' /\ ~Owner(t, o)' /\ ~Vending(t, o)'
        /\ ~InFlight(t, o)' /\ ~Revalidated(t, o)' /\ ~Losing(t, o)'
        /\ ~Inserting(t, o)' /\ ~ByFrontEnd(t, o)' /\ ~ByCentral(t, o)'
    BY Zenon, <1>4, <1>6, <1>8, NullsFresh
      DEF Moved, Marker, Owner, Vending, InFlight, Revalidated, Losing,
          Inserting, ByFrontEnd, ByCentral
  <2>3. ASSUME NEW u \in Threads, u # t PROVE SameRoles(u, o)
    BY Zenon, <1>6, <1>8, <2>3, OthersStay
  <2>4. /\ CountAt(o)' /\ ~InFrontEnd(o) /\ InFrontEnd(o)'
    BY Zenon, <1>3, <1>6, <1>8, <1>5, EntryAdded DEF ObjInv, MarkAt
  <2>5. /\ (Marked(o)' <=> Marked(o)) /\ (Central(o)' <=> Central(o))
        /\ (WithProgram(o)' <=> WithProgram(o)) /\ (Won(o)' <=> Won(o))
        /\ (Live(o)' <=> Live(o)) /\ (Cacheable(o)' <=> Cacheable(o))
    BY Zenon, <1>6, <1>8
      DEF Marked, Central, WithProgram, Won, Live, Cacheable
  <2>6. MarkAt(o)'
    BY Zenon, <1>3, <1>5, <2>2, <2>3, <2>4, <2>5 DEF ObjInv, MarkAt, SameRoles
  <2>7. RouteAt(o)'
    BY Zenon, <1>3, <1>5, <2>2, <2>3, <2>4, <2>5
      DEF ObjInv, RouteAt, SameRoles
  <2>8. PlaceAt(o)'
    BY Zenon, <1>3, <1>5, <2>2, <2>3, <2>4, <2>5, RoleFacts
      DEF ObjInv, PlaceAt, MarkAt, SameRoles
  <2>9. VendAt(o)'
    BY Zenon, <1>3, <1>5, <2>2, <2>3, <2>4, <2>5 DEF ObjInv, VendAt, SameRoles
  <2>10. FlightAt(o)'
    BY Zenon, <1>3, <1>5, <2>2, <2>3, <2>4, <2>5
      DEF ObjInv, FlightAt, SameRoles
  <2>11. WinAt(o)'
    BY Zenon, <1>3, <1>5, <2>2, <2>3, <2>4, <2>5 DEF ObjInv, WinAt, SameRoles
  <2>12. LostAt(o)'
    BY Zenon, <1>3, <1>5, <2>2, <2>3, <2>4, <2>5 DEF ObjInv, LostAt, SameRoles
  <2>13. ObjInv(o)'
    BY Zenon, <2>4, <2>6, <2>7, <2>8, <2>9, <2>10, <2>11, <2>12 DEF ObjInv
  <2>14. QED
    BY Zenon, <1>4, <1>6, <1>7, <1>8, <2>1, <2>13, QuietStep, NullsFresh
      DEF SpanSteps
<1>9. CASE fe' = fe /\ Moved(t, o, "insert", "flush")
  <2>1. ControlAt(t)'
    BY Zenon, <1>4, <1>6, <1>9 DEF ControlAt, Moved
  <2>2. /\ Marker(t, o)' /\ Owner(t, o)' /\ ~Vending(t, o)'
        /\ ~InFlight(t, o)' /\ ~Revalidated(t, o)' /\ ~Losing(t, o)'
        /\ ~Inserting(t, o)' /\ ByFrontEnd(t, o)' /\ ~ByCentral(t, o)'
    BY Zenon, <1>4, <1>6, <1>9, NullsFresh
      DEF Moved, Marker, Owner, Vending, InFlight, Revalidated, Losing,
          Inserting, ByFrontEnd, ByCentral
  <2>3. ASSUME NEW u \in Threads, u # t PROVE SameRoles(u, o)
    BY Zenon, <1>6, <1>9, <2>3, OthersStay
  <2>4. /\ CountAt(o)'
    BY Zenon, <1>3, <1>6, <1>9, CountsKept DEF ObjInv
  <2>5. /\ (Marked(o)' <=> Marked(o)) /\ (Central(o)' <=> Central(o))
        /\ (WithProgram(o)' <=> WithProgram(o))
        /\ (InFrontEnd(o)' <=> InFrontEnd(o)) /\ (Won(o)' <=> Won(o))
        /\ (Live(o)' <=> Live(o)) /\ (Cacheable(o)' <=> Cacheable(o))
    BY Zenon, <1>6, <1>9
      DEF Marked, Central, WithProgram, InFrontEnd, Won, Live, Cacheable
  <2>6. MarkAt(o)'
    BY Zenon, <1>3, <1>5, <2>2, <2>3, <2>4, <2>5 DEF ObjInv, MarkAt, SameRoles
  <2>7. RouteAt(o)'
    BY Zenon, <1>3, <1>5, <2>2, <2>3, <2>4, <2>5, RoleFacts
      DEF ObjInv, RouteAt, MarkAt, SameRoles
  <2>8. PlaceAt(o)'
    BY Zenon, <1>3, <1>5, <2>2, <2>3, <2>4, <2>5
      DEF ObjInv, PlaceAt, SameRoles
  <2>9. VendAt(o)'
    BY Zenon, <1>3, <1>5, <2>2, <2>3, <2>4, <2>5 DEF ObjInv, VendAt, SameRoles
  <2>10. FlightAt(o)'
    BY Zenon, <1>3, <1>5, <2>2, <2>3, <2>4, <2>5
      DEF ObjInv, FlightAt, SameRoles
  <2>11. WinAt(o)'
    BY Zenon, <1>3, <1>5, <2>2, <2>3, <2>4, <2>5 DEF ObjInv, WinAt, SameRoles
  <2>12. LostAt(o)'
    BY Zenon, <1>3, <1>5, <2>2, <2>3, <2>4, <2>5 DEF ObjInv, LostAt, SameRoles
  <2>13. ObjInv(o)'
    BY Zenon, <2>4, <2>6, <2>7, <2>8, <2>9, <2>10, <2>11, <2>12 DEF ObjInv
  <2>14. QED
    BY Zenon, <1>4, <1>6, <1>7, <1>9, <2>1, <2>13, QuietStep, NullsFresh
      DEF SpanSteps
<1>10. QED BY Zenon, <1>6, <1>8, <1>9

-----------------------------------------------------------------------------
(* Type correctness, in every build *)

Routes == {"none", "cached", "plain", "flush", "drain", "disable", "converge"}

\* The steps at which a thread works on no object.
Resting == {"idle", "drain", "drainRing"}

\* TypeOK alone is not inductive: that Quarantine::offer puts an object in the
\* ring depends on the thread having one.  The inductive invariant, in two
\* halves: the state of the threads and the shared state.
LocalOK ==
    /\ pc \in [Threads -> Labels]
    /\ obj \in [Threads -> Objects \cup {NoObject}]
    /\ via \in [Threads -> Routes]
    /\ evicted \in [Threads -> SUBSET Objects]
    /\ \A t \in Threads : pc[t] \notin Resting => obj[t] \in Objects

SharedOK ==
    /\ cached \in [Objects -> BOOLEAN] /\ free \in [Objects -> BOOLEAN]
    /\ quar \in [Objects -> BOOLEAN] /\ app \in [Objects -> BOOLEAN]
    /\ fe \in [Objects -> Nat] /\ wins \in [Objects -> Nat]
    /\ ring \subseteq Objects /\ enabled \in BOOLEAN
    /\ span \in [Spans -> {"Pooled", "Active", "Released"}]
    /\ listed \in [Spans -> {"none", "partial", "empty"}]
    /\ tag \in [Spans -> {"default", "hinted", "foreign"}]
    /\ lock \in Threads \cup {NoThread}

TypeInv == LocalOK /\ SharedOK

\* The two halves imply the type invariant.
LEMMA TypeInvImplies == TypeInv => TypeOK
BY Zenon DEF TypeInv, TypeOK, LocalOK, SharedOK, Routes

\* What the thread-local part of a step does to the types: a new object, ...
LEMMA TakeTypes ==
    ASSUME LocalOK, NEW t \in Threads, NEW o \in Objects \cup {NoObject},
           NEW l \in Labels, NEW v \in Routes, Take(t, o, l, v),
           o \in Objects \/ l \in Resting,
           evicted' \in [Threads -> SUBSET Objects]
    PROVE  LocalOK'
BY Zenon DEF LocalOK, Take

\* ... a step further with the same object, ...
LEMMA GotoTypes ==
    ASSUME LocalOK, NEW t \in Threads, NEW l \in Labels, Goto(t, l),
           pc[t] \notin Resting \/ l \in Resting
    PROVE  LocalOK'
BY Zenon DEF LocalOK, Goto

\* ... the end of an operation, ...
LEMMA ReturnTypes ==
    ASSUME LocalOK, NEW t \in Threads, Return(t) PROVE LocalOK'
BY Zenon, TakeTypes DEF LocalOK, Return, Labels, Routes, Resting

\* ... the step after an insert or a retirement, ...
LEMMA ResumeTypes ==
    ASSUME LocalOK, NEW t \in Threads, Resume(t) PROVE LocalOK'
<1>1. CASE via[t] \in {"drain", "disable", "converge"}
  <2>1. Take(t, NoObject, "drain", via[t]) /\ evicted' = evicted
    BY Zenon, <1>1 DEF Resume
  <2>2. via[t] \in Routes BY Zenon DEF LocalOK
  <2>3. QED BY Zenon, <2>1, <2>2, TakeTypes DEF LocalOK, Labels, Resting
<1>2. CASE via[t] \notin {"drain", "disable", "converge"}
  BY Zenon, <1>2, ReturnTypes DEF Resume
<1>3. QED BY Zenon, <1>1, <1>2

\* ... and the end of a free in the quarantine.
LEMMA SettleTypes ==
    ASSUME LocalOK, NEW t \in Threads, Settle(t), pc[t] \notin Resting
    PROVE  LocalOK'
BY Zenon, GotoTypes, ReturnTypes DEF Settle, Labels

\* Admitting a free keeps the types of what it writes.
LEMMA EndLifeTypes ==
    ASSUME SharedOK, NEW o \in Objects, EndLife(o)
    PROVE  app' \in [Objects -> BOOLEAN] /\ wins' \in [Objects -> Nat]
<1>1. app' \in [Objects -> BOOLEAN] BY Zenon DEF SharedOK, EndLife
<1>2. wins' \in [Objects -> Nat] BY DEF SharedOK, EndLife
<1>3. QED BY Zenon, <1>1, <1>2

\* The steps of a free keep TypeOK.
LEMMA FreeStepTypes ==
    ASSUME TypeInv, NEW t \in Threads, FreeStep(t) PROVE TypeInv'
<1>0. LocalOK /\ SharedOK BY Zenon DEF TypeInv
<1>w. pc[t] \notin Resting => obj[t] \in Objects BY Zenon, <1>0 DEF LocalOK
<1>1. CASE ScreenCached(t)
  <2>1. LocalOK'
    BY Zenon, <1>1, <1>0, GotoTypes, ReturnTypes DEF ScreenCached, Labels, Resting
  <2>2. SharedOK'
    BY Zenon, <1>1, <1>0 DEF ScreenCached, SharedOK, markers, central
  <2>3. QED BY Zenon, <2>1, <2>2 DEF TypeInv
<1>2. CASE ScreenCentral(t)
  <2>1. LocalOK'
    BY Zenon, <1>2, <1>0, TakeTypes, GotoTypes, ReturnTypes DEF ScreenCentral,
       LocalOK, Labels, Routes, Resting
  <2>2. SharedOK'
    BY Zenon, <1>2, <1>0 DEF ScreenCentral, SharedOK, markers, central
  <2>3. QED BY Zenon, <2>1, <2>2 DEF TypeInv
<1>3. CASE TryMarkCached(t)
  <2>1. LocalOK'
    BY Zenon, <1>3, <1>0, GotoTypes, ReturnTypes DEF TryMarkCached, Labels, Resting
  <2>2. SharedOK'
    BY Zenon, <1>3, <1>0 DEF TryMarkCached, SharedOK, markers, central
  <2>3. QED BY Zenon, <2>1, <2>2 DEF TypeInv
<1>4. CASE RevalidateCentral(t)
  <2>1. LocalOK'
    BY Zenon, <1>4, <1>0, GotoTypes, ReturnTypes DEF RevalidateCentral, Labels,
       Resting
  <2>2. SharedOK'
    BY Zenon, <1>4, <1>0 DEF RevalidateCentral, SharedOK, markers, central
  <2>3. QED BY Zenon, <2>1, <2>2 DEF TypeInv
<1>5. CASE RevalidateQuarantined(t)
  <2>1. LocalOK'
    BY Zenon, <1>5, <1>0, GotoTypes, ReturnTypes DEF RevalidateQuarantined, Labels,
       Resting
  <2>w. app' \in [Objects -> BOOLEAN] /\ wins' \in [Objects -> Nat]
    BY Zenon, <1>5, <1>0, <1>w, EndLifeTypes DEF RevalidateQuarantined, SharedOK,
       Resting
  <2>2. SharedOK'
    BY Zenon, <1>5, <1>0, <2>w DEF RevalidateQuarantined, SharedOK, markers, central
  <2>3. QED BY Zenon, <2>1, <2>2 DEF TypeInv
<1>6. CASE Unmark(t)
  <2>1. LocalOK'
    BY Zenon, <1>6, <1>0, GotoTypes, ReturnTypes DEF Unmark, Labels, Resting
  <2>2. SharedOK'
    BY Zenon, <1>6, <1>0 DEF Unmark, SharedOK, markers, central
  <2>3. QED BY Zenon, <2>1, <2>2 DEF TypeInv
<1>7. CASE Route(t)
  <2>1. LocalOK'
    BY Zenon, <1>7, <1>0, GotoTypes, ReturnTypes DEF Route, Labels, Resting
  <2>2. SharedOK'
    BY <1>7, <1>0 DEF Route, SharedOK, markers, central
  <2>3. QED BY Zenon, <2>1, <2>2 DEF TypeInv
<1>8. QED BY Zenon, <1>1, <1>2, <1>3, <1>4, <1>5, <1>6, <1>7 DEF FreeStep

\* The steps of the quarantine keep TypeOK.
LEMMA QuarantineStepTypes ==
    ASSUME TypeInv, NEW t \in Threads, QuarantineStep(t) PROVE TypeInv'
<1>0. LocalOK /\ SharedOK BY Zenon DEF TypeInv
<1>w. pc[t] \notin Resting => obj[t] \in Objects BY Zenon, <1>0 DEF LocalOK
<1>1. CASE QuarCheck(t)
  <2>1. LocalOK'
    BY Zenon, <1>1, <1>0, GotoTypes, ReturnTypes, SettleTypes DEF QuarCheck, Labels,
       Resting
  <2>2. SharedOK'
    BY Zenon, <1>1, <1>0 DEF QuarCheck, SharedOK, markers, central
  <2>3. QED BY Zenon, <2>1, <2>2 DEF TypeInv
<1>2. CASE QuarEnabled(t)
  <2>1. LocalOK'
    BY Zenon, <1>2, <1>0, GotoTypes, ReturnTypes DEF QuarEnabled, Labels, Resting
  <2>2. SharedOK'
    BY Zenon, <1>2, <1>0 DEF QuarEnabled, SharedOK, markers, central
  <2>3. QED BY Zenon, <2>1, <2>2 DEF TypeInv
<1>3. CASE QuarCentral(t)
  <2>1. LocalOK'
    BY Zenon, <1>3, <1>0, GotoTypes, ReturnTypes, SettleTypes DEF QuarCentral,
       Labels, Resting
  <2>2. SharedOK'
    BY Zenon, <1>3, <1>0 DEF QuarCentral, SharedOK, markers, central
  <2>3. QED BY Zenon, <2>1, <2>2 DEF TypeInv
<1>4. CASE QuarCached(t)
  <2>1. LocalOK'
    BY Zenon, <1>4, <1>0, GotoTypes, ReturnTypes, SettleTypes DEF QuarCached, Labels,
       Resting
  <2>2. SharedOK'
    BY Zenon, <1>4, <1>0 DEF QuarCached, SharedOK, markers, central
  <2>3. QED BY Zenon, <2>1, <2>2 DEF TypeInv
<1>5. CASE MarkQuarantined(t)
  <2>1. LocalOK'
    BY Zenon, <1>5, <1>0, GotoTypes, ReturnTypes, SettleTypes DEF MarkQuarantined,
       Labels, Resting
  <2>w. app' \in [Objects -> BOOLEAN] /\ wins' \in [Objects -> Nat]
    BY Zenon, <1>5, <1>0, <1>w, EndLifeTypes DEF MarkQuarantined, SharedOK, Resting
  <2>2. SharedOK'
    BY Zenon, <1>5, <1>0, <2>w DEF MarkQuarantined, SharedOK, markers, central
  <2>3. QED BY Zenon, <2>1, <2>2 DEF TypeInv
<1>6. CASE OfferHeld(t)
  <2>1. PICK E \in SUBSET ring : /\ ring' = (ring \ E) \cup {obj[t]}
                                 /\ evicted' = [evicted EXCEPT ![t] = E]
    BY Zenon, <1>6 DEF OfferHeld
  <2>2. obj[t] \in Objects /\ ring \subseteq Objects
    BY Zenon, <1>6, <1>0, <1>w DEF OfferHeld, SharedOK, Resting
  <2>3. LocalOK'
    BY Zenon, <1>6, <2>1, <2>2, <1>0 DEF OfferHeld, LocalOK, Labels
  <2>4. SharedOK'
    BY Zenon, <1>6, <2>1, <2>2, <1>0 DEF OfferHeld, SharedOK, markers, central
  <2>5. QED BY Zenon, <2>3, <2>4 DEF TypeInv
<1>7. CASE OfferDeclined(t)
  <2>1. LocalOK'
    BY Zenon, <1>7, <1>0, GotoTypes, ReturnTypes DEF OfferDeclined, Labels, Resting
  <2>2. SharedOK'
    BY Zenon, <1>7, <1>0 DEF OfferDeclined, SharedOK, markers, central
  <2>3. QED BY Zenon, <2>1, <2>2 DEF TypeInv
<1>8. CASE UnclaimQuarantined(t)
  <2>1. LocalOK'
    BY Zenon, <1>8, <1>0, GotoTypes, ReturnTypes DEF UnclaimQuarantined, Labels,
       Resting
  <2>2. SharedOK'
    BY Zenon, <1>8, <1>0 DEF UnclaimQuarantined, SharedOK, markers, central
  <2>3. QED BY Zenon, <2>1, <2>2 DEF TypeInv
<1>9. CASE Held(t)
  <2>1. LocalOK'
    BY Zenon, <1>9, <1>0, TakeTypes, GotoTypes, ReturnTypes DEF Held, LocalOK,
       Labels, Routes, Resting
  <2>2. SharedOK'
    BY Zenon, <1>9, <1>0 DEF Held, SharedOK, markers, central
  <2>3. QED BY Zenon, <2>1, <2>2 DEF TypeInv
<1>10. CASE DrainOne(t)
  <2>1. LocalOK'
    <3>1. CASE \E o \in evicted[t] :
                  /\ Take(t, o, "insert", via[t])
                  /\ evicted' = [evicted EXCEPT ![t] = @ \ {o}]
      <4>1. PICK o \in evicted[t] :
                  /\ Take(t, o, "insert", via[t])
                  /\ evicted' = [evicted EXCEPT ![t] = @ \ {o}]
        BY Zenon, <3>1
      <4>2. /\ o \in Objects /\ via[t] \in Routes
            /\ evicted' \in [Threads -> SUBSET Objects]
        BY Zenon, <4>1, <1>0 DEF LocalOK
      <4>3. QED BY Zenon, <4>1, <4>2, <1>0, TakeTypes DEF Labels, Resting
    <3>2. CASE IF via[t] = "drain" THEN Return(t) ELSE Goto(t, "drainRing")
      BY Zenon, <3>2, <1>0, GotoTypes, ReturnTypes DEF Labels, Resting
    <3>3. QED BY Zenon, <1>10, <3>1, <3>2 DEF DrainOne
  <2>2. SharedOK'
    BY Zenon, <1>10, <1>0 DEF DrainOne, SharedOK, markers, central
  <2>3. QED BY Zenon, <2>1, <2>2 DEF TypeInv
<1>11. CASE DrainRing(t)
  <2>1. LocalOK'
    <3>1. CASE \E E \in SUBSET ring :
                  /\ evicted' = [evicted EXCEPT ![t] = E]
                  /\ Take(t, NoObject, "drain", via[t])
      <4>1. PICK E \in SUBSET ring :
                  /\ evicted' = [evicted EXCEPT ![t] = E]
                  /\ Take(t, NoObject, "drain", via[t])
        BY Zenon, <3>1
      <4>2. via[t] \in Routes /\ evicted' \in [Threads -> SUBSET Objects]
        BY Zenon, <4>1, <1>0 DEF LocalOK, SharedOK
      <4>3. QED BY Zenon, <4>1, <4>2, <1>0, TakeTypes DEF Labels, Resting
    <3>2. CASE Return(t)
      BY Zenon, <3>2, <1>0, ReturnTypes
    <3>3. QED BY Zenon, <1>11, <3>1, <3>2 DEF DrainRing
  <2>2. SharedOK'
    BY Zenon, <1>11, <1>0 DEF DrainRing, SharedOK, markers, central
  <2>3. QED BY Zenon, <2>1, <2>2 DEF TypeInv
<1>12. QED BY Zenon, <1>1, <1>2, <1>3, <1>4, <1>5, <1>6, <1>7, <1>8, <1>9, <1>10,
     <1>11 DEF QuarantineStep

\* The steps of the central insert and of retirement keep TypeOK.
LEMMA CentralStepTypes ==
    ASSUME TypeInv, NEW t \in Threads, CentralStep(t) PROVE TypeInv'
<1>0. LocalOK /\ SharedOK BY Zenon DEF TypeInv
<1>w. pc[t] \notin Resting => obj[t] \in Objects BY Zenon, <1>0 DEF LocalOK
<1>1. CASE CentralInsert(t)
  <2>1. LocalOK'
    BY Zenon, <1>1, <1>0, GotoTypes, ReturnTypes DEF CentralInsert, Labels, Resting
  <2>w. app' \in [Objects -> BOOLEAN] /\ wins' \in [Objects -> Nat]
    BY Zenon, <1>1, <1>0, <1>w, EndLifeTypes DEF CentralInsert, SharedOK, Resting
  <2>2. SharedOK'
    BY Zenon, <1>1, <1>0, <2>w DEF CentralInsert, SharedOK, markers, central
  <2>3. QED BY Zenon, <2>1, <2>2 DEF TypeInv
<1>2. CASE InsertRejected(t)
  <2>1. LocalOK'
    BY Zenon, <1>2, <1>0, GotoTypes, ReturnTypes, ResumeTypes DEF InsertRejected,
       Labels, Resting
  <2>2. SharedOK'
    BY Zenon, <1>2, <1>0 DEF InsertRejected, SharedOK, markers, central
  <2>3. QED BY Zenon, <2>1, <2>2 DEF TypeInv
<1>3. CASE ReleaseClaim(t)
  <2>1. LocalOK'
    BY Zenon, <1>3, <1>0, GotoTypes, ReturnTypes DEF ReleaseClaim, Labels, Resting
  <2>2. SharedOK'
    BY Zenon, <1>3, <1>0 DEF ReleaseClaim, SharedOK, markers, central
  <2>3. QED BY Zenon, <2>1, <2>2 DEF TypeInv
<1>4. CASE InsertClearQuarantined(t)
  <2>1. LocalOK'
    BY Zenon, <1>4, <1>0, GotoTypes, ReturnTypes DEF InsertClearQuarantined, Labels,
       Resting
  <2>2. SharedOK'
    BY Zenon, <1>4, <1>0 DEF InsertClearQuarantined, SharedOK, markers, central
  <2>3. QED BY Zenon, <2>1, <2>2 DEF TypeInv
<1>5. CASE InsertUnmark(t)
  <2>1. LocalOK'
    BY Zenon, <1>5, <1>0, GotoTypes, ReturnTypes, ResumeTypes DEF InsertUnmark,
       Labels, Resting
  <2>2. SharedOK'
    BY Zenon, <1>5, <1>0 DEF InsertUnmark, SharedOK, markers, central,
       ListAfterInsert
  <2>3. QED BY Zenon, <2>1, <2>2 DEF TypeInv
<1>6. CASE Deactivate(t)
  <2>1. LocalOK'
    BY Zenon, <1>6, <1>0, GotoTypes, ReturnTypes DEF Deactivate, Labels, Resting
  <2>2. SharedOK'
    BY Zenon, <1>6, <1>0, FreeClaimAssumption DEF Deactivate, SharedOK, markers,
       central
  <2>3. QED BY Zenon, <2>1, <2>2 DEF TypeInv
<1>7. CASE ReclaimSlot(t)
  <2>1. LocalOK'
    BY Zenon, <1>7, <1>0, GotoTypes, ReturnTypes, ResumeTypes DEF ReclaimSlot,
       Labels, Resting
  <2>2. SharedOK'
    BY Zenon, <1>7, <1>0 DEF ReclaimSlot, SharedOK, markers, central
  <2>3. QED BY Zenon, <2>1, <2>2 DEF TypeInv
<1>8. QED BY Zenon, <1>1, <1>2, <1>3, <1>4, <1>5, <1>6, <1>7 DEF CentralStep

\* The later steps of an allocation, a refill or a flush keep TypeOK.
LEMMA AllocStepTypes ==
    ASSUME TypeInv, NEW t \in Threads, AllocStep(t) PROVE TypeInv'
<1>0. LocalOK /\ SharedOK BY Zenon DEF TypeInv
<1>w. pc[t] \notin Resting => obj[t] \in Objects BY Zenon, <1>0 DEF LocalOK
<1>1. CASE ClaimCachedObject(t)
  <2>1. LocalOK'
    BY Zenon, <1>1, <1>0, ReturnTypes DEF ClaimCachedObject
  <2>2. cached' \in [Objects -> BOOLEAN]
    BY Zenon, <1>1, <1>0 DEF ClaimCachedObject, SharedOK
  <2>3. app' \in [Objects -> BOOLEAN] /\ wins' \in [Objects -> Nat]
    <3>1. \/ UNCHANGED <<app, wins>>
          \/ /\ app' = [app EXCEPT ![obj[t]] = TRUE]
             /\ wins' = [wins EXCEPT ![obj[t]] = 0]
      BY Zenon, <1>1 DEF ClaimCachedObject
    <3>2. app' \in [Objects -> BOOLEAN] BY Zenon, <3>1, <1>0 DEF SharedOK
    <3>3. wins' \in [Objects -> Nat] BY <3>1, <1>0 DEF SharedOK
    <3>4. QED BY Zenon, <3>2, <3>3
  <2>4. SharedOK'
    BY Zenon, <1>1, <2>2, <2>3, <1>0 DEF ClaimCachedObject, SharedOK, central
  <2>5. QED BY Zenon, <2>1, <2>4 DEF TypeInv
<1>2. CASE RefillMark(t)
  <2>1. LocalOK'
    BY Zenon, <1>2, <1>0, GotoTypes, ReturnTypes DEF RefillMark, Labels, Resting
  <2>2. SharedOK'
    BY Zenon, <1>2, <1>0 DEF RefillMark, SharedOK, markers, central
  <2>3. QED BY Zenon, <2>1, <2>2 DEF TypeInv
<1>3. CASE Publish(t)
  <2>1. LocalOK'
    BY Zenon, <1>3, <1>0, GotoTypes, ReturnTypes DEF Publish, Labels, Resting
  <2>2. SharedOK'
    BY <1>3, <1>0 DEF Publish, SharedOK, markers, central
  <2>3. QED BY Zenon, <2>1, <2>2 DEF TypeInv
<1>4. QED BY Zenon, <1>1, <1>2, <1>3 DEF AllocStep

\* The first step of every operation keeps TypeOK.
LEMMA CallTypes ==
    ASSUME TypeInv, NEW t \in Threads, Call(t) PROVE TypeInv'
<1>0. LocalOK /\ SharedOK BY Zenon DEF TypeInv
<1>1. CASE \E o \in Objects : FreeCall(t, o)
  <2>1. LocalOK'
    BY Zenon, <1>1, <1>0, TakeTypes, GotoTypes, ReturnTypes DEF FreeCall, LocalOK,
       Labels, Routes, Resting
  <2>2. SharedOK'
    BY Zenon, <1>1, <1>0 DEF FreeCall, SharedOK, markers, central
  <2>3. QED BY Zenon, <2>1, <2>2 DEF TypeInv
<1>2. CASE \E o \in Objects : FrontEndPop(t, o)
  <2>1. LocalOK'
    BY Zenon, <1>2, <1>0, TakeTypes, GotoTypes, ReturnTypes DEF FrontEndPop, LocalOK,
       Labels, Routes, Resting
  <2>2. SharedOK'
    BY <1>2, <1>0 DEF FrontEndPop, SharedOK, markers, central
  <2>3. QED BY Zenon, <2>1, <2>2 DEF TypeInv
<1>3. CASE \E o \in Objects : Refill(t, o)
  <2>1. LocalOK'
    BY Zenon, <1>3, <1>0, TakeTypes, GotoTypes, ReturnTypes DEF Refill, LocalOK,
       Labels, Routes, Resting
  <2>2. SharedOK'
    BY <1>3, <1>0, FreeClaimAssumption DEF Refill, SharedOK, markers, central,
       RemoveFromCentral
  <2>3. QED BY Zenon, <2>1, <2>2 DEF TypeInv
<1>4. CASE \E o \in Objects : FlushPop(t, o)
  <2>1. LocalOK'
    BY Zenon, <1>4, <1>0, TakeTypes, GotoTypes, ReturnTypes DEF FlushPop, LocalOK,
       Labels, Routes, Resting
  <2>2. SharedOK'
    BY <1>4, <1>0 DEF FlushPop, SharedOK, markers, central
  <2>3. QED BY Zenon, <2>1, <2>2 DEF TypeInv
<1>5. CASE \E o \in Objects, r \in Tags \cup {"any"} : AllocFromCentral(t, o, r)
  <2>1. LocalOK'
    BY Zenon, <1>5, <1>0 DEF AllocFromCentral, LocalOK, Labels, Routes, Resting,
       local
  <2>2. SharedOK'
    BY SMTT(20), <1>5, <1>0, FreeClaimAssumption DEF AllocFromCentral, SharedOK,
       markers, central, RemoveFromCentral
  <2>3. QED BY Zenon, <2>1, <2>2 DEF TypeInv
<1>6. CASE \E s \in Spans, r \in Tags : CreateSpan(t, s, r)
  <2>1. LocalOK'
    BY <1>6, <1>0 DEF CreateSpan, LocalOK, Labels, Routes, Resting, local
  <2>2. SharedOK'
    BY <1>6, <1>0, FreeClaimAssumption DEF CreateSpan, SharedOK, markers,
       central
  <2>3. QED BY Zenon, <2>1, <2>2 DEF TypeInv
<1>7. CASE \E on \in BOOLEAN : SetQuarantineEnabled(t, on)
  <2>1. LocalOK'
    BY Zenon, <1>7, <1>0, TakeTypes, GotoTypes, ReturnTypes DEF SetQuarantineEnabled,
       LocalOK, Labels, Routes, Resting, local
  <2>2. SharedOK'
    BY Zenon, <1>7, <1>0 DEF SetQuarantineEnabled, SharedOK, markers, central
  <2>3. QED BY Zenon, <2>1, <2>2 DEF TypeInv
<1>8. CASE ConvergeQuarantine(t)
  <2>1. LocalOK'
    BY Zenon, <1>8, <1>0, TakeTypes, GotoTypes, ReturnTypes DEF ConvergeQuarantine,
       LocalOK, Labels, Routes, Resting
  <2>2. SharedOK'
    BY Zenon, <1>8, <1>0 DEF ConvergeQuarantine, SharedOK, markers, central
  <2>3. QED BY Zenon, <2>1, <2>2 DEF TypeInv
<1>9. QED BY Zenon, <1>1, <1>2, <1>3, <1>4, <1>5, <1>6, <1>7, <1>8 DEF Call

\* Every value the protocol computes stays in its type, in every build: no
\* front-end count underflows (fe_pop, flush), and no thread is left at a step
\* or on a route that does not exist.
THEOREM TypeCorrect == Spec => []TypeOK
<1>1. Init => TypeInv
  <2>1. Init => LocalOK BY DEF Init, LocalOK, Labels, Routes, Resting
  <2>2. Init => SharedOK
    <3>1. [o \in Objects |-> FALSE] \in [Objects -> BOOLEAN] BY Zenon
    <3>2. ASSUME NEW f, f = [o \in Objects |-> FALSE]
          PROVE  f \in [Objects -> BOOLEAN]
      BY Zenon, <3>1, <3>2
    <3>3. Init => enabled \in BOOLEAN BY Zenon DEF Init
    <3>4. Init => /\ cached \in [Objects -> BOOLEAN] /\ free \in [Objects -> BOOLEAN]
                  /\ quar \in [Objects -> BOOLEAN] /\ app \in [Objects -> BOOLEAN]
      BY Zenon, <3>2 DEF Init
    <3>5. QED BY <3>3, <3>4 DEF Init, SharedOK
  <2>3. QED BY Zenon, <2>1, <2>2 DEF TypeInv
<1>2. TypeInv /\ [Next]_vars => TypeInv'
  <2>1. SUFFICES ASSUME TypeInv, [Next]_vars PROVE TypeInv' BY Zenon
  <2>2. CASE Next
    BY Zenon, <2>1, <2>2, FreeStepTypes, QuarantineStepTypes, CentralStepTypes,
       AllocStepTypes, CallTypes DEF Next
  <2>3. CASE UNCHANGED vars
    BY Zenon, <2>1, <2>3
       DEF TypeInv, LocalOK, SharedOK, vars, markers, central, local
  <2>4. QED BY Zenon, <2>1, <2>2, <2>3
<1>3. QED BY <1>1, <1>2, TypeInvImplies, PTL DEF Spec

-----------------------------------------------------------------------------
(* What a step leaves alone *)

\* A thread other than the one that moves keeps its control facts as long as
\* the lock does not pass to or from it.
LEMMA OtherControl ==
    ASSUME NEW t \in Threads, NEW p, NEW l, NEW v, Moved(t, p, l, v),
           NEW u \in Threads, u # t, ControlAt(u), lock' = u <=> lock = u
    PROVE  ControlAt(u)'
BY Zenon DEF ControlAt, Moved

\* What a thread is to span r changes only by its own step on r.
LEMMA SpanRolesStay ==
    ASSUME NEW t \in Threads, NEW p, NEW l, NEW v, Moved(t, p, l, v),
           NEW u \in Threads, NEW r \in Spans,
           u # t \/ /\ pc[t] \notin SpanSteps \/ SpanOf[obj[t]] # r
                    /\ l \notin SpanSteps \/ SpanOf[p] # r
    PROVE  SpanRoles(u, r)
BY Zenon DEF Moved, SpanSteps, SpanRoles, InsertingIn, Retiring, Reclaiming

\* Threads that do not move keep every role.
LEMMA RolesStay ==
    ASSUME UNCHANGED local
    PROVE  /\ \A u \in Threads, x \in Objects : SameRoles(u, x)
           /\ \A u \in Threads, r \in Spans : SpanRoles(u, r)
           /\ \A u \in Threads : ControlAt(u) /\ lock' = lock => ControlAt(u)'
<1>1. pc' = pc /\ obj' = obj /\ via' = via BY Zenon DEF local
<1>2. \A u \in Threads, x \in Objects : SameRoles(u, x)
  BY <1>1 DEF SameRoles, Marker, Owner, Vending, InFlight, Revalidated,
     Losing, Inserting, ByFrontEnd, ByCentral
<1>3. \A u \in Threads, r \in Spans : SpanRoles(u, r)
  BY Zenon, <1>1 DEF SpanRoles, InsertingIn, Retiring, Reclaiming
<1>4. \A u \in Threads : ControlAt(u) /\ lock' = lock => ControlAt(u)'
  BY <1>1 DEF ControlAt
<1>5. QED BY Zenon, <1>2, <1>3, <1>4

\* The markers and counters of an object that a step does not touch.
LEMMA StateStays ==
    ASSUME NEW x \in Objects, ObjInv(x), cached'[x] = cached[x],
           free'[x] = free[x], app'[x] = app[x], fe'[x] = fe[x],
           wins'[x] = wins[x], Live(x)' <=> Live(x), Cacheable(x)' <=> Cacheable(x)
    PROVE  SameState(x) /\ CountAt(x)'
<1>1. CountAt(x)' BY Zenon, CountsKept DEF ObjInv
<1>2. SameState(x)
  BY Zenon DEF SameState, Marked, Central, WithProgram, InFrontEnd, Won
<1>3. QED BY Zenon, <1>1, <1>2

-----------------------------------------------------------------------------
(* Objects that nobody works on *)

Untouched(x) ==
    \A u \in Threads :
        /\ ~Marker(u, x) /\ ~Owner(u, x) /\ ~Vending(u, x) /\ ~InFlight(u, x)
        /\ ~Revalidated(u, x) /\ ~Losing(u, x) /\ ~Inserting(u, x)
        /\ ~ByFrontEnd(u, x) /\ ~ByCentral(u, x)

\* A route is only taken by a free, a refill or an insert.
LEMMA RouteFacts ==
    ASSUME NEW u \in Threads, NEW x \in Objects
    PROVE  /\ ByFrontEnd(u, x) => \/ InFlight(u, x) \/ Vending(u, x)
                                  \/ Owner(u, x) \/ Inserting(u, x)
           /\ ByCentral(u, x) => \/ InFlight(u, x) \/ Inserting(u, x)
                                 \/ Losing(u, x)
BY Zenon DEF ByFrontEnd, ByCentral, InFlight, Vending, Owner, Inserting, Losing

\* Only the holder of the bin lock is in the middle of an insert.
LEMMA InsertIsLocked ==
    ASSUME IInv, NEW u \in Threads, lock # u
    PROVE  /\ \A x \in Objects : ~Inserting(u, x)
           /\ \A r \in Spans : ~InsertingIn(u, r)
BY Zenon DEF IInv, ControlAt, Inserting, InsertingIn

\* With a correct program nobody works on a central-free object, except the
\* insert that holds the bin lock.
LEMMA FreeIsAlone ==
    ASSUME IInv, ~DoubleFrees, lock = NoThread, NEW x \in Objects, Central(x)
    PROVE  /\ Untouched(x) /\ ~Marked(x) /\ ~WithProgram(x) /\ ~InFrontEnd(x)
           /\ Live(x)
<1>1. ObjInv(x) BY Zenon DEF IInv
<1>2. Live(x) /\ ~WithProgram(x) /\ ~InFrontEnd(x)
  BY Zenon, <1>1 DEF ObjInv, PlaceAt
<1>3. \A u \in Threads : ~Inserting(u, x) BY Zenon, InsertIsLocked, NullsFresh
<1>4. \A u \in Threads : /\ ~Owner(u, x) /\ ~Revalidated(u, x) /\ ~Losing(u, x)
                         /\ ~InFlight(u, x) /\ ~Vending(u, x)
  BY Zenon, <1>1, <1>2 DEF ObjInv, PlaceAt, FlightAt, VendAt
<1>5. Untouched(x) BY Zenon, <1>3, <1>4, RoleFacts, RouteFacts DEF Untouched
<1>6. ~Marked(x) BY Zenon, <1>1, <1>2, <1>5 DEF ObjInv, MarkAt, Untouched
<1>7. QED BY Zenon, <1>2, <1>5, <1>6

\* Nobody works on an object whose span is not Active.
LEMMA DeadIsAlone ==
    ASSUME IInv, NEW x \in Objects, ~Live(x)
    PROVE  /\ Untouched(x) /\ ~Marked(x) /\ ~WithProgram(x) /\ ~InFrontEnd(x)
           /\ ~Central(x)
<1>1. ObjInv(x) BY Zenon DEF IInv
<1>2. ~Central(x) /\ ~WithProgram(x) /\ ~InFrontEnd(x)
  BY Zenon, <1>1 DEF ObjInv, PlaceAt
<1>3. \A u \in Threads : /\ ~Owner(u, x) /\ ~Inserting(u, x) /\ ~Losing(u, x)
                         /\ ~InFlight(u, x) /\ ~Vending(u, x)
  BY Zenon, <1>1, <1>2 DEF ObjInv, PlaceAt, FlightAt, VendAt
<1>4. Untouched(x) BY Zenon, <1>3, RoleFacts, RouteFacts DEF Untouched
<1>5. ~Marked(x) BY Zenon, <1>1, <1>2, <1>4 DEF ObjInv, MarkAt, Untouched
<1>6. QED BY Zenon, <1>2, <1>4, <1>5

\* An object that nobody works on and that is central-free exactly if its span
\* is live satisfies the invariant.
LEMMA AloneIsFine ==
    ASSUME NEW x \in Objects, CountAt(x)', Untouched(x)', ~Marked(x)',
           ~WithProgram(x)', ~InFrontEnd(x)', Central(x)' <=> Live(x)'
    PROVE  ObjInv(x)'
<1>1. MarkAt(x)' /\ RouteAt(x)' BY Zenon DEF MarkAt, RouteAt, Untouched
<1>2. PlaceAt(x)' /\ VendAt(x)' BY Zenon DEF PlaceAt, VendAt, Untouched
<1>3. FlightAt(x)' BY Zenon DEF FlightAt, Untouched
<1>4. WinAt(x)' /\ LostAt(x)' BY Zenon DEF WinAt, LostAt
<1>5. QED BY Zenon, <1>1, <1>2, <1>3, <1>4 DEF ObjInv

\* Roles that stay the same leave an untouched object untouched.
LEMMA UntouchedStays ==
    ASSUME NEW x \in Objects, Untouched(x), \A u \in Threads : SameRoles(u, x)
    PROVE  Untouched(x)'
BY Zenon DEF Untouched, SameRoles

-----------------------------------------------------------------------------
(* The insert *)

\* A step that changes no role and, quarantine aside, no shared state.
LEMMA InsertClearQuarantinedInv ==
    ASSUME IInv, Covered, TypeOK', NEW t \in Threads, InsertClearQuarantined(t)
    PROVE  IInv'
<1>1. TypeOK /\ ControlAt(t) BY Zenon DEF IInv
<1>2. PICK o \in Objects : o = obj[t]
  BY Zenon, <1>1 DEF ControlAt, InsertClearQuarantined
<1>3. Moved(t, o, "insertUnmark", via[t]) /\ evicted' = evicted
  BY Zenon, <1>1, <1>2, GotoMoves DEF InsertClearQuarantined
<1>4. /\ UNCHANGED <<cached, free, app, fe, span, listed, tag, lock, wins, ring>>
      /\ quar' = quar /\ pc[t] = "insertQuar"
  BY Zenon DEF IInv, InsertClearQuarantined, central
<1>5. \A u \in Threads : ControlAt(u)'
  <2>1. ControlAt(t)' BY Zenon, <1>1, <1>2, <1>3, <1>4 DEF ControlAt, Moved
  <2>2. QED BY Zenon, <1>3, <1>4, <2>1, OtherControl DEF IInv
<1>6. ASSUME NEW u \in Threads, NEW x \in Objects PROVE SameRoles(u, x)
  <2>1. CASE u # t \/ x # o BY <1>2, <1>3, <2>1, OthersStay
  <2>2. SameRoles(t, o)
    BY Zenon, <1>2, <1>3, <1>4 DEF Moved, SameRoles, Marker, Owner, Vending, InFlight,
       Revalidated, Losing, Inserting, ByFrontEnd, ByCentral
  <2>3. QED BY Zenon, <2>1, <2>2
<1>7. ASSUME NEW u \in Threads, NEW r \in Spans PROVE SpanRoles(u, r)
  <2>1. CASE u # t BY Zenon, <1>3, <2>1, SpanRolesStay
  <2>2. SpanRoles(t, r)
    BY Zenon, <1>2, <1>3, <1>4
       DEF Moved, SpanRoles, InsertingIn, Retiring, Reclaiming
  <2>3. QED BY Zenon, <2>1, <2>2
<1>8. ASSUME NEW r \in Spans PROVE SpanInv(r)'
  BY Zenon, <1>4, <1>7, SpanKept DEF IInv
<1>9. ASSUME NEW x \in Objects PROVE ObjInv(x)'
  <2>1. SameState(x) /\ CountAt(x)'
    BY Zenon, <1>4, StateStays DEF IInv, Live, Cacheable
  <2>2. QED BY Zenon, <1>6, <2>1, ObjectKept DEF IInv
<1>10. QED BY Zenon, <1>3, <1>4, <1>5, <1>8, <1>9 DEF IInv

\* central_insert: the claim turns into the free bit, and a free without one is
\* admitted here.
LEMMA CentralInsertInv ==
    ASSUME IInv, Covered, TypeOK', NEW t \in Threads, CentralInsert(t)
    PROVE  IInv'
<1>1. TypeOK /\ ControlAt(t) BY Zenon DEF IInv
<1>2. PICK o \in Objects : o = obj[t] BY Zenon, <1>1 DEF ControlAt, CentralInsert
<1>3. ObjInv(o) BY Zenon DEF IInv
<1>4. /\ Moved(t, o, "insertQuar", via[t]) /\ evicted' = evicted
      /\ UNCHANGED <<cached, quar, fe, ring, span, listed, tag>>
      /\ pc[t] = "insert" /\ lock = NoThread /\ lock' = t
      /\ ~free[o] /\ free' = [free EXCEPT ![o] = TRUE]
      /\ Live(o) /\ Live(o)'
  BY Zenon, <1>1, <1>2, GotoMoves DEF CentralInsert, Live
<1>5. /\ via[t] = "plain" => /\ app' = [app EXCEPT ![o] = FALSE]
                             /\ wins' = [wins EXCEPT ![o] = @ + 1]
      /\ via[t] # "plain" => UNCHANGED <<app, wins>>
  BY Zenon, <1>2, <1>4 DEF CentralInsert, Covered, Unclaimed, EndLife
<1>6. /\ free'[o] /\ \A x \in Objects \ {o} : free'[x] = free[x]
      /\ \A x \in Objects \ {o} : app'[x] = app[x] /\ wins'[x] = wins[x]
      /\ via[t] = "plain" => ~app'[o] /\ wins'[o] = wins[o] + 1
      /\ via[t] # "plain" => app'[o] = app[o] /\ wins'[o] = wins[o]
  BY <1>1, <1>4, <1>5 DEF TypeOK
<1>7. \A u \in Threads : ControlAt(u)'
  <2>1. ControlAt(t)' BY Zenon, <1>1, <1>2, <1>4 DEF ControlAt, Moved
  <2>2. QED BY Zenon, <1>4, <2>1, OtherControl, NullsFresh DEF IInv
<1>8. ASSUME NEW r \in Spans PROVE SpanInv(r)'
  <2>1. SpanInv(r) /\ \A x \in ObjectsOf(r) : free[x] => free'[x]
    BY Zenon, <1>4, <1>6 DEF IInv, ObjectsOf
  <2>2. CASE r # SpanOf[o]
    <3>1. ASSUME NEW u \in Threads PROVE SpanRoles(u, r)
      BY <1>2, <1>4, <2>2, SpanRolesStay
    <3>2. QED BY ZenonT(30), <1>4, <2>1, <3>1, SpanKept
  <2>3. CASE r = SpanOf[o]
    <3>1. listed[r] # "empty" /\ \A u \in Threads : ~Retiring(u, r)
      BY Zenon, <1>4, <2>1, <2>3 DEF SpanInv, ObjectsOf
    <3>2. \A u \in Threads : u # t => SpanRoles(u, r)
      BY Zenon, <1>4, SpanRolesStay
    <3>3. ~Retiring(t, r)' /\ ~Reclaiming(t, r)' /\ ~Reclaiming(t, r)
      BY Zenon, <1>4 DEF Moved, Retiring, Reclaiming
    <3>4. QED BY Zenon, <1>4, <2>1, <3>1, <3>2, <3>3 DEF SpanInv, SpanRoles
  <2>4. QED BY Zenon, <2>2, <2>3
<1>9. ASSUME NEW x \in Objects, x # o PROVE ObjInv(x)'
  <2>1. SameState(x) /\ CountAt(x)'
    BY Zenon, <1>4, <1>6, <1>9, StateStays DEF IInv, Live, Cacheable
  <2>2. \A u \in Threads : SameRoles(u, x) BY Zenon, <1>2, <1>4, <1>9, OthersStay
  <2>3. QED BY Zenon, <2>1, <2>2, ObjectKept DEF IInv
<1>10. ObjInv(o)'
  <2>1. \A u \in Threads : u # t => SameRoles(u, o) BY Zenon, <1>4, OthersStay
  <2>2. /\ Inserting(t, o)' /\ ~Owner(t, o)' /\ ~InFlight(t, o)'
        /\ ~Vending(t, o)' /\ ~Revalidated(t, o)' /\ ~Losing(t, o)'
        /\ (Marker(t, o)' <=> Marker(t, o)) /\ (Marker(t, o) <=> Owner(t, o))
        /\ ByFrontEnd(t, o)' <=> ByFrontEnd(t, o)
        /\ ByCentral(t, o)' <=> ByCentral(t, o)
    BY Zenon, <1>2, <1>4 DEF Moved, Inserting, Owner, InFlight, Vending,
       Revalidated, Losing, Marker, ByFrontEnd, ByCentral
  <2>3. /\ via[t] = "plain" => InFlight(t, o) /\ ByCentral(t, o)
        /\ via[t] # "plain" => Owner(t, o)
    BY Zenon, <1>2, <1>4 DEF InFlight, ByCentral, Owner
  \* The other threads on o are frees of a double-freeing program.
  <2>4. ~InFrontEnd(o) /\ \A u \in Threads : ~Vending(u, o)
    BY Zenon, <1>3, <2>3, RoleFacts DEF ObjInv, MarkAt, RouteAt, VendAt
  <2>5. \A u \in Threads : u # t => ~Marker(u, o)
    BY Zenon, <1>3, <2>3, RoleFacts DEF ObjInv, MarkAt, RouteAt
  <2>6. \A u \in Threads : u # t => ~Owner(u, o) /\ ~Revalidated(u, o)
    BY Zenon, <2>5, RoleFacts
  <2>7. via[t] = "plain" => ~Won(o)
    BY Zenon, <1>3, <1>4, <2>3, <2>4, <2>6, RoleFacts
       DEF ObjInv, WinAt, MarkAt, RouteAt, Central
  <2>8. CountAt(o)'
    BY Zenon, <1>3, <1>4, <1>6, <2>7, CountsKept, WinAdded DEF ObjInv
  <2>9. /\ Central(o)' /\ ~WithProgram(o)' /\ ~InFrontEnd(o)'
        /\ (Marked(o)' <=> Marked(o)) /\ (Cacheable(o)' <=> Cacheable(o))
    BY Zenon, <1>3, <1>4, <1>6, <2>3, <2>4
       DEF ObjInv, PlaceAt, Central, WithProgram, InFrontEnd, Marked, Cacheable
  <2>10. MarkAt(o)'
    BY Zenon, <1>3, <2>1, <2>2, <2>4, <2>9 DEF ObjInv, MarkAt, SameRoles
  <2>11. RouteAt(o)'
    BY Zenon, <1>3, <2>1, <2>2, <2>9 DEF ObjInv, RouteAt, SameRoles
  <2>12. PlaceAt(o)'
    BY Zenon, <1>4, <2>1, <2>2, <2>6, <2>9 DEF PlaceAt, SameRoles
  <2>13. VendAt(o)' BY Zenon, <2>1, <2>2, <2>4 DEF VendAt, SameRoles
  <2>14. ~DoubleFrees => \A u \in Threads : u # t => ~InFlight(u, o)
    BY Zenon, <1>3, <2>3 DEF ObjInv, FlightAt, PlaceAt
  <2>15. FlightAt(o)'
    BY Zenon, <1>3, <1>4, <2>1, <2>2, <2>14 DEF ObjInv, FlightAt, SameRoles
  <2>16. WinAt(o)' /\ LostAt(o)' BY Zenon, <2>9 DEF WinAt, LostAt
  <2>17. QED
    BY Zenon, <2>8, <2>10, <2>11, <2>12, <2>13, <2>15, <2>16 DEF ObjInv
<1>11. QED BY Zenon, <1>4, <1>7, <1>8, <1>9, <1>10 DEF IInv

\* The end of an insert: the cached bit comes off and the span goes on the list
\* it belongs on.  That a double-freeing program retires no span (no room for
\* another empty span is impossible) is a fact about cardinalities, assumed here.
LEMMA InsertUnmarkInv ==
    ASSUME IInv, TypeOK', NEW t \in Threads, InsertUnmark(t),
           DoubleFrees => ListAfterInsert(SpanOf[obj[t]]) # "none"
    PROVE  IInv'
<1>1. TypeOK /\ ControlAt(t) BY Zenon DEF IInv
<1>2. PICK o \in Objects : o = obj[t] BY Zenon, <1>1 DEF ControlAt, InsertUnmark
<1>3. ObjInv(o) BY Zenon DEF IInv
<1>4. PICK s \in Spans : s = SpanOf[o] BY Zenon, NullsFresh
<1>5. /\ pc[t] = "insertUnmark" /\ lock = t /\ lock' = NoThread
      /\ UNCHANGED <<free, quar, app, fe, ring, span, tag, wins>>
      /\ cached' = [cached EXCEPT ![o] = FALSE]
      /\ listed' = [listed EXCEPT ![s] = ListAfterInsert(s)]
  BY Zenon, <1>1, <1>2, <1>4 DEF ControlAt, InsertUnmark
<1>6. /\ ~cached'[o] /\ \A x \in Objects \ {o} : cached'[x] = cached[x]
      /\ listed'[s] = ListAfterInsert(s)
      /\ \A r \in Spans \ {s} : listed'[r] = listed[r]
  BY <1>1, <1>5 DEF TypeOK
<1>7. /\ evicted' = evicted
      /\ \/ ListAfterInsert(s) = "none" /\ Moved(t, o, "retire", via[t])
         \/ ListAfterInsert(s) # "none" /\ Moved(t, NoObject, "idle", "none")
  BY Zenon, <1>1, <1>2, <1>4, GotoMoves, ReturnMoves
     DEF InsertUnmark, Resume, ControlAt
<1>8. PICK p, l, v : Moved(t, p, l, v) /\ p \in {o, NoObject}
                     /\ l \in {"retire", "idle"}
  BY Zenon, <1>7
<1>9. \A u \in Threads : ControlAt(u)'
  <2>1. ControlAt(t)'
    BY Zenon, <1>1, <1>2, <1>5, <1>7, NullsFresh DEF ControlAt, Moved
  <2>2. QED BY Zenon, <1>5, <1>8, <2>1, OtherControl, NullsFresh DEF IInv
<1>10. \A u \in Threads : u # t => ~Inserting(u, o) /\ ~InsertingIn(u, s)
  BY Zenon, <1>5, InsertIsLocked
<1>11. Central(o) /\ Live(o) /\ InsertingIn(t, s)
  BY Zenon, <1>2, <1>3, <1>4, <1>5
     DEF ObjInv, PlaceAt, Inserting, InsertingIn
<1>12. ASSUME NEW r \in Spans, r # s PROVE SpanInv(r)'
  <2>1. ASSUME NEW u \in Threads PROVE SpanRoles(u, r)
    <3>1. CASE u # t BY ZenonT(30), <1>8, <3>1, SpanRolesStay
    <3>2. CASE l = "idle"
      BY <1>2, <1>4, <1>8, <1>12, <3>2, SpanRolesStay DEF SpanSteps
    <3>3. CASE u = t /\ l = "retire"
      BY Zenon, <1>2, <1>4, <1>5, <1>7, <1>8, <1>12, <3>3
         DEF Moved, SpanRoles, InsertingIn, Retiring, Reclaiming
    <3>4. QED BY Zenon, <1>8, <3>1, <3>2, <3>3
  <2>2. QED BY Zenon, <1>5, <1>6, <1>12, <2>1, SpanKept DEF IInv
<1>13. SpanInv(s)'
  <2>1. SpanInv(s) /\ span[s] = "Active"
    BY Zenon, <1>4, <1>11 DEF IInv, Live
  <2>2. \A u \in Threads : ~Retiring(u, s) /\ ~Reclaiming(u, s)
    BY Zenon, <1>11, <2>1 DEF SpanInv
  <2>3. /\ \A u \in Threads : ~InsertingIn(u, s)' /\ ~Reclaiming(u, s)'
        /\ \A u \in Threads : u # t => ~Retiring(u, s)'
        /\ Retiring(t, s)' => ListAfterInsert(s) = "none"
    <3>1. \A u \in Threads : u # t => SpanRoles(u, s)
      BY Zenon, <1>8, SpanRolesStay
    <3>2. /\ ~InsertingIn(t, s)' /\ ~Reclaiming(t, s)'
          /\ Retiring(t, s)' => ListAfterInsert(s) = "none"
      BY Zenon, <1>7 DEF Moved, InsertingIn, Reclaiming, Retiring
    <3>3. QED BY Zenon, <1>10, <2>2, <3>1, <3>2 DEF SpanRoles
  <2>4. ListAfterInsert(s) \in {"none", "empty"} => \A x \in ObjectsOf(s) : free[x]
    BY Zenon DEF ListAfterInsert
  <2>5. DoubleFrees => ListAfterInsert(s) # "none" BY Zenon, <1>2, <1>4
  <2>6. \A x \in ObjectsOf(s) : x \in ObjectsOf(s)' BY Zenon DEF ObjectsOf
  <2>7. /\ listed'[s] # "none" => span'[s] = "Active"
        /\ listed'[s] = "empty" => \A x \in ObjectsOf(s) : free'[x]
        /\ DoubleFrees => tag'[s] # "hinted" /\ span'[s] # "Released"
    BY Zenon, <1>5, <1>6, <2>1, <2>4 DEF SpanInv
  <2>8. \A u \in Threads : Retiring(u, s)' =>
           /\ ~DoubleFrees /\ span'[s] = "Active" /\ listed'[s] = "none"
           /\ \A x \in ObjectsOf(s) : free'[x]
    BY Zenon, <1>5, <1>6, <2>1, <2>3, <2>4, <2>5
  <2>9. QED BY Zenon, <2>3, <2>7, <2>8 DEF SpanInv, ObjectsOf
<1>14. ASSUME NEW x \in Objects, x # o PROVE ObjInv(x)'
  <2>1. SameState(x) /\ CountAt(x)'
    BY Zenon, <1>5, <1>6, <1>14, StateStays DEF IInv, Live, Cacheable
  <2>2. \A u \in Threads : SameRoles(u, x)
    BY Zenon, <1>2, <1>8, <1>14, OthersStay, NullsFresh
  <2>3. QED BY Zenon, <2>1, <2>2, ObjectKept DEF IInv
<1>15. ObjInv(o)'
  <2>1. \A u \in Threads : u # t => SameRoles(u, o)
    BY Zenon, <1>8, OthersStay
  <2>2. /\ ~Inserting(t, o)' /\ ~Owner(t, o)' /\ ~InFlight(t, o)'
        /\ ~Vending(t, o)' /\ ~Revalidated(t, o)' /\ ~Losing(t, o)'
        /\ ~Marker(t, o)' /\ ~ByFrontEnd(t, o)' /\ ~ByCentral(t, o)'
    BY Zenon, <1>7 DEF Moved, Inserting, Owner, InFlight, Vending,
       Revalidated, Losing, Marker, ByFrontEnd, ByCentral
  <2>3. Marker(t, o) \/ ByCentral(t, o)
    BY Zenon, <1>2, <1>5 DEF Marker, ByCentral
  <2>4. ~InFrontEnd(o) /\ ~WithProgram(o)
    BY Zenon, <1>3, <1>11 DEF ObjInv, PlaceAt
  <2>5. \A u \in Threads : u # t => ~Marker(u, o)
    BY Zenon, <1>3, <2>3 DEF ObjInv, MarkAt, RouteAt
  <2>6. CountAt(o)' BY Zenon, <1>3, <1>5, CountsKept DEF ObjInv
  <2>7. /\ Central(o)' /\ Live(o)' /\ ~WithProgram(o)' /\ ~InFrontEnd(o)'
        /\ ~Marked(o)' /\ (Cacheable(o)' <=> Cacheable(o))
        /\ (Won(o)' <=> Won(o))
    BY Zenon, <1>5, <1>6, <1>11, <2>4
       DEF Central, Live, WithProgram, InFrontEnd, Marked, Cacheable, Won
  <2>8. MarkAt(o)' BY Zenon, <2>1, <2>2, <2>5, <2>7 DEF MarkAt, SameRoles
  <2>9. RouteAt(o)'
    BY Zenon, <1>3, <2>1, <2>2, <2>7 DEF ObjInv, RouteAt, SameRoles
  <2>10. PlaceAt(o)'
    BY Zenon, <1>3, <1>11, <2>1, <2>2, <2>7 DEF ObjInv, PlaceAt, SameRoles
  <2>11. VendAt(o)'
    BY Zenon, <1>3, <1>11, <2>1, <2>2 DEF ObjInv, VendAt, SameRoles
  <2>12. FlightAt(o)'
    BY Zenon, <1>3, <1>11, <2>1, <2>2, <2>4, <2>7
       DEF ObjInv, FlightAt, SameRoles
  <2>13. WinAt(o)' /\ LostAt(o)' BY Zenon, <2>7 DEF WinAt, LostAt
  <2>14. QED
    BY Zenon, <2>6, <2>8, <2>9, <2>10, <2>11, <2>12, <2>13 DEF ObjInv
<1>16. QED BY Zenon, <1>5, <1>7, <1>9, <1>12, <1>13, <1>14, <1>15 DEF IInv

-----------------------------------------------------------------------------
(* Retirement and creation of spans *)

\* deactivate_span: nobody works on any object of the span it tears down.
LEMMA DeactivateInv ==
    ASSUME IInv, TypeOK', NEW t \in Threads, Deactivate(t)
    PROVE  IInv'
<1>1. TypeOK /\ ControlAt(t) BY Zenon DEF IInv
<1>2. PICK o \in Objects : o = obj[t] BY Zenon, <1>1 DEF ControlAt, Deactivate
<1>3. PICK s \in Spans : s = SpanOf[o] BY Zenon, NullsFresh
<1>4. /\ pc[t] = "retire" /\ lock = NoThread
      /\ UNCHANGED <<cached, quar, app, fe, ring, tag, lock, wins>>
      /\ Moved(t, o, "reclaim", via[t]) /\ evicted' = evicted
      /\ free' = [x \in Objects |-> free[x] /\ SpanOf[x] # s]
      /\ span' = [span EXCEPT ![s] = "Released"]
      /\ listed' = [listed EXCEPT ![s] = "none"]
  BY Zenon, <1>1, <1>2, <1>3, GotoMoves DEF Deactivate
<1>5. /\ \A x \in Objects : IF SpanOf[x] = s THEN ~free'[x] ELSE free'[x] = free[x]
      /\ span'[s] = "Released" /\ \A r \in Spans \ {s} : span'[r] = span[r]
      /\ listed'[s] = "none" /\ \A r \in Spans \ {s} : listed'[r] = listed[r]
  <2>1. \A x \in Objects : SpanOf[x] = s => ~free'[x] BY Zenon, <1>4
  <2>2. ASSUME NEW x \in Objects, SpanOf[x] # s PROVE free'[x] = free[x]
    <3>1. free'[x] = (free[x] /\ SpanOf[x] # s) BY Zenon, <1>4
    <3>2. free[x] \in BOOLEAN BY <1>1 DEF TypeOK
    <3>3. QED BY Zenon, <2>2, <3>1, <3>2
  <2>3. QED BY <1>1, <1>4, <2>1, <2>2 DEF TypeOK
<1>6. Retiring(t, s) /\ SpanInv(s) BY Zenon, <1>2, <1>3, <1>4 DEF Retiring, IInv
<1>7. ~DoubleFrees /\ \A x \in ObjectsOf(s) : free[x] BY Zenon, <1>6 DEF SpanInv
<1>8. \A u \in Threads : ControlAt(u)'
  <2>1. ControlAt(t)' BY Zenon, <1>1, <1>2, <1>4 DEF ControlAt, Moved
  <2>2. QED BY Zenon, <1>4, <2>1, OtherControl DEF IInv
<1>9. ASSUME NEW r \in Spans, r # s PROVE SpanInv(r)'
  <2>1. ASSUME NEW u \in Threads PROVE SpanRoles(u, r)
    BY <1>2, <1>3, <1>4, <1>9, SpanRolesStay
  <2>2. \A x \in ObjectsOf(r) : free[x] => free'[x]
    BY Zenon, <1>5, <1>9 DEF ObjectsOf
  <2>3. QED BY Zenon, <1>4, <1>5, <1>9, <2>1, <2>2, SpanKept DEF IInv
<1>10. SpanInv(s)'
  <2>1. \A u \in Threads : u # t => SpanRoles(u, s) BY Zenon, <1>4, SpanRolesStay
  <2>2. \A u \in Threads : u # t => ~Retiring(u, s) /\ ~Reclaiming(u, s)
    BY Zenon, <1>6 DEF SpanInv
  <2>3. \A u \in Threads : ~InsertingIn(u, s) BY Zenon, <1>4, InsertIsLocked, NullsFresh
  <2>4. ~InsertingIn(t, s)' /\ ~Retiring(t, s)'
    BY Zenon, <1>4 DEF Moved, InsertingIn, Retiring
  <2>5. QED
    BY Zenon, <1>5, <1>7, <2>1, <2>2, <2>3, <2>4 DEF SpanInv, SpanRoles
<1>11. \A u \in Threads, x \in Objects : SameRoles(u, x)
  <2>1. \A u \in Threads, x \in Objects : u # t \/ x # o => SameRoles(u, x)
    BY Zenon, <1>2, <1>4, OthersStay
  <2>2. SameRoles(t, o)
    BY Zenon, <1>4 DEF Moved, SameRoles, Marker, Owner, Vending, InFlight,
       Revalidated, Losing, Inserting, ByFrontEnd, ByCentral
  <2>3. QED BY Zenon, <2>1, <2>2
<1>12. ASSUME NEW x \in Objects, SpanOf[x] # s PROVE ObjInv(x)'
  <2>1. (Live(x)' <=> Live(x)) /\ (Cacheable(x)' <=> Cacheable(x))
    BY Zenon, <1>4, <1>5, <1>12, NullsFresh DEF Live, Cacheable
  <2>2. SameState(x) /\ CountAt(x)'
    BY Zenon, <1>4, <1>5, <1>12, <2>1, StateStays DEF IInv
  <2>3. QED BY Zenon, <1>11, <2>2, ObjectKept DEF IInv
<1>13. ASSUME NEW x \in Objects, SpanOf[x] = s PROVE ObjInv(x)'
  <2>1. Central(x) BY Zenon, <1>7, <1>13 DEF ObjectsOf, Central
  <2>2. Untouched(x) /\ ~Marked(x) /\ ~WithProgram(x) /\ ~InFrontEnd(x)
    BY Zenon, <1>4, <1>7, <2>1, FreeIsAlone
  <2>3. Untouched(x)' BY Zenon, <1>11, <2>2, UntouchedStays
  <2>4. CountAt(x)' BY Zenon, <1>4, CountsKept DEF IInv, ObjInv
  <2>5. ~Marked(x)' /\ ~WithProgram(x)' /\ ~InFrontEnd(x)'
    BY Zenon, <1>4, <2>2 DEF Marked, WithProgram, InFrontEnd
  <2>6. ~Central(x)' /\ ~Live(x)' BY Zenon, <1>5, <1>13 DEF Central, Live
  <2>7. QED BY Zenon, <2>3, <2>4, <2>5, <2>6, AloneIsFine
<1>14. QED BY Zenon, <1>4, <1>8, <1>9, <1>10, <1>12, <1>13 DEF IInv

\* reclaim_span_slot: the descriptor goes back to the pool.
LEMMA ReclaimSlotInv ==
    ASSUME IInv, TypeOK', NEW t \in Threads, ReclaimSlot(t)
    PROVE  IInv'
<1>1. TypeOK /\ ControlAt(t) BY Zenon DEF IInv
<1>2. PICK o \in Objects : o = obj[t] BY Zenon, <1>1 DEF ControlAt, ReclaimSlot
<1>3. PICK s \in Spans : s = SpanOf[o] BY Zenon, NullsFresh
<1>4. /\ pc[t] = "reclaim"
      /\ UNCHANGED <<cached, free, quar, app, fe, ring, listed, tag, lock, wins>>
      /\ Moved(t, NoObject, "idle", "none") /\ evicted' = evicted
      /\ span' = [span EXCEPT ![s] = "Pooled"]
  BY Zenon, <1>1, <1>2, <1>3, ReturnMoves
     DEF ReclaimSlot, Resume, ControlAt, markers
<1>5. span'[s] = "Pooled" /\ \A r \in Spans \ {s} : span'[r] = span[r]
  BY <1>1, <1>4 DEF TypeOK
<1>6. Reclaiming(t, s) /\ SpanInv(s) BY Zenon, <1>2, <1>3, <1>4 DEF Reclaiming, IInv
<1>7. span[s] = "Released" /\ listed[s] = "none" BY Zenon, <1>6 DEF SpanInv
<1>8. \A u \in Threads : ControlAt(u)'
  <2>1. ControlAt(t)' BY Zenon, <1>1, <1>2, <1>4 DEF ControlAt, Moved
  <2>2. QED BY Zenon, <1>4, <2>1, OtherControl DEF IInv
<1>9. ASSUME NEW r \in Spans, r # s PROVE SpanInv(r)'
  <2>1. ASSUME NEW u \in Threads PROVE SpanRoles(u, r)
    BY <1>2, <1>3, <1>4, <1>9, SpanRolesStay DEF SpanSteps
  <2>2. QED BY Zenon, <1>4, <1>5, <1>9, <2>1, SpanKept DEF IInv
<1>10. SpanInv(s)'
  <2>1. \A u \in Threads : u # t => SpanRoles(u, s) BY Zenon, <1>4, SpanRolesStay
  <2>2. \A u \in Threads : u # t => ~Retiring(u, s) /\ ~Reclaiming(u, s)
    BY Zenon, <1>6 DEF SpanInv
  <2>3. ~InsertingIn(t, s)' /\ ~Retiring(t, s)' /\ ~Reclaiming(t, s)'
    BY Zenon, <1>4 DEF Moved, InsertingIn, Retiring, Reclaiming
  <2>4. QED
    BY Zenon, <1>4, <1>5, <1>6, <1>7, <2>1, <2>2, <2>3 DEF SpanInv, SpanRoles
<1>11. \A u \in Threads, x \in Objects : SameRoles(u, x)
  <2>1. \A u \in Threads, x \in Objects : u # t \/ x # o => SameRoles(u, x)
    BY <1>2, <1>4, OthersStay, NullsFresh
  <2>2. SameRoles(t, o)
    BY Zenon, <1>4 DEF Moved, SameRoles, Marker, Owner, Vending, InFlight,
       Revalidated, Losing, Inserting, ByFrontEnd, ByCentral
  <2>3. QED BY Zenon, <2>1, <2>2
<1>12. ASSUME NEW x \in Objects PROVE ObjInv(x)'
  <2>1. (Live(x)' <=> Live(x)) /\ (Cacheable(x)' <=> Cacheable(x))
    BY Zenon, <1>4, <1>5, <1>7, NullsFresh DEF Live, Cacheable
  <2>2. SameState(x) /\ CountAt(x)'
    BY Zenon, <1>4, <2>1, StateStays DEF IInv
  <2>3. QED BY Zenon, <1>11, <2>2, ObjectKept DEF IInv
<1>13. QED BY Zenon, <1>4, <1>8, <1>9, <1>10, <1>12 DEF IInv

\* create_span: a recycled descriptor starts with every object central-free.
LEMMA CreateSpanInv ==
    ASSUME IInv, Covered, TypeOK', NEW t \in Threads, NEW s \in Spans,
           NEW k \in Tags, CreateSpan(t, s, k)
    PROVE  IInv'
<1>1. TypeOK BY Zenon DEF IInv
<1>2. /\ lock = NoThread /\ span[s] = "Pooled"
      /\ UNCHANGED <<app, fe, ring, lock, wins, evicted>> /\ UNCHANGED local
      /\ quar' = quar
  BY Zenon, <1>1 DEF CreateSpan, local, IInv
<1>3. /\ \A x \in Objects : IF SpanOf[x] = s THEN free'[x] /\ ~cached'[x]
                            ELSE free'[x] = free[x] /\ cached'[x] = cached[x]
      /\ span'[s] = "Active" /\ \A r \in Spans \ {s} : span'[r] = span[r]
      /\ listed'[s] = "partial" /\ \A r \in Spans \ {s} : listed'[r] = listed[r]
      /\ tag'[s] = k /\ \A r \in Spans \ {s} : tag'[r] = tag[r]
  <2>1. \A x \in Objects : SpanOf[x] = s => free'[x] /\ ~cached'[x]
    BY Zenon DEF CreateSpan
  <2>2. ASSUME NEW x \in Objects, SpanOf[x] # s
        PROVE  free'[x] = free[x] /\ cached'[x] = cached[x]
    <3>1. /\ free'[x] = (free[x] \/ SpanOf[x] = s)
          /\ cached'[x] = (cached[x] /\ SpanOf[x] # s)
      BY Zenon DEF CreateSpan
    <3>2. free[x] \in BOOLEAN /\ cached[x] \in BOOLEAN BY <1>1 DEF TypeOK
    <3>3. QED BY Zenon, <2>2, <3>1, <3>2
  <2>3. QED BY <1>1, <2>1, <2>2 DEF CreateSpan, TypeOK
<1>4. /\ \A u \in Threads, x \in Objects : SameRoles(u, x)
      /\ \A u \in Threads, r \in Spans : SpanRoles(u, r)
      /\ \A u \in Threads : ControlAt(u)'
  BY Zenon, <1>2, RolesStay DEF IInv
<1>5. ASSUME NEW r \in Spans, r # s PROVE SpanInv(r)'
  <2>1. \A x \in ObjectsOf(r) : free[x] => free'[x]
    BY Zenon, <1>3, <1>5 DEF ObjectsOf
  <2>2. QED BY Zenon, <1>3, <1>4, <1>5, <2>1, SpanKept DEF IInv
<1>6. SpanInv(s)'
  <2>1. \A u \in Threads : /\ ~Retiring(u, s) /\ ~Reclaiming(u, s)
                           /\ ~InsertingIn(u, s)
    BY Zenon, <1>2, InsertIsLocked, NullsFresh DEF IInv, SpanInv
  <2>2. DoubleFrees => k # "hinted" BY Zenon DEF Covered
  <2>3. QED BY Zenon, <1>3, <1>4, <2>1, <2>2 DEF SpanInv, SpanRoles
<1>7. ASSUME NEW x \in Objects, SpanOf[x] # s PROVE ObjInv(x)'
  <2>1. (Live(x)' <=> Live(x)) /\ (Cacheable(x)' <=> Cacheable(x))
    BY Zenon, <1>3, <1>7, NullsFresh DEF Live, Cacheable
  <2>2. SameState(x) /\ CountAt(x)'
    BY Zenon, <1>2, <1>3, <1>7, <2>1, StateStays DEF IInv
  <2>3. QED BY Zenon, <1>4, <2>2, ObjectKept DEF IInv
<1>8. ASSUME NEW x \in Objects, SpanOf[x] = s PROVE ObjInv(x)'
  <2>1. ~Live(x) BY Zenon, <1>2, <1>8 DEF Live
  <2>2. Untouched(x) /\ ~WithProgram(x) /\ ~InFrontEnd(x)
    BY Zenon, <2>1, DeadIsAlone
  <2>3. Untouched(x)' BY Zenon, <1>4, <2>2, UntouchedStays
  <2>4. CountAt(x)' BY Zenon, <1>2, CountsKept DEF IInv, ObjInv
  <2>5. ~WithProgram(x)' /\ ~InFrontEnd(x)'
    BY Zenon, <1>2, <2>2 DEF WithProgram, InFrontEnd
  <2>6. ~Marked(x)' /\ Central(x)' /\ Live(x)'
    BY Zenon, <1>3, <1>8 DEF Marked, Central, Live
  <2>7. QED BY Zenon, <2>3, <2>4, <2>5, <2>6, AloneIsFine
<1>9. QED BY Zenon, <1>2, <1>4, <1>5, <1>6, <1>7, <1>8 DEF IInv

-----------------------------------------------------------------------------
(* Removal from the central list *)

\* remove_batch re-tags an empty span only when the program is correct, and
\* then nobody works on any of its objects.
LEMMA RetagIsSafe ==
    ASSUME IInv, Covered, TypeOK', NEW o \in Objects, NEW k \in Tags \cup {"any"},
           RemoveFromCentral(o, k), NEW x \in Objects
    PROVE  \/ Cacheable(x)' <=> Cacheable(x)
           \/ Untouched(x) /\ ~Marked(x) /\ ~InFrontEnd(x)
<1>1. TypeOK BY Zenon DEF IInv
<1>2. PICK s \in Spans : s = SpanOf[o] BY Zenon, NullsFresh
<1>3. CASE tag' = tag BY Zenon, <1>3 DEF Cacheable
<1>4. CASE listed[s] = "empty" /\ (tag[s] = "foreign" <=> k = "foreign")
           /\ tag' = [tag EXCEPT ![s] = IF k = "any" THEN @ ELSE k]
  <2>1. CASE SpanOf[x] # s BY <1>1, <1>4, <2>1, NullsFresh DEF TypeOK, Cacheable
  <2>2. CASE SpanOf[x] = s /\ ~DoubleFrees
    <3>1. Central(x) BY Zenon, <1>4, <2>2 DEF IInv, SpanInv, ObjectsOf, Central
    <3>2. lock = NoThread BY Zenon DEF RemoveFromCentral
    <3>3. QED BY Zenon, <2>2, <3>1, <3>2, FreeIsAlone
  <2>3. CASE SpanOf[x] = s /\ DoubleFrees
    <3>1. k # "hinted" /\ tag[s] # "hinted" /\ k \in {"default", "foreign", "any"}
      BY Zenon, <2>3, FreeClaimAssumption DEF Covered, IInv, SpanInv
    <3>2. tag'[s] = tag[s] BY <1>1, <1>4, <3>1 DEF TypeOK
    <3>3. QED BY Zenon, <2>3, <3>2 DEF Cacheable
  <2>4. QED BY Zenon, <2>1, <2>2, <2>3
<1>5. QED BY Zenon, <1>2, <1>3, <1>4 DEF RemoveFromCentral

\* The spans after a removal.
LEMMA RemovalKeepsSpans ==
    ASSUME IInv, Covered, TypeOK', NEW o \in Objects, NEW k \in Tags \cup {"any"},
           RemoveFromCentral(o, k), span' = span,
           \A u \in Threads, r \in Spans : SpanRoles(u, r), NEW r \in Spans
    PROVE  SpanInv(r)'
<1>1. TypeOK /\ SpanInv(r) BY Zenon DEF IInv
<1>2. PICK s \in Spans : s = SpanOf[o] BY Zenon, NullsFresh
<1>3. /\ lock = NoThread /\ free[o] /\ listed[s] \in {"partial", "empty"}
      /\ listed'[s] \in {"partial", "none"}
      /\ \A q \in Spans \ {s} : listed'[q] = listed[q] /\ tag'[q] = tag[q]
      /\ \A x \in Objects \ {o} : free'[x] = free[x]
      /\ tag'[s] = tag[s] \/ tag'[s] \in Tags
  BY <1>1, <1>2 DEF RemoveFromCentral, TypeOK
<1>4. CASE r # s
  <2>1. \A x \in ObjectsOf(r) : free[x] => free'[x]
    BY Zenon, <1>2, <1>3, <1>4 DEF ObjectsOf
  <2>2. QED BY Zenon, <1>1, <1>3, <1>4, <2>1, SpanKept
<1>5. CASE r = s
  <2>1. span[s] = "Active" BY Zenon, <1>1, <1>3, <1>5 DEF SpanInv
  <2>2. \A u \in Threads : /\ ~Retiring(u, s) /\ ~Reclaiming(u, s)
                           /\ ~InsertingIn(u, s)
    BY Zenon, <1>1, <1>3, <1>5, <2>1, InsertIsLocked, NullsFresh DEF SpanInv
  <2>3. DoubleFrees => tag'[s] # "hinted"
    BY Zenon, <1>1, <1>3, <1>5 DEF SpanInv, Covered
  <2>4. QED BY Zenon, <1>3, <1>5, <2>1, <2>2, <2>3 DEF SpanInv, SpanRoles
<1>6. QED BY Zenon, <1>4, <1>5

\* The other objects after a removal.
LEMMA RemovalKeepsOthers ==
    ASSUME IInv, Covered, TypeOK', NEW o \in Objects, NEW k \in Tags \cup {"any"},
           RemoveFromCentral(o, k), span' = span, NEW x \in Objects, x # o,
           \A u \in Threads : SameRoles(u, x),
           cached'[x] = cached[x], app'[x] = app[x], fe'[x] = fe[x],
           wins'[x] = wins[x]
    PROVE  ObjInv(x)'
<1>1. TypeOK /\ ObjInv(x) BY Zenon DEF IInv
<1>2. free'[x] = free[x] BY ZenonT(30), <1>1 DEF RemoveFromCentral, TypeOK
<1>3. Live(x)' <=> Live(x) BY Zenon DEF Live
<1>4. CASE Cacheable(x)' <=> Cacheable(x)
  BY Zenon, <1>1, <1>2, <1>3, <1>4, StateStays, ObjectKept
<1>5. CASE Untouched(x) /\ ~Marked(x) /\ ~InFrontEnd(x)
  <2>1. /\ (Marked(x)' <=> Marked(x)) /\ (Central(x)' <=> Central(x))
        /\ (WithProgram(x)' <=> WithProgram(x))
        /\ (InFrontEnd(x)' <=> InFrontEnd(x)) /\ (Won(x)' <=> Won(x))
        /\ CountAt(x)'
    BY Zenon, <1>1, <1>2, CountsKept
       DEF ObjInv, Marked, Central, WithProgram, InFrontEnd, Won
  <2>2. Untouched(x)' BY Zenon, <1>5, UntouchedStays
  <2>3. MarkAt(x)' /\ RouteAt(x)'
    BY Zenon, <1>5, <2>1, <2>2 DEF MarkAt, RouteAt, Untouched
  <2>4. PlaceAt(x)' /\ VendAt(x)' /\ FlightAt(x)'
    BY Zenon, <1>1, <1>3, <2>1, <2>2
       DEF ObjInv, PlaceAt, VendAt, FlightAt, Untouched
  <2>5. WinAt(x)' /\ LostAt(x)'
    BY Zenon, <1>1, <1>3, <1>5, <2>1, <2>2
       DEF ObjInv, WinAt, LostAt, Untouched
  <2>6. QED BY Zenon, <2>1, <2>3, <2>4, <2>5 DEF ObjInv
<1>6. QED BY Zenon, <1>4, <1>5, RetagIsSafe

\* The object before its removal: no one owns or vends it.
LEMMA RemovableFacts ==
    ASSUME IInv, NEW o \in Objects, NEW k, RemoveFromCentral(o, k)
    PROVE  /\ ObjInv(o) /\ Central(o) /\ Live(o) /\ ~WithProgram(o)
           /\ ~InFrontEnd(o)
           /\ \A u \in Threads : /\ ~Owner(u, o) /\ ~Vending(u, o)
                                 /\ ~Revalidated(u, o) /\ ~Inserting(u, o)
                                 /\ ~DoubleFrees => ~InFlight(u, o)
<1>1. ObjInv(o) /\ Central(o) /\ lock = NoThread
  BY Zenon DEF IInv, RemoveFromCentral, Central
<1>2. Live(o) /\ ~WithProgram(o) /\ ~InFrontEnd(o)
  BY Zenon, <1>1 DEF ObjInv, PlaceAt
<1>3. \A u \in Threads : ~Inserting(u, o) BY Zenon, <1>1, InsertIsLocked, NullsFresh
<1>4. QED BY Zenon, <1>1, <1>2, <1>3 DEF ObjInv, PlaceAt, VendAt, FlightAt

\* The central path of alloc_small.
LEMMA AllocFromCentralInv ==
    ASSUME IInv, Covered, TypeOK', NEW t \in Threads, NEW o \in Objects,
           NEW k \in Tags \cup {"any"}, AllocFromCentral(t, o, k)
    PROVE  IInv'
<1>1. TypeOK BY Zenon DEF IInv
<1>2. /\ UNCHANGED <<cached, quar, fe, ring, span, lock>> /\ UNCHANGED local
      /\ evicted' = evicted /\ RemoveFromCentral(o, k)
  BY Zenon DEF AllocFromCentral, local
<1>3. /\ app'[o] /\ wins'[o] = 0 /\ ~free'[o]
      /\ \A x \in Objects \ {o} : app'[x] = app[x] /\ wins'[x] = wins[x]
  BY <1>1 DEF AllocFromCentral, RemoveFromCentral, TypeOK
<1>4. /\ \A u \in Threads, x \in Objects : SameRoles(u, x)
      /\ \A u \in Threads, r \in Spans : SpanRoles(u, r)
      /\ \A u \in Threads : ControlAt(u)'
  BY Zenon, <1>2, RolesStay DEF IInv
<1>5. ASSUME NEW r \in Spans PROVE SpanInv(r)'
  BY Zenon, <1>2, <1>4, RemovalKeepsSpans
<1>6. ASSUME NEW x \in Objects, x # o PROVE ObjInv(x)'
  BY Zenon, <1>2, <1>3, <1>4, <1>6, RemovalKeepsOthers
<1>7. ObjInv(o)'
  <2>1. /\ ObjInv(o) /\ Central(o) /\ Live(o) /\ ~WithProgram(o) /\ ~InFrontEnd(o)
        /\ \A u \in Threads : /\ ~Owner(u, o) /\ ~Vending(u, o)
                              /\ ~Revalidated(u, o) /\ ~Inserting(u, o)
                              /\ ~DoubleFrees => ~InFlight(u, o)
    BY Zenon, <1>2, RemovableFacts
  <2>2. CountAt(o)' /\ ~Won(o)'
    BY Zenon, <1>2, <1>3, <2>1, WinsReset DEF ObjInv
  <2>3. /\ WithProgram(o)' /\ ~Central(o)' /\ Live(o)' /\ ~InFrontEnd(o)'
        /\ (Marked(o)' <=> Marked(o))
    BY Zenon, <1>2, <1>3, <2>1 DEF WithProgram, Central, Live, InFrontEnd, Marked
  <2>4. MarkAt(o)' /\ RouteAt(o)'
    <3>1. CASE Cacheable(o)' <=> Cacheable(o)
      BY Zenon, <1>4, <2>1, <2>3, <3>1 DEF ObjInv, MarkAt, RouteAt, SameRoles
    <3>2. CASE Untouched(o) /\ ~Marked(o) /\ ~InFrontEnd(o)
      BY Zenon, <1>4, <2>3, <3>2, UntouchedStays DEF MarkAt, RouteAt, Untouched
    <3>3. QED BY Zenon, <1>2, <3>1, <3>2, RetagIsSafe
  <2>5. PlaceAt(o)' BY Zenon, <1>4, <2>1, <2>3 DEF PlaceAt, SameRoles
  <2>6. VendAt(o)' BY Zenon, <1>4, <2>1 DEF VendAt, SameRoles
  <2>7. FlightAt(o)'
    BY Zenon, <1>4, <2>1, <2>3 DEF ObjInv, FlightAt, SameRoles
  <2>8. WinAt(o)' /\ LostAt(o)' BY Zenon, <2>2, <2>3 DEF WinAt, LostAt
  <2>9. QED BY Zenon, <2>2, <2>4, <2>5, <2>6, <2>7, <2>8 DEF ObjInv
<1>8. QED BY Zenon, <1>2, <1>4, <1>5, <1>6, <1>7 DEF IInv

\* refill: the thread that removed the object is alone with it until it has
\* marked it.
LEMMA RefillInv ==
    ASSUME IInv, Covered, TypeOK', NEW t \in Threads, NEW o \in Objects,
           Refill(t, o)
    PROVE  IInv'
<1>1. TypeOK /\ ControlAt(t) BY Zenon DEF IInv
<1>2. /\ UNCHANGED <<cached, quar, app, fe, ring, span, lock, evicted>>
      /\ RemoveFromCentral(o, "default") /\ "default" \in Tags \cup {"any"}
      /\ Moved(t, o, "refillMark", "flush")
      /\ pc[t] = "idle" /\ obj[t] = NoObject
  BY Zenon, <1>1, TakeMoves DEF Refill, ControlAt
<1>3. /\ wins'[o] = 0 /\ ~free'[o]
      /\ \A x \in Objects \ {o} : wins'[x] = wins[x]
  BY <1>1 DEF Refill, RemoveFromCentral, TypeOK
<1>4. \A u \in Threads : ControlAt(u)'
  <2>1. ControlAt(t)' BY Zenon, <1>1, <1>2 DEF ControlAt, Moved
  <2>2. QED BY Zenon, <1>2, <2>1, OtherControl DEF IInv
<1>5. \A u \in Threads, r \in Spans : SpanRoles(u, r)
  BY <1>2, SpanRolesStay DEF SpanSteps
<1>6. ASSUME NEW r \in Spans PROVE SpanInv(r)'
  BY Zenon, <1>2, <1>5, RemovalKeepsSpans
<1>7. ASSUME NEW x \in Objects, x # o PROVE ObjInv(x)'
  <2>1. \A u \in Threads : SameRoles(u, x)
    BY Zenon, <1>2, <1>7, OthersStay, NullsFresh
  <2>2. QED BY Zenon, <1>2, <1>3, <1>7, <2>1, RemovalKeepsOthers
<1>8. ObjInv(o)'
  <2>1. /\ ObjInv(o) /\ Central(o) /\ Live(o) /\ ~WithProgram(o) /\ ~InFrontEnd(o)
        /\ \A u \in Threads : /\ ~Owner(u, o) /\ ~Vending(u, o)
                              /\ ~Revalidated(u, o) /\ ~Inserting(u, o)
                              /\ ~DoubleFrees => ~InFlight(u, o)
    BY Zenon, <1>2, RemovableFacts
  <2>2. \A u \in Threads : ~InFlight(u, o)
    <3>1. CASE DoubleFrees
      BY Zenon, <3>1 DEF Refill, Covered, Unclaimed, InFlight
    <3>2. QED BY Zenon, <2>1, <3>1
  <2>3. CountAt(o)' /\ ~Won(o)'
    BY Zenon, <1>2, <1>3, <2>1, WinsReset DEF ObjInv
  <2>4. /\ ~WithProgram(o)' /\ ~Central(o)' /\ Live(o)' /\ ~InFrontEnd(o)'
        /\ (Marked(o)' <=> Marked(o))
    BY Zenon, <1>2, <1>3, <2>1 DEF WithProgram, Central, Live, InFrontEnd, Marked
  <2>5. Cacheable(o)'
    BY <1>1, <1>2, NullsFresh DEF RemoveFromCentral, Serves, Cacheable, TypeOK
  <2>6. \A u \in Threads : u # t => SameRoles(u, o) BY Zenon, <1>2, OthersStay
  <2>7. /\ Vending(t, o)' /\ ByFrontEnd(t, o)' /\ ~Owner(t, o)'
        /\ ~InFlight(t, o)' /\ ~Losing(t, o)' /\ ~Inserting(t, o)'
        /\ ~Revalidated(t, o)' /\ ~Marker(t, o)' /\ ~ByCentral(t, o)'
        /\ ~Marker(t, o)
    BY Zenon, <1>2 DEF Moved, Marker, Owner, Vending, InFlight, Revalidated,
       Losing, Inserting, ByFrontEnd, ByCentral
  <2>8. MarkAt(o)'
    BY Zenon, <2>1, <2>4, <2>5, <2>6, <2>7 DEF ObjInv, MarkAt, SameRoles
  <2>9. \A u \in Threads : u # t => ~ByCentral(u, o)
    <3>1. ASSUME DoubleFrees, NEW u \in Threads, u # t, ByCentral(u, o)
          PROVE  FALSE
      <4>1. Cacheable(o) \/ Untouched(o)
        BY Zenon, <1>2, <2>5, RetagIsSafe
      <4>2. QED BY Zenon, <2>1, <2>5, <3>1, <4>1 DEF ObjInv, RouteAt, Untouched
    <3>2. ASSUME ~DoubleFrees, NEW u \in Threads, ByCentral(u, o)
          PROVE  FALSE
      BY Zenon, <2>1, <2>2, <3>2, RouteFacts DEF ObjInv, FlightAt
    <3>3. QED BY Zenon, <3>1, <3>2
  <2>10. RouteAt(o)'
    BY Zenon, <2>5, <2>6, <2>7, <2>9 DEF RouteAt, SameRoles
  <2>11. PlaceAt(o)' BY Zenon, <2>1, <2>4, <2>6, <2>7 DEF PlaceAt, SameRoles
  <2>12. VendAt(o)'
    BY Zenon, <2>1, <2>2, <2>3, <2>4, <2>6, <2>7 DEF VendAt, SameRoles
  <2>13. FlightAt(o)'
    BY Zenon, <2>1, <2>2, <2>4, <2>6, <2>7 DEF ObjInv, FlightAt, SameRoles
  <2>14. WinAt(o)' /\ LostAt(o)'
    BY Zenon, <2>3, <2>4, <2>7 DEF WinAt, LostAt
  <2>15. QED
    BY Zenon, <2>3, <2>8, <2>10, <2>11, <2>12, <2>13, <2>14 DEF ObjInv
<1>9. QED BY Zenon, <1>2, <1>4, <1>6, <1>7, <1>8 DEF IInv

-----------------------------------------------------------------------------
(* From the invariant to the properties. *)

\* Without the quarantine a thread holds an object exactly as its owner.
LEMMA HoldsIsOwner ==
    ASSUME IInv, Covered, NEW t \in Threads, NEW o \in Objects
    PROVE  Holds(t, o) <=> Owner(t, o)
<1>1. ControlAt(t) /\ evicted[t] = {} /\ ~Quarantine BY Zenon DEF IInv, Covered
<1>2. QED BY Zenon, <1>1 DEF ControlAt, Holds, Owner

\* The places of an object, as propositions of the invariant.
LEMMA PlaceKinds ==
    ASSUME IInv, Covered, NEW o \in Objects, NEW p
    PROVE  p \in Places(o) <=>
              \/ p = <<"program", 0>> /\ WithProgram(o)
              \/ \E t \in Threads : p = <<"thread", t>> /\ Owner(t, o)
              \/ p = <<"frontEnd", 1>> /\ InFrontEnd(o)
              \/ p = <<"central", 0>> /\ Central(o)
<1>1. ring = {} /\ CountAt(o) BY Zenon DEF IInv, ObjInv
<1>2. {<<"frontEnd", i>> : i \in 1..fe[o]}
         = IF InFrontEnd(o) THEN {<<"frontEnd", 1>>} ELSE {}
  <2>1. CASE fe[o] = 0
    <3>1. 1..fe[o] = {} BY <2>1
    <3>2. ~InFrontEnd(o) BY <2>1 DEF InFrontEnd
    <3>3. QED BY Zenon, <3>1, <3>2
  <2>2. CASE fe[o] = 1
    <3>1. 1..fe[o] = {1} BY <2>2
    <3>2. InFrontEnd(o) BY Zenon, <2>2 DEF InFrontEnd
    <3>3. QED BY Zenon, <3>1, <3>2
  <2>3. QED BY Zenon, <1>1, <2>1, <2>2 DEF CountAt
<1>3. p \in {<<"thread", t>> : t \in {u \in Threads : Holds(u, o)}}
         <=> \E t \in Threads : p = <<"thread", t>> /\ Owner(t, o)
  BY Zenon, HoldsIsOwner
<1>4. QED BY Zenon, <1>1, <1>2, <1>3 DEF Places, WithProgram, Central

\* The invariant leaves an object one place at most.
LEMMA OnePlace == ASSUME IInv, Covered PROVE SingleResidence
<1>1. SUFFICES ASSUME NEW o \in Objects, NEW p \in Places(o), NEW q \in Places(o)
               PROVE  p = q
  BY Zenon DEF SingleResidence
<1>2. ObjInv(o) BY Zenon DEF IInv
<1>3. \A t, u \in Threads : Owner(t, o) /\ Owner(u, o) => t = u
  BY Zenon, <1>2, RoleFacts DEF ObjInv, MarkAt
<1>4. \A t \in Threads : Owner(t, o) =>
         ~WithProgram(o) /\ ~InFrontEnd(o) /\ ~Central(o)
  BY Zenon, <1>2, RoleFacts DEF ObjInv, MarkAt, PlaceAt
<1>5. /\ ~(WithProgram(o) /\ InFrontEnd(o)) /\ ~(WithProgram(o) /\ Central(o))
      /\ ~(InFrontEnd(o) /\ Central(o))
  BY Zenon, <1>2 DEF ObjInv, PlaceAt
<1>6. /\ \/ p = <<"program", 0>> /\ WithProgram(o)
         \/ \E t \in Threads : p = <<"thread", t>> /\ Owner(t, o)
         \/ p = <<"frontEnd", 1>> /\ InFrontEnd(o)
         \/ p = <<"central", 0>> /\ Central(o)
      /\ \/ q = <<"program", 0>> /\ WithProgram(o)
         \/ \E t \in Threads : q = <<"thread", t>> /\ Owner(t, o)
         \/ q = <<"frontEnd", 1>> /\ InFrontEnd(o)
         \/ q = <<"central", 0>> /\ Central(o)
  BY Zenon, PlaceKinds
<1>7. CASE \E t \in Threads : Owner(t, o)
  <2>1. PICK t \in Threads : Owner(t, o) BY Zenon, <1>7
  <2>2. p = <<"thread", t>> BY Zenon, <1>3, <1>4, <1>6, <2>1
  <2>3. q = <<"thread", t>> BY Zenon, <1>3, <1>4, <1>6, <2>1
  <2>4. QED BY Zenon, <2>2, <2>3
<1>8. CASE ~\E t \in Threads : Owner(t, o)
  BY <1>5, <1>6, <1>8
<1>9. QED BY Zenon, <1>7, <1>8

\* ... and a place only in a live span ...
LEMMA PlacesAreLive == ASSUME IInv, Covered PROVE ResidentsAreBacked
<1>1. SUFFICES ASSUME NEW o \in Objects, NEW p \in Places(o) PROVE Live(o)
  BY Zenon DEF ResidentsAreBacked, Live
<1>2. QED BY Zenon, PlaceKinds DEF IInv, ObjInv, PlaceAt

\* ... and, if the program is correct, leaves no object without one.
LEMMA PlacesExist ==
    ASSUME IInv, Covered, ~DoubleFrees PROVE NoObjectLost
<1>1. SUFFICES ASSUME NEW o \in Objects, Live(o), Places(o) = {}
               PROVE  BeingVended(o)
  BY Zenon DEF NoObjectLost, Live
<1>2. /\ ~WithProgram(o) /\ ~InFrontEnd(o) /\ ~Central(o)
      /\ \A t \in Threads : ~Owner(t, o)
  BY Zenon, <1>1, PlaceKinds
<1>3. PICK t \in Threads : Vending(t, o)
  BY Zenon, <1>1, <1>2 DEF IInv, ObjInv, LostAt
<1>4. QED BY Zenon, <1>3 DEF Vending, BeingVended

\* While a span is being inserted into it is not on the empty list, so a bin
\* that may keep every span has room for it.
LEMMA RoomForEmptySpan ==
    ASSUME IInv, Covered, DoubleFrees, NEW t \in Threads, InsertUnmark(t)
    PROVE  ListAfterInsert(SpanOf[obj[t]]) # "none"
<1>1. PICK s \in Spans : s = SpanOf[obj[t]] /\ InsertingIn(t, s)
  BY Zenon, NullsFresh DEF IInv, ControlAt, InsertUnmark, InsertingIn
<1>2. DEFINE E == {r \in Spans : listed[r] = "empty"}
<1>3. E \in SUBSET Spans /\ s \notin E BY Zenon, <1>1 DEF IInv, SpanInv
<1>4. E # Spans BY Zenon, <1>1, <1>3
<1>5. Cardinality(E) < MaxEmptyCachedPerBin BY Zenon, <1>3, <1>4 DEF Covered
<1>6. QED BY Zenon, <1>1, <1>5 DEF ListAfterInsert

\* Nothing of the quarantine is reachable in a build without it.
LEMMA NoQuarantineStep ==
    ASSUME IInv, Covered, NEW t \in Threads
    PROVE  /\ ~QuarantineStep(t) /\ ~ConvergeQuarantine(t)
           /\ \A on \in BOOLEAN : ~SetQuarantineEnabled(t, on)
<1>1. pc[t] \notin {"quarCheck", "quarEnabled", "quarCentral", "quarCached",
                    "markQuar", "offer", "unclaimQuar", "held", "drain",
                    "drainRing"}
  BY ZenonT(30) DEF IInv, ControlAt
<1>2. ~QuarantineStep(t)
  BY Zenon, <1>1 DEF QuarantineStep, QuarCheck, QuarEnabled, QuarCentral,
     QuarCached, MarkQuarantined, OfferHeld, OfferDeclined, UnclaimQuarantined,
     Held, DrainOne, DrainRing
<1>3. QED BY Zenon, <1>2 DEF Covered, SetQuarantineEnabled, ConvergeQuarantine

\* Every step preserves the inductive invariant.
LEMMA InvariantStep ==
    ASSUME IInv, Covered, TypeOK', NEW t \in Threads,
           FreeStep(t) \/ QuarantineStep(t) \/ CentralStep(t) \/ AllocStep(t)
             \/ Call(t)
    PROVE  IInv'
<1>1. CASE FreeStep(t)
  BY Zenon, <1>1, ScreenCachedInv, ScreenCentralInv, TryMarkCachedInv,
     RevalidateCentralInv, RevalidateQuarantinedInv, UnmarkInv, RouteInv
     DEF FreeStep
<1>2. CASE CentralStep(t)
  <2>1. CASE InsertUnmark(t) BY Zenon, <2>1, InsertUnmarkInv, RoomForEmptySpan
  <2>2. QED
    BY Zenon, <1>2, <2>1, CentralInsertInv, InsertRejectedInv, ReleaseClaimInv,
       InsertClearQuarantinedInv, DeactivateInv, ReclaimSlotInv
       DEF CentralStep
<1>3. CASE AllocStep(t)
  BY Zenon, <1>3, ClaimCachedObjectInv, RefillMarkInv, PublishInv DEF AllocStep
<1>4. CASE Call(t)
  BY Zenon, <1>4, NoQuarantineStep, FreeCallInv, FrontEndPopInv, RefillInv, FlushPopInv,
     AllocFromCentralInv, CreateSpanInv DEF Call
<1>5. QED BY Zenon, <1>1, <1>2, <1>3, <1>4, NoQuarantineStep

\* So does a step that changes nothing.
LEMMA InvariantStutter ==
    ASSUME IInv, UNCHANGED vars PROVE IInv'
<1>1. /\ UNCHANGED <<cached, free, quar, app, fe, ring, span, listed, tag, lock,
                    wins, evicted>>
      /\ UNCHANGED local
  BY Zenon DEF vars, markers, central, local
<1>2. /\ \A u \in Threads, x \in Objects : SameRoles(u, x)
      /\ \A u \in Threads, r \in Spans : SpanRoles(u, r)
      /\ \A u \in Threads : ControlAt(u)'
  BY Zenon, <1>1, RolesStay DEF IInv
<1>3. ASSUME NEW r \in Spans PROVE SpanInv(r)'
  BY Zenon, <1>1, <1>2, SpanKept DEF IInv
<1>4. ASSUME NEW x \in Objects PROVE ObjInv(x)'
  <2>1. SameState(x) /\ CountAt(x)'
    BY Zenon, <1>1, StateStays DEF IInv, Live, Cacheable
  <2>2. QED BY Zenon, <1>2, <2>1, ObjectKept DEF IInv
<1>5. TypeOK' BY Zenon DEF IInv, TypeOK, vars, markers, central, local
<1>6. QED BY Zenon, <1>1, <1>2, <1>3, <1>4, <1>5 DEF IInv

\* The initial state satisfies it: no span exists.
LEMMA InvariantInit == ASSUME Init, TypeOK PROVE IInv
<1>1. ASSUME NEW t \in Threads PROVE ControlAt(t)
  BY Zenon, NullsFresh DEF Init, ControlAt
<1>2. ASSUME NEW s \in Spans PROVE SpanInv(s)
  BY Zenon DEF Init, SpanInv, Retiring, Reclaiming, InsertingIn
<1>3. ASSUME NEW x \in Objects PROVE ObjInv(x)
  <2>1. \A u \in Threads : obj[u] # x BY Zenon, NullsFresh DEF Init
  <2>2. \A u \in Threads : /\ ~Marker(u, x) /\ ~Owner(u, x) /\ ~Vending(u, x)
                           /\ ~InFlight(u, x) /\ ~Revalidated(u, x)
                           /\ ~Losing(u, x) /\ ~Inserting(u, x)
                           /\ ~ByFrontEnd(u, x) /\ ~ByCentral(u, x)
    BY Zenon, <2>1 DEF Marker, Owner, Vending, InFlight, Revalidated, Losing,
       Inserting, ByFrontEnd, ByCentral
  <2>3. CountAt(x) /\ ~InFrontEnd(x) BY DEF Init, CountAt, InFrontEnd
  <2>4. ~Marked(x) /\ ~Central(x) /\ ~WithProgram(x)
    BY Zenon DEF Init, Marked, Central, WithProgram
  <2>5. ~Live(x) BY Zenon, NullsFresh DEF Init, Live
  <2>6. MarkAt(x) /\ RouteAt(x) /\ PlaceAt(x)
    BY Zenon, <2>2, <2>3, <2>4 DEF MarkAt, RouteAt, PlaceAt
  <2>7. VendAt(x) /\ FlightAt(x) /\ WinAt(x) /\ LostAt(x)
    BY Zenon, <2>2, <2>4, <2>5 DEF VendAt, FlightAt, WinAt, LostAt
  <2>8. QED BY Zenon, <2>3, <2>6, <2>7 DEF ObjInv
<1>4. QED BY Zenon, <1>1, <1>2, <1>3 DEF Init, IInv

\* IInv is an invariant of every covered instance.
THEOREM Invariance == Covered => (Spec => []IInv)
<1>1. SUFFICES ASSUME Covered PROVE Spec => []IInv BY Zenon
<1>2. Init /\ TypeOK => IInv BY Zenon, InvariantInit
<1>3. IInv /\ TypeOK' /\ [Next]_vars => IInv'
  BY Zenon, <1>1, InvariantStep, InvariantStutter DEF Next
<1>4. QED BY <1>2, <1>3, TypeCorrect, PTL DEF Spec

-----------------------------------------------------------------------------
(* What the invariant says about the properties of FreeClaim *)

\* No object is ever in two places at once, so none is handed out twice: for a
\* correct program under every interleaving of frees, allocations, refills,
\* flushes and retirements, and for a double-freeing one as Covered restricts
\* it (free_small_screened, refill, insert_batch_inner).
THEOREM NeverInTwoPlaces == Covered => (Spec => []SingleResidence)
<1>1. SUFFICES ASSUME Covered PROVE Spec => []SingleResidence BY Zenon
<1>2. IInv => SingleResidence BY Zenon, <1>1, OnePlace
<1>3. QED BY <1>1, <1>2, Invariance, PTL

\* No span is retired under an object that is with the program, in a cache or
\* in a thread's hand (insert_batch_inner's span_empty, deactivate_span).
THEOREM NeverUnbacked == Covered => (Spec => []ResidentsAreBacked)
<1>1. SUFFICES ASSUME Covered PROVE Spec => []ResidentsAreBacked BY Zenon
<1>2. IInv => ResidentsAreBacked BY Zenon, <1>1, PlacesAreLive
<1>3. QED BY <1>1, <1>2, Invariance, PTL

\* A correct program never loses an object: each one of a live span is with the
\* program, in a free structure, in a thread's hand or being vended.
THEOREM NeverLost ==
    Covered /\ ~DoubleFrees => (Spec => []NoObjectLost)
<1>1. SUFFICES ASSUME Covered, ~DoubleFrees PROVE Spec => []NoObjectLost
  BY Zenon
<1>2. IInv => NoObjectLost BY Zenon, <1>1, PlacesExist
<1>3. QED BY <1>1, <1>2, Invariance, PTL

\* Of any number of racing frees of one live object one is admitted at most
\* (the claim of free_small_cached and of central_insert).
THEOREM AtMostOneWinner == Covered => (Spec => []OneWinner)
<1>1. SUFFICES ASSUME Covered PROVE Spec => []OneWinner BY Zenon
<1>2. IInv => OneWinner BY SMTT(20) DEF IInv, ObjInv, CountAt, OneWinner
<1>3. QED BY <1>1, <1>2, Invariance, PTL

\* Every front-end entry carries its mark, the assertion in
\* claim_cached_object.
THEOREM EntriesStayMarked == Covered => (Spec => []EntriesAreMarked)
<1>1. SUFFICES ASSUME Covered PROVE Spec => []EntriesAreMarked BY Zenon
<1>2. IInv => EntriesAreMarked
  BY DEF IInv, ObjInv, CountAt, MarkAt, InFrontEnd, Marked, EntriesAreMarked
<1>3. QED BY <1>1, <1>2, Invariance, PTL

\* With a correct program, who holds the span lock never sees an object cached
\* and central-free at once (the span's own self-check).
THEOREM MarkersStayDisjoint ==
    Covered /\ ~DoubleFrees => (Spec => []CachedCentralDisjoint)
<1>1. SUFFICES ASSUME Covered, ~DoubleFrees
               PROVE  Spec => []CachedCentralDisjoint
  BY Zenon
<1>2. ASSUME IInv, NEW o \in Objects, Marked(o), Central(o)
      PROVE  SpanLocked(SpanOf[o])
  <2>1. ObjInv(o) BY Zenon, <1>2 DEF IInv
  <2>2. PICK t \in Threads : Marker(t, o)
    BY Zenon, <1>2, <2>1 DEF ObjInv, MarkAt, PlaceAt
  <2>3. Inserting(t, o)
    BY Zenon, <1>1, <1>2, <2>1, <2>2, RoleFacts DEF ObjInv, PlaceAt, FlightAt
  <2>4. lock = t /\ obj[t] = o BY Zenon, <1>2, <2>3 DEF IInv, ControlAt, Inserting
  <2>5. QED BY Zenon, <2>4, NullsFresh DEF SpanLocked
<1>3. IInv => CachedCentralDisjoint
  BY ZenonT(30), <1>2 DEF CachedCentralDisjoint, Marked, Central
<1>4. QED BY <1>1, <1>3, Invariance, PTL

\* deactivate_span's assertion holds: the span it is given is Active and
\* wholly central-free.
THEOREM RetiresOnlyEmpty == Covered => (Spec => []RetiresOnlyEmptySpans)
<1>1. SUFFICES ASSUME Covered PROVE Spec => []RetiresOnlyEmptySpans BY Zenon
<1>2. IInv => RetiresOnlyEmptySpans
  BY NullsFresh DEF IInv, ControlAt, SpanInv, Retiring, RetiresOnlyEmptySpans
<1>3. QED BY <1>1, <1>2, Invariance, PTL

\* What the run checks of a correct program, for every instance: each object of a
\* live span is in one place, and in no more than one.
THEOREM EachInOnePlace ==
    Covered /\ ~DoubleFrees => (Spec => []InOnePlace)
BY NeverInTwoPlaces, NeverLost, TypeCorrect, PTL DEF InOnePlace

\* Spans stay active under their objects, and only empty ones are retired.
THEOREM AlwaysBacked == Covered => (Spec => []Backed)
BY NeverUnbacked, RetiresOnlyEmpty, PTL DEF Backed

\* The marks of the front end and of the central bins agree with where objects
\* are.
THEOREM MarksAreSound ==
    Covered /\ ~DoubleFrees => (Spec => []MarksSound)
BY EntriesStayMarked, MarkersStayDisjoint, PTL DEF MarksSound

\* Racing frees of one object: one is admitted, none puts it in two places and
\* no front-end entry loses its mark, for any number of threads and objects.
THEOREM EachFreedOnce == Covered => (Spec => []FreedOnce)
BY AtMostOneWinner, NeverInTwoPlaces, EntriesStayMarked, PTL DEF FreedOnce
=============================================================================
