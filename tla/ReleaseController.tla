-------------------------- MODULE ReleaseController -------------------------
(***************************************************************************)
(* The release controller (topo-core/src/release.rs): a tick reads the     *)
(* heap's counters, moves the pressure mode, sizes the demand reserve, and *)
(* plans how many bytes each rung of the release ladder may give back,     *)
(* within a rate.  A behaviour is any sequence of ticks of one host, at    *)
(* any readings of its clock, with any counters of the chosen kind.  The   *)
(* host passes the reading: it advances, and may be set back.              *)
(***************************************************************************)
EXTENDS Naturals, Sequences, FiniteSets, FiniteSetsExt

CONSTANTS Configs,          \* decay configuration and latency tolerance
          Inputs(_),        \* the counters a tick may read under a configuration
          Second,           \* a second, in clock units
          PeakDecay,        \* PEAK_DECAY_MS, in clock units
          SoftBp, HardBp, Hysteresis,   \* PressureThresholds, in tenths
          MaxTime,          \* how far the clock advances in all
          MaxTicks

VARIABLES config, mode, now, started, lastTick,
          dirtySince, dirtyPresent, muzzySince, muzzyPresent,
          lastAllocated, lastNotified, peakFree, peakAnchor, backlog,
          last,             \* the last tick's counters, plan and reserve
          passed,           \* the time that has passed, by the clock's advances
          rated, firstTick, \* bytes planned under the rate cap, since when
          seen,             \* the ticks' readings, with the free bytes they found
          clean             \* when a tick last found nothing dirty

ctl == <<mode, started, lastTick, dirtySince, dirtyPresent, muzzySince, muzzyPresent,
         lastAllocated, lastNotified, peakFree, peakAnchor, backlog>>
vars == <<config, now, passed, ctl, last, rated, firstTick, seen, clean>>

Normal == 0
Soft == 1
Hard == 2
Emergency == 3

\* LatencyClass: FastOnly, BoundedSlow, MayBlock.
Permitted(class) == class <= config.latency
FastOnly == 0
BoundedSlow == 1
MayBlock == 2

Lesser(a, b) == IF a < b THEN a ELSE b
Greater(a, b) == IF a > b THEN a ELSE b
Minus(a, b) == IF a > b THEN a - b ELSE 0

NoPlan == [caches |-> 0, huge |-> 0, purge |-> 0, muzzied |-> 0, sparse |-> 0,
           muzzy |-> 0, shrink |-> 0]
Rungs == <<"caches", "huge", "purge", "muzzied", "sparse", "muzzy", "shrink">>
TotalBytes(plan) == MapThenSumSet(LAMBDA r : plan[r], DOMAIN plan)

Init ==
    /\ config \in Configs /\ now = 0 /\ passed = 0
    /\ mode = Normal /\ started = FALSE /\ lastTick = 0
    /\ dirtySince = 0 /\ dirtyPresent = FALSE /\ muzzySince = 0 /\ muzzyPresent = FALSE
    /\ lastAllocated = 0 /\ lastNotified = 0 /\ peakFree = 0 /\ peakAnchor = 0 /\ backlog = 0
    /\ last = [ticks |-> 0] /\ rated = 0 /\ firstTick = 0 /\ seen = {} /\ clean = 0

-----------------------------------------------------------------------------
(* The counters of one tick.                                               *)

PurgeableDirty(in) == Minus(in.dirty, in.hot)
Utilization(in) == IF in.max = 0 THEN 0 ELSE (in.current * 10) \div in.max
CgroupCritical(in) == in.max # 0 /\ in.current >= in.max
FreeNow(in) == in.idle + in.dirty + in.muzzy + in.huge

\* A mode is entered at its threshold and left Hysteresis below it; Emergency is
\* left as soon as its trigger is gone.
Raw(in) ==
    LET u == Utilization(in)
        level == IF u >= HardBp THEN Hard ELSE IF u >= SoftBp THEN Soft ELSE Normal
    IN IF in.notified > lastNotified THEN Greater(level, Soft) ELSE level
Stays(in) ==
    \/ mode = Hard /\ Utilization(in) >= Minus(HardBp, Hysteresis)
    \/ mode = Soft /\ Utilization(in) >= Minus(SoftBp, Hysteresis)
ClassifyMode(in) ==
    IF in.failed \/ CgroupCritical(in) THEN Emergency
    ELSE IF Raw(in) >= mode THEN Raw(in)
    ELSE IF Stays(in) THEN mode
    ELSE Raw(in)

\* The recent peak of free bytes, decaying from the tick that saw it.
StillPeak(in) == FreeNow(in) < peakFree /\ Minus(now, peakAnchor) < PeakDecay
RecentPeak(in, peak, anchor) ==
    FreeNow(in) + ((peak - FreeNow(in)) * (PeakDecay - Lesser(Minus(now, anchor), PeakDecay)))
                    \div PeakDecay

RatePerSec(delta, elapsed) == IF elapsed = 0 THEN 0 ELSE (delta * Second) \div elapsed
DemandReserve(rate, peak, missPpk, m) ==
    LET capped == Lesser(rate + (rate * missPpk) \div 1000, peak) IN
    IF m = Emergency THEN 0 ELSE capped \div (2 ^ m)

\* How much each rung may give back.
PlanLadder(in, reserve, m, dirtyAged, muzzyAged) ==
    LET emergency == m = Emergency
        purge == IF dirtyAged /\ Permitted(MayBlock) THEN PurgeableDirty(in) ELSE 0
    IN IF ~emergency /\ (~config.purge \/ in.cpu) THEN NoPlan
       ELSE [caches |-> IF ~Permitted(FastOnly) THEN 0
                        ELSE in.idle \div (IF m = Normal THEN 4 ELSE IF m = Soft THEN 2 ELSE 1),
             huge |-> IF m >= Soft /\ Permitted(MayBlock)
                      THEN Minus(in.huge, IF emergency THEN 0 ELSE reserve) ELSE 0,
             purge |-> purge,
             muzzied |-> IF dirtyAged /\ Permitted(BoundedSlow)
                         THEN PurgeableDirty(in) - purge ELSE 0,
             sparse |-> IF m >= Hard /\ Permitted(BoundedSlow) THEN in.sparse ELSE 0,
             muzzy |-> IF muzzyAged /\ ~emergency /\ Permitted(MayBlock) THEN in.muzzy ELSE 0,
             shrink |-> IF emergency /\ Permitted(MayBlock) THEN in.muzzy ELSE 0]

\* Mutant: every tick at the same instant gets a full window.
BudgetsEveryTick(elapsed) ==
    (IF elapsed = 0 THEN config.rate * Second ELSE config.rate * elapsed) \div Second
RateBudget(elapsed) ==
    CASE elapsed = 0 /\ ~started -> config.rate
      [] elapsed = 0 /\ started -> 0
      [] OTHER -> (config.rate * elapsed) \div Second

\* The rungs take from the budget in ladder order.
ScalePlan(plan, budget) ==
    [r \in DOMAIN plan |->
        LET before == {Rungs[i] : i \in {j \in 1 .. Len(Rungs) :
                            \E k \in j + 1 .. Len(Rungs) : Rungs[k] = r}}
        IN Lesser(plan[r], Minus(budget, MapThenSumSet(LAMBDA q : plan[q], before)))]

Elapsed == IF started THEN Minus(now, lastTick) ELSE 0

\* The host's clock advances by a unit, or is set back, at most once.  It is set
\* back right after a tick: what it advanced before that no tick would have read.
Pass ==
    /\ passed < MaxTime /\ last.ticks < MaxTicks
    /\ passed' = passed + 1 /\ now' = now + 1
    /\ UNCHANGED <<config, ctl, last, rated, firstTick, seen, clean>>
SetBack(to) ==
    /\ started /\ now = lastTick /\ now = passed /\ last.ticks < MaxTicks
    /\ now' = to
    /\ UNCHANGED <<config, passed, ctl, last, rated, firstTick, seen, clean>>

\* What the ladder plans, and what the rate lets through of it.
Planned(in, m, reserve, dirty, muzzy) ==
    PlanLadder(in, reserve, m, m >= Hard \/ Minus(now, dirty) >= config.dirtyDecay,
               m >= Hard \/ Minus(now, muzzy) >= config.muzzyDecay)
Capped(m) == config.rate # 0 /\ m # Emergency
Granted(plan, m) ==
    IF ~Capped(m) THEN plan
    ELSE ScalePlan(plan, Lesser(RateBudget(Elapsed), Greater(TotalBytes(plan), backlog)))
BacklogAfter(plan, granted, m) ==
    IF ~Capped(m) THEN 0
    ELSE Lesser(Minus(Greater(TotalBytes(plan), backlog), TotalBytes(granted)), TotalBytes(plan))

Since(present, since, bytes) == IF bytes = 0 \/ ~present THEN now ELSE since

Tick(in) ==
    /\ last.ticks < MaxTicks
    /\ in.allocated >= lastAllocated /\ in.notified >= lastNotified   \* monotone counters
    /\ \E kept \in {StillPeak(in)}, m \in {ClassifyMode(in)},
          dirty \in {Since(dirtyPresent, dirtySince, in.dirty)},
          muzzy \in {Since(muzzyPresent, muzzySince, in.muzzy)} :
       \E peak \in {IF kept THEN peakFree ELSE FreeNow(in)},
          anchor \in {IF kept THEN peakAnchor ELSE now} :
       \E reserve \in {DemandReserve(RatePerSec(in.allocated - lastAllocated, Elapsed),
                                     RecentPeak(in, peak, anchor), in.missPpk, m)} :
       \E plan \in {Planned(in, m, reserve, dirty, muzzy)} :
       \E granted \in {Granted(plan, m)} :
          /\ mode' = m /\ peakFree' = peak /\ peakAnchor' = anchor
          /\ dirtySince' = dirty /\ dirtyPresent' = (in.dirty # 0)
          /\ muzzySince' = muzzy /\ muzzyPresent' = (in.muzzy # 0)
          /\ backlog' = BacklogAfter(plan, granted, m)
          /\ lastTick' = now /\ lastAllocated' = in.allocated /\ lastNotified' = in.notified
          /\ started' = TRUE
          /\ last' = [ticks |-> last.ticks + 1, at |-> passed, in |-> in, plan |-> granted, reserve |-> reserve,
                      wanted |-> TotalBytes(plan), rose |-> in.notified > lastNotified]
          /\ rated' = rated + (IF Capped(m) THEN TotalBytes(granted) ELSE 0)
          /\ firstTick' = IF started THEN firstTick ELSE passed
          /\ seen' = seen \cup {<<now, FreeNow(in)>>}
          /\ clean' = IF in.dirty = 0 \/ ~started THEN passed ELSE clean
    /\ UNCHANGED <<config, now, passed>>

Next ==
    \/ Pass
    \/ \E to \in 0 .. now - 1 : SetBack(to)
    \/ \E in \in Inputs(config) : Tick(in)

Spec == Init /\ [][Next]_vars

-----------------------------------------------------------------------------
TypeOK ==
    /\ mode \in Normal .. Emergency /\ now \in 0 .. passed /\ lastTick \in 0 .. passed
    /\ dirtySince \in 0 .. passed /\ muzzySince \in 0 .. passed /\ peakAnchor \in 0 .. passed
    /\ backlog \in Nat /\ peakFree \in Nat

\* However often the host ticks and its clock is set back, what the rate cap lets
\* through stays within the configured rate over the time that passed since the
\* first tick, plus one window for that first tick (rate_budget,
\* scale_plan_to_budget).
RateKept ==
    config.rate # 0 /\ started => rated <= config.rate + (config.rate * (last.at - firstTick)) \div Second

\* No plan gives back more than the counters say there is, counts a dirty byte
\* for two rungs, or touches the dirty bytes of hot hugepages; and the backlog
\* never outgrows what there was to release (plan_ladder, tick).
PlanWithinSupply ==
    last.ticks > 0 =>
        /\ last.plan.caches <= last.in.idle /\ last.plan.huge <= last.in.huge
        /\ last.plan.purge + last.plan.muzzied <= PurgeableDirty(last.in)
        /\ last.plan.muzzy + last.plan.shrink <= last.in.muzzy
        /\ last.plan.sparse <= last.in.sparse
        /\ backlog <= last.wanted

\* Below Hard, dirty bytes are given back only when every tick saw some while a
\* dirty-decay interval passed, also when the clock was set back in it, and hugepages only down to the reserve
\* (dirty_since_ms, plan_ladder).
ReleasesOnlyAged ==
    last.ticks > 0 /\ mode < Hard =>
        /\ last.plan.purge + last.plan.muzzied > 0 => last.at - clean >= config.dirtyDecay
        /\ last.plan.huge > 0 => last.in.huge - last.plan.huge >= last.reserve

\* The mode answers the last counters: never below what they call for, above it
\* only inside the hysteresis band of that mode, and in Emergency only while an
\* allocation failed or the cgroup is full (classify_mode).
ModeJustified ==
    last.ticks > 0 =>
        LET u == Utilization(last.in) IN
        /\ (mode = Emergency) = (last.in.failed \/ CgroupCritical(last.in))
        /\ mode # Emergency =>
              /\ u >= HardBp => mode = Hard
              /\ u >= SoftBp \/ last.rose => mode >= Soft
              /\ mode = Hard => u >= Minus(HardBp, Hysteresis)
              /\ mode = Soft => u >= Minus(SoftBp, Hysteresis) \/ last.rose

\* The reserve is bounded by the free bytes some tick saw, less what the linear
\* decay has taken from them by the clock, so an old spike of
\* free memory stops holding memory back whatever the tick rate (recent_peak_free).
ReserveFollowsPeak ==
    last.ticks > 0 /\ now = lastTick =>
        \E s \in seen : last.reserve <=
            FreeNow(last.in) + (Minus(s[2], FreeNow(last.in)) * (PeakDecay - Lesser(Minus(now, s[1]), PeakDecay)))
                                  \div PeakDecay
=============================================================================
