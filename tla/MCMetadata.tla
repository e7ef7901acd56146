------------------------------ MODULE MCMetadata ------------------------------
(***************************************************************************)
(* The metadata of objects in one run.  The initial state chooses the      *)
(* part: the life of spans; the version protocol of the descriptors, of a  *)
(* span ("header"), of a large object, and of a span without debug-checks; *)
(* the page map; the tables, layouts and pointer classes.  The variables   *)
(* of the other parts are Off.                                             *)
(***************************************************************************)
EXTENDS Naturals, TLC

CONSTANTS Threads, Arenas, Places, AnyPlace, Empty, None, Off

VARIABLES part,
          desc, free, highWater, live, bin, extents, out, cached, th, creates, does,
          seq, field, tag, todo, by, writes, stray, read,
          version, entry, owner, shown, walk, installs,
          golden, table, span

spanVars == <<desc, free, highWater, live, bin, extents, out, cached, th, creates,
              does>>
lockVars == <<seq, field, tag, todo, by, writes, stray, read>>
pageVars == <<version, entry, owner, shown, walk, installs>>
slabVars == <<golden, table, span>>
vars == <<part, spanVars, lockVars, pageVars, slabVars>>

Life == INSTANCE SpanLifecycle WITH
    Classes <- {1, 2}, Cap <- 2, WordBits <- 1, InlineWords <- 1, MaxEmpty <- 1,
    MaxBatch <- 2, MaxCreates <- 3, Does <- {{"fail"}, {"reset"}}

Header == INSTANCE DescriptorSeqlock WITH
    Readers <- {"r"}, Retries <- 2, MaxWrites <- 3, Checks <- TRUE,
    Stores <- <<"gen", "base", "count", "state">>, Loads <- <<"base", "count", "state">>,
    Summed <- <<"base", "count", "gen">>, Resizes <- <<>>
Object == INSTANCE DescriptorSeqlock WITH
    Readers <- {"r"}, Retries <- 2, MaxWrites <- 3, Checks <- TRUE,
    Stores <- <<"gen", "base", "usable", "state">>, Loads <- <<"base", "state">>,
    Summed <- <<"base", "usable", "gen">>, Resizes <- <<"usable">>
Unchecked == INSTANCE DescriptorSeqlock WITH
    Readers <- {"r"}, Retries <- 2, MaxWrites <- 3, Checks <- FALSE,
    Stores <- <<"gen", "base", "count", "state">>, Loads <- <<"base", "count", "state">>,
    Summed <- <<"base", "count", "gen">>, Resizes <- <<>>

Pages == INSTANCE PageMap WITH
    Levels <- 3, Slots <- 2, Ranges <- {<<1, 2>>, <<3, 4>>, <<2, 3>>},
    MaxBlocks <- 2, MaxInstalls <- 2, th <- walk

Row(size, align, pages, objects) ==
    [size |-> size, align |-> align, pages |-> pages, objects |-> objects,
     batch |-> 1, cap |-> 2]
Golden(quantum, small) ==
    [page |-> 16, quantum |-> quantum, tiny |-> quantum, small |-> small, huge |-> 32]
Geometry == INSTANCE SlabGeometry WITH
    Rows <- {Row(4, 4, 1, 4), Row(8, 4, 1, 2), Row(8, 8, 1, 2), Row(8, 8, 1, 3),
             Row(12, 4, 1, 1), Row(12, 4, 2, 2), Row(12, 8, 1, 1),
             Row(16, 16, 1, 1), Row(16, 8, 2, 2)},
    Headers <- {Golden(4, 12), Golden(4, 16), Golden(8, 16)}, MaxClasses <- 3,
    Bases <- {16, 32, 112}, SlabHeader <- 3, Top <- 127

NoSpan ==
    /\ desc = Off /\ free = Off /\ highWater = Off /\ live = Off /\ bin = Off
    /\ extents = Off /\ out = Off /\ cached = Off /\ th = Off /\ creates = Off /\ does = Off
NoLock ==
    /\ seq = Off /\ field = Off /\ tag = Off /\ todo = Off /\ by = Off
    /\ writes = Off /\ stray = Off /\ read = Off
NoPages ==
    /\ version = Off /\ entry = Off /\ owner = Off /\ shown = Off /\ walk = Off
    /\ installs = Off
NoSlab == golden = Off /\ table = Off /\ span = Off

Init ==
    \/ part = "span" /\ Life!Init /\ NoLock /\ NoPages /\ NoSlab
    \/ part = "header" /\ Header!Init /\ NoSpan /\ NoPages /\ NoSlab
    \/ part = "object" /\ Object!Init /\ NoSpan /\ NoPages /\ NoSlab
    \/ part = "unchecked" /\ Unchecked!Init /\ NoSpan /\ NoPages /\ NoSlab
    \/ part = "pages" /\ Pages!Init /\ NoSpan /\ NoLock /\ NoSlab
    \/ part = "geometry" /\ Geometry!Init /\ NoSpan /\ NoLock /\ NoPages

Next ==
    /\ UNCHANGED part
    /\ \/ part = "span" /\ Life!Next /\ UNCHANGED <<lockVars, pageVars, slabVars>>
       \/ part = "header" /\ Header!Next /\ UNCHANGED <<spanVars, pageVars, slabVars>>
       \/ part = "object" /\ Object!Next /\ UNCHANGED <<spanVars, pageVars, slabVars>>
       \/ /\ part = "unchecked" /\ Unchecked!Next
          /\ UNCHANGED <<spanVars, pageVars, slabVars>>
       \/ part = "pages" /\ Pages!Next /\ UNCHANGED <<spanVars, lockVars, slabVars>>
       \/ part = "geometry" /\ Geometry!Next /\ UNCHANGED <<spanVars, lockVars, pageVars>>

Spec == Init /\ [][Next]_vars

Symmetry == Permutations(Threads) \cup Permutations(Arenas) \cup Permutations(Places)

-----------------------------------------------------------------------------
\* Spans: every central-free object is reached from exactly one list of its bin
\* (CentralBin::check_invariants); every object is central-free, with the program
\* or held by the front end, and the counts say so; a recycled descriptor's
\* bitmaps cover its new class and carry no mark over; the pool's free stack
\* names each unused slot once; no extent is lost or returned twice;
\* deactivate_span finds the span empty.
SpansSound ==
    part = "span" =>
        /\ Life!TypeOK /\ Life!ListsExact /\ Life!Conserved /\ Life!MarksFresh
        /\ Life!PoolWellFormed /\ Life!ExtentsBalanced /\ Life!DeactivatesEmpty

\* Descriptor snapshots: none mixes two incarnations; one gives up only when an
\* update interfered; with debug-checks a header that a stray write has changed
\* is never returned.
SnapshotsSound ==
    /\ part = "header" => Header!SnapshotsSound
    /\ part = "object" => Object!SnapshotsSound
    /\ part = "unchecked" => Unchecked!SnapshotsSound

\* The page map: a lookup answers an entry its page had at some moment during
\* the lookup; the tree holds the last entry stored for every page; an entry
\* names the owner of its page or one that released it; a range is published
\* whole or not at all.
PagesSound ==
    part = "pages" =>
        /\ Pages!TypeOK /\ Pages!LookupsLinearize /\ Pages!TreeHoldsStores
        /\ Pages!EntriesOwned /\ Pages!PublishedWhole

\* Geometry: the table lookup answers the smallest class that fits; the usable
\* bytes predicted for a request hold it; the objects of a slab are aligned,
\* disjoint and inside it; validate_free accepts exactly the bases of objects.
PointersSound ==
    part = "geometry" =>
        /\ Geometry!TypeOK /\ Geometry!LeastClass /\ Geometry!UsableHoldsRequest
        /\ Geometry!ObjectsTileSlab /\ Geometry!FreesOnlyBases

\* Steps: a reset leaves no span of its arena behind; a racing recycle or resize
\* is never reported as corruption.
MetadataSteps ==
    [][/\ part = "span" => Life!DrainsAllStep
       /\ part = "header" => Header!NoFalseCorruptionStep
       /\ part = "object" => Object!NoFalseCorruptionStep]_vars
=============================================================================
