------------------------------ MODULE PageMap ------------------------------
(***************************************************************************)
(* The page map (pagemap.rs): a radix tree from page numbers to the        *)
(* descriptor that owns the page.  Owners publish and retire ranges of     *)
(* pages that are theirs alone; lookups walk the tree at any time without  *)
(* a lock; nodes are created on demand by whoever needs one first and are  *)
(* never removed.                                                          *)
(*                                                                         *)
(* A node is named by its level and its page-number prefix.  Its version   *)
(* counts the blocks that were linked there: 0 is a null pointer, and an   *)
(* entry belongs to one block of a leaf.  A walk loads one pointer a step. *)
(* A store of an entry is one step with the walk to its leaf: links do not *)
(* change once they are set, and the page is the storing owner's.          *)
(***************************************************************************)
EXTENDS Naturals, FiniteSets

CONSTANTS Threads,
          Levels,      \* LEVELS
          Slots,       \* SLOTS of a node
          Ranges,      \* the page ranges <<first, last>> owners publish
          Empty,       \* TAG_EMPTY
          MaxBlocks,   \* bound: blocks linked at one node
          MaxInstalls  \* bound: ranges published

VARIABLES version,     \* node -> the block linked there
          entry,       \* page -> block of its leaf -> entry
          owner,       \* page -> the range that owns it, or Empty (ghost)
          shown,       \* page -> the last entry stored for it (ghost)
          th,          \* thread -> its operation
          installs

vars == <<version, entry, owner, shown, th, installs>>

Pages == 0..(Slots ^ Levels - 1)
Node(k, p) == <<k, p \div Slots ^ k>>
Nodes == UNION {{Node(k, p) : p \in Pages} : k \in 1..Levels}
PageRange(r) == r[1]..r[2]
Small(r) == [tag |-> "small", range |-> r]
Released(r) == [tag |-> "released", range |-> r]
Entries == {Empty} \cup {Small(r) : r \in Ranges} \cup {Released(r) : r \in Ranges}

Idle == [pc |-> "idle"]

Init ==
    /\ version = [n \in Nodes |-> 0]
    /\ entry = [p \in Pages |-> [b \in 1..MaxBlocks |-> Empty]]
    /\ owner = [p \in Pages |-> Empty]
    /\ shown = [p \in Pages |-> Empty]
    /\ th = [t \in Threads |-> Idle]
    /\ installs = 0

Goto(t, l) == th' = [th EXCEPT ![t] = l]
At(t, pc) == th[t].pc = pc

\* find_leaf in one step: the block of p's leaf, 0 if some link is missing.
FindLeaf(p) ==
    IF \E k \in 1..Levels : version[Node(k, p)] = 0 THEN 0
    ELSE version[Node(1, p)]

----------------------------------------------------------------------------
(* publish_range.                                                          *)

\* The caller's range is its own: no other owner has a page of it.
Install(t, r) ==
    /\ At(t, "idle") /\ installs < MaxInstalls
    /\ \A p \in PageRange(r) : owner[p] = Empty
    /\ owner' = [p \in Pages |-> IF p \in PageRange(r) THEN r ELSE owner[p]]
    /\ installs' = installs + 1
    /\ Goto(t, [pc |-> "probe", range |-> r, page |-> r[1], level |-> Levels])
    /\ UNCHANGED <<version, entry, shown>>

\* Phase 1, leaf_or_create: the next page or level once the node is there.
Onward(l) ==
    IF l.level > 1 THEN [l EXCEPT !.pc = "probe", !.level = @ - 1]
    ELSE IF l.page < l.range[2]
         THEN [l EXCEPT !.pc = "probe", !.level = Levels, !.page = @ + 1]
         ELSE [l EXCEPT !.pc = "store", !.page = l.range[1]]

Probe(t) ==
    /\ At(t, "probe")
    /\ Goto(t, IF version[Node(th[t].level, th[t].page)] # 0
               THEN Onward(th[t]) ELSE [th[t] EXCEPT !.pc = "create"])
    /\ UNCHANGED <<version, entry, owner, shown, installs>>

\* Mutant: the new block is stored without a compare-and-exchange.
LinksBlindly(n) == version[n] + 1

\* The link after the compare-and-exchange with null: a loser adopts the
\* winner's block and its own is lost to the metadata arena.
Linked(n) == IF version[n] = 0 THEN 1 ELSE version[n]

\* child_or_create and root_or_create: a zeroed block, then the exchange.
Create(t) ==
    /\ At(t, "create")
    /\ LET n == Node(th[t].level, th[t].page) IN
       /\ Linked(n) <= MaxBlocks
       /\ version' = [version EXCEPT ![n] = Linked(n)]
    /\ Goto(t, Onward(th[t]))
    /\ UNCHANGED <<entry, owner, shown, installs>>

\* OutOfMetadata: no entry has been stored; the nodes made so far stay.
CreateFails(t) ==
    /\ At(t, "create")
    /\ owner' = [p \in Pages |->
                   IF p \in PageRange(th[t].range) THEN Empty ELSE owner[p]]
    /\ Goto(t, Idle)
    /\ UNCHANGED <<version, entry, shown, installs>>

\* What every lookup of page p now under way may have seen.
Saw(p, e) ==
    [t \in Threads |-> IF th[t].pc = "look" /\ th[t].page = p
                       THEN [th[t] EXCEPT !.hist = @ \cup {e}] ELSE th[t]]

Stored(p, e) ==
    IF FindLeaf(p) = 0 THEN entry ELSE [entry EXCEPT ![p][FindLeaf(p)] = e]

Last(l) == l.page >= l.range[2]

\* Phase 2: the entries, one page a step; an entry of another owner is kept.
Publish(t) ==
    /\ At(t, "store")
    /\ LET p == th[t].page
           prior == entry[p][FindLeaf(p)]
           e == Small(th[t].range)
           kept == IF prior \in {Empty, e} THEN e ELSE prior
       IN /\ entry' = Stored(p, kept)
          /\ shown' = [shown EXCEPT ![p] = e]
          /\ th' = [Saw(p, e) EXCEPT ![t] =
                IF Last(th[t]) THEN Idle ELSE [th[t] EXCEPT !.page = @ + 1]]
    /\ UNCHANGED <<version, owner, installs>>

----------------------------------------------------------------------------
(* release_span and retire_span: overwrite_existing_range, twice for a     *)
(* span (Released, then Empty), once for a large object or a tail.         *)

Free(t, r, twice) ==
    /\ At(t, "idle")
    /\ \A p \in PageRange(r) : owner[p] = r /\ shown[p] = Small(r)
    /\ \A u \in Threads : th[u].pc = "overwrite" => th[u].range # r
    /\ Goto(t, [pc |-> "overwrite", range |-> r, page |-> r[1],
                with |-> IF twice THEN Released(r) ELSE Empty])
    /\ UNCHANGED <<version, entry, owner, shown, installs>>

LastPass(l) == l.with = Empty

\* After the last page of the last pass the pages are no one's.
Overwrite(t) ==
    /\ At(t, "overwrite")
    /\ LET p == th[t].page
           e == th[t].with
           r == th[t].range
       IN /\ entry' = Stored(p, e)
          /\ shown' = [shown EXCEPT ![p] = e]
          /\ th' = [Saw(p, e) EXCEPT ![t] =
                IF ~Last(th[t]) THEN [th[t] EXCEPT !.page = @ + 1]
                ELSE IF LastPass(th[t]) THEN Idle
                ELSE [th[t] EXCEPT !.page = r[1], !.with = Empty]]
          /\ owner' = IF Last(th[t]) /\ LastPass(th[t])
                      THEN [x \in Pages |->
                              IF x \in PageRange(r) THEN Empty ELSE owner[x]]
                      ELSE owner
    /\ UNCHANGED <<version, installs>>

----------------------------------------------------------------------------
(* lookup.                                                                 *)

Lookup(t, p) ==
    /\ At(t, "idle")
    /\ Goto(t, [pc |-> "look", page |-> p, level |-> Levels, block |-> 0,
                hist |-> {shown[p]}])
    /\ UNCHANGED <<version, entry, owner, shown, installs>>

Answer(t, e) ==
    Goto(t, [pc |-> "found", page |-> th[t].page, is |-> e, hist |-> th[t].hist])

Walk(t) ==
    /\ At(t, "look") /\ th[t].level > 0
    /\ LET b == version[Node(th[t].level, th[t].page)] IN
       IF b = 0 THEN Answer(t, Empty)
       ELSE Goto(t, [th[t] EXCEPT !.level = @ - 1, !.block = b])
    /\ UNCHANGED <<version, entry, owner, shown, installs>>

LoadEntry(t) ==
    /\ At(t, "look") /\ th[t].level = 0
    /\ Answer(t, entry[th[t].page][th[t].block])
    /\ UNCHANGED <<version, entry, owner, shown, installs>>

Return(t) ==
    /\ At(t, "found")
    /\ Goto(t, Idle)
    /\ UNCHANGED <<version, entry, owner, shown, installs>>

----------------------------------------------------------------------------

Step(t) ==
    \/ \E r \in Ranges : Install(t, r)
    \/ Probe(t) \/ Create(t) \/ CreateFails(t) \/ Publish(t)
    \/ \E r \in Ranges : Free(t, r, TRUE) \/ Free(t, r, FALSE)
    \/ Overwrite(t)
    \/ \E p \in UNION {PageRange(r) : r \in Ranges} : Lookup(t, p)
    \/ Walk(t) \/ LoadEntry(t) \/ Return(t)

Next == \E t \in Threads : Step(t)

Spec == Init /\ [][Next]_vars

----------------------------------------------------------------------------
(* Properties.                                                             *)

Entry(p) == IF FindLeaf(p) = 0 THEN Empty ELSE entry[p][FindLeaf(p)]

TypeOK ==
    /\ version \in [Nodes -> 0..MaxBlocks]
    /\ \A p \in Pages : Entry(p) \in Entries

\* What the tree holds for a page is what was stored for it last, whatever
\* nodes were created around it: no exchange for a node drops a subtree.
TreeHoldsStores == \A p \in Pages : Entry(p) = shown[p]

\* A lookup answers an entry that the page had at some time during the lookup:
\* the walk is atomic for its caller although it runs beside publishers.
LookupsLinearize ==
    \A t \in Threads : At(t, "found") => th[t].is \in th[t].hist

\* The descriptor that an entry names covers the entry's page (entry_agrees).
EntryAgrees(p, e) == p \in PageRange(e.range)

\* check_invariants: the walk of the whole tree.
CheckInvariants ==
    \A p \in Pages : Entry(p) # Empty => EntryAgrees(p, Entry(p))

\* P-Map-001: the oracle accepts the tree at every instant, and a page's entry
\* names the range that owns the page: a range whose publication failed, or
\* that was retired, is named by no page.
EntriesOwned ==
    /\ CheckInvariants
    /\ \A p \in Pages : Entry(p) # Empty =>
          owner[p] # Empty /\ Entry(p).range = owner[p]

\* A range is published whole: outside publish_range and the retirements
\* every page an owner has carries its entry.
PublishedWhole ==
    \A r \in Ranges :
        (/\ \A p \in PageRange(r) : owner[p] = r
         /\ \A t \in Threads : th[t].pc \in {"probe", "create", "store",
                                             "overwrite"} => th[t].range # r)
        => \A p \in PageRange(r) : Entry(p) = Small(r)
=============================================================================
