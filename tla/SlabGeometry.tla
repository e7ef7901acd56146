---------------------------- MODULE SlabGeometry ----------------------------
(***************************************************************************)
(* The arithmetic every pointer goes through: the generator that turns a   *)
(* golden file into the size-class tables (tools/size-class-gen), the      *)
(* lookup of a request in them (size_class.rs, classify.rs), the layout of *)
(* a slab (slab.rs) and the classification of an address that a program    *)
(* hands back (ptr_class.rs).                                              *)
(*                                                                         *)
(* A behaviour generates tables from one candidate golden, lays out a span *)
(* of one class, and then the span changes state.  Requests and addresses  *)
(* are quantified over in the properties.  Address arithmetic is checked:  *)
(* a sum past Top is None.                                                 *)
(***************************************************************************)
EXTENDS Naturals, Sequences, FiniteSets

CONSTANTS Rows,       \* the class rows a golden may list
          Headers,    \* the rest of a golden: [page, quantum, tiny, small, huge]
          MaxClasses, \* bound: rows in a golden
          Bases,      \* span base addresses
          SlabHeader, \* slab_header
          Top,        \* usize::MAX
          None

VARIABLES golden,     \* the parsed golden file
          table,      \* the emitted tables, or None when validate refuses
          span        \* the span's geometry and state, or None

vars == <<golden, table, span>>

----------------------------------------------------------------------------
(* Checked arithmetic (overflow.rs).  None propagates, as `?` does.        *)

Checked(n) == IF n \in 0..Top THEN n ELSE None
AlignUp(n, a) ==
    IF n = None \/ n + a - 1 > Top THEN None ELSE ((n + a - 1) \div a) * a

IsPow2(n) == n \in {2 ^ k : k \in 0..8}
Least(S) == CHOOSE m \in S : \A n \in S : m <= n
Most(S) == CHOOSE m \in S : \A n \in S : n <= m

----------------------------------------------------------------------------
(* Table::validate: the checks on the golden, then the tables.             *)

\* The largest spacing a class may have over its predecessor, num / den.
Spacing(size) ==
    IF size <= 48 THEN <<2, 1>>
    ELSE IF size <= 128 THEN <<4, 3>>
    ELSE IF size <= 1024 THEN <<6, 5>> ELSE <<9, 8>>

HeaderOk(g) ==
    /\ g.page > 0 /\ IsPow2(g.quantum) /\ g.tiny > 0 /\ g.small > 0
    /\ g.small % g.quantum = 0
    /\ g.huge > g.small /\ g.huge % g.page = 0
    /\ Len(g.classes) \in 1..256
    /\ g.classes[1].size = g.tiny

RowOk(g, i) ==
    LET c == g.classes[i] IN
    /\ c.size > 0 /\ IsPow2(c.align)
    /\ c.size % c.align = 0 /\ c.align <= c.size
    /\ c.size % g.quantum = 0 /\ c.size >= g.tiny
    /\ c.pages > 0 /\ c.objects > 0
    /\ c.objects = (c.pages * g.page) \div c.size
    /\ c.batch \in 1..c.cap
    /\ i > 1 =>
        LET prev == g.classes[i - 1].size
            r == Spacing(c.size)
        IN c.size > prev /\ c.size * r[2] <= r[1] * prev

Granules(g) == 0..(g.small \div g.quantum - 1)

\* The first class that holds the granule's smallest size.
SizeToClass(g) ==
    [gr \in Granules(g) |->
        Least({i \in DOMAIN g.classes : g.classes[i].size >= gr * g.quantum + 1})]

\* The generator's own pass over every size.
LookupOk(g, stc) ==
    \A s \in 1..g.small :
        LET i == stc[(s - 1) \div g.quantum] IN
        /\ g.classes[i].size >= s
        /\ i > 1 => g.classes[i - 1].size < s

Validate(g) ==
    IF /\ HeaderOk(g)
       /\ \A i \in DOMAIN g.classes : RowOk(g, i)
       /\ g.small = g.classes[Len(g.classes)].size
       /\ LookupOk(g, SizeToClass(g))
    THEN [page |-> g.page, quantum |-> g.quantum, small |-> g.small,
          huge |-> g.huge, classes |-> g.classes, stc |-> SizeToClass(g),
          maxAlign |-> Most({g.classes[i].align : i \in DOMAIN g.classes})]
    ELSE None

----------------------------------------------------------------------------
(* size_class_in and classify.                                             *)

Granule(t, size) == (size - 1) \div t.quantum

\* align_walk: from the class of the size, up to the first aligned enough.
AlignWalk(t, start, align) ==
    LET up == {i \in start..Len(t.classes) : t.classes[i].align >= align}
    IN IF up = {} THEN None ELSE Least(up)

SizeClass(t, size, align) ==
    IF size = 0 \/ size > t.small \/ align > t.maxAlign THEN None
    ELSE LET gr == Granule(t, size)
         IN IF gr \in DOMAIN t.stc THEN AlignWalk(t, t.stc[gr], align) ELSE None

AtLeastOne(size) == IF size = 0 THEN 1 ELSE size
Larger(m, n) == IF m >= n THEN m ELSE n

ClassifyLarge(t, size, align) ==
    LET bytes == AlignUp(Larger(AtLeastOne(size), align), t.page)
    IN IF bytes = None THEN None
       ELSE [kind |-> IF Larger(AtLeastOne(size), align) >= t.huge
                      THEN "large" ELSE "medium",
             bytes |-> bytes]

Classify(t, size, align) ==
    IF ~IsPow2(align) THEN None
    ELSE LET sc == SizeClass(t, AtLeastOne(size), align)
         IN IF sc # None
            THEN [kind |-> "small", sc |-> sc, bytes |-> t.classes[sc].size]
            ELSE ClassifyLarge(t, size, align)

\* What the arena is charged for the request, and what the caller may use.
PredictedUsable(t, size, align) ==
    LET req == Classify(t, size, align)
    IN IF req = None THEN None
       ELSE IF req.kind = "small" THEN req.bytes
       ELSE AlignUp(AtLeastOne(size), t.page)

----------------------------------------------------------------------------
(* SlabLayout.                                                             *)

Fitting(c, room) == Least({room \div c.size, c.objects})

Layout(c, base, object0, end) ==
    IF object0 = None \/ end = None \/ object0 >= end \/ Fitting(c, end - object0) = 0
    THEN None
    ELSE [object0 |-> object0, size |-> c.size, align |-> c.align,
          count |-> Fitting(c, end - object0), base |-> base, end |-> end]

Compute(t, sc, base) ==
    LET c == t.classes[sc]
    IN Layout(c, base, AlignUp(Checked(base + SlabHeader), c.align),
              Checked(base + c.pages * t.page))

ObjectAddr(l, i) == IF i >= l.count THEN None ELSE Checked(l.object0 + i * l.size)

ObjectsEnd(l) == Checked(ObjectAddr(l, l.count - 1) + l.size)

IsValid(l) ==
    /\ l.size % l.align = 0 /\ l.object0 % l.align = 0 /\ l.object0 >= l.base
    /\ ObjectsEnd(l) # None /\ ObjectsEnd(l) <= l.end

AddrToIndex(l, addr) ==
    LET delta == addr - l.object0
    IN IF addr < l.object0 \/ delta \div l.size >= l.count \/ delta % l.size # 0
       THEN None ELSE delta \div l.size

----------------------------------------------------------------------------
(* classify_ptr and validate_free, on an address whose page is the span's. *)

Interior(base, offset) == [class |-> "interior", base |-> base, offset |-> offset]
Class(c) == [class |-> c]

\* Mutant: the bytes after the last object are not told apart.
ForgetsTheTail(l, addr, delta) ==
    IF delta % l.size = 0 THEN [class |-> "small", index |-> delta \div l.size]
    ELSE Interior(l.object0 + (delta \div l.size) * l.size, delta % l.size)

ClassifyObject(l, addr, delta) ==
    IF delta \div l.size >= l.count THEN Interior(l.base, addr - l.base)
    ELSE IF delta % l.size = 0
         THEN [class |-> "small", index |-> delta \div l.size]
         ELSE Interior(l.object0 + (delta \div l.size) * l.size, delta % l.size)

ClassifyInSpan(s, addr) ==
    IF s.state = "released" THEN Class("released")
    ELSE IF s.state = "quarantined" THEN Class("quarantined")
    ELSE IF addr < s.layout.base THEN Class("external")
    ELSE IF addr < s.layout.object0
         THEN Interior(s.layout.base, addr - s.layout.base)
    ELSE ClassifyObject(s.layout, addr, addr - s.layout.object0)

ClassifyInLarge(s, addr) ==
    IF s.state = "released" THEN Class("released")
    ELSE IF addr = s.layout.base THEN Class("large")
    ELSE Interior(s.layout.base, addr - s.layout.base)

Owned(s, addr) == addr \in s.layout.base..(s.layout.end - 1)

ClassifyPtr(s, addr) ==
    IF addr = 0 THEN Class("null")
    ELSE IF ~Owned(s, addr)
         THEN Class(IF addr \in s.meta THEN "metadata" ELSE "external")
    ELSE IF ~s.mapped THEN Class("released")
    ELSE IF s.kind = "large" THEN ClassifyInLarge(s, addr)
    ELSE ClassifyInSpan(s, addr)

ValidateFree(s, addr) ==
    LET p == ClassifyPtr(s, addr)
    IN CASE p.class = "null" -> [ok |-> "noop"]
         [] p.class = "small" -> [ok |-> "small", index |-> p.index]
         [] p.class = "large" -> [ok |-> "large"]
         [] p.class = "quarantined" -> [err |-> "double free"]
         [] p.class = "external" -> [err |-> "foreign"]
         [] OTHER -> [err |-> p.class]

----------------------------------------------------------------------------
(* A golden is read, its tables emitted, a span of a class laid out.       *)

Sequences(n) == UNION {[1..k -> Rows] : k \in 1..n}

Init ==
    /\ \E h \in Headers, cs \in Sequences(MaxClasses) :
          golden = [page |-> h.page, quantum |-> h.quantum, tiny |-> h.tiny,
                    small |-> h.small, huge |-> h.huge, classes |-> cs]
    /\ table = Validate(golden)
    /\ span = None

\* create_span: the layout of the class, in an active span of the page map.
CreateSpan(sc, base) ==
    /\ table # None /\ span = None
    /\ \E l \in {Compute(table, sc, base)} :
          /\ l # None
          /\ span' = [layout |-> l, state |-> "active", kind |-> "small", mapped |-> TRUE,
                      meta |-> (l.end + 1)..(l.end + 2)]
    /\ UNCHANGED <<golden, table>>

\* A large object of the class's slab bytes, for classify_in_large.
CreateLarge(sc, base) ==
    /\ table # None /\ span = None
    /\ \E end \in {Checked(base + table.classes[sc].pages * table.page)} :
          /\ end # None
          /\ span' = [layout |-> [object0 |-> base, size |-> end - base, align |-> 1,
                                  count |-> 1, base |-> base, end |-> end],
                      state |-> "active", kind |-> "large", mapped |-> TRUE,
                      meta |-> (end + 1)..(end + 2)]
    /\ UNCHANGED <<golden, table>>

\* set_state, mark_quarantined and release_span's page-map entries.
Change ==
    /\ span # None /\ span.state = "active" /\ span.mapped
    /\ \/ span' = [span EXCEPT !.state = "released"]
       \/ span.kind = "small" /\ span' = [span EXCEPT !.state = "quarantined"]
       \/ span' = [span EXCEPT !.mapped = FALSE]
    /\ UNCHANGED <<golden, table>>

Next ==
    \/ \E base \in Bases :
          /\ table # None
          /\ \E sc \in DOMAIN table.classes : CreateSpan(sc, base) \/ CreateLarge(sc, base)
    \/ Change

----------------------------------------------------------------------------
(* Properties.                                                             *)

Sizes == 0..(2 * golden.huge)
Aligns == {1, 2, 4, 8, 16, 32}

\* What TypeOK would say of the tables: size_to_class is total on the
\* granules and names classes, and every laid-out slab passes is_valid.
TypeOK ==
    /\ table # None => table.stc \in [Granules(golden) -> DOMAIN table.classes]
    /\ span # None /\ span.kind = "small" => IsValid(span.layout)

\* Whatever golden the generator accepts, the granule lookup and the walk
\* of size_class_in answer the smallest class that is large enough and
\* aligned enough, and None exactly when no class is.
LeastClass ==
    table # None =>
        \A size \in 1..(table.small + table.quantum), align \in Aligns :
            LET fits == {i \in DOMAIN table.classes :
                            /\ table.classes[i].size >= size
                            /\ table.classes[i].align >= align}
            IN SizeClass(table, size, align) =
                   IF fits = {} THEN None ELSE Least(fits)

\* classify routes every power-of-two alignment, and the usable bytes it
\* predicts hold the request: a small object is the class's, a page-backed
\* one is whole pages and its extent holds size and alignment both.
UsableHoldsRequest ==
    table # None =>
        \A size \in Sizes, align \in Aligns :
            LET req == Classify(table, size, align) IN
            req # None =>
                /\ PredictedUsable(table, size, align) >= AtLeastOne(size)
                /\ req.bytes >= PredictedUsable(table, size, align)
                /\ req.kind = "small" => table.classes[req.sc].align >= align
                /\ req.kind # "small" => req.bytes >= align /\ req.bytes % table.page = 0
                /\ req.kind = "medium" => req.bytes <= table.huge

\* The objects of a laid-out slab are aligned, lie inside the slab, do not
\* overlap, and addr_to_index is the inverse of object_addr.
ObjectsTileSlab ==
    span # None =>
        LET l == span.layout IN
        /\ \A i \in 0..(l.count - 1) :
              /\ ObjectAddr(l, i) % l.align = 0
              /\ ObjectAddr(l, i) >= l.base + (IF span.kind = "large" THEN 0 ELSE SlabHeader)
              /\ ObjectAddr(l, i) + l.size <= l.end
              /\ \A j \in 0..(i - 1) : ObjectAddr(l, j) + l.size <= ObjectAddr(l, i)
        /\ \A a \in l.base..(l.end - 1) :
              AddrToIndex(l, a) =
                 (IF \E i \in 0..(l.count - 1) : ObjectAddr(l, i) = a
                  THEN CHOOSE i \in 0..(l.count - 1) : ObjectAddr(l, i) = a ELSE None)

\* validate_free accepts an address exactly when it is the base of an
\* object of a live span or large object; an address inside an object is
\* reported with that object's base and the distance from it.
FreesOnlyBases ==
    span # None =>
        LET l == span.layout
            live == span.state = "active" /\ span.mapped
            bases == {ObjectAddr(l, i) : i \in 0..(l.count - 1)}
        IN \A a \in 1..Top :
            /\ ("ok" \in DOMAIN ValidateFree(span, a)) <=> (live /\ a \in bases)
            /\ live /\ (\E b \in bases : a \in (b + 1)..(b + l.size - 1)) =>
                  /\ ClassifyPtr(span, a).class = "interior"
                  /\ ClassifyPtr(span, a).base + ClassifyPtr(span, a).offset = a
                  /\ ClassifyPtr(span, a).base \in bases
=============================================================================
