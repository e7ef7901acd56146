-------------------------------- MODULE CApi --------------------------------
(***************************************************************************)
(* The C entry points: the standard allocation functions (c_api.rs), the   *)
(* flag-word functions (extended.rs, flags.rs) and the arena-handle ones   *)
(* (arena_api.rs), as one caller makes them one after the other.  The      *)
(* engine below them is what a call may answer: an object that serves the  *)
(* request, or nothing; and it may leave any value in errno.               *)
(*                                                                         *)
(* A flag word is a number with bit fields, decoded into a second, smaller *)
(* word.  A request is what the caller meant: [lg, zero, bypass, guarded,  *)
(* avoid, prefer, life, hot, arena], arena None when none is named.        *)
(***************************************************************************)
EXTENDS Integers, FiniteSets, FiniteSetsExt

CONSTANTS Ids,        \* objects
          Classes,    \* the small classes: [size, align]
          MinAlign,   \* MIN_ALIGN
          PtrSize,    \* size_of::<*mut c_void>()
          Page,       \* PAGE_SIZE
          Top,        \* usize::MAX
          UsizeBits,  \* usize::BITS
          LgBits, HotBits, ArenaBits, \* widths of fields of the flag word
          MaxArena,   \* MAX_ARENA_ID
          MaxGen,     \* bound: incarnations of an arena id
          Works,      \* what the caller does: [ops, sizes, aligns, asks, decodes, max]
          Foreign, None

VARIABLES does, up, policy, sampling, arenas, objs, last, calls

vars == <<does, up, policy, sampling, arenas, objs, last, calls>>

Null == [null |-> TRUE]

----------------------------------------------------------------------------
(* Numbers: overflow.rs, classify.rs and the usable size of a request.     *)

IsPow2(n) == n \in {2 ^ k : k \in 0..UsizeBits}
Larger(m, n) == IF m >= n THEN m ELSE n
AlignUp(n, a) == IF n + a - 1 > Top THEN None ELSE ((n + a - 1) \div a) * a
ArrayBytes(n, size) == IF n * size > Top THEN None ELSE n * size

Classify(size, align) ==
    LET fits == {c \in Classes : c.size >= Larger(size, 1) /\ c.align >= align}
        bytes == AlignUp(Larger(Larger(size, 1), align), Page)
    IN IF ~IsPow2(align) THEN None
       ELSE IF fits # {}
       THEN [kind |-> "small", bytes |-> Min({c.size : c \in fits})]
       ELSE IF bytes = None THEN None ELSE [kind |-> "large", bytes |-> bytes]

MediumLargeUsable(size) == AlignUp(Larger(size, 1), Page)

PredictedUsable(size, align, guarded) ==
    LET req == Classify(size, align)
    IN IF req = None THEN None
       ELSE IF guarded /\ align <= Page THEN AlignUp(Larger(size, 1), align)
       ELSE IF req.kind = "small" THEN req.bytes ELSE MediumLargeUsable(size)

----------------------------------------------------------------------------
(* Flag words.  Field positions follow from the widths; the word has one   *)
(* reserved bit above them (the code has eleven).                          *)

Field(word, shift, width) == (word \div (2 ^ shift)) % (2 ^ width)
Bit(word, shift) == Field(word, shift, 1) = 1
Flag(b, shift) == IF b THEN 2 ^ shift ELSE 0

ZeroAt == LgBits
BypassAt == ZeroAt + 1
GuardedAt == BypassAt + 1
AvoidAt == GuardedAt + 1
PreferAt == AvoidAt + 1
LifeAt == PreferAt + 1
HotAt == LifeAt + 2
ArenaAt == HotAt + HotBits
ReservedAt == ArenaAt + ArenaBits

\* The caller's macros: TOPO_ALIGN_LG saturates into a reserved bit, and the
\* largest arena id carries into one.
TopoAlignLg(la) == IF la < 2 ^ LgBits THEN la ELSE 2 ^ ReservedAt
TopoHot(h) == h * 2 ^ HotAt
TopoArena(id) == (id + 1) * 2 ^ ArenaAt

Word(r) ==
    TopoAlignLg(r.lg) + Flag(r.zero, ZeroAt) + Flag(r.bypass, BypassAt)
        + Flag(r.guarded, GuardedAt) + Flag(r.avoid, AvoidAt)
        + Flag(r.prefer, PreferAt) + r.life * 2 ^ LifeAt + TopoHot(r.hot)
        + (IF r.arena = None THEN 0 ELSE TopoArena(r.arena))

\* RequestFlags: the engine's word, whose arena field is narrower.
InLifeAt == 5
InHotAt == 7
InArenaAt == InHotAt + HotBits

\* with_arena: the id is stored plus one, and refused when it cannot be.
WithArena(id) == (id + 1) * 2 ^ InArenaAt

Hints(f) ==
    [zero |-> Bit(f, 0), bypass |-> Bit(f, 1), guarded |-> Bit(f, 2),
     avoid |-> Bit(f, 3), prefer |-> Bit(f, 4),
     life |-> Field(f, InLifeAt, 2), hot |-> Field(f, InHotAt, HotBits)]
FlagsArena(f) ==
    LET v == f \div (2 ^ InArenaAt) IN IF v = 0 THEN 0 ELSE v - 1

DecodeFlags(word) ==
    LET la == Field(word, 0, LgBits)
        arena == Field(word, ArenaAt, ArenaBits)
    IN IF \/ word >= 2 ^ ReservedAt
          \/ la >= UsizeBits
          \/ Bit(word, AvoidAt) /\ Bit(word, PreferAt)
          \/ arena # 0 /\ arena - 1 > MaxArena
       THEN None
       ELSE [align |-> 2 ^ la,
             flags |-> Flag(Bit(word, ZeroAt), 0) + Flag(Bit(word, BypassAt), 1)
                        + Flag(Bit(word, GuardedAt), 2) + Flag(Bit(word, AvoidAt), 3)
                        + Flag(Bit(word, PreferAt), 4)
                        + Field(word, LifeAt, 2) * 2 ^ InLifeAt
                        + Field(word, HotAt, HotBits) * 2 ^ InHotAt
                        + (IF arena = 0 THEN 0 ELSE WithArena(arena - 1))]

----------------------------------------------------------------------------
(* The engine, as the entry points use it.                                 *)

Arenas == 0..MaxArena
Active(a) == a \in Arenas /\ arenas[a].state = "active"
Admits(a) == Active(a) /\ arenas[a].alloc

\* want_guarded: asked for, or sampled.
Guards(f, align) ==
    IF align > Page THEN {FALSE}
    ELSE IF Hints(f).guarded THEN {TRUE}
    ELSE IF sampling THEN BOOLEAN ELSE {FALSE}

Object(size, align, f, a, guarded) ==
    LET req == Classify(size, align) IN
    [arena |-> a, gen |-> arenas[a].gen, guarded |-> guarded,
     large |-> guarded \/ req.kind = "large",
     usable |-> IF guarded THEN AlignUp(Larger(size, 1), align)
                ELSE IF req.kind = "small" THEN req.bytes ELSE MediumLargeUsable(size),
     asked |-> size, align |-> align, zero |-> Hints(f).zero,
     bypass |-> Hints(f).bypass]

AllocateIn(a, size, align, f) ==
    {Null} \cup
        (IF up /\ Admits(a) /\ Classify(size, align) # None
         THEN {Object(size, align, f, a, g) : g \in Guards(f, align)}
         ELSE {})

\* Whether the object's base may have the alignment: always what it was
\* placed with, and more by chance.
BaseMeets(obj, align) == IF obj.align % align = 0 THEN {TRUE} ELSE BOOLEAN

\* apply_inplace_large_resize: a guarded object keeps its extent; the others
\* shrink or grow to the rounded size, or stay.
InPlace(obj, size) ==
    LET rounded == MediumLargeUsable(size)
        stays == [obj EXCEPT !.asked = IF rounded <= obj.usable THEN size ELSE @]
    IN IF rounded = None THEN {}
       ELSE {stays} \cup
            (IF obj.guarded \/ (rounded > obj.usable /\ ~Admits(obj.arena)) THEN {}
             ELSE {[obj EXCEPT !.asked = size, !.usable = rounded]})

\* Allocator::realloc: in place when the storage serves the new size, else a
\* new object in the old one's arena.
EngineRealloc(obj, size, align, f, meets) ==
    LET req == Classify(size, align)
        same == IF req = None \/ ~meets \/ obj.large = (req.kind = "small") THEN {}
                ELSE IF obj.large
                THEN {o \in InPlace(obj, size) : o.usable >= MediumLargeUsable(size)}
                ELSE IF req.bytes = obj.usable THEN {[obj EXCEPT !.asked = size]}
                ELSE {}
        stay == {[o EXCEPT !.align = Larger(@, align)] : o \in same}
        falls == IF stay = {} THEN TRUE
                 ELSE obj.large /\ MediumLargeUsable(size) > obj.usable
    IN stay \cup (IF falls THEN AllocateIn(obj.arena, size, Larger(align, MinAlign), f)
                  ELSE {})

----------------------------------------------------------------------------
(* errno (errno_shim.rs).  "mine" is the caller's value; the engine's own  *)
(* system calls may leave "sys".                                           *)

Seen == {"mine", "sys"}

AllocProtocol(res, seen) == IF res = Null THEN "ENOMEM" ELSE "mine"
PreservingErrno(seen) == "mine"

----------------------------------------------------------------------------
(* The caller.  `last` is the call that returned last: what was asked, the *)
(* object it was given, its result and errno.                              *)

NoFlags == 0
Does(op) == op \in does.ops /\ calls < does.max /\ last.fn # "abort"
Live == {o \in Ids : objs[o] # None}
Fresh == CHOOSE o \in Ids : o \notin Live

NoCall == [fn |-> "none", size |-> 0, ask |-> None, old |-> None, res |-> Null, errno |-> "mine"]

Return(fn, size, ask, old, res, errno) ==
    /\ last' = [fn |-> fn, size |-> size, ask |-> ask, old |-> old,
                res |-> res, errno |-> errno]
    /\ calls' = calls + 1
    /\ UNCHANGED <<does, up, policy, sampling>>

Refuse(fn, size, ask, old, errno) ==
    Return(fn, size, ask, old, Null, errno) /\ UNCHANGED <<arenas, objs>>

\* An allocation that reached the engine, under alloc_protocol.
Served(fn, size, ask, a, bytes, align, f, hint) ==
    \E res \in AllocateIn(a, bytes, align, f), seen \in Seen :
        /\ res # Null => Live # Ids
        /\ objs' = IF res = Null THEN objs
                   ELSE [objs EXCEPT ![Fresh] = [o |-> res, hint |-> hint]]
        /\ Return(fn, size, ask, None, res, AllocProtocol(res, seen))
        /\ UNCHANGED arenas

ZeroSizeGate(size) == size = 0 /\ policy = "null"

Malloc(size) ==
    /\ Does("malloc")
    /\ IF ZeroSizeGate(size) THEN Refuse("malloc", size, None, None, "mine")
       ELSE Served("malloc", size, None, 0, size, MinAlign, NoFlags, 1)

Calloc(n, size) ==
    LET total == ArrayBytes(n, size) IN
    /\ Does("calloc")
    /\ IF total = None THEN Refuse("calloc", n, None, None, "ENOMEM")
       ELSE IF ZeroSizeGate(total) THEN Refuse("calloc", 0, None, None, "mine")
       ELSE Served("calloc", total, None, 0, total, MinAlign, 1, 1)

AlignedAlloc(align, size) ==
    /\ Does("aligned")
    /\ IF ~IsPow2(align) THEN Refuse("aligned", size, None, None, "EINVAL")
       ELSE IF size % align # 0 THEN Refuse("aligned", size, None, None, "EINVAL")
       ELSE IF ZeroSizeGate(size) THEN Refuse("aligned", size, None, None, "mine")
       ELSE Served("aligned", size, None, 0, size, Larger(align, MinAlign), NoFlags, align)

Memalign(align, size) ==
    /\ Does("aligned")
    /\ IF ~IsPow2(align) THEN Refuse("memalign", size, None, None, "EINVAL")
       ELSE IF ZeroSizeGate(size) THEN Refuse("memalign", size, None, None, "mine")
       ELSE Served("memalign", size, None, 0, size, Larger(align, MinAlign), NoFlags, align)

Valloc(size) ==
    /\ Does("aligned")
    /\ IF ZeroSizeGate(size) THEN Refuse("valloc", size, None, None, "mine")
       ELSE Served("valloc", size, None, 0, size, Larger(Page, MinAlign), NoFlags, Page)

Pvalloc(size) ==
    LET rounded == AlignUp(Larger(size, 1), Page) IN
    /\ Does("aligned")
    /\ IF rounded = None THEN Refuse("pvalloc", size, None, None, "ENOMEM")
       ELSE Served("pvalloc", size, None, 0, rounded, Larger(Page, MinAlign), NoFlags, Page)

\* posix_memalign returns its error and leaves errno alone; *memptr is `res`.
PosixMemalign(align, size) ==
    /\ Does("aligned")
    /\ IF ~IsPow2(align) THEN Refuse("posix_memalign", size, "EINVAL", None, PreservingErrno("mine"))
       ELSE IF align % PtrSize # 0
       THEN Refuse("posix_memalign", size, "EINVAL", None, PreservingErrno("mine"))
       ELSE IF ZeroSizeGate(size)
       THEN Refuse("posix_memalign", size, "ok", None, PreservingErrno("mine"))
       ELSE \E res \in AllocateIn(0, size, Larger(align, MinAlign), NoFlags), seen \in Seen :
                /\ res # Null => Live # Ids
                /\ objs' = IF res = Null THEN objs
                           ELSE [objs EXCEPT ![Fresh] = [o |-> res, hint |-> align]]
                /\ Return("posix_memalign", size, IF res = Null THEN "ENOMEM" ELSE "ok",
                          None, res, PreservingErrno(seen))
                /\ UNCHANGED arenas

\* A resize that reached the engine, under alloc_protocol.
Resized(fn, o, size, ask, align, f) ==
    LET obj == objs[o].o IN
    \E meets \in BaseMeets(obj, align), seen \in Seen :
        \E res \in EngineRealloc(obj, size, align, f, meets) :
            /\ objs' = IF res = Null THEN objs
                       ELSE [objs EXCEPT ![o] = [o |-> res, hint |-> align]]
            /\ Return(fn, size, ask, [id |-> o, was |-> objs[o]], res, AllocProtocol(res, seen))
            /\ UNCHANGED arenas

\* free_with_flag: what the engine makes of the pointer is not reported.
FreeWith(fn, o) ==
    /\ objs' = IF up /\ o \in Live THEN [objs EXCEPT ![o] = None] ELSE objs
    /\ Return(fn, 0, None, None, Null, PreservingErrno("sys"))
    /\ UNCHANGED arenas

\* A pointer argument: an object, a foreign address, or none.
Ptrs == Live \cup {Foreign}

Realloc(o, size) ==
    /\ Does("realloc")
    /\ IF size = 0 THEN FreeWith("realloc", o)
       ELSE IF ~up THEN Refuse("realloc", size, None, None, "ENOMEM")
       ELSE IF o \notin Live THEN Refuse("realloc", size, None, None, "EINVAL")
       ELSE Resized("realloc", o, size, None, MinAlign, NoFlags)

Reallocarray(o, n, size) ==
    LET total == ArrayBytes(n, size) IN
    IF total = None
    THEN Does("realloc") /\ Refuse("realloc", n, None,
             IF o \in Live THEN [id |-> o, was |-> objs[o]] ELSE None, "ENOMEM")
    ELSE Realloc(o, total)

Free(o) == Does("free") /\ FreeWith("free", o)

UsableSize(o) ==
    /\ Does("free")
    /\ Return("usable_size", 0, None, None,
              IF up /\ o \in Live THEN [n |-> objs[o].o.usable] ELSE [n |-> 0],
              PreservingErrno("sys"))
    /\ UNCHANGED <<arenas, objs>>

----------------------------------------------------------------------------
(* Sized frees.                                                            *)

SizedHintMatches(obj, size, align) ==
    LET req == Classify(size, align)
    IN req # None /\ IF req.kind = "small" THEN req.bytes = obj.usable
                     ELSE MediumLargeUsable(size) <= obj.usable

\* free_sized_common in a build with the checks, given the truth: the size
\* and the alignment the object was asked for with (an extent that xallocx
\* resized has no such size, and its hint is 0).  A failed assertion ends the
\* program.
FreeSizedCommon(fn, o, align) ==
    IF o \in Live /\ up
        /\ ~(SizedHintMatches(objs[o].o, objs[o].o.asked, align)
             /\ (align > 1 => objs[o].o.align % align = 0))
    THEN /\ Return("abort", 0, None, [id |-> o, was |-> objs[o]], Null, "mine")
         /\ UNCHANGED <<arenas, objs>>
    ELSE FreeWith(fn, o)

FreeSized(o) ==
    /\ Does("sized")
    /\ (o \in Live => objs[o].hint = 1)
    /\ FreeSizedCommon("free_sized", o, 1)

Sized(o) == o \in Live => objs[o].hint # 0

FreeAlignedSized(o) ==
    /\ Does("sized") /\ Sized(o)
    /\ FreeSizedCommon("free_aligned_sized", o, IF o \in Live THEN objs[o].hint ELSE 1)

----------------------------------------------------------------------------
(* The flag-word entry points, given the request the caller means.         *)

ArenaRoutable(a) == a = 0 \/ (up /\ Active(a))

AllocRouting(a) ==
    IF a = 0 THEN "ok"
    ELSE IF ~(up /\ Active(a)) THEN "EINVAL"
    ELSE IF arenas[a].alloc THEN "ok" ELSE "EACCES"

Mallocx(size, r) ==
    LET d == DecodeFlags(Word(r)) IN
    /\ Does("mallocx")
    /\ IF d = None THEN Refuse("mallocx", size, r, None, "EINVAL")
       ELSE IF AllocRouting(FlagsArena(d.flags)) # "ok"
       THEN Refuse("mallocx", size, r, None, AllocRouting(FlagsArena(d.flags)))
       ELSE IF ZeroSizeGate(size) THEN Refuse("mallocx", size, r, None, "mine")
       ELSE Served("mallocx", size, r, FlagsArena(d.flags), size,
                   Larger(d.align, MinAlign), d.flags, d.align)

Rallocx(o, size, r) ==
    LET d == DecodeFlags(Word(r))
        old == IF o \in Live THEN [id |-> o, was |-> objs[o]] ELSE None
    IN /\ Does("rallocx")
       /\ IF d = None THEN Refuse("rallocx", size, r, old, "EINVAL")
          ELSE IF ~ArenaRoutable(FlagsArena(d.flags)) THEN Refuse("rallocx", size, r, old, "EINVAL")
          ELSE IF size = 0 THEN FreeWith("rallocx", o)
          ELSE IF ~up THEN Refuse("rallocx", size, r, old, "ENOMEM")
          ELSE IF o \notin Live THEN Refuse("rallocx", size, r, None, "EINVAL")
          ELSE Resized("rallocx", o, size, r, Larger(d.align, MinAlign), d.flags)

Xallocx(o, size, r) ==
    LET d == DecodeFlags(Word(r))
        fails == Return("xallocx", size, r, None, [n |-> 0], "EINVAL") /\ UNCHANGED <<arenas, objs>>
    IN /\ Does("xallocx")
       /\ IF d = None THEN fails
          ELSE IF ~ArenaRoutable(FlagsArena(d.flags)) \/ ~up \/ o \notin Live THEN fails
          ELSE \E meets \in BaseMeets(objs[o].o, d.align) :
                LET obj == objs[o].o
                    after == IF ~obj.large THEN {obj} ELSE InPlace(obj, size)
                IN IF ~meets \/ after = {} THEN fails
                   ELSE \E res \in after :
                        /\ objs' = [objs EXCEPT ![o].o = res, ![o].hint = IF obj.large THEN 0 ELSE @]
                        /\ Return("xallocx", size, r, None, [n |-> res.usable],
                                  PreservingErrno("sys"))
                        /\ UNCHANGED arenas

Dallocx(o, r) ==
    Does("dallocx") /\ DecodeFlags(Word(r)) # None /\ FreeWith("dallocx", o)

\* topo_sdallocx with the alignment the object was asked for with.
Sdallocx(o) ==
    Does("sized") /\ Sized(o) /\ FreeSizedCommon("sdallocx", o, IF o \in Live THEN objs[o].hint ELSE 1)

NallocxOf(size, r) ==
    LET d == DecodeFlags(Word(r)) IN
    IF d = None THEN 0
    ELSE IF AllocRouting(FlagsArena(d.flags)) # "ok" \/ ZeroSizeGate(size) THEN 0
    ELSE LET n == PredictedUsable(size, Larger(d.align, MinAlign), Hints(d.flags).guarded)
         IN IF n = None THEN 0 ELSE n

Nallocx(size, r) ==
    /\ Does("nallocx")
    /\ Return("nallocx", size, r, None, [n |-> NallocxOf(size, r)], "mine")
    /\ UNCHANGED <<arenas, objs>>

----------------------------------------------------------------------------
(* Arenas: create, destroy, and allocation through a handle, which packs   *)
(* the id and the incarnation.  A destroy may leave the arena quarantined. *)

ArenaCreate(alloc) ==
    /\ Does("arena")
    /\ \/ /\ up
          /\ \E a \in Arenas \ {0} :
                /\ arenas[a].state = "none" /\ arenas[a].gen < MaxGen
                /\ \A b \in 1..(a - 1) : arenas[b].state # "none" \/ arenas[b].gen = MaxGen
                /\ arenas' = [arenas EXCEPT ![a] = [state |-> "active", alloc |-> alloc,
                                                    gen |-> @.gen + 1]]
          /\ Return("arena_create", 0, None, None, Null, "mine")
       \/ /\ Return("arena_create", 0, None, None, Null, IF up THEN "ENOMEM" ELSE "EINVAL")
          /\ UNCHANGED arenas
    /\ UNCHANGED objs

ArenaDestroy(a) ==
    /\ Does("arena")
    /\ IF ~up \/ a = 0 \/ arenas[a].state = "none"
       THEN Refuse("arena_destroy", 0, None, None, "EINVAL")
       ELSE IF arenas[a].state = "stuck" THEN Refuse("arena_destroy", 0, None, None, "EBUSY")
       ELSE \E state \in {"none", "stuck"} :
                /\ arenas' = [arenas EXCEPT ![a].state = state]
                /\ objs' = [o \in Ids |-> IF o \in Live /\ objs[o].o.arena = a
                                          THEN None ELSE objs[o]]
                /\ Return("arena_destroy", 0, None, None, Null,
                          IF state = "none" THEN "mine" ELSE "EINVAL")

\* Mutant: the slot is looked at, its incarnation is not.
IgnoresGeneration(h) == arenas[h.id].state # "none"
\* resolve_handle.
Resolves(h) == arenas[h.id].state # "none" /\ arenas[h.id].gen = h.gen

MallocxArena(h, size, r) ==
    LET d == DecodeFlags(Word(r))
        ask == [r EXCEPT !.arena = h]
    IN /\ Does("arena")
       /\ IF d = None THEN Refuse("mallocx_arena", size, ask, None, "EINVAL")
          ELSE IF ~up THEN Refuse("mallocx_arena", size, ask, None, "ENOMEM")
          ELSE IF ~Resolves(h) THEN Refuse("mallocx_arena", size, ask, None, "EINVAL")
          ELSE IF ZeroSizeGate(size) THEN Refuse("mallocx_arena", size, ask, None, "mine")
          ELSE IF ~Active(h.id) THEN Refuse("mallocx_arena", size, ask, None, "EBUSY")
          ELSE IF ~arenas[h.id].alloc THEN Refuse("mallocx_arena", size, ask, None, "EACCES")
          ELSE Served("mallocx_arena", size, ask, h.id, size,
                      Larger(d.align, MinAlign), d.flags, d.align)

----------------------------------------------------------------------------
(* set_zero_size_policy, and the guard sampler turned on or off.           *)

Configure(p, s) ==
    /\ Does("configure") /\ policy' = p /\ sampling' = s
    /\ last' = NoCall /\ calls' = calls + 1
    /\ UNCHANGED <<does, up, arenas, objs>>

----------------------------------------------------------------------------

Handles == {[id |-> a, gen |-> g] : a \in Arenas, g \in 1..MaxGen}
Given == {h \in Handles : h.gen <= arenas[h.id].gen}

Init ==
    /\ does \in Works
    /\ up \in (IF "down" \in does.ops THEN BOOLEAN ELSE {TRUE})
    /\ policy = "unique" /\ sampling = FALSE
    /\ arenas = [a \in Arenas |-> [state |-> IF a = 0 THEN "active" ELSE "none",
                                   alloc |-> a = 0, gen |-> IF a = 0 THEN 1 ELSE 0]]
    /\ objs = [o \in Ids |-> None]
    /\ last = NoCall /\ calls = 0

Next ==
    \/ \E size \in does.sizes :
        \/ Malloc(size) \/ Valloc(size) \/ Pvalloc(size)
        \/ \E n \in {0, 1, Top} : Calloc(n, size)
        \/ \E al \in does.aligns : AlignedAlloc(al, size) \/ Memalign(al, size)
                                    \/ PosixMemalign(al, size)
        \/ \E o \in Ptrs :
            \/ Realloc(o, size) \/ \E n \in {2, Top} : Reallocarray(o, n, size)
            \/ \E r \in does.asks : Rallocx(o, size, r) \/ Xallocx(o, size, r)
        \/ \E r \in does.asks :
            Mallocx(size, r) \/ Nallocx(size, r) \/ \E h \in Given : MallocxArena(h, size, r)
    \/ \E o \in Ptrs :
        \/ Free(o) \/ UsableSize(o) \/ FreeSized(o) \/ FreeAlignedSized(o) \/ Sdallocx(o)
        \/ \E r \in does.asks : Dallocx(o, r)
    \/ \E alloc \in BOOLEAN : ArenaCreate(alloc)
    \/ \E a \in Arenas : ArenaDestroy(a)
    \/ \E p \in {"unique", "null"}, s \in BOOLEAN : Configure(p, s)

Spec == Init /\ [][Next]_vars

----------------------------------------------------------------------------
(* Properties.                                                             *)

Errnos == {"mine", "ENOMEM", "EINVAL", "EACCES", "EBUSY"}
TypeOK ==
    /\ does \in Works /\ up \in BOOLEAN /\ sampling \in BOOLEAN
    /\ policy \in {"unique", "null"} /\ calls \in 0..does.max
    /\ last.errno \in Errnos
    /\ \A a \in Arenas : /\ arenas[a].state \in {"none", "active", "stuck"}
                         /\ arenas[a].gen \in 0..MaxGen
    /\ \A o \in Live : objs[o].o.arena \in Arenas /\ objs[o].o.usable \in 1..Top

Allocating == {"malloc", "calloc", "aligned", "memalign", "valloc", "pvalloc", "realloc",
               "mallocx", "rallocx", "mallocx_arena"}
Silent == {"free", "usable_size", "free_sized", "free_aligned_sized", "dallocx",
           "sdallocx", "nallocx", "posix_memalign"}

\* What a call leaves in errno tells its outcome whatever the engine's system
\* calls left there: a call that succeeded, or that frees or asks, leaves the
\* caller's value; an allocation that failed sets one, unless it was for no
\* bytes; and an in-place resize sets it exactly when it answers 0.
ErrnoTellsOutcome ==
    /\ last.fn \in Allocating =>
        /\ last.res # Null => last.errno = "mine"
        /\ last.res = Null /\ last.size # 0 => last.errno # "mine"
    /\ last.fn \in Silent => last.errno = "mine"
    /\ last.fn = "xallocx" => ((last.errno # "mine") <=> (last.res.n = 0))
    /\ last.fn = "posix_memalign" /\ last.size # 0 =>
        ((last.ask = "ok") <=> (last.res # Null))

\* An object a flag-word or handle call returns is what the caller meant by
\* the request: large enough, aligned, zeroed and routed past the caches when
\* asked, guarded when asked, in the arena named and in that incarnation of it.
ServesRequest ==
    last.fn \in {"mallocx", "mallocx_arena"} /\ last.res # Null =>
        LET r == last.ask
            obj == last.res
        IN /\ obj.usable >= last.size
           /\ obj.align % (2 ^ r.lg) = 0 /\ obj.align % MinAlign = 0
           /\ obj.zero = r.zero /\ obj.bypass = r.bypass
           /\ r.guarded /\ 2 ^ r.lg <= Page => obj.guarded
           /\ IF last.fn = "mallocx_arena"
              THEN obj.arena = r.arena.id /\ obj.gen = r.arena.gen
              ELSE obj.arena = (IF r.arena = None THEN 0 ELSE r.arena)

\* A resize that fails leaves the original allocation as it was.
FailureKeepsObject ==
    last.fn \in {"realloc", "rallocx"} /\ last.old # None /\ last.res = Null =>
        objs[last.old.id] = last.old.was

\* topo_nallocx predicts topo_mallocx: it is 0 for what mallocx refuses, and
\* otherwise the usable size of the object that mallocx returns while no
\* allocation is sampled for guarding.
NallocxPredicts ==
    last.fn = "mallocx" =>
        /\ last.res = Null /\ last.errno \in {"EINVAL", "EACCES", "mine"} =>
            NallocxOf(last.size, last.ask) = 0
        /\ last.res # Null /\ ~sampling =>
            NallocxOf(last.size, last.ask) = last.res.usable

\* Decoding the word of a request gives back the request, and refuses exactly
\* those that cannot be meant: both huge-page policies, an alignment or an
\* arena id out of range.
DecodedAsAsked ==
    \A r \in does.decodes :
        LET d == DecodeFlags(Word(r)) IN
        IF \/ r.avoid /\ r.prefer
           \/ r.lg >= UsizeBits
           \/ IF r.arena = None THEN FALSE ELSE r.arena > MaxArena
        THEN d = None
        ELSE /\ d # None
             /\ d.align = 2 ^ r.lg
             /\ Hints(d.flags) = [zero |-> r.zero, bypass |-> r.bypass, guarded |-> r.guarded,
                                  avoid |-> r.avoid, prefer |-> r.prefer,
                                  life |-> r.life, hot |-> r.hot]
             /\ FlagsArena(d.flags) = (IF r.arena = None THEN 0 ELSE r.arena)

\* A sized free with the size and alignment the object was asked for with is
\* accepted by the debug cross-check, after any number of resizes in place,
\* unless the object is guarded.
AbortsOnlyGuarded == last.fn = "abort" => last.old.was.o.guarded

=============================================================================
