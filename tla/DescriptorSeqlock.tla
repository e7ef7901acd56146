------------------------- MODULE DescriptorSeqlock -------------------------
(***************************************************************************)
(* One pooled descriptor (SpanDescriptor or LargeDescriptor, span.rs) that *)
(* the pool recycles, resizes and releases while classifiers read it       *)
(* without a lock.  A writer is alone (it holds the span lock or owns the  *)
(* pool slot); its stores between the two bumps of seq, and a reader's     *)
(* loads, are one step each.  The atomics are Acquire/Release on both      *)
(* sides, which keeps each side's accesses in program order.               *)
(*                                                                         *)
(* The value of a field is the incarnation that stored it: two values tell *)
(* a torn read from a consistent one and nothing else matters here.  alt   *)
(* is set by a store that is not a recycle: Released in the state, a       *)
(* resize in the usable size, a stray write anywhere else.  The integrity  *)
(* tag is modelled as collision free: it is the tagged fields themselves.  *)
(***************************************************************************)
EXTENDS Naturals, Sequences

CONSTANTS Readers,     \* threads in classify_ptr
          Stores,      \* the fields recycle stores, in its order
          Loads,       \* the fields a snapshot loads, in its order
          Summed,      \* the fields compute_integrity loads, in its order
          Resizes,     \* the fields shrink_usable and grow_usable store
          Checks,      \* is debug-checks on (the tag is validated)
          Retries,     \* SEQLOCK_RETRIES
          MaxWrites    \* bound: recycles, resizes and stray writes

VARIABLES seq,         \* the version: odd while an update is in flight
          field,       \* field -> [by, alt]
          tag,         \* integrity
          todo,        \* the stores the update in flight still has to do
          by,          \* the incarnation being stored (the generation)
          writes,      \* updates and stray writes so far
          stray,       \* has a stray write hit a tagged field (ghost)
          read         \* reader -> its locals

vars == <<seq, field, tag, todo, by, writes, stray, read>>

Fields == {Stores[i] : i \in 1..Len(Stores)}
Tagged == {Summed[i] : i \in 1..Len(Summed)}
Values == [by : 0..MaxWrites, alt : BOOLEAN]

\* What the model takes of its constants: a descriptor's state is one of the
\* fields and outside the tag.
ConstantsOK ==
    /\ Stores \in Seq(Fields) /\ Loads \in Seq(Fields) /\ Resizes \in Seq(Fields)
    /\ Summed \in Seq(Fields \ {"state"}) /\ "state" \in Fields
    /\ Retries \in Nat \ {0} /\ MaxWrites \in Nat

Idle == [pc |-> "idle", s0 |-> 0, first |-> 0, tries |-> 0,
         got |-> <<>>, want |-> <<>>, sum |-> <<>>]

\* The tag the fields imply, in the order they are summed.
ComputeIntegrity(f) == [i \in 1..Len(Summed) |-> f[Summed[i]]]

Born == [f \in Fields |-> [by |-> 0, alt |-> FALSE]]

Init ==
    /\ seq = 0
    /\ field = Born
    /\ tag = ComputeIntegrity(Born)
    /\ todo = <<>>
    /\ by = 0
    /\ writes = 0
    /\ stray = FALSE
    /\ read = [r \in Readers |-> Idle]

Updating == seq % 2 = 1

----------------------------------------------------------------------------
(* The writer.                                                             *)

\* The bump to odd that opens an update.
Begin(fields, alt) ==
    /\ ~Updating /\ todo = <<>> /\ writes < MaxWrites
    /\ seq' = seq + 1
    /\ todo' = [i \in 1..Len(fields) |-> [name |-> fields[i], alt |-> alt]]
    /\ by' = IF alt THEN by ELSE by + 1
    /\ writes' = writes + 1
    /\ UNCHANGED <<field, tag, stray, read>>

\* A new incarnation of the descriptor; its bitmaps are already recycled.
Recycle == Begin(Stores, FALSE)

\* shrink_usable and grow_usable: the same incarnation, another usable size.
Resize == Resizes # <<>> /\ Begin(Resizes, TRUE)

Store ==
    /\ todo # <<>>
    /\ field' = [field EXCEPT ![Head(todo).name] =
                    [by |-> by, alt |-> Head(todo).alt]]
    /\ todo' = Tail(todo)
    /\ UNCHANGED <<seq, tag, by, writes, stray, read>>

\* refresh_integrity, then the bump to even.  The two are one step: a reader
\* between them retries on the odd version, as it does before both.
End ==
    /\ Updating /\ todo = <<>>
    /\ tag' = ComputeIntegrity(field)
    /\ seq' = seq + 1
    /\ stray' = FALSE
    /\ UNCHANGED <<field, todo, by, writes, read>>

\* set_state(Released), outside any update and outside the tag.
Release ==
    /\ ~Updating /\ todo = <<>>
    /\ ~field["state"].alt
    /\ field' = [field EXCEPT !["state"].alt = TRUE]
    /\ UNCHANGED <<seq, tag, todo, by, writes, stray, read>>

\* A stray write of the program hits the header.
StrayWrite(f) ==
    /\ f \in Tagged
    /\ ~Updating /\ todo = <<>> /\ writes < MaxWrites /\ ~stray
    /\ field' = [field EXCEPT ![f].alt = ~@]
    /\ stray' = TRUE
    /\ writes' = writes + 1
    /\ UNCHANGED <<seq, tag, todo, by, read>>

----------------------------------------------------------------------------
(* A reader: read_consistent_geometry or read_consistent.                  *)

Goes(r, new) ==
    /\ read' = [read EXCEPT ![r] = new]
    /\ UNCHANGED <<seq, field, tag, todo, by, writes, stray>>

\* The loop body is left by continue: the next attempt, or None after the last.
Again(l) ==
    IF l.tries + 1 = Retries THEN [l EXCEPT !.pc = "none", !.tries = @ + 1]
    ELSE [l EXCEPT !.pc = "start", !.tries = @ + 1, !.got = <<>>, !.sum = <<>>]

Call(r) ==
    /\ read[r].pc = "idle"
    /\ Goes(r, [Idle EXCEPT !.pc = "start", !.first = seq])

Start(r) ==
    /\ read[r].pc = "start"
    /\ IF Updating THEN Goes(r, Again(read[r]))
       ELSE Goes(r, [read[r] EXCEPT !.pc = "load", !.s0 = seq])

Load(r) ==
    /\ read[r].pc = "load"
    /\ Len(read[r].got) < Len(Loads)
    /\ Goes(r, [read[r] EXCEPT
                  !.got = Append(@, field[Loads[Len(@) + 1]])])

\* Mutant: a recycle that ran to its end during the loads goes unnoticed.
AcceptsAnyEven(r) ==
    /\ read[r].pc = "load"
    /\ Len(read[r].got) = Len(Loads)
    /\ Goes(r, IF Updating THEN Again(read[r])
               ELSE [read[r] EXCEPT !.pc = IF Checks THEN "tag" ELSE "some"])

Recheck(r) ==
    /\ read[r].pc = "load"
    /\ Len(read[r].got) = Len(Loads)
    /\ Goes(r, IF seq # read[r].s0 THEN Again(read[r])
               ELSE [read[r] EXCEPT !.pc = IF Checks THEN "tag" ELSE "some"])

LoadTag(r) ==
    /\ read[r].pc = "tag"
    /\ Goes(r, [read[r] EXCEPT !.pc = "sum", !.want = tag])

Sum(r) ==
    /\ read[r].pc = "sum"
    /\ Len(read[r].sum) < Len(Summed)
    /\ Goes(r, [read[r] EXCEPT
                  !.sum = Append(@, field[Summed[Len(@) + 1]])])

\* Mutant: every mismatch is corruption.
BlamesEveryMismatch(r) ==
    /\ read[r].pc = "sum"
    /\ Len(read[r].sum) = Len(Summed)
    /\ Goes(r, [read[r] EXCEPT
                  !.pc = IF read[r].sum = read[r].want THEN "some" ELSE "corrupt"])

\* A mismatch under the version the snapshot was taken at is corruption; under
\* another version a recycle raced the validation.
Validate(r) ==
    /\ read[r].pc = "sum"
    /\ Len(read[r].sum) = Len(Summed)
    /\ Goes(r, IF read[r].sum = read[r].want THEN [read[r] EXCEPT !.pc = "some"]
               ELSE IF seq = read[r].s0 THEN [read[r] EXCEPT !.pc = "corrupt"]
               ELSE Again(read[r]))

Done(r) == read[r].pc \in {"some", "none", "corrupt"}

Return(r) == Done(r) /\ Goes(r, Idle)

----------------------------------------------------------------------------

Write == Recycle \/ Resize \/ Store \/ End \/ Release

ReadStep(r) ==
    \/ Call(r) \/ Start(r) \/ Load(r) \/ Recheck(r)
    \/ LoadTag(r) \/ Sum(r) \/ Validate(r) \/ Return(r)

Next ==
    \/ Write
    \/ \E f \in Tagged : StrayWrite(f)
    \/ \E r \in Readers : ReadStep(r)

Spec == Init /\ [][Next]_vars

----------------------------------------------------------------------------
(* Properties.                                                             *)

Snapshot(r) == [i \in 1..Len(Loads) |-> read[r].got[i].by]

\* The version is odd exactly while an update is in flight, and outside one
\* the tag describes the fields unless a stray write came in between.
TypeOK ==
    /\ seq \in 0..(2 * MaxWrites)
    /\ field \in [Fields -> Values]
    /\ todo # <<>> => Updating
    /\ (~Updating /\ ~stray) => tag = ComputeIntegrity(field)
    /\ \A r \in Readers :
          /\ read[r].pc \in {"idle", "start", "load", "tag", "sum",
                             "some", "none", "corrupt"}
          /\ read[r].tries \in 0..Retries

\* A snapshot that read_consistent_geometry or read_consistent returns never
\* mixes two incarnations of the descriptor, however many recycles, resizes and
\* releases run between its loads.
NoTornSnapshot ==
    \A r \in Readers : read[r].pc = "some" =>
        \A i, j \in 1..Len(Loads) : Snapshot(r)[i] = Snapshot(r)[j]

\* A recycle or a resize that races the integrity check is never reported as
\* corruption: only a stray write makes a read answer None for a bad tag.
NoFalseCorruptionStep ==
    \A r \in Readers :
        (read[r].pc = "sum" /\ read'[r].pc = "corrupt") => stray
NoFalseCorruption == [][NoFalseCorruptionStep]_vars

\* With debug-checks, a header a stray write has changed is classified foreign:
\* the fields returned are the ones the tag was computed over.  (A resize
\* computes the tag anew over the fields it finds, and so takes over whatever
\* was written before it.)
CorruptionCaught ==
    \A r \in Readers : (read[r].pc = "some" /\ Checks /\ seq = read[r].s0) =>
        \A i \in 1..Len(Loads), j \in 1..Len(Summed) :
            Loads[i] = Summed[j] => read[r].got[i] = tag[j]

\* A reader gives up only when updates interfered with it: without one the
\* first attempt answers.
QuietReadAnswers ==
    \A r \in Readers : read[r].pc = "none" =>
        read[r].first % 2 = 1 \/ seq # read[r].first

\* What a classifier may rely on in a descriptor it reads without a lock
\* (read_consistent_geometry, read_consistent).
SnapshotsSound ==
    TypeOK /\ NoTornSnapshot /\ CorruptionCaught /\ QuietReadAnswers
=============================================================================
