---------------------------- MODULE ReplayBuffer ----------------------------
(***************************************************************************)
(* server/replay_buffer.go: the bounded ring of recent delta emissions     *)
(* from which a reconnecting client is resumed.  The slots are indexed     *)
(* 0 .. cap-1 as in the Go slice; head is the next slot to write and the   *)
(* oldest valid record sits size slots behind it, modulo cap.              *)
(*                                                                         *)
(* The scene's sequence counter is part of the state because it is what    *)
(* orders the records: emitWithCause advances it and pushes, migrateLive   *)
(* advances it and pushes nothing, so the recorded numbers may have holes. *)
(*                                                                         *)
(* `pushed` is a history variable: every record pushed since the last      *)
(* reset, including those the ring has overwritten.                        *)
(***************************************************************************)
EXTENDS Integers, Sequences, FiniteSets

CONSTANTS cap,       \* number of slots
          Patches,   \* the patch sets a delta can carry
          MaxSeq     \* bound on the scene's sequence counter

ASSUME CapAssumption == cap \in Nat \ {0}
ASSUME PatchesAssumption == Patches # {}
ASSUME MaxSeqAssumption == MaxSeq \in Nat \ {0}

VARIABLES records,   \* the slots
          head,      \* next write index
          size,      \* number of valid entries
          seq,       \* the owning scene's SequenceTracker
          pushed     \* history: all records pushed since the last reset

vars == <<records, head, size, seq, pushed>>

Slots == 0 .. cap - 1

Record == [seq : 0 .. MaxSeq, patches : Patches]

\* newReplayBuffer makes cap zero-valued records; their patches are nil.
Blank == [seq |-> 0, patches |-> CHOOSE p \in Patches : TRUE]

TypeOK ==
  /\ records \in [Slots -> Record]
  /\ head \in Slots
  /\ size \in 0 .. cap
  /\ seq \in 1 .. MaxSeq
  /\ pushed \subseteq Record

Init ==
  /\ records = [i \in Slots |-> Blank]
  /\ head = 0
  /\ size = 0
  /\ seq = 1         \* newScene pre-seeds the tracker
  /\ pushed = {}

-----------------------------------------------------------------------------

\* The slot of the oldest valid record.
tail == (head - size + cap) % cap

\* The i-th oldest valid record, i \in 0 .. size-1.
At(i) == records[(tail + i) % cap]

\* Mutant: coverage off by one, a resume point one delta too old is accepted.
since_OffByOne(q) ==
  IF size = 0 THEN [covered |-> TRUE, out |-> {}]
  ELSE IF q + 2 < At(0).seq THEN [covered |-> FALSE, out |-> {}]
  ELSE [covered |-> TRUE, out |-> {i \in 0 .. size - 1 : At(i).seq > q}]

\* since(sinceSeq): whether the buffer reaches back far enough, and the
\* offsets (from the oldest record, in the order they are shipped) it returns.
since(q) ==
  IF size = 0 THEN [covered |-> TRUE, out |-> {}]
  ELSE IF q + 1 < At(0).seq THEN [covered |-> FALSE, out |-> {}]
  ELSE [covered |-> TRUE, out |-> {i \in 0 .. size - 1 : At(i).seq > q}]

\* Mutant: the record carries Current() instead of NextServer().
push_Current(p) ==
  /\ seq < MaxSeq
  /\ records' = [records EXCEPT ![head] = [seq |-> seq, patches |-> p]]
  /\ head' = (head + 1) % cap
  /\ size' = IF size < cap THEN size + 1 ELSE size
  /\ pushed' = pushed \cup {[seq |-> seq, patches |-> p]}
  /\ UNCHANGED seq

\* Mutant: the write index does not wrap.
push_NoWrap(p) ==
  /\ seq < MaxSeq
  /\ seq' = seq + 1
  /\ records' = [records EXCEPT ![head] = [seq |-> seq + 1, patches |-> p]]
  /\ head' = head + 1
  /\ size' = IF size < cap THEN size + 1 ELSE size
  /\ pushed' = pushed \cup {[seq |-> seq + 1, patches |-> p]}

\* Mutant: a full ring starts over instead of saturating at cap.
push_Restart(p) ==
  /\ seq < MaxSeq
  /\ seq' = seq + 1
  /\ records' = [records EXCEPT ![head] = [seq |-> seq + 1, patches |-> p]]
  /\ head' = (head + 1) % cap
  /\ size' = IF size < cap THEN size + 1 ELSE 1
  /\ pushed' = pushed \cup {[seq |-> seq + 1, patches |-> p]}

\* emitWithCause: NextServer, then push, both under the scene's lock.
push(p) ==
  /\ seq < MaxSeq
  /\ seq' = seq + 1
  /\ records' = [records EXCEPT ![head] = [seq |-> seq + 1, patches |-> p]]
  /\ head' = (head + 1) % cap
  /\ size' = IF size < cap THEN size + 1 ELSE size
  /\ pushed' = pushed \cup {[seq |-> seq + 1, patches |-> p]}

\* migrateLive: the counter advances for the SceneChanged frame, no push.
SceneChangedSeq ==
  /\ seq < MaxSeq
  /\ seq' = seq + 1
  /\ UNCHANGED <<records, head, size, pushed>>

\* reset leaves the slots as they are: only head and size are cleared.
reset ==
  /\ head' = 0
  /\ size' = 0
  /\ pushed' = {}
  /\ UNCHANGED <<records, seq>>

Next ==
  \/ \E p \in Patches : push(p)
  \/ SceneChangedSeq
  \/ reset

Spec == Init /\ [][Next]_vars

-----------------------------------------------------------------------------

\* The abstract window: the valid slots, oldest first.
Window == [i \in 1 .. size |-> At(i - 1)]

Abstract == INSTANCE ReplayLog WITH window <- Window

\* The ring implements the bounded log of ReplayLog, across every wrap of
\* head and every reset (replayBuffer.push, reset).
ImplementsLog == Abstract!Spec

\* A resume that `since` calls covered loses nothing of what was pushed since
\* the last reset: the records it returns are all of those after sinceSeq,
\* overwritten ones included, whatever the wraps and the holes left by
\* SceneChanged.  What a reset empties is another matter: afterwards `since`
\* calls every resume covered until the ring has a record again, and the deltas
\* recorded before are lost to it.
CoveredIsComplete ==
  \A q \in 0 .. seq :
    LET r == since(q)
    IN  r.covered => {At(i) : i \in r.out} = {x \in pushed : x.seq > q}

\* The order of the offsets in which the records are shipped is the order of
\* their sequence numbers ("in monotonic order"), across every wrap of head.
ReplayInOrder ==
  \A q \in 0 .. seq : \A i, j \in since(q).out :
    i < j => At(i).seq < At(j).seq

\* The suffix of the abstract window that Scene replays is the set `since`
\* returns, and both agree on when the window reaches back far enough.
SinceAgrees ==
  \A q \in 0 .. seq :
    /\ since(q).covered = Abstract!Covers(Window, q)
    /\ since(q).covered =>
         since(q).out = {k - 1 : k \in Abstract!After(Window, q) .. size}
=============================================================================
