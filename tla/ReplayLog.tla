----------------------------- MODULE ReplayLog -----------------------------
(***************************************************************************)
(* What a scene's replay buffer promises, without its ring: the most       *)
(* recent `cap` delta records, oldest first, and the deltas a client that  *)
(* resumes after sequence number q has to be sent.  ReplayBuffer (the ring *)
(* of server/replay_buffer.go) implements this module; Scene uses its      *)
(* operators for the scene's `replay` field.                               *)
(***************************************************************************)
EXTENDS Naturals, Sequences

CONSTANTS cap,      \* capacity of the buffer (newReplayBuffer, DefaultReplayBufferSize)
          Patches,  \* the patch sets a delta can carry
          MaxSeq    \* bound on the sequence numbers

VARIABLE window     \* the retained records, oldest first

Record == [seq : 0 .. MaxSeq, patches : Patches]

\* The window after one more record: the oldest one leaves when it is full.
Pushed(w, r) == IF Len(w) < cap THEN Append(w, r) ELSE Append(Tail(w), r)

\* Whether the window still reaches back to the delta after q.
Covers(w, q) == w = <<>> \/ w[1].seq <= q + 1

\* The first position after q (one past the end when there is none).
After(w, q) ==
  CHOOSE k \in 1 .. Len(w) + 1 :
    /\ \A i \in 1 .. Len(w) : i < k => w[i].seq <= q
    /\ k <= Len(w) => w[k].seq > q

\* The deltas to replay to a client that has seen q: a suffix of the window.
Since(w, q) == SubSeq(w, After(w, q), Len(w))

Init == window = <<>>

\* A new record is newer than every retained one.
Push ==
  \E r \in Record :
    /\ \A i \in 1 .. Len(window) : window[i].seq < r.seq
    /\ window' = Pushed(window, r)

Reset == window' = <<>>

Next == Push \/ Reset

Spec == Init /\ [][Next]_window
=============================================================================
