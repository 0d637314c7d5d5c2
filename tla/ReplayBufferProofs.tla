------------------------- MODULE ReplayBufferProofs -------------------------
(***************************************************************************)
(* Proofs about the ring of ReplayBuffer, for every capacity and every     *)
(* bound: a resume the ring calls covered loses no delta, replays are in   *)
(* sequence order, and the ring implements the bounded log of ReplayLog.   *)
(***************************************************************************)
EXTENDS ReplayBuffer, WellFoundedInduction, TLAPS

-----------------------------------------------------------------------------
(* Arithmetic of the wrapping index. *)

\* An index inside the ring is its own slot.
LEMMA ModSmall ==
  ASSUME NEW c \in Nat \ {0}, NEW x \in 0 .. c - 1
  PROVE  x % c = x
  BY SMT

\* An index at most one turn past the end wraps once.
LEMMA ModWrap ==
  \A c \in Nat \ {0} : \A x \in Nat :
    c <= x /\ x < c + c => x % c = x - c
  BY SMT

\* The slot that an offset from a starting slot denotes.
SlotOf(t, i) == IF t + i < cap THEN t + i ELSE t + i - cap

\* (t + i) % cap, the index expression of `since`, is SlotOf(t, i).
LEMMA ModSlot ==
  ASSUME NEW t \in Slots, NEW i \in 0 .. cap
  PROVE  /\ (t + i) % cap = SlotOf(t, i)
         /\ SlotOf(t, i) \in Slots
  <1>1. t + i \in 0 .. cap - 1 \/ t + i \in cap .. cap + cap - 1
    BY CapAssumption DEF Slots
  <1>2. CASE t + i \in 0 .. cap - 1
    BY <1>2, ModSmall, CapAssumption DEF Slots, SlotOf
  <1>3. CASE t + i \in cap .. cap + cap - 1
    <2>1. (t + i) % cap = t + i - cap
      <3>1. PICK x \in Nat : x = t + i /\ cap <= x /\ x < cap + cap
        BY <1>3, CapAssumption DEF Slots
      <3>2. x % cap = x - cap
        BY <3>1, ModWrap, CapAssumption
      <3> QED
        BY <3>1, <3>2, CapAssumption DEF Slots
    <2> QED
      BY <1>3, <2>1, CapAssumption DEF Slots, SlotOf
  <1> QED
    BY <1>1, <1>2, <1>3

\* The slot of the oldest of s records written before slot h.
TailOf(h, s) == IF s <= h THEN h - s ELSE h - s + cap

\* (h - s + cap) % cap, the tail of `since`, is TailOf(h, s).
LEMMA ModTail ==
  ASSUME NEW h \in Slots, NEW s \in 0 .. cap
  PROVE  /\ (h - s + cap) % cap = TailOf(h, s)
         /\ TailOf(h, s) \in Slots
  <1>1. PICK x \in Nat : x = h - s + cap
    BY CapAssumption DEF Slots
  <1>2. x % cap = IF x < cap THEN x ELSE x - cap
    <2>1. x < cap + cap
      BY <1>1, CapAssumption DEF Slots
    <2>2. CASE x < cap
      BY <2>2, ModSmall, CapAssumption
    <2>3. CASE ~ (x < cap)
      <3>0. cap <= x
        BY <2>3, CapAssumption
      <3>1. x % cap = x - cap
        BY <2>1, <3>0, ModWrap, CapAssumption
      <3> QED
        BY <2>3, <3>1
    <2> QED
      BY <2>2, <2>3
  <1> QED
    BY <1>1, <1>2, CapAssumption DEF Slots, TailOf

\* The slot `since` reads for offset i.
LEMMA ModAt ==
  ASSUME NEW h \in Slots, NEW s \in 0 .. cap, NEW i \in 0 .. cap
  PROVE  /\ (((h - s + cap) % cap) + i) % cap = SlotOf(TailOf(h, s), i)
         /\ SlotOf(TailOf(h, s), i) \in Slots
  BY ModTail, ModSlot

\* The valid records are read from the slots behind head.
LEMMA AtSlot ==
  TypeOK => \A i \in 0 .. cap :
              /\ At(i) = records[SlotOf(TailOf(head, size), i)]
              /\ At(i) \in Record
  BY ModAt DEF At, tail, TypeOK

-----------------------------------------------------------------------------
(* Type correctness. *)

\* The initial ring is well typed.
LEMMA InitTypeOK == Init => TypeOK
  <1> SUFFICES ASSUME Init PROVE TypeOK
    OBVIOUS
  <1>1. (CHOOSE p \in Patches : TRUE) \in Patches
    BY PatchesAssumption
  <1>2. Blank \in Record
    BY <1>1, MaxSeqAssumption DEF Blank, Record
  <1> QED
    BY <1>2, CapAssumption, MaxSeqAssumption DEF Init, TypeOK, Slots

\* Every operation keeps head inside the ring and size within its capacity.
LEMMA NextTypeOK == TypeOK /\ [Next]_vars => TypeOK'
  <1> SUFFICES ASSUME TypeOK, [Next]_vars PROVE TypeOK'
    OBVIOUS
  <1>1. ASSUME NEW p \in Patches, push(p) PROVE TypeOK'
    <2>1. [seq |-> seq + 1, patches |-> p] \in Record
      BY <1>1, MaxSeqAssumption DEF push, TypeOK, Record
    <2>2. (head + 1) % cap \in Slots
      BY ModSlot, CapAssumption DEF TypeOK
    <2> QED
      BY <1>1, <2>1, <2>2, CapAssumption, MaxSeqAssumption DEF push, TypeOK
  <1>2. CASE SceneChangedSeq
    BY <1>2, MaxSeqAssumption DEF SceneChangedSeq, TypeOK
  <1>3. CASE reset
    BY <1>3, CapAssumption DEF reset, TypeOK, Slots
  <1>4. CASE UNCHANGED vars
    BY <1>4 DEF vars, TypeOK
  <1> QED
    BY <1>1, <1>2, <1>3, <1>4 DEF Next

-----------------------------------------------------------------------------
(* How a push moves the valid records. *)

\* Below capacity the oldest record stays where it is, the valid records are
\* untouched and the new one comes last.
LEMMA PushGrows ==
  ASSUME TypeOK, NEW p \in Patches, push(p), size < cap
  PROVE  /\ size' = size + 1
         /\ \A i \in 0 .. size - 1 : At(i)' = At(i)
         /\ \A i : i = size => At(i)' = [seq |-> seq + 1, patches |-> p]
  <1>1. TypeOK'
    BY NextTypeOK DEF Next
  <1>2. head' = SlotOf(head, 1) /\ size' = size + 1
    BY ModSlot, CapAssumption DEF push, TypeOK
  <1>3. TailOf(head', size') = TailOf(head, size)
    BY <1>2, CapAssumption DEF TypeOK, Slots, SlotOf, TailOf
  <1>4. ASSUME NEW i \in 0 .. cap
        PROVE  /\ At(i) = records[SlotOf(TailOf(head, size), i)]
               /\ At(i)' = records'[SlotOf(TailOf(head, size), i)]
    BY <1>1, <1>3, ModAt DEF At, tail, TypeOK
  <1>5. ASSUME NEW i \in 0 .. size - 1
        PROVE  At(i)' = At(i)
    <2>1. i \in 0 .. cap
      BY CapAssumption DEF TypeOK
    <2>2. SlotOf(TailOf(head, size), i) \in Slots \ {head}
      BY CapAssumption DEF TypeOK, Slots, SlotOf, TailOf
    <2> QED
      BY <1>4, <2>1, <2>2 DEF push, TypeOK
  <1>6. ASSUME NEW i, i = size
        PROVE  At(i)' = [seq |-> seq + 1, patches |-> p]
    <2>1. i \in 0 .. cap
      BY <1>6, CapAssumption DEF TypeOK
    <2>2. SlotOf(TailOf(head, size), i) = head
      BY <1>6, CapAssumption DEF TypeOK, Slots, SlotOf, TailOf
    <2> QED
      BY <1>4, <2>1, <2>2 DEF push, TypeOK
  <1> QED
    BY <1>2, <1>5, <1>6

\* At capacity the oldest record is overwritten, the others move up by one
\* and the new one comes last.
LEMMA PushSlides ==
  ASSUME TypeOK, NEW p \in Patches, push(p), size = cap
  PROVE  /\ size' = size
         /\ \A i \in 0 .. size - 2 : At(i)' = At(i + 1)
         /\ \A i : i = size - 1 => At(i)' = [seq |-> seq + 1, patches |-> p]
  <1>1. TypeOK'
    BY NextTypeOK DEF Next
  <1>2. head' = SlotOf(head, 1) /\ size' = size
    BY ModSlot, CapAssumption DEF push, TypeOK
  <1>3. TailOf(head, size) = head /\ TailOf(head', size') = SlotOf(head, 1)
    BY <1>2, CapAssumption DEF TypeOK, Slots, SlotOf, TailOf
  <1>4. ASSUME NEW i \in 0 .. cap
        PROVE  /\ At(i) = records[SlotOf(head, i)]
               /\ At(i)' = records'[SlotOf(SlotOf(head, 1), i)]
    BY <1>1, <1>3, ModAt DEF At, tail, TypeOK
  <1>5. ASSUME NEW i \in 0 .. size - 2
        PROVE  At(i)' = At(i + 1)
    <2>1. i \in 0 .. cap /\ i + 1 \in 0 .. cap
      BY CapAssumption DEF TypeOK
    <2>2. /\ SlotOf(SlotOf(head, 1), i) = SlotOf(head, i + 1)
          /\ SlotOf(head, i + 1) \in Slots \ {head}
      BY CapAssumption DEF TypeOK, Slots, SlotOf
    <2> QED
      BY <1>4, <2>1, <2>2 DEF push, TypeOK
  <1>6. ASSUME NEW i, i = size - 1
        PROVE  At(i)' = [seq |-> seq + 1, patches |-> p]
    <2>1. i \in 0 .. cap
      BY <1>6, CapAssumption DEF TypeOK
    <2>2. SlotOf(SlotOf(head, 1), i) = head
      BY <1>6, CapAssumption DEF TypeOK, Slots, SlotOf
    <2> QED
      BY <1>4, <2>1, <2>2 DEF push, TypeOK
  <1> QED
    BY <1>2, <1>5, <1>6

-----------------------------------------------------------------------------
(* The inductive invariant. *)

\* What holds of the valid records: they are ordered, none is newer than the
\* counter, each was pushed, and whatever was pushed and is not valid any more
\* is older than the oldest of them.
Ordered == \A i, j \in 0 .. size - 1 : i < j => At(i).seq < At(j).seq

NotNewer == \A x \in pushed : x.seq <= seq

Genuine == \A i \in 0 .. size - 1 : At(i) \in pushed

Forgotten ==
  \A x \in pushed : \/ \E i \in 0 .. size - 1 : x = At(i)
                    \/ size > 0 /\ x.seq < At(0).seq

RingInv == TypeOK /\ Ordered /\ NotNewer /\ Genuine /\ Forgotten

\* An empty ring satisfies the invariant.
LEMMA InitRingInv == Init => RingInv
  <1> SUFFICES ASSUME Init PROVE RingInv
    OBVIOUS
  <1>1. TypeOK
    BY InitTypeOK
  <1>2. pushed = {} /\ 0 .. size - 1 = {}
    BY DEF Init
  <1> QED
    BY <1>1, <1>2 DEF RingInv, Ordered, NotNewer, Genuine, Forgotten

\* push, SceneChangedSeq and reset preserve it.
LEMMA NextRingInv == RingInv /\ [Next]_vars => RingInv'
  <1> SUFFICES ASSUME RingInv, [Next]_vars PROVE RingInv'
    OBVIOUS
  <1>0. TypeOK /\ TypeOK'
    BY NextTypeOK DEF RingInv
  <1>a. \A i \in 0 .. size - 1 : At(i) \in Record
    BY <1>0, AtSlot, CapAssumption DEF TypeOK
  <1>1. ASSUME NEW p \in Patches, push(p), size < cap PROVE RingInv'
    <2> DEFINE new == [seq |-> seq + 1, patches |-> p]
    <2>1. /\ size' = size + 1
          /\ \A i \in 0 .. size - 1 : At(i)' = At(i)
          /\ \A i : i = size => At(i)' = new
      BY <1>0, <1>1, PushGrows
    <2>2. pushed' = pushed \cup {new} /\ seq' = seq + 1
      BY <1>1 DEF push
    <2>3. \A x \in pushed : x.seq <= seq /\ x.seq \in Nat
      BY <1>0 DEF RingInv, Ordered, NotNewer, Genuine, Forgotten, TypeOK, Record
    <2>4. Ordered'
      BY <1>0, <2>1, <2>3 DEF RingInv, Ordered, NotNewer, Genuine, Forgotten, TypeOK
    <2>5. NotNewer'
      BY <1>0, <2>2, <2>3 DEF TypeOK, NotNewer
    <2>6. Genuine'
      BY <1>0, <2>1, <2>2 DEF RingInv, Ordered, NotNewer, Genuine, Forgotten, TypeOK
    <2>7. Forgotten'
      <3> SUFFICES ASSUME NEW x \in pushed'
                   PROVE  \/ \E i \in 0 .. size' - 1 : x = At(i)'
                          \/ size' > 0 /\ x.seq < At(0)'.seq
        BY DEF Forgotten
      <3>1. CASE x = new
        BY <1>0, <2>1, <3>1 DEF TypeOK
      <3>2. CASE \E i \in 0 .. size - 1 : x = At(i)
        BY <1>0, <2>1, <3>2 DEF TypeOK
      <3>3. CASE size > 0 /\ x.seq < At(0).seq
        BY <1>0, <2>1, <3>3 DEF TypeOK
      <3> QED
        BY <2>2, <3>1, <3>2, <3>3 DEF RingInv, Ordered, NotNewer, Genuine, Forgotten
    <2> QED
      BY <1>0, <2>4, <2>5, <2>6, <2>7 DEF RingInv
  <1>2. ASSUME NEW p \in Patches, push(p), size = cap PROVE RingInv'
    <2> DEFINE new == [seq |-> seq + 1, patches |-> p]
    <2>1. /\ size' = size
          /\ \A i \in 0 .. size - 2 : At(i)' = At(i + 1)
          /\ \A i : i = size - 1 => At(i)' = new
      BY <1>0, <1>2, PushSlides
    <2>2. pushed' = pushed \cup {new} /\ seq' = seq + 1
      BY <1>2 DEF push
    <2>3. \A x \in pushed : x.seq <= seq /\ x.seq \in Nat
      BY <1>0 DEF RingInv, Ordered, NotNewer, Genuine, Forgotten, TypeOK, Record
    <2>4. Ordered'
      BY <1>0, <2>1, <2>3, CapAssumption DEF RingInv, Ordered, NotNewer, Genuine, Forgotten, TypeOK
    <2>5. NotNewer'
      BY <1>0, <2>2, <2>3 DEF TypeOK, NotNewer
    <2>6. Genuine'
      BY <1>0, <2>1, <2>2, CapAssumption DEF RingInv, Ordered, NotNewer, Genuine, Forgotten, TypeOK
    <2>7. Forgotten'
      <3> SUFFICES ASSUME NEW x \in pushed'
                   PROVE  \/ \E i \in 0 .. size' - 1 : x = At(i)'
                          \/ size' > 0 /\ x.seq < At(0)'.seq
        BY DEF Forgotten
      <3>1. CASE x = new
        BY <1>0, <2>1, <3>1, CapAssumption, <1>2 DEF TypeOK
      <3>2. CASE \E i \in 0 .. size - 1 : x = At(i)
        <4>1. PICK i \in 0 .. size - 1 : x = At(i)
          BY <3>2
        <4>2. CASE i = 0
          <5>1. CASE size = 1
            BY <1>0, <1>a, <2>1, <2>3, <4>1, <4>2, <5>1 DEF RingInv, Ordered, NotNewer, Genuine, Forgotten, TypeOK, Record
          <5>2. CASE size # 1
            <6>1. At(0)' = At(1) /\ At(0).seq < At(1).seq
              BY <1>0, <1>2, <2>1, <5>2, CapAssumption DEF RingInv, Ordered, NotNewer, Genuine, Forgotten, TypeOK
            <6> QED
              BY <1>0, <1>2, <2>1, <4>1, <4>2, <6>1, CapAssumption DEF TypeOK
          <5> QED
            BY <5>1, <5>2
        <4>3. CASE i # 0
          <5>1. i - 1 \in 0 .. size - 2 /\ (i - 1) + 1 = i
            BY <1>0, <4>3 DEF TypeOK
          <5>2. At(i - 1)' = At(i)
            BY <2>1, <5>1
          <5> QED
            BY <1>0, <2>1, <4>1, <5>1, <5>2 DEF TypeOK
        <4> QED
          BY <4>2, <4>3
      <3>3. CASE x.seq < At(0).seq /\ x \in pushed
        <4>1. CASE size = 1
          BY <1>0, <1>a, <2>1, <2>3, <3>3, <4>1 DEF RingInv, Ordered, NotNewer, Genuine, Forgotten, TypeOK, Record
        <4>2. CASE size # 1
          <5>1. At(0)' = At(1) /\ At(0).seq < At(1).seq /\ At(0).seq \in Nat /\ At(1).seq \in Nat
            BY <1>0, <1>2, <1>a, <2>1, <4>2, CapAssumption DEF RingInv, Ordered, NotNewer, Genuine, Forgotten, TypeOK, Record
          <5>2. x.seq \in Nat
            BY <2>3, <3>3
          <5> QED
            BY <1>0, <1>2, <2>1, <3>3, <5>1, <5>2, CapAssumption DEF TypeOK
        <4> QED
          BY <4>1, <4>2
      <3> QED
        BY <2>2, <3>1, <3>2, <3>3 DEF RingInv, Ordered, NotNewer, Genuine, Forgotten
    <2> QED
      BY <1>0, <2>4, <2>5, <2>6, <2>7 DEF RingInv
  <1>3. CASE SceneChangedSeq
    BY <1>0, <1>3 DEF RingInv, Ordered, NotNewer, Genuine, Forgotten, SceneChangedSeq, At, tail, TypeOK, Record
  <1>4. CASE reset
    BY <1>0, <1>4 DEF RingInv, Ordered, NotNewer, Genuine, Forgotten, reset
  <1>5. CASE UNCHANGED vars
    BY <1>0, <1>5 DEF RingInv, Ordered, NotNewer, Genuine, Forgotten, vars, At, tail
  <1>6. size < cap \/ size = cap
    BY <1>0, CapAssumption DEF TypeOK
  <1> QED
    BY <1>1, <1>2, <1>3, <1>4, <1>5, <1>6 DEF Next

-----------------------------------------------------------------------------
(* The theorems. *)

\* The slots, head, size and the counter keep their types, for every capacity.
THEOREM TypeCorrect == Spec => []TypeOK
  BY InitTypeOK, NextTypeOK, PTL DEF Spec

\* The inductive invariant of the ring: the valid records are genuine, in order,
\* no newer than the counter, and what is missing is older than all of them.
THEOREM RingInvariant == Spec => []RingInv
  BY InitRingInv, NextRingInv, PTL DEF Spec

\* The invariant makes a covered answer of `since` complete.
LEMMA RingInvComplete == RingInv => CoveredIsComplete
  <1> SUFFICES ASSUME RingInv, NEW q \in 0 .. seq, since(q).covered
               PROVE  {At(i) : i \in since(q).out} = {x \in pushed : x.seq > q}
    BY DEF CoveredIsComplete
  <1>1. TypeOK /\ q \in Nat
    BY MaxSeqAssumption DEF RingInv, TypeOK
  <1>2. CASE size = 0
    <2>1. since(q).out = {}
      BY <1>2 DEF since
    <2>2. pushed = {}
      BY <1>2 DEF RingInv, Forgotten
    <2> QED
      BY <2>1, <2>2
  <1>3. CASE size # 0
    <2>1. /\ ~ (q + 1 < At(0).seq)
          /\ since(q).out = {i \in 0 .. size - 1 : At(i).seq > q}
      BY <1>3 DEF since
    <2>2. At(0).seq \in Nat
      BY <1>1, <1>3, AtSlot, CapAssumption DEF TypeOK, Record
    <2>3. ASSUME NEW x \in pushed, x.seq > q
          PROVE  \E i \in since(q).out : x = At(i)
      <3>1. x.seq \in Nat
        BY <1>1 DEF TypeOK, Record
      <3>2. ~ (x.seq < At(0).seq)
        BY <1>1, <2>1, <2>2, <2>3, <3>1
      <3>3. PICK i \in 0 .. size - 1 : x = At(i)
        BY <3>2 DEF RingInv, Forgotten
      <3> QED
        BY <2>1, <2>3, <3>3
    <2>4. ASSUME NEW i \in since(q).out
          PROVE  At(i) \in pushed /\ At(i).seq > q
      BY <2>1 DEF RingInv, Genuine
    <2> QED
      BY <2>3, <2>4
  <1> QED
    BY <1>2, <1>3

\* replayBuffer.since never calls a resume covered when a delta that was pushed
\* after sinceSeq and since the last reset has been overwritten: of the deltas
\* recorded since then, which are all of them as long as nobody calls reset, a
\* resumed client misses none.
THEOREM ResumeComplete == Spec => []CoveredIsComplete
  BY RingInvariant, RingInvComplete, PTL

\* The records since returns come out in sequence order, wherever head is.
THEOREM ResumeOrdered == Spec => []ReplayInOrder
  <1>1. RingInv => ReplayInOrder
    BY DEF RingInv, Ordered, ReplayInOrder, since
  <1> QED
    BY <1>1, RingInvariant, PTL

-----------------------------------------------------------------------------
(* Refinement. *)

\* The abstract window is a sequence of size records.
LEMMA WindowIsSeq ==
  ASSUME TypeOK
  PROVE  Window \in Seq(Record) /\ Len(Window) = size
  BY AtSlot, CapAssumption DEF Window, TypeOK

\* Every step of the ring is a push, a reset or a stutter of the window.
LEMMA StepRefines == RingInv /\ [Next]_vars => [Abstract!Next]_Window
  <1> SUFFICES ASSUME RingInv, [Next]_vars PROVE [Abstract!Next]_Window
    OBVIOUS
  <1>0. TypeOK /\ TypeOK'
    BY NextTypeOK DEF RingInv
  <1>1. ASSUME NEW p \in Patches, push(p) PROVE Abstract!Push
    <2> DEFINE new == [seq |-> seq + 1, patches |-> p]
    <2>1. new \in Abstract!Record
      BY <1>0, <1>1, MaxSeqAssumption DEF Abstract!Record, push, TypeOK
    <2>w. Window \in Seq(Record) /\ Len(Window) = size
      BY <1>0, WindowIsSeq
    <2>2. \A i \in 1 .. Len(Window) : Window[i].seq < new.seq
      <3> SUFFICES ASSUME NEW i \in 1 .. size PROVE Window[i].seq < seq + 1
        BY <2>w
      <3>1. Window[i] = At(i - 1) /\ i - 1 \in 0 .. size - 1
        BY <1>0 DEF Window, TypeOK
      <3>2. At(i - 1) \in pushed
        BY <3>1 DEF RingInv, Genuine
      <3>3. At(i - 1).seq <= seq /\ At(i - 1).seq \in Nat
        BY <1>0, <3>2 DEF RingInv, NotNewer, TypeOK, Record
      <3> QED
        BY <1>0, <3>1, <3>3 DEF TypeOK
    <2>3. CASE size < cap
      <3>1. Window' = Append(Window, new)
        <4>1. /\ size' = size + 1
              /\ \A i \in 0 .. size - 1 : At(i)' = At(i)
              /\ \A i : i = size => At(i)' = new
          BY <1>0, <1>1, <2>3, PushGrows
        <4>2. Window' = [i \in 1 .. size + 1 |-> At(i - 1)']
          BY <4>1 DEF Window
        <4>3. ASSUME NEW i \in 1 .. size + 1
              PROVE  At(i - 1)' = IF i <= size THEN Window[i] ELSE new
          <5>1. CASE i <= size
            BY <1>0, <4>1, <5>1 DEF Window, TypeOK
          <5>2. CASE ~ (i <= size)
            <6>1. i - 1 = size
              BY <1>0, <5>2 DEF TypeOK
            <6> QED
              BY <4>1, <5>2, <6>1
          <5> QED
            BY <5>1, <5>2
        <4>4. Append(Window, new) = [i \in 1 .. size + 1 |-> IF i <= size THEN Window[i] ELSE new]
          BY <1>0, <2>w, <2>1 DEF TypeOK
        <4> QED
          BY <4>2, <4>3, <4>4
      <3> QED
        BY <2>1, <2>2, <2>3, <3>1, WindowIsSeq, <1>0 DEF Abstract!Push, Abstract!Pushed
    <2>4. CASE size = cap
      <3>1. Window' = Append(Tail(Window), new)
        <4>1. /\ size' = size
              /\ \A i \in 0 .. size - 2 : At(i)' = At(i + 1)
              /\ \A i : i = size - 1 => At(i)' = new
          BY <1>0, <1>1, <2>4, PushSlides
        <4>2. Window' = [i \in 1 .. size |-> At(i - 1)']
          BY <4>1 DEF Window
        <4>3. ASSUME NEW i \in 1 .. size
              PROVE  At(i - 1)' = IF i <= size - 1 THEN Window[i + 1] ELSE new
          <5>1. CASE i <= size - 1
            <6>1. i - 1 \in 0 .. size - 2 /\ (i - 1) + 1 = i /\ i + 1 \in 1 .. size
              BY <1>0, <5>1 DEF TypeOK
            <6>2. Window[i + 1] = At(i)
              BY <1>0, <6>1 DEF Window, TypeOK
            <6> QED
              BY <4>1, <5>1, <6>1, <6>2
          <5>2. CASE ~ (i <= size - 1)
            <6>1. i - 1 = size - 1
              BY <1>0, <5>2 DEF TypeOK
            <6> QED
              BY <4>1, <5>2, <6>1
          <5> QED
            BY <5>1, <5>2
        <4>4. Append(Tail(Window), new) = [i \in 1 .. size |-> IF i <= size - 1 THEN Window[i + 1] ELSE new]
          BY <1>0, <2>w, <2>1, <2>4, CapAssumption DEF TypeOK
        <4> QED
          BY <4>2, <4>3, <4>4
      <3> QED
        BY <2>1, <2>2, <2>4, <3>1, WindowIsSeq, <1>0, CapAssumption DEF Abstract!Push, Abstract!Pushed
    <2> QED
      BY <1>0, <2>3, <2>4, CapAssumption DEF TypeOK
  <1>2. CASE SceneChangedSeq
    BY <1>2 DEF SceneChangedSeq, Window, At, tail
  <1>3. CASE reset
    <2>1. Window' = <<>>
      BY <1>3 DEF reset, Window
    <2> QED
      BY <2>1 DEF Abstract!Next, Abstract!Reset
  <1>4. CASE UNCHANGED vars
    BY <1>4 DEF vars, Window, At, tail
  <1> QED
    BY <1>1, <1>2, <1>3, <1>4 DEF Next, Abstract!Next

\* The ring of replay_buffer.go implements the bounded log of ReplayLog.
THEOREM RingImplementsLog == Spec => ImplementsLog
  <1>1. Init => Abstract!Init
    BY DEF Init, Window, Abstract!Init
  <1> QED
    BY <1>1, RingInvariant, StepRefines, PTL DEF Spec, ImplementsLog, Abstract!Spec
-----------------------------------------------------------------------------
(* The suffix of the log that is replayed. *)

\* A non-empty set of numbers has a least one.
LEMMA LeastNumber ==
  ASSUME NEW T \in SUBSET Nat, T # {}
  PROVE  \E x \in T : \A y \in T : x <= y
  <1>1. PICK x \in T : \A y \in T : ~ (<<y, x>> \in OpToRel(<, Nat))
    BY WFMin, NatLessThanWellFounded
  <1>2. \A y \in T : ~ (y < x)
    BY <1>1 DEF OpToRel
  <1> QED
    BY <1>2

\* The position After chooses exists, and in an ordered window everything from
\* there on is newer than q.
LEMMA AfterSplits ==
  ASSUME NEW w \in Seq(Record), NEW q \in Nat,
         \A i, j \in 1 .. Len(w) : i < j => w[i].seq < w[j].seq
  PROVE  /\ Abstract!After(w, q) \in 1 .. Len(w) + 1
         /\ \A i \in 1 .. Len(w) : i >= Abstract!After(w, q) <=> w[i].seq > q
  <1> DEFINE later == {i \in 1 .. Len(w) : w[i].seq > q}
             Splits(k) == /\ \A i \in 1 .. Len(w) : i < k => w[i].seq <= q
                          /\ k <= Len(w) => w[k].seq > q
  <1>1. \A i \in 1 .. Len(w) : w[i].seq \in Nat
    <2>1. \A i \in 1 .. Len(w) : w[i] \in Record
      OBVIOUS
    <2> QED
      BY <2>1, MaxSeqAssumption DEF Record
  <1>2. \E k \in 1 .. Len(w) + 1 : Splits(k)
    <2>1. CASE later = {}
      <3>1. \A i \in 1 .. Len(w) : w[i].seq <= q
        BY <1>1, <2>1
      <3> QED
        BY <3>1
    <2>2. CASE later # {}
      <3>1. PICK k \in later : \A y \in later : k <= y
        <4>1. later \in SUBSET Nat
          OBVIOUS
        <4> HIDE DEF later
        <4> QED
          BY <2>2, <4>1, LeastNumber
      <3>2. \A i \in 1 .. Len(w) : i < k => w[i].seq <= q
        BY <1>1, <3>1
      <3> QED
        BY <3>1, <3>2
    <2> QED
      BY <2>1, <2>2
  <1> DEFINE k == Abstract!After(w, q)
  <1>3. k \in 1 .. Len(w) + 1 /\ Splits(k)
    BY <1>2 DEF Abstract!After
  <1> HIDE DEF k
  <1>4. ASSUME NEW i \in 1 .. Len(w) PROVE i >= k <=> w[i].seq > q
    <2>1. CASE i < k
      BY <1>1, <1>3, <2>1
    <2>2. CASE i = k
      BY <1>3, <2>2
    <2>3. CASE i > k
      <3>1. k \in 1 .. Len(w) /\ w[k].seq > q /\ w[k].seq < w[i].seq
        BY <1>3, <2>3
      <3> QED
        BY <1>1, <2>3, <3>1
    <2> QED
      BY <1>3, <2>1, <2>2, <2>3
  <1> QED
    BY <1>3, <1>4 DEF k

\* The invariant makes the ring's answer the one of the log.
LEMMA RingInvAgrees == RingInv => SinceAgrees
  <1> SUFFICES ASSUME RingInv, NEW q \in 0 .. seq
               PROVE  /\ since(q).covered = Abstract!Covers(Window, q)
                      /\ since(q).covered =>
                           since(q).out = {k - 1 : k \in Abstract!After(Window, q) .. size}
    BY DEF SinceAgrees
  <1>1. TypeOK /\ q \in Nat /\ size \in Nat
    BY MaxSeqAssumption, CapAssumption DEF RingInv, TypeOK
  <1>2. Window \in Seq(Record) /\ Len(Window) = size
    BY <1>1, WindowIsSeq
  <1>3. \A i \in 1 .. size : Window[i] = At(i - 1) /\ At(i - 1).seq \in Nat
    <2>1. \A i \in 1 .. size : At(i - 1) \in Record
      BY <1>1, AtSlot, CapAssumption DEF TypeOK
    <2> QED
      BY <2>1, MaxSeqAssumption DEF Window, Record
  <1>4. \A i, j \in 1 .. Len(Window) : i < j => Window[i].seq < Window[j].seq
    <2> SUFFICES ASSUME NEW i \in 1 .. size, NEW j \in 1 .. size, i < j
                 PROVE  Window[i].seq < Window[j].seq
      BY <1>2
    <2>1. i - 1 \in 0 .. size - 1 /\ j - 1 \in 0 .. size - 1 /\ i - 1 < j - 1
      BY <1>1
    <2>2. At(i - 1).seq < At(j - 1).seq
      BY <2>1 DEF RingInv, Ordered
    <2> QED
      BY <1>3, <2>2
  <1> DEFINE a == Abstract!After(Window, q)
  <1>5. a \in 1 .. size + 1 /\ \A i \in 1 .. size : i >= a <=> Window[i].seq > q
    BY <1>1, <1>2, <1>4, AfterSplits
  <1> HIDE DEF a
  <1>6. CASE size = 0
    <2>1. since(q).covered = TRUE /\ since(q).out = {}
      BY <1>6 DEF since
    <2>2. Window = <<>> /\ {k - 1 : k \in a .. size} = {}
      BY <1>2, <1>5, <1>6
    <2>3. since(q).covered = Abstract!Covers(Window, q)
      BY <2>1, <2>2, Zenon DEF Abstract!Covers
    <2> QED
      BY <2>1, <2>2, <2>3, Zenon DEF a
  <1>7. CASE size # 0
    <2>1. /\ Window # <<>> /\ Window[1] = At(0) /\ At(0).seq \in Nat
      BY <1>1, <1>2, <1>3, <1>7
    <2>2. /\ since(q).covered = ~ (q + 1 < At(0).seq)
          /\ since(q).covered => since(q).out = {i \in 0 .. size - 1 : At(i).seq > q}
      BY <1>7 DEF since
    <2>3. since(q).covered = Abstract!Covers(Window, q)
      <3>1. ~ (q + 1 < At(0).seq) <=> At(0).seq <= q + 1
        BY <1>1, <2>1
      <3>2. Abstract!Covers(Window, q) <=> At(0).seq <= q + 1
        BY <2>1, Zenon DEF Abstract!Covers
      <3> QED
        BY <2>2, <3>1, <3>2, Zenon DEF Abstract!Covers
    <2>4. {i \in 0 .. size - 1 : At(i).seq > q} = {k - 1 : k \in a .. size}
      <3>1. ASSUME NEW i \in 0 .. size - 1, At(i).seq > q
            PROVE  \E k \in a .. size : i = k - 1
        <4>1. i + 1 \in 1 .. size /\ (i + 1) - 1 = i
          BY <1>1
        <4>2. Window[i + 1].seq > q
          BY <1>3, <3>1, <4>1
        <4> QED
          BY <1>1, <1>5, <4>1, <4>2
      <3>2. ASSUME NEW k \in a .. size
            PROVE  k - 1 \in 0 .. size - 1 /\ At(k - 1).seq > q
        <4>1. k \in 1 .. size
          BY <1>1, <1>5
        <4> QED
          BY <1>1, <1>3, <1>5, <4>1
      <3> QED
        BY <3>1, <3>2
    <2> QED
      BY <2>2, <2>3, <2>4 DEF a
  <1> QED
    BY <1>6, <1>7

\* The ring answers a resume as the log Scene is written with does: `since`
\* calls the same resume points covered and ships the same suffix.
THEOREM RingAnswersAsLog == Spec => []SinceAgrees
  BY RingInvariant, RingInvAgrees, PTL
=============================================================================
