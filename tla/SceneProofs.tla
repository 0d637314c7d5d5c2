---------------------------- MODULE SceneProofs ----------------------------
(***************************************************************************)
(* Proofs about Scene and Projection, for every set of callers, clients,   *)
(* paths, values and revisions and for every capacity.  The state keeps    *)
(* its shape; when the live endpoint stays on the scene, no client that is *)
(* not marked stale is ever sent a gap, and each ends up showing the       *)
(* store; and no client ever shows a state under the identity of another   *)
(* one.                                                                    *)
(***************************************************************************)
EXTENDS Projection, FiniteSetTheorems, WellFoundedInduction, TLAPS

Rec == [seq : 1 .. MaxSeq, patches : Patch]

\* The emissions under way fit under the bound.
Budget == seq + Cardinality(Unpublished) <= MaxSeq

TypeInv == TypeOK /\ Budget

-----------------------------------------------------------------------------
(* Operators. *)

\* Deltas and snapshots are frames.
LEMMA FrameTypes ==
  ASSUME NEW n \in 1 .. MaxSeq
  PROVE  /\ \A p \in Patch : Delta(n, p) \in Frame
         /\ \A st \in State : Snapshot(n, st) \in Frame
  BY DEF Delta, Snapshot, Frame

\* What a caller passes is a patch.
LEMMA PatchesOfType ==
  ASSUME NEW c \in Callers
  PROVE  PatchesOf(c) \subseteq Patch
  <1> SUFFICES ASSUME NEW D \in SUBSET Owned[c] \ {{}}
               PROVE  D \in SUBSET Paths \ {{}}
    BY DEF PatchesOf, Patch
  <1> QED
    BY OwnedAssumption

\* A patch assigns values to some paths.
LEMMA PatchShape ==
  ASSUME NEW p \in Patch
  PROVE  DOMAIN p \subseteq Paths /\ \A x \in DOMAIN p : p[x] \in Values
  <1>1. PICK D \in SUBSET Paths \ {{}} : p \in [D -> Values]
    BY DEF Patch
  <1> QED
    BY <1>1

\* Overwriting some paths of a state gives a state.
LEMMA PatchedType ==
  ASSUME NEW st \in State, NEW p \in Patch
  PROVE  Patched(st, p) \in State
  BY PatchShape DEF Patched, State

\* A send to subscribers with room keeps the queues within their capacity.
LEMMA SendAllType ==
  ASSUME TypeOK, NEW S \in SUBSET Subs, NEW f \in Frame
  PROVE  /\ SendAll(Room(S), f) \in [Subs -> Seq(Frame)]
         /\ \A s \in Subs : Len(SendAll(Room(S), f)[s]) <= OutCap
  <1>1. ASSUME NEW s \in Subs
        PROVE  /\ SendAll(Room(S), f)[s] \in Seq(Frame)
               /\ Len(SendAll(Room(S), f)[s]) <= OutCap
    <2>1. out[s] \in Seq(Frame) /\ Len(out[s]) \in Nat /\ Len(out[s]) <= OutCap
      BY DEF TypeOK
    <2>2. CASE s \in Room(S)
      <3>1. SendAll(Room(S), f)[s] = Append(out[s], f)
        BY <2>2 DEF SendAll
      <3>2. Len(out[s]) < OutCap
        BY <2>2 DEF Room
      <3>3. Append(out[s], f) \in Seq(Frame) /\ Len(Append(out[s], f)) = Len(out[s]) + 1
        BY <2>1
      <3> QED
        BY <2>1, <3>1, <3>2, <3>3, BoundsAssumption
    <2>3. CASE s \notin Room(S)
      BY <2>1, <2>3 DEF SendAll
    <2> QED
      BY <2>2, <2>3
  <1> QED
    BY <1>1 DEF SendAll

-----------------------------------------------------------------------------
(* The window. *)

\* A non-empty set of numbers has a least one.
LEMMA Least ==
  ASSUME NEW T \in SUBSET Nat, T # {}
  PROVE  \E x \in T : \A y \in T : x <= y
  <1>1. PICK x \in T : \A y \in T : ~ (<<y, x>> \in OpToRel(<, Nat))
    BY WFMin, NatLessThanWellFounded
  <1>2. \A y \in T : ~ (y < x)
    BY <1>1 DEF OpToRel
  <1> QED
    BY <1>2

\* The position After chooses exists.
LEMMA AfterType ==
  ASSUME NEW w \in Seq(Rec), NEW q \in Nat
  PROVE  /\ Log!After(w, q) \in 1 .. Len(w) + 1
         /\ \A i \in 1 .. Len(w) : i < Log!After(w, q) => w[i].seq <= q
         /\ Log!After(w, q) <= Len(w) => w[Log!After(w, q)].seq > q
  <1> DEFINE later == {i \in 1 .. Len(w) : w[i].seq > q}
  <1>1. \A i \in 1 .. Len(w) : w[i].seq \in Nat
    <2>1. \A i \in 1 .. Len(w) : w[i] \in Rec
      OBVIOUS
    <2> QED
      BY <2>1 DEF Rec
  <1>2. \E k \in 1 .. Len(w) + 1 :
          /\ \A i \in 1 .. Len(w) : i < k => w[i].seq <= q
          /\ k <= Len(w) => w[k].seq > q
    <2>1. CASE later = {}
      <3>1. \A i \in 1 .. Len(w) : w[i].seq <= q
        BY <1>1, <2>1
      <3> QED
        BY <3>1
    <2>2. CASE later # {}
      <3>1. PICK k \in later : \A y \in later : k <= y
        <4>1. later \in SUBSET Nat
          OBVIOUS
        <4> HIDE DEF later
        <4> QED
          BY <2>2, <4>1, Least
      <3>2. \A i \in 1 .. Len(w) : i < k => w[i].seq <= q
        BY <1>1, <3>1
      <3> QED
        BY <3>1, <3>2
    <2> QED
      BY <2>1, <2>2
  <1> QED
    BY <1>2 DEF Log!After

\* What is replayed is a sequence of records.
LEMMA SinceType ==
  ASSUME NEW w \in Seq(Rec), NEW q \in Nat
  PROVE  /\ Log!Since(w, q) \in Seq(Rec)
         /\ Len(Log!Since(w, q)) = Len(w) - Log!After(w, q) + 1
         /\ \A i \in 1 .. Len(Log!Since(w, q)) : Log!Since(w, q)[i] = w[Log!After(w, q) + i - 1]
  <1> DEFINE k == Log!After(w, q)
  <1>1. k \in 1 .. Len(w) + 1
    BY AfterType
  <1> HIDE DEF k
  <1>2. /\ SubSeq(w, k, Len(w)) \in Seq(Rec)
        /\ Len(SubSeq(w, k, Len(w))) = Len(w) - k + 1
        /\ \A i \in 1 .. Len(SubSeq(w, k, Len(w))) : SubSeq(w, k, Len(w))[i] = w[k + i - 1]
    BY <1>1
  <1> QED
    BY <1>2 DEF k, Log!Since

\* The answer to a subscription is a sequence of frames.
LEMMA FirstFramesType ==
  ASSUME TypeOK, NEW q \in Nat
  PROVE  FirstFrames(q) \in Seq(Frame)
  <1> DEFINE rs == Log!Since(replay, q)
  <1>0. replay \in Seq(Rec)
    BY DEF TypeOK, Rec
  <1>1. rs \in Seq(Rec)
    BY <1>0, SinceType
  <1> HIDE DEF rs
  <1>2. \A i \in 1 .. Len(rs) : Delta(rs[i].seq, rs[i].patches) \in Frame
    <2> SUFFICES ASSUME NEW i \in 1 .. Len(rs) PROVE Delta(rs[i].seq, rs[i].patches) \in Frame
      OBVIOUS
    <2>1. rs[i] \in Rec
      BY <1>1
    <2>2. rs[i].seq \in 1 .. MaxSeq /\ rs[i].patches \in Patch
      BY <2>1 DEF Rec
    <2> QED
      BY <2>2, FrameTypes
  <1>3. [i \in 1 .. Len(rs) |-> Delta(rs[i].seq, rs[i].patches)] \in Seq(Frame)
    BY <1>1, <1>2
  <1>4. Snapshot(seq, store) \in Frame
    BY FrameTypes DEF TypeOK
  <1>5. <<Snapshot(seq, store)>> \in Seq(Frame)
    BY <1>4
  <1> QED
    BY <1>3, <1>5 DEF FirstFrames, rs

\* One more record leaves the window a sequence of records.
LEMMA PushedType ==
  ASSUME NEW w \in Seq(Rec), NEW r \in Rec
  PROVE  Log!Pushed(w, r) \in Seq(Rec)
  <1>1. CASE Len(w) < ReplayCap
    BY <1>1 DEF Log!Pushed
  <1>2. CASE ~ (Len(w) < ReplayCap)
    <2>1. w # <<>>
      BY <1>2, BoundsAssumption
    <2> QED
      BY <1>2, <2>1 DEF Log!Pushed
  <1> QED
    BY <1>1, <1>2

\* The unpublished emissions are finitely many.
LEMMA UnpublishedFinite ==
  IsFiniteSet(Unpublished) /\ Cardinality(Unpublished) \in Nat
  <1>1. Unpublished \in SUBSET Callers
    BY DEF Unpublished
  <1> QED
    BY <1>1, OwnedAssumption, FS_Subset, FS_CardinalityType

-----------------------------------------------------------------------------
(* Type correctness. *)

\* The initial state is well typed.
LEMMA InitTypeInv == Init => TypeInv
  <1> SUFFICES ASSUME Init PROVE TypeInv
    OBVIOUS
  <1>1. TypeOK
    BY BoundsAssumption DEF Init, TypeOK, State, Call, Idle
  <1>2. Unpublished = {}
    BY DEF Init, Unpublished, Idle
  <1>3. Budget
    BY <1>2, FS_EmptySet, BoundsAssumption DEF Budget, Init
  <1> QED
    BY <1>1, <1>3 DEF TypeInv

\* What the client keeps after a frame is well typed.
LEMMA ReceiveType ==
  ASSUME TypeOK, NEW s \in Subs, NEW f \in Frame, Receive(s, f)
  PROVE  /\ view' \in [Subs -> State] /\ last' \in [Subs -> 0 .. MaxSeq]
         /\ conn' \in [Subs -> {"off", "run", "closing"}]
  <1>t. /\ view \in [Subs -> State] /\ last \in [Subs -> 0 .. MaxSeq]
        /\ conn \in [Subs -> {"off", "run", "closing"}]
    BY DEF TypeOK
  <1>0. \/ f \in [type : {"delta"}, seq : 1 .. MaxSeq, data : Patch]
        \/ f \in [type : {"snapshot"}, seq : 1 .. MaxSeq, data : State]
    BY DEF Frame
  <1>1. CASE f \in [type : {"snapshot"}, seq : 1 .. MaxSeq, data : State]
    <2>1. f.type = "snapshot" /\ f.data \in State /\ f.seq \in 1 .. MaxSeq
      BY <1>1
    <2>2. /\ view' = [view EXCEPT ![s] = f.data]
          /\ last' = [last EXCEPT ![s] = f.seq]
          /\ conn' = conn
      BY <2>1 DEF Receive
    <2> QED
      BY <1>t, <2>1, <2>2, BoundsAssumption
  <1>2. CASE f \in [type : {"delta"}, seq : 1 .. MaxSeq, data : Patch]
    <2>1. f.type = "delta" /\ f.data \in Patch /\ f.seq \in 1 .. MaxSeq
      BY <1>2
    <2>2. Patched(view[s], f.data) \in State
      BY <2>1, PatchedType DEF TypeOK
    <2>3. /\ view' = view \/ view' = [view EXCEPT ![s] = Patched(view[s], f.data)]
          /\ last' = last \/ last' = [last EXCEPT ![s] = f.seq]
          /\ conn' = conn \/ conn' = [conn EXCEPT ![s] = "closing"]
      BY <2>1 DEF Receive
    <2> QED
      BY <1>t, <2>1, <2>2, <2>3, BoundsAssumption
  <1> QED
    BY <1>0, <1>1, <1>2

\* A caller that turns from c's emission under way to anything else, or stays
\* out of the way, keeps the budget.
LEMMA BudgetKept ==
  ASSUME TypeInv, seq' = seq, Unpublished' \subseteq Unpublished
  PROVE  Budget'
  <1>1. Cardinality(Unpublished') <= Cardinality(Unpublished)
    BY UnpublishedFinite, FS_Subset
  <1>2. Cardinality(Unpublished') \in Nat
    BY UnpublishedFinite, FS_Subset, FS_CardinalityType
  <1>3. Cardinality(Unpublished)' = Cardinality(Unpublished')
    OBVIOUS
  <1> QED
    BY <1>1, <1>2, <1>3, UnpublishedFinite, BoundsAssumption DEF TypeInv, TypeOK, Budget

\* A call under way carries a patch.
LEMMA CallShape ==
  ASSUME TypeOK, NEW c \in Callers, call[c] # Idle
  PROVE  /\ call[c].patch \in Patch
         /\ \A x \in {"publish", "refresh", "collapse"} : [call[c] EXCEPT !.pc = x] \in Call
         /\ \A x \in {"publish", "refresh", "collapse"} : [call[c] EXCEPT !.pc = x].pc = x
  <1>1. call[c] \in [pc : {"publish", "refresh", "collapse"}, patch : Patch]
    BY DEF TypeOK, Call
  <1> QED
    BY <1>1 DEF Call

\* Every step preserves the types and the budget.
LEMMA NextTypeInv == TypeInv /\ [Next]_vars => TypeInv'
  <1> SUFFICES ASSUME TypeInv, [Next]_vars PROVE TypeInv'
    OBVIOUS
  <1>t. TypeOK
    BY DEF TypeInv
  <1>1. ASSUME NEW c \in Callers, NEW p \in PatchesOf(c), Emit(c, p) PROVE TypeInv'
    <2>1. p \in Patch /\ call[c] = Idle /\ store' = Patched(store, p) /\ dirty' = dirty \ DOMAIN p
      BY <1>1, PatchesOfType DEF Emit, applyPatches
    <2>2. /\ call' = [call EXCEPT ![c] = [pc |-> "publish", patch |-> p]]
          /\ seq + Cardinality(Unpublished) < MaxSeq
          /\ UNCHANGED <<seq, replay, subscribers, full, out, stale, conn, direct, view, last>>
      BY <1>1 DEF Emit, applyPatches
    <2>3. store' \in State /\ call' \in [Callers -> Call] /\ dirty' \subseteq Paths
      BY <1>t, <2>1, <2>2, PatchedType DEF TypeOK, Call
    <2>4. TypeOK'
      BY <1>t, <2>2, <2>3 DEF TypeOK
    <2>5. Unpublished' = Unpublished \cup {c} /\ c \notin Unpublished
      BY <1>t, <2>1, <2>2 DEF Unpublished, Idle, TypeOK
    <2>6. Cardinality(Unpublished') = Cardinality(Unpublished) + 1
      BY <2>5, UnpublishedFinite, FS_AddElement
    <2>7. Cardinality(Unpublished)' = Cardinality(Unpublished')
      OBVIOUS
    <2>8. Budget'
      BY <1>t, <2>2, <2>6, <2>7, UnpublishedFinite, BoundsAssumption DEF Budget, TypeOK
    <2> QED
      BY <2>4, <2>8 DEF TypeInv
  <1>2. ASSUME NEW c \in Callers, NEW p \in PatchesOf(c), Set(c, p) PROVE TypeInv'
    <2>1. /\ p \in Patch /\ store' = Patched(store, p) /\ dirty' = dirty \ DOMAIN p
          /\ call' = [call EXCEPT ![c] = [pc |-> "refresh", patch |-> p]]
          /\ UNCHANGED <<seq, replay, subscribers, full, out, stale, conn, direct, view, last>>
      BY <1>2, PatchesOfType DEF Set, applyPatches
    <2>2. store' \in State /\ call' \in [Callers -> Call] /\ dirty' \subseteq Paths
      BY <1>t, <2>1, PatchedType DEF TypeOK, Call
    <2>3. TypeOK'
      BY <1>t, <2>1, <2>2 DEF TypeOK
    <2>4. Unpublished' \subseteq Unpublished
      BY <1>t, <2>1 DEF Unpublished, TypeOK
    <2> QED
      BY <2>1, <2>3, <2>4, BudgetKept DEF TypeInv
  <1>3. ASSUME NEW c \in Callers, NEW p \in PatchesOf(c), NEW D \in SUBSET DOMAIN p,
               applyPatchesFails(c, D, p)
        PROVE  TypeInv'
    <2>1. /\ p \in Patch /\ D \subseteq DOMAIN p
          /\ store' = [x \in Paths |-> IF x \in D THEN p[x] ELSE store[x]]
          /\ dirty' = dirty \cup D
          /\ UNCHANGED <<seq, replay, subscribers, call, full, out, stale, conn, direct, view, last>>
      BY <1>3, PatchesOfType DEF applyPatchesFails
    <2>2. store' \in State /\ dirty' \subseteq Paths
      BY <1>t, <2>1, PatchShape DEF TypeOK, State
    <2>3. TypeOK'
      BY <1>t, <2>1, <2>2 DEF TypeOK
    <2>4. Unpublished' \subseteq Unpublished
      BY <2>1 DEF Unpublished
    <2> QED
      BY <2>1, <2>3, <2>4, BudgetKept DEF TypeInv
  <1>4. ASSUME NEW c \in Callers, publish(c) PROVE TypeInv'
    <2> DEFINE f == Delta(seq + 1, call[c].patch)
               r == [seq |-> seq + 1, patches |-> call[c].patch]
    <2>1. /\ call[c].pc = "publish" /\ full = {}
          /\ seq' = seq + 1
          /\ replay' = Log!Pushed(replay, r)
          /\ out' = SendAll(Room(subscribers), f)
          /\ full' = subscribers \ Room(subscribers)
          /\ call' = [call EXCEPT ![c] = IF full' = {} THEN Idle ELSE [@ EXCEPT !.pc = "collapse"]]
          /\ UNCHANGED <<store, subscribers, stale, conn, direct, view, last, dirty>>
      BY <1>4 DEF publish
    <2>2. call[c] # Idle /\ c \in Unpublished
      BY <2>1 DEF Idle, Unpublished
    <2>3. Cardinality(Unpublished \ {c}) = Cardinality(Unpublished) - 1
          /\ IsFiniteSet(Unpublished \ {c})
      BY <2>2, UnpublishedFinite, FS_RemoveElement
    <2>4. Cardinality(Unpublished \ {c}) \in Nat
      BY <2>3, FS_CardinalityType
    <2>5. seq + 1 \in 1 .. MaxSeq
      BY <1>t, <2>3, <2>4, UnpublishedFinite, BoundsAssumption DEF TypeInv, Budget, TypeOK
    <2>6. f \in Frame /\ r \in Rec
      BY <1>t, <2>2, <2>5, CallShape, FrameTypes DEF Rec
    <2>7. replay' \in Seq(Rec)
      BY <1>t, <2>1, <2>6, PushedType DEF TypeOK, Rec
    <2>8. out' \in [Subs -> Seq(Frame)] /\ \A s \in Subs : Len(out'[s]) <= OutCap
      BY <1>t, <2>1, <2>6, SendAllType DEF TypeOK
    <2>9. call' \in [Callers -> Call] /\ Unpublished' = Unpublished \ {c}
      <3>1. Idle \in Call /\ Idle.pc = "idle"
        BY DEF Call, Idle
      <3>2. [call[c] EXCEPT !.pc = "collapse"] \in Call
            /\ [call[c] EXCEPT !.pc = "collapse"].pc = "collapse"
        BY <1>t, <2>2, CallShape
      <3>3. call'[c] \in Call /\ call'[c].pc # "publish"
        BY <1>t, <2>1, <3>1, <3>2 DEF TypeOK
      <3>4. \A x \in Callers : x # c => call'[x] = call[x]
        BY <1>t, <2>1 DEF TypeOK
      <3>5. call' \in [Callers -> Call]
        BY <1>t, <2>1, <3>1, <3>2 DEF TypeOK
      <3>6. Unpublished' = Unpublished \ {c}
        BY <3>3, <3>4 DEF Unpublished
      <3> QED
        BY <3>5, <3>6
    <2>10. full' \subseteq subscribers'
      BY <2>1
    <2>11. TypeOK'
      BY <1>t, <2>1, <2>5, <2>7, <2>8, <2>9, <2>10 DEF TypeOK, Rec
    <2>12. Cardinality(Unpublished)' = Cardinality(Unpublished \ {c})
      BY <2>9
    <2>13. Budget'
      BY <1>t, <2>1, <2>3, <2>12, UnpublishedFinite, BoundsAssumption DEF TypeInv, Budget, TypeOK
    <2> QED
      BY <2>11, <2>13 DEF TypeInv
  <1>5. ASSUME NEW c \in Callers, NEW s \in Subs, collapse(c, s) PROVE TypeInv'
    <2>1. /\ call[c].pc = "collapse"
          /\ full' = full \ {s}
          /\ call' = [call EXCEPT ![c] = IF full' = {} THEN Idle ELSE @]
          /\ out' = SendAll(Room({s}), Snapshot(seq, store))
          /\ stale' = [stale EXCEPT ![s] = @ \/ s \notin Room({s})]
          /\ UNCHANGED <<store, seq, replay, subscribers, conn, direct, view, last, dirty>>
      BY <1>5 DEF collapse
    <2>2. Snapshot(seq, store) \in Frame
      BY <1>t, FrameTypes DEF TypeOK
    <2>3. out' \in [Subs -> Seq(Frame)] /\ \A x \in Subs : Len(out'[x]) <= OutCap
      BY <1>t, <2>1, <2>2, SendAllType
    <2>4. call' \in [Callers -> Call] /\ Unpublished' \subseteq Unpublished
      BY <1>t, <2>1 DEF TypeOK, Call, Idle, Unpublished
    <2>5. stale' \in [Subs -> BOOLEAN]
      BY <1>t, <2>1 DEF TypeOK
    <2>6. TypeOK'
      BY <1>t, <2>1, <2>3, <2>4, <2>5 DEF TypeOK
    <2> QED
      BY <2>1, <2>4, <2>6, BudgetKept DEF TypeInv
  <1>6. ASSUME NEW c \in Callers, refreshAll(c) PROVE TypeInv'
    <2>1. /\ out' = SendAll(Room(subscribers), Snapshot(seq, store))
          /\ stale' = [s \in Subs |-> stale[s] \/ s \in subscribers \ Room(subscribers)]
          /\ call' = [call EXCEPT ![c] = Idle]
          /\ UNCHANGED <<store, seq, replay, subscribers, full, conn, direct, view, last, dirty>>
      BY <1>6 DEF refreshAll
    <2>2. Snapshot(seq, store) \in Frame
      BY <1>t, FrameTypes DEF TypeOK
    <2>3. out' \in [Subs -> Seq(Frame)] /\ \A x \in Subs : Len(out'[x]) <= OutCap
      BY <1>t, <2>1, <2>2, SendAllType DEF TypeOK
    <2>4. call' \in [Callers -> Call] /\ Unpublished' \subseteq Unpublished
      BY <1>t, <2>1 DEF TypeOK, Call, Idle, Unpublished
    <2>5. stale' \in [Subs -> BOOLEAN]
      BY <2>1
    <2>6. TypeOK'
      BY <1>t, <2>1, <2>3, <2>4, <2>5 DEF TypeOK
    <2> QED
      BY <2>1, <2>4, <2>6, BudgetKept DEF TypeInv
  <1>7. ASSUME NEW s \in Subs, NEW q \in 0 .. MaxSeq, subscribeWithResume(s, q) PROVE TypeInv'
    <2>1. /\ full = {}
          /\ subscribers' = subscribers \cup {s}
          /\ direct' = [direct EXCEPT ![s] = FirstFrames(q)]
          /\ conn' = [conn EXCEPT ![s] = "run"]
          /\ UNCHANGED <<store, seq, replay, call, full, out, stale, view, last, dirty>>
      BY <1>7 DEF subscribeWithResume
    <2>2. FirstFrames(q) \in Seq(Frame)
      BY <1>t, FirstFramesType, BoundsAssumption
    <2>3. TypeOK'
      BY <1>t, <2>1, <2>2 DEF TypeOK
    <2>4. Unpublished' \subseteq Unpublished
      BY <2>1 DEF Unpublished
    <2> QED
      BY <2>1, <2>3, <2>4, BudgetKept DEF TypeInv
  <1>8. ASSUME NEW s \in Subs, sendFirst(s) PROVE TypeInv'
    <2>1. /\ direct[s] # <<>>
          /\ Receive(s, Head(direct[s]))
          /\ direct' = [direct EXCEPT ![s] = Tail(@)]
          /\ UNCHANGED <<store, seq, replay, subscribers, call, full, out, stale, dirty>>
      BY <1>8 DEF sendFirst, serverVars
    <2>2. Head(direct[s]) \in Frame /\ Tail(direct[s]) \in Seq(Frame)
      BY <1>t, <2>1 DEF TypeOK
    <2>3. /\ view' \in [Subs -> State] /\ last' \in [Subs -> 0 .. MaxSeq]
          /\ conn' \in [Subs -> {"off", "run", "closing"}]
      BY <1>t, <2>1, <2>2, ReceiveType
    <2>4. TypeOK'
      BY <1>t, <2>1, <2>2, <2>3 DEF TypeOK
    <2>5. Unpublished' \subseteq Unpublished
      BY <2>1 DEF Unpublished
    <2> QED
      BY <2>1, <2>4, <2>5, BudgetKept DEF TypeInv
  <1>9. ASSUME NEW s \in Subs, writerLoop(s) PROVE TypeInv'
    <2>1. /\ out[s] # <<>>
          /\ Receive(s, Head(out[s]))
          /\ out' = [out EXCEPT ![s] = Tail(@)]
          /\ UNCHANGED <<store, seq, replay, subscribers, call, full, stale, direct, dirty>>
      BY <1>9 DEF writerLoop
    <2>2. /\ Head(out[s]) \in Frame /\ Tail(out[s]) \in Seq(Frame)
          /\ Len(Tail(out[s])) = Len(out[s]) - 1 /\ Len(out[s]) \in Nat
      BY <1>t, <2>1 DEF TypeOK
    <2>3. /\ view' \in [Subs -> State] /\ last' \in [Subs -> 0 .. MaxSeq]
          /\ conn' \in [Subs -> {"off", "run", "closing"}]
      BY <1>t, <2>1, <2>2, ReceiveType
    <2>4. out' \in [Subs -> Seq(Frame)] /\ \A x \in Subs : Len(out'[x]) <= OutCap
      BY <1>t, <2>1, <2>2, BoundsAssumption DEF TypeOK
    <2>5. TypeOK'
      BY <1>t, <2>1, <2>3, <2>4 DEF TypeOK
    <2>6. Unpublished' \subseteq Unpublished
      BY <2>1 DEF Unpublished
    <2> QED
      BY <2>1, <2>5, <2>6, BudgetKept DEF TypeInv
  <1>10. ASSUME NEW s \in Subs, hangUp(s) PROVE TypeInv'
    <2>1. /\ conn' = [conn EXCEPT ![s] = "closing"]
          /\ UNCHANGED <<store, seq, replay, subscribers, call, full, out, stale, direct, view,
                         last, dirty>>
      BY <1>10 DEF hangUp, serverVars, clientVars
    <2>2. TypeOK'
      BY <1>t, <2>1 DEF TypeOK
    <2>3. Unpublished' \subseteq Unpublished
      BY <2>1 DEF Unpublished
    <2> QED
      BY <2>1, <2>2, <2>3, BudgetKept DEF TypeInv
  <1>11. ASSUME NEW s \in Subs, unsubscribe(s) PROVE TypeInv'
    <2>1. /\ full = {}
          /\ subscribers' = subscribers \ {s}
          /\ out' = [out EXCEPT ![s] = <<>>]
          /\ stale' = [stale EXCEPT ![s] = FALSE]
          /\ direct' = [direct EXCEPT ![s] = <<>>]
          /\ conn' = [conn EXCEPT ![s] = "off"]
          /\ UNCHANGED <<store, seq, replay, call, full, view, last, dirty>>
      BY <1>11 DEF unsubscribe
    <2>2. TypeOK'
      BY <1>t, <2>1, BoundsAssumption DEF TypeOK
    <2>3. Unpublished' \subseteq Unpublished
      BY <2>1 DEF Unpublished
    <2> QED
      BY <2>1, <2>2, <2>3, BudgetKept DEF TypeInv
  <1>12. CASE migrateAway
    <2>1. /\ full = {}
          /\ seq + Cardinality(Unpublished) < MaxSeq
          /\ seq' = seq + 1
          /\ subscribers' = {}
          /\ out' = [s \in Subs |-> <<>>]
          /\ stale' = [s \in Subs |-> FALSE]
          /\ direct' = [s \in Subs |-> <<>>]
          /\ conn' = [s \in Subs |-> "off"]
          /\ last' = [s \in Subs |-> IF s \in subscribers THEN 0 ELSE last[s]]
          /\ UNCHANGED <<store, replay, call, full, view, dirty>>
      BY <1>12 DEF migrateAway
    <2>2. seq' \in 1 .. MaxSeq /\ last' \in [Subs -> 0 .. MaxSeq]
      BY <1>t, <2>1, UnpublishedFinite, BoundsAssumption DEF TypeOK
    <2>3. /\ out' \in [Subs -> Seq(Frame)] /\ direct' \in [Subs -> Seq(Frame)]
          /\ \A s \in Subs : Len(out'[s]) <= OutCap
      BY <2>1, BoundsAssumption
    <2>4. TypeOK'
      BY <1>t, <2>1, <2>2, <2>3 DEF TypeOK
    <2>5. Cardinality(Unpublished)' = Cardinality(Unpublished)
      BY <2>1 DEF Unpublished
    <2>6. Budget'
      BY <1>t, <2>1, <2>5, UnpublishedFinite, BoundsAssumption DEF Budget, TypeOK
    <2> QED
      BY <2>4, <2>6 DEF TypeInv
  <1>13. CASE UNCHANGED vars
    <2>1. TypeOK'
      BY <1>t, <1>13 DEF vars, TypeOK
    <2>2. Unpublished' \subseteq Unpublished /\ seq' = seq
      BY <1>13 DEF vars, Unpublished
    <2> QED
      BY <2>1, <2>2, BudgetKept DEF TypeInv
  <1>q. \A s \in Subs : last[s] \in 0 .. MaxSeq /\ 0 \in 0 .. MaxSeq
    BY <1>t, BoundsAssumption DEF TypeOK
  <1> QED
    BY <1>1, <1>2, <1>3, <1>4, <1>5, <1>6, <1>7, <1>8, <1>9, <1>10, <1>11, <1>12, <1>13, <1>q
       DEF Next, Publishing

\* For every number of callers, clients, paths and values and all capacities:
\* no queue outgrows its channel and no counter passes its bound.
THEOREM SceneTypeCorrect == Spec => []TypeOK
  <1>1. TypeInv => TypeOK
    BY DEF TypeInv
  <1> QED
    BY <1>1, InitTypeInv, NextTypeInv, PTL DEF Spec

-----------------------------------------------------------------------------
(* Numbers in sequence. *)

\* The number the client will have when fs has arrived.
EndOf(n, fs) == IF fs = <<>> THEN n ELSE fs[Len(fs)].seq

\* A frame's number is a positive number.
LEMMA FrameSeq ==
  ASSUME NEW f \in Frame
  PROVE  f.seq \in Nat /\ f.seq > 0 /\ f.type \in {"delta", "snapshot"}
  <1>1. CASE f \in [type : {"delta"}, seq : 1 .. MaxSeq, data : Patch]
    BY <1>1
  <1>2. CASE f \in [type : {"snapshot"}, seq : 1 .. MaxSeq, data : State]
    BY <1>2
  <1> QED
    BY <1>1, <1>2 DEF Frame

\* One more frame in sequence.
LEMMA AppendInSequence ==
  ASSUME NEW n \in Nat, NEW fs \in Seq(Frame), NEW f \in Frame, InSequence(n, fs),
         f.type = "delta" => EndOf(n, fs) > 0 /\ f.seq = EndOf(n, fs) + 1,
         f.type # "delta" => EndOf(n, fs) <= f.seq
  PROVE  InSequence(n, Append(fs, f)) /\ EndOf(n, Append(fs, f)) = f.seq
  <1> DEFINE gs == Append(fs, f)
  <1>1. /\ gs \in Seq(Frame) /\ Len(gs) = Len(fs) + 1 /\ gs[Len(fs) + 1] = f
        /\ \A i \in 1 .. Len(fs) : gs[i] = fs[i]
        /\ Len(fs) \in Nat /\ gs # <<>>
    OBVIOUS
  <1> HIDE DEF gs
  <1>2. EndOf(n, gs) = f.seq
    BY <1>1 DEF EndOf
  <1>3. ASSUME NEW i \in 1 .. Len(gs)
        PROVE  LET prev == IF i = 1 THEN n ELSE gs[i - 1].seq
               IN  IF gs[i].type = "delta" THEN prev > 0 /\ gs[i].seq = prev + 1
                                           ELSE prev <= gs[i].seq
    <2>1. CASE i \in 1 .. Len(fs)
      <3>1. gs[i] = fs[i] /\ (i # 1 => gs[i - 1] = fs[i - 1])
        BY <1>1, <2>1
      <3> QED
        BY <2>1, <3>1 DEF InSequence
    <2>2. CASE i = Len(fs) + 1
      <3>1. EndOf(n, fs) = IF i = 1 THEN n ELSE gs[i - 1].seq
        BY <1>1, <2>2 DEF EndOf
      <3> QED
        BY <1>1, <2>2, <3>1
    <2> QED
      BY <1>1, <2>1, <2>2
  <1>4. InSequence(n, gs)
    BY <1>3 DEF InSequence
  <1> QED
    BY <1>2, <1>4 DEF gs

\* The first frame arrives.
LEMMA TailInSequence ==
  ASSUME NEW n \in Nat, NEW fs \in Seq(Frame), fs # <<>>, InSequence(n, fs)
  PROVE  /\ InSequence(Head(fs).seq, Tail(fs))
         /\ EndOf(Head(fs).seq, Tail(fs)) = EndOf(n, fs)
         /\ Head(fs).type = "delta" => n > 0 /\ Head(fs).seq = n + 1
  <1> DEFINE gs == Tail(fs)
  <1>1. /\ gs \in Seq(Frame) /\ Len(gs) = Len(fs) - 1 /\ Len(fs) \in Nat /\ Len(fs) > 0
        /\ \A i \in 1 .. Len(gs) : gs[i] = fs[i + 1]
        /\ Head(fs) = fs[1]
    OBVIOUS
  <1>e. gs = <<>> <=> Len(gs) = 0
    <2>1. gs \in Seq(Frame)
      BY <1>1
    <2> HIDE DEF gs
    <2> QED
      BY <2>1
  <1> HIDE DEF gs
  <1>2. Head(fs).type = "delta" => n > 0 /\ Head(fs).seq = n + 1
    BY <1>1 DEF InSequence
  <1>3. EndOf(Head(fs).seq, gs) = EndOf(n, fs)
    <2>1. CASE gs = <<>>
      <3>1. Len(fs) = 1
        BY <1>1, <1>e, <2>1
      <3> QED
        BY <1>1, <2>1, <3>1 DEF EndOf
    <2>2. CASE gs # <<>>
      <3>1. gs[Len(gs)] = fs[Len(fs)]
        BY <1>1, <1>e, <2>2
      <3> QED
        BY <2>2, <3>1 DEF EndOf
    <2> QED
      BY <2>1, <2>2
  <1>4. ASSUME NEW i \in 1 .. Len(gs)
        PROVE  LET prev == IF i = 1 THEN Head(fs).seq ELSE gs[i - 1].seq
               IN  IF gs[i].type = "delta" THEN prev > 0 /\ gs[i].seq = prev + 1
                                           ELSE prev <= gs[i].seq
    <2>1. gs[i] = fs[i + 1] /\ i + 1 \in 1 .. Len(fs) /\ i + 1 # 1
      BY <1>1
    <2>2. (IF i = 1 THEN Head(fs).seq ELSE gs[i - 1].seq) = fs[(i + 1) - 1].seq
      BY <1>1
    <2> QED
      BY <2>1, <2>2 DEF InSequence
  <1>5. InSequence(Head(fs).seq, gs)
    BY <1>4 DEF InSequence
  <1> QED
    BY <1>2, <1>3, <1>5 DEF gs

\* First frames and queue, as one stream.
LEMMA Stream ==
  ASSUME NEW d \in Seq(Frame), NEW o \in Seq(Frame)
  PROVE  /\ d \o o \in Seq(Frame)
         /\ d # <<>> => d \o o # <<>> /\ Tail(d) \o o = Tail(d \o o) /\ Head(d \o o) = Head(d)
         /\ d = <<>> => d \o o = o
         /\ o = <<>> => d \o o = d
         /\ \A f \in Frame : d \o Append(o, f) = Append(d \o o, f)
  <1>1. d \o o \in Seq(Frame)
    OBVIOUS
  <1>2. d # <<>> => d \o o # <<>> /\ Head(d \o o) = Head(d)
    OBVIOUS
  <1>3. d # <<>> => Tail(d) \o o = Tail(d \o o)
    OBVIOUS
  <1>4. d = <<>> => d \o o = o
    OBVIOUS
  <1>5. o = <<>> => d \o o = d
    OBVIOUS
  <1>6. \A f \in Frame : d \o Append(o, f) = Append(d \o o, f)
    OBVIOUS
  <1> QED
    BY <1>1, <1>2, <1>3, <1>4, <1>5, <1>6

-----------------------------------------------------------------------------
(* The invariant. *)

\* What is on its way to s.
Pipe(s) == direct[s] \o out[s]

\* The recorded deltas are the latest ones, without a hole.
Contiguous ==
  /\ \A i \in 1 .. Len(replay) : replay[i].seq = seq - Len(replay) + i
  /\ replay = <<>> => seq = 1

\* A connection is registered while it runs, and leaves nothing behind.
Registered ==
  \A s \in Subs :
    /\ conn[s] = "off" => out[s] = <<>> /\ direct[s] = <<>> /\ s \notin subscribers /\ ~ stale[s]
    /\ conn[s] = "run" => s \in subscribers

\* No client is ahead of the scene, and nothing on its way to it is.
Bounded(s) ==
  /\ last[s] <= seq
  /\ \A i \in 1 .. Len(direct[s]) : direct[s][i].seq <= seq
  /\ \A i \in 1 .. Len(out[s]) : out[s][i].seq <= seq

\* What is on its way to s is in sequence and ends at the scene's number, or
\* one before it while the fan-out still owes s the collapse.
Flow(s) ==
  conn[s] = "run" /\ ~ stale[s] =>
    /\ InSequence(last[s], Pipe(s))
    /\ EndOf(last[s], Pipe(s)) = IF s \in full THEN seq - 1 ELSE seq

GapInv ==
  /\ TypeInv
  /\ ~ SwitchesAway
  /\ Contiguous
  /\ Registered
  /\ \A s \in Subs : Bounded(s) /\ Flow(s)

\* The types the steps below use.
LEMMA Types ==
  ASSUME TypeOK, NEW s \in Subs
  PROVE  /\ direct[s] \in Seq(Frame) /\ out[s] \in Seq(Frame) /\ Pipe(s) \in Seq(Frame)
         /\ last[s] \in Nat /\ seq \in Nat /\ seq > 0 /\ replay \in Seq(Rec)
  <1>1. direct[s] \in Seq(Frame) /\ out[s] \in Seq(Frame)
    BY DEF TypeOK
  <1>2. last[s] \in Nat /\ seq \in Nat /\ seq > 0 /\ replay \in Seq(Rec)
    BY BoundsAssumption DEF TypeOK, Rec
  <1> QED
    BY <1>1, <1>2, Stream DEF Pipe

\* The replayed deltas are q + 1, q + 2, ... up to the scene's number.
LEMMA ReplayFills ==
  ASSUME TypeOK, Contiguous, NEW q \in Nat, 0 < q, q <= seq, Log!Covers(replay, q)
  PROVE  LET rs == Log!Since(replay, q)
         IN  rs \in Seq(Rec) /\ Len(rs) = seq - q /\ \A i \in 1 .. Len(rs) : rs[i].seq = q + i
  <1> DEFINE k == Log!After(replay, q)
             n == Len(replay)
  <1>1. replay \in Seq(Rec) /\ n \in Nat /\ seq \in Nat /\ seq > 0
    BY BoundsAssumption DEF TypeOK, Rec
  <1>2. /\ k \in 1 .. n + 1
        /\ \A i \in 1 .. n : i < k => replay[i].seq <= q
        /\ k <= n => replay[k].seq > q
    BY <1>1, AfterType
  <1>3. /\ Log!Since(replay, q) \in Seq(Rec)
        /\ Len(Log!Since(replay, q)) = n - k + 1
        /\ \A i \in 1 .. Len(Log!Since(replay, q)) : Log!Since(replay, q)[i] = replay[k + i - 1]
    BY <1>1, SinceType
  <1>4. \A i \in 1 .. n : replay[i].seq = seq - n + i
    BY DEF Contiguous
  <1>5. CASE replay = <<>>
    <2>1. n = 0 /\ seq = 1 /\ q = 1 /\ k = 1
      BY <1>1, <1>2, <1>5 DEF Contiguous
    <2> QED
      BY <1>3, <2>1
  <1>6. CASE replay # <<>>
    <2>1. n > 0
      BY <1>1, <1>6
    <2>2. seq - n + 1 <= q + 1
      BY <1>1, <1>4, <1>6, <2>1 DEF Log!Covers
    <2> HIDE DEF k, n
    <2>3. k > 1 => seq - n + (k - 1) <= q
      <3> SUFFICES ASSUME k > 1 PROVE seq - n + (k - 1) <= q
        OBVIOUS
      <3> DEFINE j == k - 1
      <3>1. j \in 1 .. n /\ j < k
        BY <1>1, <1>2
      <3> HIDE DEF j
      <3>2. replay[j].seq <= q /\ replay[j].seq = seq - n + j
        BY <1>2, <1>4, <3>1
      <3> QED
        BY <3>2 DEF j
    <2>4. k <= n => seq - n + k > q
      BY <1>1, <1>2, <1>4
    <2>5. k = q - (seq - n) + 1
      BY <1>1, <1>2, <2>1, <2>2, <2>3, <2>4
    <2>6. \A i \in 1 .. n - k + 1 : replay[k + i - 1].seq = q + i
      BY <1>1, <1>2, <1>4, <2>5
    <2> DEFINE rs == Log!Since(replay, q)
    <2>7. rs \in Seq(Rec) /\ Len(rs) = n - k + 1 /\ \A i \in 1 .. Len(rs) : rs[i] = replay[k + i - 1]
      BY <1>3
    <2> HIDE DEF rs
    <2>8. Len(rs) = seq - q /\ \A i \in 1 .. Len(rs) : rs[i].seq = q + i
      <3>1. Len(rs) = seq - q
        BY <1>1, <1>2, <2>5, <2>7
      <3>2. ASSUME NEW i \in 1 .. Len(rs) PROVE rs[i].seq = q + i
        BY <2>6, <2>7
      <3> QED
        BY <3>1, <3>2
    <2> QED
      BY <2>7, <2>8 DEF rs
  <1> QED
    BY <1>5, <1>6

\* The answer to a subscription continues what the client has.
LEMMA FirstFramesFill ==
  ASSUME TypeOK, Contiguous, NEW s \in Subs, NEW q \in Nat, q \in {0, last[s]}, last[s] <= seq
  PROVE  /\ InSequence(last[s], FirstFrames(q))
         /\ EndOf(last[s], FirstFrames(q)) = seq
         /\ \A i \in 1 .. Len(FirstFrames(q)) : FirstFrames(q)[i].seq <= seq
  <1>1. seq \in Nat /\ seq > 0 /\ last[s] \in Nat
    BY Types
  <1>2. CASE 0 < q /\ q <= seq /\ Log!Covers(replay, q)
    <2> DEFINE rs == Log!Since(replay, q)
               fs == [i \in 1 .. Len(rs) |-> Delta(rs[i].seq, rs[i].patches)]
    <2>1. rs \in Seq(Rec) /\ Len(rs) = seq - q /\ \A i \in 1 .. Len(rs) : rs[i].seq = q + i
      BY <1>2, ReplayFills
    <2>2. FirstFrames(q) = fs /\ q = last[s]
      BY <1>2 DEF FirstFrames
    <2> HIDE DEF rs
    <2>3. Len(fs) = seq - q /\ \A i \in 1 .. seq - q : fs[i].type = "delta" /\ fs[i].seq = q + i
      BY <1>1, <1>2, <2>1 DEF Delta
    <2>s. fs \in Seq(Frame)
      BY <2>2, FirstFramesType
    <2> HIDE DEF fs
    <2>4. fs = <<>> <=> seq - q = 0
      BY <2>s, <2>3
    <2>5. InSequence(q, fs)
      BY <1>1, <1>2, <2>3 DEF InSequence
    <2>6. EndOf(q, fs) = seq
      BY <1>1, <1>2, <2>3, <2>4 DEF EndOf
    <2>7. \A i \in 1 .. Len(fs) : fs[i].seq <= seq
      BY <1>1, <1>2, <2>3
    <2> QED
      BY <2>2, <2>5, <2>6, <2>7
  <1>3. CASE ~ (0 < q /\ q <= seq /\ Log!Covers(replay, q))
    <2>1. FirstFrames(q) = <<Snapshot(seq, store)>>
      BY <1>3 DEF FirstFrames
    <2>2. Snapshot(seq, store).type = "snapshot" /\ Snapshot(seq, store).seq = seq
      BY DEF Snapshot
    <2> QED
      BY <1>1, <2>1, <2>2 DEF InSequence, EndOf
  <1> QED
    BY <1>2, <1>3

\* One more emission is recorded without a hole.
LEMMA PushContiguous ==
  ASSUME TypeOK, Contiguous, NEW r \in Rec, r.seq = seq + 1, seq' = seq + 1,
         replay' = Log!Pushed(replay, r)
  PROVE  Contiguous'
  <1>1. replay \in Seq(Rec) /\ Len(replay) \in Nat /\ seq \in Nat
    BY BoundsAssumption DEF TypeOK, Rec
  <1>2. CASE Len(replay) < ReplayCap
    <2>1. replay' = Append(replay, r)
      BY <1>2 DEF Log!Pushed
    <2>2. /\ Len(replay') = Len(replay) + 1 /\ replay' # <<>>
          /\ \A i \in 1 .. Len(replay) : replay'[i] = replay[i]
          /\ replay'[Len(replay) + 1] = r
      BY <1>1, <2>1
    <2>3. \A i \in 1 .. Len(replay') : replay'[i].seq = seq' - Len(replay') + i
      BY <1>1, <2>2 DEF Contiguous
    <2> QED
      BY <2>2, <2>3 DEF Contiguous
  <1>3. CASE ~ (Len(replay) < ReplayCap)
    <2>0. replay # <<>>
      BY <1>3, BoundsAssumption
    <2>1. replay' = Append(Tail(replay), r)
      BY <1>3 DEF Log!Pushed
    <2>2. /\ Tail(replay) \in Seq(Rec) /\ Len(Tail(replay)) = Len(replay) - 1
          /\ \A i \in 1 .. Len(replay) - 1 : Tail(replay)[i] = replay[i + 1]
      BY <1>1, <2>0
    <2>3. /\ Len(replay') = Len(replay) /\ replay' # <<>>
          /\ \A i \in 1 .. Len(replay) - 1 : replay'[i] = replay[i + 1]
          /\ replay'[Len(replay)] = r
      BY <1>1, <2>0, <2>1, <2>2
    <2>4. \A i \in 1 .. Len(replay') : replay'[i].seq = seq' - Len(replay') + i
      BY <1>1, <2>3 DEF Contiguous
    <2> QED
      BY <2>3, <2>4 DEF Contiguous
  <1> QED
    BY <1>2, <1>3

-----------------------------------------------------------------------------
(* What a step does to one client. *)

\* Nothing.
LEMMA Undisturbed ==
  ASSUME GapInv, NEW s \in Subs, seq' = seq,
         direct'[s] = direct[s], out'[s] = out[s], last'[s] = last[s],
         conn'[s] = "run" => conn[s] = "run", stale[s] => stale'[s],
         s \in full' <=> s \in full
  PROVE  Bounded(s)' /\ Flow(s)'
  <1>1. Bounded(s) /\ Flow(s)
    BY DEF GapInv
  <1>2. Pipe(s)' = Pipe(s)
    BY DEF Pipe
  <1>3. Bounded(s)'
    BY <1>1 DEF Bounded
  <1>4. Flow(s)'
    BY <1>1, <1>2 DEF Flow
  <1> QED
    BY <1>3, <1>4

\* One more frame is queued for it: a Delta right after what it is owed, or a
\* Snapshot, at the scene's number.
LEMMA Queued ==
  ASSUME GapInv, NEW s \in Subs, NEW f \in Frame,
         out'[s] = Append(out[s], f),
         direct'[s] = direct[s], last'[s] = last[s], conn'[s] = conn[s], stale[s] => stale'[s],
         seq' \in Nat, seq <= seq', f.seq = seq', s \notin full',
         f.type = "delta" => s \notin full /\ seq' = seq + 1
  PROVE  Bounded(s)' /\ Flow(s)'
  <1>1. Bounded(s) /\ Flow(s)
    BY DEF GapInv
  <1>2. /\ direct[s] \in Seq(Frame) /\ out[s] \in Seq(Frame) /\ Pipe(s) \in Seq(Frame)
        /\ last[s] \in Nat /\ seq \in Nat /\ seq > 0
    BY Types DEF GapInv, TypeInv
  <1>3. Bounded(s)'
    <2>1. \A i \in 1 .. Len(direct'[s]) : direct'[s][i].seq <= seq'
      <3> SUFFICES ASSUME NEW i \in 1 .. Len(direct[s]) PROVE direct[s][i].seq <= seq'
        OBVIOUS
      <3>1. direct[s][i] \in Frame /\ direct[s][i].seq <= seq
        BY <1>1, <1>2 DEF Bounded
      <3> QED
        BY <1>2, <3>1, FrameSeq
    <2>2. \A i \in 1 .. Len(out'[s]) : out'[s][i].seq <= seq'
      <3> SUFFICES ASSUME NEW i \in 1 .. Len(out'[s]) PROVE out'[s][i].seq <= seq'
        OBVIOUS
      <3>1. CASE i \in 1 .. Len(out[s])
        <4>1. out[s][i] \in Frame /\ Append(out[s], f)[i] = out[s][i]
          BY <1>2, <3>1
        <4>2. out[s][i].seq <= seq
          BY <1>1, <3>1 DEF Bounded
        <4> QED
          BY <1>2, <4>1, <4>2, FrameSeq
      <3>2. CASE i = Len(out[s]) + 1
        <4>1. out'[s][i] = f
          BY <1>2, <3>2
        <4> QED
          BY <4>1
      <3> QED
        BY <1>2, <3>1, <3>2
    <2>3. last'[s] <= seq'
      BY <1>1, <1>2 DEF Bounded
    <2> QED
      BY <2>1, <2>2, <2>3 DEF Bounded
  <1>4. Flow(s)'
    <2> SUFFICES ASSUME conn[s] = "run", ~ stale[s]
                 PROVE  /\ InSequence(last[s], Append(Pipe(s), f))
                        /\ EndOf(last[s], Append(Pipe(s), f)) = seq'
      <3>0. direct[s] \o Append(out[s], f) = Append(direct[s] \o out[s], f)
        BY <1>2, Stream
      <3>1. Pipe(s)' = Append(Pipe(s), f)
        BY <3>0 DEF Pipe
      <3> QED
        BY <3>1 DEF Flow
    <2>1. /\ InSequence(last[s], Pipe(s))
          /\ EndOf(last[s], Pipe(s)) = IF s \in full THEN seq - 1 ELSE seq
      BY <1>1 DEF Flow
    <2>2. f.type = "delta" => EndOf(last[s], Pipe(s)) > 0 /\ f.seq = EndOf(last[s], Pipe(s)) + 1
      BY <1>2, <2>1
    <2>3. f.type # "delta" => EndOf(last[s], Pipe(s)) <= f.seq
      BY <1>2, <2>1
    <2> QED
      BY <1>2, <2>1, <2>2, <2>3, AppendInSequence
  <1> QED
    BY <1>3, <1>4

\* What a frame does to the clients' trackers and connections.
LEMMA ReceiveEffect ==
  ASSUME TypeOK, NEW s \in Subs, NEW f \in Frame, Receive(s, f)
  PROVE  /\ \A x \in Subs : x # s => last'[x] = last[x] /\ conn'[x] = conn[x]
         /\ last'[s] \in {last[s], f.seq}
         /\ conn'[s] \in {conn[s], "closing"}
         /\ (f.type = "delta" => f.seq = last[s] + 1) => last'[s] = f.seq
  <1>1. last \in [Subs -> 0 .. MaxSeq] /\ conn \in [Subs -> {"off", "run", "closing"}]
    BY DEF TypeOK
  <1>2. f.seq \in Nat /\ f.type \in {"delta", "snapshot"} /\ last[s] \in Nat
    BY <1>1, FrameSeq
  <1> QED
    BY <1>1, <1>2 DEF Receive

\* The frame that heads the stream arrives.
LEMMA Arrives ==
  ASSUME GapInv, NEW s \in Subs, conn[s] = "run", Pipe(s) # <<>>,
         Receive(s, Head(Pipe(s))), Pipe(s)' = Tail(Pipe(s)),
         seq' = seq, stale' = stale, full' = full
  PROVE  Flow(s)'
  <1> DEFINE f == Head(Pipe(s))
  <1>1. Pipe(s) \in Seq(Frame) /\ last[s] \in Nat /\ f \in Frame
    BY Types DEF GapInv, TypeInv
  <1> SUFFICES ASSUME ~ stale[s]
               PROVE  /\ InSequence(last'[s], Tail(Pipe(s)))
                      /\ EndOf(last'[s], Tail(Pipe(s))) = IF s \in full THEN seq - 1 ELSE seq
    BY DEF Flow
  <1>2. /\ InSequence(last[s], Pipe(s))
        /\ EndOf(last[s], Pipe(s)) = IF s \in full THEN seq - 1 ELSE seq
    BY DEF GapInv, Flow
  <1>3. /\ InSequence(f.seq, Tail(Pipe(s)))
        /\ EndOf(f.seq, Tail(Pipe(s))) = EndOf(last[s], Pipe(s))
        /\ f.type = "delta" => f.seq = last[s] + 1
    BY <1>1, <1>2, TailInSequence
  <1>4. last'[s] = f.seq
    <2>1. TypeOK
      BY DEF GapInv, TypeInv
    <2> QED
      BY <1>1, <1>3, <2>1, ReceiveEffect
  <1> QED
    BY <1>2, <1>3, <1>4

-----------------------------------------------------------------------------
(* The invariant is preserved. *)

\* It holds initially.
LEMMA InitGapInv == Init /\ ~ SwitchesAway => GapInv
  <1> SUFFICES ASSUME Init, ~ SwitchesAway PROVE GapInv
    OBVIOUS
  <1>1. TypeInv
    BY InitTypeInv
  <1>2. Contiguous /\ Registered
    BY DEF Init, Contiguous, Registered
  <1>3. \A s \in Subs : Bounded(s) /\ Flow(s)
    BY DEF Init, Bounded, Flow
  <1> QED
    BY <1>1, <1>2, <1>3 DEF GapInv

\* A step of the callers before scene.mu, or of a handler that begins to leave.
LEMMA OutOfTheWay ==
  ASSUME GapInv, TypeInv',
         UNCHANGED <<seq, replay, subscribers, full, out, stale, direct, last>>,
         \A s \in Subs : conn'[s] = conn[s] \/ conn'[s] = "closing"
  PROVE  GapInv'
  <1>1. Contiguous' /\ Registered'
    BY DEF GapInv, Contiguous, Registered
  <1>2. \A s \in Subs : Bounded(s)' /\ Flow(s)'
    BY Undisturbed
  <1> QED
    BY <1>1, <1>2 DEF GapInv

\* Every step preserves it.
LEMMA NextGapInv == GapInv /\ [Next]_vars => GapInv'
  <1> SUFFICES ASSUME GapInv, [Next]_vars PROVE GapInv'
    OBVIOUS
  <1>t. TypeOK /\ TypeInv' /\ TypeOK' /\ Contiguous /\ Registered /\ ~ SwitchesAway
    BY NextTypeInv DEF GapInv, TypeInv
  <1>1. ASSUME NEW c \in Callers, NEW p \in PatchesOf(c), Emit(c, p) \/ Set(c, p)
        PROVE  GapInv'
    BY <1>1, <1>t, OutOfTheWay DEF Emit, Set, applyPatches
  <1>2. ASSUME NEW c \in Callers, NEW p \in PatchesOf(c), NEW D \in SUBSET DOMAIN p,
               applyPatchesFails(c, D, p)
        PROVE  GapInv'
    BY <1>2, <1>t, OutOfTheWay DEF applyPatchesFails
  <1>3. ASSUME NEW c \in Callers, publish(c) PROVE GapInv'
    <2> DEFINE f == Delta(seq + 1, call[c].patch)
               r == [seq |-> seq + 1, patches |-> call[c].patch]
    <2>1. /\ call[c].pc = "publish" /\ full = {} /\ seq' = seq + 1
          /\ replay' = Log!Pushed(replay, r)
          /\ out' = SendAll(Room(subscribers), f)
          /\ full' = subscribers \ Room(subscribers)
          /\ UNCHANGED <<subscribers, stale, conn, direct, last>>
      BY <1>3 DEF publish
    <2>2. call[c] # Idle
      BY <2>1 DEF Idle
    <2>3. seq + 1 \in 1 .. MaxSeq /\ seq \in Nat
      BY <1>t, <2>1, BoundsAssumption DEF TypeOK
    <2>4. f \in Frame /\ r \in Rec /\ r.seq = seq + 1 /\ f.seq = seq + 1 /\ f.type = "delta"
      BY <1>t, <2>2, <2>3, CallShape, FrameTypes DEF Rec, Delta
    <2> HIDE DEF f
    <2>5. Contiguous'
      BY <1>t, <2>1, <2>4, PushContiguous
    <2>6. Registered'
      BY <1>t, <2>1 DEF Registered, SendAll, Room
    <2>7. ASSUME NEW s \in Subs PROVE Bounded(s)' /\ Flow(s)'
      <3>1. CASE s \in Room(subscribers)
        <4>1. out'[s] = Append(out[s], f) /\ s \notin full'
          BY <2>1, <3>1 DEF SendAll
        <4> QED
          BY <1>t, <2>1, <2>3, <2>4, <4>1, Queued
      <3>2. CASE s \notin Room(subscribers)
        <4>1. out'[s] = out[s] /\ Pipe(s)' = Pipe(s)
          BY <2>1, <3>2 DEF SendAll, Pipe
        <4>2. Bounded(s) /\ Flow(s) /\ last[s] \in Nat
          BY Types, <1>t DEF GapInv
        <4>3. Bounded(s)'
          <5>1. \A i \in 1 .. Len(direct[s]) : direct[s][i].seq <= seq + 1
            <6> SUFFICES ASSUME NEW i \in 1 .. Len(direct[s]) PROVE direct[s][i].seq <= seq + 1
              OBVIOUS
            <6>1. direct[s][i] \in Frame /\ direct[s][i].seq <= seq
              BY <1>t, <4>2, Types DEF Bounded
            <6> QED
              BY <2>3, <6>1, FrameSeq
          <5>2. \A i \in 1 .. Len(out[s]) : out[s][i].seq <= seq + 1
            <6> SUFFICES ASSUME NEW i \in 1 .. Len(out[s]) PROVE out[s][i].seq <= seq + 1
              OBVIOUS
            <6>1. out[s][i] \in Frame /\ out[s][i].seq <= seq
              BY <1>t, <4>2, Types DEF Bounded
            <6> QED
              BY <2>3, <6>1, FrameSeq
          <5>3. last[s] <= seq + 1
            BY <2>3, <4>2 DEF Bounded
          <5> QED
            BY <2>1, <4>1, <5>1, <5>2, <5>3 DEF Bounded
        <4>4. Flow(s)'
          <5> SUFFICES ASSUME conn[s] = "run", ~ stale[s]
                       PROVE  /\ InSequence(last[s], Pipe(s))
                              /\ EndOf(last[s], Pipe(s)) = IF s \in full' THEN seq' - 1 ELSE seq'
            BY <2>1, <4>1 DEF Flow
          <5>1. s \in full'
            BY <1>t, <2>1, <3>2 DEF Registered
          <5>2. InSequence(last[s], Pipe(s)) /\ EndOf(last[s], Pipe(s)) = seq
            BY <2>1, <4>2 DEF Flow
          <5> QED
            BY <2>1, <2>3, <5>1, <5>2
        <4> QED
          BY <4>3, <4>4
      <3> QED
        BY <3>1, <3>2
    <2> QED
      BY <1>t, <2>5, <2>6, <2>7 DEF GapInv
  <1>4. ASSUME NEW c \in Callers, NEW x \in Subs, collapse(c, x) PROVE GapInv'
    <2> DEFINE f == Snapshot(seq, store)
    <2>1. /\ x \in full /\ full' = full \ {x}
          /\ out' = SendAll(Room({x}), f)
          /\ stale' = [stale EXCEPT ![x] = @ \/ x \notin Room({x})]
          /\ UNCHANGED <<seq, replay, subscribers, conn, direct, last>>
      BY <1>4 DEF collapse
    <2>2. f \in Frame /\ f.seq = seq /\ f.type = "snapshot" /\ seq \in Nat
      BY <1>t, FrameTypes, BoundsAssumption DEF TypeOK, Snapshot
    <2> HIDE DEF f
    <2>3. x \in subscribers /\ stale \in [Subs -> BOOLEAN]
      BY <1>t, <2>1 DEF TypeOK
    <2>4. Contiguous'
      BY <1>t, <2>1 DEF Contiguous
    <2>5. Registered'
      BY <1>t, <2>1, <2>3 DEF Registered, SendAll, Room
    <2>6. ASSUME NEW s \in Subs PROVE Bounded(s)' /\ Flow(s)'
      <3>1. CASE s = x /\ x \in Room({x})
        <4>1. out'[s] = Append(out[s], f) /\ s \notin full' /\ (stale[s] => stale'[s])
          BY <2>1, <2>3, <3>1 DEF SendAll
        <4>2. /\ direct'[s] = direct[s] /\ last'[s] = last[s] /\ conn'[s] = conn[s]
              /\ seq' = seq /\ seq' \in Nat /\ seq <= seq' /\ f.seq = seq' /\ f.type # "delta"
          BY <2>1, <2>2
        <4> QED
          BY <2>2, <4>1, <4>2, Queued
      <3>2. CASE s = x /\ x \notin Room({x})
        <4>1. out'[s] = out[s] /\ stale'[s]
          BY <2>1, <2>3, <3>2 DEF SendAll
        <4>2. Bounded(s)'
          BY <2>1, <4>1 DEF GapInv, Bounded
        <4> QED
          BY <4>1, <4>2 DEF Flow
      <3>3. CASE s # x
        <4>1. out'[s] = out[s] /\ (s \in full' <=> s \in full) /\ (stale[s] => stale'[s])
          BY <2>1, <2>3, <3>3 DEF SendAll, Room
        <4> QED
          BY <2>1, <4>1, Undisturbed
      <3> QED
        BY <3>1, <3>2, <3>3
    <2> QED
      BY <1>t, <2>4, <2>5, <2>6 DEF GapInv
  <1>5. ASSUME NEW c \in Callers, refreshAll(c) PROVE GapInv'
    <2> DEFINE f == Snapshot(seq, store)
    <2>1. /\ full = {}
          /\ out' = SendAll(Room(subscribers), f)
          /\ stale' = [s \in Subs |-> stale[s] \/ s \in subscribers \ Room(subscribers)]
          /\ UNCHANGED <<seq, replay, subscribers, full, conn, direct, last>>
      BY <1>5 DEF refreshAll
    <2>2. f \in Frame /\ f.seq = seq /\ f.type = "snapshot" /\ seq \in Nat
      BY <1>t, FrameTypes, BoundsAssumption DEF TypeOK, Snapshot
    <2> HIDE DEF f
    <2>4. Contiguous'
      BY <1>t, <2>1 DEF Contiguous
    <2>5. Registered'
      BY <1>t, <2>1 DEF Registered, SendAll, Room
    <2>6. ASSUME NEW s \in Subs PROVE Bounded(s)' /\ Flow(s)'
      <3>1. CASE s \in Room(subscribers)
        <4>1. out'[s] = Append(out[s], f) /\ s \notin full' /\ (stale[s] => stale'[s])
          BY <2>1, <3>1 DEF SendAll
        <4> QED
          BY <2>1, <2>2, <4>1, Queued
      <3>2. CASE s \notin Room(subscribers)
        <4>1. out'[s] = out[s] /\ (stale[s] => stale'[s])
          BY <2>1, <3>2 DEF SendAll
        <4> QED
          BY <2>1, <4>1, Undisturbed
      <3> QED
        BY <3>1, <3>2
    <2> QED
      BY <1>t, <2>4, <2>5, <2>6 DEF GapInv
  <1>6. ASSUME NEW x \in Subs, NEW q \in 0 .. MaxSeq, q \in {0, last[x]}, subscribeWithResume(x, q)
        PROVE  GapInv'
    <2>1. /\ conn[x] = "off" /\ full = {}
          /\ subscribers' = subscribers \cup {x}
          /\ direct' = [direct EXCEPT ![x] = FirstFrames(q)]
          /\ conn' = [conn EXCEPT ![x] = "run"]
          /\ UNCHANGED <<seq, replay, full, out, stale, last>>
      BY <1>6 DEF subscribeWithResume
    <2>2. Contiguous'
      BY <1>t, <2>1 DEF Contiguous
    <2>3. Registered'
      BY <1>t, <2>1 DEF Registered, TypeOK
    <2>4. ASSUME NEW s \in Subs PROVE Bounded(s)' /\ Flow(s)'
      <3>1. CASE s # x
        <4>1. direct'[s] = direct[s] /\ conn'[s] = conn[s]
          BY <1>t, <2>1, <3>1 DEF TypeOK
        <4> QED
          BY <2>1, <4>1, Undisturbed
      <3>2. CASE s = x
        <4>1. q \in Nat /\ last[s] <= seq /\ Bounded(s) /\ out[s] = <<>>
          BY <1>t, <2>1, <3>2, BoundsAssumption DEF GapInv, Bounded, Registered
        <4>2. /\ InSequence(last[s], FirstFrames(q))
              /\ EndOf(last[s], FirstFrames(q)) = seq
              /\ \A i \in 1 .. Len(FirstFrames(q)) : FirstFrames(q)[i].seq <= seq
          BY <1>6, <1>t, <3>2, <4>1, FirstFramesFill
        <4>3. direct'[s] = FirstFrames(q) /\ FirstFrames(q) \in Seq(Frame)
          BY <1>t, <2>1, <3>2, <4>1, FirstFramesType DEF TypeOK
        <4>4. Pipe(s)' = FirstFrames(q)
          BY <2>1, <4>1, <4>3, Stream DEF Pipe
        <4>5. Bounded(s)'
          BY <2>1, <4>1, <4>2, <4>3 DEF Bounded
        <4>6. Flow(s)'
          BY <2>1, <4>2, <4>4 DEF Flow
        <4> QED
          BY <4>5, <4>6
      <3> QED
        BY <3>1, <3>2
    <2> QED
      BY <1>t, <2>2, <2>3, <2>4 DEF GapInv
  <1>7. ASSUME NEW x \in Subs, sendFirst(x) PROVE GapInv'
    <2>1. /\ conn[x] = "run" /\ direct[x] # <<>>
          /\ Receive(x, Head(direct[x]))
          /\ direct' = [direct EXCEPT ![x] = Tail(direct[x])]
          /\ UNCHANGED <<seq, replay, subscribers, full, out, stale>>
      BY <1>7 DEF sendFirst, serverVars
    <2>2. /\ direct[x] \in Seq(Frame) /\ out[x] \in Seq(Frame) /\ direct \in [Subs -> Seq(Frame)]
          /\ Head(direct[x]) \in Frame
      BY <1>t, <2>1 DEF TypeOK
    <2>3. /\ Pipe(x) # <<>> /\ Head(Pipe(x)) = Head(direct[x])
          /\ Pipe(x)' = Tail(Pipe(x))
      <3>1. /\ direct[x] \o out[x] # <<>> /\ Head(direct[x] \o out[x]) = Head(direct[x])
            /\ Tail(direct[x]) \o out[x] = Tail(direct[x] \o out[x])
        BY <2>1, <2>2, Stream
      <3> QED
        BY <2>1, <2>2, <3>1 DEF Pipe
    <2>4. /\ \A s \in Subs : s # x => last'[s] = last[s] /\ conn'[s] = conn[s]
          /\ last'[x] \in {last[x], Head(direct[x]).seq}
          /\ conn'[x] \in {conn[x], "closing"}
      BY <1>t, <2>1, <2>2, ReceiveEffect
    <2>5. Contiguous' /\ Registered'
      BY <1>t, <2>1, <2>2, <2>4 DEF Contiguous, Registered
    <2>6. ASSUME NEW s \in Subs PROVE Bounded(s)' /\ Flow(s)'
      <3>1. CASE s # x
        <4>1. direct'[s] = direct[s]
          BY <2>1, <2>2, <3>1
        <4> QED
          BY <2>1, <2>4, <3>1, <4>1, Undisturbed
      <3>2. CASE s = x
        <4>1. Bounded(x)
          BY DEF GapInv
        <4>2. /\ Head(direct[x]) = direct[x][1] /\ 1 \in 1 .. Len(direct[x])
              /\ \A i \in 1 .. Len(Tail(direct[x])) :
                   Tail(direct[x])[i] = direct[x][i + 1] /\ i + 1 \in 1 .. Len(direct[x])
          BY <2>1, <2>2
        <4>3. Bounded(x)'
          <5>1. last'[x] <= seq
            BY <2>4, <4>1, <4>2 DEF Bounded
          <5>2. direct'[x] = Tail(direct[x])
            BY <2>1, <2>2
          <5>3. \A i \in 1 .. Len(Tail(direct[x])) : Tail(direct[x])[i].seq <= seq
            BY <4>1, <4>2 DEF Bounded
          <5> QED
            BY <2>1, <4>1, <5>1, <5>2, <5>3 DEF Bounded
        <4>4. Flow(x)'
          BY <2>1, <2>3, Arrives
        <4> QED
          BY <3>2, <4>3, <4>4
      <3> QED
        BY <3>1, <3>2
    <2> QED
      BY <1>t, <2>5, <2>6 DEF GapInv
  <1>8. ASSUME NEW x \in Subs, writerLoop(x) PROVE GapInv'
    <2>1. /\ conn[x] = "run" /\ direct[x] = <<>> /\ out[x] # <<>>
          /\ Receive(x, Head(out[x]))
          /\ out' = [out EXCEPT ![x] = Tail(out[x])]
          /\ UNCHANGED <<seq, replay, subscribers, full, stale, direct>>
      BY <1>8 DEF writerLoop
    <2>2. /\ direct[x] \in Seq(Frame) /\ out[x] \in Seq(Frame) /\ out \in [Subs -> Seq(Frame)]
          /\ Head(out[x]) \in Frame /\ Tail(out[x]) \in Seq(Frame)
      BY <1>t, <2>1 DEF TypeOK
    <2>3. /\ Pipe(x) # <<>> /\ Head(Pipe(x)) = Head(out[x])
          /\ Pipe(x)' = Tail(Pipe(x))
      <3>1. direct[x] \o out[x] = out[x] /\ direct[x] \o Tail(out[x]) = Tail(out[x])
        BY <2>1, <2>2, Stream
      <3> QED
        BY <2>1, <2>2, <3>1 DEF Pipe
    <2>4. /\ \A s \in Subs : s # x => last'[s] = last[s] /\ conn'[s] = conn[s]
          /\ last'[x] \in {last[x], Head(out[x]).seq}
          /\ conn'[x] \in {conn[x], "closing"}
      BY <1>t, <2>1, <2>2, ReceiveEffect
    <2>5. Contiguous' /\ Registered'
      BY <1>t, <2>1, <2>2, <2>4 DEF Contiguous, Registered
    <2>6. ASSUME NEW s \in Subs PROVE Bounded(s)' /\ Flow(s)'
      <3>1. CASE s # x
        <4>1. out'[s] = out[s]
          BY <2>1, <2>2, <3>1
        <4> QED
          BY <2>1, <2>4, <3>1, <4>1, Undisturbed
      <3>2. CASE s = x
        <4>1. Bounded(x)
          BY DEF GapInv
        <4>2. /\ Head(out[x]) = out[x][1] /\ 1 \in 1 .. Len(out[x])
              /\ \A i \in 1 .. Len(Tail(out[x])) :
                   Tail(out[x])[i] = out[x][i + 1] /\ i + 1 \in 1 .. Len(out[x])
          BY <2>1, <2>2
        <4>3. Bounded(x)'
          <5>1. last'[x] <= seq
            BY <2>4, <4>1, <4>2 DEF Bounded
          <5>2. out'[x] = Tail(out[x])
            BY <2>1, <2>2
          <5>3. \A i \in 1 .. Len(Tail(out[x])) : Tail(out[x])[i].seq <= seq
            BY <4>1, <4>2 DEF Bounded
          <5> QED
            BY <2>1, <4>1, <5>1, <5>2, <5>3 DEF Bounded
        <4>4. Flow(x)'
          BY <2>1, <2>3, Arrives
        <4> QED
          BY <3>2, <4>3, <4>4
      <3> QED
        BY <3>1, <3>2
    <2> QED
      BY <1>t, <2>5, <2>6 DEF GapInv
  <1>9. ASSUME NEW x \in Subs, hangUp(x) PROVE GapInv'
    <2>1. \A s \in Subs : conn'[s] = conn[s] \/ conn'[s] = "closing"
      BY <1>9, <1>t DEF hangUp, TypeOK
    <2> QED
      BY <1>9, <1>t, <2>1, OutOfTheWay DEF hangUp, serverVars, clientVars
  <1>10. ASSUME NEW x \in Subs, unsubscribe(x) PROVE GapInv'
    <2>1. /\ full = {}
          /\ subscribers' = subscribers \ {x}
          /\ out' = [out EXCEPT ![x] = <<>>]
          /\ stale' = [stale EXCEPT ![x] = FALSE]
          /\ direct' = [direct EXCEPT ![x] = <<>>]
          /\ conn' = [conn EXCEPT ![x] = "off"]
          /\ UNCHANGED <<seq, replay, full, last>>
      BY <1>10 DEF unsubscribe
    <2>2. Contiguous' /\ Registered'
      BY <1>t, <2>1 DEF Contiguous, Registered, TypeOK
    <2>3. ASSUME NEW s \in Subs PROVE Bounded(s)' /\ Flow(s)'
      <3>1. CASE s # x
        <4>1. direct'[s] = direct[s] /\ out'[s] = out[s] /\ stale'[s] = stale[s] /\ conn'[s] = conn[s]
          BY <1>t, <2>1, <3>1 DEF TypeOK
        <4> QED
          BY <2>1, <4>1, Undisturbed
      <3>2. CASE s = x
        <4>1. direct'[s] = <<>> /\ out'[s] = <<>> /\ conn'[s] = "off"
          BY <1>t, <2>1, <3>2 DEF TypeOK
        <4>2. last[s] <= seq
          BY DEF GapInv, Bounded
        <4> QED
          BY <2>1, <4>1, <4>2 DEF Bounded, Flow
      <3> QED
        BY <3>1, <3>2
    <2> QED
      BY <1>t, <2>2, <2>3 DEF GapInv
  <1>11. CASE migrateAway
    BY <1>11, <1>t DEF migrateAway
  <1>12. CASE UNCHANGED vars
    BY <1>12, <1>t, OutOfTheWay DEF vars
  <1>q. \A s \in Subs : last[s] \in 0 .. MaxSeq /\ 0 \in 0 .. MaxSeq
    BY <1>t, BoundsAssumption DEF TypeOK
  <1> QED
    BY <1>1, <1>2, <1>3, <1>4, <1>5, <1>6, <1>7, <1>8, <1>9, <1>10, <1>11, <1>12, <1>q
       DEF Next, Publishing

-----------------------------------------------------------------------------

\* As long as the live endpoint stays on the scene, no client that is not
\* marked stale is ever sent a gap: whatever the callers, capacities, slow
\* writers, collapses, refreshes and resumes, the frames on their way continue
\* the numbers the client has, and ObserveServer never answers ErrGap.
THEOREM GapFree == Spec /\ ~ SwitchesAway => []NoGap
  <1>1. GapInv => NoGap
    BY DEF GapInv, Flow, NoGap, Pipe
  <1> QED
    BY <1>1, InitGapInv, NextGapInv, PTL DEF Spec

-----------------------------------------------------------------------------
(* Convergence.  That nothing is skipped does not make the values right: the *)
(* store is written before the number is taken, snapshots run ahead of the   *)
(* numbers, and a client may come back with a view of long ago.  What makes  *)
(* them right is said with the history H of the patches published under each *)
(* number, more than the window retains.                                     *)

\* No two callers write the same path.
Apart == \A c, d \in Callers : c # d => Owned[c] \cap Owned[d] = {}

\* The paths whose value no published frame has to show yet: written by a call
\* that has not published, or by one that failed.
Loose ==
  dirty \cup {p \in Paths : \E c \in Callers :
                call[c].pc \in {"publish", "refresh"} /\ p \in DOMAIN call[c].patch}

\* What a view or frame d of number q says of a path is what the store st has,
\* unless the path is loose or a later emission up to number top overwrites it.
Right(st, loose, top, H, q, d) ==
  \A p \in DOMAIN d :
    d[p] = st[p] \/ p \in loose \/ \E n \in q + 1 .. top : p \in DOMAIN H[n]

\* A Set leaves the views and the frames before its Snapshot wrong.
Superseded(fs, i) == Setters # {} /\ \E j \in i + 1 .. Len(fs) : fs[j].type = "snapshot"

\* A client at number q with view v and frames fs on their way.
Faithful(st, loose, top, H, q, v, fs) ==
  /\ q # 0 /\ ~ Superseded(fs, 0) => Right(st, loose, top, H, q, v)
  /\ \A i \in 1 .. Len(fs) :
       /\ ~ Superseded(fs, i) => Right(st, loose, top, H, fs[i].seq, fs[i].data)
       /\ fs[i].type = "delta" => fs[i].seq \in 2 .. top /\ fs[i].data = H[fs[i].seq]

\* A client that a Set need not have reached.
Missed(s) == Setters # {} /\ (conn[s] # "run" \/ stale[s])

\* The records of the window are those of the history.
FromHistory(w, top, H) ==
  \A i \in 1 .. Len(w) : w[i].seq \in 2 .. top /\ w[i].patches = H[w[i].seq]

\* The window shows the history, and what the history says is right.
Recorded(st, loose, top, H, w) ==
  /\ H \in [2 .. top -> Patch]
  /\ FromHistory(w, top, H)
  /\ Setters = {} => \A n \in 2 .. top : Right(st, loose, top, H, n, H[n])

\* How client s stands with history H.
Stands(H, s) ==
  ~ Missed(s) => Faithful(store, Loose, seq, H, last[s], view[s], Pipe(s))

Explained(H) ==
  Recorded(store, Loose, seq, H, replay) /\ \A s \in Subs : Stands(H, s)

\* A caller writes its own paths and the store keeps them until it is done.
CallsStand ==
  \A c \in Callers : call[c] # Idle =>
    /\ DOMAIN call[c].patch \subseteq Owned[c]
    /\ \A p \in DOMAIN call[c].patch : store[p] = call[c].patch[p]
    /\ call[c].pc = "refresh" => c \in Setters

\* scene.mu is held as long as a collapse is owed.
Held == full # {} => \E c \in Callers : call[c].pc = "collapse"

\* What a client sees first is a Snapshot.
SnapshotFirst ==
  \A s \in Subs : conn[s] = "run" /\ last[s] = 0 =>
    direct[s] # <<>> /\ Head(direct[s]).type = "snapshot"

\* The callers write apart, and either nobody seeds or nobody resumes: a Set
\* takes no number and is not recorded, so no resume can make up for it.
Separate == Apart /\ (Setters = {} \/ Resuming = {})

ConvInv ==
  /\ GapInv /\ Separate
  /\ CallsStand /\ Held /\ SnapshotFirst
  /\ \E H : Explained(H)

-----------------------------------------------------------------------------
(* What the parts of the invariant are worth, without the state. *)

\* The store, the loose paths and the history after a step of a caller: a path
\* changes only to become loose, and stops being loose only by being published.
Advances(st, loose, top, H, st2, loose2, top2, H2) ==
  /\ top2 \in {top, top + 1}
  /\ \A n \in 2 .. top : H2[n] = H[n]
  /\ \A p \in Paths : p \in loose2 \/ st2[p] = st[p]
  /\ \A p \in loose : p \in loose2 \/ (top2 = top + 1 /\ p \in DOMAIN H2[top2])

\* Patches, states and the data of frames are functions of some paths.
LEMMA DataShape ==
  /\ \A p \in Patch : DOMAIN p \subseteq Paths
  /\ \A st \in State : DOMAIN st = Paths
  /\ \A f \in Frame : DOMAIN f.data \subseteq Paths
  <1>1. \A p \in Patch : DOMAIN p \subseteq Paths
    BY PatchShape
  <1>2. \A st \in State : DOMAIN st = Paths
    BY DEF State
  <1>3. ASSUME NEW f \in Frame PROVE DOMAIN f.data \subseteq Paths
    <2>1. f.data \in Patch \/ f.data \in State
      BY DEF Frame
    <2> QED
      BY <1>1, <1>2, <2>1
  <1> QED
    BY <1>1, <1>2, <1>3

\* What is right stays right.
LEMMA RightAdvances ==
  ASSUME NEW st, NEW loose, NEW top \in Nat, NEW H, NEW st2, NEW loose2, NEW top2, NEW H2,
         Advances(st, loose, top, H, st2, loose2, top2, H2),
         NEW q \in Nat, 1 <= q, q <= top, NEW d, DOMAIN d \subseteq Paths,
         Right(st, loose, top, H, q, d)
  PROVE  Right(st2, loose2, top2, H2, q, d)
  <1> SUFFICES ASSUME NEW p \in DOMAIN d, p \notin loose2,
                      ~ \E n \in q + 1 .. top2 : p \in DOMAIN H2[n]
               PROVE  d[p] = st2[p]
    BY DEF Right
  <1>1. top2 \in {top, top + 1} /\ st2[p] = st[p]
    BY DEF Advances
  <1>2. p \notin loose
    <2>1. top2 = top + 1 => top2 \in q + 1 .. top2
      BY <1>1
    <2> QED
      BY <2>1 DEF Advances
  <1>3. ~ \E n \in q + 1 .. top : p \in DOMAIN H[n]
    <2> SUFFICES ASSUME NEW n \in q + 1 .. top, p \in DOMAIN H[n] PROVE FALSE
      OBVIOUS
    <2>1. n \in q + 1 .. top2 /\ n \in 2 .. top
      BY <1>1
    <2>2. H2[n] = H[n]
      BY <2>1 DEF Advances
    <2> QED
      BY <2>1, <2>2
  <1> QED
    BY <1>1, <1>2, <1>3 DEF Right

\* A client is as well off after a step of a caller.
LEMMA FaithfulAdvances ==
  ASSUME NEW st, NEW loose, NEW top \in Nat, NEW H, NEW st2, NEW loose2, NEW top2, NEW H2,
         Advances(st, loose, top, H, st2, loose2, top2, H2),
         NEW q \in Nat, q <= top, NEW v \in State, NEW fs \in Seq(Frame),
         \A i \in 1 .. Len(fs) : fs[i].seq <= top,
         Faithful(st, loose, top, H, q, v, fs)
  PROVE  Faithful(st2, loose2, top2, H2, q, v, fs)
  <1>1. top2 \in {top, top + 1} /\ \A n \in 2 .. top : H2[n] = H[n]
    BY DEF Advances
  <1>2. q # 0 /\ ~ Superseded(fs, 0) => Right(st2, loose2, top2, H2, q, v)
    <2> SUFFICES ASSUME q # 0, ~ Superseded(fs, 0) PROVE Right(st2, loose2, top2, H2, q, v)
      OBVIOUS
    <2>1. Right(st, loose, top, H, q, v)
      BY Zenon DEF Faithful
    <2>2. 1 <= q /\ DOMAIN v \subseteq Paths
      BY DataShape
    <2> QED
      BY <2>1, <2>2, RightAdvances
  <1>3. ASSUME NEW i \in 1 .. Len(fs)
        PROVE  /\ ~ Superseded(fs, i) => Right(st2, loose2, top2, H2, fs[i].seq, fs[i].data)
               /\ fs[i].type = "delta" => fs[i].seq \in 2 .. top2 /\ fs[i].data = H2[fs[i].seq]
    <2>1. fs[i] \in Frame /\ fs[i].seq <= top
      OBVIOUS
    <2>2. fs[i].seq \in Nat /\ 1 <= fs[i].seq /\ DOMAIN fs[i].data \subseteq Paths
      BY <2>1, FrameSeq, DataShape
    <2>3. ~ Superseded(fs, i) => Right(st, loose, top, H, fs[i].seq, fs[i].data)
      BY Zenon DEF Faithful
    <2>4. fs[i].type = "delta" => fs[i].seq \in 2 .. top /\ fs[i].data = H[fs[i].seq]
      BY Zenon DEF Faithful
    <2>5. ~ Superseded(fs, i) => Right(st2, loose2, top2, H2, fs[i].seq, fs[i].data)
      BY <2>1, <2>2, <2>3, RightAdvances
    <2>6. fs[i].type = "delta" => fs[i].seq \in 2 .. top2 /\ fs[i].data = H2[fs[i].seq]
      BY <1>1, <2>4
    <2> QED
      BY <2>5, <2>6
  <1> QED
    BY <1>2, <1>3, Zenon DEF Faithful

\* A frame that is right itself may be queued; after a Set, a Snapshot makes up
\* for what precedes it.
LEMMA FaithfulAppend ==
  ASSUME NEW st, NEW loose, NEW top \in Nat, NEW H, NEW q, NEW v,
         NEW fs \in Seq(Frame), NEW f \in Frame,
         \/ Faithful(st, loose, top, H, q, v, fs)
         \/ /\ Setters # {} /\ f.type = "snapshot"
            /\ \A i \in 1 .. Len(fs) :
                 fs[i].type = "delta" => fs[i].seq \in 2 .. top /\ fs[i].data = H[fs[i].seq],
         Right(st, loose, top, H, f.seq, f.data),
         f.type = "delta" => f.seq \in 2 .. top /\ f.data = H[f.seq]
  PROVE  Faithful(st, loose, top, H, q, v, Append(fs, f))
  <1> DEFINE gs == Append(fs, f)
             n == Len(fs)
  <1>1. /\ n \in Nat /\ Len(gs) = n + 1 /\ gs[n + 1] = f
        /\ \A i \in 1 .. n : gs[i] = fs[i]
    OBVIOUS
  <1> HIDE DEF gs, n
  <1>2. \A i \in 0 .. n : Superseded(fs, i) => Superseded(gs, i)
    BY <1>1 DEF Superseded, n
  <1>3. Setters # {} /\ f.type = "snapshot" => \A i \in 0 .. n : Superseded(gs, i)
    <2> SUFFICES ASSUME Setters # {}, f.type = "snapshot", NEW i \in 0 .. n PROVE Superseded(gs, i)
      OBVIOUS
    <2>1. n + 1 \in i + 1 .. Len(gs) /\ gs[n + 1].type = "snapshot"
      BY <1>1
    <2> QED
      BY <2>1 DEF Superseded
  <1>4. q # 0 /\ ~ Superseded(gs, 0) => Right(st, loose, top, H, q, v)
    <2>1. 0 \in 0 .. n
      BY <1>1
    <2> QED
      BY <1>2, <1>3, <2>1, Zenon DEF Faithful
  <1>5. ASSUME NEW i \in 1 .. Len(gs)
        PROVE  /\ ~ Superseded(gs, i) => Right(st, loose, top, H, gs[i].seq, gs[i].data)
               /\ gs[i].type = "delta" => gs[i].seq \in 2 .. top /\ gs[i].data = H[gs[i].seq]
    <2>1. CASE i = n + 1
      BY <1>1, <2>1
    <2>2. CASE i \in 1 .. n
      <3>1. i \in 0 .. n /\ gs[i] = fs[i] /\ i \in 1 .. Len(fs)
        BY <1>1, <2>2 DEF n
      <3> QED
        BY <1>2, <1>3, <3>1, Zenon DEF Faithful
    <2> QED
      BY <1>1, <2>1, <2>2
  <1> QED
    BY <1>4, <1>5, Zenon DEF Faithful, gs

\* The first frame is taken: a Snapshot replaces the view, the next Delta
\* patches it, any other Delta leaves it alone.
LEMMA FaithfulTail ==
  ASSUME NEW st, NEW loose, NEW top \in Nat, NEW H, NEW q \in Nat, NEW v \in State,
         NEW fs \in Seq(Frame), fs # <<>>, NEW q2, NEW v2,
         Faithful(st, loose, top, H, q, v, fs),
         \/ /\ Head(fs).type = "snapshot" /\ q2 = Head(fs).seq /\ v2 = Head(fs).data
         \/ /\ Head(fs).type = "delta" /\ q # 0 /\ Head(fs).seq = q + 1
            /\ q2 = q + 1 /\ v2 = Patched(v, Head(fs).data)
         \/ /\ Head(fs).type = "delta" /\ q2 = q /\ v2 = v
  PROVE  Faithful(st, loose, top, H, q2, v2, Tail(fs))
  <1> DEFINE gs == Tail(fs)
             f == Head(fs)
  <1>1. /\ gs \in Seq(Frame) /\ Len(gs) = Len(fs) - 1 /\ Len(fs) \in Nat /\ Len(fs) > 0
        /\ \A i \in 1 .. Len(gs) : gs[i] = fs[i + 1] /\ i + 1 \in 1 .. Len(fs)
        /\ f = fs[1] /\ f \in Frame /\ 1 \in 1 .. Len(fs)
    OBVIOUS
  <1> HIDE DEF gs, f
  <1>2. ASSUME NEW i \in 0 .. Len(gs), Superseded(fs, i + 1) PROVE Superseded(gs, i)
    <2>1. PICK j \in i + 2 .. Len(fs) : fs[j].type = "snapshot"
      BY <1>2 DEF Superseded
    <2>2. j - 1 \in i + 1 .. Len(gs) /\ gs[j - 1] = fs[j]
      BY <1>1, <2>1
    <2> QED
      BY <1>2, <2>1, <2>2 DEF Superseded
  <1>3. ASSUME NEW i \in 1 .. Len(gs)
        PROVE  /\ ~ Superseded(gs, i) => Right(st, loose, top, H, gs[i].seq, gs[i].data)
               /\ gs[i].type = "delta" => gs[i].seq \in 2 .. top /\ gs[i].data = H[gs[i].seq]
    <2>1. i \in 0 .. Len(gs)
      BY <1>1
    <2> QED
      BY <1>1, <1>2, <2>1, Zenon DEF Faithful
  <1>4. /\ ~ Superseded(gs, 0) => Right(st, loose, top, H, f.seq, f.data)
        /\ f.type = "delta" => f.seq \in 2 .. top /\ f.data = H[f.seq]
    <2>1. 0 \in 0 .. Len(gs) /\ 0 + 1 = 1
      BY <1>1
    <2>2. ~ Superseded(gs, 0) => ~ Superseded(fs, 1)
      BY <1>2, <2>1
    <2> QED
      BY <1>1, <2>2, Zenon DEF Faithful
  <1>5. f.type = "delta" /\ Superseded(fs, 0) => Superseded(gs, 0)
    <2> SUFFICES ASSUME f.type = "delta", Superseded(fs, 0) PROVE Superseded(gs, 0)
      OBVIOUS
    <2>1. PICK j \in 1 .. Len(fs) : fs[j].type = "snapshot"
      BY DEF Superseded
    <2>2. j - 1 \in 1 .. Len(gs) /\ gs[j - 1] = fs[j]
      <3>1. j # 1
        BY <1>1, <2>1
      <3> QED
        BY <1>1, <2>1, <3>1
    <2> QED
      BY <2>1, <2>2 DEF Superseded
  <1>6. f.type = "delta" /\ q # 0 /\ ~ Superseded(gs, 0) => Right(st, loose, top, H, q, v)
    BY <1>5, Zenon DEF Faithful
  <1>7. q2 # 0 /\ ~ Superseded(gs, 0) => Right(st, loose, top, H, q2, v2)
    <2>1. CASE f.type = "snapshot" /\ q2 = f.seq /\ v2 = f.data
      BY <1>4, <2>1
    <2>2. CASE f.type = "delta" /\ q # 0 /\ f.seq = q + 1 /\ q2 = q + 1 /\ v2 = Patched(v, f.data)
      <3> SUFFICES ASSUME ~ Superseded(gs, 0), NEW p \in DOMAIN v2
                   PROVE  \/ v2[p] = st[p] \/ p \in loose
                          \/ \E n \in q2 + 1 .. top : p \in DOMAIN H[n]
        BY DEF Right
      <3>1. p \in Paths /\ p \in DOMAIN v
        BY <2>2, DataShape DEF Patched
      <3>2. CASE p \in DOMAIN f.data
        <4>1. v2[p] = f.data[p]
          BY <2>2, <3>1, <3>2 DEF Patched
        <4> QED
          BY <1>4, <2>2, <3>2, <4>1 DEF Right
      <3>3. CASE p \notin DOMAIN f.data
        <4>1. v2[p] = v[p]
          BY <2>2, <3>1, <3>3 DEF Patched
        <4>2. p \notin DOMAIN H[q + 1]
          BY <1>4, <2>2, <3>3
        <4>3. Right(st, loose, top, H, q, v)
          BY <1>6, <2>2
        <4>4. v[p] = st[p] \/ p \in loose \/ \E n \in q + 1 .. top : p \in DOMAIN H[n]
          BY <3>1, <4>3, Zenon DEF Right
        <4>5. ASSUME NEW n \in q + 1 .. top, p \in DOMAIN H[n]
              PROVE  n \in q2 + 1 .. top
          BY <2>2, <4>2, <4>5
        <4> QED
          BY <4>1, <4>4, <4>5
      <3> QED
        BY <3>2, <3>3
    <2>3. CASE f.type = "delta" /\ q2 = q /\ v2 = v
      BY <1>6, <2>3
    <2> QED
      BY <2>1, <2>2, <2>3 DEF f
  <1> QED
    BY <1>3, <1>7, Zenon DEF Faithful, gs

\* The history stays right.
LEMMA RecordedAdvances ==
  ASSUME NEW st, NEW loose, NEW top \in Nat, NEW H, NEW st2, NEW loose2, NEW w \in Seq(Rec),
         Advances(st, loose, top, H, st2, loose2, top, H),
         Recorded(st, loose, top, H, w)
  PROVE  Recorded(st2, loose2, top, H, w)
  <1>1. H \in [2 .. top -> Patch]
    BY Zenon DEF Recorded
  <1>2. Setters = {} => \A n \in 2 .. top : Right(st2, loose2, top, H, n, H[n])
    <2> SUFFICES ASSUME Setters = {}, NEW n \in 2 .. top PROVE Right(st2, loose2, top, H, n, H[n])
      OBVIOUS
    <2>1. Right(st, loose, top, H, n, H[n])
      BY Zenon DEF Recorded
    <2>2. n \in Nat /\ 1 <= n /\ n <= top /\ DOMAIN H[n] \subseteq Paths
      BY <1>1, DataShape
    <2> QED
      BY <2>1, <2>2, RightAdvances
  <1> QED
    BY <1>1, <1>2, Zenon DEF Recorded

-----------------------------------------------------------------------------
(* The callers. *)

\* A caller's patch touches its own paths.
LEMMA OwnPatch ==
  ASSUME NEW c \in Callers, NEW p \in PatchesOf(c)
  PROVE  p \in Patch /\ DOMAIN p \subseteq Owned[c] /\ DOMAIN p \subseteq Paths
  <1>1. PICK D \in SUBSET Owned[c] \ {{}} : p \in [D -> Values]
    BY DEF PatchesOf
  <1> QED
    BY <1>1, PatchesOfType, DataShape

\* Two callers' paths are apart.
LEMMA OwnPaths ==
  ASSUME Apart, NEW c \in Callers, NEW d \in Callers, c # d, NEW p \in Owned[c]
  PROVE  p \notin Owned[d]
  BY DEF Apart

\* Applying patches, whether or not the call goes on.
LEMMA ApplyStands ==
  ASSUME TypeOK, Apart, CallsStand, NEW c \in Callers, NEW D \in SUBSET Owned[c],
         call[c] = Idle, \A x \in Paths \ D : store'[x] = store[x],
         \A d \in Callers : d # c => call'[d] = call[d],
         call'[c] = Idle \/ (/\ DOMAIN call'[c].patch \subseteq Owned[c]
                             /\ \A x \in DOMAIN call'[c].patch : store'[x] = call'[c].patch[x]
                             /\ call'[c].pc = "refresh" => c \in Setters)
  PROVE  CallsStand'
  <1> SUFFICES ASSUME NEW d \in Callers, call'[d] # Idle
               PROVE  /\ DOMAIN call'[d].patch \subseteq Owned[d]
                      /\ \A x \in DOMAIN call'[d].patch : store'[x] = call'[d].patch[x]
                      /\ call'[d].pc = "refresh" => d \in Setters
    BY DEF CallsStand
  <1>1. CASE d = c
    BY <1>1
  <1>2. CASE d # c
    <2>1. /\ call'[d] = call[d] /\ DOMAIN call[d].patch \subseteq Owned[d]
          /\ \A x \in DOMAIN call[d].patch : store[x] = call[d].patch[x]
          /\ call[d].pc = "refresh" => d \in Setters
      BY <1>2 DEF CallsStand
    <2>2. Owned[d] \subseteq Paths
      BY OwnedAssumption
    <2>3. \A x \in DOMAIN call[d].patch : x \notin D
      BY <1>2, <2>1, OwnPaths
    <2> QED
      BY <2>1, <2>2, <2>3
  <1> QED
    BY <1>1, <1>2

\* A caller that goes on or finishes, the store unchanged.
LEMMA OnStands ==
  ASSUME CallsStand, NEW c \in Callers, store' = store,
         \A d \in Callers : d # c => call'[d] = call[d],
         call'[c] = Idle \/ (/\ call[c] # Idle /\ call'[c].patch = call[c].patch
                             /\ call'[c].pc # "refresh" \/ call'[c].pc = call[c].pc)
  PROVE  CallsStand'
  BY DEF CallsStand

\* A step that concerns no caller.
LEMMA NoCaller ==
  ASSUME CallsStand, UNCHANGED <<store, call, dirty>>
  PROVE  CallsStand' /\ Loose' = Loose
  BY DEF CallsStand, Loose

\* applyPatches makes its paths loose.
LEMMA LooseApply ==
  ASSUME TypeOK, NEW c \in Callers, NEW p \in PatchesOf(c), NEW next \in {"publish", "refresh"},
         applyPatches(c, p, next)
  PROVE  /\ Loose \subseteq Loose' /\ DOMAIN p \subseteq Loose'
         /\ \A x \in Paths : x \in Loose' \/ store'[x] = store[x]
  <1>1. /\ call[c] = Idle /\ store' = Patched(store, p) /\ dirty' = dirty \ DOMAIN p
        /\ call' = [call EXCEPT ![c] = [pc |-> next, patch |-> p]]
        /\ call \in [Callers -> Call]
    BY DEF applyPatches, TypeOK
  <1>2. call'[c].pc = next /\ call'[c].patch = p /\ \A d \in Callers : d # c => call'[d] = call[d]
    BY <1>1
  <1>3. DOMAIN p \subseteq Paths
    BY OwnPatch
  <1>4. DOMAIN p \subseteq Loose'
    BY <1>2, <1>3 DEF Loose
  <1>5. ASSUME NEW x \in Loose PROVE x \in Loose'
    <2>1. CASE x \in dirty
      BY <1>1, <1>4, <2>1 DEF Loose
    <2>2. CASE x \notin dirty
      <3>1. PICK d \in Callers : call[d].pc \in {"publish", "refresh"} /\ x \in DOMAIN call[d].patch
        BY <2>2 DEF Loose
      <3>2. d # c /\ x \in Paths
        BY <1>1, <2>2, <3>1 DEF Idle, Loose
      <3> QED
        BY <1>2, <3>1, <3>2 DEF Loose
    <2> QED
      BY <2>1, <2>2
  <1>6. \A x \in Paths : x \notin DOMAIN p => store'[x] = store[x]
    BY <1>1 DEF Patched
  <1> QED
    BY <1>4, <1>5, <1>6

\* A call that fails leaves what it wrote loose.
LEMMA LooseFails ==
  ASSUME TypeOK, NEW c \in Callers, NEW p \in PatchesOf(c), NEW D \in SUBSET DOMAIN p,
         applyPatchesFails(c, D, p)
  PROVE  /\ Loose \subseteq Loose'
         /\ \A x \in Paths : x \in Loose' \/ store'[x] = store[x]
  <1>1. /\ store' = [x \in Paths |-> IF x \in D THEN p[x] ELSE store[x]]
        /\ dirty' = dirty \cup D /\ call' = call
    BY DEF applyPatchesFails
  <1>2. Loose \subseteq Loose' /\ D \subseteq Loose'
    BY <1>1 DEF Loose
  <1> QED
    BY <1>1, <1>2

\* A call that publishes or is refreshed is done with its paths only.
LEMMA LooseDone ==
  ASSUME NEW c \in Callers, dirty' = dirty, \A d \in Callers : d # c => call'[d] = call[d]
  PROVE  \A p \in Loose : p \in Loose' \/ p \in DOMAIN call[c].patch
  <1> SUFFICES ASSUME NEW p \in Loose, p \notin DOMAIN call[c].patch PROVE p \in Loose'
    OBVIOUS
  <1>1. CASE p \in dirty
    BY <1>1 DEF Loose
  <1>2. CASE p \notin dirty
    <2>1. PICK d \in Callers : call[d].pc \in {"publish", "refresh"} /\ p \in DOMAIN call[d].patch
      BY <1>2 DEF Loose
    <2>2. d # c /\ p \in Paths
      BY <1>2, <2>1 DEF Loose
    <2> QED
      BY <2>1, <2>2 DEF Loose
  <1> QED
    BY <1>1, <1>2

\* A collapse makes nothing loose and settles nothing.
LEMMA LooseCollapse ==
  ASSUME NEW c \in Callers, dirty' = dirty, \A d \in Callers : d # c => call'[d] = call[d],
         call[c].pc = "collapse", call'[c] = Idle \/ call'[c] = call[c]
  PROVE  Loose' = Loose
  <1>1. Idle.pc = "idle"
    BY DEF Idle
  <1>2. call'[c].pc \notin {"publish", "refresh"} /\ call[c].pc \notin {"publish", "refresh"}
    BY <1>1
  <1> QED
    BY <1>2 DEF Loose

\* No step breaks what CallsStand says.
LEMMA NextCallsStand ==
  ASSUME TypeOK, Apart, CallsStand, ~ SwitchesAway, [Next]_vars
  PROVE  CallsStand'
  <1>1. ASSUME NEW c \in Callers, NEW p \in PatchesOf(c), NEW next \in {"publish", "refresh"},
               next = "refresh" => c \in Setters, applyPatches(c, p, next)
        PROVE  CallsStand'
    <2>1. /\ call[c] = Idle /\ store' = Patched(store, p)
          /\ call' = [call EXCEPT ![c] = [pc |-> next, patch |-> p]]
          /\ call \in [Callers -> Call]
      BY <1>1 DEF applyPatches, TypeOK
    <2>2. DOMAIN p \in SUBSET Owned[c] /\ DOMAIN p \subseteq Paths
      BY OwnPatch
    <2>3. /\ \A x \in Paths \ DOMAIN p : store'[x] = store[x]
          /\ \A x \in DOMAIN p : store'[x] = p[x]
      BY <2>1, <2>2 DEF Patched
    <2>4. /\ call'[c].patch = p /\ call'[c].pc = next
          /\ \A d \in Callers : d # c => call'[d] = call[d]
      BY <2>1
    <2> QED
      BY <1>1, <2>1, <2>2, <2>3, <2>4, ApplyStands
  <1>2. ASSUME NEW c \in Callers, NEW p \in PatchesOf(c), NEW D \in SUBSET DOMAIN p,
               applyPatchesFails(c, D, p)
        PROVE  CallsStand'
    <2>1. /\ call[c] = Idle /\ call' = call
          /\ \A x \in Paths \ D : store'[x] = store[x]
      BY <1>2 DEF applyPatchesFails
    <2>2. D \in SUBSET Owned[c]
      BY OwnPatch
    <2> QED
      BY <2>1, <2>2, ApplyStands
  <1>3. ASSUME NEW c \in Callers, Publishing(c) PROVE CallsStand'
    <2>1. /\ store' = store /\ call \in [Callers -> Call] /\ call[c] # Idle
          /\ \A d \in Callers : d # c => call'[d] = call[d]
      <3>1. Idle.pc = "idle" /\ call \in [Callers -> Call]
        BY DEF TypeOK, Idle
      <3>2. store' = store /\ call[c].pc \in {"publish", "refresh", "collapse"}
        BY <1>3 DEF Publishing, publish, collapse, refreshAll
      <3>3. \E r : call' = [call EXCEPT ![c] = r]
        BY <1>3, Zenon DEF Publishing, publish, collapse, refreshAll
      <3> QED
        BY <3>1, <3>2, <3>3
    <2>2. \A x \in {"publish", "refresh", "collapse"} :
            [call[c] EXCEPT !.pc = x].pc = x /\ [call[c] EXCEPT !.pc = x].patch = call[c].patch
      <3>1. call[c] \in [pc : {"publish", "refresh", "collapse"}, patch : Patch]
        BY <2>1 DEF Call
      <3> QED
        BY <3>1
    <2>3. call'[c] \in {Idle, call[c], [call[c] EXCEPT !.pc = "collapse"]}
      BY <1>3, <2>1 DEF Publishing, publish, collapse, refreshAll
    <2>4. call'[c] = Idle \/ (/\ call'[c].patch = call[c].patch
                              /\ call'[c].pc # "refresh" \/ call'[c].pc = call[c].pc)
      BY <2>2, <2>3
    <2> QED
      BY <2>1, <2>4, OnStands
  <1>4. CASE store' = store /\ call' = call
    BY <1>4 DEF CallsStand
  <1> QED
    BY <1>1, <1>2, <1>3, <1>4
       DEF Next, Emit, Set, subscribeWithResume, sendFirst, writerLoop, hangUp, unsubscribe,
           migrateAway, serverVars, vars

\* No step leaves a collapse to nobody.
LEMMA NextHeld ==
  ASSUME TypeOK, Held, ~ SwitchesAway, [Next]_vars
  PROVE  Held'
  <1>0. call \in [Callers -> Call] /\ Idle.pc = "idle"
    BY DEF TypeOK, Idle
  <1>1. ASSUME NEW c \in Callers, full' = full, call[c].pc # "collapse",
               \A d \in Callers : d # c => call'[d] = call[d]
        PROVE  Held'
    BY <1>1 DEF Held
  <1>2. ASSUME NEW c \in Callers, NEW p, NEW next, applyPatches(c, p, next) PROVE Held'
    <2>1. full' = full /\ call[c] = Idle /\ \A d \in Callers : d # c => call'[d] = call[d]
      BY <1>0, <1>2 DEF applyPatches
    <2> QED
      BY <1>0, <1>1, <2>1
  <1>3. ASSUME NEW c \in Callers, publish(c) PROVE Held'
    <2>1. call[c] # Idle /\ (full' # {} => call'[c] = [call[c] EXCEPT !.pc = "collapse"])
      BY <1>0, <1>3 DEF publish
    <2>2. [call[c] EXCEPT !.pc = "collapse"].pc = "collapse"
      BY <2>1, CallShape
    <2> QED
      BY <2>1, <2>2 DEF Held
  <1>4. ASSUME NEW c \in Callers, NEW s \in Subs, collapse(c, s) PROVE Held'
    BY <1>0, <1>4 DEF collapse, Held
  <1>5. ASSUME NEW c \in Callers, refreshAll(c) PROVE Held'
    BY <1>0, <1>5 DEF refreshAll, Held
  <1>6. CASE full' = full /\ call' = call
    BY <1>6 DEF Held
  <1> QED
    BY <1>2, <1>3, <1>4, <1>5, <1>6
       DEF Next, Publishing, Emit, Set, applyPatchesFails, subscribeWithResume, sendFirst,
           writerLoop, hangUp, unsubscribe, migrateAway, serverVars, vars

\* The answer to a client that asks for no resume, or has nothing to resume
\* from, is a Snapshot.
LEMMA SnapshotAnswer ==
  FirstFrames(0) = <<Snapshot(seq, store)>> /\ Snapshot(seq, store).type = "snapshot"
  BY DEF FirstFrames, Snapshot

\* No step makes a client's first frame a Delta.
LEMMA NextSnapshotFirst ==
  ASSUME TypeOK, SnapshotFirst, [Next]_vars
  PROVE  SnapshotFirst'
  <1>0. /\ conn \in [Subs -> {"off", "run", "closing"}] /\ last \in [Subs -> 0 .. MaxSeq]
        /\ direct \in [Subs -> Seq(Frame)] /\ out \in [Subs -> Seq(Frame)]
    BY DEF TypeOK
  <1>1. CASE direct' = direct /\ last' = last /\ \A s \in Subs : conn'[s] = "run" => conn[s] = "run"
    BY <1>1 DEF SnapshotFirst
  <1>2. ASSUME NEW x \in Subs, NEW q \in {0, last[x]}, subscribeWithResume(x, q) PROVE SnapshotFirst'
    <2> SUFFICES ASSUME NEW s \in Subs, conn'[s] = "run", last'[s] = 0
                 PROVE  direct'[s] # <<>> /\ Head(direct'[s]).type = "snapshot"
      BY DEF SnapshotFirst
    <2>1. /\ last' = last /\ direct' = [direct EXCEPT ![x] = FirstFrames(q)]
          /\ conn' = [conn EXCEPT ![x] = "run"]
      BY <1>2 DEF subscribeWithResume
    <2>2. CASE s = x
      <3>1. direct'[s] = FirstFrames(0)
        BY <1>0, <2>1, <2>2
      <3>2. \A f : <<f>> # <<>> /\ Head(<<f>>) = f
        OBVIOUS
      <3> QED
        BY <3>1, <3>2, SnapshotAnswer, Zenon
    <2>3. CASE s # x
      BY <1>0, <2>1, <2>3 DEF SnapshotFirst
    <2> QED
      BY <2>2, <2>3
  <1>3. ASSUME NEW x \in Subs, NEW f \in Frame, Receive(x, f), conn[x] = "run",
               direct[x] # <<>> => f = Head(direct[x]),
               \A s \in Subs : s # x => direct'[s] = direct[s]
        PROVE  SnapshotFirst'
    <2> SUFFICES ASSUME NEW s \in Subs, conn'[s] = "run", last'[s] = 0
                 PROVE  direct'[s] # <<>> /\ Head(direct'[s]).type = "snapshot"
      BY DEF SnapshotFirst
    <2>1. f.seq > 0 /\ f.type \in {"delta", "snapshot"} /\ f.seq \in Nat
      BY FrameSeq
    <2>2. CASE s = x
      <3>1. last[x] = 0 => f.type = "snapshot"
        BY <1>3 DEF SnapshotFirst
      <3>2. last'[x] # 0
        BY <1>0, <1>3, <2>1, <3>1 DEF Receive
      <3> QED
        BY <2>2, <3>2
    <2>3. CASE s # x
      BY <1>3, <2>3, ReceiveEffect DEF SnapshotFirst
    <2> QED
      BY <2>2, <2>3
  <1>4. ASSUME NEW x \in Subs, sendFirst(x) PROVE SnapshotFirst'
    <2>1. /\ conn[x] = "run" /\ direct[x] # <<>> /\ Receive(x, Head(direct[x]))
          /\ direct' = [direct EXCEPT ![x] = Tail(direct[x])]
      BY <1>4 DEF sendFirst
    <2>2. Head(direct[x]) \in Frame /\ \A s \in Subs : s # x => direct'[s] = direct[s]
      BY <1>0, <2>1
    <2> QED
      BY <1>3, <2>1, <2>2
  <1>5. ASSUME NEW x \in Subs, writerLoop(x) PROVE SnapshotFirst'
    <2>1. /\ conn[x] = "run" /\ direct[x] = <<>> /\ out[x] # <<>> /\ Receive(x, Head(out[x]))
          /\ direct' = direct
      BY <1>5 DEF writerLoop
    <2>2. Head(out[x]) \in Frame
      BY <1>0, <2>1
    <2> QED
      BY <1>3, <2>1, <2>2
  <1>6. ASSUME NEW x \in Subs, unsubscribe(x) PROVE SnapshotFirst'
    BY <1>0, <1>6 DEF unsubscribe, SnapshotFirst
  <1>7. ASSUME NEW x \in Subs, hangUp(x) PROVE SnapshotFirst'
    <2>1. direct' = direct /\ last' = last /\ \A s \in Subs : conn'[s] = "run" => conn[s] = "run"
      BY <1>0, <1>7 DEF hangUp, clientVars
    <2> QED
      BY <1>1, <2>1
  <1>8. CASE migrateAway
    <2>1. \A s \in Subs : conn'[s] # "run"
      BY <1>8 DEF migrateAway
    <2> QED
      BY <2>1 DEF SnapshotFirst
  <1>9. CASE UNCHANGED <<direct, last, conn>>
    BY <1>1, <1>9
  <1> QED
    BY <1>2, <1>4, <1>5, <1>6, <1>7, <1>8, <1>9
       DEF Next, Publishing, Emit, Set, applyPatches, applyPatchesFails, publish, collapse,
           refreshAll, vars

-----------------------------------------------------------------------------
(* The clients. *)

\* A bound on the numbers of two streams bounds those of their concatenation.
LEMMA BoundedStream ==
  ASSUME NEW d \in Seq(Frame), NEW o \in Seq(Frame), NEW n,
         \A i \in 1 .. Len(d) : d[i].seq <= n, \A i \in 1 .. Len(o) : o[i].seq <= n
  PROVE  \A i \in 1 .. Len(d \o o) : (d \o o)[i].seq <= n
  <1> SUFFICES ASSUME NEW i \in 1 .. Len(d \o o) PROVE (d \o o)[i].seq <= n
    OBVIOUS
  <1>1. Len(d) \in Nat /\ Len(o) \in Nat /\ Len(d \o o) = Len(d) + Len(o)
    OBVIOUS
  <1>2. CASE i \in 1 .. Len(d)
    <2>1. (d \o o)[i] = d[i]
      BY <1>2
    <2> QED
      BY <1>2, <2>1
  <1>3. CASE i \notin 1 .. Len(d)
    <2>1. i - Len(d) \in 1 .. Len(o)
      BY <1>1, <1>3
    <2>2. (d \o o)[i] = o[i - Len(d)]
      BY <1>1, <1>3
    <2> QED
      BY <2>1, <2>2
  <1> QED
    BY <1>2, <1>3

\* The types and bounds of one client.
LEMMA ClientShape ==
  ASSUME GapInv, NEW s \in Subs
  PROVE  /\ Pipe(s) \in Seq(Frame) /\ last[s] \in Nat /\ last[s] <= seq /\ view[s] \in State
         /\ seq \in Nat /\ seq > 0 /\ \A i \in 1 .. Len(Pipe(s)) : Pipe(s)[i].seq <= seq
         /\ direct[s] \in Seq(Frame) /\ out[s] \in Seq(Frame) /\ store \in State
  <1>1. TypeOK /\ Bounded(s)
    BY DEF GapInv, TypeInv
  <1>2. /\ direct[s] \in Seq(Frame) /\ out[s] \in Seq(Frame) /\ Pipe(s) \in Seq(Frame)
        /\ last[s] \in Nat /\ seq \in Nat /\ seq > 0
    BY <1>1, Types
  <1>3. view[s] \in State /\ store \in State
    BY <1>1 DEF TypeOK
  <1>4. \A i \in 1 .. Len(direct[s] \o out[s]) : (direct[s] \o out[s])[i].seq <= seq
    BY <1>1, <1>2, BoundedStream, Zenon DEF Bounded
  <1> QED
    BY <1>1, <1>2, <1>3, <1>4 DEF Bounded, Pipe

\* A step of a caller that sends s nothing.
LEMMA StandsKept ==
  ASSUME GapInv, NEW s \in Subs, NEW H, NEW H2, Stands(H, s),
         Advances(store, Loose, seq, H, store', Loose', seq', H2),
         last'[s] = last[s], view'[s] = view[s], Pipe(s)' = Pipe(s), Missed(s) => Missed(s)'
  PROVE  Stands(H2, s)'
  <1> SUFFICES ASSUME ~ Missed(s)'
               PROVE  Faithful(store', Loose', seq', H2, last[s], view[s], Pipe(s))
    BY DEF Stands
  <1>1. Faithful(store, Loose, seq, H, last[s], view[s], Pipe(s))
    BY DEF Stands
  <1> QED
    BY <1>1, ClientShape, FaithfulAdvances

\* A step of a caller that queues f for s.
LEMMA StandsQueued ==
  ASSUME GapInv, NEW s \in Subs, NEW H, NEW H2, Stands(H, s), NEW f \in Frame,
         Advances(store, Loose, seq, H, store', Loose', seq', H2), seq' \in Nat,
         last'[s] = last[s], view'[s] = view[s], Pipe(s)' = Append(Pipe(s), f),
         Missed(s) => Missed(s)',
         Right(store', Loose', seq', H2, f.seq, f.data),
         f.type = "delta" => f.seq \in 2 .. seq' /\ f.data = H2[f.seq]
  PROVE  Stands(H2, s)'
  <1> SUFFICES ASSUME ~ Missed(s)'
               PROVE  Faithful(store', Loose', seq', H2, last[s], view[s], Append(Pipe(s), f))
    BY DEF Stands
  <1>1. Faithful(store, Loose, seq, H, last[s], view[s], Pipe(s))
    BY DEF Stands
  <1>2. Faithful(store', Loose', seq', H2, last[s], view[s], Pipe(s))
    BY <1>1, ClientShape, FaithfulAdvances
  <1> QED
    BY <1>2, ClientShape, FaithfulAppend

\* Nothing changes for the callers.
LEMMA NoAdvance ==
  ASSUME NEW st, NEW loose, NEW top, NEW H
  PROVE  Advances(st, loose, top, H, st, loose, top, H)
  BY DEF Advances

\* The scene's own Snapshot is right.
LEMMA SnapshotRight ==
  ASSUME TypeOK, NEW loose, NEW top, NEW H
  PROVE  /\ Snapshot(seq, store) \in Frame
         /\ Snapshot(seq, store).type = "snapshot"
         /\ Right(store, loose, top, H, Snapshot(seq, store).seq, Snapshot(seq, store).data)
  BY FrameTypes DEF Snapshot, Right, TypeOK

\* A frame appended to the queue is appended to what is on its way.
LEMMA PipeQueued ==
  ASSUME GapInv, NEW s \in Subs, NEW f \in Frame,
         direct'[s] = direct[s], out'[s] = Append(out[s], f)
  PROVE  Pipe(s)' = Append(Pipe(s), f)
  <1>0. direct[s] \in Seq(Frame) /\ out[s] \in Seq(Frame)
    BY ClientShape
  <1>1. direct[s] \o Append(out[s], f) = Append(direct[s] \o out[s], f)
    BY <1>0, Stream
  <1> QED
    BY <1>1 DEF Pipe

\* The first frame on its way arrives.
LEMMA StandsArrives ==
  ASSUME GapInv, SnapshotFirst, NEW s \in Subs, NEW H, Stands(H, s),
         conn[s] = "run", Pipe(s) # <<>>, Receive(s, Head(Pipe(s))), Pipe(s)' = Tail(Pipe(s)),
         last[s] = 0 => Head(Pipe(s)).type = "snapshot",
         UNCHANGED <<store, call, dirty, seq, stale>>
  PROVE  Stands(H, s)'
  <1> DEFINE f == Head(Pipe(s))
  <1>1. /\ Pipe(s) \in Seq(Frame) /\ last[s] \in Nat /\ view[s] \in State /\ seq \in Nat
    BY ClientShape
  <1>2. f \in Frame /\ Loose' = Loose
    BY <1>1 DEF Loose
  <1>3. f.seq \in Nat /\ f.type \in {"delta", "snapshot"}
    BY <1>2, FrameSeq
  <1> HIDE DEF f
  <1>4. view \in [Subs -> State] /\ last \in [Subs -> 0 .. MaxSeq]
    BY DEF GapInv, TypeInv, TypeOK
  <1>5. \/ f.type = "snapshot" /\ last'[s] = f.seq /\ view'[s] = f.data
        \/ /\ f.type = "delta" /\ last[s] # 0 /\ f.seq = last[s] + 1
           /\ last'[s] = last[s] + 1 /\ view'[s] = Patched(view[s], f.data)
        \/ f.type = "delta" /\ last'[s] = last[s] /\ view'[s] = view[s]
    <2>1. Receive(s, f) /\ (last[s] = 0 => f.type = "snapshot")
      BY DEF f
    <2> QED
      BY <1>3, <1>4, <2>1 DEF Receive
  <1> SUFFICES ASSUME ~ Missed(s)'
               PROVE  Faithful(store, Loose, seq, H, last'[s], view'[s], Tail(Pipe(s)))
    BY <1>2 DEF Stands
  <1>6. ~ Missed(s)
    BY DEF Missed
  <1>7. Faithful(store, Loose, seq, H, last[s], view[s], Pipe(s))
    BY <1>6 DEF Stands
  <1> QED
    BY <1>1, <1>5, <1>7, FaithfulTail DEF f

-----------------------------------------------------------------------------
(* Some history explains every state. *)

\* A caller writes the store and has not published.
LEMMA ExplainedApply ==
  ASSUME GapInv, NEW H, Explained(H),
         UNCHANGED <<seq, replay, out, stale, conn, direct, view, last>>,
         Loose \subseteq Loose', \A x \in Paths : x \in Loose' \/ store'[x] = store[x]
  PROVE  Explained(H)'
  <1>1. seq \in Nat /\ replay \in Seq(Rec)
    BY BoundsAssumption DEF GapInv, TypeInv, TypeOK, Rec
  <1>2. Advances(store, Loose, seq, H, store', Loose', seq, H)
    BY DEF Advances
  <1>3. Recorded(store', Loose', seq, H, replay)
    BY <1>1, <1>2, RecordedAdvances DEF Explained
  <1>4. ASSUME NEW s \in Subs PROVE Stands(H, s)'
    <2>1. Pipe(s)' = Pipe(s) /\ (Missed(s) => Missed(s)') /\ Stands(H, s)
      BY DEF Pipe, Missed, Explained
    <2> QED
      BY <1>2, <2>1, StandsKept
  <1> QED
    BY <1>3, <1>4 DEF Explained

\* The window after one more record agrees with the history after it.
LEMMA RecordedPush ==
  ASSUME NEW w \in Seq(Rec), NEW top \in Nat, top > 0, NEW H, NEW H2, NEW r \in Rec,
         r.seq = top + 1, H2[top + 1] = r.patches, \A n \in 2 .. top : H2[n] = H[n],
         FromHistory(w, top, H), NEW w2, w2 = Log!Pushed(w, r)
  PROVE  FromHistory(w2, top + 1, H2)
  <1> DEFINE Good(x) == x.seq \in 2 .. top + 1 /\ x.patches = H2[x.seq]
  <1>1. Good(r) /\ \A i \in 1 .. Len(w) : Good(w[i])
    BY DEF FromHistory
  <1>2. \A i \in 1 .. Len(w2) : w2[i] = r \/ \E j \in 1 .. Len(w) : w2[i] = w[j]
    <2>1. CASE Len(w) < ReplayCap
      <3>1. w2 = Append(w, r)
        BY <2>1 DEF Log!Pushed
      <3> QED
        BY <3>1
    <2>2. CASE ~ (Len(w) < ReplayCap)
      <3>1. w2 = Append(Tail(w), r) /\ w # <<>>
        BY <2>2, BoundsAssumption DEF Log!Pushed
      <3>2. /\ Tail(w) \in Seq(Rec) /\ Len(Tail(w)) = Len(w) - 1 /\ Len(w) \in Nat
            /\ \A i \in 1 .. Len(Tail(w)) : Tail(w)[i] = w[i + 1] /\ i + 1 \in 1 .. Len(w)
        BY <3>1
      <3>3. /\ Len(w2) = Len(Tail(w)) + 1 /\ w2[Len(Tail(w)) + 1] = r
            /\ \A i \in 1 .. Len(Tail(w)) : w2[i] = Tail(w)[i]
        BY <3>1, <3>2
      <3>4. ASSUME NEW i \in 1 .. Len(w2) PROVE w2[i] = r \/ \E j \in 1 .. Len(w) : w2[i] = w[j]
        <4>1. CASE i = Len(Tail(w)) + 1
          BY <3>3, <4>1
        <4>2. CASE i \in 1 .. Len(Tail(w))
          <5>1. w2[i] = w[i + 1] /\ i + 1 \in 1 .. Len(w)
            BY <3>2, <3>3, <4>2
          <5> QED
            BY <5>1
        <4> QED
          <5>1. Len(Tail(w)) \in Nat
            BY <3>2
          <5> QED
            BY <3>3, <4>1, <4>2, <5>1
      <3> QED
        BY <3>4
    <2> QED
      BY <2>1, <2>2
  <1> HIDE DEF Good
  <1>3. \A i \in 1 .. Len(w2) : Good(w2[i])
    BY <1>1, <1>2
  <1> QED
    BY <1>3 DEF Good, FromHistory

\* An emission is published: the history grows by its patch.
LEMMA ExplainedPublish ==
  ASSUME GapInv, CallsStand, NEW H, Explained(H), NEW c \in Callers, publish(c), TypeOK'
  PROVE  \E H2 : Explained(H2)'
  <1> DEFINE m == call[c].patch
             f == Delta(seq + 1, m)
             r == [seq |-> seq + 1, patches |-> m]
  <1>t. /\ TypeOK /\ seq \in Nat /\ seq > 0 /\ replay \in Seq(Rec) /\ Registered
        /\ call \in [Callers -> Call] /\ Idle.pc = "idle"
    BY BoundsAssumption DEF GapInv, TypeInv, TypeOK, Rec, Idle
  <1>1. /\ call[c].pc = "publish" /\ seq' = seq + 1
        /\ replay' = Log!Pushed(replay, r)
        /\ out' = SendAll(Room(subscribers), f)
        /\ UNCHANGED <<store, stale, conn, direct, view, last, dirty>>
        /\ \A d \in Callers : d # c => call'[d] = call[d]
    BY <1>t DEF publish
  <1>2. call[c] # Idle
    BY <1>t, <1>1
  <1>3. m \in Patch /\ \A p \in DOMAIN m : store[p] = m[p]
    BY <1>t, <1>2, CallShape DEF CallsStand
  <1>4. seq + 1 \in 1 .. MaxSeq
    BY <1>1 DEF TypeOK
  <1>5. f \in Frame /\ r \in Rec /\ f.type = "delta" /\ f.seq = seq + 1 /\ f.data = m
    BY <1>3, <1>4, FrameTypes DEF Delta, Rec
  <1>6. PICK H2 : H2 = [n \in 2 .. seq + 1 |-> IF n = seq + 1 THEN m ELSE H[n]]
    OBVIOUS
  <1>7. H \in [2 .. seq -> Patch]
    BY Zenon DEF Explained, Recorded
  <1>8. /\ H2 \in [2 .. seq + 1 -> Patch] /\ H2[seq + 1] = m
        /\ \A n \in 2 .. seq : H2[n] = H[n]
    BY <1>t, <1>3, <1>6, <1>7
  <1> HIDE DEF f, r, m
  <1>9. Advances(store, Loose, seq, H, store', Loose', seq', H2)
    <2>1. \A p \in Loose : p \in Loose' \/ p \in DOMAIN m
      BY <1>1, LooseDone DEF m
    <2> QED
      BY <1>1, <1>8, <2>1 DEF Advances
  <1>10. Right(store', Loose', seq', H2, seq + 1, m)
    BY <1>1, <1>3 DEF Right
  <1>11. Recorded(store', Loose', seq', H2, replay')
    <2>1. FromHistory(replay, seq, H)
      BY Zenon DEF Explained, Recorded
    <2>2. r.seq = seq + 1 /\ r.patches = m
      BY DEF r
    <2>3. FromHistory(replay', seq + 1, H2)
      <3>1. H2[seq + 1] = r.patches /\ replay' = Log!Pushed(replay, r)
        BY <1>1, <1>8, <2>2
      <3>2. replay \in Seq(Rec) /\ seq \in Nat /\ seq > 0 /\ r \in Rec
        BY <1>t, <1>5
      <3>3. \A n \in 2 .. seq : H2[n] = H[n]
        BY <1>8
      <3> QED
        BY <2>1, <2>2, <3>1, <3>2, <3>3, RecordedPush
    <2>4. ASSUME Setters = {}, NEW n \in 2 .. seq + 1
          PROVE  Right(store', Loose', seq', H2, n, H2[n])
      <3>1. CASE n = seq + 1
        BY <1>8, <1>10, <3>1
      <3>2. CASE n \in 2 .. seq
        <4>1. Right(store, Loose, seq, H, n, H[n])
          BY <2>4, <3>2, Zenon DEF Explained, Recorded
        <4>2. n \in Nat /\ 1 <= n /\ n <= seq /\ DOMAIN H[n] \subseteq Paths /\ H2[n] = H[n]
          BY <1>t, <1>7, <1>8, <3>2, DataShape
        <4> QED
          BY <1>t, <1>9, <4>1, <4>2, RightAdvances
      <3> QED
        BY <1>t, <3>1, <3>2
    <2> QED
      BY <1>1, <1>8, <2>3, <2>4 DEF Recorded
  <1>12. ASSUME NEW s \in Subs PROVE Stands(H2, s)'
    <2>1. Stands(H, s) /\ (Missed(s) => Missed(s)') /\ direct'[s] = direct[s]
          /\ last'[s] = last[s] /\ view'[s] = view[s]
      BY <1>1 DEF Explained, Missed
    <2>2. CASE s \in Room(subscribers)
      <3>1. Pipe(s)' = Append(Pipe(s), f)
        <4>1. out'[s] = Append(out[s], f)
          BY <1>1, <2>2 DEF SendAll
        <4> QED
          BY <1>5, <2>1, <4>1, PipeQueued
      <3>2. seq' \in Nat /\ f.seq \in 2 .. seq' /\ f.data = H2[f.seq]
        BY <1>t, <1>1, <1>5, <1>8
      <3>3. Right(store', Loose', seq', H2, f.seq, f.data)
        BY <1>5, <1>10
      <3> QED
        BY <1>5, <1>9, <2>1, <3>1, <3>2, <3>3, StandsQueued
    <2>3. CASE s \notin Room(subscribers)
      <3>1. Pipe(s)' = Pipe(s)
        BY <1>1, <2>3 DEF SendAll, Pipe
      <3> QED
        BY <1>9, <2>1, <3>1, StandsKept
    <2> QED
      BY <2>2, <2>3
  <1> QED
    BY <1>11, <1>12 DEF Explained

\* Nothing changes for the callers, and every client is as well off.
LEMMA ExplainedSame ==
  ASSUME NEW H, Explained(H), UNCHANGED <<store, seq, replay>>, Loose' = Loose,
         \A s \in Subs : Stands(H, s)'
  PROVE  Explained(H)'
  BY DEF Explained

\* A back-pressured subscriber gets a Snapshot or is marked.
LEMMA ExplainedCollapse ==
  ASSUME GapInv, NEW H, Explained(H), NEW c \in Callers, NEW x \in Subs, collapse(c, x)
  PROVE  Explained(H)'
  <1> DEFINE f == Snapshot(seq, store)
  <1>t. TypeOK /\ call \in [Callers -> Call] /\ stale \in [Subs -> BOOLEAN] /\ seq \in Nat
    BY BoundsAssumption DEF GapInv, TypeInv, TypeOK
  <1>1. /\ call[c].pc = "collapse"
        /\ out' = SendAll(Room({x}), f)
        /\ stale' = [stale EXCEPT ![x] = @ \/ x \notin Room({x})]
        /\ UNCHANGED <<store, seq, replay, conn, direct, view, last, dirty>>
        /\ call'[c] = Idle \/ call'[c] = call[c]
        /\ \A d \in Callers : d # c => call'[d] = call[d]
    BY <1>t DEF collapse
  <1>2. Loose' = Loose
    BY <1>1, LooseCollapse
  <1>3. f \in Frame /\ f.type = "snapshot" /\ Right(store, Loose, seq, H, f.seq, f.data)
    BY <1>t, SnapshotRight
  <1> HIDE DEF f
  <1>4. Advances(store, Loose, seq, H, store', Loose', seq', H)
    BY <1>1, <1>2, NoAdvance
  <1>5. ASSUME NEW s \in Subs PROVE Stands(H, s)'
    <2>1. /\ Stands(H, s) /\ (Missed(s) => Missed(s)') /\ direct'[s] = direct[s]
          /\ last'[s] = last[s] /\ view'[s] = view[s] /\ seq' \in Nat
      BY <1>t, <1>1 DEF Explained, Missed
    <2>2. CASE s \in Room({x})
      <3>1. Pipe(s)' = Append(Pipe(s), f)
        <4>1. out'[s] = Append(out[s], f)
          BY <1>1, <2>2 DEF SendAll
        <4> QED
          BY <1>3, <2>1, <4>1, PipeQueued
      <3>2. Right(store', Loose', seq', H, f.seq, f.data)
        BY <1>1, <1>2, <1>3
      <3> QED
        BY <1>3, <1>4, <2>1, <3>1, <3>2, StandsQueued
    <2>3. CASE s \notin Room({x})
      <3>1. Pipe(s)' = Pipe(s)
        BY <1>1, <2>3 DEF SendAll, Pipe
      <3> QED
        BY <1>4, <2>1, <3>1, StandsKept
    <2> QED
      BY <2>2, <2>3
  <1> QED
    BY <1>1, <1>2, <1>5, ExplainedSame

\* A Set is announced: everyone connected gets a Snapshot or is marked, so that
\* what it did not reach need not be right any more.
LEMMA ExplainedRefresh ==
  ASSUME GapInv, CallsStand, NEW H, Explained(H), NEW c \in Callers, refreshAll(c)
  PROVE  Explained(H)'
  <1> DEFINE f == Snapshot(seq, store)
  <1>t. TypeOK /\ Registered /\ seq \in Nat /\ Idle.pc = "idle"
    BY BoundsAssumption DEF GapInv, TypeInv, TypeOK, Idle
  <1>1. /\ call[c].pc = "refresh"
        /\ out' = SendAll(Room(subscribers), f)
        /\ stale' = [s \in Subs |-> stale[s] \/ s \in subscribers \ Room(subscribers)]
        /\ UNCHANGED <<store, seq, replay, conn, direct, view, last>>
    BY DEF refreshAll
  <1>2. Setters # {}
    BY <1>t, <1>1 DEF CallsStand
  <1>3. f \in Frame /\ f.type = "snapshot" /\ Right(store, Loose', seq, H, f.seq, f.data)
    BY <1>t, SnapshotRight
  <1> HIDE DEF f
  <1>4. ASSUME NEW s \in Subs PROVE Stands(H, s)'
    <2> SUFFICES ASSUME ~ Missed(s)'
                 PROVE  Faithful(store, Loose', seq, H, last[s], view[s], Pipe(s)')
      BY <1>1 DEF Stands
    <2>1. conn[s] = "run" /\ ~ stale'[s]
      BY <1>1, <1>2 DEF Missed
    <2>2. s \in Room(subscribers) /\ ~ stale[s]
      BY <1>t, <1>1, <2>1 DEF Registered
    <2>3. Pipe(s)' = Append(Pipe(s), f)
      <3>1. out'[s] = Append(out[s], f)
        BY <1>1, <2>2 DEF SendAll
      <3> QED
        BY <1>1, <1>3, <3>1, PipeQueued
    <2>4. Faithful(store, Loose, seq, H, last[s], view[s], Pipe(s))
      BY <2>1, <2>2 DEF Explained, Stands, Missed
    <2>5. \A i \in 1 .. Len(Pipe(s)) :
            Pipe(s)[i].type = "delta" => Pipe(s)[i].seq \in 2 .. seq /\ Pipe(s)[i].data = H[Pipe(s)[i].seq]
      BY <2>4, Zenon DEF Faithful
    <2>6. Pipe(s) \in Seq(Frame)
      BY ClientShape
    <2>7. Faithful(store, Loose', seq, H, last[s], view[s], Append(Pipe(s), f))
      BY <1>t, <1>2, <1>3, <2>5, <2>6, FaithfulAppend
    <2> QED
      BY <2>3, <2>7
  <1>5. Recorded(store', Loose', seq', H, replay')
    BY <1>1, <1>2, Zenon DEF Explained, Recorded
  <1> QED
    BY <1>4, <1>5 DEF Explained

\* The deltas replayed to a client at number q are those of the history.
LEMMA ReplayFaithful ==
  ASSUME GapInv, NEW H, Recorded(store, Loose, seq, H, replay), Setters = {},
         NEW q \in Nat, 0 < q, q <= seq, Log!Covers(replay, q), NEW v,
         Right(store, Loose, seq, H, q, v)
  PROVE  Faithful(store, Loose, seq, H, q, v, FirstFrames(q))
  <1> DEFINE rs == Log!Since(replay, q)
             fs == [i \in 1 .. Len(rs) |-> Delta(rs[i].seq, rs[i].patches)]
             k == Log!After(replay, q)
  <1>1. replay \in Seq(Rec) /\ TypeOK /\ Len(replay) \in Nat
    BY DEF GapInv, TypeInv, TypeOK, Rec
  <1>2. FirstFrames(q) = fs
    BY DEF FirstFrames
  <1>3. /\ k \in 1 .. Len(replay) + 1
        /\ rs \in Seq(Rec) /\ Len(rs) = Len(replay) - k + 1
        /\ \A i \in 1 .. Len(rs) : rs[i] = replay[k + i - 1]
    BY <1>1, AfterType, SinceType
  <1> HIDE DEF rs, k
  <1>4. ASSUME NEW i \in 1 .. Len(rs)
        PROVE  rs[i].seq \in 2 .. seq /\ rs[i].patches = H[rs[i].seq]
    <2>1. k + i - 1 \in 1 .. Len(replay) /\ rs[i] = replay[k + i - 1]
      BY <1>1, <1>3
    <2> QED
      BY <2>1, Zenon DEF Recorded, FromHistory
  <1>5. Len(fs) = Len(rs) /\ \A i \in 1 .. Len(rs) :
          fs[i].type = "delta" /\ fs[i].seq = rs[i].seq /\ fs[i].data = rs[i].patches
    BY <1>3 DEF Delta
  <1> HIDE DEF fs
  <1>6. ASSUME NEW i \in 1 .. Len(fs)
        PROVE  /\ Right(store, Loose, seq, H, fs[i].seq, fs[i].data)
               /\ fs[i].seq \in 2 .. seq /\ fs[i].data = H[fs[i].seq]
    <2>1. fs[i].seq \in 2 .. seq /\ fs[i].data = H[fs[i].seq]
      BY <1>4, <1>5
    <2> QED
      BY <2>1, Zenon DEF Recorded
  <1>7. Faithful(store, Loose, seq, H, q, v, fs)
    BY <1>6, Zenon DEF Faithful
  <1> QED
    BY <1>2, <1>7

\* A client subscribes, afresh or with the number it has.
LEMMA ExplainedSubscribe ==
  ASSUME GapInv, Separate, NEW H, Explained(H), NEW x \in Subs, NEW q \in {0, last[x]},
         q # 0 => x \in Resuming, subscribeWithResume(x, q)
  PROVE  Explained(H)'
  <1> DEFINE f == Snapshot(seq, store)
  <1>t. /\ TypeOK /\ Registered /\ seq \in Nat
        /\ conn \in [Subs -> {"off", "run", "closing"}] /\ direct \in [Subs -> Seq(Frame)]
    BY BoundsAssumption DEF GapInv, TypeInv, TypeOK
  <1>1. /\ conn[x] = "off"
        /\ direct' = [direct EXCEPT ![x] = FirstFrames(q)]
        /\ conn' = [conn EXCEPT ![x] = "run"]
        /\ UNCHANGED <<store, seq, replay, call, out, stale, view, last, dirty>>
    BY DEF subscribeWithResume
  <1>2. Loose' = Loose
    BY <1>1 DEF Loose
  <1>3. f \in Frame /\ f.type = "snapshot" /\ Right(store, Loose, seq, H, f.seq, f.data)
    BY <1>t, SnapshotRight
  <1> HIDE DEF f
  <1>4. ASSUME NEW s \in Subs, s # x PROVE Stands(H, s)'
    BY <1>t, <1>1, <1>2, <1>4 DEF Explained, Stands, Missed, Pipe
  <1>5. Stands(H, x)'
    <2>1. out[x] = <<>> /\ direct[x] = <<>> /\ last[x] \in Nat /\ last[x] <= seq /\ q \in Nat
      BY <1>t, <1>1, ClientShape DEF Registered
    <2>2. Pipe(x)' = FirstFrames(q)
      <3>1. FirstFrames(q) \in Seq(Frame) /\ direct'[x] = FirstFrames(q) /\ out'[x] = <<>>
        BY <1>t, <1>1, <2>1, FirstFramesType
      <3>2. <<>> \in Seq(Frame)
        OBVIOUS
      <3> QED
        BY <3>1, <3>2, Stream DEF Pipe
    <2>3. Faithful(store, Loose, seq, H, last[x], view[x], FirstFrames(q))
      <3>1. CASE 0 < q /\ q <= seq /\ Log!Covers(replay, q)
        <4>1. Setters = {} /\ q = last[x] /\ q # 0
          BY <2>1, <3>1 DEF Separate
        <4>2. Faithful(store, Loose, seq, H, last[x], view[x], Pipe(x))
          BY <4>1 DEF Explained, Stands, Missed
        <4>3. Right(store, Loose, seq, H, q, view[x])
          BY <4>1, <4>2, Zenon DEF Faithful, Superseded
        <4> QED
          BY <2>1, <3>1, <4>1, <4>3, ReplayFaithful DEF Explained
      <3>2. CASE ~ (0 < q /\ q <= seq /\ Log!Covers(replay, q))
        <4>1. FirstFrames(q) = <<f>>
          BY <3>2 DEF FirstFrames, f
        <4>2. <<f>> = Append(<<>>, f) /\ <<>> \in Seq(Frame)
          BY <1>3
        <4>3. \/ Faithful(store, Loose, seq, H, last[x], view[x], <<>>)
              \/ Setters # {} /\ \A i \in 1 .. Len(<<>>) : FALSE
          <5>1. CASE Setters = {}
            <6>1. Faithful(store, Loose, seq, H, last[x], view[x], Pipe(x))
              BY <5>1 DEF Explained, Stands, Missed
            <6>2. Pipe(x) = <<>>
              BY <2>1, <4>2, Stream DEF Pipe
            <6> QED
              BY <6>1, <6>2
          <5>2. CASE Setters # {}
            BY <5>2
          <5> QED
            BY <5>1, <5>2
        <4>4. Faithful(store, Loose, seq, H, last[x], view[x], Append(<<>>, f))
          BY <1>t, <1>3, <4>2, <4>3, FaithfulAppend
        <4> QED
          BY <4>1, <4>2, <4>4
      <3> QED
        BY <3>1, <3>2
    <2> QED
      BY <1>1, <1>2, <2>2, <2>3 DEF Stands
  <1> QED
    BY <1>1, <1>2, <1>4, <1>5, ExplainedSame

\* A client takes a frame.
LEMMA ExplainedArrives ==
  ASSUME GapInv, SnapshotFirst, NEW H, Explained(H), NEW x \in Subs, sendFirst(x) \/ writerLoop(x)
  PROVE  Explained(H)'
  <1>t. /\ TypeOK /\ direct \in [Subs -> Seq(Frame)] /\ out \in [Subs -> Seq(Frame)]
        /\ view \in [Subs -> State]
    BY DEF GapInv, TypeInv, TypeOK
  <1>1. /\ conn[x] = "run" /\ UNCHANGED <<store, seq, replay, call, stale, dirty>>
    BY DEF sendFirst, writerLoop, serverVars
  <1>2. Loose' = Loose
    BY <1>1 DEF Loose
  <1>3. /\ Pipe(x) # <<>> /\ Receive(x, Head(Pipe(x))) /\ Pipe(x)' = Tail(Pipe(x))
        /\ last[x] = 0 => Head(Pipe(x)).type = "snapshot"
        /\ Head(Pipe(x)) \in Frame
        /\ \A s \in Subs : s # x => Pipe(s)' = Pipe(s)
    <2>0. direct[x] \in Seq(Frame) /\ out[x] \in Seq(Frame)
      BY <1>t
    <2>1. CASE sendFirst(x)
      <3>1. /\ direct[x] # <<>> /\ Receive(x, Head(direct[x])) /\ out' = out
            /\ direct' = [direct EXCEPT ![x] = Tail(direct[x])]
        BY <2>1 DEF sendFirst, serverVars
      <3>2. /\ direct[x] \o out[x] # <<>> /\ Head(direct[x] \o out[x]) = Head(direct[x])
            /\ Tail(direct[x]) \o out[x] = Tail(direct[x] \o out[x])
        BY <2>0, <3>1, Stream
      <3>3. direct'[x] = Tail(direct[x]) /\ \A s \in Subs : s # x => direct'[s] = direct[s]
        BY <1>t, <3>1
      <3>4. last[x] = 0 => Head(direct[x]).type = "snapshot"
        BY <1>1 DEF SnapshotFirst
      <3>5. Head(direct[x]) \in Frame
        BY <2>0, <3>1
      <3> QED
        BY <3>1, <3>2, <3>3, <3>4, <3>5 DEF Pipe
    <2>2. CASE writerLoop(x)
      <3>1. /\ direct[x] = <<>> /\ out[x] # <<>> /\ Receive(x, Head(out[x])) /\ direct' = direct
            /\ out' = [out EXCEPT ![x] = Tail(out[x])]
        BY <2>2 DEF writerLoop
      <3>2. Tail(out[x]) \in Seq(Frame) /\ Head(out[x]) \in Frame
        BY <2>0, <3>1
      <3>3. direct[x] \o out[x] = out[x] /\ direct[x] \o Tail(out[x]) = Tail(out[x])
        BY <2>0, <3>1, <3>2, Stream
      <3>4. out'[x] = Tail(out[x]) /\ \A s \in Subs : s # x => out'[s] = out[s]
        BY <1>t, <3>1
      <3>5. last[x] # 0
        BY <1>1, <3>1 DEF SnapshotFirst
      <3> QED
        BY <3>1, <3>2, <3>3, <3>4, <3>5 DEF Pipe
    <2> QED
      BY <2>1, <2>2
  <1>4. ASSUME NEW s \in Subs, s # x PROVE Stands(H, s)'
    <2>1. last'[s] = last[s] /\ conn'[s] = conn[s]
      BY <1>t, <1>3, <1>4, ReceiveEffect
    <2>2. view'[s] = view[s]
      BY <1>t, <1>3, <1>4 DEF Receive
    <2> QED
      BY <1>1, <1>2, <1>3, <1>4, <2>1, <2>2 DEF Explained, Stands, Missed
  <1>5. Stands(H, x)'
    BY <1>1, <1>3, StandsArrives DEF Explained
  <1> QED
    BY <1>1, <1>2, <1>4, <1>5, ExplainedSame

\* A client leaves; what it shows stays with it.
LEMMA ExplainedLeaves ==
  ASSUME GapInv, NEW H, Explained(H), NEW x \in Subs, hangUp(x) \/ unsubscribe(x)
  PROVE  Explained(H)'
  <1>t. /\ TypeOK /\ direct \in [Subs -> Seq(Frame)] /\ out \in [Subs -> Seq(Frame)]
        /\ stale \in [Subs -> BOOLEAN] /\ conn \in [Subs -> {"off", "run", "closing"}]
    BY DEF GapInv, TypeInv, TypeOK
  <1>1. UNCHANGED <<store, seq, replay, call, dirty, view, last>>
    BY DEF hangUp, unsubscribe, serverVars, clientVars
  <1>2. Loose' = Loose
    BY <1>1 DEF Loose
  <1>3. ASSUME NEW s \in Subs, s # x PROVE Stands(H, s)'
    <2>1. UNCHANGED <<direct[s], out[s], stale[s], conn[s]>>
      BY <1>t, <1>3 DEF hangUp, unsubscribe, serverVars
    <2> QED
      BY <1>1, <1>2, <2>1 DEF Explained, Stands, Missed, Pipe
  <1>4. Stands(H, x)'
    <2> SUFFICES ASSUME ~ Missed(x)'
                 PROVE  Faithful(store, Loose, seq, H, last[x], view[x], Pipe(x)')
      BY <1>1, <1>2 DEF Stands
    <2>1. Setters = {}
      <3>1. conn'[x] # "run"
        BY <1>t DEF hangUp, unsubscribe
      <3> QED
        BY <3>1 DEF Missed
    <2>2. Faithful(store, Loose, seq, H, last[x], view[x], Pipe(x))
      BY <2>1 DEF Explained, Stands, Missed
    <2>3. CASE hangUp(x)
      <3>1. Pipe(x)' = Pipe(x)
        BY <2>3 DEF hangUp, serverVars, Pipe
      <3> QED
        BY <2>2, <3>1
    <2>4. CASE unsubscribe(x)
      <3>1. direct'[x] = <<>> /\ out'[x] = <<>>
        BY <1>t, <2>4 DEF unsubscribe
      <3>2. <<>> \in Seq(Frame) /\ Len(<<>>) = 0
        OBVIOUS
      <3>3. Pipe(x)' = <<>>
        BY <3>1, <3>2, Stream DEF Pipe
      <3>4. last[x] # 0 => Right(store, Loose, seq, H, last[x], view[x])
        BY <2>1, <2>2, Zenon DEF Faithful, Superseded
      <3>5. 1 .. 0 = {}
        OBVIOUS
      <3> QED
        BY <3>2, <3>3, <3>4, <3>5, Zenon DEF Faithful
    <2> QED
      BY <2>3, <2>4
  <1> QED
    BY <1>1, <1>2, <1>3, <1>4, ExplainedSame

\* Every step leaves some history that explains the state.
LEMMA NextExplained ==
  ASSUME ConvInv, TypeOK', [Next]_vars
  PROVE  \E H : Explained(H)'
  <1>0. PICK H : Explained(H)
    BY DEF ConvInv
  <1>t. GapInv /\ TypeOK /\ ~ SwitchesAway /\ Separate /\ CallsStand /\ SnapshotFirst
    BY DEF ConvInv, GapInv, TypeInv
  <1>1. ASSUME NEW c \in Callers, NEW p \in PatchesOf(c), NEW next \in {"publish", "refresh"},
               applyPatches(c, p, next)
        PROVE  Explained(H)'
    <2>1. /\ Loose \subseteq Loose' /\ \A x \in Paths : x \in Loose' \/ store'[x] = store[x]
      BY <1>t, <1>1, LooseApply
    <2>2. UNCHANGED <<seq, replay, out, stale, conn, direct, view, last>>
      BY <1>1 DEF applyPatches
    <2> QED
      BY <1>0, <1>t, <2>1, <2>2, ExplainedApply
  <1>2. ASSUME NEW c \in Callers, NEW p \in PatchesOf(c), NEW D \in SUBSET DOMAIN p,
               applyPatchesFails(c, D, p)
        PROVE  Explained(H)'
    <2>1. /\ Loose \subseteq Loose' /\ \A x \in Paths : x \in Loose' \/ store'[x] = store[x]
      BY <1>t, <1>2, LooseFails
    <2>2. UNCHANGED <<seq, replay, out, stale, conn, direct, view, last>>
      BY <1>2 DEF applyPatchesFails
    <2> QED
      BY <1>0, <1>t, <2>1, <2>2, ExplainedApply
  <1>3. ASSUME NEW c \in Callers, Publishing(c) PROVE \E H2 : Explained(H2)'
    BY <1>0, <1>t, <1>3, ExplainedPublish, ExplainedCollapse, ExplainedRefresh DEF Publishing
  <1>4. ASSUME NEW x \in Subs, NEW q \in {0, last[x]}, q # 0 => x \in Resuming,
               subscribeWithResume(x, q)
        PROVE  Explained(H)'
    BY <1>0, <1>t, <1>4, ExplainedSubscribe
  <1>5. ASSUME NEW x \in Subs, sendFirst(x) \/ writerLoop(x) PROVE Explained(H)'
    BY <1>0, <1>t, <1>5, ExplainedArrives
  <1>6. ASSUME NEW x \in Subs, hangUp(x) \/ unsubscribe(x) PROVE Explained(H)'
    BY <1>0, <1>t, <1>6, ExplainedLeaves
  <1>7. CASE UNCHANGED vars
    <2>1. UNCHANGED <<store, seq, replay, out, stale, conn, direct, view, last>> /\ Loose' = Loose
      BY <1>7 DEF vars, Loose
    <2> QED
      BY <1>0, <1>t, <2>1, ExplainedApply
  <1>8. ~ migrateAway
    BY <1>t DEF migrateAway
  <1> QED
    BY <1>1, <1>2, <1>3, <1>4, <1>5, <1>6, <1>7, <1>8 DEF Next, Emit, Set

\* The empty history explains the initial state.
LEMMA InitConvInv == Init /\ ~ SwitchesAway /\ Separate => ConvInv
  <1> SUFFICES ASSUME Init, ~ SwitchesAway, Separate PROVE ConvInv
    OBVIOUS
  <1>1. GapInv /\ CallsStand /\ Held /\ SnapshotFirst
    BY InitGapInv DEF Init, CallsStand, Held, SnapshotFirst
  <1>2. PICK H : H \in [2 .. 1 -> Patch]
    <2>1. [n \in 2 .. 1 |-> n] \in [2 .. 1 -> Patch]
      OBVIOUS
    <2> QED
      BY <2>1
  <1>3. Recorded(store, Loose, seq, H, replay)
    <2>1. seq = 1 /\ replay = <<>> /\ Len(<<>>) = 0 /\ 1 .. 0 = {} /\ 2 .. 1 = {}
      BY DEF Init
    <2>2. FromHistory(replay, seq, H)
      BY <2>1, Zenon DEF FromHistory
    <2> QED
      BY <1>2, <2>1, <2>2, Zenon DEF Recorded
  <1>4. ASSUME NEW s \in Subs PROVE Stands(H, s)
    <2>1. last[s] = 0 /\ direct[s] = <<>> /\ out[s] = <<>> /\ Len(<<>>) = 0 /\ 1 .. 0 = {}
      BY DEF Init
    <2>2. Pipe(s) = <<>>
      <3>1. <<>> \in Seq(Frame)
        OBVIOUS
      <3> QED
        BY <2>1, <3>1, Stream DEF Pipe
    <2> QED
      BY <2>1, <2>2, Zenon DEF Stands, Faithful
  <1> QED
    BY <1>1, <1>3, <1>4 DEF ConvInv, Explained

\* Every step preserves the invariant.
LEMMA NextConvInv == ConvInv /\ [Next]_vars => ConvInv'
  <1> SUFFICES ASSUME ConvInv, [Next]_vars PROVE ConvInv'
    OBVIOUS
  <1>1. GapInv /\ TypeOK /\ Apart /\ ~ SwitchesAway /\ CallsStand /\ Held /\ SnapshotFirst
    BY DEF ConvInv, GapInv, TypeInv, Separate
  <1>2. GapInv'
    BY <1>1, NextGapInv
  <1>3. CallsStand' /\ Held' /\ SnapshotFirst'
    BY <1>1, NextCallsStand, NextHeld, NextSnapshotFirst
  <1>4. TypeOK'
    BY <1>2 DEF GapInv, TypeInv
  <1>5. \E H : Explained(H)'
    BY <1>4, NextExplained
  <1> QED
    BY <1>2, <1>3, <1>5 DEF ConvInv, Separate

\* When nothing is under way, the history after the client's number is empty.
LEMMA ConvInvConverged == ConvInv => Converged
  <1> SUFFICES ASSUME ConvInv, NEW s \in Subs, Settled(s), ~ stale[s], NEW p \in Paths \ dirty
               PROVE  view[s][p] = store[p]
    BY DEF Converged
  <1>1. PICK H : Explained(H)
    BY DEF ConvInv
  <1>2. /\ \A c \in Callers : call[c] = Idle
        /\ conn[s] = "run" /\ direct[s] = <<>> /\ out[s] = <<>> /\ Idle.pc = "idle"
    BY DEF Settled, Idle
  <1>3. Pipe(s) = <<>> /\ Len(<<>>) = 0
    <2>1. <<>> \in Seq(Frame)
      OBVIOUS
    <2> QED
      BY <1>2, <2>1, Stream DEF Pipe
  <1>4. full = {} /\ Loose = dirty
    BY <1>2 DEF ConvInv, Held, Loose
  <1>5. last[s] = seq /\ seq \in Nat /\ seq > 0 /\ view[s] \in State
    <2>1. GapInv /\ Flow(s)
      BY DEF ConvInv, GapInv
    <2> QED
      BY <1>2, <1>3, <1>4, <2>1, ClientShape DEF Flow, EndOf
  <1>6. Right(store, Loose, seq, H, last[s], view[s])
    <2>1. Faithful(store, Loose, seq, H, last[s], view[s], <<>>)
      BY <1>1, <1>2, <1>3 DEF Explained, Stands, Missed
    <2>2. ~ Superseded(<<>>, 0)
      BY <1>3 DEF Superseded
    <2> QED
      BY <1>5, <2>1, <2>2 DEF Faithful
  <1>7. last[s] + 1 .. seq = {} /\ p \in DOMAIN view[s]
    BY <1>5, DataShape
  <1> QED
    BY <1>4, <1>6, <1>7 DEF Right

-----------------------------------------------------------------------------

\* A client that is not marked stale shows the store once everything under way
\* has arrived: for every number of callers and clients, every capacity of the
\* queues and the window, every interleaving of Set, Emit, fan-out, collapse,
\* disconnection and resume, and whatever calls fail half way.  The callers must
\* write separate paths (the run scene_race shows what happens otherwise), and a
\* scene that is seeded with Set while clients are away must not be resumed.
THEOREM ViewsConverge == Spec /\ ~ SwitchesAway /\ Separate => []Converged
  BY InitConvInv, NextConvInv, ConvInvConverged, PTL DEF Spec

-----------------------------------------------------------------------------
(* The identity a client shows. *)

\* Metadata md on frame f is true to the identities I in force at each number:
\* a Snapshot names the one of its number, a Delta names it or leaves the one
\* before.
Carries(I, f, md) ==
  /\ f.type = "snapshot" => f.seq \in 1 .. Len(I) /\ md = I[f.seq]
  /\ f.type # "snapshot" => /\ f.seq \in 2 .. Len(I)
                             /\ IF md = Nil THEN I[f.seq] = I[f.seq - 1] ELSE I[f.seq] = md

\* The same of a stream of frames and of the replay records.
Stamped(I, fs, ms) ==
  Len(ms) = Len(fs) /\ \A i \in 1 .. Len(fs) : Carries(I, fs[i], ms[i])

RecordsStamped(I, w, ms) ==
  Len(ms) = Len(w) /\ \A i \in 1 .. Len(w) : Carries(I, Delta(w[i].seq, w[i].patches), ms[i])

MetaTypes ==
  /\ passed \in [Callers -> Metadata]
  /\ lastMetadata \in Metadata
  /\ recorded \in Seq(Metadata) /\ inForce \in Seq(Metadata)
  /\ stamped \in [Subs -> Seq(Metadata)] /\ outMeta \in [Subs -> Seq(Metadata)]
  /\ identity \in [Subs -> Metadata]

\* The identity a client shows, and what is on its way to it.
Identified(s) ==
  /\ last[s] # 0 => last[s] \in 1 .. Len(inForce) /\ identity[s] = inForce[last[s]]
  /\ Stamped(inForce, direct[s], stamped[s])
  /\ Stamped(inForce, out[s], outMeta[s])

MetaInv ==
  /\ MetaTypes
  /\ Len(inForce) = seq /\ lastMetadata = inForce[seq]
  /\ RecordsStamped(inForce, replay, recorded)
  /\ \A s \in Subs : Identified(s)

IdentityInv == TypeInv /\ SnapshotFirst /\ MetaInv

-----------------------------------------------------------------------------
(* Streams and their metadata. *)

\* One more number does not change what was in force before.
LEMMA CarriesGrows ==
  ASSUME NEW I \in Seq(Metadata), NEW m \in Metadata, NEW f, NEW md, f.seq \in Nat,
         Carries(I, f, md)
  PROVE  Carries(Append(I, m), f, md)
  <1> DEFINE J == Append(I, m)
  <1>1. /\ Len(I) \in Nat /\ Len(J) = Len(I) + 1
        /\ \A n \in 1 .. Len(I) : n \in 1 .. Len(J) /\ J[n] = I[n]
    OBVIOUS
  <1> HIDE DEF J
  <1>2. f.seq \in 2 .. Len(I) => f.seq \in 1 .. Len(I) /\ f.seq - 1 \in 1 .. Len(I) /\ f.seq \in 2 .. Len(J)
    BY <1>1
  <1>3. CASE f.type = "snapshot"
    BY <1>1, <1>3 DEF Carries
  <1>4. CASE f.type # "snapshot"
    <2>1. f.seq \in 2 .. Len(I) /\ IF md = Nil THEN I[f.seq] = I[f.seq - 1] ELSE I[f.seq] = md
      BY <1>4, Zenon DEF Carries
    <2>2. J[f.seq] = I[f.seq] /\ J[f.seq - 1] = I[f.seq - 1] /\ f.seq \in 2 .. Len(J)
      BY <1>1, <1>2, <2>1
    <2> QED
      BY <1>4, <2>1, <2>2, Zenon DEF Carries, J
  <1> QED
    BY <1>3, <1>4 DEF J

\* Nor what the frames on their way say.
LEMMA StampedGrows ==
  ASSUME NEW I \in Seq(Metadata), NEW m \in Metadata, NEW fs \in Seq(Frame), NEW ms,
         Stamped(I, fs, ms)
  PROVE  Stamped(Append(I, m), fs, ms)
  <1>1. ASSUME NEW i \in 1 .. Len(fs) PROVE Carries(Append(I, m), fs[i], ms[i])
    <2>1. fs[i] \in Frame /\ Carries(I, fs[i], ms[i])
      BY DEF Stamped
    <2> QED
      BY <2>1, FrameSeq, CarriesGrows
  <1> QED
    BY <1>1 DEF Stamped

\* A frame and its metadata are queued together.
LEMMA StampedAppend ==
  ASSUME NEW I, NEW fs \in Seq(Frame), NEW ms \in Seq(Metadata), NEW f \in Frame,
         NEW m \in Metadata, Stamped(I, fs, ms), Carries(I, f, m)
  PROVE  Stamped(I, Append(fs, f), Append(ms, m))
  <1> DEFINE gs == Append(fs, f)
             ns == Append(ms, m)
  <1>0. Len(ms) = Len(fs) /\ \A i \in 1 .. Len(fs) : Carries(I, fs[i], ms[i])
    BY DEF Stamped
  <1>1. /\ Len(fs) \in Nat /\ Len(gs) = Len(fs) + 1 /\ Len(ns) = Len(fs) + 1
        /\ gs[Len(fs) + 1] = f /\ ns[Len(fs) + 1] = m
        /\ \A i \in 1 .. Len(fs) : gs[i] = fs[i] /\ ns[i] = ms[i]
    BY <1>0
  <1> HIDE DEF gs, ns
  <1>2. ASSUME NEW i \in 1 .. Len(gs) PROVE Carries(I, gs[i], ns[i])
    <2>1. CASE i = Len(fs) + 1
      BY <1>1, <2>1
    <2>2. CASE i \in 1 .. Len(fs)
      <3>1. gs[i] = fs[i] /\ ns[i] = ms[i]
        BY <1>1, <2>2
      <3> QED
        BY <1>0, <2>2, <3>1
    <2> QED
      BY <1>1, <2>1, <2>2
  <1> QED
    BY <1>1, <1>2 DEF Stamped, gs, ns

\* They leave together.
LEMMA StampedTail ==
  ASSUME NEW I, NEW fs \in Seq(Frame), NEW ms \in Seq(Metadata), fs # <<>>, Stamped(I, fs, ms)
  PROVE  /\ Carries(I, Head(fs), Head(ms)) /\ Stamped(I, Tail(fs), Tail(ms))
         /\ Head(ms) \in Metadata /\ Tail(ms) \in Seq(Metadata)
         /\ Head(fs) \in Frame
  <1>0. Len(ms) = Len(fs) /\ \A i \in 1 .. Len(fs) : Carries(I, fs[i], ms[i])
    BY DEF Stamped
  <1>1. /\ Len(fs) \in Nat /\ Len(fs) > 0 /\ ms # <<>>
        /\ Head(fs) = fs[1] /\ Head(ms) = ms[1] /\ Head(fs) \in Frame /\ Head(ms) \in Metadata
        /\ Tail(ms) \in Seq(Metadata)
    BY <1>0
  <1>2. /\ Len(Tail(fs)) = Len(fs) - 1 /\ Len(Tail(ms)) = Len(fs) - 1
        /\ \A i \in 1 .. Len(Tail(fs)) : /\ Tail(fs)[i] = fs[i + 1] /\ Tail(ms)[i] = ms[i + 1]
                                       /\ i + 1 \in 1 .. Len(fs)
    BY <1>0, <1>1
  <1>3. Carries(I, Head(fs), Head(ms))
    BY <1>0, <1>1
  <1>4. \A i \in 1 .. Len(Tail(fs)) : Carries(I, Tail(fs)[i], Tail(ms)[i])
    BY <1>0, <1>2, Zenon
  <1> QED
    BY <1>1, <1>2, <1>3, <1>4 DEF Stamped

\* An empty stream has no metadata.
LEMMA StampedEmpty ==
  ASSUME NEW I
  PROVE  Stamped(I, <<>>, <<>>)
  BY DEF Stamped

\* Cutting a stream's metadata to the stream's length changes nothing.
LEMMA CutMeta ==
  ASSUME NEW ms \in Seq(Metadata)
  PROVE  /\ SubSeq(ms, 1, Len(ms)) = ms
         /\ SubSeq(ms, 1, 0) = <<>>
  OBVIOUS

\* What Queue does to one client's metadata.
QueuedMeta(ms, gs, md, lm) ==
  [i \in 1 .. Len(gs) |->
    IF i <= Len(ms) THEN ms[i] ELSE IF gs[i].type = "delta" THEN md ELSE lm]

\* A queue that does not grow keeps its metadata; a frame brings its own.
LEMMA QueueEffect ==
  ASSUME NEW fs \in Seq(Frame), NEW ms \in Seq(Metadata), Len(ms) = Len(fs),
         NEW md \in Metadata, NEW lm \in Metadata
  PROVE  /\ QueuedMeta(ms, fs, md, lm) = ms
         /\ \A f \in Frame : QueuedMeta(ms, Append(fs, f), md, lm)
                               = Append(ms, IF f.type = "delta" THEN md ELSE lm)
  <1>1. QueuedMeta(ms, fs, md, lm) = ms
    BY DEF QueuedMeta
  <1>2. ASSUME NEW f \in Frame
        PROVE  QueuedMeta(ms, Append(fs, f), md, lm) = Append(ms, IF f.type = "delta" THEN md ELSE lm)
    <2> DEFINE x == IF f.type = "delta" THEN md ELSE lm
               gs == Append(fs, f)
               n == Len(fs)
    <2>1. x \in Metadata /\ n \in Nat /\ Len(gs) = n + 1 /\ gs[n + 1] = f
      OBVIOUS
    <2>2. /\ Append(ms, x) \in Seq(Metadata) /\ Len(Append(ms, x)) = n + 1
          /\ Append(ms, x)[n + 1] = x /\ \A i \in 1 .. n : Append(ms, x)[i] = ms[i]
      BY <2>1
    <2>3. QueuedMeta(ms, gs, md, lm) = [i \in 1 .. n + 1 |-> Append(ms, x)[i]]
      <3>1. ASSUME NEW i \in 1 .. n + 1
            PROVE  (IF i <= Len(ms) THEN ms[i] ELSE IF gs[i].type = "delta" THEN md ELSE lm)
                     = Append(ms, x)[i]
        BY <2>1, <2>2
      <3> QED
        BY <2>1, <3>1 DEF QueuedMeta
    <2>4. Append(ms, x) = [i \in 1 .. n + 1 |-> Append(ms, x)[i]]
      BY <2>1, <2>2
    <2> QED
      BY <2>3, <2>4
  <1> QED
    BY <1>1, <1>2

\* The second part, with a name for what the frame brings.
LEMMA QueueGrows ==
  ASSUME NEW fs \in Seq(Frame), NEW ms \in Seq(Metadata), Len(ms) = Len(fs),
         NEW md \in Metadata, NEW lm \in Metadata, NEW f \in Frame,
         NEW x, x = IF f.type = "delta" THEN md ELSE lm
  PROVE  QueuedMeta(ms, Append(fs, f), md, lm) = Append(ms, x)
  <1>1. \A g \in Frame : QueuedMeta(ms, Append(fs, g), md, lm)
                            = Append(ms, IF g.type = "delta" THEN md ELSE lm)
    BY QueueEffect
  <1> QED
    BY <1>1, Zenon

\* The frames a step sends keep every queue in step with its metadata.
LEMMA QueueKeeps ==
  ASSUME TypeOK, MetaTypes, NEW md \in Metadata, lastMetadata' \in Metadata, Queue(md),
         NEW S \in SUBSET Subs, NEW f \in Frame, out' = SendAll(S, f),
         \A s \in Subs : Stamped(inForce', out[s], outMeta[s]),
         Carries(inForce', f, IF f.type = "delta" THEN md ELSE lastMetadata')
  PROVE  /\ outMeta' \in [Subs -> Seq(Metadata)]
         /\ \A s \in Subs : Stamped(inForce', out'[s], outMeta'[s])
  <1>1. outMeta' = [s \in Subs |-> QueuedMeta(outMeta[s], out'[s], md, lastMetadata')]
    BY Zenon DEF Queue, QueuedMeta
  <1>2. ASSUME NEW s \in Subs
        PROVE  outMeta'[s] \in Seq(Metadata) /\ Stamped(inForce', out'[s], outMeta'[s])
    <2> DEFINE x == IF f.type = "delta" THEN md ELSE lastMetadata'
    <2>1. /\ out[s] \in Seq(Frame) /\ outMeta[s] \in Seq(Metadata) /\ x \in Metadata
          /\ Stamped(inForce', out[s], outMeta[s])
          /\ outMeta'[s] = QueuedMeta(outMeta[s], out'[s], md, lastMetadata')
      BY <1>1 DEF TypeOK, MetaTypes
    <2>2. Len(outMeta[s]) = Len(out[s])
      BY <2>1 DEF Stamped
    <2>x. x = (IF f.type = "delta" THEN md ELSE lastMetadata') /\ Carries(inForce', f, x)
      OBVIOUS
    <2> HIDE DEF x
    <2>3. CASE s \in S
      <3>1. out'[s] = Append(out[s], f)
        BY <2>3 DEF SendAll
      <3>2. outMeta'[s] = Append(outMeta[s], x)
        <4>1. QueuedMeta(outMeta[s], Append(out[s], f), md, lastMetadata') = Append(outMeta[s], x)
          BY <2>1, <2>2, <2>x, QueueGrows
        <4> QED
          BY <2>1, <3>1, <4>1, Zenon
      <3>3. Append(outMeta[s], x) \in Seq(Metadata)
        BY <2>1
      <3> QED
        BY <2>1, <2>x, <3>1, <3>2, <3>3, StampedAppend
    <2>4. CASE s \notin S
      <3>1. out'[s] = out[s]
        BY <2>4 DEF SendAll
      <3>2. outMeta'[s] = outMeta[s]
        <4>1. QueuedMeta(outMeta[s], out[s], md, lastMetadata') = outMeta[s]
          BY <2>1, <2>2, QueueEffect
        <4> QED
          BY <2>1, <3>1, <4>1, Zenon
      <3> QED
        BY <2>1, <3>1, <3>2
    <2> QED
      BY <2>3, <2>4
  <1> QED
    BY <1>1, <1>2

\* The records after one more emission.
LEMMA RecordsPush ==
  ASSUME NEW I \in Seq(Metadata), NEW m \in Metadata, NEW md \in Metadata,
         NEW w \in Seq(Rec), NEW ms \in Seq(Metadata), RecordsStamped(I, w, ms),
         NEW r \in Rec, r.seq = Len(I) + 1, I # <<>>,
         IF md = Nil THEN m = I[Len(I)] ELSE m = md,
         NEW w2, w2 = Log!Pushed(w, r), NEW all, all = Append(ms, md),
         NEW ms2, ms2 = SubSeq(all, Len(all) - Len(w2) + 1, Len(all))
  PROVE  RecordsStamped(Append(I, m), w2, ms2) /\ ms2 \in Seq(Metadata)
  <1> DEFINE J == Append(I, m)
             n == Len(w)
             Fits(x, y) == Carries(J, Delta(x.seq, x.patches), y)
  <1>1. /\ n \in Nat /\ Len(ms) = n /\ all \in Seq(Metadata) /\ Len(all) = n + 1
        /\ all[n + 1] = md /\ \A i \in 1 .. n : all[i] = ms[i]
    BY DEF RecordsStamped
  <1>2. \A i \in 1 .. n : Fits(w[i], ms[i])
    <2> SUFFICES ASSUME NEW i \in 1 .. n PROVE Fits(w[i], ms[i])
      OBVIOUS
    <2>1. w[i] \in Rec /\ Carries(I, Delta(w[i].seq, w[i].patches), ms[i])
      BY DEF RecordsStamped
    <2>2. Delta(w[i].seq, w[i].patches).seq \in Nat
      BY <2>1 DEF Rec, Delta
    <2> QED
      BY <2>1, <2>2, CarriesGrows
  <1>3. Fits(r, md)
    <2>1. /\ Delta(r.seq, r.patches).type = "delta" /\ Delta(r.seq, r.patches).seq = Len(I) + 1
      BY DEF Delta
    <2>2. /\ Len(I) \in Nat /\ Len(I) >= 1 /\ Len(J) = Len(I) + 1 /\ J[Len(I) + 1] = m
          /\ J[Len(I)] = I[Len(I)] /\ (Len(I) + 1) - 1 = Len(I) /\ Len(I) + 1 \in 2 .. Len(J)
      OBVIOUS
    <2> HIDE DEF J
    <2> QED
      BY <2>1, <2>2, Zenon DEF Carries
  <1> HIDE DEF J, Fits
  <1>4. /\ ms2 \in Seq(Metadata) /\ Len(ms2) = Len(w2) /\ Len(w2) \in Nat
        /\ \A i \in 1 .. Len(w2) : \/ w2[i] = r /\ ms2[i] = md
                                  \/ \E j \in 1 .. n : w2[i] = w[j] /\ ms2[i] = ms[j]
    <2>1. CASE Len(w) < ReplayCap
      <3>1. w2 = Append(w, r)
        BY <2>1 DEF Log!Pushed
      <3>2. Len(w2) = n + 1 /\ w2[n + 1] = r /\ \A i \in 1 .. n : w2[i] = w[i]
        BY <3>1
      <3>3. Len(all) - Len(w2) + 1 = 1
        BY <1>1, <3>2
      <3>4. ms2 = all
        <4>1. SubSeq(all, 1, Len(all)) = all
          BY <1>1, CutMeta
        <4> QED
          BY <3>3, <4>1
      <3>5. ASSUME NEW i \in 1 .. n + 1
            PROVE  \/ w2[i] = r /\ ms2[i] = md
                   \/ \E j \in 1 .. n : w2[i] = w[j] /\ ms2[i] = ms[j]
        <4>1. CASE i = n + 1
          BY <1>1, <3>2, <3>4, <4>1
        <4>2. CASE i \in 1 .. n
          <5>1. w2[i] = w[i] /\ ms2[i] = ms[i]
            BY <1>1, <3>2, <3>4, <4>2
          <5> QED
            BY <4>2, <5>1
        <4>3. i = n + 1 \/ i \in 1 .. n
          BY <1>1
        <4> QED
          BY <4>1, <4>2, <4>3
      <3> QED
        BY <1>1, <3>2, <3>4, <3>5
    <2>2. CASE ~ (Len(w) < ReplayCap)
      <3>1. w2 = Append(Tail(w), r) /\ w # <<>> /\ n > 0
        BY <2>2, BoundsAssumption DEF Log!Pushed
      <3>2. /\ Tail(w) \in Seq(Rec) /\ Len(Tail(w)) = n - 1 /\ n - 1 \in Nat
            /\ \A i \in 1 .. n - 1 : Tail(w)[i] = w[i + 1]
        BY <1>1, <3>1
      <3>3. Len(w2) = n /\ w2[n] = r /\ \A i \in 1 .. n - 1 : w2[i] = w[i + 1]
        BY <1>1, <3>1, <3>2
      <3>4. Len(all) - Len(w2) + 1 = 2
        BY <1>1, <3>3
      <3>5. ms2 = SubSeq(all, 2, n + 1)
        BY <1>1, <3>4
      <3>6. ms2 \in Seq(Metadata) /\ Len(ms2) = n /\ \A i \in 1 .. n : ms2[i] = all[i + 1]
        BY <1>1, <3>1, <3>5
      <3>7. ASSUME NEW i \in 1 .. n
            PROVE  \/ w2[i] = r /\ ms2[i] = md
                   \/ \E j \in 1 .. n : w2[i] = w[j] /\ ms2[i] = ms[j]
        <4>1. CASE i = n
          BY <1>1, <3>3, <3>6, <4>1
        <4>2. CASE i # n
          <5>1. i \in 1 .. n - 1 /\ i + 1 \in 1 .. n
            BY <1>1, <4>2
          <5>2. w2[i] = w[i + 1] /\ ms2[i] = ms[i + 1]
            BY <1>1, <3>3, <3>6, <5>1
          <5> QED
            BY <5>1, <5>2
        <4> QED
          BY <4>1, <4>2
      <3> QED
        BY <1>1, <3>3, <3>6, <3>7
    <2> QED
      BY <2>1, <2>2
  <1>5. \A i \in 1 .. Len(w2) : Fits(w2[i], ms2[i])
    BY <1>2, <1>3, <1>4, Zenon
  <1> QED
    BY <1>4, <1>5, Zenon DEF RecordsStamped, Fits, J

-----------------------------------------------------------------------------
(* The steps. *)

\* Every step of Projection is one of Scene.
LEMMA ProjectionIsScene == [ProjectionNext]_projectionVars => [Next]_vars
  <1> SUFFICES ASSUME [ProjectionNext]_projectionVars PROVE [Next]_vars
    OBVIOUS
  <1>1. ASSUME NEW c \in Callers, NEW p \in PatchesOf(c), NEW md, emitWithMetadata(c, p, md) PROVE Next
    BY <1>1, Zenon DEF emitWithMetadata, Next
  <1>2. ASSUME NEW c \in Callers, publishMetadata(c) PROVE Next
    BY <1>2, Zenon DEF publishMetadata, Next, Publishing
  <1>3. ASSUME NEW c \in Callers, NEW s \in Subs, collapseStamped(c, s) PROVE Next
    BY <1>3, Zenon DEF collapseStamped, Next, Publishing
  <1>4. ASSUME NEW c \in Callers, setStep(c) PROVE Next
    BY <1>4, Zenon DEF setStep, Next, Publishing
  <1>5. ASSUME NEW s \in Subs, subscribeStamped(s, 0) PROVE Next
    BY <1>5, Zenon DEF subscribeStamped, Next
  <1>6. ASSUME NEW s \in Subs, s \in Resuming /\ subscribeStamped(s, last[s]) PROVE Next
    BY <1>6, Zenon DEF subscribeStamped, Next
  <1>7. ASSUME NEW s \in Subs, firstFrame(s) \/ queuedFrame(s) \/ leave(s) PROVE Next
    BY <1>7, Zenon DEF firstFrame, queuedFrame, leave, Next
  <1>8. CASE UNCHANGED projectionVars
    BY <1>8, Zenon DEF projectionVars
  <1> QED
    BY <1>1, <1>2, <1>3, <1>4, <1>5, <1>6, <1>7, <1>8, Zenon DEF ProjectionNext

\* Nobody's metadata is empty.
LEMMA MetadataTypes ==
  Nil \in Metadata /\ \A c \in Callers : Revision[c] \in Metadata
  BY DEF Metadata

\* What the steps below use.
LEMMA MetaShape ==
  ASSUME IdentityInv
  PROVE  /\ TypeOK /\ MetaTypes /\ SnapshotFirst /\ seq \in Nat /\ seq > 0
         /\ Len(inForce) = seq /\ lastMetadata = inForce[seq] /\ inForce \in Seq(Metadata)
         /\ RecordsStamped(inForce, replay, recorded)
         /\ \A s \in Subs : /\ Stamped(inForce, direct[s], stamped[s])
                             /\ Stamped(inForce, out[s], outMeta[s])
                             /\ direct[s] \in Seq(Frame) /\ out[s] \in Seq(Frame)
                             /\ stamped[s] \in Seq(Metadata) /\ outMeta[s] \in Seq(Metadata)
         /\ replay \in Seq(Rec) /\ recorded \in Seq(Metadata)
  <1>1. /\ TypeOK /\ MetaTypes /\ SnapshotFirst /\ Len(inForce) = seq /\ lastMetadata = inForce[seq]
        /\ RecordsStamped(inForce, replay, recorded)
        /\ \A s \in Subs : /\ Stamped(inForce, direct[s], stamped[s])
                            /\ Stamped(inForce, out[s], outMeta[s])
    BY Zenon DEF IdentityInv, TypeInv, MetaInv, Identified
  <1>2. \A s \in Subs : /\ direct[s] \in Seq(Frame) /\ out[s] \in Seq(Frame)
                         /\ stamped[s] \in Seq(Metadata) /\ outMeta[s] \in Seq(Metadata)
    BY <1>1 DEF TypeOK, MetaTypes
  <1>3. /\ seq \in Nat /\ seq > 0 /\ inForce \in Seq(Metadata)
        /\ replay \in Seq(Rec) /\ recorded \in Seq(Metadata)
    BY <1>1, BoundsAssumption DEF TypeOK, MetaTypes, Rec
  <1> QED
    BY <1>1, <1>2, <1>3

\* An emission is applied: nothing is numbered yet.
LEMMA MetaEmit ==
  ASSUME IdentityInv, NEW c \in Callers, NEW p \in PatchesOf(c), NEW md \in {Revision[c], Nil},
         emitWithMetadata(c, p, md)
  PROVE  MetaInv'
  <1>1. /\ UNCHANGED <<seq, replay, out, direct, last>>
        /\ UNCHANGED <<lastMetadata, recorded, stamped, outMeta, identity, inForce>>
        /\ passed' = [passed EXCEPT ![c] = md]
    BY DEF emitWithMetadata, Emit, applyPatches
  <1>2. MetaTypes'
    BY <1>1, MetadataTypes DEF IdentityInv, MetaInv, MetaTypes
  <1> QED
    BY <1>1, <1>2 DEF IdentityInv, MetaInv, Identified

\* It is numbered.
LEMMA MetaPublish ==
  ASSUME IdentityInv, TypeOK', NEW c \in Callers, publishMetadata(c)
  PROVE  MetaInv'
  <1> DEFINE md == passed[c]
             r == [seq |-> seq + 1, patches |-> call[c].patch]
             f == Delta(seq + 1, call[c].patch)
             m == IF md = Nil THEN lastMetadata ELSE md
             all == Append(recorded, md)
  <1>0. /\ TypeOK /\ MetaTypes /\ seq \in Nat /\ seq > 0
        /\ Len(inForce) = seq /\ lastMetadata = inForce[seq] /\ inForce \in Seq(Metadata)
        /\ RecordsStamped(inForce, replay, recorded)
        /\ \A s \in Subs : /\ Stamped(inForce, direct[s], stamped[s])
                            /\ Stamped(inForce, out[s], outMeta[s])
                            /\ direct[s] \in Seq(Frame) /\ out[s] \in Seq(Frame)
        /\ replay \in Seq(Rec) /\ recorded \in Seq(Metadata)
    BY MetaShape
  <1>1. /\ call[c].pc = "publish" /\ seq' = seq + 1 /\ replay' = Log!Pushed(replay, r)
        /\ out' = SendAll(Room(subscribers), f) /\ direct' = direct /\ last' = last
    BY DEF publishMetadata, publish
  <1>2. /\ lastMetadata' = m
        /\ recorded' = SubSeq(all, Len(all) - Len(replay') + 1, Len(all))
        /\ inForce' = Append(inForce, m) /\ Queue(md)
        /\ UNCHANGED <<passed, stamped, identity>>
    BY DEF publishMetadata
  <1>3. md \in Metadata /\ m \in Metadata
    BY <1>0 DEF MetaTypes
  <1>4. call[c] # Idle
    BY <1>1 DEF Idle
  <1>5. seq + 1 \in 1 .. MaxSeq /\ call[c].patch \in Patch
    BY <1>0, <1>1, <1>4, CallShape DEF TypeOK
  <1>6. /\ r \in Rec /\ r.seq = seq + 1
        /\ f \in Frame /\ f.type = "delta" /\ f.seq = seq + 1
    BY <1>5, FrameTypes DEF Rec, Delta
  <1>7. IF md = Nil THEN m = inForce[seq] ELSE m = md
    BY <1>0
  <1> HIDE DEF r, f, m, md
  <1>8. /\ inForce' \in Seq(Metadata) /\ Len(inForce') = seq' /\ inForce'[seq'] = m
        /\ \A n \in 1 .. seq : inForce'[n] = inForce[n] /\ n \in 1 .. seq'
    BY <1>0, <1>1, <1>2, <1>3
  <1>9. RecordsStamped(inForce', replay', recorded') /\ recorded' \in Seq(Metadata)
    <2>1. inForce # <<>> /\ r.seq = Len(inForce) + 1
      BY <1>0, <1>6
    <2>2. IF md = Nil THEN m = inForce[Len(inForce)] ELSE m = md
      BY <1>0, <1>7
    <2>3. all = Append(recorded, md)
      OBVIOUS
    <2> HIDE DEF all
    <2>4. RecordsStamped(Append(inForce, m), replay', recorded') /\ recorded' \in Seq(Metadata)
      BY <1>0, <1>1, <1>2, <1>3, <1>6, <2>1, <2>2, <2>3, RecordsPush
    <2> QED
      BY <1>2, <2>4
  <1>10. Carries(inForce', f, md)
    <2>1. /\ f.seq \in 2 .. Len(inForce') /\ f.seq - 1 = seq /\ f.seq = seq' /\ f.type # "snapshot"
          /\ seq \in 1 .. seq
      BY <1>0, <1>1, <1>6, <1>8
    <2>2. inForce'[f.seq - 1] = inForce[seq] /\ inForce'[f.seq] = m
      BY <1>8, <2>1
    <2> QED
      BY <1>7, <2>1, <2>2, Zenon DEF Carries
  <1>11. \A s \in Subs : /\ Stamped(inForce', direct[s], stamped[s])
                         /\ Stamped(inForce', out[s], outMeta[s])
    BY <1>0, <1>2, <1>3, StampedGrows
  <1>12. /\ outMeta' \in [Subs -> Seq(Metadata)]
         /\ \A s \in Subs : Stamped(inForce', out'[s], outMeta'[s])
    <2>1. Room(subscribers) \in SUBSET Subs
      BY <1>0 DEF Room, TypeOK
    <2>2. Carries(inForce', f, IF f.type = "delta" THEN md ELSE lastMetadata')
      BY <1>6, <1>10
    <2>3. lastMetadata' \in Metadata
      BY <1>2, <1>3
    <2> QED
      BY <1>0, <1>1, <1>2, <1>3, <1>6, <1>11, <2>1, <2>2, <2>3, QueueKeeps
  <1>13. MetaTypes'
    BY <1>0, <1>2, <1>3, <1>8, <1>9, <1>12 DEF MetaTypes
  <1>14. ASSUME NEW s \in Subs, last[s] # 0
         PROVE  last[s] \in 1 .. Len(inForce') /\ identity[s] = inForce'[last[s]]
    <2>1. last[s] \in 1 .. seq /\ identity[s] = inForce[last[s]]
      BY <1>0, <1>14 DEF IdentityInv, MetaInv, Identified
    <2> QED
      BY <1>8, <2>1
  <1>15. \A s \in Subs : Identified(s)'
    BY <1>1, <1>2, <1>11, <1>12, <1>14 DEF Identified
  <1> QED
    BY <1>2, <1>8, <1>9, <1>13, <1>15 DEF MetaInv

\* A Snapshot at the current number is queued for some subscribers.
LEMMA MetaSnapshots ==
  ASSUME IdentityInv, UNCHANGED <<seq, replay, direct, last>>,
         NEW S \in SUBSET Subs, out' = SendAll(S, Snapshot(seq, store)), Queue(Nil),
         UNCHANGED lastMetadata, UNCHANGED <<passed, recorded, stamped, identity, inForce>>
  PROVE  MetaInv'
  <1> DEFINE f == Snapshot(seq, store)
  <1>0. /\ TypeOK /\ MetaTypes /\ seq \in Nat /\ seq > 0
        /\ Len(inForce) = seq /\ lastMetadata = inForce[seq]
        /\ RecordsStamped(inForce, replay, recorded)
        /\ \A s \in Subs : /\ Stamped(inForce, direct[s], stamped[s])
                            /\ Stamped(inForce, out[s], outMeta[s])
    BY MetaShape
  <1>1. f \in Frame /\ f.type = "snapshot" /\ f.seq = seq
    BY <1>0, FrameTypes DEF TypeOK, Snapshot
  <1> HIDE DEF f
  <1>2. Carries(inForce, f, lastMetadata)
    BY <1>0, <1>1 DEF Carries
  <1>3. /\ outMeta' \in [Subs -> Seq(Metadata)]
        /\ \A s \in Subs : Stamped(inForce', out'[s], outMeta'[s])
    <2>1. Carries(inForce', f, IF f.type = "delta" THEN Nil ELSE lastMetadata')
      BY <1>1, <1>2
    <2>2. lastMetadata' \in Metadata /\ Nil \in Metadata
      BY <1>0, MetadataTypes DEF MetaTypes
    <2>3. \A s \in Subs : Stamped(inForce', out[s], outMeta[s])
      BY <1>0
    <2> QED
      BY <1>0, <1>1, <2>1, <2>2, <2>3, QueueKeeps DEF f
  <1>4. MetaTypes'
    BY <1>0, <1>3 DEF MetaTypes
  <1>5. \A s \in Subs : Identified(s)'
    BY <1>0, <1>3 DEF IdentityInv, MetaInv, Identified
  <1> QED
    BY <1>0, <1>4, <1>5 DEF MetaInv

\* The Snapshot of a full queue.
LEMMA MetaCollapse ==
  ASSUME IdentityInv, NEW c \in Callers, NEW s \in Subs, collapseStamped(c, s)
  PROVE  MetaInv'
  <1>1. /\ UNCHANGED <<seq, replay, direct, last>>
        /\ out' = SendAll(Room({s}), Snapshot(seq, store)) /\ Queue(Nil)
        /\ UNCHANGED lastMetadata /\ UNCHANGED <<passed, recorded, stamped, identity, inForce>>
    BY DEF collapseStamped, collapse
  <1>2. Room({s}) \in SUBSET Subs
    BY DEF Room
  <1> QED
    BY <1>1, <1>2, MetaSnapshots

\* Set and refreshAll.
LEMMA MetaSet ==
  ASSUME IdentityInv, NEW c \in Callers, setStep(c)
  PROVE  MetaInv'
  <1>1. /\ UNCHANGED lastMetadata /\ UNCHANGED <<passed, recorded, stamped, identity, inForce>>
        /\ Queue(Nil)
    BY DEF setStep
  <1>2. ASSUME NEW p \in PatchesOf(c), Set(c, p) PROVE MetaInv'
    <2>1. UNCHANGED <<seq, replay, direct, last, out>>
      BY <1>2 DEF Set, applyPatches
    <2>2. out \in [Subs -> Seq(Frame)]
      BY DEF IdentityInv, TypeInv, TypeOK
    <2>3. out' = SendAll({}, Snapshot(seq, store)) /\ {} \in SUBSET Subs
      BY <2>1, <2>2 DEF SendAll
    <2>4. UNCHANGED <<seq, replay, direct, last>>
      BY <2>1
    <2> QED
      BY <1>1, <2>3, <2>4, MetaSnapshots
  <1>3. ASSUME refreshAll(c) PROVE MetaInv'
    <2>1. /\ UNCHANGED <<seq, replay, direct, last>>
          /\ out' = SendAll(Room(subscribers), Snapshot(seq, store))
      BY <1>3 DEF refreshAll
    <2>2. Room(subscribers) \in SUBSET Subs
      BY DEF IdentityInv, TypeInv, TypeOK, Room
    <2> QED
      BY <1>1, <2>1, <2>2, MetaSnapshots
  <1> QED
    BY <1>2, <1>3, Zenon DEF setStep

\* The Deltas replayed from records rs, and the metadata of first frames fs.
Replayed(rs) == [i \in 1 .. Len(rs) |-> Delta(rs[i].seq, rs[i].patches)]

FirstMeta(fs, ms, lm) ==
  IF fs # <<>> /\ fs[1].type = "snapshot" THEN <<lm>>
  ELSE SubSeq(ms, Len(ms) - Len(fs) + 1, Len(ms))

\* What a resumed client is replayed carries the metadata of its records.
LEMMA ReplayStamped ==
  ASSUME NEW I, NEW w \in Seq(Rec), NEW ms \in Seq(Metadata), RecordsStamped(I, w, ms),
         NEW q \in Nat, NEW lm
  PROVE  /\ Stamped(I, Replayed(Log!Since(w, q)), FirstMeta(Replayed(Log!Since(w, q)), ms, lm))
         /\ FirstMeta(Replayed(Log!Since(w, q)), ms, lm) \in Seq(Metadata)
  <1> DEFINE k == Log!After(w, q)
             rs == Log!Since(w, q)
             fs == Replayed(rs)
             ns == FirstMeta(fs, ms, lm)
  <1>1. k \in 1 .. Len(w) + 1
    BY AfterType
  <1>2. /\ rs \in Seq(Rec) /\ Len(rs) = Len(w) - k + 1
        /\ \A i \in 1 .. Len(rs) : rs[i] = w[k + i - 1]
    BY SinceType
  <1> HIDE DEF k, rs
  <1>3. /\ Len(ms) = Len(w) /\ Len(w) \in Nat
        /\ \A i \in 1 .. Len(w) : Carries(I, Delta(w[i].seq, w[i].patches), ms[i])
    BY DEF RecordsStamped
  <1>4. /\ Len(rs) \in Nat /\ Len(fs) = Len(rs) /\ (Len(rs) = 0 => fs = <<>>)
        /\ \A i \in 1 .. Len(rs) : fs[i] = Delta(rs[i].seq, rs[i].patches)
    BY <1>1, <1>2, <1>3 DEF Replayed
  <1> HIDE DEF fs
  <1>5. Len(ms) - Len(fs) + 1 = k
    BY <1>1, <1>2, <1>3, <1>4
  <1>6. ns = SubSeq(ms, k, Len(ms))
    <2>1. fs # <<>> => fs[1].type = "delta"
      <3> SUFFICES ASSUME fs # <<>> PROVE fs[1].type = "delta"
        OBVIOUS
      <3>1. fs[1] = Delta(rs[1].seq, rs[1].patches)
        BY <1>4
      <3> QED
        BY <3>1 DEF Delta
    <2> QED
      BY <1>5, <2>1 DEF FirstMeta
  <1> HIDE DEF ns
  <1>7. /\ ns \in Seq(Metadata) /\ Len(ns) = Len(fs)
        /\ \A i \in 1 .. Len(fs) : ns[i] = ms[k + i - 1] /\ k + i - 1 \in 1 .. Len(w)
    <2>1. k \in 1 .. Len(ms) + 1 /\ Len(ms) \in Nat
      BY <1>1, <1>3
    <2>2. /\ SubSeq(ms, k, Len(ms)) \in Seq(Metadata)
          /\ Len(SubSeq(ms, k, Len(ms))) = Len(ms) - k + 1
          /\ \A i \in 1 .. Len(ms) - k + 1 : SubSeq(ms, k, Len(ms))[i] = ms[k + i - 1]
      BY <2>1
    <2>3. Len(ms) - k + 1 = Len(fs)
      BY <1>2, <1>3, <1>4
    <2>4. \A i \in 1 .. Len(fs) : k + i - 1 \in 1 .. Len(w)
      BY <1>1, <1>3, <2>1, <2>3
    <2> QED
      BY <1>6, <2>2, <2>3, <2>4
  <1>8. ASSUME NEW i \in 1 .. Len(fs) PROVE Carries(I, fs[i], ns[i])
    <2>1. fs[i] = Delta(rs[i].seq, rs[i].patches) /\ rs[i] = w[k + i - 1]
      BY <1>2, <1>4
    <2>2. Carries(I, Delta(w[k + i - 1].seq, w[k + i - 1].patches), ms[k + i - 1])
      BY <1>3, <1>7
    <2> QED
      BY <1>7, <2>1, <2>2
  <1> QED
    BY <1>7, <1>8 DEF Stamped, fs, rs, ns

\* A Snapshot alone.
LEMMA SnapshotStamped ==
  ASSUME NEW I, NEW f \in Frame, NEW m \in Metadata, Carries(I, f, m)
  PROVE  Stamped(I, <<f>>, <<m>>) /\ <<m>> \in Seq(Metadata)
  BY DEF Stamped

\* The metadata of the first frames, whichever they are.
LEMMA FirstStamped ==
  ASSUME IdentityInv, NEW q \in Nat
  PROVE  /\ Stamped(inForce, FirstFrames(q), FirstMeta(FirstFrames(q), recorded, lastMetadata))
         /\ FirstMeta(FirstFrames(q), recorded, lastMetadata) \in Seq(Metadata)
  <1>0. /\ TypeOK /\ MetaTypes /\ seq \in Nat /\ seq > 0
        /\ Len(inForce) = seq /\ lastMetadata = inForce[seq]
        /\ RecordsStamped(inForce, replay, recorded)
        /\ replay \in Seq(Rec) /\ recorded \in Seq(Metadata)
    BY MetaShape
  <1>1. CASE 0 < q /\ q <= seq /\ Log!Covers(replay, q)
    <2>1. FirstFrames(q) = Replayed(Log!Since(replay, q))
      BY <1>1 DEF FirstFrames, Replayed
    <2> QED
      BY <1>0, <2>1, ReplayStamped
  <1>2. CASE ~ (0 < q /\ q <= seq /\ Log!Covers(replay, q))
    <2> DEFINE f == Snapshot(seq, store)
    <2>1. FirstFrames(q) = <<f>>
      BY <1>2 DEF FirstFrames
    <2>2. f \in Frame /\ f.type = "snapshot" /\ f.seq = seq
      BY <1>0, FrameTypes DEF TypeOK, Snapshot
    <2> HIDE DEF f
    <2>3. FirstMeta(<<f>>, recorded, lastMetadata) = <<lastMetadata>>
      BY <2>2 DEF FirstMeta
    <2>4. Carries(inForce, f, lastMetadata) /\ lastMetadata \in Metadata
      BY <1>0, <2>2 DEF Carries, MetaTypes
    <2> QED
      BY <2>1, <2>2, <2>3, <2>4, SnapshotStamped
  <1> QED
    BY <1>1, <1>2

\* A client subscribes.
LEMMA MetaSubscribe ==
  ASSUME IdentityInv, NEW s \in Subs, NEW q \in Nat, subscribeStamped(s, q)
  PROVE  MetaInv'
  <1> DEFINE fs == FirstFrames(q)
             ms == FirstMeta(fs, recorded, lastMetadata)
  <1>0. TypeOK /\ MetaTypes
    BY MetaShape
  <1>1. /\ UNCHANGED <<seq, replay, out, last>> /\ direct' = [direct EXCEPT ![s] = fs]
        /\ UNCHANGED <<passed, lastMetadata, recorded, outMeta, identity, inForce>>
    BY DEF subscribeStamped, subscribeWithResume
  <1>2. direct'[s] = fs
    BY <1>0, <1>1 DEF TypeOK
  <1>3. stamped' = [stamped EXCEPT ![s] = ms]
    BY <1>2, Zenon DEF subscribeStamped, FirstMeta
  <1>4. Stamped(inForce, fs, ms) /\ ms \in Seq(Metadata)
    BY FirstStamped
  <1> HIDE DEF fs, ms
  <1>5. MetaTypes'
    BY <1>0, <1>1, <1>3, <1>4 DEF MetaTypes
  <1>6. ASSUME NEW t \in Subs PROVE Identified(t)'
    <2>1. Identified(t)
      BY DEF IdentityInv, MetaInv
    <2>2. CASE t = s
      <3>1. direct'[t] = fs /\ stamped'[t] = ms
        BY <1>0, <1>1, <1>3, <2>2 DEF TypeOK, MetaTypes
      <3> QED
        BY <1>1, <1>4, <2>1, <3>1 DEF Identified
    <2>3. CASE t # s
      <3>1. direct'[t] = direct[t] /\ stamped'[t] = stamped[t]
        BY <1>0, <1>1, <1>3, <2>3 DEF TypeOK, MetaTypes
      <3> QED
        BY <1>1, <2>1, <3>1 DEF Identified
    <2> QED
      BY <2>2, <2>3
  <1> QED
    BY <1>1, <1>5, <1>6 DEF IdentityInv, MetaInv

\* A frame and its metadata arrive: the client still shows the identity of its
\* number.  A Delta without metadata is the case that needs the invariant: it
\* must be the next one, and the one before must have left the identity alone.
LEMMA FrameIdentifies ==
  ASSUME TypeOK, MetaTypes, NEW s \in Subs, NEW f \in Frame, NEW md \in Metadata,
         Carries(inForce, f, md), Receive(s, f), Identify(s, f, md),
         last[s] = 0 => f.type = "snapshot",
         \A t \in Subs : last[t] # 0 => last[t] \in 1 .. Len(inForce) /\ identity[t] = inForce[last[t]]
  PROVE  /\ identity' \in [Subs -> Metadata]
         /\ \A t \in Subs : last'[t] # 0 =>
              last'[t] \in 1 .. Len(inForce) /\ identity'[t] = inForce[last'[t]]
  <1> DEFINE x == IF f.type = "snapshot" THEN md
                  ELSE IF (last[s] = 0 \/ f.seq = last[s] + 1) /\ md # Nil THEN md ELSE identity[s]
  <1>0. /\ last \in [Subs -> 0 .. MaxSeq] /\ identity \in [Subs -> Metadata]
        /\ Len(inForce) \in Nat
    BY DEF TypeOK, MetaTypes
  <1>1. identity' = [identity EXCEPT ![s] = x]
    BY Zenon DEF Identify
  <1>2. f.seq \in Nat /\ f.seq > 0 /\ f.type \in {"delta", "snapshot"} /\ last[s] \in Nat
    BY <1>0, FrameSeq
  <1>3. x \in Metadata
    BY <1>0
  <1>4. identity' \in [Subs -> Metadata] /\ identity'[s] = x
    BY <1>0, <1>1, <1>3
  <1>5. ASSUME NEW t \in Subs, t # s PROVE last'[t] = last[t] /\ identity'[t] = identity[t]
    <2>1. identity'[t] = identity[t]
      BY <1>0, <1>1, <1>5
    <2> QED
      BY <1>5, <2>1, ReceiveEffect
  <1>6. last'[s] # 0 => last'[s] \in 1 .. Len(inForce) /\ x = inForce[last'[s]]
    <2>1. CASE f.type = "snapshot"
      <3>1. last'[s] = f.seq
        BY <1>0, <1>2, <2>1 DEF Receive
      <3>2. f.seq \in 1 .. Len(inForce) /\ md = inForce[f.seq]
        BY <2>1, Zenon DEF Carries
      <3> QED
        BY <2>1, <3>1, <3>2
    <2>2. CASE f.type = "delta"
      <3>1. last[s] # 0 /\ last[s] \in 1 .. Len(inForce) /\ identity[s] = inForce[last[s]]
        BY <2>2
      <3>2. CASE f.seq = last[s] + 1
        <4>1. last'[s] = f.seq
          BY <1>0, <1>2, <2>2, <3>2 DEF Receive
        <4>2. f.type # "snapshot"
          BY <2>2
        <4>3. f.seq \in 2 .. Len(inForce) /\ IF md = Nil THEN inForce[f.seq] = inForce[f.seq - 1]
                                                         ELSE inForce[f.seq] = md
          BY <4>2, Zenon DEF Carries
        <4>4. f.seq - 1 = last[s] /\ f.seq \in 1 .. Len(inForce)
          BY <1>0, <1>2, <3>2, <4>3
        <4>5. x = IF md # Nil THEN md ELSE identity[s]
          BY <3>2, <4>2
        <4>6. x = inForce[f.seq]
          BY <3>1, <4>3, <4>4, <4>5
        <4> QED
          BY <4>1, <4>4, <4>6
      <3>3. CASE f.seq # last[s] + 1
        <4>1. last' = last
          BY <1>2, <2>2, <3>1, <3>3 DEF Receive
        <4>2. x = identity[s]
          BY <2>2, <3>1, <3>3
        <4> QED
          BY <3>1, <4>1, <4>2
      <3> QED
        BY <3>2, <3>3
    <2> QED
      BY <1>2, <2>1, <2>2
  <1> HIDE DEF x
  <1>7. ASSUME NEW t \in Subs
        PROVE  last'[t] # 0 => last'[t] \in 1 .. Len(inForce) /\ identity'[t] = inForce[last'[t]]
    <2>1. CASE t = s
      BY <1>4, <1>6, <2>1
    <2>2. CASE t # s
      <3>1. last'[t] = last[t] /\ identity'[t] = identity[t]
        BY <1>5, <2>2
      <3> QED
        BY <3>1
    <2> QED
      BY <2>1, <2>2
  <1> QED
    BY <1>4, <1>7

\* serveLSDP writes one of the first frames.
LEMMA MetaFirstFrame ==
  ASSUME IdentityInv, NEW s \in Subs, firstFrame(s)
  PROVE  MetaInv'
  <1> DEFINE f == Head(direct[s])
             md == Head(stamped[s])
  <1>0. /\ TypeOK /\ MetaTypes /\ SnapshotFirst
        /\ \A t \in Subs : /\ Stamped(inForce, direct[t], stamped[t])
                            /\ Stamped(inForce, out[t], outMeta[t])
                            /\ direct[t] \in Seq(Frame) /\ stamped[t] \in Seq(Metadata)
    BY MetaShape
  <1>1. /\ conn[s] = "run" /\ direct[s] # <<>> /\ Receive(s, f)
        /\ direct' = [direct EXCEPT ![s] = Tail(direct[s])] /\ UNCHANGED <<seq, replay, out>>
        /\ Identify(s, f, md) /\ stamped' = [stamped EXCEPT ![s] = Tail(stamped[s])]
        /\ UNCHANGED <<passed, lastMetadata, recorded, outMeta, inForce>>
    BY DEF firstFrame, sendFirst, serverVars
  <1>2. /\ Carries(inForce, f, md) /\ Stamped(inForce, Tail(direct[s]), Tail(stamped[s]))
        /\ md \in Metadata /\ f \in Frame /\ Tail(stamped[s]) \in Seq(Metadata)
    BY <1>0, <1>1, StampedTail
  <1>3. last[s] = 0 => f.type = "snapshot"
    BY <1>0, <1>1 DEF SnapshotFirst
  <1>4. \A t \in Subs : last[t] # 0 => last[t] \in 1 .. Len(inForce) /\ identity[t] = inForce[last[t]]
    BY Zenon DEF IdentityInv, MetaInv, Identified
  <1> HIDE DEF f, md
  <1>5. /\ identity' \in [Subs -> Metadata]
        /\ \A t \in Subs : last'[t] # 0 =>
             last'[t] \in 1 .. Len(inForce) /\ identity'[t] = inForce[last'[t]]
    BY <1>0, <1>1, <1>2, <1>3, <1>4, FrameIdentifies
  <1>6. MetaTypes'
    BY <1>0, <1>1, <1>2, <1>5 DEF MetaTypes
  <1>7. ASSUME NEW t \in Subs PROVE Identified(t)'
    <2>1. Stamped(inForce, direct'[t], stamped'[t])
      <3>1. CASE t = s
        <4>1. direct'[t] = Tail(direct[s]) /\ stamped'[t] = Tail(stamped[s])
          BY <1>0, <1>1, <3>1 DEF TypeOK, MetaTypes
        <4> QED
          BY <1>2, <4>1
      <3>2. CASE t # s
        <4>1. direct'[t] = direct[t] /\ stamped'[t] = stamped[t]
          BY <1>0, <1>1, <3>2 DEF TypeOK, MetaTypes
        <4> QED
          BY <1>0, <4>1
      <3> QED
        BY <3>1, <3>2
    <2> QED
      BY <1>0, <1>1, <1>5, <2>1 DEF Identified
  <1> QED
    BY <1>1, <1>6, <1>7 DEF IdentityInv, MetaInv

\* The writer writes a queued frame.
LEMMA MetaQueuedFrame ==
  ASSUME IdentityInv, NEW s \in Subs, queuedFrame(s)
  PROVE  MetaInv'
  <1> DEFINE f == Head(out[s])
             md == Head(outMeta[s])
  <1>0. /\ TypeOK /\ MetaTypes /\ SnapshotFirst
        /\ \A t \in Subs : /\ Stamped(inForce, direct[t], stamped[t])
                            /\ Stamped(inForce, out[t], outMeta[t])
                            /\ out[t] \in Seq(Frame) /\ outMeta[t] \in Seq(Metadata)
    BY MetaShape
  <1>1. /\ conn[s] = "run" /\ direct[s] = <<>> /\ out[s] # <<>> /\ Receive(s, f)
        /\ out' = [out EXCEPT ![s] = Tail(out[s])] /\ UNCHANGED <<seq, replay, direct>>
        /\ Identify(s, f, md) /\ outMeta' = [outMeta EXCEPT ![s] = Tail(outMeta[s])]
        /\ UNCHANGED <<passed, lastMetadata, recorded, stamped, inForce>>
    BY DEF queuedFrame, writerLoop
  <1>2. /\ Carries(inForce, f, md) /\ Stamped(inForce, Tail(out[s]), Tail(outMeta[s]))
        /\ md \in Metadata /\ f \in Frame /\ Tail(outMeta[s]) \in Seq(Metadata)
    BY <1>0, <1>1, StampedTail
  <1>3. last[s] = 0 => f.type = "snapshot"
    BY <1>0, <1>1 DEF SnapshotFirst
  <1>4. \A t \in Subs : last[t] # 0 => last[t] \in 1 .. Len(inForce) /\ identity[t] = inForce[last[t]]
    BY Zenon DEF IdentityInv, MetaInv, Identified
  <1> HIDE DEF f, md
  <1>5. /\ identity' \in [Subs -> Metadata]
        /\ \A t \in Subs : last'[t] # 0 =>
             last'[t] \in 1 .. Len(inForce) /\ identity'[t] = inForce[last'[t]]
    BY <1>0, <1>1, <1>2, <1>3, <1>4, FrameIdentifies
  <1>6. MetaTypes'
    BY <1>0, <1>1, <1>2, <1>5 DEF MetaTypes
  <1>7. ASSUME NEW t \in Subs PROVE Identified(t)'
    <2>1. Stamped(inForce, out'[t], outMeta'[t])
      <3>1. CASE t = s
        <4>1. out'[t] = Tail(out[s]) /\ outMeta'[t] = Tail(outMeta[s])
          BY <1>0, <1>1, <3>1 DEF TypeOK, MetaTypes
        <4> QED
          BY <1>2, <4>1
      <3>2. CASE t # s
        <4>1. out'[t] = out[t] /\ outMeta'[t] = outMeta[t]
          BY <1>0, <1>1, <3>2 DEF TypeOK, MetaTypes
        <4> QED
          BY <1>0, <4>1
      <3> QED
        BY <3>1, <3>2
    <2> QED
      BY <1>0, <1>1, <1>5, <2>1 DEF Identified
  <1> QED
    BY <1>1, <1>6, <1>7 DEF IdentityInv, MetaInv

\* A connection ends: a queue is left as it is or emptied, with its metadata.
LEMMA MetaLeave ==
  ASSUME IdentityInv, NEW s \in Subs, leave(s)
  PROVE  MetaInv'
  <1>0. /\ TypeOK /\ MetaTypes
        /\ \A t \in Subs : /\ Stamped(inForce, direct[t], stamped[t])
                            /\ Stamped(inForce, out[t], outMeta[t])
                            /\ stamped[t] \in Seq(Metadata) /\ outMeta[t] \in Seq(Metadata)
    BY MetaShape
  <1>1. /\ UNCHANGED <<seq, replay, last>>
        /\ \A t \in Subs : t # s => direct'[t] = direct[t] /\ out'[t] = out[t]
        /\ direct'[s] \in {direct[s], <<>>} /\ out'[s] \in {out[s], <<>>}
    <2>1. CASE hangUp(s)
      BY <2>1 DEF hangUp, serverVars, clientVars
    <2>2. CASE unsubscribe(s)
      BY <1>0, <2>2 DEF unsubscribe, TypeOK
    <2> QED
      BY <2>1, <2>2 DEF leave
  <1>2. /\ stamped' = [stamped EXCEPT ![s] = SubSeq(stamped[s], 1, Len(direct'[s]))]
        /\ outMeta' = [outMeta EXCEPT ![s] = SubSeq(outMeta[s], 1, Len(out'[s]))]
        /\ UNCHANGED <<passed, lastMetadata, recorded, identity, inForce>>
    BY DEF leave
  <1>3. ASSUME NEW fs, NEW ms \in Seq(Metadata), Stamped(inForce, fs, ms), NEW gs \in {fs, <<>>}
        PROVE  Stamped(inForce, gs, SubSeq(ms, 1, Len(gs))) /\ SubSeq(ms, 1, Len(gs)) \in Seq(Metadata)
    <2>1. CASE gs = fs
      <3>1. SubSeq(ms, 1, Len(gs)) = ms
        BY <1>3, <2>1, CutMeta DEF Stamped
      <3> QED
        BY <1>3, <2>1, <3>1
    <2>2. CASE gs = <<>>
      <3>1. SubSeq(ms, 1, Len(gs)) = <<>>
        BY <2>2, CutMeta
      <3>2. <<>> \in Seq(Metadata) /\ Stamped(inForce, <<>>, <<>>)
        BY StampedEmpty
      <3> QED
        BY <2>2, <3>1, <3>2
    <2> QED
      BY <2>1, <2>2
  <1>4. /\ Stamped(inForce, direct'[s], SubSeq(stamped[s], 1, Len(direct'[s])))
        /\ SubSeq(stamped[s], 1, Len(direct'[s])) \in Seq(Metadata)
        /\ Stamped(inForce, out'[s], SubSeq(outMeta[s], 1, Len(out'[s])))
        /\ SubSeq(outMeta[s], 1, Len(out'[s])) \in Seq(Metadata)
    BY <1>0, <1>1, <1>3
  <1>5. MetaTypes'
    BY <1>0, <1>2, <1>4 DEF MetaTypes
  <1>6. ASSUME NEW t \in Subs PROVE Identified(t)'
    <2>1. Identified(t)
      BY DEF IdentityInv, MetaInv
    <2>2. CASE t = s
      <3>1. /\ stamped'[t] = SubSeq(stamped[s], 1, Len(direct'[s]))
            /\ outMeta'[t] = SubSeq(outMeta[s], 1, Len(out'[s]))
        BY <1>0, <1>2, <2>2 DEF MetaTypes
      <3>2. /\ Stamped(inForce', direct'[t], stamped'[t])
            /\ Stamped(inForce', out'[t], outMeta'[t])
        BY <1>2, <1>4, <2>2, <3>1
      <3> QED
        BY <1>1, <1>2, <2>1, <3>2 DEF Identified
    <2>3. CASE t # s
      <3>1. stamped'[t] = stamped[t] /\ outMeta'[t] = outMeta[t]
        BY <1>0, <1>2, <2>3 DEF MetaTypes
      <3> QED
        BY <1>1, <1>2, <2>1, <2>3, <3>1 DEF Identified
    <2> QED
      BY <2>2, <2>3
  <1> QED
    BY <1>1, <1>2, <1>5, <1>6 DEF IdentityInv, MetaInv

-----------------------------------------------------------------------------
(* The invariant and the theorem. *)

\* It holds initially.
LEMMA InitIdentityInv == ProjectionInit => IdentityInv
  <1> SUFFICES ASSUME ProjectionInit PROVE IdentityInv
    OBVIOUS
  <1>1. Init /\ TypeInv
    BY InitTypeInv DEF ProjectionInit
  <1>2. SnapshotFirst
    BY <1>1 DEF Init, SnapshotFirst
  <1>3. MetaTypes
    BY MetadataTypes DEF ProjectionInit, MetaTypes
  <1>4. Len(inForce) = seq /\ lastMetadata = inForce[seq]
    BY <1>1 DEF ProjectionInit, Init
  <1>5. RecordsStamped(inForce, replay, recorded)
    BY <1>1 DEF ProjectionInit, Init, RecordsStamped
  <1>6. \A s \in Subs : Identified(s)
    BY <1>1, StampedEmpty DEF ProjectionInit, Init, Identified
  <1> QED
    BY <1>1, <1>2, <1>3, <1>4, <1>5, <1>6 DEF IdentityInv, MetaInv

\* Every step keeps it.
LEMMA NextIdentityInv == IdentityInv /\ [ProjectionNext]_projectionVars => IdentityInv'
  <1> SUFFICES ASSUME IdentityInv, [ProjectionNext]_projectionVars PROVE IdentityInv'
    OBVIOUS
  <1>1. [Next]_vars /\ TypeInv /\ TypeOK /\ SnapshotFirst
    BY ProjectionIsScene DEF IdentityInv, TypeInv
  <1>2. TypeInv' /\ TypeOK'
    BY <1>1, NextTypeInv DEF TypeInv
  <1>3. SnapshotFirst'
    BY <1>1, NextSnapshotFirst
  <1>4. MetaInv'
    <2>1. ASSUME NEW c \in Callers, NEW p \in PatchesOf(c), NEW md \in {Revision[c], Nil},
                 emitWithMetadata(c, p, md)
          PROVE  MetaInv'
      BY <2>1, MetaEmit
    <2>2. ASSUME NEW c \in Callers, publishMetadata(c) PROVE MetaInv'
      BY <1>2, <2>2, MetaPublish
    <2>3. ASSUME NEW c \in Callers, NEW s \in Subs, collapseStamped(c, s) PROVE MetaInv'
      BY <2>3, MetaCollapse
    <2>4. ASSUME NEW c \in Callers, setStep(c) PROVE MetaInv'
      BY <2>4, MetaSet
    <2>5. ASSUME NEW s \in Subs, subscribeStamped(s, 0) PROVE MetaInv'
      BY <2>5, MetaSubscribe
    <2>6. ASSUME NEW s \in Subs, subscribeStamped(s, last[s]) PROVE MetaInv'
      <3>1. last[s] \in Nat
        BY <1>1 DEF TypeOK
      <3> QED
        BY <2>6, <3>1, MetaSubscribe
    <2>7. ASSUME NEW s \in Subs, firstFrame(s) PROVE MetaInv'
      BY <2>7, MetaFirstFrame
    <2>8. ASSUME NEW s \in Subs, queuedFrame(s) PROVE MetaInv'
      BY <2>8, MetaQueuedFrame
    <2>9. ASSUME NEW s \in Subs, leave(s) PROVE MetaInv'
      BY <2>9, MetaLeave
    <2>10. CASE UNCHANGED projectionVars
      BY <2>10 DEF projectionVars, vars, metaVars, IdentityInv, MetaInv, MetaTypes, Identified
    <2> QED
      BY <2>1, <2>2, <2>3, <2>4, <2>5, <2>6, <2>7, <2>8, <2>9, <2>10, Zenon DEF ProjectionNext
  <1> QED
    BY <1>2, <1>3, <1>4 DEF IdentityInv

\* IdentityMatchesNumber: a client shows every state under the projection
\* identity that was in force at its number, with any capacities, any number of
\* callers and clients, with resumes and with Set: EmitWithCauseAndMetadata,
\* stampMetadata and the replay records lose and misplace none.
THEOREM IdentityIsTrue == ProjectionSpec => []IdentityMatchesNumber
  <1>1. IdentityInv => IdentityMatchesNumber
    BY Zenon DEF IdentityInv, MetaInv, Identified, IdentityMatchesNumber
  <1> QED
    BY <1>1, InitIdentityInv, NextIdentityInv, PTL DEF ProjectionSpec
=============================================================================
