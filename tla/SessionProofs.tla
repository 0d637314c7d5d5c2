--------------------------- MODULE SessionProofs ---------------------------
(***************************************************************************)
(* Proofs about Session, for every course of a session and every queue:    *)
(* the types; the client can match answers to messages by their order; a   *)
(* client that leaves the numbers of Error frames alone is current.        *)
(***************************************************************************)
EXTENDS Session, FiniteSetTheorems, SequenceTheorems, TLAPS

-----------------------------------------------------------------------------
(* What the client makes of the frames on their way. *)

View == [scene : Scenes, last : Nat, have : Nat]

\* The client's scene, tracker and state after frame f.
After(v, f) ==
  IF f.type \in {"delta", "snapshot"} THEN [scene |-> f.scene, last |-> f.seq, have |-> f.seq]
  ELSE IF f.type = "changed" THEN [v EXCEPT !.scene = f.scene, !.last = f.seq]
  ELSE v

\* The tracker accepts f.
Fits(v, f) == f.type \in {"delta", "changed"} => f.seq = v.last + 1

\* The frames q lead a client from view u to view v, none of them refused.
Path(q, u, v) ==
  \E N \in [0 .. Len(q) -> View] :
    /\ N[0] = u /\ N[Len(q)] = v
    /\ \A j \in 1 .. Len(q) : Fits(N[j - 1], q[j]) /\ N[j] = After(N[j - 1], q[j])

ClientView == [scene |-> client.scene, last |-> client.last, have |-> client.have]

\* All there is of scene o.
Current(o, n) == [scene |-> o, last |-> n, have |-> n]

\* What is on the wire and then what is queued makes the client current, as long
\* as the subscription is registered and not stale.
FlowInv ==
  open /\ home # None /\ ~ stale =>
    \E v \in View : Path(wire, ClientView, v) /\ Path(out, v, Current(home, seq[home]))

\* The reader's own answers are Pongs and Errors to the messages it answers itself.
ReplyInv ==
  reader.pc = "reply" =>
    /\ reader.frame \in FrameType /\ reader.frame.type \in {"error", "pong"}
    /\ reader.frame.ref \in Direct

LEMMA AfterType ==
  ASSUME NEW v \in View, NEW f \in FrameType
  PROVE  After(v, f) \in View
  BY DEF After, View, FrameType

LEMMA PathEmpty ==
  ASSUME NEW u \in View
  PROVE  Path(<<>>, u, u)
  <1> DEFINE N == [j \in 0 .. 0 |-> u]
  <1>1. N \in [0 .. Len(<<>>) -> View] /\ N[0] = u
    OBVIOUS
  <1> HIDE DEF N
  <1> QED
    BY <1>1 DEF Path

LEMMA PathNone ==
  ASSUME NEW u, NEW v, Path(<<>>, u, v)
  PROVE  u = v
  BY DEF Path

LEMMA PathAppend ==
  ASSUME NEW q \in Seq(FrameType), NEW f \in FrameType, NEW u, NEW v, Path(q, u, v), Fits(v, f)
  PROVE  Path(Append(q, f), u, After(v, f))
  <1>1. PICK N \in [0 .. Len(q) -> View] :
          /\ N[0] = u /\ N[Len(q)] = v
          /\ \A j \in 1 .. Len(q) : Fits(N[j - 1], q[j]) /\ N[j] = After(N[j - 1], q[j])
    BY DEF Path
  <1> DEFINE p == Append(q, f)
             M == [j \in 0 .. Len(q) + 1 |-> IF j = Len(q) + 1 THEN After(v, f) ELSE N[j]]
  <1>2. /\ Len(q) \in Nat /\ Len(p) = Len(q) + 1 /\ p[Len(q) + 1] = f
        /\ \A j \in 1 .. Len(q) : p[j] = q[j]
    OBVIOUS
  <1>3. v \in View
    BY <1>1, <1>2
  <1>4. After(v, f) \in View
    BY <1>3, AfterType
  <1>5. /\ M \in [0 .. Len(p) -> View] /\ M[Len(q) + 1] = After(v, f)
        /\ \A j \in 0 .. Len(q) : M[j] = N[j]
    BY <1>1, <1>2, <1>4
  <1> HIDE DEF M, p
  <1>6. ASSUME NEW j \in 1 .. Len(p) PROVE Fits(M[j - 1], p[j]) /\ M[j] = After(M[j - 1], p[j])
    <2>1. CASE j = Len(q) + 1
      <3>1. j - 1 = Len(q) /\ M[j - 1] = v
        BY <1>1, <1>2, <1>5, <2>1
      <3> QED
        BY <1>2, <1>5, <2>1, <3>1
    <2>2. CASE j # Len(q) + 1
      <3>1. j \in 1 .. Len(q) /\ M[j - 1] = N[j - 1] /\ M[j] = N[j] /\ p[j] = q[j]
        BY <1>2, <1>5, <2>2
      <3> QED
        BY <1>1, <3>1
    <2> QED
      BY <2>1, <2>2
  <1>7. M[0] = u /\ M[Len(p)] = After(v, f)
    BY <1>1, <1>2, <1>5
  <1>8. Path(p, u, After(v, f))
    BY <1>5, <1>6, <1>7 DEF Path
  <1> QED
    BY <1>8 DEF p

LEMMA PathHead ==
  ASSUME NEW q \in Seq(FrameType), q # <<>>, NEW u, NEW v, Path(q, u, v)
  PROVE  Fits(u, Head(q)) /\ Path(Tail(q), After(u, Head(q)), v)
  <1>1. PICK N \in [0 .. Len(q) -> View] :
          /\ N[0] = u /\ N[Len(q)] = v
          /\ \A j \in 1 .. Len(q) : Fits(N[j - 1], q[j]) /\ N[j] = After(N[j - 1], q[j])
    BY DEF Path
  <1> DEFINE p == Tail(q)
             M == [j \in 0 .. Len(q) - 1 |-> N[j + 1]]
  <1>2. /\ Len(q) \in Nat \ {0} /\ Len(p) = Len(q) - 1 /\ Head(q) = q[1]
        /\ \A j \in 1 .. Len(p) : p[j] = q[j + 1]
    OBVIOUS
  <1>3. 1 \in 1 .. Len(q) /\ 1 - 1 = 0
    BY <1>2
  <1>4. Fits(u, Head(q)) /\ N[1] = After(u, Head(q))
    BY <1>1, <1>2, <1>3
  <1>5. M \in [0 .. Len(p) -> View] /\ \A j \in 0 .. Len(p) : M[j] = N[j + 1]
    BY <1>1, <1>2
  <1> HIDE DEF M, p
  <1>6. ASSUME NEW j \in 1 .. Len(p) PROVE Fits(M[j - 1], p[j]) /\ M[j] = After(M[j - 1], p[j])
    <2>1. /\ j + 1 \in 1 .. Len(q) /\ p[j] = q[j + 1] /\ M[j] = N[j + 1]
          /\ M[j - 1] = N[(j + 1) - 1]
      BY <1>2, <1>5
    <2> QED
      BY <1>1, <2>1
  <1>7. M[0] = After(u, Head(q)) /\ M[Len(p)] = v
    BY <1>1, <1>2, <1>4, <1>5
  <1>8. Path(p, After(u, Head(q)), v)
    BY <1>5, <1>6, <1>7 DEF Path
  <1> QED
    BY <1>4, <1>8 DEF p

\* A frame that changes no view can be anywhere.
LEMMA PathIdle ==
  ASSUME NEW q \in Seq(FrameType), NEW f \in FrameType, NEW u, NEW v, Path(q, u, v),
         f.type \notin {"delta", "snapshot", "changed"}
  PROVE  Path(Append(q, f), u, v)
  <1>1. Fits(v, f) /\ After(v, f) = v
    BY DEF Fits, After
  <1> QED
    BY <1>1, PathAppend

-----------------------------------------------------------------------------
(* Type correctness. *)

ReplyType == [pc : {"reply"}, frame : FrameType, next : {"read", "cancel"}]
ReaderType == {Reading, Cancelled, Ended} \cup ReplyType

LEMMA FrameTypes ==
  ASSUME NEW t \in {"delta", "snapshot", "changed", "error", "pong", "ping"},
         NEW o \in Scenes, NEW n \in Nat, NEW m \in Msgs \cup {None}
  PROVE  /\ Frame(t, o, n, m) \in FrameType
         /\ Frame(t, o, n, m).type = t /\ Frame(t, o, n, m).scene = o
         /\ Frame(t, o, n, m).seq = n /\ Frame(t, o, n, m).ref = m
  BY DEF Frame, FrameType

\* The numbers kept back are a number.
LEMMA ReservedType ==
  TypeOK => Reserved \in Nat
  <1> SUFFICES ASSUME TypeOK PROVE Reserved \in Nat
    OBVIOUS
  <1> DEFINE A == {m \in course.msgs : Kind[m] = "input" /\ m \notin Elements(sent)}
             B == {i \in 1 .. Len(inbox) : Kind[inbox[i]] = "input"}
  <1>1. A \subseteq Msgs
    BY SessionsAssumption DEF TypeOK
  <1>2. Cardinality(A) \in Nat
    BY <1>1, KindAssumption, FS_Subset, FS_CardinalityType
  <1>3. Len(inbox) \in Nat /\ IsFiniteSet(1 .. Len(inbox))
    BY FS_Interval DEF TypeOK
  <1>4. Cardinality(B) \in Nat
    BY <1>3, FS_Subset, FS_CardinalityType
  <1> QED
    BY <1>2, <1>4 DEF Reserved

ClientType == [scene : Scenes, last : Nat, have : Nat, answered : Seq(Msgs)]

\* Emissions: what they do to the frames on their way, and that the types hold.
LEMMA EmitTypes ==
  ASSUME TypeOK, NEW o \in Scenes, NEW m \in Msgs \cup {None}, emitWithCause(o, m)
  PROVE  /\ seq' \in [Scenes -> 1 .. course.maxSeq]
         /\ seq'[o] = seq[o] + 1 /\ \A p \in Scenes \ {o} : seq'[p] = seq[p]
         /\ out' \in Seq(FrameType) /\ Len(out') <= OutCap
         /\ wire' \in Seq(FrameType) /\ stale' \in BOOLEAN
         /\ UNCHANGED <<home, closed>>
         /\ Frame("delta", o, seq[o] + 1, m) \in FrameType
         /\ Frame("snapshot", o, seq[o] + 1, None) \in FrameType
  <1>1. /\ seq \in [Scenes -> 1 .. course.maxSeq] /\ course.maxSeq \in Nat
        /\ seq[o] \in Nat /\ seq[o] + 1 \in 1 .. course.maxSeq
    <2>1. course \in Sessions /\ seq \in [Scenes -> 1 .. course.maxSeq] /\ seq[o] < course.maxSeq
      BY DEF TypeOK, emitWithCause
    <2>2. course.maxSeq \in Nat
      BY <2>1, SessionsAssumption
    <2> QED
      BY <2>1, <2>2
  <1>2. /\ seq' \in [Scenes -> 1 .. course.maxSeq]
        /\ seq'[o] = seq[o] + 1 /\ \A p \in Scenes \ {o} : seq'[p] = seq[p]
    BY <1>1 DEF emitWithCause
  <1> DEFINE d == Frame("delta", o, seq[o] + 1, m)
             n == Frame("snapshot", o, seq[o] + 1, None)
  <1>3. d \in FrameType /\ n \in FrameType
    BY <1>1, FrameTypes
  <1>4. /\ UNCHANGED <<home, closed>>
        /\ \/ UNCHANGED <<out, stale, wire>>
           \/ Len(out) < OutCap /\ out' = Append(out, d) /\ UNCHANGED <<stale, wire>>
           \/ /\ Len(out) = OutCap /\ wire' = Append(wire, Head(out))
              /\ out' = Append(Tail(out), n) /\ UNCHANGED stale
           \/ stale' = TRUE /\ UNCHANGED <<out, wire>>
    BY DEF emitWithCause
  <1> HIDE DEF d, n
  <1>5. /\ out \in Seq(FrameType) /\ Len(out) <= OutCap /\ wire \in Seq(FrameType)
        /\ stale \in BOOLEAN /\ OutCap \in Nat /\ OutCap >= 2
    BY OutCapAssumption DEF TypeOK
  <1>6. ASSUME Len(out) = OutCap
        PROVE  /\ Head(out) \in FrameType /\ Tail(out) \in Seq(FrameType)
               /\ Len(Tail(out)) = Len(out) - 1
    <2>1. out # <<>>
      BY <1>5, <1>6
    <2> QED
      BY <1>5, <2>1
  <1>7. /\ out' \in Seq(FrameType) /\ Len(out') <= OutCap
        /\ wire' \in Seq(FrameType) /\ stale' \in BOOLEAN
    <2>1. CASE UNCHANGED <<out, stale, wire>> \/ (stale' = TRUE /\ UNCHANGED <<out, wire>>)
      BY <1>5, <2>1
    <2>2. CASE Len(out) < OutCap /\ out' = Append(out, d) /\ UNCHANGED <<stale, wire>>
      BY <1>3, <1>5, <2>2
    <2>3. CASE /\ Len(out) = OutCap /\ wire' = Append(wire, Head(out))
               /\ out' = Append(Tail(out), n) /\ UNCHANGED stale
      BY <1>3, <1>5, <1>6, <2>3
    <2> QED
      BY <1>4, <2>1, <2>2, <2>3
  <1> QED
    BY <1>2, <1>3, <1>4, <1>7 DEF d, n

Changed == Frame("changed", Other, seq[Captured] + 1, None)
Snap == Frame("snapshot", Other, seq[Other], None)

\* migrateLive: the two frames follow what is queued, or the mark is set.
LEMMA MigrateFacts ==
  ASSUME TypeOK, migrateLive
  PROVE  /\ home = Captured
         /\ seq' \in [Scenes -> 1 .. course.maxSeq]
         /\ seq'[Captured] = seq[Captured] + 1 /\ seq'[Other] = seq[Other]
         /\ Changed \in FrameType /\ Snap \in FrameType
         /\ out' \in Seq(FrameType) /\ Len(out') <= OutCap
         /\ \/ out' = Append(Append(out, Changed), Snap) /\ home' = Other /\ UNCHANGED stale
            \/ (out' = Append(out, Changed) \/ out' = out) /\ home' = None /\ stale' = TRUE
         /\ UNCHANGED <<closed, sent, inbox, reader, writer, wire, open, pings, client>>
  <1>1. Captured \in Scenes /\ Other \in Scenes /\ Captured # Other
    BY SceneAssumption DEF Scenes
  <1>2. course \in Sessions /\ seq \in [Scenes -> 1 .. course.maxSeq] /\ course.maxSeq \in Nat
    BY SessionsAssumption DEF TypeOK
  <1>3. seq[Captured] + Reserved < course.maxSeq /\ Reserved \in Nat
    BY ReservedType DEF migrateLive
  <1>4. seq[Captured] \in 1 .. course.maxSeq /\ seq[Other] \in 1 .. course.maxSeq
    BY <1>1, <1>2
  <1>5. seq[Captured] + 1 \in 1 .. course.maxSeq
    BY <1>2, <1>3, <1>4
  <1>6. /\ seq' \in [Scenes -> 1 .. course.maxSeq]
        /\ seq'[Captured] = seq[Captured] + 1 /\ seq'[Other] = seq[Other]
    BY <1>1, <1>2, <1>5 DEF migrateLive
  <1>7. Changed \in FrameType /\ Snap \in FrameType
    BY <1>1, <1>4, FrameTypes DEF Changed, Snap
  <1>8. /\ home = Captured
        /\ \/ Len(out) + 2 <= OutCap /\ out' = out \o <<Changed, Snap>> /\ home' = Other /\ UNCHANGED stale
           \/ Len(out) < OutCap /\ out' = Append(out, Changed) /\ home' = None /\ stale' = TRUE
           \/ out' = out /\ home' = None /\ stale' = TRUE
        /\ UNCHANGED <<closed, sent, inbox, reader, writer, wire, open, pings, client>>
    <2>1. Frame("changed", Other, seq'[Captured], None) = Changed
      BY <1>6 DEF Changed
    <2> QED
      BY <2>1 DEF migrateLive, Snap
  <1>9. out \in Seq(FrameType) /\ Len(out) <= OutCap /\ Len(out) \in Nat /\ OutCap \in Nat
    BY OutCapAssumption DEF TypeOK
  <1>10. out \o <<Changed, Snap>> = Append(Append(out, Changed), Snap)
    BY <1>7, <1>9
  <1>11. /\ Append(out, Changed) \in Seq(FrameType) /\ Len(Append(out, Changed)) = Len(out) + 1
         /\ Append(Append(out, Changed), Snap) \in Seq(FrameType)
         /\ Len(Append(Append(out, Changed), Snap)) = Len(out) + 2
    BY <1>7, <1>9
  <1>12. out' \in Seq(FrameType) /\ Len(out') <= OutCap
    <2>1. CASE Len(out) + 2 <= OutCap /\ out' = out \o <<Changed, Snap>>
      <3>1. out' = Append(Append(out, Changed), Snap)
        BY <1>10, <2>1
      <3> QED
        BY <1>11, <2>1, <3>1
    <2>2. CASE Len(out) < OutCap /\ out' = Append(out, Changed)
      BY <1>9, <1>11, <2>2
    <2>3. CASE out' = out
      BY <1>9, <2>3
    <2> QED
      BY <1>8, <2>1, <2>2, <2>3
  <1> QED
    BY <1>6, <1>7, <1>8, <1>10, <1>12

\* The first message in line.
LEMMA HeadOfInbox ==
  ASSUME TypeOK, inbox # <<>>
  PROVE  /\ Head(inbox) \in Msgs /\ Tail(inbox) \in Seq(Msgs) /\ Head(inbox) # None
         /\ Head(inbox) = inbox[1] /\ Len(inbox) \in Nat \ {0} /\ Len(Tail(inbox)) = Len(inbox) - 1
         /\ \A i \in 1 .. Len(inbox) - 1 : Tail(inbox)[i] = inbox[i + 1]
  BY SceneAssumption DEF TypeOK

\* What the reader makes of a message other than an Input.
LEMMA ReactionTypes ==
  ASSUME TypeOK, NEW m \in Msgs, Kind[m] # "input"
  PROVE  /\ Reaction(m) \in ReaderType
         /\ Reaction(m).pc = "reply" => Reaction(m).frame.ref = m /\ m \in Direct
         /\ Reaction(m).pc = "reply" => Reaction(m).frame.type \in {"error", "pong"}
  <1>1. seq[Captured] \in Nat /\ Captured \in Scenes
    BY SessionsAssumption DEF TypeOK, Scenes
  <1>2. /\ Frame("error", Captured, seq[Captured], m) \in FrameType
        /\ Frame("error", Captured, seq[Captured], m).ref = m
        /\ Frame("error", Captured, seq[Captured], m).type = "error"
        /\ Frame("pong", Captured, 0, m) \in FrameType
        /\ Frame("pong", Captured, 0, m).ref = m
        /\ Frame("pong", Captured, 0, m).type = "pong"
    BY <1>1, FrameTypes
  <1>3. Kind[m] \in Kinds \ {"input"}
    BY KindAssumption
  <1>4. CASE Kind[m] = "refused"
    BY <1>2, <1>4 DEF Reaction, Refuse, ReaderType, ReplyType, Direct
  <1>5. CASE Kind[m] = "ping"
    BY <1>2, <1>5 DEF Reaction, ReaderType, ReplyType, Direct
  <1>6. CASE Kind[m] = "pong"
    BY <1>6 DEF Reaction, ReaderType, Reading
  <1>7. CASE Kind[m] = "unsubscribe"
    BY <1>7 DEF Reaction, ReaderType, Cancelled
  <1>8. CASE Kind[m] \in {"subscribe", "garbage"}
    BY <1>2, <1>8 DEF Reaction, Refuse, ReaderType, ReplyType, Direct
  <1> QED
    BY <1>3, <1>4, <1>5, <1>6, <1>7, <1>8 DEF Kinds

\* The client's step, frame by frame.
LEMMA ReceiveFacts ==
  ASSUME TypeOK, receive
  PROVE  /\ wire # <<>> /\ open /\ wire' = Tail(wire) /\ open' \in BOOLEAN
         /\ Head(wire) \in FrameType /\ wire' \in Seq(FrameType)
         /\ client' \in ClientType
         /\ \/ client'.answered = client.answered
            \/ Head(wire).ref # None /\ client'.answered = Append(client.answered, Head(wire).ref)
         /\ ~ TracksErrors /\ open' /\ Fits(ClientView, Head(wire)) =>
              ClientView' = After(ClientView, Head(wire))
         /\ UNCHANGED <<sceneVars, out, sent, inbox, reader, writer, pings>>
  <1> DEFINE f == Head(wire)
  <1>1. /\ wire # <<>> /\ open /\ wire' = Tail(wire)
        /\ UNCHANGED <<sceneVars, out, sent, inbox, reader, writer, pings>>
    BY DEF receive
  <1>2. f \in FrameType /\ wire' \in Seq(FrameType) /\ client \in ClientType /\ open \in BOOLEAN
    BY <1>1 DEF TypeOK, ClientType
  <1>3. f.seq \in Nat /\ f.scene \in Scenes /\ f.ref \in Msgs \cup {None}
    BY <1>2 DEF FrameType
  <1>4. client.last \in Nat /\ client.answered \in Seq(Msgs) /\ client.have \in Nat /\ client.scene \in Scenes
    BY <1>2 DEF ClientType
  <1>5. /\ Answered(f) \in ClientType
        /\ Answered(f).scene = client.scene /\ Answered(f).last = client.last
        /\ Answered(f).have = client.have
        /\ Answered(f).answered = IF f.ref = None THEN client.answered
                                 ELSE Append(client.answered, f.ref)
    <2> DEFINE r == IF f.ref = None THEN client.answered ELSE Append(client.answered, f.ref)
    <2>1. r \in Seq(Msgs)
      BY <1>3, <1>4
    <2>2. Answered(f) = [client EXCEPT !.answered = r]
      BY DEF Answered
    <2> HIDE DEF r
    <2>3. /\ Answered(f) \in ClientType /\ Answered(f).answered = r
          /\ Answered(f).scene = client.scene /\ Answered(f).last = client.last
          /\ Answered(f).have = client.have
      BY <1>2, <2>1, <2>2 DEF ClientType
    <2> QED
      BY <2>3 DEF r
  <1> DEFINE tracked == f.type \in {"delta", "changed"} \/ (f.type = "error" /\ TracksErrors)
             Goal == /\ client' \in ClientType /\ open' \in BOOLEAN
                     /\ \/ client'.answered = client.answered
                        \/ f.ref # None /\ client'.answered = Append(client.answered, f.ref)
                     /\ ~ TracksErrors /\ open' /\ Fits(ClientView, f) =>
                          ClientView' = After(ClientView, f)
  <1>6. Goal
    <2>1. CASE /\ f.type = "snapshot"
               /\ client' = [client EXCEPT !.scene = f.scene, !.last = f.seq, !.have = f.seq]
               /\ UNCHANGED open
      <3>1. /\ client' \in ClientType /\ client'.answered = client.answered
            /\ client'.scene = f.scene /\ client'.last = f.seq /\ client'.have = f.seq
        BY <1>2, <1>3, <2>1 DEF ClientType
      <3>2. ClientView' = After(ClientView, f)
        BY <2>1, <3>1 DEF ClientView, After
      <3> QED
        BY <1>2, <2>1, <3>1, <3>2
    <2>2. CASE /\ tracked /\ f.seq = client.last + 1
               /\ client' = [Answered(f) EXCEPT !.last = f.seq,
                               !.scene = IF f.type = "error" THEN @ ELSE f.scene,
                               !.have = IF f.type = "delta" THEN f.seq ELSE @]
               /\ UNCHANGED open
      <3>1. /\ client' \in ClientType /\ client'.answered = Answered(f).answered
            /\ client'.scene = (IF f.type = "error" THEN client.scene ELSE f.scene)
            /\ client'.last = f.seq
            /\ client'.have = IF f.type = "delta" THEN f.seq ELSE client.have
        BY <1>3, <1>5, <2>2 DEF ClientType
      <3>2. ~ TracksErrors => ClientView' = After(ClientView, f)
        BY <2>2, <3>1 DEF ClientView, After
      <3> QED
        BY <1>2, <1>5, <2>2, <3>1, <3>2
    <2>3. CASE /\ tracked /\ f.seq <= client.last
               /\ client' = (IF f.type = "error" THEN Answered(f) ELSE client)
               /\ UNCHANGED open
      <3>1. ~ TracksErrors => ~ Fits(ClientView, f)
        BY <1>3, <1>4, <2>3 DEF Fits, ClientView
      <3> QED
        BY <1>2, <1>5, <2>3, <3>1
    <2>4. CASE open' = FALSE /\ UNCHANGED client
      BY <1>2, <2>4
    <2>5. CASE /\ ~ tracked /\ f.type # "snapshot"
                /\ client' = Answered(f)
                /\ UNCHANGED open
      <3>1. ClientView' = After(ClientView, f)
        BY <1>5, <2>5 DEF ClientView, After
      <3> QED
        BY <1>2, <1>5, <2>5, <3>1
    <2> QED
      BY <2>1, <2>2, <2>3, <2>4, <2>5 DEF receive
  <1> QED
    BY <1>1, <1>2, <1>6

\* TypeOK, with its sets named.
LEMMA TypeParts ==
  TypeOK <=>
    /\ course \in Sessions /\ seq \in [Scenes -> 1 .. course.maxSeq] /\ home \in Scenes \cup {None}
    /\ out \in Seq(FrameType) /\ Len(out) <= OutCap
    /\ closed \in BOOLEAN /\ stale \in BOOLEAN /\ open \in BOOLEAN
    /\ sent \in Seq(Msgs) /\ inbox \in Seq(Msgs)
    /\ reader \in ReaderType /\ writer \in {"run", "done"}
    /\ wire \in Seq(FrameType) /\ pings \in 0 .. course.maxPings
    /\ client \in ClientType
  BY Zenon DEF TypeOK, ReaderType, ReplyType, ClientType

LEMMA TypeInit ==
  Init => TypeOK
  <1> SUFFICES ASSUME Init PROVE TypeOK
    OBVIOUS
  <1>1. course \in Sessions /\ course.maxSeq \in Nat \ {0} /\ course.maxPings \in Nat
    BY SessionsAssumption DEF Init
  <1>2. seq \in [Scenes -> 1 .. course.maxSeq] /\ pings \in 0 .. course.maxPings
    BY <1>1 DEF Init
  <1>3. client \in ClientType /\ home \in Scenes
    BY DEF Init, ClientType, Scenes
  <1>4. /\ out \in Seq(FrameType) /\ Len(out) <= OutCap /\ wire \in Seq(FrameType)
        /\ sent \in Seq(Msgs) /\ inbox \in Seq(Msgs)
    BY OutCapAssumption DEF Init
  <1>5. /\ closed \in BOOLEAN /\ stale \in BOOLEAN /\ open \in BOOLEAN
        /\ reader \in ReaderType /\ writer \in {"run", "done"}
    BY DEF Init, ReaderType
  <1> QED
    BY <1>1, <1>2, <1>3, <1>4, <1>5, TypeParts

LEMMA TypeStep ==
  TypeOK /\ [Next]_vars => TypeOK'
  <1> SUFFICES ASSUME TypeOK, [Next]_vars PROVE TypeOK'
    OBVIOUS
  <1>0. /\ course \in Sessions /\ seq \in [Scenes -> 1 .. course.maxSeq] /\ home \in Scenes \cup {None}
        /\ out \in Seq(FrameType) /\ Len(out) <= OutCap
        /\ closed \in BOOLEAN /\ stale \in BOOLEAN /\ open \in BOOLEAN
        /\ sent \in Seq(Msgs) /\ inbox \in Seq(Msgs)
        /\ reader \in ReaderType /\ writer \in {"run", "done"}
        /\ wire \in Seq(FrameType) /\ pings \in 0 .. course.maxPings
        /\ client \in ClientType
    BY TypeParts
  <1>00. course.maxSeq \in Nat /\ course.maxPings \in Nat /\ course.msgs \subseteq Msgs
    BY <1>0, SessionsAssumption
  <1>T. (/\ course' \in Sessions /\ seq' \in [Scenes -> 1 .. course'.maxSeq]
         /\ home' \in Scenes \cup {None} /\ out' \in Seq(FrameType) /\ Len(out') <= OutCap
         /\ closed' \in BOOLEAN /\ stale' \in BOOLEAN /\ open' \in BOOLEAN
         /\ sent' \in Seq(Msgs) /\ inbox' \in Seq(Msgs)
         /\ reader' \in ReaderType /\ writer' \in {"run", "done"}
         /\ wire' \in Seq(FrameType) /\ pings' \in 0 .. course'.maxPings
         /\ client' \in ClientType) => TypeOK'
    BY Zenon DEF TypeOK, ReaderType, ReplyType, ClientType
  <1>1. ASSUME NEW o \in Scenes, Emit(o), UNCHANGED course PROVE TypeOK'
    <2>1. emitWithCause(o, None)
      BY <1>1 DEF Emit
    <2> QED
      BY <1>0, <1>1, <1>T, <2>1, EmitTypes DEF Emit
  <1>2. ASSUME migrateLive, UNCHANGED course PROVE TypeOK'
    <2>1. Other \in Scenes /\ stale' \in BOOLEAN
      BY <1>0, <1>2, MigrateFacts DEF Scenes
    <2> QED
      BY <1>0, <1>2, <1>T, <2>1, MigrateFacts
  <1>3. ASSUME NewScene, UNCHANGED course PROVE TypeOK'
    BY <1>0, <1>3, <1>T DEF NewScene
  <1>4. ASSUME readInput, UNCHANGED course PROVE TypeOK'
    <2>1. Head(inbox) \in Msgs /\ Tail(inbox) \in Seq(Msgs) /\ Captured \in Scenes
      BY <1>4, HeadOfInbox DEF readInput, Scenes
    <2>2. emitWithCause(Captured, Head(inbox)) /\ inbox' = Tail(inbox)
          /\ UNCHANGED <<sent, reader, writer, open, pings, client>>
      BY <1>4 DEF readInput
    <2> QED
      BY <1>0, <1>4, <1>T, <2>1, <2>2, EmitTypes
  <1>5. ASSUME readMessage, UNCHANGED course PROVE TypeOK'
    <2>1. Head(inbox) \in Msgs /\ Tail(inbox) \in Seq(Msgs) /\ Kind[Head(inbox)] # "input"
      BY <1>5, HeadOfInbox DEF readMessage
    <2>2. reader' \in ReaderType
      BY <1>5, <2>1, ReactionTypes DEF readMessage
    <2> QED
      BY <1>0, <1>5, <1>T, <2>1, <2>2 DEF readMessage, sceneVars
  <1>6. ASSUME sendReply, UNCHANGED course PROVE TypeOK'
    <2>1. reader \in ReplyType
      BY <1>0, <1>6 DEF sendReply, ReaderType, Reading, Cancelled, Ended
    <2>2. wire' \in Seq(FrameType) /\ reader' \in ReaderType
      BY <1>0, <1>6, <2>1 DEF sendReply, ReplyType, ReaderType
    <2> QED
      BY <1>0, <1>6, <1>T, <2>2 DEF sendReply, sceneVars
  <1>7. ASSUME readFails, UNCHANGED course PROVE TypeOK'
    BY <1>0, <1>7, <1>T DEF readFails, sceneVars, ReaderType
  <1>8. ASSUME finish, UNCHANGED course PROVE TypeOK'
    BY <1>0, <1>8, <1>T DEF finish, ReaderType
  <1>9. ASSUME writeFrame, UNCHANGED course PROVE TypeOK'
    <2>1. out # <<>> /\ wire' = Append(wire, Head(out)) /\ out' = Tail(out)
      BY <1>9 DEF writeFrame
    <2>2. wire' \in Seq(FrameType) /\ out' \in Seq(FrameType) /\ Len(out') <= OutCap
      BY <1>0, <2>1, OutCapAssumption
    <2> QED
      BY <1>0, <1>9, <1>T, <2>2 DEF writeFrame, sceneVars
  <1>10. ASSUME writePing, UNCHANGED course PROVE TypeOK'
    <2>1. Frame("ping", Captured, 0, None) \in FrameType
      BY FrameTypes DEF Scenes
    <2>2. wire' \in Seq(FrameType) /\ pings' \in 0 .. course.maxPings
      BY <1>0, <1>00, <1>10, <2>1 DEF writePing
    <2> QED
      BY <1>0, <1>10, <1>T, <2>2 DEF writePing, sceneVars
  <1>11. ASSUME writerEnds, UNCHANGED course PROVE TypeOK'
    BY <1>0, <1>11, <1>T DEF writerEnds, sceneVars
  <1>12. ASSUME NEW m \in course.msgs, send(m), UNCHANGED course PROVE TypeOK'
    <2>1. m \in Msgs
      BY <1>00
    <2>2. sent' \in Seq(Msgs) /\ inbox' \in Seq(Msgs)
      BY <1>0, <1>12, <2>1 DEF send
    <2> QED
      BY <1>0, <1>12, <1>T, <2>2 DEF send, sceneVars
  <1>13. ASSUME receive, UNCHANGED course PROVE TypeOK'
    BY <1>0, <1>13, <1>T, ReceiveFacts DEF sceneVars
  <1>14. ASSUME breakConn, UNCHANGED course PROVE TypeOK'
    BY <1>0, <1>14, <1>T DEF breakConn, sceneVars
  <1>15. CASE UNCHANGED vars
    BY <1>0, <1>15, <1>T DEF vars
  <1> QED
    BY <1>1, <1>2, <1>3, <1>4, <1>5, <1>6, <1>7, <1>8, <1>9, <1>10, <1>11, <1>12, <1>13,
       <1>14, <1>15 DEF Next, ReaderStep, WriterStep

\* The connection's state has the documented shape, no queue outgrows its
\* channel and no counter its bound.
THEOREM SessionTypeCorrect == Spec => []TypeOK
  BY TypeInit, TypeStep, PTL DEF Spec

-----------------------------------------------------------------------------
(* The client is current. *)

\* What the client has of an emission on scene o, seen from its subscription.
LEMMA FlowEmit ==
  ASSUME TypeOK, FlowInv, NEW o \in Scenes, NEW m \in Msgs \cup {None}, emitWithCause(o, m),
         UNCHANGED <<open, client>>
  PROVE  FlowInv'
  <1> SUFFICES ASSUME open', home' # None, ~ stale'
               PROVE  \E v \in View : Path(wire', ClientView', v) /\ Path(out', v, Current(home, seq[home])')
    BY DEF FlowInv
  <1>1. UNCHANGED home /\ (stale => stale') /\ ClientView' = ClientView
    BY EmitTypes DEF emitWithCause, ClientView
  <1>2. PICK v \in View : Path(wire, ClientView, v) /\ Path(out, v, Current(home, seq[home]))
    BY <1>1 DEF FlowInv
  <1>3. /\ out \in Seq(FrameType) /\ wire \in Seq(FrameType) /\ Len(out) \in Nat
        /\ OutCap >= 2 /\ OutCap \in Nat /\ home \in Scenes
    BY <1>1, OutCapAssumption DEF TypeOK
  <1>4. CASE home # o
    <2>1. seq'[home] = seq[home] /\ UNCHANGED <<out, wire>>
      BY <1>3, <1>4, EmitTypes DEF emitWithCause
    <2> QED
      BY <1>1, <1>2, <2>1
  <1>5. CASE home = o
    <2> DEFINE n == seq[o] + 1
               c == Current(o, seq[o])
    <2>1. /\ seq'[o] = n /\ seq[o] \in Nat
          /\ Frame("delta", o, n, m) \in FrameType /\ Frame("snapshot", o, n, None) \in FrameType
      BY EmitTypes, SessionsAssumption DEF TypeOK
    <2>2. /\ Fits(c, Frame("delta", o, n, m)) /\ After(c, Frame("delta", o, n, m)) = Current(o, n)
          /\ After(c, Frame("snapshot", o, n, None)) = Current(o, n)
          /\ \A u : Fits(u, Frame("snapshot", o, n, None))
      BY DEF Fits, After, Current, Frame
    <2>3. Path(out, v, c)
      BY <1>2, <1>5
    <2> HIDE DEF n, c
    <2>4. CASE out' = Append(out, Frame("delta", o, n, m)) /\ UNCHANGED wire
      <3>1. Path(out', v, Current(o, n))
        BY <1>3, <2>1, <2>2, <2>3, <2>4, PathAppend
      <3> QED
        BY <1>1, <1>2, <1>5, <2>1, <2>4, <3>1
    <2>5. CASE /\ Len(out) = OutCap /\ wire' = Append(wire, Head(out))
               /\ out' = Append(Tail(out), Frame("snapshot", o, n, None))
      <3>1. out # <<>> /\ Head(out) \in FrameType /\ Tail(out) \in Seq(FrameType)
        <4>1. out # <<>>
          BY <1>3, <2>5
        <4> QED
          BY <1>3, <4>1
      <3>2. Fits(v, Head(out)) /\ Path(Tail(out), After(v, Head(out)), c)
        BY <1>3, <2>3, <3>1, PathHead
      <3>3. Path(wire', ClientView, After(v, Head(out)))
        BY <1>2, <1>3, <2>5, <3>1, <3>2, PathAppend
      <3>4. Path(out', After(v, Head(out)), Current(o, n))
        BY <2>1, <2>2, <2>5, <3>1, <3>2, PathAppend
      <3>5. After(v, Head(out)) \in View
        BY <3>1, AfterType
      <3> QED
        BY <1>1, <1>5, <2>1, <3>3, <3>4, <3>5
    <2> QED
      BY <1>5, <2>4, <2>5 DEF emitWithCause, n
  <1> QED
    BY <1>4, <1>5

LEMMA FlowStep ==
  ASSUME TypeOK, ReplyInv, FlowInv, Next, ~ TracksErrors
  PROVE  FlowInv'
  <1>0. /\ out \in Seq(FrameType) /\ wire \in Seq(FrameType) /\ client \in ClientType
        /\ home \in Scenes \cup {None} /\ \A o \in Scenes : seq[o] \in Nat
    BY SessionsAssumption DEF TypeOK, ClientType
  <1>1. ASSUME NEW o \in Scenes, Emit(o) PROVE FlowInv'
    BY <1>1, FlowEmit DEF Emit
  <1>2. ASSUME migrateLive PROVE FlowInv'
    <2> SUFFICES ASSUME open', home' # None, ~ stale'
                 PROVE  \E v \in View : Path(wire', ClientView', v) /\ Path(out', v, Current(home, seq[home])')
      BY DEF FlowInv
    <2>1. /\ home = Captured /\ home' = Other /\ UNCHANGED <<stale, open, wire, client>>
          /\ out' = Append(Append(out, Changed), Snap) /\ seq'[Other] = seq[Other]
          /\ Changed \in FrameType /\ Snap \in FrameType
      BY <1>2, MigrateFacts
    <2>2. PICK v \in View : Path(wire, ClientView, v) /\ Path(out, v, Current(Captured, seq[Captured]))
      BY <2>1, SceneAssumption DEF FlowInv, Scenes
    <2>3. Fits(Current(Captured, seq[Captured]), Changed)
      BY DEF Fits, Changed, Current, Frame
    <2>4. Path(Append(out, Changed), v, After(Current(Captured, seq[Captured]), Changed))
      BY <1>0, <2>1, <2>2, <2>3, PathAppend
    <2>5. \A u : Fits(u, Snap) /\ After(u, Snap) = Current(Other, seq[Other])
      BY DEF Fits, After, Snap, Current, Frame
    <2>6. Append(out, Changed) \in Seq(FrameType)
      BY <1>0, <2>1
    <2>7. Path(out', v, Current(Other, seq[Other]))
      <3> DEFINE u == After(Current(Captured, seq[Captured]), Changed)
                 q == Append(out, Changed)
      <3>1. q \in Seq(FrameType) /\ Path(q, v, u) /\ Fits(u, Snap)
        BY <2>4, <2>5, <2>6
      <3>2. After(u, Snap) = Current(Other, seq[Other]) /\ out' = Append(q, Snap)
        BY <2>1, <2>5
      <3> HIDE DEF u, q
      <3>3. Path(Append(q, Snap), v, After(u, Snap))
        BY <2>1, <3>1, PathAppend
      <3> QED
        BY <3>2, <3>3
    <2> QED
      BY <2>1, <2>2, <2>7 DEF ClientView
  <1>3. ASSUME NewScene \/ finish PROVE FlowInv'
    BY <1>3 DEF NewScene, finish, FlowInv
  <1>4. ASSUME readInput PROVE FlowInv'
    BY <1>4, FlowEmit, HeadOfInbox DEF readInput, Scenes
  \* Steps that do not touch the frames on their way.
  <1>5. ASSUME UNCHANGED <<seq, home, stale, out, wire, client>>, open' => open PROVE FlowInv'
    BY <1>5 DEF FlowInv, ClientView
  <1>6. ASSUME \/ readMessage \/ readFails \/ writerEnds \/ breakConn
               \/ \E m \in course.msgs : send(m)
        PROVE  FlowInv'
    BY <1>5, <1>6 DEF readMessage, readFails, writerEnds, breakConn, send, sceneVars
  \* A frame that changes no view goes to the wire.
  <1>7. ASSUME NEW f \in FrameType, f.type \notin {"delta", "snapshot", "changed"},
               wire' = Append(wire, f), UNCHANGED <<seq, home, stale, out, open, client>>
        PROVE  FlowInv'
    <2> SUFFICES ASSUME open', home' # None, ~ stale'
                 PROVE  \E v \in View : Path(wire', ClientView', v) /\ Path(out', v, Current(home, seq[home])')
      BY DEF FlowInv
    <2>1. PICK v \in View : Path(wire, ClientView, v) /\ Path(out, v, Current(home, seq[home]))
      BY <1>7 DEF FlowInv
    <2>2. Path(wire', ClientView, v)
      BY <1>0, <1>7, <2>1, PathIdle
    <2> QED
      BY <1>7, <2>1, <2>2 DEF ClientView
  <1>8. ASSUME writePing PROVE FlowInv'
    <2>1. Frame("ping", Captured, 0, None) \in FrameType /\ Frame("ping", Captured, 0, None).type = "ping"
      BY FrameTypes DEF Scenes
    <2> QED
      BY <1>7, <1>8, <2>1 DEF writePing, sceneVars
  <1>9. ASSUME sendReply PROVE FlowInv'
    <2>1. reader.frame \in FrameType /\ reader.frame.type \in {"error", "pong"}
      BY <1>9 DEF sendReply, ReplyInv
    <2>2. CASE open
      BY <1>7, <1>9, <2>1, <2>2 DEF sendReply, sceneVars
    <2>3. CASE ~ open
      BY <1>5, <1>9, <2>3 DEF sendReply, sceneVars
    <2> QED
      BY <2>2, <2>3
  <1>10. ASSUME writeFrame PROVE FlowInv'
    <2> SUFFICES ASSUME open', home' # None, ~ stale'
                 PROVE  \E v \in View : Path(wire', ClientView', v) /\ Path(out', v, Current(home, seq[home])')
      BY DEF FlowInv
    <2>1. /\ out # <<>> /\ wire' = Append(wire, Head(out)) /\ out' = Tail(out)
          /\ UNCHANGED <<seq, home, stale, open, client>>
      BY <1>10 DEF writeFrame, sceneVars
    <2>2. PICK v \in View : Path(wire, ClientView, v) /\ Path(out, v, Current(home, seq[home]))
      BY <2>1 DEF FlowInv
    <2>3. Head(out) \in FrameType
      BY <1>0, <2>1
    <2>4. Fits(v, Head(out)) /\ Path(out', After(v, Head(out)), Current(home, seq[home]))
      BY <1>0, <2>1, <2>2, PathHead
    <2>5. Path(wire', ClientView, After(v, Head(out)))
      BY <1>0, <2>1, <2>2, <2>3, <2>4, PathAppend
    <2>6. After(v, Head(out)) \in View
      BY <2>3, AfterType
    <2> QED
      BY <2>1, <2>4, <2>5, <2>6 DEF ClientView
  <1>11. ASSUME receive PROVE FlowInv'
    <2> SUFFICES ASSUME open', home' # None, ~ stale'
                 PROVE  \E v \in View : Path(wire', ClientView', v) /\ Path(out', v, Current(home, seq[home])')
      BY DEF FlowInv
    <2>1. /\ wire # <<>> /\ open /\ wire' = Tail(wire) /\ UNCHANGED <<seq, home, stale, out>>
          /\ Fits(ClientView, Head(wire)) => ClientView' = After(ClientView, Head(wire))
      BY <1>11, ReceiveFacts DEF sceneVars
    <2>2. PICK v \in View : Path(wire, ClientView, v) /\ Path(out, v, Current(home, seq[home]))
      BY <2>1 DEF FlowInv
    <2>3. Fits(ClientView, Head(wire)) /\ Path(wire', After(ClientView, Head(wire)), v)
      BY <1>0, <2>1, <2>2, PathHead
    <2> QED
      BY <2>1, <2>2, <2>3
  <1> QED
    BY <1>1, <1>2, <1>3, <1>4, <1>6, <1>8, <1>9, <1>10, <1>11 DEF Next, ReaderStep, WriterStep

LEMMA ReplyStep ==
  ASSUME TypeOK, ReplyInv, Next
  PROVE  ReplyInv'
  <1>1. ASSUME UNCHANGED reader PROVE ReplyInv'
    BY <1>1 DEF ReplyInv
  <1>2. ASSUME reader' \in {Reading, Cancelled, Ended} PROVE ReplyInv'
    BY <1>2 DEF ReplyInv, Reading, Cancelled, Ended
  <1>3. ASSUME readMessage PROVE ReplyInv'
    <2>1. Head(inbox) \in Msgs /\ Kind[Head(inbox)] # "input" /\ reader' = Reaction(Head(inbox))
      BY <1>3, HeadOfInbox DEF readMessage
    <2>2. /\ reader' \in ReaderType
          /\ reader'.pc = "reply" => reader'.frame.ref \in Direct
          /\ reader'.pc = "reply" => reader'.frame.type \in {"error", "pong"}
      BY <2>1, ReactionTypes
    <2>3. reader'.pc = "reply" => reader'.frame \in FrameType
      BY <2>2 DEF ReaderType, ReplyType, Reading, Cancelled, Ended
    <2> QED
      BY <2>2, <2>3 DEF ReplyInv
  <1>4. ASSUME sendReply \/ readFails \/ finish PROVE ReplyInv'
    BY <1>2, <1>4 DEF sendReply, readFails, finish
  <1> QED
    BY <1>1, <1>3, <1>4
       DEF Next, ReaderStep, WriterStep, Emit, migrateLive, NewScene, readInput, writeFrame, writePing,
           writerEnds, send, receive, breakConn

\* However the answers of the reader and the frames of the writer mix, a client
\* that does not track the numbers of Error frames ends up on the scene of its
\* subscription with every emission of it, unless its queue overflowed.  With
\* TracksErrors it does not (README, Known deviations).
THEOREM ClientsAreCurrent == Spec /\ ~ TracksErrors => []ClientCurrent
  <1> DEFINE Inv == TypeOK /\ ReplyInv /\ FlowInv /\ ~ TracksErrors
  <1>1. Init /\ ~ TracksErrors => Inv
    <2> SUFFICES ASSUME Init, ~ TracksErrors PROVE Inv
      OBVIOUS
    <2>1. ReplyInv
      BY DEF Init, ReplyInv, Reading
    <2>2. /\ ClientView = Current(Captured, 1) /\ Current(home, seq[home]) = Current(Captured, 1)
          /\ Current(Captured, 1) \in View
      BY DEF Init, ClientView, Current, View, Scenes
    <2>3. FlowInv
      BY <2>2, PathEmpty DEF FlowInv, Init
    <2> QED
      BY <2>1, <2>3, TypeInit
  <1>2. Inv /\ [Next]_vars => Inv'
    <2> SUFFICES ASSUME Inv, [Next]_vars PROVE Inv'
      OBVIOUS
    <2>1. TypeOK' /\ ~ TracksErrors'
      BY TypeStep
    <2>2. CASE Next
      BY <2>1, <2>2, ReplyStep, FlowStep
    <2>3. CASE UNCHANGED vars
      BY <2>1, <2>3 DEF vars, ReplyInv, FlowInv, ClientView
    <2> QED
      BY <2>2, <2>3
  <1>3. Inv => ClientCurrent
    <2> SUFFICES ASSUME Inv, Settled PROVE client.scene = home /\ client.have = seq[home]
      BY DEF ClientCurrent
    <2>1. PICK v \in View : Path(<<>>, ClientView, v) /\ Path(<<>>, v, Current(home, seq[home]))
      BY DEF Settled, FlowInv
    <2>2. ClientView = Current(home, seq[home])
      BY <2>1, PathNone
    <2> QED
      BY <2>2 DEF ClientView, Current
  <1> HIDE DEF Inv
  <1> QED
    BY <1>1, <1>2, <1>3, PTL DEF Spec

-----------------------------------------------------------------------------
(* The order of the answers. *)

\* The members of C in q are messages of S, each later than the one before it
\* and all after position u and up to position v: N[j] is the position
\* reached after j entries of q.
Climbs(C, S, q, u, v) ==
  \E N \in [0 .. Len(q) -> 0 .. Len(S)] :
    /\ u <= N[0] /\ N[Len(q)] <= v
    /\ \A i, j \in 0 .. Len(q) : i < j =>
         N[i] <= N[j] /\ (q[j] \in C => N[i] < N[j] /\ S[N[j]] = q[j])

\* Answers a, then w, then x, to the first n messages of S.
Chain(C, S, a, w, x, n) ==
  \E u, v \in Nat : Climbs(C, S, a, 0, u) /\ Climbs(C, S, w, u, v) /\ Climbs(C, S, x, v, n)

LEMMA ClimbsNothing ==
  ASSUME NEW C, NEW S, NEW u \in Nat, NEW v \in Nat, u <= v, v <= Len(S), Len(S) \in Nat
  PROVE  Climbs(C, S, <<>>, u, v)
  <1> DEFINE N == [j \in 0 .. 0 |-> u]
  <1>1. N \in [0 .. Len(<<>>) -> 0 .. Len(S)] /\ N[0] = u
    OBVIOUS
  <1> HIDE DEF N
  <1> QED
    BY <1>1 DEF Climbs

LEMMA ClimbsBounds ==
  ASSUME NEW T, NEW C, NEW S, NEW q \in Seq(T), NEW u \in Nat, NEW v \in Nat, Climbs(C, S, q, u, v),
         Len(S) \in Nat
  PROVE  u <= v
  <1>1. PICK N \in [0 .. Len(q) -> 0 .. Len(S)] :
          /\ u <= N[0] /\ N[Len(q)] <= v
          /\ \A i, j \in 0 .. Len(q) : i < j => N[i] <= N[j]
    BY DEF Climbs
  <1>2. Len(q) \in Nat /\ 0 \in 0 .. Len(q) /\ Len(q) \in 0 .. Len(q)
    OBVIOUS
  <1>3. N[0] <= N[Len(q)] /\ N[0] \in Nat /\ N[Len(q)] \in Nat
    BY <1>1, <1>2
  <1> QED
    BY <1>1, <1>3

\* The upper bound may grow, and S may.
LEMMA ClimbsMore ==
  ASSUME NEW T, NEW M, NEW C, NEW S \in Seq(M), NEW m \in M, NEW q \in Seq(T),
         NEW u \in Nat, NEW v \in Nat, NEW w \in Nat, v <= w, Climbs(C, S, q, u, v)
  PROVE  Climbs(C, S, q, u, w) /\ Climbs(C, Append(S, m), q, u, w)
  <1>1. PICK N \in [0 .. Len(q) -> 0 .. Len(S)] :
          /\ u <= N[0] /\ N[Len(q)] <= v
          /\ \A i, j \in 0 .. Len(q) : i < j =>
               N[i] <= N[j] /\ (q[j] \in C => N[i] < N[j] /\ S[N[j]] = q[j])
    BY DEF Climbs
  <1>2. Len(q) \in Nat /\ Len(S) \in Nat /\ N[Len(q)] \in Nat
    BY <1>1
  <1>3. N[Len(q)] <= w
    BY <1>1, <1>2
  <1> DEFINE R == Append(S, m)
  <1>4. Len(R) = Len(S) + 1 /\ \A i \in 1 .. Len(S) : R[i] = S[i]
    OBVIOUS
  <1> HIDE DEF R
  <1>5. N \in [0 .. Len(q) -> 0 .. Len(R)]
    BY <1>1, <1>2, <1>4
  <1>6. ASSUME NEW i \in 0 .. Len(q), NEW j \in 0 .. Len(q), i < j
        PROVE  N[i] <= N[j] /\ (q[j] \in C => N[i] < N[j] /\ R[N[j]] = q[j])
    <2>1. N[i] \in 0 .. Len(S) /\ N[j] \in 0 .. Len(S)
      BY <1>1
    <2>2. N[i] < N[j] => R[N[j]] = S[N[j]]
      BY <1>2, <1>4, <2>1
    <2> QED
      BY <1>1, <1>6, <2>2
  <1>7. Climbs(C, R, q, u, w)
    BY <1>1, <1>3, <1>5, <1>6 DEF Climbs
  <1>8. Climbs(C, S, q, u, w)
    BY <1>1, <1>3 DEF Climbs
  <1> QED
    BY <1>7, <1>8 DEF R

\* One entry more: of another kind, or the message at position p.
LEMMA ClimbsAppend ==
  ASSUME NEW T, NEW C, NEW S, NEW q \in Seq(T), NEW h \in T, NEW u \in Nat, NEW v \in Nat,
         NEW p \in Nat, Climbs(C, S, q, u, v), Len(S) \in Nat, p <= Len(S), v <= p,
         h \in C => v < p /\ S[p] = h
  PROVE  Climbs(C, S, Append(q, h), u, p)
  <1>1. PICK N \in [0 .. Len(q) -> 0 .. Len(S)] :
          /\ u <= N[0] /\ N[Len(q)] <= v
          /\ \A i, j \in 0 .. Len(q) : i < j =>
               N[i] <= N[j] /\ (q[j] \in C => N[i] < N[j] /\ S[N[j]] = q[j])
    BY DEF Climbs
  <1> DEFINE r == Append(q, h)
             M == [j \in 0 .. Len(q) + 1 |-> IF j = Len(q) + 1 THEN p ELSE N[j]]
  <1>2. /\ Len(q) \in Nat /\ Len(r) = Len(q) + 1 /\ r[Len(q) + 1] = h
        /\ \A j \in 1 .. Len(q) : r[j] = q[j]
    OBVIOUS
  <1>3. /\ M \in [0 .. Len(r) -> 0 .. Len(S)] /\ M[Len(q) + 1] = p
        /\ \A j \in 0 .. Len(q) : M[j] = N[j]
    BY <1>1, <1>2
  <1> HIDE DEF M, r
  <1>4. \A i \in 0 .. Len(q) : N[i] \in Nat /\ N[i] <= v
    <2> SUFFICES ASSUME NEW i \in 0 .. Len(q) PROVE N[i] \in Nat /\ N[i] <= v
      OBVIOUS
    <2>1. Len(q) \in 0 .. Len(q) /\ (i = Len(q) \/ i < Len(q)) /\ N[Len(q)] \in Nat /\ N[i] \in Nat
      BY <1>1, <1>2
    <2>2. N[i] <= N[Len(q)]
      BY <1>1, <2>1
    <2> QED
      BY <1>1, <2>1, <2>2
  <1>5. ASSUME NEW i \in 0 .. Len(r), NEW j \in 0 .. Len(r), i < j
        PROVE  M[i] <= M[j] /\ (r[j] \in C => M[i] < M[j] /\ S[M[j]] = r[j])
    <2>1. i \in 0 .. Len(q) /\ M[i] = N[i] /\ N[i] \in Nat /\ N[i] <= v
      BY <1>2, <1>3, <1>4, <1>5
    <2>2. CASE j = Len(q) + 1
      <3>1. M[j] = p /\ r[j] = h
        BY <1>2, <1>3, <2>2
      <3> QED
        BY <2>1, <3>1
    <2>3. CASE j # Len(q) + 1
      <3>1. j \in 0 .. Len(q) /\ j \in 1 .. Len(q) /\ M[j] = N[j] /\ r[j] = q[j]
        BY <1>2, <1>3, <1>5, <2>3
      <3> QED
        BY <1>1, <1>5, <2>1, <3>1
    <2> QED
      BY <2>2, <2>3
  <1>6. u <= M[0] /\ M[Len(r)] <= p
    BY <1>1, <1>2, <1>3
  <1>7. Climbs(C, S, r, u, p)
    BY <1>3, <1>5, <1>6 DEF Climbs
  <1> QED
    BY <1>7 DEF r

\* The first entry taken off, at position p.
LEMMA ClimbsHead ==
  ASSUME NEW T, NEW C, NEW S, NEW q \in Seq(T), q # <<>>, NEW u \in Nat, NEW v \in Nat,
         Climbs(C, S, q, u, v), Len(S) \in Nat
  PROVE  \E p \in Nat : /\ u <= p /\ p <= Len(S)
                        /\ Head(q) \in C => u < p /\ S[p] = Head(q)
                        /\ Climbs(C, S, Tail(q), p, v)
  <1>1. PICK N \in [0 .. Len(q) -> 0 .. Len(S)] :
          /\ u <= N[0] /\ N[Len(q)] <= v
          /\ \A i, j \in 0 .. Len(q) : i < j =>
               N[i] <= N[j] /\ (q[j] \in C => N[i] < N[j] /\ S[N[j]] = q[j])
    BY DEF Climbs
  <1> DEFINE r == Tail(q)
             M == [j \in 0 .. Len(q) - 1 |-> N[j + 1]]
  <1>2. /\ Len(q) \in Nat \ {0} /\ Len(r) = Len(q) - 1 /\ Head(q) = q[1]
        /\ \A j \in 1 .. Len(r) : r[j] = q[j + 1]
    OBVIOUS
  <1>3. M \in [0 .. Len(r) -> 0 .. Len(S)] /\ \A j \in 0 .. Len(r) : M[j] = N[j + 1]
    BY <1>1, <1>2
  <1> HIDE DEF M, r
  <1>4. 0 \in 0 .. Len(q) /\ 1 \in 0 .. Len(q) /\ N[0] \in Nat /\ N[1] \in Nat /\ N[1] <= Len(S)
    BY <1>1, <1>2
  <1>5. u <= N[1] /\ (Head(q) \in C => u < N[1] /\ S[N[1]] = Head(q))
    BY <1>1, <1>2, <1>4
  <1>6. ASSUME NEW i \in 0 .. Len(r), NEW j \in 0 .. Len(r), i < j
        PROVE  M[i] <= M[j] /\ (r[j] \in C => M[i] < M[j] /\ S[M[j]] = r[j])
    <2>1. /\ i + 1 \in 0 .. Len(q) /\ j + 1 \in 0 .. Len(q) /\ i + 1 < j + 1
          /\ M[i] = N[i + 1] /\ M[j] = N[j + 1] /\ r[j] = q[j + 1]
      BY <1>2, <1>3, <1>6
    <2> QED
      BY <1>1, <2>1
  <1>7. N[1] <= M[0] /\ M[Len(r)] <= v
    BY <1>1, <1>2, <1>3, <1>4
  <1>8. Climbs(C, S, r, N[1], v)
    BY <1>3, <1>6, <1>7 DEF Climbs
  <1> QED
    BY <1>4, <1>5, <1>8 DEF r

Refs == Msgs \cup {None}

\* The first entry of w is received, and noted or not.
LEMMA ChainReceive ==
  ASSUME NEW C, NEW S \in Seq(Msgs), NEW a \in Seq(Refs), NEW w \in Seq(Refs), NEW x \in Seq(Refs),
         NEW n \in Nat, Chain(C, S, a, w, x, n), w # <<>>
  PROVE  Chain(C, S, a, Tail(w), x, n) /\ Chain(C, S, Append(a, Head(w)), Tail(w), x, n)
  <1>1. PICK u \in Nat, v \in Nat :
          Climbs(C, S, a, 0, u) /\ Climbs(C, S, w, u, v) /\ Climbs(C, S, x, v, n)
    BY DEF Chain
  <1>2. Len(S) \in Nat /\ Head(w) \in Refs
    OBVIOUS
  <1>3. PICK p \in Nat : /\ u <= p /\ p <= Len(S)
                         /\ Head(w) \in C => u < p /\ S[p] = Head(w)
                         /\ Climbs(C, S, Tail(w), p, v)
    BY <1>1, <1>2, ClimbsHead
  <1>4. Climbs(C, S, Append(a, Head(w)), 0, p)
    BY <1>1, <1>2, <1>3, ClimbsAppend
  <1>5. Climbs(C, S, a, 0, p)
    <2>1. CASE S = <<>>
      <3>1. p = 0 /\ u = 0
        BY <1>3, <2>1
      <3> QED
        BY <1>1, <3>1
    <2>2. CASE S # <<>>
      <3>1. Head(S) \in Msgs
        BY <2>2
      <3> QED
        BY <1>1, <1>3, <3>1, ClimbsMore
    <2> QED
      BY <2>1, <2>2
  <1> QED
    BY <1>1, <1>3, <1>4, <1>5 DEF Chain

\* The first entry of x goes to the end of w, or is lost.
LEMMA ChainWrite ==
  ASSUME NEW C, NEW S \in Seq(Msgs), NEW a \in Seq(Refs), NEW w \in Seq(Refs), NEW x \in Seq(Refs),
         NEW n \in Nat, Chain(C, S, a, w, x, n), x # <<>>
  PROVE  Chain(C, S, a, Append(w, Head(x)), Tail(x), n) /\ Chain(C, S, a, w, Tail(x), n)
  <1>1. PICK u \in Nat, v \in Nat :
          Climbs(C, S, a, 0, u) /\ Climbs(C, S, w, u, v) /\ Climbs(C, S, x, v, n)
    BY DEF Chain
  <1>2. Len(S) \in Nat /\ Head(x) \in Refs
    OBVIOUS
  <1>3. PICK p \in Nat : /\ v <= p /\ p <= Len(S)
                         /\ Head(x) \in C => v < p /\ S[p] = Head(x)
                         /\ Climbs(C, S, Tail(x), p, n)
    BY <1>1, <1>2, ClimbsHead
  <1>4. Climbs(C, S, Append(w, Head(x)), u, p)
    BY <1>1, <1>2, <1>3, ClimbsAppend
  <1>5. Climbs(C, S, w, u, p)
    <2>1. CASE S = <<>>
      <3>1. p = 0 /\ v = 0
        BY <1>3, <2>1
      <3> QED
        BY <1>1, <3>1
    <2>2. CASE S # <<>>
      <3>1. Head(S) \in Msgs
        BY <2>2
      <3> QED
        BY <1>1, <1>3, <3>1, ClimbsMore
    <2> QED
      BY <2>1, <2>2
  <1> QED
    BY <1>1, <1>3, <1>4, <1>5 DEF Chain

\* An entry of another kind joins w or x.
LEMMA ChainSkip ==
  ASSUME NEW C, NEW S \in Seq(Msgs), NEW a \in Seq(Refs), NEW w \in Seq(Refs), NEW x \in Seq(Refs),
         NEW n \in Nat, n <= Len(S), Chain(C, S, a, w, x, n), NEW h \in Refs, h \notin C
  PROVE  Chain(C, S, a, Append(w, h), x, n) /\ Chain(C, S, a, w, Append(x, h), n)
  <1>1. PICK u \in Nat, v \in Nat :
          Climbs(C, S, a, 0, u) /\ Climbs(C, S, w, u, v) /\ Climbs(C, S, x, v, n)
    BY DEF Chain
  <1>2. Len(S) \in Nat
    OBVIOUS
  <1>3. v <= n
    BY <1>1, <1>2, ClimbsBounds
  <1>4. Climbs(C, S, Append(w, h), u, v)
    BY <1>1, <1>2, <1>3, ClimbsAppend
  <1>5. Climbs(C, S, Append(x, h), v, n)
    BY <1>1, <1>2, ClimbsAppend
  <1> QED
    BY <1>1, <1>4, <1>5 DEF Chain

\* The next message is read, and joins x or not.
LEMMA ChainTake ==
  ASSUME NEW C, NEW S \in Seq(Msgs), NEW a \in Seq(Refs), NEW w \in Seq(Refs), NEW x \in Seq(Refs),
         NEW n \in Nat, n + 1 <= Len(S), Chain(C, S, a, w, x, n)
  PROVE  Chain(C, S, a, w, Append(x, S[n + 1]), n + 1) /\ Chain(C, S, a, w, x, n + 1)
  <1>1. PICK u \in Nat, v \in Nat :
          Climbs(C, S, a, 0, u) /\ Climbs(C, S, w, u, v) /\ Climbs(C, S, x, v, n)
    BY DEF Chain
  <1>2. Len(S) \in Nat /\ S[n + 1] \in Refs /\ S[n + 1] \in Msgs /\ n + 1 \in Nat /\ n <= n + 1
    BY DEF Refs
  <1>3. Climbs(C, S, Append(x, S[n + 1]), v, n + 1)
    BY <1>1, <1>2, ClimbsAppend
  <1>4. Climbs(C, S, x, v, n + 1)
    BY <1>1, <1>2, ClimbsMore
  <1> QED
    BY <1>1, <1>3, <1>4 DEF Chain

\* A message is sent.
LEMMA ChainSend ==
  ASSUME NEW C, NEW S \in Seq(Msgs), NEW a \in Seq(Refs), NEW w \in Seq(Refs), NEW x \in Seq(Refs),
         NEW n \in Nat, Chain(C, S, a, w, x, n), NEW m \in Msgs
  PROVE  Chain(C, Append(S, m), a, w, x, n)
  <1>1. PICK u \in Nat, v \in Nat :
          Climbs(C, S, a, 0, u) /\ Climbs(C, S, w, u, v) /\ Climbs(C, S, x, v, n)
    BY DEF Chain
  <1>2. 0 \in Nat /\ u <= u /\ v <= v /\ n <= n
    OBVIOUS
  <1>3. Climbs(C, Append(S, m), a, 0, u) /\ Climbs(C, Append(S, m), w, u, v)
    BY <1>1, <1>2, ClimbsMore
  <1>4. Climbs(C, Append(S, m), x, v, n)
    BY <1>1, <1>2, ClimbsMore
  <1> QED
    BY <1>1, <1>3, <1>4 DEF Chain

\* The members of C among the answers are in the order of the messages.
LEMMA ChainOrders ==
  ASSUME NEW C, NEW S \in Seq(Msgs), NEW a \in Seq(Refs), NEW w, NEW x, NEW n \in Nat,
         Chain(C, S, a, w, x, n), NEW i \in 1 .. Len(a), NEW j \in 1 .. Len(a), i < j,
         a[i] \in C, a[j] \in C
  PROVE  \E k, l \in 1 .. Len(S) : k < l /\ S[k] = a[i] /\ S[l] = a[j]
  <1>1. PICK u \in Nat : Climbs(C, S, a, 0, u)
    BY DEF Chain
  <1>2. PICK N \in [0 .. Len(a) -> 0 .. Len(S)] :
          \A b, d \in 0 .. Len(a) : b < d =>
            N[b] <= N[d] /\ (a[d] \in C => N[b] < N[d] /\ S[N[d]] = a[d])
    BY <1>1 DEF Climbs
  <1>3. 0 \in 0 .. Len(a) /\ i \in 0 .. Len(a) /\ j \in 0 .. Len(a) /\ 0 < i /\ 0 < j
    OBVIOUS
  <1>4. N[0] < N[i] /\ S[N[i]] = a[i] /\ N[i] < N[j] /\ S[N[j]] = a[j]
    BY <1>2, <1>3
  <1>5. N[0] \in 0 .. Len(S) /\ N[i] \in 0 .. Len(S) /\ N[j] \in 0 .. Len(S) /\ Len(S) \in Nat
    BY <1>2, <1>3
  <1>6. N[i] \in 1 .. Len(S) /\ N[j] \in 1 .. Len(S)
    BY <1>4, <1>5
  <1> QED
    BY <1>4, <1>6

RefsOf(q) == [i \in 1 .. Len(q) |-> q[i].ref]

LEMMA RefsType ==
  ASSUME NEW q \in Seq(FrameType)
  PROVE  RefsOf(q) \in Seq(Refs) /\ Len(RefsOf(q)) = Len(q)
  <1>1. Len(q) \in Nat /\ \A i \in 1 .. Len(q) : q[i] \in FrameType
    OBVIOUS
  <1>2. \A f \in FrameType : f.ref \in Refs
    BY DEF FrameType, Refs
  <1> DEFINE n == Len(q)
             r == RefsOf(q)
  <1>3. r = [i \in 1 .. n |-> r[i]] /\ \A i \in 1 .. n : r[i] \in Refs
    BY <1>1, <1>2 DEF RefsOf
  <1>4. n \in Nat
    BY <1>1
  <1> HIDE DEF n, r
  <1>5. r \in Seq(Refs) /\ Len(r) = n
    BY <1>3, <1>4
  <1> QED
    BY <1>5 DEF n, r

LEMMA RefsAppend ==
  ASSUME NEW q \in Seq(FrameType), NEW f \in FrameType
  PROVE  RefsOf(Append(q, f)) = Append(RefsOf(q), f.ref)
  <1>1. f.ref \in Refs
    BY DEF FrameType, Refs
  <1>2. Append(q, f) \in Seq(FrameType) /\ Len(Append(q, f)) = Len(q) + 1 /\ Len(q) \in Nat
    OBVIOUS
  <1> DEFINE s == RefsOf(Append(q, f))
             t == Append(RefsOf(q), f.ref)
  <1>3. s \in Seq(Refs) /\ t \in Seq(Refs) /\ Len(s) = Len(q) + 1 /\ Len(t) = Len(q) + 1
    <2>1. s \in Seq(Refs) /\ Len(s) = Len(q) + 1
      BY <1>2, RefsType
    <2>2. RefsOf(q) \in Seq(Refs) /\ Len(RefsOf(q)) = Len(q)
      BY RefsType
    <2> QED
      BY <1>1, <2>1, <2>2
  <1>4. ASSUME NEW i \in 1 .. Len(q) + 1 PROVE s[i] = t[i]
    <2>1. s[i] = Append(q, f)[i].ref
      BY <1>2 DEF RefsOf
    <2>2. CASE i = Len(q) + 1
      BY <1>1, <1>2, <2>1, <2>2, RefsType
    <2>3. CASE i # Len(q) + 1
      <3>1. i \in 1 .. Len(q)
        BY <1>2, <2>3
      <3>2. t[i] = RefsOf(q)[i]
        BY <1>1, <3>1, RefsType
      <3> QED
        BY <2>1, <3>1, <3>2 DEF RefsOf
    <2> QED
      BY <2>2, <2>3
  <1> HIDE DEF s, t
  <1>5. s = t
    BY <1>3, <1>4, SeqEqual
  <1> QED
    BY <1>5 DEF s, t

LEMMA RefsHead ==
  ASSUME NEW q \in Seq(FrameType), q # <<>>
  PROVE  /\ RefsOf(q) # <<>> /\ Head(RefsOf(q)) = Head(q).ref
         /\ RefsOf(Tail(q)) = Tail(RefsOf(q))
  <1>1. Len(q) \in Nat \ {0} /\ Tail(q) \in Seq(FrameType) /\ Len(Tail(q)) = Len(q) - 1
    OBVIOUS
  <1>2. /\ RefsOf(q) \in Seq(Refs) /\ Len(RefsOf(q)) = Len(q)
        /\ RefsOf(Tail(q)) \in Seq(Refs) /\ Len(RefsOf(Tail(q))) = Len(q) - 1
    BY <1>1, RefsType
  <1>3. RefsOf(q) # <<>>
    BY <1>1, <1>2
  <1>4. Head(RefsOf(q)) = Head(q).ref
    BY <1>1, <1>2, <1>3 DEF RefsOf
  <1> DEFINE s == RefsOf(Tail(q))
             t == Tail(RefsOf(q))
  <1>5. t \in Seq(Refs) /\ Len(t) = Len(q) - 1
    BY <1>1, <1>2, <1>3
  <1>6. ASSUME NEW i \in 1 .. Len(q) - 1 PROVE s[i] = t[i]
    <2>1. s[i] = Tail(q)[i].ref
      BY <1>1 DEF RefsOf
    <2>2. Tail(q)[i] = q[i + 1] /\ i + 1 \in 1 .. Len(q)
      BY <1>1
    <2>3. t[i] = RefsOf(q)[i + 1]
      BY <1>1, <1>2, <1>3
    <2>4. RefsOf(q)[i + 1] = q[i + 1].ref
      BY <2>2 DEF RefsOf
    <2> QED
      BY <2>1, <2>2, <2>3, <2>4
  <1> HIDE DEF s, t
  <1>7. s = t
    BY <1>2, <1>5, <1>6, SeqEqual DEF s
  <1> QED
    BY <1>3, <1>4, <1>7 DEF s, t

\* The answer the reader has in hand.
Reply == IF reader.pc = "reply" THEN <<reader.frame.ref>> ELSE <<>>

\* How many messages the reader has taken.
Taken == Len(sent) - Len(inbox)

\* Each message is sent once; what is not read yet is the end of what was sent.
SentInv ==
  /\ \A i, j \in 1 .. Len(sent) : sent[i] = sent[j] => i = j
  /\ Len(inbox) <= Len(sent)
  /\ \A i \in 1 .. Len(inbox) : inbox[i] = sent[Taken + i]

EchoRefs == Echoes \cup {None}
AnswerRefs == Echoes \cup Direct \cup {None}

\* The queue names Inputs only.
SourceInv ==
  /\ RefsOf(out) \in Seq(EchoRefs)
  /\ RefsOf(wire) \in Seq(AnswerRefs)
  /\ client.answered \in Seq(Echoes \cup Direct)

\* The answers the client has, those on the wire and those still to be written
\* are in the order of the messages, for each way to answer.
ChainInv ==
  /\ Chain(Echoes, sent, client.answered, RefsOf(wire), RefsOf(out), Taken)
  /\ Chain(Direct, sent, client.answered, RefsOf(wire), Reply, Taken)

OrderInv == TypeOK /\ ReplyInv /\ SentInv /\ SourceInv /\ ChainInv

LEMMA Classes ==
  /\ Echoes \subseteq Msgs /\ Direct \subseteq Msgs /\ Echoes \cap Direct = {}
  /\ None \notin Echoes /\ None \notin Direct
  /\ AnswerRefs \subseteq Refs /\ None \in AnswerRefs /\ None \in EchoRefs
  /\ EchoRefs \subseteq AnswerRefs /\ EchoRefs \cap Direct = {} /\ Direct \subseteq AnswerRefs
  /\ Echoes \subseteq EchoRefs
  BY SceneAssumption DEF Echoes, Direct, Refs, AnswerRefs, EchoRefs

\* The types of what the chains are about.
LEMMA ChainTypes ==
  ASSUME OrderInv
  PROVE  /\ sent \in Seq(Msgs) /\ inbox \in Seq(Msgs) /\ Taken \in Nat /\ Taken <= Len(sent)
         /\ client.answered \in Seq(Refs) /\ client \in ClientType /\ Reply \in Seq(Refs)
         /\ wire \in Seq(FrameType) /\ out \in Seq(FrameType)
         /\ RefsOf(wire) \in Seq(Refs) /\ RefsOf(out) \in Seq(Refs)
         /\ Len(sent) \in Nat /\ Len(inbox) \in Nat
  <1>1. /\ sent \in Seq(Msgs) /\ inbox \in Seq(Msgs) /\ client \in ClientType
        /\ wire \in Seq(FrameType) /\ out \in Seq(FrameType)
    BY DEF OrderInv, TypeOK, ClientType
  <1>2. Len(sent) \in Nat /\ Len(inbox) \in Nat /\ Len(inbox) <= Len(sent)
    BY <1>1 DEF OrderInv, SentInv
  <1>3. Taken \in Nat /\ Taken <= Len(sent)
    BY <1>2 DEF Taken
  <1>4. client.answered \in Seq(Msgs)
    BY <1>1 DEF ClientType
  <1>5. client.answered \in Seq(Refs)
    BY <1>4 DEF Refs
  <1>6. Reply \in Seq(Refs)
    BY Classes DEF Reply, OrderInv, ReplyInv
  <1> QED
    BY <1>1, <1>2, <1>3, <1>5, <1>6, RefsType

LEMMA SeqParts ==
  ASSUME NEW T, NEW q \in Seq(T)
  PROVE  /\ q # <<>> => Head(q) \in T /\ Tail(q) \in Seq(T)
         /\ \A e \in T : Append(q, e) \in Seq(T)
  OBVIOUS

\* The frames on their way, after the queue's first frame is written.
LEMMA OrderWrite ==
  ASSUME OrderInv, out # <<>>, NEW w, NEW o, w = Append(wire, Head(out)), o = Tail(out),
         NEW n \in Nat, n <= Len(sent),
         Chain(Echoes, sent, client.answered, RefsOf(wire), RefsOf(out), n),
         Chain(Direct, sent, client.answered, RefsOf(wire), Reply, n)
  PROVE  /\ w \in Seq(FrameType) /\ o \in Seq(FrameType)
         /\ RefsOf(o) \in Seq(EchoRefs)
         /\ RefsOf(w) \in Seq(AnswerRefs)
         /\ Chain(Echoes, sent, client.answered, RefsOf(w), RefsOf(o), n)
         /\ Chain(Direct, sent, client.answered, RefsOf(w), Reply, n)
  <1>1. /\ sent \in Seq(Msgs) /\ client.answered \in Seq(Refs) /\ Reply \in Seq(Refs)
        /\ wire \in Seq(FrameType) /\ out \in Seq(FrameType)
        /\ RefsOf(wire) \in Seq(Refs) /\ RefsOf(out) \in Seq(Refs)
    BY ChainTypes
  <1>2. Head(out) \in FrameType /\ w \in Seq(FrameType) /\ o \in Seq(FrameType)
    BY <1>1
  <1>3. /\ RefsOf(out) # <<>> /\ Head(RefsOf(out)) = Head(out).ref
        /\ RefsOf(o) = Tail(RefsOf(out))
    BY <1>1, RefsHead
  <1>4. RefsOf(w) = Append(RefsOf(wire), Head(out).ref)
    BY <1>1, <1>2, RefsAppend
  <1>5. Chain(Echoes, sent, client.answered, RefsOf(w), RefsOf(o), n)
    BY <1>1, <1>3, <1>4, ChainWrite
  <1>6. RefsOf(out) \in Seq(EchoRefs) /\ RefsOf(wire) \in Seq(AnswerRefs)
    BY DEF OrderInv, SourceInv
  <1>7. Head(out).ref \in EchoRefs /\ RefsOf(o) \in Seq(EchoRefs)
    BY <1>3, <1>6, SeqParts
  <1>8. Head(out).ref \in Refs /\ Head(out).ref \notin Direct /\ Head(out).ref \in AnswerRefs
    BY <1>7, Classes
  <1>9. Chain(Direct, sent, client.answered, RefsOf(w), Reply, n)
    BY <1>1, <1>4, <1>8, ChainSkip
  <1>10. RefsOf(w) \in Seq(AnswerRefs)
    BY <1>4, <1>6, <1>8, SeqParts
  <1> QED
    BY <1>2, <1>5, <1>7, <1>9, <1>10

\* An emission whose Delta names m, when n messages have been read.
LEMMA OrderEmit ==
  ASSUME OrderInv, NEW o \in Scenes, NEW m \in EchoRefs, emitWithCause(o, m),
         UNCHANGED <<client, reader, sent>>,
         NEW n \in Nat, n <= Len(sent),
         Chain(Echoes, sent, client.answered, RefsOf(wire), RefsOf(out), n),
         Chain(Echoes, sent, client.answered, RefsOf(wire), Append(RefsOf(out), m), n),
         Chain(Direct, sent, client.answered, RefsOf(wire), Reply, n)
  PROVE  /\ SourceInv'
         /\ Chain(Echoes, sent, client.answered, RefsOf(wire'), RefsOf(out'), n)
         /\ Chain(Direct, sent, client.answered, RefsOf(wire'), Reply, n)
  <1> DEFINE d == Frame("delta", o, seq[o] + 1, m)
             f == Frame("snapshot", o, seq[o] + 1, None)
  <1>1. /\ sent \in Seq(Msgs) /\ client.answered \in Seq(Refs) /\ Reply \in Seq(Refs)
        /\ wire \in Seq(FrameType) /\ out \in Seq(FrameType) /\ Len(out) \in Nat
        /\ RefsOf(wire) \in Seq(Refs) /\ RefsOf(out) \in Seq(Refs)
    BY ChainTypes
  <1>2. m \in Msgs \cup {None} /\ TypeOK
    BY Classes DEF OrderInv, Refs
  <1>3. d \in FrameType /\ f \in FrameType
    BY <1>2, EmitTypes
  <1>4. d.ref = m /\ f.ref = None
    BY DEF Frame
  <1>5. /\ RefsOf(out) \in Seq(EchoRefs)
        /\ RefsOf(wire) \in Seq(AnswerRefs)
        /\ client.answered \in Seq(Echoes \cup Direct)
    BY DEF OrderInv, SourceInv
  <1>6. \/ UNCHANGED <<out, wire>>
        \/ out' = Append(out, d) /\ UNCHANGED wire
        \/ Len(out) = OutCap /\ wire' = Append(wire, Head(out)) /\ out' = Append(Tail(out), f)
    BY DEF emitWithCause
  <1> HIDE DEF d, f
  <1>7. CASE UNCHANGED <<out, wire>>
    BY <1>5, <1>7 DEF SourceInv
  <1>8. CASE out' = Append(out, d) /\ UNCHANGED wire
    <2>1. RefsOf(out') = Append(RefsOf(out), m)
      BY <1>1, <1>3, <1>4, <1>8, RefsAppend
    <2>2. RefsOf(out') \in Seq(EchoRefs)
      BY <1>5, <2>1
    <2> QED
      BY <1>5, <1>8, <2>1, <2>2 DEF SourceInv
  <1>9. CASE Len(out) = OutCap /\ wire' = Append(wire, Head(out)) /\ out' = Append(Tail(out), f)
    <2>1. out # <<>>
      BY <1>1, <1>9, OutCapAssumption
    <2> DEFINE q == Tail(out)
    <2>2. /\ wire' \in Seq(FrameType) /\ q \in Seq(FrameType)
          /\ RefsOf(q) \in Seq(EchoRefs)
          /\ RefsOf(wire') \in Seq(AnswerRefs)
          /\ Chain(Echoes, sent, client.answered, RefsOf(wire'), RefsOf(q), n)
          /\ Chain(Direct, sent, client.answered, RefsOf(wire'), Reply, n)
      BY <1>9, <2>1, OrderWrite
    <2> HIDE DEF q
    <2>3. RefsOf(out') = Append(RefsOf(q), None)
      BY <1>3, <1>4, <1>9, <2>2, RefsAppend DEF q
    <2>4. RefsOf(q) \in Seq(Refs) /\ RefsOf(wire') \in Seq(Refs) /\ None \in Refs /\ None \notin Echoes
      BY <2>2, RefsType, Classes
    <2>5. Chain(Echoes, sent, client.answered, RefsOf(wire'), RefsOf(out'), n)
      BY <1>1, <2>2, <2>3, <2>4, ChainSkip
    <2>6. RefsOf(out') \in Seq(EchoRefs)
      BY <2>2, <2>3, Classes
    <2> QED
      BY <1>5, <2>2, <2>5, <2>6 DEF SourceInv
  <1> QED
    BY <1>6, <1>7, <1>8, <1>9

\* Steps that leave the messages and the answers alone.
LEMMA OrderKept ==
  ASSUME OrderInv, UNCHANGED <<sent, inbox, client, wire, out>>, Reply' = Reply
  PROVE  SentInv' /\ SourceInv' /\ ChainInv'
  <1>1. Taken' = Taken
    BY DEF Taken
  <1>2. SentInv' /\ SourceInv'
    BY <1>1 DEF OrderInv, SentInv, SourceInv
  <1>3. ChainInv'
    BY <1>1 DEF OrderInv, ChainInv
  <1> QED
    BY <1>2, <1>3

\* The reader takes a message.
LEMMA OrderRead ==
  ASSUME OrderInv, inbox # <<>>, inbox' = Tail(inbox), UNCHANGED sent
  PROVE  /\ SentInv' /\ Taken' = Taken + 1 /\ Taken + 1 <= Len(sent) /\ Taken + 1 \in Nat
         /\ Head(inbox) = sent[Taken + 1] /\ Head(inbox) \in Msgs
  <1>1. /\ sent \in Seq(Msgs) /\ Taken \in Nat /\ Taken <= Len(sent)
        /\ Len(sent) \in Nat /\ Len(inbox) \in Nat /\ Taken = Len(sent) - Len(inbox)
    BY ChainTypes DEF Taken
  <1>2. TypeOK /\ SentInv
    BY DEF OrderInv
  <1>3. /\ Head(inbox) \in Msgs /\ Head(inbox) = inbox[1] /\ Len(inbox) # 0
        /\ Len(inbox') = Len(inbox) - 1
        /\ \A i \in 1 .. Len(inbox) - 1 : inbox'[i] = inbox[i + 1]
    BY <1>2, HeadOfInbox
  <1>4. Taken' = Taken + 1 /\ Taken + 1 <= Len(sent) /\ Taken + 1 \in Nat
    BY <1>1, <1>3 DEF Taken
  <1>5. Head(inbox) = sent[Taken + 1]
    BY <1>1, <1>2, <1>3 DEF SentInv
  <1>6. ASSUME NEW i \in 1 .. Len(inbox') PROVE inbox'[i] = sent'[Taken' + i]
    <2>1. /\ i + 1 \in 1 .. Len(inbox) /\ inbox'[i] = inbox[i + 1]
          /\ Taken' + i = Taken + (i + 1)
      BY <1>1, <1>3, <1>4
    <2> QED
      BY <1>2, <2>1 DEF SentInv
  <1>7. Len(inbox') <= Len(sent')
    BY <1>1, <1>2, <1>3 DEF SentInv
  <1>8. SentInv'
    BY <1>2, <1>6, <1>7 DEF SentInv
  <1> QED
    BY <1>3, <1>4, <1>5, <1>8

LEMMA OrderStep ==
  ASSUME OrderInv, Next
  PROVE  SentInv' /\ SourceInv' /\ ChainInv'
  <1> DEFINE Goal == SentInv' /\ SourceInv' /\ ChainInv'
  <1>0. /\ sent \in Seq(Msgs) /\ inbox \in Seq(Msgs) /\ Taken \in Nat /\ Taken <= Len(sent)
        /\ client.answered \in Seq(Refs) /\ client \in ClientType /\ Reply \in Seq(Refs)
        /\ wire \in Seq(FrameType) /\ out \in Seq(FrameType)
        /\ RefsOf(wire) \in Seq(Refs) /\ RefsOf(out) \in Seq(Refs)
        /\ Len(sent) \in Nat /\ Len(inbox) \in Nat
    BY ChainTypes
  <1>00. /\ Chain(Echoes, sent, client.answered, RefsOf(wire), RefsOf(out), Taken)
         /\ Chain(Direct, sent, client.answered, RefsOf(wire), Reply, Taken)
         /\ RefsOf(out) \in Seq(EchoRefs) /\ RefsOf(wire) \in Seq(AnswerRefs)
         /\ client.answered \in Seq(Echoes \cup Direct)
         /\ TypeOK /\ ReplyInv /\ SentInv
    BY DEF OrderInv, ChainInv, SourceInv
  <1>1. ASSUME NEW o \in Scenes, Emit(o) PROVE Goal
    <2>1. emitWithCause(o, None) /\ UNCHANGED <<sent, inbox, reader, client>>
      BY <1>1 DEF Emit
    <2>2. Chain(Echoes, sent, client.answered, RefsOf(wire), Append(RefsOf(out), None), Taken)
      BY <1>0, <1>00, ChainSkip, Classes
    <2>3. Taken' = Taken /\ Reply' = Reply
      BY <2>1 DEF Taken, Reply
    <2>4. /\ SourceInv'
          /\ Chain(Echoes, sent, client.answered, RefsOf(wire'), RefsOf(out'), Taken)
          /\ Chain(Direct, sent, client.answered, RefsOf(wire'), Reply, Taken)
      BY <1>0, <1>00, <2>1, <2>2, OrderEmit, Classes
    <2>5. ChainInv'
      BY <2>1, <2>3, <2>4 DEF ChainInv
    <2>6. SentInv'
      BY <1>00, <2>1, <2>3 DEF SentInv
    <2> QED
      BY <2>4, <2>5, <2>6
  <1>2. ASSUME migrateLive PROVE Goal
    <2>1. /\ Changed \in FrameType /\ Snap \in FrameType
          /\ UNCHANGED <<sent, inbox, reader, wire, client>>
          /\ \/ out' = Append(Append(out, Changed), Snap) \/ out' = Append(out, Changed) \/ out' = out
      BY <1>00, <1>2, MigrateFacts
    <2>2. Changed.ref = None /\ Snap.ref = None
      BY DEF Changed, Snap, Frame
    <2> DEFINE q == Append(out, Changed)
    <2>3. q \in Seq(FrameType) /\ RefsOf(q) = Append(RefsOf(out), None)
      BY <1>0, <2>1, <2>2, RefsAppend
    <2>4. RefsOf(q) \in Seq(Refs) /\ RefsOf(q) \in Seq(EchoRefs)
      BY <1>00, <2>3, RefsType, SeqParts, Classes
    <2>5. Chain(Echoes, sent, client.answered, RefsOf(wire), RefsOf(q), Taken)
      BY <1>0, <1>00, <2>3, ChainSkip, Classes
    <2> HIDE DEF q
    <2>6. RefsOf(Append(q, Snap)) = Append(RefsOf(q), None)
      BY <2>1, <2>2, <2>3, RefsAppend
    <2>7. RefsOf(Append(q, Snap)) \in Seq(EchoRefs)
      BY <2>4, <2>6, SeqParts, Classes
    <2>8. Chain(Echoes, sent, client.answered, RefsOf(wire), RefsOf(Append(q, Snap)), Taken)
      BY <1>0, <2>4, <2>5, <2>6, ChainSkip, Classes
    <2>9. out' = Append(q, Snap) \/ out' = q \/ out' = out
      BY <2>1 DEF q
    <2>10. /\ RefsOf(out') \in Seq(EchoRefs)
           /\ Chain(Echoes, sent, client.answered, RefsOf(wire), RefsOf(out'), Taken)
      BY <1>00, <2>4, <2>5, <2>7, <2>8, <2>9
    <2>11. Taken' = Taken /\ Reply' = Reply
      BY <2>1 DEF Taken, Reply
    <2>12. ChainInv' /\ SourceInv'
      BY <1>00, <2>1, <2>10, <2>11 DEF ChainInv, SourceInv
    <2>13. SentInv'
      BY <1>00, <2>1, <2>11 DEF SentInv
    <2> QED
      BY <2>12, <2>13
  <1>3. ASSUME readInput PROVE Goal
    <2>1. /\ inbox # <<>> /\ inbox' = Tail(inbox) /\ UNCHANGED <<sent, reader, client>>
          /\ emitWithCause(Captured, Head(inbox)) /\ Kind[Head(inbox)] = "input"
      BY <1>3 DEF readInput
    <2>2. /\ SentInv' /\ Taken' = Taken + 1 /\ Taken + 1 <= Len(sent) /\ Taken + 1 \in Nat
          /\ Head(inbox) = sent[Taken + 1] /\ Head(inbox) \in Msgs
      BY <2>1, OrderRead
    <2>3. Head(inbox) \in EchoRefs /\ Captured \in Scenes
      BY <2>1, <2>2 DEF Echoes, EchoRefs, Scenes
    <2>4. /\ Chain(Echoes, sent, client.answered, RefsOf(wire), Append(RefsOf(out), Head(inbox)), Taken + 1)
          /\ Chain(Echoes, sent, client.answered, RefsOf(wire), RefsOf(out), Taken + 1)
      BY <1>0, <1>00, <2>2, ChainTake
    <2>5. Chain(Direct, sent, client.answered, RefsOf(wire), Reply, Taken + 1)
      BY <1>0, <1>00, <2>2, ChainTake
    <2>6. /\ SourceInv'
          /\ Chain(Echoes, sent, client.answered, RefsOf(wire'), RefsOf(out'), Taken + 1)
          /\ Chain(Direct, sent, client.answered, RefsOf(wire'), Reply, Taken + 1)
      BY <2>1, <2>2, <2>3, <2>4, <2>5, OrderEmit
    <2>7. Reply' = Reply
      BY <2>1 DEF Reply
    <2>8. ChainInv'
      BY <2>1, <2>2, <2>6, <2>7 DEF ChainInv
    <2> QED
      BY <2>2, <2>6, <2>8
  <1>4. ASSUME readMessage PROVE Goal
    <2>1. /\ inbox # <<>> /\ inbox' = Tail(inbox) /\ UNCHANGED <<sent, out, wire, client>>
          /\ reader = Reading /\ reader' = Reaction(Head(inbox)) /\ Kind[Head(inbox)] # "input"
      BY <1>4 DEF readMessage, sceneVars
    <2>2. /\ SentInv' /\ Taken' = Taken + 1 /\ Taken + 1 <= Len(sent) /\ Taken + 1 \in Nat
          /\ Head(inbox) = sent[Taken + 1] /\ Head(inbox) \in Msgs
      BY <2>1, OrderRead
    <2>3. Reply = <<>>
      BY <2>1 DEF Reply, Reading
    <2>4. Reply' = <<>> \/ Reply' = <<Head(inbox)>>
      BY <1>00, <2>1, <2>2, ReactionTypes DEF Reply
    <2>5. Append(<<>>, Head(inbox)) = <<Head(inbox)>>
      OBVIOUS
    <2>6. /\ Chain(Direct, sent, client.answered, RefsOf(wire), Append(<<>>, Head(inbox)), Taken + 1)
          /\ Chain(Direct, sent, client.answered, RefsOf(wire), <<>>, Taken + 1)
      BY <1>0, <1>00, <2>2, <2>3, ChainTake
    <2>7. Chain(Echoes, sent, client.answered, RefsOf(wire), RefsOf(out), Taken + 1)
      BY <1>0, <1>00, <2>2, ChainTake
    <2>8. ChainInv'
      BY <2>1, <2>2, <2>4, <2>5, <2>6, <2>7 DEF ChainInv
    <2>9. SourceInv'
      BY <1>00, <2>1 DEF SourceInv
    <2> QED
      BY <2>2, <2>8, <2>9
  <1>5. ASSUME sendReply PROVE Goal
    <2> DEFINE r == reader.frame.ref
    <2>1. /\ reader.pc = "reply" /\ UNCHANGED <<sent, inbox, out, client>>
          /\ reader' \in {Reading, Cancelled}
          /\ wire' = IF open THEN Append(wire, reader.frame) ELSE wire
      BY <1>5 DEF sendReply, sceneVars
    <2>2. reader.frame \in FrameType /\ r \in Direct
      BY <1>00, <2>1 DEF ReplyInv
    <2>3. r \in Refs /\ r \notin Echoes /\ r \in AnswerRefs
      BY <2>2, Classes
    <2>4. Reply = <<r>> /\ Reply' = <<>>
      BY <2>1 DEF Reply, Reading, Cancelled
    <2> HIDE DEF r
    <2>5. <<r>> # <<>> /\ Head(<<r>>) = r /\ Tail(<<r>>) = <<>> /\ <<r>> \in Seq(Refs)
      BY <2>3
    <2>6. /\ Chain(Direct, sent, client.answered, Append(RefsOf(wire), r), <<>>, Taken)
          /\ Chain(Direct, sent, client.answered, RefsOf(wire), <<>>, Taken)
      BY <1>0, <1>00, <2>4, <2>5, ChainWrite
    <2>7. Chain(Echoes, sent, client.answered, Append(RefsOf(wire), r), RefsOf(out), Taken)
      BY <1>0, <1>00, <2>3, ChainSkip
    <2>8. RefsOf(Append(wire, reader.frame)) = Append(RefsOf(wire), r)
      BY <1>0, <2>2, RefsAppend DEF r
    <2>9. Append(RefsOf(wire), r) \in Seq(AnswerRefs)
      BY <1>00, <2>3, SeqParts
    <2>10. RefsOf(wire') = Append(RefsOf(wire), r) \/ wire' = wire
      BY <2>1, <2>8
    <2>11. Taken' = Taken
      BY <2>1 DEF Taken
    <2>12. ChainInv'
      BY <1>00, <2>1, <2>4, <2>6, <2>7, <2>10, <2>11 DEF ChainInv
    <2>13. SourceInv'
      BY <1>00, <2>1, <2>9, <2>10 DEF SourceInv
    <2>14. SentInv'
      BY <1>00, <2>1, <2>11 DEF SentInv
    <2> QED
      BY <2>12, <2>13, <2>14
  <1>6. ASSUME \/ NewScene \/ readFails \/ finish \/ writerEnds \/ breakConn PROVE Goal
    <2>1. UNCHANGED <<sent, inbox, client, wire, out>>
      BY <1>6 DEF NewScene, readFails, finish, writerEnds, breakConn
    <2>2. Reply' = Reply
      BY <1>6 DEF NewScene, readFails, finish, writerEnds, breakConn, Reply, Reading, Cancelled, Ended
    <2> QED
      BY <2>1, <2>2, OrderKept
  <1>7. ASSUME writeFrame PROVE Goal
    <2>1. /\ out # <<>> /\ wire' = Append(wire, Head(out)) /\ out' = Tail(out)
          /\ UNCHANGED <<sent, inbox, reader, client>>
      BY <1>7 DEF writeFrame
    <2>2. /\ RefsOf(out') \in Seq(EchoRefs) /\ RefsOf(wire') \in Seq(AnswerRefs)
          /\ Chain(Echoes, sent, client.answered, RefsOf(wire'), RefsOf(out'), Taken)
          /\ Chain(Direct, sent, client.answered, RefsOf(wire'), Reply, Taken)
      BY <1>0, <1>00, <2>1, OrderWrite
    <2>3. Taken' = Taken /\ Reply' = Reply
      BY <2>1 DEF Taken, Reply
    <2>4. ChainInv' /\ SourceInv'
      BY <1>00, <2>1, <2>2, <2>3 DEF ChainInv, SourceInv
    <2>5. SentInv'
      BY <1>00, <2>1, <2>3 DEF SentInv
    <2> QED
      BY <2>4, <2>5
  <1>8. ASSUME writePing PROVE Goal
    <2> DEFINE f == Frame("ping", Captured, 0, None)
    <2>1. wire' = Append(wire, f) /\ UNCHANGED <<sent, inbox, reader, out, client>>
      BY <1>8 DEF writePing
    <2>2. f \in FrameType /\ f.ref = None
      BY FrameTypes DEF Scenes
    <2> HIDE DEF f
    <2>3. RefsOf(wire') = Append(RefsOf(wire), None)
      BY <1>0, <2>1, <2>2, RefsAppend
    <2>4. RefsOf(wire') \in Seq(AnswerRefs)
      BY <1>00, <2>3, SeqParts, Classes
    <2>5. /\ Chain(Echoes, sent, client.answered, RefsOf(wire'), RefsOf(out), Taken)
          /\ Chain(Direct, sent, client.answered, RefsOf(wire'), Reply, Taken)
      BY <1>0, <1>00, <2>3, ChainSkip, Classes
    <2>6. Taken' = Taken /\ Reply' = Reply
      BY <2>1 DEF Taken, Reply
    <2>7. ChainInv' /\ SourceInv'
      BY <1>00, <2>1, <2>4, <2>5, <2>6 DEF ChainInv, SourceInv
    <2>8. SentInv'
      BY <1>00, <2>1, <2>6 DEF SentInv
    <2> QED
      BY <2>7, <2>8
  <1>9. ASSUME NEW m \in course.msgs, send(m) PROVE Goal
    <2>1. /\ sent' = Append(sent, m) /\ inbox' = Append(inbox, m) /\ m \notin Elements(sent)
          /\ UNCHANGED <<reader, out, wire, client>>
      BY <1>9 DEF send
    <2>2. m \in Msgs
      BY <1>00, SessionsAssumption DEF TypeOK
    <2>3. /\ Len(sent') = Len(sent) + 1 /\ sent'[Len(sent) + 1] = m
          /\ \A i \in 1 .. Len(sent) : sent'[i] = sent[i]
      BY <1>0, <2>1, <2>2
    <2>4. /\ Len(inbox') = Len(inbox) + 1 /\ inbox'[Len(inbox) + 1] = m
          /\ \A i \in 1 .. Len(inbox) : inbox'[i] = inbox[i]
      BY <1>0, <2>1, <2>2
    <2>5. Taken' = Taken /\ Reply' = Reply /\ Taken = Len(sent) - Len(inbox)
      BY <1>0, <2>1, <2>3, <2>4 DEF Taken, Reply
    <2>6. /\ Chain(Echoes, sent', client.answered, RefsOf(wire), RefsOf(out), Taken)
          /\ Chain(Direct, sent', client.answered, RefsOf(wire), Reply, Taken)
      BY <1>0, <1>00, <2>1, <2>2, ChainSend
    <2>7. ChainInv' /\ SourceInv'
      BY <1>00, <2>1, <2>5, <2>6 DEF ChainInv, SourceInv
    <2>8. ASSUME NEW i \in 1 .. Len(sent'), NEW j \in 1 .. Len(sent'), sent'[i] = sent'[j] PROVE i = j
      <3>1. \A k \in 1 .. Len(sent) : sent[k] # m
        BY <2>1 DEF Elements
      <3>2. \A k \in 1 .. Len(sent') : k \in 1 .. Len(sent) \/ k = Len(sent) + 1
        BY <1>0, <2>3
      <3>3. \A k, l \in 1 .. Len(sent) : sent[k] = sent[l] => k = l
        BY <1>00 DEF SentInv
      <3>4. CASE i \in 1 .. Len(sent) /\ j \in 1 .. Len(sent)
        <4>1. sent'[i] = sent[i] /\ sent'[j] = sent[j]
          BY <2>3, <3>4
        <4> QED
          BY <2>8, <3>3, <3>4, <4>1
      <3>5. CASE i \in 1 .. Len(sent) /\ j = Len(sent) + 1
        <4>1. sent'[i] = sent[i] /\ sent'[j] = m
          BY <2>3, <3>5
        <4> QED
          BY <2>8, <3>1, <3>5, <4>1
      <3>6. CASE j \in 1 .. Len(sent) /\ i = Len(sent) + 1
        <4>1. sent'[j] = sent[j] /\ sent'[i] = m
          BY <2>3, <3>6
        <4> QED
          BY <2>8, <3>1, <3>6, <4>1
      <3> QED
        BY <3>2, <3>4, <3>5, <3>6
    <2>9. ASSUME NEW i \in 1 .. Len(inbox') PROVE inbox'[i] = sent'[Taken' + i]
      <3>1. CASE i = Len(inbox) + 1
        <4>1. Taken' + i = Len(sent) + 1
          BY <1>0, <2>5, <3>1
        <4> QED
          BY <2>3, <2>4, <3>1, <4>1
      <3>2. CASE i # Len(inbox) + 1
        <4>1. i \in 1 .. Len(inbox) /\ Taken + i \in 1 .. Len(sent)
          BY <1>0, <2>4, <2>5, <3>2
        <4> QED
          BY <1>00, <2>3, <2>4, <2>5, <4>1 DEF SentInv
      <3> QED
        BY <3>1, <3>2
    <2>10. Len(inbox') <= Len(sent')
      BY <1>0, <1>00, <2>3, <2>4 DEF SentInv
    <2>11. SentInv'
      BY <2>8, <2>9, <2>10 DEF SentInv
    <2> QED
      BY <2>7, <2>11
  <1>10. ASSUME receive PROVE Goal
    <2> DEFINE h == Head(wire).ref
    <2>1. /\ wire # <<>> /\ wire' = Tail(wire) /\ UNCHANGED <<sent, inbox, reader, out>>
          /\ \/ client'.answered = client.answered
             \/ h # None /\ client'.answered = Append(client.answered, h)
      BY <1>00, <1>10, ReceiveFacts
    <2>2. RefsOf(wire) # <<>> /\ Head(RefsOf(wire)) = h /\ RefsOf(wire') = Tail(RefsOf(wire))
      BY <1>0, <2>1, RefsHead
    <2> HIDE DEF h
    <2>3. h \in AnswerRefs /\ RefsOf(wire') \in Seq(AnswerRefs)
      BY <1>00, <2>2, SeqParts
    <2>4. h # None => Append(client.answered, h) \in Seq(Echoes \cup Direct)
      <3>1. h # None => h \in Echoes \cup Direct
        BY <2>3 DEF AnswerRefs
      <3> QED
        BY <1>00, <3>1, SeqParts
    <2>5. /\ Chain(Echoes, sent, client.answered, RefsOf(wire'), RefsOf(out), Taken)
          /\ Chain(Echoes, sent, Append(client.answered, h), RefsOf(wire'), RefsOf(out), Taken)
      BY <1>0, <1>00, <2>2, ChainReceive
    <2>6. /\ Chain(Direct, sent, client.answered, RefsOf(wire'), Reply, Taken)
          /\ Chain(Direct, sent, Append(client.answered, h), RefsOf(wire'), Reply, Taken)
      BY <1>0, <1>00, <2>2, ChainReceive
    <2>7. Taken' = Taken /\ Reply' = Reply
      BY <2>1 DEF Taken, Reply
    <2>8. ChainInv'
      BY <2>1, <2>5, <2>6, <2>7 DEF ChainInv
    <2>9. SourceInv'
      BY <1>00, <2>1, <2>3, <2>4 DEF SourceInv
    <2>10. SentInv'
      BY <1>00, <2>1, <2>7 DEF SentInv
    <2> QED
      BY <2>8, <2>9, <2>10
  <1> HIDE DEF Goal
  <1>11. Goal
    BY <1>1, <1>2, <1>3, <1>4, <1>5, <1>6, <1>7, <1>8, <1>9, <1>10 DEF Next, ReaderStep, WriterStep
  <1> QED
    BY <1>11 DEF Goal

\* The chains are what the client sees of the order.
LEMMA OrderShows ==
  OrderInv => AnswersInOrder
  <1> SUFFICES ASSUME OrderInv, NEW i \in 1 .. Len(client.answered), NEW j \in 1 .. Len(client.answered),
                      i < j
               PROVE  /\ client.answered[i] # client.answered[j]
                      /\ \A C \in {Echoes, Direct} :
                           client.answered[i] \in C /\ client.answered[j] \in C =>
                             \E k, l \in 1 .. Len(sent) :
                               k < l /\ sent[k] = client.answered[i] /\ sent[l] = client.answered[j]
    BY DEF AnswersInOrder
  <1>1. /\ sent \in Seq(Msgs) /\ client.answered \in Seq(Refs) /\ Taken \in Nat
    BY ChainTypes
  <1> DEFINE Ordered == \E k, l \in 1 .. Len(sent) :
                          k < l /\ sent[k] = client.answered[i] /\ sent[l] = client.answered[j]
  <1>2. ASSUME client.answered[i] \in Echoes, client.answered[j] \in Echoes PROVE Ordered
    BY <1>1, <1>2, ChainOrders DEF OrderInv, ChainInv
  <1>3. ASSUME client.answered[i] \in Direct, client.answered[j] \in Direct PROVE Ordered
    BY <1>1, <1>3, ChainOrders DEF OrderInv, ChainInv
  <1>4. client.answered[i] \in Echoes \cup Direct /\ client.answered[j] \in Echoes \cup Direct
    BY DEF OrderInv, SourceInv
  <1>5. Ordered => client.answered[i] # client.answered[j]
    <2> SUFFICES ASSUME Ordered, client.answered[i] = client.answered[j] PROVE FALSE
      OBVIOUS
    <2>1. PICK k \in 1 .. Len(sent), l \in 1 .. Len(sent) :
            k < l /\ sent[k] = client.answered[i] /\ sent[l] = client.answered[j]
      OBVIOUS
    <2>2. k = l
      BY <2>1 DEF OrderInv, SentInv
    <2> QED
      BY <2>1, <2>2
  <1> HIDE DEF Ordered
  <1>6. client.answered[i] # client.answered[j]
    BY <1>2, <1>3, <1>4, <1>5, Classes
  <1> QED
    BY <1>2, <1>3, <1>6 DEF Ordered

\* The client can match answers to its messages by order, whatever the goroutines
\* do: each message is answered at most once, and echoes and direct answers each
\* come in the order in which the messages were sent.
THEOREM AnswersKeepOrder == Spec => []AnswersInOrder
  <1>1. Init => OrderInv
    <2> SUFFICES ASSUME Init PROVE OrderInv
      OBVIOUS
    <2>1. TypeOK
      BY TypeInit
    <2>2. ReplyInv /\ Reply = <<>> /\ Taken = 0
      BY DEF Init, ReplyInv, Reading, Reply, Taken
    <2>3. SentInv
      BY <2>2 DEF SentInv, Init
    <2>4. RefsOf(<<>>) = <<>>
      BY DEF RefsOf
    <2>5. SourceInv
      <3>1. out = <<>> /\ wire = <<>> /\ client.answered = <<>>
        BY DEF Init
      <3>2. \A T : <<>> \in Seq(T)
        OBVIOUS
      <3> QED
        BY <2>4, <3>1, <3>2 DEF SourceInv
    <2>6. \A C : Climbs(C, <<>>, <<>>, 0, 0)
      BY ClimbsNothing
    <2>7. ChainInv
      BY <2>2, <2>4, <2>6 DEF ChainInv, Chain, Init
    <2> QED
      BY <2>1, <2>2, <2>3, <2>5, <2>7 DEF OrderInv
  <1>2. OrderInv /\ [Next]_vars => OrderInv'
    <2> SUFFICES ASSUME OrderInv, [Next]_vars PROVE OrderInv'
      OBVIOUS
    <2>1. TypeOK'
      BY TypeStep DEF OrderInv
    <2>2. CASE Next
      BY <2>1, <2>2, ReplyStep, OrderStep DEF OrderInv
    <2>3. CASE UNCHANGED vars
      <3>1. ReplyInv' /\ Reply' = Reply
        BY <2>3 DEF OrderInv, ReplyInv, Reply, vars
      <3>2. SentInv' /\ SourceInv' /\ ChainInv'
        BY <2>3, <3>1, OrderKept DEF vars
      <3> QED
        BY <2>1, <3>1, <3>2 DEF OrderInv
    <2> QED
      BY <2>2, <2>3
  <1>3. OrderInv => AnswersInOrder
    BY OrderShows
  <1> QED
    BY <1>1, <1>2, <1>3, PTL DEF Spec
=============================================================================
