------------------------------ MODULE Session ------------------------------
(***************************************************************************)
(* One subscribed connection: runConnection and writerLoop of              *)
(* server/ws_handler.go, from the end of the first frames to the end of the*)
(* handler, with the client at the other end.                              *)
(*                                                                         *)
(* Two goroutines write to the same connection.  The writer sends what the *)
(* subscription's queue holds; the reader answers the client's messages    *)
(* (pong, error) directly, past the queue.  The reader works on the scene  *)
(* the handler captured when it subscribed; the subscription itself may    *)
(* have moved on (`home`).  The reader ends the session: it cancels the    *)
(* context, waits for the writer and returns.                              *)
(*                                                                         *)
(* Whether an Input is acceptable is decided by applyInput (module Input); *)
(* here a message is an accepted or a refused one.  A switch of the live   *)
(* scene and the replacement of a scene are one step each (LiveServer has  *)
(* their phases).                                                          *)
(***************************************************************************)
EXTENDS Naturals, Sequences, FiniteSets

CONSTANTS
  Msgs,          \* the messages a client may send, each once
  Kind,          \* Kind[m]: what message m is
  Captured,      \* the scene the handler subscribed to
  Other,         \* the scene the live endpoint may move to
  Sessions,      \* the courses a session may take
  TracksErrors,  \* whether the client passes the seq of Error frames to its tracker
  OutCap,        \* capacity of subscription.out
  None

Scenes == {Captured, Other}
Kinds == {"input", "refused", "ping", "pong", "unsubscribe", "subscribe", "garbage"}

ASSUME KindAssumption == IsFiniteSet(Msgs) /\ Kind \in [Msgs -> Kinds]
ASSUME SceneAssumption == Captured # Other /\ None \notin Scenes /\ None \notin Msgs
ASSUME TracksAssumption == TracksErrors \in BOOLEAN
ASSUME OutCapAssumption == OutCap \in Nat /\ OutCap >= 2

\* What may happen in a session: the client's messages, whether the live endpoint
\* switches and whether NewScene replaces the scene; bounds on the scenes'
\* counters and on the server's own pings.
ASSUME SessionsAssumption ==
  Sessions \subseteq [msgs : SUBSET Msgs, switches : BOOLEAN, replaces : BOOLEAN,
                     maxSeq : Nat \ {0}, maxPings : Nat]

VARIABLES
  course,    \* the course of this session
  seq,       \* Scene.seq of each scene
  home,      \* the scene the subscription is registered with
  out,       \* subscription.out
  closed,    \* subscription.closed
  stale,     \* subscription.stale
  sent,      \* the messages the client has sent, in order
  inbox,     \* sent and not read yet
  reader,    \* the reader loop
  writer,    \* the writer goroutine: running, or its result is in writerErr
  wire,      \* frames written and not received yet
  open,      \* the connection
  pings,     \* pings the writer has sent
  client     \* the scene it shows, its tracker, what its state is up to, the answers it got

vars == <<course, seq, home, out, closed, stale, sent, inbox, reader, writer, wire, open, pings, client>>
sceneVars == <<seq, home, closed, stale>>

Elements(q) == {q[i] : i \in 1 .. Len(q)}

Frame(t, o, n, m) == [type |-> t, scene |-> o, seq |-> n, ref |-> m]

FrameType ==
  [type : {"delta", "snapshot", "changed", "error", "pong", "ping"},
   scene : Scenes, seq : Nat, ref : Msgs \cup {None}]

Reading == [pc |-> "read"]
Cancelled == [pc |-> "cancel"]
Ended == [pc |-> "ended"]

\* The shape of the state; a queue never outgrows its channel.
TypeOK ==
  /\ course \in Sessions
  /\ seq \in [Scenes -> 1 .. course.maxSeq]
  /\ home \in Scenes \cup {None}
  /\ out \in Seq(FrameType) /\ Len(out) <= OutCap
  /\ closed \in BOOLEAN /\ stale \in BOOLEAN
  /\ sent \in Seq(Msgs) /\ inbox \in Seq(Msgs)
  /\ \/ reader \in {Reading, Cancelled, Ended}
     \/ reader \in [pc : {"reply"}, frame : FrameType, next : {"read", "cancel"}]
  /\ writer \in {"run", "done"}
  /\ wire \in Seq(FrameType)
  /\ open \in BOOLEAN
  /\ pings \in 0 .. course.maxPings
  /\ client \in [scene : Scenes, last : Nat, have : Nat, answered : Seq(Msgs)]

\* The first Snapshot is with the client, at the scene's number.
Init ==
  /\ course \in Sessions
  /\ seq = [o \in Scenes |-> 1]
  /\ home = Captured
  /\ out = <<>>
  /\ closed = FALSE /\ stale = FALSE
  /\ sent = <<>> /\ inbox = <<>>
  /\ reader = Reading
  /\ writer = "run"
  /\ wire = <<>>
  /\ open = TRUE
  /\ pings = 0
  /\ client = [scene |-> Captured, last |-> 1, have |-> 1, answered |-> <<>>]

-----------------------------------------------------------------------------
(* The scenes. *)

\* Mutant: a full queue silently loses the Delta.
emitWithCause_Drops(o, m) ==
  LET n == seq[o] + 1
  IN  /\ seq[o] < course.maxSeq
      /\ seq' = [seq EXCEPT ![o] = n]
      /\ out' = IF home = o /\ Len(out) < OutCap THEN Append(out, Frame("delta", o, n, m)) ELSE out
      /\ UNCHANGED <<home, closed, stale, wire>>

\* emitWithCause on scene o with provenance m, seen from this subscription: a
\* Delta if there is room; else a Snapshot, which carries no cause, if the
\* writer frees a slot in time; else the stale mark.
emitWithCause(o, m) ==
  LET n == seq[o] + 1
  IN  /\ seq[o] < course.maxSeq
      /\ seq' = [seq EXCEPT ![o] = n]
      /\ \/ /\ home # o
            /\ UNCHANGED <<out, stale, wire>>
         \/ /\ home = o /\ Len(out) < OutCap
            /\ out' = Append(out, Frame("delta", o, n, m))
            /\ UNCHANGED <<stale, wire>>
         \/ /\ home = o /\ Len(out) = OutCap
            /\ writer = "run" /\ reader # Cancelled /\ open
            /\ wire' = Append(wire, Head(out))
            /\ out' = Append(Tail(out), Frame("snapshot", o, n, None))
            /\ UNCHANGED stale
         \/ /\ home = o /\ Len(out) = OutCap
            /\ stale' = TRUE
            /\ UNCHANGED <<out, wire>>
      /\ UNCHANGED <<home, closed>>

\* The numbers kept for the Inputs that are still to come.
Reserved == Cardinality({m \in course.msgs : Kind[m] = "input" /\ m \notin Elements(sent)})
              + Cardinality({i \in 1 .. Len(inbox) : Kind[inbox[i]] = "input"})

\* An adapter or another client emits on o.
Emit(o) ==
  /\ seq[o] + Reserved < course.maxSeq
  /\ emitWithCause(o, None)
  /\ UNCHANGED <<sent, inbox, reader, writer, open, pings, client>>

\* migrateLive to the other scene, without its phases.
migrateLive ==
  /\ course.switches
  /\ home = Captured
  /\ seq[Captured] + Reserved < course.maxSeq
  /\ seq' = [seq EXCEPT ![Captured] = @ + 1]
  /\ LET changed == Frame("changed", Other, seq'[Captured], None)
         snap == Frame("snapshot", Other, seq[Other], None)
     IN  IF Len(out) + 2 <= OutCap
           THEN out' = out \o <<changed, snap>> /\ home' = Other /\ UNCHANGED stale
           ELSE /\ out' = IF Len(out) < OutCap THEN Append(out, changed) ELSE out
                /\ home' = None
                /\ stale' = TRUE
  /\ UNCHANGED <<closed, sent, inbox, reader, writer, wire, open, pings, client>>

\* NewScene replaces the scene: the subscription is closed.
NewScene ==
  /\ course.replaces
  /\ home # None
  /\ home' = None
  /\ closed' = TRUE
  /\ UNCHANGED <<seq, out, stale, sent, inbox, reader, writer, wire, open, pings, client>>

-----------------------------------------------------------------------------
(* The reader. *)

\* An Error frame at the captured scene's current number, then on or out.
Refuse(m, next) ==
  [pc |-> "reply", next |-> next, frame |-> Frame("error", Captured, seq[Captured], m)]

\* Mutant: each Input is handled by a goroutine of its own.
readInput_Concurrent ==
  /\ reader = Reading
  /\ \E i \in 1 .. Len(inbox) :
       /\ Kind[inbox[i]] = "input"
       /\ emitWithCause(Captured, inbox[i])
       /\ inbox' = SubSeq(inbox, 1, i - 1) \o SubSeq(inbox, i + 1, Len(inbox))
  /\ UNCHANGED <<sent, reader, writer, open, pings, client>>

\* An acceptable Input: applyInput on the captured scene, whose Delta names
\* the message as its cause.
readInput ==
  /\ reader = Reading
  /\ inbox # <<>>
  /\ Kind[Head(inbox)] = "input"
  /\ emitWithCause(Captured, Head(inbox))
  /\ inbox' = Tail(inbox)
  /\ UNCHANGED <<sent, reader, writer, open, pings, client>>

\* What the reader does with any other message.
Reaction(m) ==
  CASE Kind[m] = "refused" -> Refuse(m, "read")
    [] Kind[m] = "ping" -> [pc |-> "reply", next |-> "read", frame |-> Frame("pong", Captured, 0, m)]
    [] Kind[m] = "pong" -> Reading
    [] Kind[m] = "unsubscribe" -> Cancelled
    [] Kind[m] \in {"subscribe", "garbage"} -> Refuse(m, "cancel")

\* Mutant: the Pong does not echo the nonce.
readMessage_NoNonce ==
  /\ reader = Reading
  /\ inbox # <<>>
  /\ Kind[Head(inbox)] # "input"
  /\ LET r == Reaction(Head(inbox))
     IN  reader' = IF r.pc = "reply" /\ r.frame.type = "pong"
                     THEN [r EXCEPT !.frame = [@ EXCEPT !.ref = None]] ELSE r
  /\ inbox' = Tail(inbox)
  /\ UNCHANGED <<sceneVars, out, sent, writer, wire, open, pings, client>>

\* Decode and dispatch; the answer is written in a step of its own, since its
\* number is read first and the writer keeps writing.
readMessage ==
  /\ reader = Reading
  /\ inbox # <<>>
  /\ Kind[Head(inbox)] # "input"
  /\ reader' = Reaction(Head(inbox))
  /\ inbox' = Tail(inbox)
  /\ UNCHANGED <<sceneVars, out, sent, writer, wire, open, pings, client>>

\* The answer goes to the connection.  A Pong that cannot be written ends the
\* session; a failed Error does not (the next read will).
sendReply ==
  /\ reader.pc = "reply"
  /\ wire' = IF open THEN Append(wire, reader.frame) ELSE wire
  /\ reader' = IF reader.next = "cancel" \/ (~ open /\ reader.frame.type = "pong")
                 THEN Cancelled ELSE Reading
  /\ UNCHANGED <<sceneVars, out, sent, inbox, writer, open, pings, client>>

\* The connection is gone: Read fails.
readFails ==
  /\ reader = Reading
  /\ ~ open
  /\ reader' = Cancelled
  /\ UNCHANGED <<sceneVars, out, sent, inbox, writer, wire, open, pings, client>>

\* `<-writerErr`, then the deferred detach and the close of the connection.
finish ==
  /\ reader = Cancelled
  /\ writer = "done"
  /\ reader' = Ended
  /\ open' = FALSE
  /\ home' = None
  /\ closed' = (closed \/ home # None)
  /\ UNCHANGED <<seq, out, stale, sent, inbox, writer, wire, pings, client>>

-----------------------------------------------------------------------------
(* The writer. *)

\* One queued frame to the connection.
writeFrame ==
  /\ writer = "run" /\ reader # Cancelled /\ open
  /\ out # <<>>
  /\ wire' = Append(wire, Head(out))
  /\ out' = Tail(out)
  /\ UNCHANGED <<sceneVars, sent, inbox, reader, writer, open, pings, client>>

\* The ping timer.
writePing ==
  /\ writer = "run" /\ reader # Cancelled /\ open
  /\ pings < course.maxPings
  /\ wire' = Append(wire, Frame("ping", Captured, 0, None))
  /\ pings' = pings + 1
  /\ UNCHANGED <<sceneVars, out, sent, inbox, reader, writer, open, client>>

\* Mutant: the writer does not look at the context.
writerEnds_IgnoresContext ==
  /\ writer = "run"
  /\ ~ open \/ (closed /\ out = <<>>)
  /\ writer' = "done"
  /\ UNCHANGED <<sceneVars, out, sent, inbox, reader, wire, open, pings, client>>

\* The writer returns: the context is cancelled, a write failed, or the
\* closed channel is drained.  writerErr holds one result, so nobody has to be
\* waiting for it.
writerEnds ==
  /\ writer = "run"
  /\ reader = Cancelled \/ ~ open \/ (closed /\ out = <<>>)
  /\ writer' = "done"
  /\ UNCHANGED <<sceneVars, out, sent, inbox, reader, wire, open, pings, client>>

-----------------------------------------------------------------------------
(* The client. *)

send(m) ==
  /\ open
  /\ m \notin Elements(sent)
  /\ sent' = Append(sent, m)
  /\ inbox' = Append(inbox, m)
  /\ UNCHANGED <<sceneVars, out, reader, writer, wire, open, pings, client>>

\* The client notes which message of its own the frame answers.
Answered(f) == [client EXCEPT !.answered = IF f.ref = None THEN @ ELSE Append(@, f.ref)]

\* The client takes a frame.  Snapshot: ObserveSnapshot.  Delta and
\* SceneChanged, and Error if it tracks them: ObserveServer, which accepts the
\* successor, skips an old number and reports a gap, on which it hangs up.
receive ==
  LET f == Head(wire)
      tracked == f.type \in {"delta", "changed"} \/ (f.type = "error" /\ TracksErrors)
  IN  /\ wire # <<>>
      /\ open
      /\ wire' = Tail(wire)
      /\ \/ /\ f.type = "snapshot"
            /\ client' = [client EXCEPT !.scene = f.scene, !.last = f.seq, !.have = f.seq]
            /\ UNCHANGED open
         \/ /\ tracked /\ f.seq = client.last + 1
            /\ client' = [Answered(f) EXCEPT !.last = f.seq,
                            !.scene = IF f.type = "error" THEN @ ELSE f.scene,
                            !.have = IF f.type = "delta" THEN f.seq ELSE @]
            /\ UNCHANGED open
         \/ /\ tracked /\ f.seq <= client.last
            /\ client' = IF f.type = "error" THEN Answered(f) ELSE client
            /\ UNCHANGED open
         \/ /\ tracked /\ f.seq > client.last + 1
            /\ open' = FALSE
            /\ UNCHANGED client
         \/ /\ ~ tracked /\ f.type # "snapshot"
            /\ client' = Answered(f)
            /\ UNCHANGED open
      /\ UNCHANGED <<sceneVars, out, sent, inbox, reader, writer, pings>>

\* The connection breaks or the client leaves without a word.
breakConn ==
  /\ open
  /\ open' = FALSE
  /\ UNCHANGED <<sceneVars, out, sent, inbox, reader, writer, wire, pings, client>>

-----------------------------------------------------------------------------

ReaderStep == readInput \/ readMessage \/ sendReply \/ readFails \/ finish

WriterStep == writeFrame \/ writePing \/ writerEnds

Next ==
  /\ \/ \E o \in Scenes : Emit(o)
     \/ migrateLive
     \/ NewScene
     \/ ReaderStep
     \/ WriterStep
     \/ \E m \in course.msgs : send(m)
     \/ receive
     \/ breakConn
  /\ UNCHANGED course

Spec == Init /\ [][Next]_vars

\* Both goroutines run, writes end (their timeout is 5 seconds) and the
\* network delivers while it is up.
Fairness ==
  /\ WF_vars(ReaderStep /\ UNCHANGED course)
  /\ WF_vars(WriterStep /\ UNCHANGED course)
  /\ WF_vars(receive /\ UNCHANGED course)

FairSpec == Spec /\ Fairness

-----------------------------------------------------------------------------
(* Properties. *)

\* Nothing is under way and the subscription is registered.
Settled ==
  /\ open /\ home # None /\ ~ stale
  /\ reader = Reading
  /\ inbox = <<>> /\ out = <<>> /\ wire = <<>>

\* The client shows the scene its subscription is on and has every emission of
\* it, however the answers of the reader and the frames of the writer mixed.
ClientCurrent ==
  Settled => client.scene = home /\ client.have = seq[home]

\* How a message is answered: an accepted Input by the Delta that names it,
\* through the queue; the others by the reader.
Echoes == {m \in Msgs : Kind[m] = "input"}
Direct == {m \in Msgs : Kind[m] \in {"refused", "ping", "subscribe", "garbage"}}

\* The client can match answers to messages by order: each message is answered
\* at most once, and the echoes of its Inputs come in the order it sent them,
\* as do the Pongs and Errors (runConnection handles one message at a time,
\* and writerLoop keeps the order of the queue).
AnswersInOrder ==
  \A i, j \in 1 .. Len(client.answered) : i < j =>
    /\ client.answered[i] # client.answered[j]
    /\ \A C \in {Echoes, Direct} :
         client.answered[i] \in C /\ client.answered[j] \in C =>
           \E k, l \in 1 .. Len(sent) :
             k < l /\ sent[k] = client.answered[i] /\ sent[l] = client.answered[j]

\* Every Ping is answered by a Pong with its nonce and every refused message by
\* an Error, or the connection ends: neither a full queue nor a scene that was
\* replaced stops the reader.
DirectAnswered ==
  \A m \in Direct : (m \in Elements(sent)) ~> (m \in Elements(client.answered) \/ ~ open)

\* A session whose connection is gone ends, whatever the writer was doing: the
\* reader is never left waiting for writerErr.
SessionEnds == (~ open \/ reader = Cancelled) ~> (reader = Ended)

-----------------------------------------------------------------------------
(* Two sentences of the code's comments that the model refutes (README). *)

\* Every accepted Input of a client that is not marked stale is echoed: "the
\* server MUST echo this value verbatim in Cause.InputID of the resulting delta".
Echoed ==
  \A m \in Echoes :
    (m \in Elements(sent)) ~> (m \in Elements(client.answered) \/ ~ open \/ stale)

\* An Input is applied to the scene the subscription is on: its paths are
\* checked against "the active scene's operator_inputs".
InputOnShownScene ==
  [][readInput /\ home # None => home = Captured]_vars
=============================================================================
