-------------------------- MODULE LiveServerProofs --------------------------
(***************************************************************************)
(* Proofs about LiveServer for any number of scenes, admins, connections   *)
(* and calls: the state keeps its shape, a subscription has one owner, no  *)
(* fan-out can reach a closed channel, what a client is sent is coherent   *)
(* and in sequence across migrations, and live clients follow.             *)
(***************************************************************************)
EXTENDS LiveServer, TLAPS

\* Who may own s: nobody.
Unowned(s) ==
  /\ \A o \in Scenes : s \notin subscribers[o]
  /\ \A a \in Admins : s \notin admin[a].transit

\* A goroutine that is migrating knows both scenes.
AdminShape ==
  \A a \in Admins :
    /\ admin[a].pc \in {"migrate1", "migrate2"} => admin[a].prev \in Scenes /\ admin[a].next \in Objs
    /\ admin[a].pc = "migrate2" => admin[a].bump # 0

\* The active id is registered.
ActiveRegistered == active # None => scenes[active] # None

\* A handler that is about to subscribe has a scene.
HandlerShape == \A s \in Subs : conn[s] \in {"resolved", "checked"} => captured[s] \in Scenes

Shape == TypeOK /\ AdminShape /\ ActiveRegistered /\ HandlerShape

\* A connection that has not subscribed yet has no owner and is not closed.
NotYetOwned ==
  \A s \in Subs : conn[s] \in {"off", "resolved", "checked"} => Unowned(s) /\ ~ closed[s]

OwnInv == Shape /\ OneOwner /\ NoSendOnClosed /\ NotYetOwned

-----------------------------------------------------------------------------

\* What Proceed returns is an admin state at the start of its next phase.
LEMMA ProceedShape ==
  ASSUME NEW prev \in Scenes \cup {None}, NEW next \in Objs \cup {None},
         NEW tear \in SUBSET Objs, prev # None => next \in Objs
  PROVE  LET p == Proceed(prev, next, tear)
         IN  /\ p \in AdminState
             /\ p.transit = {}
             /\ p.pc # "migrate2"
             /\ p.pc = "migrate1" => p.prev \in Scenes /\ p.next \in Objs
  BY DEF Proceed, AdminState, Idle

\* The invariant holds initially.
LEMMA InitOwnInv == Init => OwnInv
  <1> SUFFICES ASSUME Init PROVE OwnInv
    OBVIOUS
  <1>1. TypeOK
    <2>1. admin \in [Admins -> AdminState]
      <3>1. Idle \in AdminState
        BY DEF Idle, AdminState
      <3> QED
        BY <3>1 DEF Init
    <2>2. client \in [Subs -> ClientState]
      BY DEF Init, ClientState
    <2>3. out \in [Subs -> Seq(FrameType)]
      BY DEF Init
    <2>4. \A s \in Subs : Free(s) >= 0
      BY OutCapAssumption DEF Init, Free
    <2>5. seq \in [Scenes -> Nat \ {0}]
      BY DEF Init
    <2> QED
      BY <2>1, <2>2, <2>3, <2>4, <2>5 DEF Init, TypeOK
  <1>2. AdminShape /\ ActiveRegistered /\ HandlerShape
    BY DEF Init, AdminShape, ActiveRegistered, HandlerShape, Idle
  <1>3. OneOwner /\ NoSendOnClosed /\ NotYetOwned
    BY DEF Init, OneOwner, NoSendOnClosed, NotYetOwned, Unowned, Idle
  <1> QED
    BY <1>1, <1>2, <1>3 DEF OwnInv, Shape

-----------------------------------------------------------------------------
(* The shape is preserved. *)

\* resolveScene always finds a scene for the live endpoint.
LEMMA LiveSceneType == Shape => LiveScene \in Scenes
  BY DEF Shape, TypeOK, ActiveRegistered, LiveScene, Scenes

\* Frames are frames.
LEMMA FrameIsFrame ==
  ASSUME NEW t \in {"delta", "snapshot", "changed"}, NEW o \in Scenes, NEW n \in Nat \ {0}
  PROVE  Frame(t, o, n) \in FrameType
  BY DEF Frame, FrameType

\* What a's migration sends when it panics at f, after B.
PanicFrames(a, f, B) ==
  LET next == admin[a].next
      one == {s \in admin[a].transit : Free(s) = 1}
      changed == Frame("changed", next, admin[a].bump)
  IN  /\ Free(f) >= 2 /\ f \notin B
      /\ out' = [s \in Subs |->
           IF s = f THEN out[s] \o <<changed, Frame("snapshot", next, seq[next])>>
           ELSE IF s \in one \cap B THEN Append(out[s], changed) ELSE out[s]]
      /\ stale' = [s \in Subs |-> stale[s] \/ s \in B]

\* What a migration that panics does: f, the first with room, gets both frames,
\* those of B are stale, and the call is over.
LEMMA PanicParts ==
  ASSUME NEW a \in Admins, migrate2Panics(a)
  PROVE  /\ admin[a].pc = "migrate2" /\ admin[a].next \in torn \ locked
         /\ \E f \in admin[a].transit : \E B \in SUBSET admin[a].transit : PanicFrames(a, f, B)
         /\ admin' = [admin EXCEPT ![a] = Idle]
         /\ locked' = locked \cup {admin[a].next}
         /\ lost' = lost \cup admin[a].transit
         /\ UNCHANGED <<scenes, active, created, rejected, subscribers, torn, seq, conn,
                        captured, todo, late, closed, client, calls>>
  <1> DEFINE two == {s \in admin[a].transit : Free(s) >= 2}
  <1>1. PICK f \in two, B \in SUBSET (admin[a].transit \ two) :
          LET next == admin[a].next
              changed == Frame("changed", next, admin[a].bump)
              one == {s \in admin[a].transit : Free(s) = 1}
          IN  /\ out' = [s \in Subs |->
                   IF s = f THEN out[s] \o <<changed, Frame("snapshot", next, seq[next])>>
                   ELSE IF s \in one \cap B THEN Append(out[s], changed) ELSE out[s]]
              /\ stale' = [s \in Subs |-> stale[s] \/ s \in B]
    BY Zenon DEF migrate2Panics
  <1>2. f \in admin[a].transit /\ Free(f) >= 2 /\ f \notin B /\ B \in SUBSET admin[a].transit
    OBVIOUS
  <1>3. PanicFrames(a, f, B)
    BY <1>1, <1>2, Zenon DEF PanicFrames
  <1> HIDE DEF two
  <1> QED
    BY <1>2, <1>3 DEF migrate2Panics, sceneVars, handlerVars

\* Every step preserves the shape of the state.
LEMMA NextShape == Shape /\ [Next]_vars => Shape'
  <1> SUFFICES ASSUME Shape, [Next]_vars PROVE Shape'
    OBVIOUS
  <1> USE DEF Shape, TypeOK, AdminShape, ActiveRegistered, HandlerShape, panicVars
  <1>1. ASSUME NEW a \in Admins, NEW id \in Ids, NEW o \in Objs, NewScene(a, id, o)
        PROVE  Shape'
    <2> DEFINE prev == IF active = None THEN Holding ELSE None
               tear == {scenes[id]} \ {None}
    <2>1. prev \in Scenes \cup {None} /\ tear \in SUBSET Objs
      BY DEF Scenes
    <2>2. /\ admin' = [admin EXCEPT ![a] = Proceed(prev, o, tear)]
          /\ UNCHANGED <<out, client>>
      BY <1>1 DEF NewScene, subVars
    <2>3. admin' \in [Admins -> AdminState] /\ AdminShape'
      <3>1. /\ Proceed(prev, o, tear) \in AdminState
            /\ Proceed(prev, o, tear).pc # "migrate2"
            /\ Proceed(prev, o, tear).pc = "migrate1" =>
                 /\ Proceed(prev, o, tear).prev \in Scenes
                 /\ Proceed(prev, o, tear).next \in Objs
        BY <2>1 DEF Proceed, AdminState, Idle
      <3> HIDE DEF prev, tear
      <3> QED
        BY <2>2, <3>1
    <2>4. ActiveRegistered' /\ HandlerShape'
      BY <1>1, DistinctAssumption DEF NewScene, handlerVars
    <2>5. TypeOK'
      BY <1>1, <2>2, <2>3 DEF NewScene, Called, handlerVars, subVars, Free
    <2> QED
      BY <2>3, <2>4, <2>5
  <1>2. ASSUME NEW a \in Admins, NEW id \in Ids, SetActive(a, id)
        PROVE  Shape'
    <2>1. LiveScene \in Scenes /\ scenes[id] \in Objs
      BY <1>2, LiveSceneType DEF SetActive
    <2>3. admin' \in [Admins -> AdminState] /\ AdminShape'
      BY <1>2, <2>1, ProceedShape DEF SetActive
    <2>4. ActiveRegistered' /\ HandlerShape'
      BY <1>2 DEF SetActive, handlerVars
    <2>5. TypeOK'
      BY <1>2, <2>3 DEF SetActive, Called, handlerVars, subVars, Free
    <2> QED
      BY <2>3, <2>4, <2>5
  <1>3. ASSUME NEW a \in Admins, Reset(a) PROVE Shape'
    <2>1. Registered \in SUBSET Objs
      BY DEF Registered
    <2>3. admin' \in [Admins -> AdminState] /\ AdminShape'
      <3>1. /\ Proceed(None, None, Registered) \in AdminState
            /\ Proceed(None, None, Registered).pc \notin {"migrate1", "migrate2"}
        BY <2>1 DEF Proceed, AdminState, Idle
      <3> QED
        BY <1>3, <3>1 DEF Reset
    <2>4. ActiveRegistered' /\ HandlerShape'
      BY <1>3 DEF Reset, handlerVars
    <2>5. TypeOK'
      BY <1>3, <2>3 DEF Reset, Called, handlerVars, subVars, Free
    <2> QED
      BY <2>3, <2>4, <2>5
  <1>4. ASSUME NEW a \in Admins, NEW o \in Objs, Reject(a, o) PROVE Shape'
    BY <1>4 DEF Reject, Called, handlerVars, subVars, Free
  <1>5. ASSUME NEW a \in Admins, migrate1(a) PROVE Shape'
    <2> DEFINE prev == admin[a].prev
               live == subscribers[prev] \cap Live
    <2>1. prev \in Scenes
      BY <1>5 DEF migrate1
    <2>2. seq' \in [Scenes -> Nat \ {0}] /\ seq'[prev] \in Nat \ {0}
      BY <1>5, <2>1 DEF migrate1
    <2>3. admin' \in [Admins -> AdminState] /\ AdminShape'
      <3>1. /\ AfterMigration(a) \in AdminState
            /\ AfterMigration(a).pc \notin {"migrate1", "migrate2"}
        BY DEF AfterMigration, Proceed, AdminState, Idle
      <3>2. LET m == [admin[a] EXCEPT !.pc = "migrate2", !.transit = live, !.bump = seq'[prev]]
            IN  /\ m \in AdminState
                /\ m.pc = "migrate2" /\ m.bump # 0
                /\ m.prev = admin[a].prev /\ m.next = admin[a].next
        BY <2>1, <2>2, ZenonT(60) DEF AdminState
      <3> QED
        BY <1>5, <3>1, <3>2 DEF migrate1
    <2>4. ActiveRegistered' /\ HandlerShape'
      BY <1>5 DEF migrate1, handlerVars, sceneVars
    <2>5. TypeOK'
      BY <1>5, <2>1, <2>2, <2>3 DEF migrate1, handlerVars, subVars, sceneVars, Free
    <2> QED
      BY <2>3, <2>4, <2>5
  <1>6. ASSUME NEW a \in Admins, migrate2(a) PROVE Shape'
    <2> DEFINE next == admin[a].next
               moved == admin[a].transit
               two == {s \in moved : Free(s) >= 2}
               one == {s \in moved : Free(s) = 1}
               changed == Frame("changed", next, admin[a].bump)
               snap == Frame("snapshot", next, seq[next])
    <2>1. next \in Scenes /\ admin[a].bump \in Nat \ {0} /\ seq[next] \in Nat \ {0}
      BY <1>6 DEF migrate2, AdminState, Scenes
    <2>2. changed \in FrameType /\ snap \in FrameType
      BY <2>1, FrameIsFrame
    <2>3. /\ out' = [s \in Subs |->
                IF s \in two THEN out[s] \o <<changed, snap>>
                ELSE IF s \in one THEN Append(out[s], changed) ELSE out[s]]
          /\ stale' = [s \in Subs |-> stale[s] \/ s \in moved \ two]
          /\ subscribers' = [subscribers EXCEPT ![next] = @ \cup two]
          /\ admin' = [admin EXCEPT ![a] = AfterMigration(a)]
          /\ UNCHANGED <<locked, lost, scenes, active, created, rejected, torn, seq, conn,
                         captured, todo, late, closed, client, calls>>
      BY <1>6 DEF migrate2, handlerVars, sceneVars, panicVars
    <2>4. AfterMigration(a) \in AdminState /\ AfterMigration(a).pc \notin {"migrate1", "migrate2"}
      BY DEF AfterMigration, Proceed, AdminState, Idle
    <2>5. admin' \in [Admins -> AdminState] /\ AdminShape'
      BY <2>3, <2>4
    <2>6. ASSUME NEW s \in Subs
          PROVE  out'[s] \in Seq(FrameType) /\ Free(s)' >= 0
      <3>1. CASE s \in two
        <4>1. out'[s] = out[s] \o <<changed, snap>> /\ client'[s] = client[s]
          BY <2>3, <3>1
        <4>2. out'[s] \in Seq(FrameType) /\ Len(out'[s]) = Len(out[s]) + 2
          BY <4>1, <2>2
        <4> QED
          BY <3>1, <4>1, <4>2, OutCapAssumption DEF Free
      <3>2. CASE s \in one /\ s \notin two
        <4>1. out'[s] = Append(out[s], changed) /\ client'[s] = client[s]
          BY <2>3, <3>2
        <4>2. out'[s] \in Seq(FrameType) /\ Len(out'[s]) = Len(out[s]) + 1
          BY <4>1, <2>2
        <4> QED
          BY <3>2, <4>1, <4>2, OutCapAssumption DEF Free
      <3>3. CASE s \notin one /\ s \notin two
        BY <2>3, <3>3 DEF Free
      <3> QED
        BY <3>1, <3>2, <3>3
    <2>7. out' \in [Subs -> Seq(FrameType)] /\ stale' \in [Subs -> BOOLEAN]
      BY <2>3, <2>6
    <2>8. subscribers' \in [Scenes -> SUBSET Subs]
      BY <2>1, <2>3 DEF AdminState
    <2> QED
      BY <2>3, <2>5, <2>6, <2>7, <2>8
  <1>7. ASSUME NEW a \in Admins, NEW o \in Objs, tearDown(a, o) PROVE Shape'
    <2>3. admin' \in [Admins -> AdminState] /\ AdminShape'
      BY <1>7 DEF tearDown, AdminState, Proceed, Idle
    <2>4. ActiveRegistered' /\ HandlerShape'
      BY <1>7 DEF tearDown, handlerVars, sceneVars
    <2>5. TypeOK'
      BY <1>7, <2>3 DEF tearDown, handlerVars, subVars, sceneVars, Free, Scenes
    <2> QED
      BY <2>3, <2>4, <2>5
  <1>8. ASSUME NEW o \in Scenes, NEW K \in SUBSET subscribers[o], emit(o, K) PROVE Shape'
    <2> DEFINE fit == {s \in subscribers[o] : Free(s) >= 1}
               n == seq[o] + 1
    <2>1. /\ seq' = [seq EXCEPT ![o] = n]
          /\ out' = [s \in Subs |->
               IF s \in fit THEN Append(out[s], Frame("delta", o, n))
               ELSE IF s \in K THEN Append(Tail(out[s]), Frame("snapshot", o, n)) ELSE out[s]]
          /\ client' = [s \in Subs |->
               IF s \in K THEN Received(client[s], Head(out[s])) ELSE client[s]]
          /\ stale' = [s \in Subs |-> stale[s] \/ s \in subscribers[o] \ (fit \cup K)]
          /\ \A s \in K : s \notin fit /\ client[s].last # 0
          /\ calls' = calls + 1
          /\ UNCHANGED <<scenes, active, created, rejected, subscribers, torn, admin, conn,
                         captured, todo, late, closed, locked, lost>>
      BY <1>8 DEF emit, Called, sceneVars, handlerVars, panicVars
    <2>2. Frame("delta", o, n) \in FrameType /\ Frame("snapshot", o, n) \in FrameType
      BY FrameIsFrame
    <2>3. ASSUME NEW s \in Subs
          PROVE  /\ out'[s] \in Seq(FrameType)
                 /\ client'[s] \in ClientState
                 /\ Free(s)' >= 0
      <3>1. CASE s \in fit
        <4>1. out'[s] = Append(out[s], Frame("delta", o, n)) /\ client'[s] = client[s]
          BY <2>1, <3>1
        <4>2. out'[s] \in Seq(FrameType) /\ Len(out'[s]) = Len(out[s]) + 1
          BY <4>1, <2>2
        <4> QED
          BY <3>1, <4>1, <4>2, OutCapAssumption DEF Free
      <3>2. CASE s \in K
        <4>1. /\ out'[s] = Append(Tail(out[s]), Frame("snapshot", o, n))
              /\ client'[s] = Received(client[s], Head(out[s]))
              /\ client[s].last # 0
          BY <2>1, <3>2
        <4>2. Len(out[s]) >= 2 /\ out[s] \in Seq(FrameType)
          <5>1. s \in subscribers[o] /\ ~ (Free(s) >= 1) /\ client[s].last # 0
            BY <2>1, <3>2
          <5>2. out[s] \in Seq(FrameType) /\ Len(out[s]) \in Nat
            OBVIOUS
          <5> QED
            BY <5>1, <5>2, OutCapAssumption DEF Free
        <4>3. /\ Tail(out[s]) \in Seq(FrameType) /\ Len(Tail(out[s])) = Len(out[s]) - 1
              /\ Head(out[s]) \in FrameType
          BY <4>2
        <4>4. out'[s] \in Seq(FrameType) /\ Len(out'[s]) = Len(out[s])
          BY <4>1, <4>2, <4>3, <2>2
        <4>5. client'[s] \in ClientState /\ client'[s].last # 0
          BY <4>1, <4>3 DEF Received, ClientState, FrameType
        <4> QED
          BY <4>1, <4>4, <4>5 DEF Free
      <3>3. CASE s \notin fit /\ s \notin K
        BY <2>1, <3>3 DEF Free
      <3> QED
        BY <3>1, <3>2, <3>3
    <2>4. out' \in [Subs -> Seq(FrameType)] /\ client' \in [Subs -> ClientState]
      BY <2>1, <2>3
    <2>5. seq' \in [Scenes -> Nat \ {0}] /\ stale' \in [Subs -> BOOLEAN] /\ calls' \in Nat
      BY <2>1
    <2> QED
      BY <2>1, <2>3, <2>4, <2>5
  <1>9. ASSUME NEW s \in Subs, NEW o \in Scenes, resolveScene(s, o) PROVE Shape'
    BY <1>9 DEF resolveScene, subVars, sceneVars, Free
  <1>10. ASSUME NEW s \in Subs, checkRejection(s) PROVE Shape'
    BY <1>10 DEF checkRejection, subVars, sceneVars, Free
  <1>11. ASSUME NEW s \in Subs, subscribe(s) PROVE Shape'
    <2> DEFINE o == captured[s]
               snap == Frame("snapshot", o, seq[o])
    <2>1. o \in Scenes /\ snap \in FrameType
      BY <1>11, FrameIsFrame DEF subscribe
    <2>2. CASE o \in torn
      BY <1>11, <2>2 DEF subscribe, sceneVars, Free
    <2>3. CASE o \notin torn
      <3>1. /\ subscribers' = [subscribers EXCEPT ![o] = @ \cup {s}]
            /\ out' = [out EXCEPT ![s] = <<snap>>]
            /\ conn' = [conn EXCEPT ![s] = "run"]
            /\ late' = [late EXCEPT ![s] = s \in Live /\ o # LiveScene]
            /\ UNCHANGED <<scenes, active, created, rejected, torn, seq, admin, captured, todo,
                           closed, stale, client, locked, lost, calls>>
        BY <1>11, <2>3 DEF subscribe, sceneVars
      <3>2. out' \in [Subs -> Seq(FrameType)] /\ Len(out'[s]) = 1
        BY <2>1, <3>1
      <3>3. \A x \in Subs : Free(x)' >= 0
        BY <3>1, <3>2, OutCapAssumption DEF Free
      <3>4. late' \in [Subs -> BOOLEAN]
        BY <3>1
      <3>5. subscribers' \in [Scenes -> SUBSET Subs]
        BY <2>1, <3>1
      <3> QED
        BY <3>1, <3>2, <3>3, <3>4, <3>5
    <2> QED
      BY <2>2, <2>3
  <1>12. ASSUME NEW s \in Subs, deliver(s) PROVE Shape'
    <2>1. /\ out[s] # <<>>
          /\ client' = [client EXCEPT ![s] = Received(client[s], Head(out[s]))]
          /\ out' = [out EXCEPT ![s] = Tail(out[s])]
          /\ UNCHANGED <<scenes, active, created, rejected, subscribers, torn, seq, admin, conn,
                         captured, todo, late, closed, stale, locked, lost, calls>>
      BY <1>12 DEF deliver, sceneVars, handlerVars
    <2>2. /\ Tail(out[s]) \in Seq(FrameType) /\ Len(Tail(out[s])) = Len(out[s]) - 1
          /\ Head(out[s]) \in FrameType
      BY <2>1
    <2>3. /\ Received(client[s], Head(out[s])) \in ClientState
          /\ client[s].last # 0 => Received(client[s], Head(out[s])).last # 0
      BY <2>2 DEF Received, ClientState, FrameType
    <2>4. out' \in [Subs -> Seq(FrameType)] /\ client' \in [Subs -> ClientState]
      BY <2>1, <2>2, <2>3
    <2>5. ASSUME NEW x \in Subs PROVE Free(x)' >= 0
      <3>1. CASE x = s
        BY <2>1, <2>2, <2>3, <3>1, OutCapAssumption DEF Free
      <3>2. CASE x # s
        BY <2>1, <3>2 DEF Free
      <3> QED
        BY <3>1, <3>2
    <2> QED
      BY <2>1, <2>4, <2>5
  <1>13. ASSUME NEW s \in Subs, hangUp(s) PROVE Shape'
    BY <1>13 DEF hangUp, subVars, sceneVars, Free
  <1>14. ASSUME NEW s \in Subs, detach(s) PROVE Shape'
    BY <1>14 DEF detach, subVars, sceneVars, Free, Registered, Scenes
  <1>15. ASSUME NEW s \in Subs, NEW o \in Scenes, unsubscribe(s, o) PROVE Shape'
    BY <1>15 DEF unsubscribe, subVars, sceneVars, Free
  <1>16. CASE UNCHANGED vars
    BY <1>16 DEF vars, Free
  <1>17. ASSUME NEW a \in Admins, migrate2Panics(a) PROVE Shape'
    <2> DEFINE next == admin[a].next
               moved == admin[a].transit
               one == {s \in moved : Free(s) = 1}
               changed == Frame("changed", next, admin[a].bump)
               snap == Frame("snapshot", next, seq[next])
    <2>1. PICK f \in moved, B \in SUBSET moved : PanicFrames(a, f, B)
      BY <1>17, PanicParts
    <2>2. /\ Free(f) >= 2
          /\ out' = [s \in Subs |->
               IF s = f THEN out[s] \o <<changed, snap>>
               ELSE IF s \in one \cap B THEN Append(out[s], changed) ELSE out[s]]
          /\ stale' = [s \in Subs |-> stale[s] \/ s \in B]
      BY <2>1, Zenon DEF PanicFrames
    <2>3. /\ admin[a].pc = "migrate2" /\ next \in torn
          /\ admin' = [admin EXCEPT ![a] = Idle]
          /\ locked' = locked \cup {next} /\ lost' = lost \cup moved
          /\ UNCHANGED <<scenes, active, created, rejected, subscribers, torn, seq, conn,
                         captured, todo, late, closed, client, calls>>
      BY <1>17, PanicParts
    <2>4. next \in Scenes /\ next \in Objs /\ moved \subseteq Subs
          /\ admin[a].bump \in Nat \ {0} /\ seq[next] \in Nat \ {0}
      BY <2>3 DEF AdminState, Scenes
    <2>5. changed \in FrameType /\ snap \in FrameType
      BY <2>4, FrameIsFrame
    <2>6. admin' \in [Admins -> AdminState] /\ AdminShape'
      <3>1. Idle \in AdminState /\ Idle.pc = "idle"
        BY DEF Idle, AdminState
      <3> QED
        BY <2>3, <3>1
    <2> HIDE DEF next, changed, snap
    <2>7. ASSUME NEW s \in Subs
          PROVE  out'[s] \in Seq(FrameType) /\ Free(s)' >= 0
      <3>1. CASE s = f
        <4>1. out'[s] = out[s] \o <<changed, snap>> /\ client'[s] = client[s]
          BY <2>2, <2>3, <3>1
        <4>2. out'[s] \in Seq(FrameType) /\ Len(out'[s]) = Len(out[s]) + 2
          BY <4>1, <2>5
        <4> QED
          BY <2>2, <3>1, <4>1, <4>2, OutCapAssumption DEF Free
      <3>2. CASE s # f /\ s \in one \cap B
        <4>1. out'[s] = Append(out[s], changed) /\ client'[s] = client[s]
          BY <2>2, <2>3, <3>2
        <4>2. out'[s] \in Seq(FrameType) /\ Len(out'[s]) = Len(out[s]) + 1
          BY <4>1, <2>5
        <4> QED
          BY <3>2, <4>1, <4>2, OutCapAssumption DEF Free
      <3>3. CASE s # f /\ s \notin one \cap B
        <4>1. out'[s] = out[s] /\ client'[s] = client[s]
          BY <2>2, <2>3, <3>3
        <4> QED
          BY <4>1 DEF Free
      <3> QED
        BY <3>1, <3>2, <3>3
    <2>8. out' \in [Subs -> Seq(FrameType)] /\ stale' \in [Subs -> BOOLEAN]
      BY <2>2, <2>7
    <2>9. locked' \subseteq Objs /\ lost' \subseteq Subs
      BY <2>3, <2>4
    <2> QED
      BY <2>3, <2>6, <2>7, <2>8, <2>9
  <1> QED
    BY <1>1, <1>2, <1>3, <1>4, <1>5, <1>6, <1>7, <1>8, <1>9, <1>10, <1>11, <1>12, <1>13,
       <1>14, <1>15, <1>16, <1>17 DEF Next, AdminStep, HandlerStep
-----------------------------------------------------------------------------
(* Ownership is preserved. *)

\* What a step that only takes subscriptions away, and closes none it leaves
\* somewhere, does to ownership.
LEMMA ShrinkOwn ==
  ASSUME OwnInv,
         \A o \in Scenes : subscribers'[o] \subseteq subscribers[o],
         \A a \in Admins : admin'[a].transit \subseteq admin[a].transit,
         \A s \in Subs : closed'[s] => closed[s] \/ Unowned(s)',
         \A s \in Subs : conn'[s] \in {"off", "resolved", "checked"} =>
                           conn[s] \in {"off", "resolved", "checked"} /\ (closed'[s] => closed[s])
  PROVE  OneOwner' /\ NoSendOnClosed' /\ NotYetOwned'
  <1>1. OneOwner'
    BY DEF OwnInv, OneOwner
  <1>2. NoSendOnClosed'
    BY DEF OwnInv, NoSendOnClosed, Unowned
  <1>3. NotYetOwned'
    BY DEF OwnInv, NotYetOwned, Unowned
  <1> QED
    BY <1>1, <1>2, <1>3

\* A goroutine that goes on to a migration or a tear-down holds nothing yet.
LEMMA ProceedTransit ==
  ASSUME NEW prev, NEW next, NEW tear
  PROVE  Proceed(prev, next, tear).transit = {}
  BY DEF Proceed, Idle

\* Every step preserves ownership.
LEMMA NextOwn == OwnInv /\ [Next]_vars => OneOwner' /\ NoSendOnClosed' /\ NotYetOwned'
  <1> SUFFICES ASSUME OwnInv, [Next]_vars
               PROVE  OneOwner' /\ NoSendOnClosed' /\ NotYetOwned'
    OBVIOUS
  <1> USE DEF OwnInv, Shape, TypeOK
  <1>1. ASSUME NEW a \in Admins, NEW id \in Ids, NEW o \in Objs, NewScene(a, id, o)
        PROVE  OneOwner' /\ NoSendOnClosed' /\ NotYetOwned'
    BY <1>1, ShrinkOwn, ProceedTransit DEF NewScene, handlerVars, subVars
  <1>2. ASSUME NEW a \in Admins, NEW id \in Ids, SetActive(a, id)
        PROVE  OneOwner' /\ NoSendOnClosed' /\ NotYetOwned'
    BY <1>2, ShrinkOwn, ProceedTransit DEF SetActive, handlerVars, subVars
  <1>3. ASSUME NEW a \in Admins, Reset(a)
        PROVE  OneOwner' /\ NoSendOnClosed' /\ NotYetOwned'
    BY <1>3, ShrinkOwn, ProceedTransit DEF Reset, handlerVars, subVars
  <1>4. ASSUME NEW a \in Admins, NEW o \in Objs, Reject(a, o)
        PROVE  OneOwner' /\ NoSendOnClosed' /\ NotYetOwned'
    BY <1>4, ShrinkOwn DEF Reject, handlerVars, subVars
  <1>5. ASSUME NEW a \in Admins, migrate1(a)
        PROVE  OneOwner' /\ NoSendOnClosed' /\ NotYetOwned'
    <2> DEFINE prev == admin[a].prev
               live == subscribers[prev] \cap Live
    <2>1. prev \in Scenes
      BY <1>5 DEF migrate1, AdminShape
    <2>2. /\ subscribers' = [subscribers EXCEPT ![prev] = @ \ live]
          /\ closed' = closed /\ conn' = conn
      BY <1>5 DEF migrate1, handlerVars, subVars
    <2>3. /\ admin'[a].transit \subseteq live
          /\ \A x \in Admins : x # a => admin'[x] = admin[x]
      BY <1>5, ProceedTransit DEF migrate1, AfterMigration, AdminState
    <2>4. OneOwner'
      BY <2>1, <2>2, <2>3 DEF OneOwner
    <2>5. NoSendOnClosed'
      BY <2>1, <2>2, <2>3 DEF NoSendOnClosed
    <2>6. NotYetOwned'
      BY <2>1, <2>2, <2>3 DEF NotYetOwned, Unowned
    <2> QED
      BY <2>4, <2>5, <2>6
  <1>6. ASSUME NEW a \in Admins, migrate2(a)
        PROVE  OneOwner' /\ NoSendOnClosed' /\ NotYetOwned'
    <2> DEFINE next == admin[a].next
               moved == admin[a].transit
               two == {s \in moved : Free(s) >= 2}
    <2>1. next \in Scenes /\ two \subseteq moved
      BY <1>6 DEF migrate2, AdminShape, Scenes
    <2>2. /\ subscribers' = [subscribers EXCEPT ![next] = @ \cup two]
          /\ admin' = [admin EXCEPT ![a] = AfterMigration(a)]
          /\ closed' = closed /\ conn' = conn
      BY <1>6 DEF migrate2, handlerVars
    <2>3. /\ admin'[a].transit = {}
          /\ \A x \in Admins : x # a => admin'[x] = admin[x]
      BY <2>2, ProceedTransit DEF AfterMigration
    <2> HIDE DEF two
    <2>4. OneOwner'
      BY <2>1, <2>2, <2>3 DEF OneOwner
    <2>5. NoSendOnClosed'
      BY <2>1, <2>2, <2>3 DEF NoSendOnClosed
    <2>6. NotYetOwned'
      BY <2>1, <2>2, <2>3 DEF NotYetOwned, Unowned
    <2> QED
      BY <2>4, <2>5, <2>6
  <1>7. ASSUME NEW a \in Admins, NEW o \in Objs, tearDown(a, o)
        PROVE  OneOwner' /\ NoSendOnClosed' /\ NotYetOwned'
    <2>0. o \in Scenes
      BY DEF Scenes
    <2>1. /\ closed' = [s \in Subs |-> closed[s] \/ s \in subscribers[o]]
          /\ subscribers' = [subscribers EXCEPT ![o] = {}]
          /\ conn' = conn
          /\ \A x \in Admins : admin'[x].transit \subseteq admin[x].transit
      BY <1>7, ProceedTransit DEF tearDown, handlerVars
    <2>2. \A s \in Subs : s \in subscribers[o] => Unowned(s)'
      BY <2>0, <2>1 DEF OneOwner, Unowned
    <2>3. \A s \in Subs : conn[s] \in {"off", "resolved", "checked"} => s \notin subscribers[o]
      BY <2>0 DEF NotYetOwned, Unowned
    <2> QED
      BY <2>0, <2>1, <2>2, <2>3, ShrinkOwn
  <1>8. ASSUME NEW o \in Scenes, NEW K \in SUBSET subscribers[o], emit(o, K)
        PROVE  OneOwner' /\ NoSendOnClosed' /\ NotYetOwned'
    BY <1>8, ShrinkOwn DEF emit, handlerVars
  <1>9. ASSUME NEW s \in Subs, NEW o \in Scenes, resolveScene(s, o)
        PROVE  OneOwner' /\ NoSendOnClosed' /\ NotYetOwned'
    BY <1>9, ShrinkOwn DEF resolveScene, subVars
  <1>10. ASSUME NEW s \in Subs, checkRejection(s)
        PROVE  OneOwner' /\ NoSendOnClosed' /\ NotYetOwned'
    BY <1>10, ShrinkOwn DEF checkRejection, subVars
  <1>11. ASSUME NEW s \in Subs, subscribe(s)
        PROVE  OneOwner' /\ NoSendOnClosed' /\ NotYetOwned'
    <2> DEFINE o == captured[s]
    <2>0. Unowned(s) /\ ~ closed[s] /\ o \in Scenes
      BY <1>11 DEF subscribe, NotYetOwned, HandlerShape
    <2>1. CASE o \in torn
      BY <1>11, <2>1, ShrinkOwn DEF subscribe
    <2>2. CASE o \notin torn
      <3>1. /\ subscribers' = [subscribers EXCEPT ![o] = @ \cup {s}]
            /\ conn' = [conn EXCEPT ![s] = "run"]
            /\ admin' = admin /\ closed' = closed
        BY <1>11, <2>2 DEF subscribe
      <3>2. OneOwner'
        BY <2>0, <3>1 DEF OneOwner, Unowned
      <3>3. NoSendOnClosed'
        BY <2>0, <3>1 DEF NoSendOnClosed
      <3>4. NotYetOwned'
        BY <2>0, <3>1 DEF NotYetOwned, Unowned
      <3> QED
        BY <3>2, <3>3, <3>4
    <2> QED
      BY <2>1, <2>2
  <1>12. ASSUME NEW s \in Subs, deliver(s)
        PROVE  OneOwner' /\ NoSendOnClosed' /\ NotYetOwned'
    BY <1>12, ShrinkOwn DEF deliver, handlerVars
  <1>13. ASSUME NEW s \in Subs, hangUp(s)
        PROVE  OneOwner' /\ NoSendOnClosed' /\ NotYetOwned'
    BY <1>13, ShrinkOwn DEF hangUp, subVars
  <1>14. ASSUME NEW s \in Subs, detach(s)
        PROVE  OneOwner' /\ NoSendOnClosed' /\ NotYetOwned'
    BY <1>14, ShrinkOwn DEF detach, subVars
  <1>15. ASSUME NEW s \in Subs, NEW o \in Scenes, unsubscribe(s, o)
        PROVE  OneOwner' /\ NoSendOnClosed' /\ NotYetOwned'
    <2>1. /\ conn[s] = "detaching"
          /\ subscribers' = [subscribers EXCEPT ![o] = @ \ {s}]
          /\ closed' = [closed EXCEPT ![s] = @ \/ s \in subscribers[o]]
          /\ conn'[s] \in {"gone", "detaching"}
          /\ \A x \in Subs : x # s => conn'[x] = conn[x]
          /\ admin' = admin
      BY <1>15 DEF unsubscribe
    <2>2. s \in subscribers[o] => Unowned(s)'
      BY <2>1 DEF OneOwner, Unowned
    <2> QED
      BY <2>1, <2>2, ShrinkOwn
  <1>16. CASE UNCHANGED vars
    BY <1>16, ShrinkOwn DEF vars
  <1>17. ASSUME NEW a \in Admins, migrate2Panics(a)
        PROVE  OneOwner' /\ NoSendOnClosed' /\ NotYetOwned'
    <2>1. /\ UNCHANGED <<subscribers, closed, conn>>
          /\ admin' = [admin EXCEPT ![a] = Idle]
      BY <1>17, PanicParts
    <2>2. \A x \in Admins : admin'[x].transit \subseteq admin[x].transit
      BY <2>1 DEF Idle
    <2> QED
      BY <2>1, <2>2, ShrinkOwn
  <1> QED
    BY <1>1, <1>2, <1>3, <1>4, <1>5, <1>6, <1>7, <1>8, <1>9, <1>10, <1>11, <1>12, <1>13,
       <1>14, <1>15, <1>16, <1>17 DEF Next, AdminStep, HandlerStep

\* The inductive invariant, for every set of scenes, admins and connections.
LEMMA OwnInvariant == Spec => []OwnInv
  <1>1. OwnInv /\ [Next]_vars => OwnInv'
    BY NextShape, NextOwn DEF OwnInv
  <1> QED
    BY <1>1, InitOwnInv, PTL DEF Spec

-----------------------------------------------------------------------------
(* Test-mode sessions stay where they are. *)

\* Only live subscriptions travel.
TransitLive == \A a \in Admins : admin[a].transit \subseteq Live

\* A connection that has not subscribed has been sent nothing.
NothingSent ==
  \A s \in Subs : conn[s] \in {"off", "resolved", "checked"} =>
    out[s] = <<>> /\ client[s].scene = None

PinnedInv == OwnInv /\ TransitLive /\ NothingSent /\ TestPinned

\* The part of TestPinned about what s has been and is being sent.
SentPinned(s) ==
  /\ \A i \in 1 .. Len(out[s]) : out[s][i].scene = captured[s]
  /\ client[s].scene \in {None, captured[s]}

\* A step that sends nothing and registers nobody keeps the sessions pinned.
LEMMA PinnedQuiet ==
  ASSUME PinnedInv, out' = out, client' = client, captured' = captured,
         \A o \in Scenes : subscribers'[o] \subseteq subscribers[o],
         \A a \in Admins : admin'[a].transit \subseteq Live,
         \A s \in Subs : conn'[s] \in {"off", "resolved", "checked"} =>
                           conn[s] \in {"off", "resolved", "checked"}
  PROVE  TransitLive' /\ NothingSent' /\ TestPinned'
  BY DEF PinnedInv, TransitLive, NothingSent, TestPinned

\* Every step preserves it.
LEMMA NextPinned == PinnedInv /\ [Next]_vars => TransitLive' /\ NothingSent' /\ TestPinned'
  <1> SUFFICES ASSUME PinnedInv, [Next]_vars
               PROVE  TransitLive' /\ NothingSent' /\ TestPinned'
    OBVIOUS
  <1> USE DEF PinnedInv, OwnInv, Shape, TypeOK
  <1>0. Test \subseteq Subs
    BY DEF Subs
  <1>1. ASSUME NEW a \in Admins, NEW id \in Ids, NEW o \in Objs, NewScene(a, id, o)
        PROVE  TransitLive' /\ NothingSent' /\ TestPinned'
    BY <1>1, PinnedQuiet, ProceedTransit DEF NewScene, handlerVars, subVars, TransitLive
  <1>2. ASSUME NEW a \in Admins, NEW id \in Ids, SetActive(a, id)
        PROVE  TransitLive' /\ NothingSent' /\ TestPinned'
    BY <1>2, PinnedQuiet, ProceedTransit DEF SetActive, handlerVars, subVars, TransitLive
  <1>3. ASSUME NEW a \in Admins, Reset(a)
        PROVE  TransitLive' /\ NothingSent' /\ TestPinned'
    BY <1>3, PinnedQuiet, ProceedTransit DEF Reset, handlerVars, subVars, TransitLive
  <1>4. ASSUME NEW a \in Admins, NEW o \in Objs, Reject(a, o)
        PROVE  TransitLive' /\ NothingSent' /\ TestPinned'
    BY <1>4, PinnedQuiet DEF Reject, handlerVars, subVars, TransitLive
  <1>5. ASSUME NEW a \in Admins, migrate1(a)
        PROVE  TransitLive' /\ NothingSent' /\ TestPinned'
    <2> DEFINE prev == admin[a].prev
               live == subscribers[prev] \cap Live
    <2>1. prev \in Scenes
      BY <1>5 DEF migrate1, AdminShape
    <2>2. /\ subscribers' = [subscribers EXCEPT ![prev] = @ \ live]
          /\ out' = out /\ client' = client /\ captured' = captured /\ conn' = conn
      BY <1>5 DEF migrate1, handlerVars, subVars
    <2>3. /\ admin'[a].transit \subseteq live
          /\ \A x \in Admins : x # a => admin'[x] = admin[x]
      BY <1>5, ProceedTransit DEF migrate1, AfterMigration, AdminState
    <2>4. \A x \in Admins : admin'[x].transit \subseteq Live
      BY <2>3 DEF TransitLive
    <2> QED
      BY <2>1, <2>2, <2>4, PinnedQuiet
  <1>6. ASSUME NEW a \in Admins, migrate2(a)
        PROVE  TransitLive' /\ NothingSent' /\ TestPinned'
    <2> DEFINE next == admin[a].next
               moved == admin[a].transit
               two == {s \in moved : Free(s) >= 2}
               one == {s \in moved : Free(s) = 1}
    <2>1. next \in Scenes /\ two \subseteq moved /\ one \subseteq moved
      BY <1>6 DEF migrate2, AdminShape, Scenes
    <2>2. /\ subscribers' = [subscribers EXCEPT ![next] = @ \cup two]
          /\ admin' = [admin EXCEPT ![a] = AfterMigration(a)]
          /\ \A s \in Subs : s \notin two \cup one => out'[s] = out[s]
          /\ conn' = conn /\ client' = client /\ captured' = captured
      BY <1>6 DEF migrate2, handlerVars
    <2>3. /\ admin'[a].transit = {}
          /\ \A x \in Admins : x # a => admin'[x] = admin[x]
      BY <2>2, ProceedTransit DEF AfterMigration
    <2> HIDE DEF two, one
    <2>4. TransitLive'
      BY <2>3 DEF TransitLive
    <2>5. \A s \in Subs : conn[s] \in {"off", "resolved", "checked"} => s \notin two \cup one
      BY <2>1 DEF NotYetOwned, Unowned
    <2>6. NothingSent'
      BY <2>2, <2>5 DEF NothingSent
    <2>7. \A s \in Test : s \notin two \cup one
      BY <2>1, DistinctAssumption DEF TransitLive
    <2>8. TestPinned'
      BY <1>0, <2>1, <2>2, <2>7 DEF TestPinned
    <2> QED
      BY <2>4, <2>6, <2>8
  <1>7. ASSUME NEW a \in Admins, NEW o \in Objs, tearDown(a, o)
        PROVE  TransitLive' /\ NothingSent' /\ TestPinned'
    <2>1. /\ \A x \in Scenes : subscribers'[x] \subseteq subscribers[x]
          /\ out' = out /\ client' = client /\ captured' = captured /\ conn' = conn
          /\ \A x \in Admins : admin'[x].transit \subseteq Live
      BY <1>7, ProceedTransit DEF tearDown, handlerVars, TransitLive
    <2> QED
      BY <2>1, PinnedQuiet
  <1>8. ASSUME NEW o \in Scenes, NEW K \in SUBSET subscribers[o], emit(o, K)
        PROVE  TransitLive' /\ NothingSent' /\ TestPinned'
    <2> DEFINE n == seq[o] + 1
    <2>1. /\ subscribers' = subscribers /\ admin' = admin /\ conn' = conn /\ captured' = captured
          /\ \A s \in Subs : s \notin subscribers[o] => out'[s] = out[s] /\ client'[s] = client[s]
      BY <1>8 DEF emit, handlerVars
    <2>2. TransitLive'
      BY <2>1 DEF TransitLive
    <2>3. NothingSent'
      BY <2>1 DEF NothingSent, NotYetOwned, Unowned
    <2>4. ASSUME NEW s \in Test PROVE SentPinned(s)'
      <3>1. CASE s \notin subscribers[o]
        BY <1>0, <2>1, <3>1 DEF TestPinned, SentPinned
      <3>2. CASE s \in subscribers[o]
        <4>1. captured[s] = o
          BY <3>2 DEF TestPinned
        <4>2. out[s] \in Seq(FrameType) /\ \A i \in 1 .. Len(out[s]) : out[s][i].scene = o
          BY <1>0, <4>1 DEF TestPinned
        <4>3. CASE /\ out'[s] = Append(out[s], Frame("delta", o, n))
                   /\ client'[s] = client[s]
          <5>1. Frame("delta", o, n).scene = o /\ Frame("delta", o, n) \in FrameType
            BY FrameIsFrame DEF Frame
          <5>2. \A i \in 1 .. Len(out'[s]) : out'[s][i].scene = o
            BY <4>2, <4>3, <5>1
          <5> QED
            BY <2>1, <4>1, <4>3, <5>2 DEF SentPinned, TestPinned
        <4>4. CASE /\ s \in K
                   /\ Len(out[s]) > 0
                   /\ out'[s] = Append(Tail(out[s]), Frame("snapshot", o, n))
                   /\ client'[s] = Received(client[s], Head(out[s]))
          <5>1. Frame("snapshot", o, n).scene = o /\ Frame("snapshot", o, n) \in FrameType
            BY FrameIsFrame DEF Frame
          <5>2. Head(out[s]).scene = o /\ Tail(out[s]) \in Seq(FrameType)
            BY <4>2, <4>4
          <5>3. \A i \in 1 .. Len(Tail(out[s])) : Tail(out[s])[i].scene = o
            BY <4>2, <4>4
          <5>4. \A i \in 1 .. Len(out'[s]) : out'[s][i].scene = o
            BY <4>4, <5>1, <5>2, <5>3
          <5>5. client'[s].scene \in {None, o}
            BY <4>1, <4>4, <5>2 DEF Received, TestPinned
          <5> QED
            BY <2>1, <4>1, <5>4, <5>5 DEF SentPinned
        <4>5. CASE out'[s] = out[s] /\ client'[s] = client[s]
          BY <2>1, <4>5 DEF SentPinned, TestPinned
        <4>6. s \in K => Len(out[s]) > 0
          <5> SUFFICES ASSUME s \in K PROVE Len(out[s]) > 0
            OBVIOUS
          <5>1. ~ (Free(s) >= 1) /\ client[s].last # 0
            BY <1>0, <1>8 DEF emit
          <5> QED
            BY <4>2, <5>1, OutCapAssumption DEF Free
        <4> QED
          BY <1>0, <1>8, <4>3, <4>4, <4>5, <4>6 DEF emit
      <3> QED
        BY <3>1, <3>2
    <2>5. TestPinned'
      BY <2>1, <2>4 DEF TestPinned, SentPinned
    <2> QED
      BY <2>2, <2>3, <2>5
  <1>9. ASSUME NEW s \in Subs, NEW o \in Scenes, resolveScene(s, o)
        PROVE  TransitLive' /\ NothingSent' /\ TestPinned'
    <2>1. /\ conn[s] = "off"
          /\ conn' = [conn EXCEPT ![s] = "resolved"]
          /\ captured' = [captured EXCEPT ![s] = o]
          /\ UNCHANGED <<subscribers, admin, out, client>>
      BY <1>9 DEF resolveScene, subVars
    <2>2. /\ out[s] = <<>> /\ client[s].scene = None
          /\ \A x \in Scenes : s \notin subscribers[x]
      BY <2>1 DEF NothingSent, NotYetOwned, Unowned
    <2>3. TransitLive' /\ NothingSent'
      BY <2>1 DEF TransitLive, NothingSent
    <2>4. TestPinned'
      BY <1>0, <2>1, <2>2 DEF TestPinned
    <2> QED
      BY <2>3, <2>4
  <1>10. ASSUME NEW s \in Subs, checkRejection(s)
        PROVE  TransitLive' /\ NothingSent' /\ TestPinned'
    BY <1>10, PinnedQuiet DEF checkRejection, subVars, TransitLive
  <1>11. ASSUME NEW s \in Subs, subscribe(s)
        PROVE  TransitLive' /\ NothingSent' /\ TestPinned'
    <2> DEFINE o == captured[s]
    <2>1. CASE o \in torn
      BY <1>11, <2>1, PinnedQuiet DEF subscribe, TransitLive
    <2>2. CASE o \notin torn
      <3>0. o \in Scenes
        BY <1>11 DEF subscribe, HandlerShape
      <3>1. /\ conn[s] = "checked"
            /\ subscribers' = [subscribers EXCEPT ![o] = @ \cup {s}]
            /\ out' = [out EXCEPT ![s] = <<Frame("snapshot", o, seq[o])>>]
            /\ conn' = [conn EXCEPT ![s] = "run"]
            /\ UNCHANGED <<admin, captured, client>>
        BY <1>11, <2>2 DEF subscribe
      <3>2. TransitLive' /\ NothingSent'
        BY <3>1 DEF TransitLive, NothingSent
      <3>3. \A i \in 1 .. Len(out'[s]) : out'[s][i].scene = o
        BY <3>1 DEF Frame
      <3>4. \A x \in Scenes : s \notin subscribers[x]
        BY <3>1 DEF NotYetOwned, Unowned
      <3>5. TestPinned'
        BY <1>0, <3>0, <3>1, <3>3, <3>4 DEF TestPinned
      <3> QED
        BY <3>2, <3>5
    <2> QED
      BY <2>1, <2>2
  <1>12. ASSUME NEW s \in Subs, deliver(s)
        PROVE  TransitLive' /\ NothingSent' /\ TestPinned'
    <2>1. /\ conn[s] = "run" /\ out[s] # <<>>
          /\ client' = [client EXCEPT ![s] = Received(client[s], Head(out[s]))]
          /\ out' = [out EXCEPT ![s] = Tail(out[s])]
          /\ UNCHANGED <<subscribers, admin, conn, captured>>
      BY <1>12 DEF deliver, handlerVars
    <2>2. TransitLive' /\ NothingSent'
      BY <2>1 DEF TransitLive, NothingSent
    <2>3. s \in Test => SentPinned(s)'
      <3> SUFFICES ASSUME s \in Test PROVE SentPinned(s)'
        OBVIOUS
      <3>1. out[s] \in Seq(FrameType) /\ \A i \in 1 .. Len(out[s]) : out[s][i].scene = captured[s]
        BY DEF TestPinned
      <3>2. Head(out[s]).scene = captured[s]
        BY <2>1, <3>1
      <3>3. \A i \in 1 .. Len(Tail(out[s])) : Tail(out[s])[i].scene = captured[s]
        BY <2>1, <3>1
      <3>4. client'[s].scene \in {None, captured[s]}
        BY <2>1, <3>2 DEF Received, TestPinned
      <3> QED
        BY <2>1, <3>3, <3>4 DEF SentPinned
    <2>4. TestPinned'
      BY <1>0, <2>1, <2>3 DEF TestPinned, SentPinned
    <2> QED
      BY <2>2, <2>4
  <1>13. ASSUME NEW s \in Subs, hangUp(s)
        PROVE  TransitLive' /\ NothingSent' /\ TestPinned'
    BY <1>13, PinnedQuiet DEF hangUp, subVars, TransitLive
  <1>14. ASSUME NEW s \in Subs, detach(s)
        PROVE  TransitLive' /\ NothingSent' /\ TestPinned'
    BY <1>14, PinnedQuiet DEF detach, subVars, TransitLive
  <1>15. ASSUME NEW s \in Subs, NEW o \in Scenes, unsubscribe(s, o)
        PROVE  TransitLive' /\ NothingSent' /\ TestPinned'
    <2>1. /\ conn[s] = "detaching"
          /\ subscribers' = [subscribers EXCEPT ![o] = @ \ {s}]
          /\ conn'[s] \in {"gone", "detaching"}
          /\ \A x \in Subs : x # s => conn'[x] = conn[x]
          /\ UNCHANGED <<admin, out, client, captured>>
      BY <1>15 DEF unsubscribe
    <2> QED
      BY <2>1, PinnedQuiet DEF TransitLive
  <1>16. CASE UNCHANGED vars
    BY <1>16, PinnedQuiet DEF vars, TransitLive
  <1>17. ASSUME NEW a \in Admins, migrate2Panics(a)
        PROVE  TransitLive' /\ NothingSent' /\ TestPinned'
    <2>0. /\ admin' = [admin EXCEPT ![a] = Idle]
          /\ UNCHANGED <<subscribers, conn, client, captured>>
      BY <1>17, PanicParts
    <2>1. \A s \in Subs : s \notin admin[a].transit => out'[s] = out[s]
      <3>1. PICK f \in admin[a].transit, B \in SUBSET admin[a].transit : PanicFrames(a, f, B)
        BY <1>17, PanicParts
      <3> QED
        BY <3>1 DEF PanicFrames
    <2>2. TransitLive'
      BY <2>0 DEF TransitLive, Idle
    <2>3. NothingSent'
      BY <2>0, <2>1 DEF NothingSent, NotYetOwned, Unowned
    <2>4. \A s \in Test : s \notin admin[a].transit
      BY DistinctAssumption DEF TransitLive
    <2>5. TestPinned'
      BY <1>0, <2>0, <2>1, <2>4 DEF TestPinned
    <2> QED
      BY <2>2, <2>3, <2>5
  <1> QED
    BY <1>1, <1>2, <1>3, <1>4, <1>5, <1>6, <1>7, <1>8, <1>9, <1>10, <1>11, <1>12, <1>13,
       <1>14, <1>15, <1>16, <1>17 DEF Next, AdminStep, HandlerStep

\* It holds initially.
LEMMA InitPinned == Init => TransitLive /\ NothingSent /\ TestPinned
  BY DEF Init, TransitLive, NothingSent, TestPinned, Idle, Subs, Scenes

-----------------------------------------------------------------------------
(* What is on its way to a client. *)

\* Where a stream fs ends for a client c, once everything has arrived: the
\* scene it shows then, its number, and whether a SceneChanged still waits for
\* its Snapshot.
EndScene(c, fs) == IF fs = <<>> THEN c.scene ELSE fs[Len(fs)].scene
EndSeq(c, fs) == IF fs = <<>> THEN c.last ELSE fs[Len(fs)].seq
Waits(fs) == fs # <<>> /\ fs[Len(fs)].type = "changed"

\* What comes before the i-th frame: the scene shown, the number, a SceneChanged.
SceneBefore(c, fs, i) == IF i = 1 THEN c.scene ELSE fs[i - 1].scene
SeqBefore(c, fs, i) == IF i = 1 THEN c.last ELSE fs[i - 1].seq
AfterChange(fs, i) == i > 1 /\ fs[i - 1].type = "changed"

\* SceneCoherent and Continues, of one client and one stream.
Coheres(c, fs) ==
  \A i \in 1 .. Len(fs) :
    /\ fs[i].type = "delta" => fs[i].scene = SceneBefore(c, fs, i) /\ ~ AfterChange(fs, i)
    /\ AfterChange(fs, i) => fs[i].type = "snapshot" /\ fs[i].scene = SceneBefore(c, fs, i)

Counts(c, fs) ==
  \A i \in 1 .. Len(fs) : fs[i].type # "snapshot" => fs[i].seq = SeqBefore(c, fs, i) + 1

\* Numbers matter to the live clients that are not stale.
Counted(s) == s \in Live /\ ~ stale[s]

\* The stream of s; where it ends while s is registered with o, and while it is
\* on its way with a.
StreamOK(s) ==
  Coheres(client[s], out[s]) /\ (Counted(s) => Counts(client[s], out[s]))

EndsAt(s, o) ==
  /\ EndScene(client[s], out[s]) = o /\ ~ Waits(out[s])
  /\ Counted(s) => EndSeq(client[s], out[s]) = seq[o]

EndsBefore(s, a) ==
  /\ ~ Waits(out[s])
  /\ Counted(s) => admin[a].bump = EndSeq(client[s], out[s]) + 1

FlowOf(s) ==
  /\ StreamOK(s)
  /\ \A o \in Scenes : s \in subscribers[o] => EndsAt(s, o)
  /\ \A a \in Admins : s \in admin[a].transit => EndsBefore(s, a)

FlowInv == PinnedInv /\ \A s \in Subs : FlowOf(s)

\* A stream is empty when its length says so.
LEMMA EmptyStream ==
  ASSUME NEW fs \in Seq(FrameType)
  PROVE  fs = <<>> <=> Len(fs) = 0
  OBVIOUS

\* One more frame keeps a stream coherent.
LEMMA CoheresAppend ==
  ASSUME NEW c, NEW fs \in Seq(FrameType), NEW f \in FrameType, Coheres(c, fs),
         f.type = "delta" => f.scene = EndScene(c, fs) /\ ~ Waits(fs),
         Waits(fs) => f.type = "snapshot" /\ f.scene = EndScene(c, fs)
  PROVE  /\ Coheres(c, Append(fs, f)) /\ EndScene(c, Append(fs, f)) = f.scene
         /\ (Waits(Append(fs, f)) <=> f.type = "changed")
  <1> DEFINE gs == Append(fs, f)
             n == Len(fs)
  <1>1. /\ n \in Nat /\ Len(gs) = n + 1 /\ gs # <<>> /\ gs[n + 1] = f
        /\ \A i \in 1 .. n : gs[i] = fs[i]
        /\ (n = 0 <=> fs = <<>>)
    OBVIOUS
  <1> HIDE DEF gs
  <1>2. ASSUME NEW i \in 1 .. Len(gs)
        PROVE  /\ gs[i].type = "delta" => gs[i].scene = SceneBefore(c, gs, i) /\ ~ AfterChange(gs, i)
               /\ AfterChange(gs, i) => gs[i].type = "snapshot" /\ gs[i].scene = SceneBefore(c, gs, i)
    <2>1. CASE i \in 1 .. n
      <3>1. gs[i] = fs[i] /\ (i > 1 => gs[i - 1] = fs[i - 1])
        BY <1>1, <2>1
      <3>2. SceneBefore(c, gs, i) = SceneBefore(c, fs, i) /\ (AfterChange(gs, i) <=> AfterChange(fs, i))
        BY <2>1, <3>1 DEF SceneBefore, AfterChange
      <3> QED
        BY <2>1, <3>1, <3>2 DEF Coheres
    <2>2. CASE i = n + 1
      <3>1. gs[i] = f
        BY <1>1, <2>2
      <3>2. SceneBefore(c, gs, i) = EndScene(c, fs) /\ (AfterChange(gs, i) <=> Waits(fs))
        <4>1. CASE n = 0
          BY <1>1, <2>2, <4>1 DEF EndScene, Waits, SceneBefore, AfterChange
        <4>2. CASE n # 0
          <5>1. i > 1 /\ i - 1 = n /\ gs[i - 1] = fs[n] /\ fs # <<>>
            BY <1>1, <2>2, <4>2
          <5> QED
            BY <5>1 DEF EndScene, Waits, SceneBefore, AfterChange
        <4> QED
          BY <4>1, <4>2
      <3> QED
        BY <3>1, <3>2
    <2> QED
      BY <1>1, <2>1, <2>2
  <1>3. Coheres(c, gs)
    BY <1>2 DEF Coheres
  <1>4. EndScene(c, gs) = f.scene /\ (Waits(gs) <=> f.type = "changed")
    BY <1>1 DEF EndScene, Waits
  <1> QED
    BY <1>3, <1>4 DEF gs

\* The head arrives: the rest is coherent and ends where it did.
LEMMA CoheresTail ==
  ASSUME NEW c \in ClientState, NEW fs \in Seq(FrameType), fs # <<>>, Coheres(c, fs)
  PROVE  /\ Coheres(Received(c, Head(fs)), Tail(fs))
         /\ EndScene(Received(c, Head(fs)), Tail(fs)) = EndScene(c, fs)
         /\ Waits(Tail(fs)) => Waits(fs)
  <1> DEFINE d == Received(c, Head(fs))
             gs == Tail(fs)
             n == Len(fs)
  <1>1. /\ n \in Nat /\ n > 0 /\ Head(fs) = fs[1] /\ fs[1] \in FrameType
        /\ Len(gs) = n - 1 /\ \A i \in 1 .. n - 1 : gs[i] = fs[i + 1]
        /\ gs \in Seq(FrameType)
    OBVIOUS
  <1>e. gs = <<>> <=> n = 1
    <2> HIDE DEF gs
    <2> QED
      BY <1>1, EmptyStream
  <1>2. fs[1].type = "delta" => fs[1].scene = c.scene
    BY <1>1 DEF Coheres, SceneBefore
  <1>3. d.scene = fs[1].scene
    BY <1>1, <1>2 DEF Received
  <1> HIDE DEF d, gs
  <1>4. ASSUME NEW i \in 1 .. Len(gs)
        PROVE  /\ gs[i].type = "delta" => gs[i].scene = SceneBefore(d, gs, i) /\ ~ AfterChange(gs, i)
               /\ AfterChange(gs, i) => gs[i].type = "snapshot" /\ gs[i].scene = SceneBefore(d, gs, i)
    <2>1. i + 1 \in 1 .. n /\ i + 1 > 1 /\ (i + 1) - 1 = i /\ i + 1 # 1 /\ gs[i] = fs[i + 1]
      BY <1>1
    <2>2. /\ fs[i + 1].type = "delta" => fs[i + 1].scene = fs[i].scene /\ ~ (fs[i].type = "changed")
          /\ fs[i].type = "changed" => fs[i + 1].type = "snapshot" /\ fs[i + 1].scene = fs[i].scene
      BY <2>1 DEF Coheres, SceneBefore, AfterChange
    <2>3. SceneBefore(d, gs, i) = fs[i].scene /\ (AfterChange(gs, i) => fs[i].type = "changed")
      BY <1>1, <1>3 DEF SceneBefore, AfterChange
    <2> QED
      BY <2>1, <2>2, <2>3
  <1>5. Coheres(d, gs)
    BY <1>4 DEF Coheres
  <1>6. EndScene(d, gs) = EndScene(c, fs) /\ (Waits(gs) => Waits(fs))
    <2>1. CASE n = 1
      BY <1>1, <1>e, <1>3, <2>1 DEF EndScene, Waits
    <2>2. CASE n # 1
      <3>1. gs # <<>> /\ gs[Len(gs)] = fs[n]
        BY <1>1, <1>e, <2>2
      <3> QED
        BY <3>1 DEF EndScene, Waits
    <2> QED
      BY <2>1, <2>2
  <1> QED
    BY <1>5, <1>6 DEF d, gs

\* The same of the numbers.
LEMMA CountsAppend ==
  ASSUME NEW c, NEW fs \in Seq(FrameType), NEW f \in FrameType, Counts(c, fs),
         f.type # "snapshot" => f.seq = EndSeq(c, fs) + 1
  PROVE  Counts(c, Append(fs, f)) /\ EndSeq(c, Append(fs, f)) = f.seq
  <1> DEFINE gs == Append(fs, f)
             n == Len(fs)
  <1>1. /\ n \in Nat /\ Len(gs) = n + 1 /\ gs # <<>> /\ gs[n + 1] = f
        /\ \A i \in 1 .. n : gs[i] = fs[i]
        /\ (n = 0 <=> fs = <<>>)
    OBVIOUS
  <1> HIDE DEF gs
  <1>2. ASSUME NEW i \in 1 .. Len(gs)
        PROVE  gs[i].type # "snapshot" => gs[i].seq = SeqBefore(c, gs, i) + 1
    <2>1. CASE i \in 1 .. n
      <3>1. gs[i] = fs[i] /\ (i > 1 => gs[i - 1] = fs[i - 1])
        BY <1>1, <2>1
      <3>2. SeqBefore(c, gs, i) = SeqBefore(c, fs, i)
        BY <2>1, <3>1 DEF SeqBefore
      <3> QED
        BY <2>1, <3>1, <3>2 DEF Counts
    <2>2. CASE i = n + 1
      <3>1. gs[i] = f
        BY <1>1, <2>2
      <3>2. SeqBefore(c, gs, i) = EndSeq(c, fs)
        <4>1. CASE n = 0
          BY <1>1, <2>2, <4>1 DEF EndSeq, SeqBefore
        <4>2. CASE n # 0
          <5>1. i # 1 /\ i - 1 = n /\ gs[i - 1] = fs[n] /\ fs # <<>>
            BY <1>1, <2>2, <4>2
          <5> QED
            BY <5>1 DEF EndSeq, SeqBefore
        <4> QED
          BY <4>1, <4>2
      <3> QED
        BY <3>1, <3>2
    <2> QED
      BY <1>1, <2>1, <2>2
  <1>3. Counts(c, gs)
    BY <1>2 DEF Counts
  <1>4. EndSeq(c, gs) = f.seq
    BY <1>1 DEF EndSeq
  <1> QED
    BY <1>3, <1>4 DEF gs

\* A client whose stream has no gap takes every frame.
LEMMA CountsTail ==
  ASSUME NEW c \in ClientState, NEW fs \in Seq(FrameType), fs # <<>>, Counts(c, fs)
  PROVE  /\ Counts(Received(c, Head(fs)), Tail(fs))
         /\ EndSeq(Received(c, Head(fs)), Tail(fs)) = EndSeq(c, fs)
  <1> DEFINE d == Received(c, Head(fs))
             gs == Tail(fs)
             n == Len(fs)
  <1>1. /\ n \in Nat /\ n > 0 /\ Head(fs) = fs[1] /\ fs[1] \in FrameType
        /\ Len(gs) = n - 1 /\ \A i \in 1 .. n - 1 : gs[i] = fs[i + 1]
        /\ gs \in Seq(FrameType)
    OBVIOUS
  <1>e. gs = <<>> <=> n = 1
    <2> HIDE DEF gs
    <2> QED
      BY <1>1, EmptyStream
  <1>2. fs[1].type # "snapshot" => fs[1].seq = c.last + 1
    BY <1>1 DEF Counts, SeqBefore
  <1>3. d.last = fs[1].seq
    BY <1>1, <1>2 DEF Received
  <1> HIDE DEF d, gs
  <1>4. ASSUME NEW i \in 1 .. Len(gs)
        PROVE  gs[i].type # "snapshot" => gs[i].seq = SeqBefore(d, gs, i) + 1
    <2>1. i + 1 \in 1 .. n /\ i + 1 # 1 /\ (i + 1) - 1 = i /\ gs[i] = fs[i + 1]
      BY <1>1
    <2>2. fs[i + 1].type # "snapshot" => fs[i + 1].seq = fs[i].seq + 1
      BY <2>1 DEF Counts, SeqBefore
    <2>3. SeqBefore(d, gs, i) = fs[i].seq
      BY <1>1, <1>3 DEF SeqBefore
    <2> QED
      BY <2>1, <2>2, <2>3
  <1>5. Counts(d, gs)
    BY <1>4 DEF Counts
  <1>6. EndSeq(d, gs) = EndSeq(c, fs)
    <2>1. CASE n = 1
      BY <1>1, <1>e, <1>3, <2>1 DEF EndSeq
    <2>2. CASE n # 1
      <3>1. gs # <<>> /\ gs[Len(gs)] = fs[n]
        BY <1>1, <1>e, <2>2
      <3> QED
        BY <3>1 DEF EndSeq
    <2> QED
      BY <2>1, <2>2
  <1> QED
    BY <1>5, <1>6 DEF d, gs

\* What the steps below use of the invariant.
LEMMA FlowShape ==
  ASSUME FlowInv, NEW s \in Subs
  PROVE  /\ out[s] \in Seq(FrameType) /\ client[s] \in ClientState
         /\ Coheres(client[s], out[s]) /\ (Counted(s) => Counts(client[s], out[s]))
         /\ \A o \in Scenes : s \in subscribers[o] =>
              /\ EndScene(client[s], out[s]) = o /\ ~ Waits(out[s])
              /\ Counted(s) => EndSeq(client[s], out[s]) = seq[o]
         /\ \A a \in Admins : s \in admin[a].transit =>
              /\ ~ Waits(out[s])
              /\ Counted(s) => admin[a].bump = EndSeq(client[s], out[s]) + 1
  <1>1. out[s] \in Seq(FrameType) /\ client[s] \in ClientState
    BY DEF FlowInv, PinnedInv, OwnInv, Shape, TypeOK
  <1>2. FlowOf(s)
    BY DEF FlowInv
  <1> QED
    BY <1>1, <1>2 DEF FlowOf, StreamOK, EndsAt, EndsBefore

\* Nothing is sent to s and nothing gives it a new owner: its stream ends where
\* it did, unless its scene went on without it and it is stale by now.
LEMMA FlowKept ==
  ASSUME FlowInv, NEW s \in Subs, out'[s] = out[s], client'[s] = client[s],
         Counted(s)' => Counted(s),
         \A o \in Scenes : s \in subscribers'[o] =>
           s \in subscribers[o] /\ (Counted(s)' => seq'[o] = seq[o]),
         \A a \in Admins : s \in admin'[a].transit =>
           s \in admin[a].transit /\ admin'[a].bump = admin[a].bump
  PROVE  FlowOf(s)'
  <1>1. StreamOK(s)'
    BY FlowShape DEF StreamOK
  <1>2. ASSUME NEW o \in Scenes, s \in subscribers'[o] PROVE EndsAt(s, o)'
    <2>1. s \in subscribers[o] /\ (Counted(s)' => seq'[o] = seq[o])
      BY <1>2
    <2>2. /\ EndScene(client[s], out[s]) = o /\ ~ Waits(out[s])
          /\ Counted(s) => EndSeq(client[s], out[s]) = seq[o]
      BY <2>1, FlowShape
    <2> QED
      BY <2>1, <2>2 DEF EndsAt
  <1>3. ASSUME NEW a \in Admins, s \in admin'[a].transit PROVE EndsBefore(s, a)'
    <2>1. s \in admin[a].transit /\ admin'[a].bump = admin[a].bump
      BY <1>3
    <2>2. /\ ~ Waits(out[s])
          /\ Counted(s) => admin[a].bump = EndSeq(client[s], out[s]) + 1
      BY <2>1, FlowShape
    <2> QED
      BY <2>1, <2>2 DEF EndsBefore
  <1> QED
    BY <1>1, <1>2, <1>3 DEF FlowOf

\* A step that sends nothing and moves nobody.
LEMMA FlowQuiet ==
  ASSUME FlowInv, out' = out, client' = client, stale' = stale, seq' = seq,
         \A o \in Scenes : subscribers'[o] \subseteq subscribers[o],
         \A a \in Admins : admin'[a] = admin[a] \/ admin'[a].transit = {}
  PROVE  \A s \in Subs : FlowOf(s)'
  <1> SUFFICES ASSUME NEW s \in Subs PROVE FlowOf(s)'
    OBVIOUS
  <1>1. Counted(s)' => Counted(s)
    BY DEF Counted
  <1>2. \A o \in Scenes : s \in subscribers'[o] =>
           s \in subscribers[o] /\ (Counted(s)' => seq'[o] = seq[o])
    OBVIOUS
  <1>3. \A a \in Admins : s \in admin'[a].transit =>
           s \in admin[a].transit /\ admin'[a].bump = admin[a].bump
    OBVIOUS
  <1> QED
    BY <1>1, <1>2, <1>3, FlowKept

\* migrateLive's first phase: the number that the moving clients' SceneChanged
\* will carry is the one after where their streams end.
LEMMA FlowMigrate1 ==
  ASSUME FlowInv, NEW a \in Admins, migrate1(a), NEW s \in Subs
  PROVE  FlowOf(s)'
  <1> DEFINE prev == admin[a].prev
             live == subscribers[prev] \cap Live
  <1> USE DEF FlowInv, PinnedInv, OwnInv, Shape, TypeOK
  <1>1. prev \in Scenes
    BY DEF migrate1, AdminShape
  <1>2. /\ subscribers' = [subscribers EXCEPT ![prev] = @ \ live]
        /\ seq' = [seq EXCEPT ![prev] = seq[prev] + 1]
        /\ admin' = [admin EXCEPT ![a] =
             IF live = {} THEN AfterMigration(a)
             ELSE [admin[a] EXCEPT !.pc = "migrate2", !.transit = live, !.bump = seq'[prev]]]
        /\ out' = out /\ client' = client /\ stale' = stale
    BY DEF migrate1, subVars
  <1>3. \A o \in Scenes : o # prev => subscribers'[o] = subscribers[o] /\ seq'[o] = seq[o]
    BY <1>1, <1>2
  <1>4. subscribers'[prev] = subscribers[prev] \ live /\ seq'[prev] = seq[prev] + 1
    BY <1>1, <1>2
  <1>5. /\ \A x \in Admins : x # a => admin'[x] = admin[x]
        /\ admin'[a].transit = live
        /\ live # {} => admin'[a].bump = seq[prev] + 1
    <2>1. CASE live = {}
      BY <1>2, <2>1, ProceedTransit DEF AfterMigration
    <2>2. CASE live # {}
      BY <1>2, <1>4, <2>2 DEF AdminState
    <2> QED
      BY <2>1, <2>2
  <1>6. Counted(s)' <=> Counted(s)
    BY <1>2 DEF Counted
  <1>7. CASE s \in live
    <2>1. \A o \in Scenes : s \notin subscribers'[o]
      BY <1>1, <1>3, <1>4, <1>7 DEF OneOwner
    <2>2. \A x \in Admins : s \in admin'[x].transit => x = a
      BY <1>1, <1>5, <1>7 DEF OneOwner
    <2>3. StreamOK(s)'
      BY <1>2, <1>6, FlowShape DEF StreamOK
    <2>4. EndsBefore(s, a)'
      <3>1. /\ ~ Waits(out[s])
            /\ Counted(s) => EndSeq(client[s], out[s]) = seq[prev]
        BY <1>1, <1>7, FlowShape
      <3> QED
        BY <1>2, <1>5, <1>6, <1>7, <3>1 DEF EndsBefore
    <2> QED
      BY <2>1, <2>2, <2>3, <2>4 DEF FlowOf
  <1>8. CASE s \notin live
    <2>1. \A o \in Scenes : s \in subscribers'[o] =>
            s \in subscribers[o] /\ (Counted(s)' => seq'[o] = seq[o])
      <3> SUFFICES ASSUME NEW o \in Scenes, s \in subscribers'[o]
                   PROVE  s \in subscribers[o] /\ (Counted(s)' => seq'[o] = seq[o])
        OBVIOUS
      <3>1. CASE o = prev
        BY <1>4, <1>6, <1>8, <3>1 DEF Counted
      <3>2. CASE o # prev
        BY <1>3, <3>2
      <3> QED
        BY <3>1, <3>2
    <2>2. \A x \in Admins : s \in admin'[x].transit =>
            s \in admin[x].transit /\ admin'[x].bump = admin[x].bump
      BY <1>5, <1>8
    <2>3. out'[s] = out[s] /\ client'[s] = client[s]
      BY <1>2
    <2> HIDE DEF FlowInv, prev, live
    <2> QED
      BY <1>6, <2>1, <2>2, <2>3, FlowKept
  <1> QED
    BY <1>7, <1>8

\* Two frames are queued one after the other.
LEMMA AppendTwo ==
  ASSUME NEW fs \in Seq(FrameType), NEW f \in FrameType, NEW g \in FrameType
  PROVE  fs \o <<f, g>> = Append(Append(fs, f), g) /\ Append(fs, f) \in Seq(FrameType)
  OBVIOUS

\* The second phase: SceneChanged, then the Snapshot of the scene s joins.
LEMMA FlowMigrate2 ==
  ASSUME FlowInv, NEW a \in Admins, migrate2(a), NEW s \in Subs
  PROVE  FlowOf(s)'
  <1> DEFINE next == admin[a].next
             moved == admin[a].transit
             two == {x \in moved : Free(x) >= 2}
             one == {x \in moved : Free(x) = 1}
             bump == admin[a].bump
             changed == Frame("changed", next, bump)
             snap == Frame("snapshot", next, seq[next])
  <1> USE DEF FlowInv, PinnedInv, OwnInv, Shape, TypeOK
  <1>1. /\ next \in Scenes /\ bump \in Nat \ {0} /\ seq[next] \in Nat \ {0}
        /\ moved \subseteq Subs
    BY DEF migrate2, AdminShape, AdminState, Scenes
  <1>2. /\ out' = [x \in Subs |->
              IF x \in two THEN out[x] \o <<changed, snap>>
              ELSE IF x \in one THEN Append(out[x], changed) ELSE out[x]]
        /\ stale' = [x \in Subs |-> stale[x] \/ x \in moved \ two]
        /\ subscribers' = [subscribers EXCEPT ![next] = @ \cup two]
        /\ admin' = [admin EXCEPT ![a] = AfterMigration(a)]
        /\ client' = client /\ seq' = seq
    BY DEF migrate2
  <1>3. /\ admin'[a].transit = {}
        /\ \A x \in Admins : x # a => admin'[x] = admin[x]
    BY <1>2, ProceedTransit DEF AfterMigration
  <1>4. /\ changed \in FrameType /\ changed.type = "changed" /\ changed.seq = bump
        /\ changed.scene = next
        /\ snap \in FrameType /\ snap.type = "snapshot" /\ snap.seq = seq[next]
        /\ snap.scene = next
    BY <1>1, FrameIsFrame DEF Frame
  <1>5. /\ two \subseteq moved
        /\ \A o \in Scenes : o # next => subscribers'[o] = subscribers[o]
        /\ subscribers'[next] = subscribers[next] \cup two
    BY <1>1, <1>2
  <1> HIDE DEF changed, snap
  <1>6. CASE s \notin moved
    <2>1. s \notin two /\ s \notin one /\ out'[s] = out[s] /\ stale'[s] = stale[s]
      BY <1>2, <1>6
    <2>2. /\ \A o \in Scenes : s \in subscribers'[o] =>
               s \in subscribers[o] /\ (Counted(s)' => seq'[o] = seq[o])
          /\ \A x \in Admins : s \in admin'[x].transit =>
               s \in admin[x].transit /\ admin'[x].bump = admin[x].bump
      BY <1>2, <1>3, <1>5, <2>1
    <2>3. client'[s] = client[s] /\ (Counted(s)' => Counted(s))
      BY <1>2, <2>1 DEF Counted
    <2> HIDE DEF FlowInv, two, one
    <2> QED
      BY <2>1, <2>2, <2>3, FlowKept
  <1>7. CASE s \in moved
    <2>1. /\ \A o \in Scenes : s \notin subscribers[o]
          /\ \A x \in Admins : s \notin admin'[x].transit
      BY <1>3, <1>7 DEF OneOwner
    <2>2. /\ out[s] \in Seq(FrameType) /\ client[s] \in ClientState
          /\ Coheres(client[s], out[s]) /\ (Counted(s) => Counts(client[s], out[s]))
          /\ ~ Waits(out[s])
          /\ Counted(s) => bump = EndSeq(client[s], out[s]) + 1
      BY <1>7, FlowShape
    <2>3. CASE s \in two
      <3>1. out'[s] = out[s] \o <<changed, snap>> /\ (Counted(s)' <=> Counted(s))
        BY <1>2, <2>3 DEF Counted
      <3> HIDE DEF two, one
      <3> DEFINE fs == Append(out[s], changed)
      <3>2. out'[s] = Append(fs, snap) /\ fs \in Seq(FrameType)
        BY <1>4, <2>2, <3>1, AppendTwo
      <3>3. /\ Coheres(client[s], fs) /\ EndScene(client[s], fs) = next /\ Waits(fs)
        BY <1>4, <2>2, CoheresAppend
      <3>4. Counted(s) => Counts(client[s], fs)
        BY <1>4, <2>2, CountsAppend
      <3> HIDE DEF fs
      <3>5. /\ Coheres(client[s], Append(fs, snap)) /\ EndScene(client[s], Append(fs, snap)) = next
            /\ ~ Waits(Append(fs, snap))
        BY <1>4, <3>2, <3>3, CoheresAppend
      <3>6. Counted(s) => /\ Counts(client[s], Append(fs, snap))
                          /\ EndSeq(client[s], Append(fs, snap)) = seq[next]
        BY <1>4, <3>2, <3>4, CountsAppend
      <3>7. StreamOK(s)'
        BY <1>2, <3>1, <3>2, <3>5, <3>6 DEF StreamOK
      <3>8. ASSUME NEW o \in Scenes, s \in subscribers'[o] PROVE EndsAt(s, o)'
        <4>1. o = next
          BY <1>5, <2>1, <3>8
        <4>2. seq'[o] = seq[next] /\ client'[s] = client[s]
          BY <1>2, <4>1
        <4> QED
          BY <3>1, <3>2, <3>5, <3>6, <4>1, <4>2 DEF EndsAt
      <3> QED
        BY <2>1, <3>7, <3>8 DEF FlowOf
    <2>4. CASE s \notin two
      <3>1. stale'[s] /\ ~ Counted(s)'
        BY <1>2, <1>7, <2>4 DEF Counted
      <3>2. \A o \in Scenes : s \notin subscribers'[o]
        BY <1>5, <2>1, <2>4
      <3>3. Coheres(client[s], Append(out[s], changed))
        BY <1>4, <2>2, CoheresAppend
      <3>4. out'[s] \in {out[s], Append(out[s], changed)}
        BY <1>2, <2>4
      <3>5. Coheres(client[s], out'[s])
        BY <2>2, <3>3, <3>4
      <3> HIDE DEF two, one
      <3> QED
        BY <1>2, <2>1, <3>1, <3>2, <3>5 DEF FlowOf, StreamOK
    <2> QED
      BY <2>3, <2>4
  <1> QED
    BY <1>6, <1>7

\* A migration that panics: f has both frames, those of B may have the first, the
\* others nothing, and none of them has an owner any more.
LEMMA FlowPanics ==
  ASSUME FlowInv, NEW a \in Admins, migrate2Panics(a), NEW s \in Subs
  PROVE  FlowOf(s)'
  <1> DEFINE next == admin[a].next
             moved == admin[a].transit
             one == {x \in moved : Free(x) = 1}
             bump == admin[a].bump
             changed == Frame("changed", next, bump)
             snap == Frame("snapshot", next, seq[next])
  <1> USE DEF FlowInv, PinnedInv, OwnInv, Shape, TypeOK
  <1>1. /\ admin[a].pc = "migrate2" /\ admin' = [admin EXCEPT ![a] = Idle]
        /\ UNCHANGED <<subscribers, client, seq>>
    BY PanicParts
  <1>2. PICK f \in moved, B \in SUBSET moved : PanicFrames(a, f, B)
    BY PanicParts
  <1>3. /\ f \notin B
        /\ out' = [x \in Subs |->
             IF x = f THEN out[x] \o <<changed, snap>>
             ELSE IF x \in one \cap B THEN Append(out[x], changed) ELSE out[x]]
        /\ stale' = [x \in Subs |-> stale[x] \/ x \in B]
    BY <1>2, Zenon DEF PanicFrames
  <1>4. /\ next \in Scenes /\ bump \in Nat \ {0} /\ seq[next] \in Nat \ {0}
        /\ moved \subseteq Subs
    BY <1>1 DEF AdminShape, AdminState, Scenes
  <1>5. /\ changed \in FrameType /\ changed.type = "changed" /\ changed.seq = bump
        /\ changed.scene = next
        /\ snap \in FrameType /\ snap.type = "snapshot" /\ snap.seq = seq[next]
        /\ snap.scene = next
    BY <1>4, FrameIsFrame DEF Frame
  <1>6. admin'[a].transit = {} /\ \A x \in Admins : x # a => admin'[x] = admin[x]
    BY <1>1 DEF Idle
  <1> HIDE DEF changed, snap
  <1>7. CASE s \notin moved
    <2>1. s # f /\ s \notin one /\ s \notin B /\ out'[s] = out[s] /\ stale'[s] = stale[s]
      BY <1>3, <1>7
    <2>2. /\ \A o \in Scenes : s \in subscribers'[o] =>
               s \in subscribers[o] /\ (Counted(s)' => seq'[o] = seq[o])
          /\ \A x \in Admins : s \in admin'[x].transit =>
               s \in admin[x].transit /\ admin'[x].bump = admin[x].bump
      BY <1>1, <1>6
    <2>3. client'[s] = client[s] /\ (Counted(s)' => Counted(s))
      BY <1>1, <2>1 DEF Counted
    <2> HIDE DEF FlowInv, one
    <2> QED
      BY <2>1, <2>2, <2>3, FlowKept
  <1>8. CASE s \in moved
    <2>1. /\ \A o \in Scenes : s \notin subscribers'[o]
          /\ \A x \in Admins : s \notin admin'[x].transit
      BY <1>1, <1>6, <1>8 DEF OneOwner
    <2>2. /\ out[s] \in Seq(FrameType) /\ client[s] \in ClientState
          /\ Coheres(client[s], out[s]) /\ (Counted(s) => Counts(client[s], out[s]))
          /\ ~ Waits(out[s])
          /\ Counted(s) => bump = EndSeq(client[s], out[s]) + 1
      BY <1>8, FlowShape
    <2>3. client'[s] = client[s] /\ (Counted(s)' => Counted(s))
      BY <1>1, <1>3 DEF Counted
    <2> DEFINE fs == Append(out[s], changed)
    <2>4. /\ fs \in Seq(FrameType)
          /\ Coheres(client[s], fs) /\ EndScene(client[s], fs) = next /\ Waits(fs)
      BY <1>5, <2>2, CoheresAppend
    <2>5. Counted(s) => Counts(client[s], fs)
      BY <1>5, <2>2, CountsAppend
    <2>6. StreamOK(s)'
      <3>1. CASE s = f
        <4>1. out'[s] = out[s] \o <<changed, snap>>
          BY <1>3, <3>1
        <4>2. out'[s] = Append(fs, snap)
          BY <1>5, <2>2, <4>1, AppendTwo
        <4> HIDE DEF fs
        <4>3. Coheres(client[s], Append(fs, snap))
          BY <1>5, <2>2, <2>4, CoheresAppend
        <4>4. Counted(s) => Counts(client[s], Append(fs, snap))
          BY <1>5, <2>2, <2>4, <2>5, CountsAppend
        <4> QED
          BY <2>3, <4>2, <4>3, <4>4 DEF StreamOK
      <3>2. CASE s # f /\ s \in one \cap B
        <4>1. out'[s] = fs /\ ~ Counted(s)'
          BY <1>3, <3>2 DEF Counted
        <4> HIDE DEF fs
        <4> QED
          BY <2>3, <2>4, <4>1 DEF StreamOK
      <3>3. CASE s # f /\ s \notin one \cap B
        <4>1. out'[s] = out[s]
          BY <1>3, <3>3
        <4> QED
          BY <2>2, <2>3, <4>1 DEF StreamOK
      <3> QED
        BY <3>1, <3>2, <3>3
    <2> QED
      BY <2>1, <2>6 DEF FlowOf
  <1> QED
    BY <1>7, <1>8

\* A fan-out: the Delta, the collapse Snapshot behind the frame that made room,
\* or the mark.
LEMMA FlowEmit ==
  ASSUME FlowInv, NEW o \in Scenes, NEW K \in SUBSET subscribers[o], emit(o, K), NEW s \in Subs
  PROVE  FlowOf(s)'
  <1> DEFINE fit == {x \in subscribers[o] : Free(x) >= 1}
             n == seq[o] + 1
             d == Frame("delta", o, n)
             f == Frame("snapshot", o, n)
  <1> USE DEF FlowInv, PinnedInv, OwnInv, Shape, TypeOK
  <1>1. /\ seq' = [seq EXCEPT ![o] = n]
        /\ out' = [x \in Subs |->
             IF x \in fit THEN Append(out[x], d)
             ELSE IF x \in K THEN Append(Tail(out[x]), f) ELSE out[x]]
        /\ client' = [x \in Subs |->
             IF x \in K THEN Received(client[x], Head(out[x])) ELSE client[x]]
        /\ stale' = [x \in Subs |-> stale[x] \/ x \in subscribers[o] \ (fit \cup K)]
        /\ \A x \in K : x \notin fit /\ client[x].last # 0
        /\ subscribers' = subscribers /\ admin' = admin
    BY DEF emit
  <1>2. /\ d \in FrameType /\ d.type = "delta" /\ d.seq = n /\ d.scene = o
        /\ f \in FrameType /\ f.type = "snapshot" /\ f.seq = n /\ f.scene = o
    BY FrameIsFrame DEF Frame
  <1>3. seq'[o] = n /\ \A x \in Scenes : x # o => seq'[x] = seq[x]
    BY <1>1
  <1> HIDE DEF d, f
  <1>4. CASE s \notin subscribers[o]
    <2>1. /\ out'[s] = out[s] /\ client'[s] = client[s] /\ stale'[s] = stale[s]
      BY <1>1, <1>4
    <2>2. /\ \A x \in Scenes : s \in subscribers'[x] =>
               s \in subscribers[x] /\ (Counted(s)' => seq'[x] = seq[x])
          /\ \A x \in Admins : s \in admin'[x].transit =>
               s \in admin[x].transit /\ admin'[x].bump = admin[x].bump
      BY <1>1, <1>3, <1>4
    <2>3. Counted(s)' => Counted(s)
      BY <2>1 DEF Counted
    <2> HIDE DEF FlowInv, fit
    <2> QED
      BY <2>1, <2>2, <2>3, FlowKept
  <1>5. CASE s \in subscribers[o]
    <2>1. /\ \A x \in Scenes : s \in subscribers'[x] => x = o
          /\ \A x \in Admins : s \notin admin'[x].transit
      BY <1>1, <1>5 DEF OneOwner
    <2>2. /\ out[s] \in Seq(FrameType) /\ client[s] \in ClientState
          /\ Coheres(client[s], out[s]) /\ (Counted(s) => Counts(client[s], out[s]))
          /\ EndScene(client[s], out[s]) = o /\ ~ Waits(out[s])
          /\ Counted(s) => EndSeq(client[s], out[s]) = seq[o]
      BY <1>5, FlowShape
    <2>3. StreamOK(s)' /\ EndsAt(s, o)'
      <3>1. CASE s \in fit
        <4>1. /\ out'[s] = Append(out[s], d) /\ client'[s] = client[s]
              /\ (Counted(s)' => Counted(s))
          BY <1>1, <3>1 DEF Counted
        <4> HIDE DEF fit
        <4>2. /\ Coheres(client[s], Append(out[s], d)) /\ EndScene(client[s], Append(out[s], d)) = o
              /\ ~ Waits(Append(out[s], d))
          BY <1>2, <2>2, CoheresAppend
        <4>3. Counted(s) => /\ Counts(client[s], Append(out[s], d))
                            /\ EndSeq(client[s], Append(out[s], d)) = n
          BY <1>2, <2>2, CountsAppend
        <4> QED
          BY <1>3, <4>1, <4>2, <4>3 DEF StreamOK, EndsAt
      <3>2. CASE s \in K
        <4> DEFINE c == Received(client[s], Head(out[s]))
                   fs == Tail(out[s])
        <4>1. /\ out'[s] = Append(fs, f) /\ client'[s] = c
              /\ (Counted(s)' => Counted(s))
          BY <1>1, <3>2 DEF Counted
        <4>2. out[s] # <<>>
          <5>1. ~ (Free(s) >= 1) /\ client[s].last # 0
            BY <1>1, <3>2
          <5>2. Len(out[s]) > 0
            BY <2>2, <5>1, OutCapAssumption DEF Free
          <5> QED
            BY <5>2
        <4>3. fs \in Seq(FrameType)
          BY <2>2, <4>2
        <4>4. Coheres(c, fs) /\ EndScene(c, fs) = o /\ ~ Waits(fs)
          BY <2>2, <4>2, CoheresTail
        <4>5. Counted(s) => Counts(c, fs) /\ EndSeq(c, fs) = seq[o]
          BY <2>2, <4>2, CountsTail
        <4> HIDE DEF c, fs, fit
        <4>6. /\ Coheres(c, Append(fs, f)) /\ EndScene(c, Append(fs, f)) = o
              /\ ~ Waits(Append(fs, f))
          BY <1>2, <4>3, <4>4, CoheresAppend
        <4>7. Counted(s) => Counts(c, Append(fs, f)) /\ EndSeq(c, Append(fs, f)) = n
          BY <1>2, <4>3, <4>5, CountsAppend
        <4> QED
          BY <1>3, <4>1, <4>6, <4>7 DEF StreamOK, EndsAt
      <3>3. CASE s \notin fit /\ s \notin K
        <4>1. out'[s] = out[s] /\ client'[s] = client[s] /\ ~ Counted(s)'
          BY <1>1, <1>5, <3>3 DEF Counted
        <4> HIDE DEF fit
        <4> QED
          BY <2>2, <4>1 DEF StreamOK, EndsAt
      <3> QED
        BY <3>1, <3>2, <3>3
    <2> QED
      BY <2>1, <2>3 DEF FlowOf
  <1> QED
    BY <1>4, <1>5

\* A connection subscribes: the Snapshot is the first it gets.
LEMMA FlowSubscribe ==
  ASSUME FlowInv, NEW x \in Subs, subscribe(x), NEW s \in Subs
  PROVE  FlowOf(s)'
  <1> DEFINE o == captured[x]
             f == Frame("snapshot", o, seq[o])
  <1> USE DEF FlowInv, PinnedInv, OwnInv, Shape, TypeOK
  <1>1. CASE o \in torn
    <2>1. UNCHANGED <<subscribers, admin, out, stale, client, seq>>
      BY <1>1 DEF subscribe
    <2> HIDE DEF FlowInv
    <2> QED
      BY <2>1, FlowQuiet
  <1>2. CASE o \notin torn
    <2>1. /\ conn[x] = "checked"
          /\ subscribers' = [subscribers EXCEPT ![o] = @ \cup {x}]
          /\ out' = [out EXCEPT ![x] = <<f>>]
          /\ UNCHANGED <<admin, client, stale, seq>>
      BY <1>2 DEF subscribe
    <2>2. o \in Scenes /\ Unowned(x)
      BY <2>1 DEF HandlerShape, NotYetOwned
    <2>3. f \in FrameType /\ f.type = "snapshot" /\ f.seq = seq[o] /\ f.scene = o
      BY <2>2, FrameIsFrame DEF Frame
    <2> HIDE DEF f
    <2>4. CASE s # x
      <3>1. out'[s] = out[s]
        BY <2>1, <2>4
      <3>2. /\ \A y \in Scenes : s \in subscribers'[y] =>
                 s \in subscribers[y] /\ (Counted(s)' => seq'[y] = seq[y])
            /\ \A a \in Admins : s \in admin'[a].transit =>
                 s \in admin[a].transit /\ admin'[a].bump = admin[a].bump
        BY <2>1, <2>2, <2>4
      <3>3. client'[s] = client[s] /\ (Counted(s)' => Counted(s))
        BY <2>1 DEF Counted
      <3> HIDE DEF FlowInv
      <3> QED
        BY <3>1, <3>2, <3>3, FlowKept
    <2>5. CASE s = x
      <3>1. out'[s] = <<f>>
        BY <2>1, <2>5
      <3>2. /\ \A y \in Scenes : s \in subscribers'[y] => y = o
            /\ \A a \in Admins : s \notin admin'[a].transit
        BY <2>1, <2>2, <2>5 DEF Unowned
      <3>3. /\ \A c : Coheres(c, <<f>>) /\ Counts(c, <<f>>) /\ EndScene(c, <<f>>) = o
                      /\ EndSeq(c, <<f>>) = seq[o]
            /\ ~ Waits(<<f>>)
        BY <2>3 DEF Coheres, Counts, EndScene, EndSeq, Waits, AfterChange
      <3>4. StreamOK(s)'
        BY <2>1, <3>1, <3>3 DEF StreamOK
      <3>5. ASSUME NEW y \in Scenes, s \in subscribers'[y] PROVE EndsAt(s, y)'
        <4>1. y = o
          BY <3>2, <3>5
        <4>2. seq'[y] = seq[o]
          BY <2>1, <4>1
        <4> QED
          BY <3>1, <3>3, <4>1, <4>2 DEF EndsAt
      <3> QED
        BY <3>2, <3>4, <3>5 DEF FlowOf
    <2> QED
      BY <2>4, <2>5
  <1> QED
    BY <1>1, <1>2

\* A frame arrives: the stream gets shorter and ends where it did.
LEMMA FlowDeliver ==
  ASSUME FlowInv, NEW x \in Subs, deliver(x), NEW s \in Subs
  PROVE  FlowOf(s)'
  <1> USE DEF FlowInv, PinnedInv, OwnInv, Shape, TypeOK
  <1>1. /\ out[x] # <<>>
        /\ client' = [client EXCEPT ![x] = Received(client[x], Head(out[x]))]
        /\ out' = [out EXCEPT ![x] = Tail(out[x])]
        /\ UNCHANGED <<subscribers, admin, stale, seq>>
    BY DEF deliver
  <1>2. Counted(s)' <=> Counted(s)
    BY <1>1 DEF Counted
  <1>3. CASE s # x
    <2>1. out'[s] = out[s] /\ client'[s] = client[s]
      BY <1>1, <1>3
    <2>2. /\ \A y \in Scenes : s \in subscribers'[y] =>
               s \in subscribers[y] /\ (Counted(s)' => seq'[y] = seq[y])
          /\ \A a \in Admins : s \in admin'[a].transit =>
               s \in admin[a].transit /\ admin'[a].bump = admin[a].bump
      BY <1>1
    <2> HIDE DEF FlowInv
    <2> QED
      BY <1>2, <2>1, <2>2, FlowKept
  <1>4. CASE s = x
    <2> DEFINE c == Received(client[s], Head(out[s]))
               fs == Tail(out[s])
    <2>1. out'[s] = fs /\ client'[s] = c /\ out[s] # <<>>
      BY <1>1, <1>4
    <2>2. /\ out[s] \in Seq(FrameType) /\ client[s] \in ClientState
          /\ Coheres(client[s], out[s]) /\ (Counted(s) => Counts(client[s], out[s]))
      BY FlowShape
    <2>3. /\ Coheres(c, fs) /\ EndScene(c, fs) = EndScene(client[s], out[s])
          /\ ~ Waits(out[s]) => ~ Waits(fs)
      BY <2>1, <2>2, CoheresTail
    <2>4. Counted(s) => Counts(c, fs) /\ EndSeq(c, fs) = EndSeq(client[s], out[s])
      BY <2>1, <2>2, CountsTail
    <2> HIDE DEF c, fs
    <2>5. StreamOK(s)'
      BY <1>2, <2>1, <2>3, <2>4 DEF StreamOK
    <2>6. ASSUME NEW o \in Scenes, s \in subscribers[o] PROVE EndsAt(s, o)'
      <3>1. EndsAt(s, o)
        BY <2>6, FlowShape DEF EndsAt
      <3> QED
        BY <1>1, <1>2, <2>1, <2>3, <2>4, <3>1 DEF EndsAt
    <2>7. ASSUME NEW a \in Admins, s \in admin[a].transit PROVE EndsBefore(s, a)'
      <3>1. EndsBefore(s, a)
        BY <2>7, FlowShape DEF EndsBefore
      <3> QED
        BY <1>1, <1>2, <2>1, <2>3, <2>4, <3>1 DEF EndsBefore
    <2> QED
      BY <1>1, <2>5, <2>6, <2>7 DEF FlowOf
  <1> QED
    BY <1>3, <1>4

\* Every step keeps every stream in order.
LEMMA NextFlow == FlowInv /\ [Next]_vars => \A s \in Subs : FlowOf(s)'
  <1> SUFFICES ASSUME FlowInv, [Next]_vars PROVE \A s \in Subs : FlowOf(s)'
    OBVIOUS
  <1>0. admin \in [Admins -> AdminState] /\ subscribers \in [Scenes -> SUBSET Subs]
    BY DEF FlowInv, PinnedInv, OwnInv, Shape, TypeOK
  <1>1. ASSUME NEW a \in Admins, NEW id \in Ids, NEW o \in Objs, NewScene(a, id, o)
        PROVE  \A s \in Subs : FlowOf(s)'
    <2>1. /\ UNCHANGED <<subscribers, seq, out, client, stale>>
          /\ admin' = [admin EXCEPT ![a] =
               Proceed(IF active = None THEN Holding ELSE None, o, {scenes[id]} \ {None})]
      BY <1>1 DEF NewScene, subVars
    <2>2. \A x \in Admins : admin'[x] = admin[x] \/ admin'[x].transit = {}
      BY <1>0, <2>1, ProceedTransit
    <2> QED
      BY <2>1, <2>2, FlowQuiet
  <1>2. ASSUME NEW a \in Admins, NEW id \in Ids, SetActive(a, id)
        PROVE  \A s \in Subs : FlowOf(s)'
    <2>1. /\ UNCHANGED <<subscribers, seq, out, client, stale>>
          /\ admin' = [admin EXCEPT ![a] = Proceed(LiveScene, scenes[id], {})]
      BY <1>2 DEF SetActive, subVars
    <2>2. \A x \in Admins : admin'[x] = admin[x] \/ admin'[x].transit = {}
      BY <1>0, <2>1, ProceedTransit
    <2> QED
      BY <2>1, <2>2, FlowQuiet
  <1>3. ASSUME NEW a \in Admins, Reset(a) PROVE \A s \in Subs : FlowOf(s)'
    <2>1. /\ UNCHANGED <<subscribers, seq, out, client, stale>>
          /\ admin' = [admin EXCEPT ![a] = Proceed(None, None, Registered)]
      BY <1>3 DEF Reset, subVars
    <2>2. \A x \in Admins : admin'[x] = admin[x] \/ admin'[x].transit = {}
      BY <1>0, <2>1, ProceedTransit
    <2> QED
      BY <2>1, <2>2, FlowQuiet
  <1>4. ASSUME NEW a \in Admins, NEW o \in Objs, Reject(a, o) PROVE \A s \in Subs : FlowOf(s)'
    BY <1>4, FlowQuiet DEF Reject, subVars
  <1>5. ASSUME NEW a \in Admins, NEW o \in Objs, tearDown(a, o) PROVE \A s \in Subs : FlowOf(s)'
    <2>1. /\ UNCHANGED <<seq, out, client, stale>>
          /\ subscribers' = [subscribers EXCEPT ![o] = {}]
          /\ admin' = [admin EXCEPT ![a] = Proceed(None, None, admin[a].tear \ {o})]
      BY <1>5 DEF tearDown
    <2>2. /\ \A x \in Admins : admin'[x] = admin[x] \/ admin'[x].transit = {}
          /\ \A x \in Scenes : subscribers'[x] \subseteq subscribers[x]
      BY <1>0, <2>1, ProceedTransit
    <2> QED
      BY <2>1, <2>2, FlowQuiet
  <1>6. ASSUME NEW s \in Subs, NEW o \in Scenes, resolveScene(s, o) PROVE \A x \in Subs : FlowOf(x)'
    BY <1>6, FlowQuiet DEF resolveScene, subVars
  <1>7. ASSUME NEW s \in Subs, checkRejection(s) \/ hangUp(s) \/ detach(s)
        PROVE  \A x \in Subs : FlowOf(x)'
    BY <1>7, FlowQuiet DEF checkRejection, hangUp, detach, subVars
  <1>8. ASSUME NEW s \in Subs, NEW o \in Scenes, unsubscribe(s, o) PROVE \A x \in Subs : FlowOf(x)'
    <2>1. /\ UNCHANGED <<seq, out, client, stale, admin>>
          /\ \A x \in Scenes : subscribers'[x] \subseteq subscribers[x]
      BY <1>0, <1>8 DEF unsubscribe
    <2> QED
      BY <2>1, FlowQuiet
  <1>9. CASE UNCHANGED vars
    BY <1>9, FlowQuiet DEF vars
  <1> QED
    BY <1>1, <1>2, <1>3, <1>4, <1>5, <1>6, <1>7, <1>8, <1>9, FlowMigrate1, FlowMigrate2, FlowPanics,
       FlowEmit, FlowSubscribe, FlowDeliver, Zenon DEF Next, AdminStep, HandlerStep

\* The inductive invariant, whatever the admins call and however many there are.
LEMMA InitFlow == Init => FlowInv
  <1> SUFFICES ASSUME Init PROVE FlowInv
    OBVIOUS
  <1>1. PinnedInv
    BY InitOwnInv, InitPinned DEF PinnedInv
  <1>2. ASSUME NEW s \in Subs PROVE FlowOf(s)
    BY DEF Init, FlowOf, StreamOK, Coheres, Counts, Idle
  <1> QED
    BY <1>1, <1>2 DEF FlowInv

\* What the streams mean for the clients.
LEMMA FlowMeans == FlowInv => SceneCoherent /\ LiveNoGap
  <1> SUFFICES ASSUME FlowInv PROVE SceneCoherent /\ LiveNoGap
    OBVIOUS
  <1>1. SceneCoherent
    <2>1. \A s \in Subs : Coheres(client[s], out[s])
      BY DEF FlowInv, FlowOf, StreamOK
    <2> QED
      BY <2>1 DEF Coheres, SceneCoherent, SceneBefore, AfterChange
  <1>2. ASSUME NEW s \in Live PROVE Continues(s)
    <2>1. s \in Subs
      BY DEF Subs
    <2>2. ~ stale[s] => Counts(client[s], out[s])
      BY <2>1 DEF FlowInv, FlowOf, StreamOK, Counted
    <2> QED
      BY <2>2 DEF Counts, Continues, SeqBefore
  <1> QED
    BY <1>1, <1>2 DEF LiveNoGap

LEMMA FlowInvariant == Spec => []FlowInv
  <1>1. Init => FlowInv
    BY InitFlow
  <1>2. FlowInv /\ [Next]_vars => FlowInv'
    <2>1. OwnInv /\ [Next]_vars => OwnInv'
      BY NextShape, NextOwn DEF OwnInv
    <2> QED
      BY <2>1, NextPinned, NextFlow DEF FlowInv, PinnedInv
  <1> QED
    BY <1>1, <1>2, PTL DEF Spec

-----------------------------------------------------------------------------
(* Where the live clients are, when calls come one at a time. *)

\* One goroutine makes the server-level calls.
Serial == \A a, b \in Admins : a = b

\* A scene is registered under one id, and is a scene that NewScene made.
Filed ==
  /\ \A i \in Ids : scenes[i] # None => scenes[i] \in created
  /\ \A i, j \in Ids : scenes[i] = scenes[j] /\ scenes[i] # None => i = j

\* A server with scenes has an active one; what is torn down, or will be, is no
\* longer registered; a migration leads to the live scene from another one, and
\* nothing is left to tear down after it.
Migrations ==
  /\ active = None => \A i \in Ids : scenes[i] = None
  /\ torn \subseteq created \ Registered
  /\ \A a \in Admins :
       /\ admin[a].tear \subseteq created \ Registered
       /\ admin[a].pc = "idle" => admin[a] = Idle
       /\ admin[a].pc \in {"migrate1", "migrate2"} =>
            admin[a].next = LiveScene /\ admin[a].tear = {}
       /\ admin[a].pc = "migrate1" => admin[a].prev # LiveScene

\* The connections LiveFollows is about.
Watched(s) == conn[s] = "run" /\ ~ stale[s] /\ ~ late[s] /\ ~ closed[s] /\ s \notin lost

\* s is on the live scene, or about to be taken there.
Follows(s) ==
  \/ s \in subscribers[LiveScene]
  \/ \E a \in Admins : admin[a].pc = "migrate1" /\ s \in subscribers[admin[a].prev]
  \/ \E a \in Admins : admin[a].pc = "migrate2" /\ s \in admin[a].transit

\* Or about to be closed.
Escorted(s) ==
  \/ Follows(s)
  \/ \E a \in Admins : admin[a].pc = "tear" /\ \E o \in admin[a].tear : s \in subscribers[o]

FollowInv ==
  /\ OwnInv /\ Serial /\ Filed /\ Migrations
  /\ \A s \in Live : Watched(s) => Escorted(s)

\* What Proceed returns when there is nothing to tear down.
LEMMA ProceedSerial ==
  ASSUME NEW prev \in Scenes \cup {None}, NEW next
  PROVE  /\ prev = None => Proceed(prev, next, {}) = Idle
         /\ prev # None => /\ Proceed(prev, next, {}).pc = "migrate1"
                            /\ Proceed(prev, next, {}).prev = prev
                            /\ Proceed(prev, next, {}).next = next
                            /\ Proceed(prev, next, {}).tear = {}
         /\ Idle.pc = "idle" /\ Idle.tear = {} /\ Idle.transit = {}
  BY DEF Proceed, Idle

\* What Proceed returns when there is nothing to migrate.
LEMMA ProceedOn ==
  ASSUME NEW next, NEW tear
  PROVE  /\ tear = {} => Proceed(None, next, tear) = Idle
         /\ tear # {} => Proceed(None, next, tear).pc = "tear" /\ Proceed(None, next, tear).tear = tear
  BY DEF Proceed, Idle

\* The live scene is not among those torn down or about to be.
LEMMA LiveStays ==
  ASSUME FollowInv
  PROVE  /\ LiveScene \notin torn
         /\ \A a \in Admins : LiveScene \notin admin[a].tear
  <1>1. LiveScene = Holding \/ LiveScene \in Registered
    BY DEF FollowInv, OwnInv, Shape, ActiveRegistered, TypeOK, LiveScene, Registered
  <1>2. Holding \notin created
    BY DistinctAssumption DEF FollowInv, OwnInv, Shape, TypeOK
  <1> QED
    BY <1>1, <1>2 DEF FollowInv, Migrations

\* A step that moves no subscription and registers none.
LEMMA FollowQuiet ==
  ASSUME FollowInv, UNCHANGED <<scenes, active, created, admin, torn>>,
         \A s \in Live : Watched(s)' =>
           /\ Watched(s)
           /\ \A o \in Scenes : s \in subscribers[o] => s \in subscribers'[o]
  PROVE  /\ Filed' /\ Migrations'
         /\ \A s \in Live : Watched(s)' => Escorted(s)'
  <1>1. LiveScene' = LiveScene /\ LiveScene \in Scenes
    BY LiveSceneType DEF LiveScene, FollowInv, OwnInv
  <1>2. Filed' /\ Migrations'
    BY <1>1 DEF FollowInv, Filed, Migrations, Registered
  <1>3. ASSUME NEW s \in Live, Watched(s)' PROVE Escorted(s)'
    <2>1. /\ Escorted(s)
          /\ \A o \in Scenes : s \in subscribers[o] => s \in subscribers'[o]
      BY <1>3 DEF FollowInv
    <2>2. CASE s \in subscribers[LiveScene]
      BY <1>1, <2>1, <2>2 DEF Escorted, Follows
    <2>3. ASSUME NEW a \in Admins, admin[a].pc = "migrate1" /\ s \in subscribers[admin[a].prev]
          PROVE  Escorted(s)'
      <3>1. admin[a].prev \in Scenes
        BY <2>3 DEF FollowInv, OwnInv, Shape, AdminShape
      <3> QED
        BY <2>1, <2>3, <3>1 DEF Escorted, Follows
    <2>4. ASSUME NEW a \in Admins, admin[a].pc = "migrate2" /\ s \in admin[a].transit
          PROVE  Escorted(s)'
      BY <2>4 DEF Escorted, Follows
    <2>5. ASSUME NEW a \in Admins, admin[a].pc = "tear", NEW o \in admin[a].tear, s \in subscribers[o]
          PROVE  Escorted(s)'
      <3>1. o \in Scenes
        BY DEF FollowInv, OwnInv, Shape, TypeOK, AdminState, Scenes
      <3> QED
        BY <2>1, <2>5, <3>1 DEF Escorted, Follows
    <2> QED
      BY <2>1, <2>2, <2>3, <2>4, <2>5 DEF Escorted, Follows
  <1> QED
    BY <1>2, <1>3

\* With one goroutine, an idle one means that nothing is under way.
LEMMA AllIdle ==
  ASSUME FollowInv, NEW a \in Admins, admin[a] = Idle
  PROVE  /\ \A x \in Admins : x = a
         /\ \A s \in Live : Watched(s) => s \in subscribers[LiveScene]
  <1>1. \A x \in Admins : x = a
    BY DEF FollowInv, Serial
  <1>2. \A x \in Admins : admin[x].pc = "idle"
    BY <1>1 DEF Idle
  <1> QED
    BY <1>1, <1>2 DEF FollowInv, Escorted, Follows

\* A call that changes the live scene sends its subscribers after it.
LEMMA FollowSwitch ==
  ASSUME FollowInv, NEW a \in Admins, admin[a] = Idle, NEW next \in Objs,
         admin' = [admin EXCEPT ![a] = Proceed(LiveScene, next, {})],
         LiveScene' = next, LiveScene # next,
         torn \cap Registered' = {}, created \subseteq created', active' # None,
         UNCHANGED <<subscribers, torn, conn, stale, late, closed, lost>>
  PROVE  /\ Migrations'
         /\ \A s \in Live : Watched(s)' => Escorted(s)'
  <1>1. LiveScene \in Scenes /\ LiveScene # None
    BY LiveSceneType, DistinctAssumption DEF FollowInv, OwnInv, Scenes
  <1>2. \A x \in Admins : x = a
    BY AllIdle
  <1>3. admin'[a] = Proceed(LiveScene, next, {})
    BY DEF FollowInv, OwnInv, Shape, TypeOK
  <1>4. /\ admin'[a].pc = "migrate1" /\ admin'[a].prev = LiveScene /\ admin'[a].next = next
        /\ admin'[a].tear = {}
    <2>1. /\ Proceed(LiveScene, next, {}).pc = "migrate1"
          /\ Proceed(LiveScene, next, {}).prev = LiveScene
          /\ Proceed(LiveScene, next, {}).next = next
          /\ Proceed(LiveScene, next, {}).tear = {}
      BY <1>1, ProceedSerial
    <2> QED
      BY <1>3, <2>1
  <1>5. Migrations'
    BY <1>2, <1>4 DEF Migrations, FollowInv
  <1>6. ASSUME NEW s \in Live, Watched(s)' PROVE Escorted(s)'
    <2>1. s \in subscribers[LiveScene]
      BY <1>6, AllIdle DEF Watched
    <2> QED
      BY <1>4, <2>1 DEF Escorted, Follows
  <1> QED
    BY <1>5, <1>6

\* Every step keeps the live clients on the way to the live scene.
LEMMA NextFollow ==
  ASSUME FollowInv, [Next]_vars
  PROVE  /\ Filed' /\ Migrations'
         /\ \A s \in Live : Watched(s)' => Escorted(s)'
  <1> DEFINE Goal == /\ Filed' /\ Migrations'
                     /\ \A s \in Live : Watched(s)' => Escorted(s)'
  <1>0. /\ Shape /\ OneOwner /\ Serial /\ Filed /\ Migrations /\ TypeOK
        /\ LiveScene \in Scenes
        /\ \A s \in Live : s \in Subs
    BY LiveSceneType DEF FollowInv, OwnInv, Shape, Subs
  <1>1. ASSUME NEW a \in Admins, NEW id \in Ids, NEW o \in Objs, NewScene(a, id, o) PROVE Goal
    <2>1. /\ admin[a] = Idle /\ o \in Objs \ created
          /\ created' = created \cup {o} /\ scenes' = [scenes EXCEPT ![id] = o]
          /\ active' = IF active = None THEN id ELSE active
          /\ UNCHANGED <<subscribers, torn, conn, stale, late, closed, lost>>
      BY <1>0, <1>1 DEF NewScene, handlerVars, subVars, panicVars
    <2>2. scenes[id] = None =>
            admin' = [admin EXCEPT ![a] = Proceed(IF active = None THEN Holding ELSE None, o, {})]
      <3>1. scenes[id] = None => {scenes[id]} \ {None} = {}
        OBVIOUS
      <3> QED
        BY <1>1, <3>1 DEF NewScene
    <2>3. Filed'
      <3>1. o \notin created /\ o # None
        BY <2>1, DistinctAssumption
      <3> QED
        BY <1>0, <2>1, <3>1 DEF Filed, TypeOK
    <2>4. active' # None
      BY <2>1, DistinctAssumption
    <2>5. Registered' = (Registered \ {scenes[id]}) \cup {o}
      BY <1>0, <2>1, DistinctAssumption DEF Registered, Filed, TypeOK
    <2>6. torn \cap Registered' = {}
      BY <1>0, <2>1, <2>5 DEF Migrations
    <2>7. CASE active = None
      <3>0. scenes[id] = None
        BY <1>0, <2>7 DEF Migrations
      <3>1. LiveScene = Holding /\ LiveScene' = o
        BY <1>0, <2>1, <2>7, DistinctAssumption DEF LiveScene, TypeOK
      <3>2. admin' = [admin EXCEPT ![a] = Proceed(LiveScene, o, {})] /\ LiveScene # o
        BY <2>2, <2>7, <3>0, <3>1, DistinctAssumption
      <3> QED
        BY <2>1, <2>3, <2>6, <2>4, <3>1, <3>2, FollowSwitch
    <2>8. CASE active # None /\ scenes[id] = None
      <3>1. admin' = admin
        <4>1. Proceed(None, o, {}) = Idle
          BY ProceedSerial
        <4> QED
          BY <1>0, <2>1, <2>2, <2>8, <4>1 DEF TypeOK
      <3>2. active \in Ids /\ active # id /\ active' = active
        BY <1>0, <2>1, <2>8 DEF TypeOK, Shape, ActiveRegistered
      <3>3. LiveScene' = LiveScene
        BY <1>0, <2>1, <2>8, <3>2 DEF LiveScene, TypeOK
      <3>4. Migrations'
        <4>1. \A x \in Admins : admin[x].tear \subseteq created' \ Registered'
          BY <1>0, <2>1, <2>5 DEF Migrations
        <4> QED
          BY <1>0, <2>1, <2>6, <2>4, <3>1, <3>3, <4>1 DEF Migrations
      <3>5. \A s \in Live : Watched(s)' => Escorted(s)'
        BY <2>1, <3>1, <3>3 DEF FollowInv, Escorted, Follows, Watched
      <3> QED
        BY <2>3, <3>4, <3>5
    <2>9. CASE active # None /\ scenes[id] # None
      <3> DEFINE old == scenes[id]
      <3>1. admin'[a].pc = "tear" /\ admin'[a].tear = {old}
        <4>1. {old} \ {None} = {old}
          BY <2>9
        <4>2. admin' = [admin EXCEPT ![a] = Proceed(None, o, {old})]
          BY <1>1, <2>9, <4>1 DEF NewScene
        <4>3. admin'[a] = Proceed(None, o, {old})
          BY <1>0, <4>2 DEF TypeOK
        <4> QED
          BY <4>3, ProceedOn
      <3>2. old \in created /\ old # o
        BY <1>0, <2>1, <2>9 DEF Filed
      <3>3. old \notin Registered' /\ \A x \in Admins : x = a
        BY <1>0, <2>5, <3>2 DEF Serial
      <3>4. Migrations'
        BY <1>0, <2>1, <2>6, <2>4, <3>1, <3>2, <3>3 DEF Migrations
      <3>5. LiveScene = old \/ LiveScene' = LiveScene
        BY <1>0, <2>1, <2>9, DistinctAssumption DEF LiveScene, TypeOK, Shape, ActiveRegistered
      <3>6. ASSUME NEW s \in Live, Watched(s)' PROVE Escorted(s)'
        <4>1. s \in subscribers[LiveScene]
          BY <2>1, <3>6, AllIdle DEF Watched
        <4> QED
          BY <2>1, <3>1, <3>5, <4>1 DEF Escorted, Follows
      <3> QED
        BY <2>3, <3>4, <3>6
    <2> QED
      BY <2>7, <2>8, <2>9
  <1>2. ASSUME NEW a \in Admins, NEW id \in Ids, SetActive(a, id) PROVE Goal
    <2>1. /\ admin[a] = Idle /\ scenes[id] # None /\ active # id /\ active' = id
          /\ admin' = [admin EXCEPT ![a] = Proceed(LiveScene, scenes[id], {})]
          /\ UNCHANGED <<scenes, created, subscribers, torn, conn, stale, late, closed, lost>>
      BY <1>2 DEF SetActive, handlerVars, subVars, panicVars
    <2>2. scenes[id] \in Objs
      BY <1>0, <2>1 DEF TypeOK
    <2>3. LiveScene' = scenes[id]
      BY <2>1, DistinctAssumption DEF LiveScene
    <2>4. LiveScene # scenes[id]
      BY <1>0, <2>1, <2>2, DistinctAssumption DEF LiveScene, Filed, TypeOK
    <2>5. Filed'
      BY <1>0, <2>1 DEF Filed
    <2>6. active' # None
      BY <2>1, DistinctAssumption
    <2>7. torn \cap Registered' = {}
      BY <1>0, <2>1 DEF Migrations, Registered
    <2> QED
      BY <2>1, <2>2, <2>3, <2>4, <2>5, <2>7, <2>6, FollowSwitch
  <1>3. ASSUME NEW a \in Admins, Reset(a) PROVE Goal
    <2>1. /\ admin[a] = Idle /\ active' = None /\ scenes' = [i \in Ids |-> None]
          /\ admin' = [admin EXCEPT ![a] = Proceed(None, None, Registered)]
          /\ UNCHANGED <<created, subscribers, torn, conn, stale, late, closed, lost>>
      BY <1>3 DEF Reset, handlerVars, subVars, panicVars
    <2>2. Filed' /\ Registered' = {} /\ LiveScene' = Holding
      BY <2>1 DEF Filed, Registered, LiveScene
    <2>3. Registered \subseteq created /\ \A x \in Admins : x = a
      BY <1>0 DEF Filed, Registered, Serial
    <2>4. /\ admin'[a] = Proceed(None, None, Registered)
          /\ Registered = {} => admin'[a] = Idle
          /\ Registered # {} => admin'[a].pc = "tear" /\ admin'[a].tear = Registered
      <3>1. admin'[a] = Proceed(None, None, Registered)
        BY <1>0, <2>1 DEF TypeOK
      <3> QED
        BY <3>1, ProceedOn
    <2>5. Migrations'
      BY <1>0, <2>1, <2>2, <2>3, <2>4, ProceedSerial DEF Migrations
    <2>6. ASSUME NEW s \in Live, Watched(s)' PROVE Escorted(s)'
      <3>1. s \in subscribers[LiveScene]
        BY <2>1, <2>6, AllIdle DEF Watched
      <3>2. LiveScene = Holding \/ LiveScene \in Registered
        BY <1>0 DEF Shape, ActiveRegistered, TypeOK, LiveScene, Registered
      <3> QED
        BY <2>1, <2>2, <2>4, <3>1, <3>2 DEF Escorted, Follows
    <2> QED
      BY <2>2, <2>5, <2>6
  <1>4. ASSUME NEW a \in Admins, NEW o \in Objs, Reject(a, o) PROVE Goal
    BY <1>4, FollowQuiet DEF Reject, handlerVars, subVars, panicVars, Watched
  <1>5. ASSUME NEW a \in Admins, migrate1(a) PROVE Goal
    <2> DEFINE prev == admin[a].prev
               live == subscribers[prev] \cap Live
    <2>1. /\ prev \in Scenes /\ admin[a].pc = "migrate1" /\ prev # LiveScene
          /\ admin[a].next = LiveScene /\ admin[a].tear = {}
      BY <1>0, <1>5 DEF migrate1, Shape, AdminShape, Migrations
    <2>2. /\ subscribers' = [subscribers EXCEPT ![prev] = @ \ live]
          /\ admin' = [admin EXCEPT ![a] =
               IF live = {} THEN AfterMigration(a)
               ELSE [admin[a] EXCEPT !.pc = "migrate2", !.transit = live, !.bump = seq'[prev]]]
          /\ UNCHANGED <<scenes, active, created, torn, conn, stale, late, closed, lost>>
      BY <1>5 DEF migrate1, handlerVars, subVars, sceneVars, panicVars
    <2>3. /\ LiveScene' = LiveScene /\ Registered' = Registered /\ Filed'
          /\ \A x \in Admins : x = a
      BY <1>0, <2>2 DEF LiveScene, Filed, Serial, Registered
    <2>4. AfterMigration(a) = Idle
      <3>1. Proceed(None, None, {}) = Idle
        BY ProceedSerial
      <3> QED
        BY <2>1, <3>1 DEF AfterMigration
    <2>5. /\ admin'[a].tear = {} /\ admin'[a].pc \in {"idle", "migrate2"}
          /\ admin'[a].pc = "idle" => admin'[a] = Idle
          /\ admin'[a].pc = "migrate2" => admin'[a].next = LiveScene
          /\ live # {} => admin'[a].pc = "migrate2" /\ admin'[a].transit = live
      <3>1. CASE live = {}
        BY <1>0, <2>2, <2>4, <3>1, ProceedSerial DEF TypeOK
      <3>2. CASE live # {}
        <4>1. admin'[a] = [admin[a] EXCEPT !.pc = "migrate2", !.transit = live, !.bump = seq'[prev]]
          BY <1>0, <2>2, <3>2 DEF TypeOK
        <4>2. admin[a] \in AdminState /\ admin[a].tear = {}
          BY <1>0, <2>1 DEF TypeOK
        <4> HIDE DEF live
        <4>3. /\ admin'[a].pc = "migrate2" /\ admin'[a].transit = live
              /\ admin'[a].next = admin[a].next /\ admin'[a].tear = admin[a].tear
          BY <4>1, <4>2 DEF AdminState
        <4> QED
          BY <2>1, <4>2, <4>3
      <3> QED
        BY <3>1, <3>2
    <2>6. Migrations'
      BY <1>0, <2>2, <2>3, <2>5 DEF Migrations
    <2>7. ASSUME NEW s \in Live, Watched(s)' PROVE Escorted(s)'
      <3>1. Escorted(s)
        BY <2>2, <2>7 DEF FollowInv, Watched
      <3>2. s \in subscribers[LiveScene] \/ s \in subscribers[prev]
        BY <2>1, <2>3, <3>1 DEF Escorted, Follows
      <3>3. CASE s \in subscribers[LiveScene]
        <4>1. subscribers'[LiveScene] = subscribers[LiveScene]
          BY <1>0, <2>1, <2>2 DEF TypeOK
        <4> QED
          BY <2>3, <3>3, <4>1 DEF Escorted, Follows
      <3>4. CASE s \in subscribers[prev]
        <4>1. s \in live
          BY <3>4
        <4>2. admin'[a].pc = "migrate2" /\ s \in admin'[a].transit
          BY <2>5, <4>1
        <4> QED
          BY <4>2 DEF Escorted, Follows
      <3> QED
        BY <3>2, <3>3, <3>4
    <2> QED
      BY <2>3, <2>6, <2>7
  <1>6. ASSUME NEW a \in Admins, migrate2(a) PROVE Goal
    <2> DEFINE next == admin[a].next
               moved == admin[a].transit
               two == {s \in moved : Free(s) >= 2}
    <2>1. next = LiveScene /\ admin[a].pc = "migrate2" /\ admin[a].tear = {}
      BY <1>0, <1>6 DEF migrate2, Migrations
    <2>2. /\ stale' = [s \in Subs |-> stale[s] \/ s \in moved \ two]
          /\ subscribers' = [subscribers EXCEPT ![next] = @ \cup two]
          /\ admin' = [admin EXCEPT ![a] = AfterMigration(a)]
          /\ UNCHANGED <<scenes, active, created, torn, conn, late, closed, lost>>
      BY <1>6, <2>1 DEF migrate2, handlerVars, sceneVars, panicVars
    <2>3. /\ LiveScene' = LiveScene /\ Registered' = Registered /\ Filed'
          /\ \A x \in Admins : x = a
      BY <1>0, <2>2 DEF LiveScene, Filed, Serial, Registered
    <2>4. AfterMigration(a) = Idle
      <3>1. Proceed(None, None, {}) = Idle
        BY ProceedSerial
      <3> QED
        BY <2>1, <3>1 DEF AfterMigration
    <2>5. admin'[a] = Idle
      BY <1>0, <2>2, <2>4 DEF TypeOK
    <2>6. Migrations'
      BY <1>0, <2>2, <2>3, <2>5, ProceedSerial DEF Migrations
    <2> HIDE DEF two
    <2>7. ASSUME NEW s \in Live, Watched(s)' PROVE Escorted(s)'
      <3>1. ~ stale[s] /\ (s \in moved => s \in two)
        BY <1>0, <2>2, <2>7 DEF Watched
      <3>2. Escorted(s)
        BY <2>2, <2>7, <3>1 DEF FollowInv, Watched
      <3>3. s \in subscribers[LiveScene] \/ s \in moved
        BY <2>1, <2>3, <3>2 DEF Escorted, Follows
      <3>4. s \in subscribers'[LiveScene]
        BY <1>0, <2>1, <2>2, <3>1, <3>3 DEF TypeOK
      <3> QED
        BY <2>3, <3>4 DEF Escorted, Follows
    <2> QED
      BY <2>3, <2>6, <2>7
  <1>7. ASSUME NEW a \in Admins, NEW o \in Objs, tearDown(a, o) PROVE Goal
    <2>1. /\ admin[a].pc = "tear" /\ o \in admin[a].tear
          /\ closed' = [s \in Subs |-> closed[s] \/ s \in subscribers[o]]
          /\ subscribers' = [subscribers EXCEPT ![o] = {}]
          /\ torn' = torn \cup {o}
          /\ admin' = [admin EXCEPT ![a] = Proceed(None, None, admin[a].tear \ {o})]
          /\ UNCHANGED <<scenes, active, created, conn, stale, late, lost>>
      BY <1>7 DEF tearDown, handlerVars, sceneVars, panicVars
    <2>2. /\ LiveScene' = LiveScene /\ Registered' = Registered /\ Filed'
          /\ \A x \in Admins : x = a
      BY <1>0, <2>1 DEF LiveScene, Filed, Serial, Registered
    <2> DEFINE left == admin[a].tear \ {o}
    <2>3. /\ admin'[a] = Proceed(None, None, left)
          /\ left = {} => admin'[a] = Idle
          /\ left # {} => admin'[a].pc = "tear" /\ admin'[a].tear = left
      <3>1. admin'[a] = Proceed(None, None, left)
        BY <1>0, <2>1 DEF TypeOK
      <3> QED
        BY <3>1, ProceedOn
    <2>4. Migrations'
      <3>1. left \subseteq created \ Registered /\ o \in created \ Registered
        BY <1>0, <2>1 DEF Migrations
      <3>2. CASE left = {}
        BY <1>0, <2>1, <2>2, <2>3, <3>1, <3>2, ProceedSerial DEF Migrations
      <3>3. CASE left # {}
        <4> HIDE DEF left
        <4> QED
          BY <1>0, <2>1, <2>2, <2>3, <3>1, <3>3 DEF Migrations
      <3> QED
        BY <3>2, <3>3
    <2>5. ASSUME NEW s \in Live, Watched(s)' PROVE Escorted(s)'
      <3>1. Watched(s) /\ s \notin subscribers[o]
        BY <1>0, <2>1, <2>5 DEF Watched
      <3>2. \/ s \in subscribers[LiveScene]
            \/ \E x \in admin[a].tear : s \in subscribers[x]
        BY <2>1, <2>2, <3>1 DEF FollowInv, Escorted, Follows
      <3>3. CASE s \in subscribers[LiveScene]
        <4>1. LiveScene # o
          BY <2>1, LiveStays
        <4> QED
          BY <1>0, <2>1, <2>2, <3>3, <4>1 DEF Escorted, Follows, TypeOK
      <3>4. ASSUME NEW x \in admin[a].tear, s \in subscribers[x] PROVE Escorted(s)'
        <4>1. x \in left /\ x \in Scenes
          BY <1>0, <3>1, <3>4 DEF TypeOK, AdminState, Scenes
        <4>2. s \in subscribers'[x]
          BY <1>0, <2>1, <3>4, <4>1 DEF TypeOK
        <4>3. admin'[a].pc = "tear" /\ x \in admin'[a].tear
          BY <2>3, <4>1
        <4> QED
          BY <4>2, <4>3 DEF Escorted, Follows
      <3> QED
        BY <3>2, <3>3, <3>4
    <2> QED
      BY <2>2, <2>4, <2>5
  <1>8. ASSUME NEW o \in Scenes, NEW K \in SUBSET subscribers[o], emit(o, K) PROVE Goal
    <2>1. /\ UNCHANGED <<scenes, active, created, admin, torn, subscribers, conn, late, closed, lost>>
          /\ \A s \in Live : ~ stale'[s] => ~ stale[s]
      BY <1>0, <1>8 DEF emit, handlerVars, sceneVars, panicVars
    <2> QED
      BY <2>1, FollowQuiet DEF Watched
  <1>9. ASSUME NEW s \in Subs, NEW o \in Scenes, resolveScene(s, o) PROVE Goal
    <2>1. /\ UNCHANGED <<scenes, active, created, admin, torn, subscribers, stale, late, closed, lost>>
          /\ \A x \in Live : conn'[x] = "run" => conn[x] = "run"
      BY <1>0, <1>9 DEF resolveScene, subVars, sceneVars, panicVars, TypeOK
    <2> QED
      BY <2>1, FollowQuiet DEF Watched
  <1>10. ASSUME NEW s \in Subs, checkRejection(s) \/ hangUp(s) \/ detach(s) PROVE Goal
    <2>1. /\ UNCHANGED <<scenes, active, created, admin, torn, subscribers, stale, late, closed, lost>>
          /\ \A x \in Live : conn'[x] = "run" => conn[x] = "run"
      BY <1>0, <1>10 DEF checkRejection, hangUp, detach, subVars, sceneVars, panicVars, TypeOK
    <2> QED
      BY <2>1, FollowQuiet DEF Watched
  <1>11. ASSUME NEW s \in Subs, subscribe(s) PROVE Goal
    <2> DEFINE o == captured[s]
    <2>1. CASE o \in torn
      <3>1. /\ UNCHANGED <<scenes, active, created, admin, torn, subscribers, stale, late, closed, lost>>
            /\ \A x \in Live : conn'[x] = "run" => conn[x] = "run"
        BY <1>0, <1>11, <2>1 DEF subscribe, sceneVars, panicVars, TypeOK
      <3> QED
        BY <3>1, FollowQuiet DEF Watched
    <2>2. CASE o \notin torn
      <3>1. /\ subscribers' = [subscribers EXCEPT ![o] = @ \cup {s}]
            /\ conn' = [conn EXCEPT ![s] = "run"] /\ conn[s] = "checked"
            /\ late' = [late EXCEPT ![s] = s \in Live /\ o # LiveScene]
            /\ UNCHANGED <<scenes, active, created, torn, admin, stale, closed, lost>>
        BY <1>11, <2>2 DEF subscribe, sceneVars, panicVars
      <3>2. o \in Scenes
        BY <1>0, <3>1 DEF Shape, HandlerShape
      <3>3. LiveScene' = LiveScene /\ Registered' = Registered /\ Filed'
        BY <1>0, <3>1 DEF LiveScene, Registered, Filed
      <3>4. Migrations'
        BY <1>0, <3>1, <3>3 DEF Migrations
      <3>5. \A x \in Scenes : subscribers[x] \subseteq subscribers'[x]
        BY <1>0, <3>1, <3>2 DEF TypeOK
      <3>6. ASSUME NEW x \in Live, Watched(x)' PROVE Escorted(x)'
        <4>1. CASE x = s
          <5>1. o = LiveScene
            BY <1>0, <3>1, <3>6, <4>1 DEF TypeOK, Watched
          <5>2. s \in subscribers'[LiveScene]
            BY <1>0, <3>1, <3>2, <5>1 DEF TypeOK
          <5> QED
            BY <3>3, <4>1, <5>2 DEF Escorted, Follows
        <4>2. CASE x # s
          <5>1. Watched(x)
            BY <1>0, <3>1, <3>6, <4>2 DEF TypeOK, Watched
          <5>2. Escorted(x)
            BY <5>1 DEF FollowInv
          <5>3. \A b \in Admins : admin[b].pc = "migrate1" => admin[b].prev \in Scenes
            BY <1>0 DEF Shape, AdminShape
          <5>4. \A b \in Admins : admin[b].tear \subseteq Scenes
            BY <1>0 DEF TypeOK, AdminState, Scenes
          <5> QED
            BY <1>0, <3>1, <3>3, <3>5, <5>2, <5>3, <5>4 DEF Escorted, Follows
        <4> QED
          BY <4>1, <4>2
      <3> QED
        BY <3>3, <3>4, <3>6
    <2> QED
      BY <2>1, <2>2
  <1>12. ASSUME NEW s \in Subs, deliver(s) PROVE Goal
    BY <1>12, FollowQuiet DEF deliver, handlerVars, sceneVars, panicVars, Watched
  <1>13. ASSUME NEW s \in Subs, NEW o \in Scenes, unsubscribe(s, o) PROVE Goal
    <2>1. /\ UNCHANGED <<scenes, active, created, admin, torn, stale, late, lost>>
          /\ conn[s] = "detaching" /\ conn'[s] # "run"
          /\ \A x \in Live : ~ closed'[x] => ~ closed[x]
          /\ \A x \in Live : x # s => conn'[x] = conn[x]
          /\ subscribers' = [subscribers EXCEPT ![o] = @ \ {s}]
      BY <1>0, <1>13 DEF unsubscribe, sceneVars, panicVars, TypeOK
    <2>2. \A x \in Live : x # s => \A y \in Scenes : x \in subscribers[y] => x \in subscribers'[y]
      BY <1>0, <2>1 DEF TypeOK
    <2> QED
      BY <2>1, <2>2, FollowQuiet DEF Watched
  <1>14. CASE UNCHANGED vars
    BY <1>14, FollowQuiet DEF vars, Watched
  <1>15. ASSUME NEW a \in Admins, migrate2Panics(a) PROVE Goal
    <2>1. admin[a].pc = "migrate2" /\ admin[a].next \in torn
      BY <1>15 DEF migrate2Panics
    <2>2. admin[a].next = LiveScene
      BY <1>0, <2>1 DEF Migrations
    <2> QED
      BY <2>1, <2>2, LiveStays
  <1> QED
    BY <1>1, <1>2, <1>3, <1>4, <1>5, <1>6, <1>7, <1>8, <1>9, <1>10, <1>11, <1>12, <1>13, <1>14,
       <1>15, Zenon DEF Next, AdminStep, HandlerStep

-----------------------------------------------------------------------------
(* The theorems. *)

\* The state keeps its shape and no subscription's queue outgrows its channel:
\* every send of emitWithCause, collapse and migrateLive finds the room its
\* select checked for.
THEOREM ServerTypeCorrect == Spec => []TypeOK
  <1>1. OwnInv => TypeOK
    BY DEF OwnInv, Shape
  <1> QED
    BY <1>1, OwnInvariant, PTL

\* However NewScene, SetActive, Reset and detach interleave, a subscription is
\* never registered with two scenes or held by two migrations.
THEOREM SingleOwner == Spec => []OneOwner
  <1>1. OwnInv => OneOwner
    BY DEF OwnInv
  <1> QED
    BY <1>1, OwnInvariant, PTL

\* A subscription that unsubscribe, NewScene or Reset closed is out of reach of
\* every fan-out and every migration, so nobody sends on its closed channel.
THEOREM ClosedUnreachable == Spec => []NoSendOnClosed
  <1>1. OwnInv => NoSendOnClosed
    BY DEF OwnInv
  <1> QED
    BY <1>1, OwnInvariant, PTL

\* A test-mode session never sees another scene than the one it asked for,
\* however the live endpoint moves: migrateLive takes the live subscriptions
\* only, and a fan-out reaches registered subscriptions only.
THEOREM TestSessionsPinned == Spec => []TestPinned
  <1>1. Init => PinnedInv
    BY InitOwnInv, InitPinned DEF PinnedInv
  <1>2. PinnedInv /\ [Next]_vars => PinnedInv'
    <2>1. OwnInv /\ [Next]_vars => OwnInv'
      BY NextShape, NextOwn DEF OwnInv
    <2> QED
      BY <2>1, NextPinned DEF PinnedInv
  <1>3. PinnedInv => TestPinned
    BY DEF PinnedInv
  <1> QED
    BY <1>1, <1>2, <1>3, PTL DEF Spec

\* Whatever NewScene, SetActive and Reset do, from any number of goroutines, a
\* client is never sent a Delta of a scene other than the one it shows by then,
\* and a SceneChanged is followed by the Snapshot of the scene it names or by
\* nothing.
THEOREM FramesCohere == Spec => []SceneCoherent
  BY FlowMeans, FlowInvariant, PTL

\* The numbers of a live client that is not marked stale continue across every
\* migration, also when migrations from several goroutines overlap: the number
\* migrateLive takes from prev is the successor of the last one prev sent.
THEOREM NumbersContinue == Spec => []LiveNoGap
  BY FlowMeans, FlowInvariant, PTL

\* When one goroutine makes the server-level calls, whichever they are, every
\* live client that subscribed to the live scene, and is neither stale nor
\* leaving nor was on a scene that NewScene replaced or Reset forgot, is on the
\* live scene whenever no call is under way, however it interleaved with the
\* migrations before.
THEOREM LiveClientsFollow == Spec /\ Serial => []LiveFollows
  <1>1. Init /\ Serial => FollowInv
    <2> SUFFICES ASSUME Init, Serial PROVE FollowInv
      OBVIOUS
    <2>1. OwnInv
      BY InitOwnInv
    <2>2. Filed /\ Migrations
      BY DEF Init, Filed, Migrations, Idle, Registered
    <2>3. \A s \in Live : conn[s] # "run"
      BY DEF Init, Subs
    <2> QED
      BY <2>1, <2>2, <2>3 DEF FollowInv, Watched
  <1>2. FollowInv /\ [Next]_vars => FollowInv'
    <2> SUFFICES ASSUME FollowInv, [Next]_vars PROVE FollowInv'
      OBVIOUS
    <2>1. OwnInv'
      BY NextShape, NextOwn DEF OwnInv, FollowInv
    <2>2. Serial'
      BY DEF FollowInv, Serial
    <2> QED
      BY <2>1, <2>2, NextFollow DEF FollowInv
  <1>3. FollowInv => LiveFollows
    <2> SUFFICES ASSUME FollowInv, Quiet, NEW s \in Live,
                        conn[s] = "run", ~ stale[s], ~ late[s], ~ closed[s], s \notin lost
                 PROVE  s \in subscribers[LiveScene]
      BY DEF LiveFollows
    <2>1. Escorted(s)
      BY DEF FollowInv, Watched
    <2>2. \A a \in Admins : admin[a].pc = "idle"
      BY DEF Quiet, Idle
    <2> QED
      BY <2>1, <2>2 DEF Escorted, Follows
  <1> QED
    BY <1>1, <1>2, <1>3, PTL DEF Spec
=============================================================================
