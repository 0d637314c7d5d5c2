------------------------- MODULE ControlPlaneProofs -------------------------
(***************************************************************************)
(* Proofs about ControlPlane for any number of scenarios, handlers,        *)
(* clients, requests and timeouts: what LiveServerProofs shows of the      *)
(* server holds under the handlers too, no open subscription is lost, a    *)
(* request that runs alone cannot fail, the driver can rely on its         *)
(* answers, and the live clients end up with the state of the scene.       *)
(***************************************************************************)
EXTENDS ControlPlane, LiveServerProofs

-----------------------------------------------------------------------------
(* What the steps do to the server. *)

\* Scene.Set's refreshAll, as a step of the server.
Refreshed(o) ==
  LET fit == {s \in subscribers[o] : Free(s) >= 1}
  IN  /\ out' = [s \in Subs |->
           IF s \in fit THEN Append(out[s], Frame("snapshot", o, seq[o])) ELSE out[s]]
      /\ stale' = [s \in Subs |-> stale[s] \/ s \in subscribers[o] \ fit]
      /\ UNCHANGED <<sceneVars, subscribers, torn, seq, admin, handlerVars, closed, client,
                     panicVars, calls>>

\* The step of the server that a step of the control plane or of a client is.
ServerMove ==
  \/ UNCHANGED vars
  \/ \E a \in Admins : \E id \in Ids : \E o \in Objs : NewScene(a, id, o)
  \/ \E a \in Admins : \E id \in Ids : SetActive(a, id)
  \/ \E a \in Admins : Reset(a)
  \/ \E a \in Admins : \E o \in Objs : Reject(a, o)
  \/ \E a \in Admins : AdminStep(a)
  \/ \E o \in created : \E K \in SUBSET subscribers[o] : emit(o, K)
  \/ \E o \in created : Refreshed(o)
  \/ \E s \in Subs : \E o \in Scenes : resolveScene(s, o)
  \/ \E s \in Subs : checkRejection(s) \/ subscribe(s) \/ deliver(s)

\* A refresh keeps the state's shape, the owners and the streams.
LEMMA RefreshFlow ==
  ASSUME FlowInv, NEW o \in Scenes, Refreshed(o)
  PROVE  FlowInv'
  <1> DEFINE fit == {x \in subscribers[o] : Free(x) >= 1}
             f == Frame("snapshot", o, seq[o])
  <1> USE DEF FlowInv, PinnedInv, OwnInv, Shape, TypeOK
  <1>1. /\ out' = [x \in Subs |-> IF x \in fit THEN Append(out[x], f) ELSE out[x]]
        /\ stale' = [x \in Subs |-> stale[x] \/ x \in subscribers[o] \ fit]
        /\ UNCHANGED <<scenes, active, created, rejected, subscribers, torn, seq, admin, conn,
                       captured, todo, late, closed, client, locked, lost, calls>>
    BY DEF Refreshed, sceneVars, handlerVars, panicVars
  <1>2. f \in FrameType /\ f.type = "snapshot" /\ f.seq = seq[o] /\ f.scene = o
    BY FrameIsFrame DEF Frame
  <1> HIDE DEF f
  <1>3. ASSUME NEW s \in Subs
        PROVE  out'[s] \in Seq(FrameType) /\ Free(s)' >= 0
    <2>1. CASE s \in fit
      <3>1. out'[s] = Append(out[s], f) /\ client'[s] = client[s]
        BY <1>1, <2>1
      <3>2. out'[s] \in Seq(FrameType) /\ Len(out'[s]) = Len(out[s]) + 1
        BY <3>1, <1>2
      <3> QED
        BY <2>1, <3>1, <3>2, OutCapAssumption DEF Free
    <2>2. CASE s \notin fit
      BY <1>1, <2>2 DEF Free
    <2> QED
      BY <2>1, <2>2
  <1>4. Shape'
    <2>1. out' \in [Subs -> Seq(FrameType)] /\ stale' \in [Subs -> BOOLEAN]
      BY <1>1, <1>3
    <2>2. TypeOK'
      BY <1>1, <1>3, <2>1
    <2> QED
      BY <1>1, <2>2 DEF AdminShape, ActiveRegistered, HandlerShape
  <1>5. OneOwner' /\ NoSendOnClosed' /\ NotYetOwned' /\ TransitLive'
    BY <1>1 DEF OneOwner, NoSendOnClosed, NotYetOwned, Unowned, TransitLive
  <1>6. NothingSent'
    <2> SUFFICES ASSUME NEW s \in Subs, conn'[s] \in {"off", "resolved", "checked"}
                 PROVE  out'[s] = <<>> /\ client'[s].scene = None
      BY DEF NothingSent
    <2>1. s \notin fit
      BY <1>1 DEF NotYetOwned, Unowned
    <2> QED
      BY <1>1, <2>1 DEF NothingSent
  <1>7. TestPinned'
    <2> SUFFICES ASSUME NEW s \in Test
                 PROVE  /\ \A x \in Scenes : s \in subscribers'[x] => x = captured'[s]
                        /\ \A i \in 1 .. Len(out'[s]) : out'[s][i].scene = captured'[s]
                        /\ client'[s].scene \in {None, captured'[s]}
      BY DEF TestPinned
    <2>0. s \in Subs
      BY DEF Subs
    <2>1. \A i \in 1 .. Len(out'[s]) : out'[s][i].scene = captured'[s]
      <3>1. CASE s \in fit
        <4>1. out'[s] = Append(out[s], f) /\ o = captured[s]
          BY <1>1, <2>0, <3>1 DEF TestPinned
        <4> QED
          BY <1>1, <1>2, <2>0, <4>1 DEF TestPinned
      <3>2. CASE s \notin fit
        BY <1>1, <2>0, <3>2 DEF TestPinned
      <3> QED
        BY <3>1, <3>2
    <2> QED
      BY <1>1, <2>1 DEF TestPinned
  <1>8. ASSUME NEW s \in Subs PROVE FlowOf(s)'
    <2>1. CASE s \in fit
      <3>1. /\ out'[s] = Append(out[s], f) /\ client'[s] = client[s]
            /\ (Counted(s)' => Counted(s))
            /\ s \in subscribers[o]
        BY <1>1, <2>1 DEF Counted
      <3>2. /\ \A x \in Scenes : s \in subscribers'[x] => x = o
            /\ \A x \in Admins : s \notin admin'[x].transit
        BY <1>1, <3>1 DEF OneOwner
      <3>3. /\ out[s] \in Seq(FrameType) /\ client[s] \in ClientState
            /\ Coheres(client[s], out[s]) /\ (Counted(s) => Counts(client[s], out[s]))
            /\ EndScene(client[s], out[s]) = o /\ ~ Waits(out[s])
        BY <3>1, FlowShape
      <3>4. /\ Coheres(client[s], Append(out[s], f)) /\ EndScene(client[s], Append(out[s], f)) = o
            /\ ~ Waits(Append(out[s], f))
        BY <1>2, <3>3, CoheresAppend
      <3>5. Counted(s) => /\ Counts(client[s], Append(out[s], f))
                          /\ EndSeq(client[s], Append(out[s], f)) = seq[o]
        BY <1>2, <3>3, CountsAppend
      <3> HIDE DEF fit
      <3>6. StreamOK(s)' /\ EndsAt(s, o)'
        BY <1>1, <3>1, <3>4, <3>5 DEF StreamOK, EndsAt
      <3> QED
        BY <3>2, <3>6 DEF FlowOf
    <2>2. CASE s \notin fit
      <3>1. /\ out'[s] = out[s] /\ client'[s] = client[s] /\ (Counted(s)' => Counted(s))
        BY <1>1, <2>2 DEF Counted
      <3> HIDE DEF FlowInv, fit
      <3> QED
        BY <1>1, <3>1, FlowKept
    <2> QED
      BY <2>1, <2>2
  <1> QED
    BY <1>4, <1>5, <1>6, <1>7, <1>8

\* Every other move is a step of LiveServer.
LEMMA MoveIsNext ==
  ASSUME FlowInv, ServerMove, \A o \in created : ~ Refreshed(o)
  PROVE  [Next]_vars
  <1>1. created \subseteq Scenes
    BY DEF FlowInv, PinnedInv, OwnInv, Shape, TypeOK, Scenes
  <1> QED
    BY <1>1, Zenon DEF ServerMove, Next, HandlerStep

\* What LiveServerProofs shows of the server's steps holds of the moves.
LEMMA MoveFlow ==
  ASSUME FlowInv, ServerMove
  PROVE  FlowInv'
  <1>1. CASE \E o \in created : Refreshed(o)
    <2>1. created \subseteq Scenes
      BY DEF FlowInv, PinnedInv, OwnInv, Shape, TypeOK, Scenes
    <2> QED
      BY <1>1, <2>1, RefreshFlow
  <1>2. CASE [Next]_vars
    <2>1. OwnInv' /\ TransitLive' /\ NothingSent' /\ TestPinned'
      BY <1>2, NextShape, NextOwn, NextPinned DEF FlowInv, PinnedInv, OwnInv
    <2>2. \A s \in Subs : FlowOf(s)'
      BY <1>2, NextFlow
    <2> QED
      BY <2>1, <2>2 DEF FlowInv, PinnedInv
  <1> QED
    BY <1>1, <1>2, MoveIsNext

-----------------------------------------------------------------------------
(* What the moves do, step by step. *)

\* A goroutine in no call.
LEMMA IdleParts ==
  Idle.pc = "idle" /\ Idle.tear = {} /\ Idle.transit = {} /\ Idle \in AdminState
  BY DEF Idle, AdminState

\* Where a call goes on.
LEMMA ProceedParts ==
  ASSUME NEW prev, NEW next, NEW tear
  PROVE  LET p == Proceed(prev, next, tear)
         IN  /\ p.tear = tear /\ p.transit = {}
             /\ p.pc # "migrate2" /\ (p.pc = "migrate1" <=> prev # None)
             /\ prev # None => p.prev = prev /\ p.next = next
  BY DEF Proceed, Idle

\* What the lemmas below take from the type.
LEMMA ServerType ==
  ASSUME FlowInv
  PROVE  /\ scenes \in [Ids -> Objs \cup {None}] /\ active \in Ids \cup {None}
         /\ created \subseteq Objs /\ torn \subseteq Objs /\ rejected \subseteq Objs
         /\ subscribers \in [Scenes -> SUBSET Subs] /\ seq \in [Scenes -> Nat \ {0}]
         /\ admin \in [Admins -> AdminState]
         /\ out \in [Subs -> Seq(FrameType)] /\ client \in [Subs -> ClientState]
         /\ Registered \subseteq Objs /\ LiveScene \in Scenes
         /\ active # None => LiveScene \in Registered /\ LiveScene = scenes[active]
         /\ active = None => LiveScene = Holding
  <1>1. Shape
    BY DEF FlowInv, PinnedInv, OwnInv
  <1> QED
    BY <1>1, LiveSceneType DEF Shape, TypeOK, Registered, LiveScene, ActiveRegistered

LEMMA NewSceneParts ==
  ASSUME FlowInv, NEW a \in Admins, NEW id \in Ids, NEW o, NewScene(a, id, o)
  PROVE  /\ admin[a] = Idle /\ o \in Objs \ created
         /\ created' = created \cup {o}
         /\ scenes'[id] = o /\ \A j \in Ids : j # id => scenes'[j] = scenes[j]
         /\ active' = (IF active = None THEN id ELSE active)
         /\ \A b \in Admins : b # a => admin'[b] = admin[b]
         /\ admin'[a].tear = {scenes[id]} \ {None} /\ admin'[a].transit = {}
         /\ admin'[a].pc # "migrate2" /\ (admin'[a].pc = "migrate1" <=> active = None)
         /\ admin'[a].pc = "migrate1" => admin'[a].prev = Holding /\ admin'[a].next = o
         /\ UNCHANGED <<subscribers, torn, rejected, seq, conn, captured, todo, late, closed, stale,
                        out, client, locked, lost>>
  <1> DEFINE prev == IF active = None THEN Holding ELSE None
             tear == {scenes[id]} \ {None}
  <1>1. /\ admin[a] = Idle /\ o \in Objs \ created
        /\ created' = created \cup {o}
        /\ scenes' = [scenes EXCEPT ![id] = o]
        /\ active' = (IF active = None THEN id ELSE active)
        /\ admin' = [admin EXCEPT ![a] = Proceed(prev, o, tear)]
        /\ UNCHANGED <<subscribers, torn, rejected, seq, conn, captured, todo, late, closed, stale,
                       out, client, locked, lost>>
    BY DEF NewScene, handlerVars, subVars, panicVars
  <1>2. prev # None <=> active = None
    BY DistinctAssumption
  <1>3. active = None => prev = Holding
    OBVIOUS
  <1>4. tear = {scenes[id]} \ {None}
    OBVIOUS
  <1> HIDE DEF prev, tear
  <1>5. admin'[a] = Proceed(prev, o, tear) /\ \A b \in Admins : b # a => admin'[b] = admin[b]
    BY <1>1, ServerType
  <1>6. /\ admin'[a].tear = tear /\ admin'[a].transit = {} /\ admin'[a].pc # "migrate2"
        /\ (admin'[a].pc = "migrate1" <=> prev # None)
        /\ prev # None => admin'[a].prev = prev /\ admin'[a].next = o
    BY <1>5, ProceedParts
  <1>7. scenes'[id] = o /\ \A j \in Ids : j # id => scenes'[j] = scenes[j]
    BY <1>1, ServerType
  <1> QED
    BY <1>1, <1>2, <1>3, <1>4, <1>5, <1>6, <1>7

LEMMA SetActiveParts ==
  ASSUME FlowInv, NEW a \in Admins, NEW id \in Ids, SetActive(a, id)
  PROVE  /\ admin[a] = Idle /\ scenes[id] # None /\ active # id /\ active' = id
         /\ \A b \in Admins : b # a => admin'[b] = admin[b]
         /\ admin'[a].tear = {} /\ admin'[a].transit = {}
         /\ admin'[a].pc = "migrate1" /\ admin'[a].prev = LiveScene /\ admin'[a].next = scenes[id]
         /\ UNCHANGED <<scenes, created, subscribers, torn, rejected, seq, conn, captured, todo,
                        late, closed, stale, out, client, locked, lost>>
  <1>1. /\ admin[a] = Idle /\ scenes[id] # None /\ active # id /\ active' = id
        /\ admin' = [admin EXCEPT ![a] = Proceed(LiveScene, scenes[id], {})]
        /\ UNCHANGED <<scenes, created, subscribers, torn, rejected, seq, conn, captured, todo,
                       late, closed, stale, out, client, locked, lost>>
    BY DEF SetActive, handlerVars, subVars, panicVars
  <1>2. LiveScene # None
    BY ServerType, DistinctAssumption DEF Scenes
  <1>3. admin'[a] = Proceed(LiveScene, scenes[id], {})
        /\ \A b \in Admins : b # a => admin'[b] = admin[b]
    BY <1>1, ServerType
  <1>4. /\ admin'[a].tear = {} /\ admin'[a].transit = {} /\ admin'[a].pc = "migrate1"
        /\ admin'[a].prev = LiveScene /\ admin'[a].next = scenes[id]
    BY <1>2, <1>3, ProceedParts
  <1> QED
    BY <1>1, <1>3, <1>4

LEMMA ResetParts ==
  ASSUME FlowInv, NEW a \in Admins, Reset(a)
  PROVE  /\ admin[a] = Idle /\ active' = None /\ \A i \in Ids : scenes'[i] = None
         /\ \A b \in Admins : b # a => admin'[b] = admin[b]
         /\ admin'[a].tear = Registered /\ admin'[a].transit = {}
         /\ admin'[a].pc \notin {"migrate1", "migrate2"}
         /\ UNCHANGED <<created, subscribers, torn, rejected, seq, conn, captured, todo, late,
                        closed, stale, out, client, locked, lost>>
  <1>1. /\ admin[a] = Idle /\ active' = None /\ scenes' = [i \in Ids |-> None]
        /\ admin' = [admin EXCEPT ![a] = Proceed(None, None, Registered)]
        /\ UNCHANGED <<created, subscribers, torn, rejected, seq, conn, captured, todo, late,
                       closed, stale, out, client, locked, lost>>
    BY DEF Reset, handlerVars, subVars, panicVars
  <1>2. admin'[a] = Proceed(None, None, Registered)
        /\ \A b \in Admins : b # a => admin'[b] = admin[b]
    BY <1>1, ServerType
  <1>3. /\ admin'[a].tear = Registered /\ admin'[a].transit = {}
        /\ admin'[a].pc \notin {"migrate1", "migrate2"}
    BY <1>2, ProceedParts
  <1>4. \A i \in Ids : scenes'[i] = None
    BY <1>1
  <1> QED
    BY <1>1, <1>2, <1>3, <1>4

LEMMA Migrate1Parts ==
  ASSUME FlowInv, NEW a \in Admins, migrate1(a)
  PROVE  LET prev == admin[a].prev
             live == subscribers[prev] \cap Live
         IN  /\ admin[a].pc = "migrate1" /\ prev \in Scenes
             /\ subscribers'[prev] = subscribers[prev] \ live
             /\ \A o \in Scenes : o # prev => subscribers'[o] = subscribers[o]
             /\ \A b \in Admins : b # a => admin'[b] = admin[b]
             /\ admin'[a].tear = admin[a].tear /\ admin'[a].transit = live
             /\ admin'[a].pc # "migrate1"
             /\ live = {} => admin'[a].pc # "migrate2"
             /\ live # {} => admin'[a].pc = "migrate2" /\ admin'[a].next = admin[a].next
             /\ UNCHANGED <<scenes, active, created, torn, rejected, conn, captured, todo, late,
                            closed, stale, out, client, locked, lost>>
  <1> DEFINE prev == admin[a].prev
             live == subscribers[prev] \cap Live
             next == AfterMigration(a)
             m == [admin[a] EXCEPT !.pc = "migrate2", !.transit = live, !.bump = seq'[prev]]
  <1>1. /\ admin[a].pc = "migrate1"
        /\ subscribers' = [subscribers EXCEPT ![prev] = subscribers[prev] \ live]
        /\ admin' = [admin EXCEPT ![a] = IF live = {} THEN next ELSE m]
        /\ UNCHANGED <<scenes, active, created, torn, rejected, conn, captured, todo, late,
                       closed, stale, out, client, locked, lost>>
    BY DEF migrate1, handlerVars, subVars, sceneVars, panicVars
  <1>2. prev \in Scenes
    BY <1>1 DEF FlowInv, PinnedInv, OwnInv, Shape, AdminShape
  <1>3. /\ subscribers'[prev] = subscribers[prev] \ live
        /\ \A o \in Scenes : o # prev => subscribers'[o] = subscribers[o]
    BY <1>1, <1>2, ServerType
  <1>4. /\ next.tear = admin[a].tear /\ next.transit = {} /\ next.pc \notin {"migrate1", "migrate2"}
    BY ProceedParts DEF AfterMigration
  <1>5. /\ m.tear = admin[a].tear /\ m.transit = live /\ m.pc = "migrate2"
        /\ m.next = admin[a].next
    <2>1. admin[a] \in AdminState
      BY ServerType
    <2> QED
      BY <2>1, Zenon DEF AdminState
  <1>6. /\ admin'[a] = (IF live = {} THEN next ELSE m)
        /\ \A b \in Admins : b # a => admin'[b] = admin[b]
    BY <1>1, ServerType
  <1> HIDE DEF next, m, live
  <1>7. /\ admin'[a].tear = admin[a].tear /\ admin'[a].transit = live
        /\ admin'[a].pc # "migrate1"
        /\ live = {} => admin'[a].pc # "migrate2"
        /\ live # {} => admin'[a].pc = "migrate2" /\ admin'[a].next = admin[a].next
    BY <1>4, <1>5, <1>6
  <1> QED
    BY <1>1, <1>2, <1>3, <1>6, <1>7 DEF live

\* The subscriptions that have room for SceneChanged and Snapshot.
Roomy(a) == {s \in admin[a].transit : Free(s) >= 2}

LEMMA Migrate2Parts ==
  ASSUME FlowInv, NEW a \in Admins, migrate2(a)
  PROVE  LET next == admin[a].next
         IN  /\ admin[a].pc = "migrate2" /\ next \in Objs
             /\ next \in torn => Roomy(a) = {}
             /\ subscribers'[next] = subscribers[next] \cup Roomy(a)
             /\ \A o \in Scenes : o # next => subscribers'[o] = subscribers[o]
             /\ \A s \in Subs : stale'[s] <=> stale[s] \/ s \in admin[a].transit \ Roomy(a)
             /\ \A s \in Subs : s \in Roomy(a) =>
                  out'[s] = out[s] \o <<Frame("changed", next, admin[a].bump),
                                        Frame("snapshot", next, seq[next])>>
             /\ \A s \in Subs : s \notin admin[a].transit => out'[s] = out[s]
             /\ \A s \in Subs : out'[s] = out[s] \/ s \in Roomy(a)
                  \/ out'[s] = Append(out[s], Frame("changed", next, admin[a].bump))
             /\ \A b \in Admins : b # a => admin'[b] = admin[b]
             /\ admin'[a].tear = admin[a].tear /\ admin'[a].transit = {}
             /\ admin'[a].pc \notin {"migrate1", "migrate2"}
             /\ UNCHANGED <<scenes, active, created, torn, rejected, seq, conn, captured, todo, late,
                            closed, client, locked, lost>>
  <1> DEFINE next == admin[a].next
             moved == admin[a].transit
             one == {s \in moved : Free(s) = 1}
             changed == Frame("changed", next, admin[a].bump)
             snap == Frame("snapshot", next, seq[next])
  <1>1. /\ admin[a].pc = "migrate2"
        /\ UNCHANGED <<scenes, active, created, torn, rejected, seq, conn, captured, todo, late,
                       closed, client, locked, lost>>
    BY DEF migrate2, handlerVars, sceneVars, panicVars
  <1>2. next \in Objs /\ next \in Scenes
    BY <1>1 DEF FlowInv, PinnedInv, OwnInv, Shape, AdminShape, Scenes
  <1>3. /\ next \in torn => Roomy(a) = {}
        /\ out' = [s \in Subs |->
             IF s \in Roomy(a) THEN out[s] \o <<changed, snap>>
             ELSE IF s \in one THEN Append(out[s], changed) ELSE out[s]]
        /\ stale' = [s \in Subs |-> stale[s] \/ s \in moved \ Roomy(a)]
        /\ subscribers' = [subscribers EXCEPT ![next] = subscribers[next] \cup Roomy(a)]
        /\ admin' = [admin EXCEPT ![a] = AfterMigration(a)]
    BY DEF migrate2, Roomy
  <1> HIDE DEF changed, snap
  <1>4. /\ AfterMigration(a).tear = admin[a].tear /\ AfterMigration(a).transit = {}
        /\ AfterMigration(a).pc \notin {"migrate1", "migrate2"}
    BY ProceedParts DEF AfterMigration
  <1>5. /\ admin'[a] = AfterMigration(a)
        /\ \A b \in Admins : b # a => admin'[b] = admin[b]
    BY <1>3, ServerType
  <1>6. /\ subscribers'[next] = subscribers[next] \cup Roomy(a)
        /\ \A o \in Scenes : o # next => subscribers'[o] = subscribers[o]
    BY <1>2, <1>3, ServerType
  <1>7. \A s \in Subs : stale'[s] <=> stale[s] \/ s \in moved \ Roomy(a)
    BY <1>3
  <1>8. \A s \in Subs : s \in Roomy(a) => out'[s] = out[s] \o <<changed, snap>>
    BY <1>3
  <1>9. \A s \in Subs : /\ s \notin moved => out'[s] = out[s]
                        /\ out'[s] = out[s] \/ s \in Roomy(a) \/ out'[s] = Append(out[s], changed)
    BY <1>3 DEF Roomy
  <1> QED
    BY <1>1, <1>2, <1>3, <1>4, <1>5, <1>6, <1>7, <1>8, <1>9 DEF changed, snap

\* What a migration that panics leaves to the goroutines and scenes.
LEMMA PanicsParts ==
  ASSUME FlowInv, NEW a \in Admins, migrate2Panics(a)
  PROVE  /\ admin[a].pc = "migrate2" /\ admin[a].next \in torn
         /\ \A b \in Admins : b # a => admin'[b] = admin[b]
         /\ admin'[a] = Idle
         /\ locked' = locked \cup {admin[a].next}
         /\ lost' = lost \cup admin[a].transit
         /\ \A s \in Subs : stale[s] => stale'[s]
         /\ \A s \in Subs : s \notin admin[a].transit => stale'[s] = stale[s] /\ out'[s] = out[s]
         /\ UNCHANGED <<scenes, active, created, rejected, subscribers, torn, seq, conn,
                        captured, todo, late, closed, client>>
  <1>1. PICK f \in admin[a].transit, B \in SUBSET admin[a].transit : PanicFrames(a, f, B)
    BY PanicParts
  <1>2. \A s \in Subs : /\ stale[s] => stale'[s]
                        /\ s \notin admin[a].transit => stale'[s] = stale[s] /\ out'[s] = out[s]
    <2>1. stale \in [Subs -> BOOLEAN]
      BY DEF FlowInv, PinnedInv, OwnInv, Shape, TypeOK
    <2> QED
      BY <1>1, <2>1 DEF PanicFrames
  <1>3. admin'[a] = Idle /\ \A b \in Admins : b # a => admin'[b] = admin[b]
    BY PanicParts, ServerType
  <1> QED
    BY <1>2, <1>3, PanicParts

LEMMA TearParts ==
  ASSUME FlowInv, NEW a \in Admins, NEW o \in Objs, tearDown(a, o)
  PROVE  /\ admin[a].pc = "tear" /\ o \in admin[a].tear
         /\ \A s \in Subs : closed'[s] <=> closed[s] \/ s \in subscribers[o]
         /\ subscribers'[o] = {} /\ \A x \in Scenes : x # o => subscribers'[x] = subscribers[x]
         /\ torn' = torn \cup {o}
         /\ \A b \in Admins : b # a => admin'[b] = admin[b]
         /\ admin'[a].tear = admin[a].tear \ {o} /\ admin'[a].transit = {}
         /\ admin'[a].pc \notin {"migrate1", "migrate2"}
         /\ UNCHANGED <<scenes, active, created, rejected, seq, conn, captured, todo, late, stale,
                        out, client, locked, lost>>
  <1>1. /\ admin[a].pc = "tear" /\ o \in admin[a].tear
        /\ closed' = [s \in Subs |-> closed[s] \/ s \in subscribers[o]]
        /\ subscribers' = [subscribers EXCEPT ![o] = {}]
        /\ torn' = torn \cup {o}
        /\ admin' = [admin EXCEPT ![a] = Proceed(None, None, admin[a].tear \ {o})]
        /\ UNCHANGED <<scenes, active, created, rejected, seq, conn, captured, todo, late, stale,
                       out, client, locked, lost>>
    BY DEF tearDown, handlerVars, sceneVars, panicVars
  <1>2. /\ admin'[a] = Proceed(None, None, admin[a].tear \ {o})
        /\ \A b \in Admins : b # a => admin'[b] = admin[b]
    BY <1>1, ServerType
  <1>3. /\ admin'[a].tear = admin[a].tear \ {o} /\ admin'[a].transit = {}
        /\ admin'[a].pc \notin {"migrate1", "migrate2"}
    BY <1>2, ProceedParts
  <1>4. subscribers'[o] = {} /\ \A x \in Scenes : x # o => subscribers'[x] = subscribers[x]
    BY <1>1, ServerType DEF Scenes
  <1>5. \A s \in Subs : closed'[s] <=> closed[s] \/ s \in subscribers[o]
    BY <1>1
  <1> QED
    BY <1>1, <1>2, <1>3, <1>4, <1>5

LEMMA SubscribeParts ==
  ASSUME FlowInv, NEW s \in Subs, subscribe(s)
  PROVE  LET o == captured[s]
         IN  /\ conn[s] = "checked" /\ o \in Scenes
             /\ \A x \in Subs : x # s => conn'[x] = conn[x] /\ out'[x] = out[x] /\ late'[x] = late[x]
             /\ UNCHANGED <<scenes, active, created, torn, rejected, seq, admin, captured, todo,
                            closed, stale, client, locked, lost>>
             /\ \/ o \in torn /\ conn'[s] = "panicked" /\ UNCHANGED <<subscribers, out, late>>
                \/ /\ o \notin torn /\ conn'[s] = "run"
                   /\ subscribers'[o] = subscribers[o] \cup {s}
                   /\ \A x \in Scenes : x # o => subscribers'[x] = subscribers[x]
                   /\ out'[s] = <<Frame("snapshot", o, seq[o])>>
                   /\ late'[s] <=> s \in Live /\ o # LiveScene
  <1>1. conn[s] = "checked"
    BY DEF subscribe
  <1>2. captured[s] \in Scenes /\ conn \in [Subs -> {"off", "resolved", "checked", "run", "closing",
           "detaching", "gone", "panicked"}] /\ late \in [Subs -> BOOLEAN]
    BY <1>1 DEF FlowInv, PinnedInv, OwnInv, Shape, HandlerShape, TypeOK
  <1>3. CASE captured[s] \in torn
    BY <1>1, <1>2, <1>3 DEF subscribe, sceneVars, panicVars
  <1>4. CASE captured[s] \notin torn
    <2> DEFINE snap == Frame("snapshot", captured[s], seq[captured[s]])
    <2>1. /\ subscribers' = [subscribers EXCEPT ![captured[s]] = @ \cup {s}]
          /\ out' = [out EXCEPT ![s] = <<snap>>]
          /\ conn' = [conn EXCEPT ![s] = "run"]
          /\ late' = [late EXCEPT ![s] = s \in Live /\ captured[s] # LiveScene]
          /\ UNCHANGED <<scenes, active, created, torn, rejected, seq, admin, captured, todo,
                         closed, stale, client, locked, lost>>
      BY <1>4 DEF subscribe, sceneVars, panicVars
    <2> HIDE DEF snap
    <2>2. /\ subscribers'[captured[s]] = subscribers[captured[s]] \cup {s}
          /\ \A x \in Scenes : x # captured[s] => subscribers'[x] = subscribers[x]
      BY <1>2, <2>1, ServerType
    <2>3. out'[s] = <<snap>> /\ \A x \in Subs : x # s => out'[x] = out[x]
      BY <2>1, ServerType
    <2> QED
      BY <1>1, <1>2, <1>4, <2>1, <2>2, <2>3 DEF snap
  <1> QED
    BY <1>3, <1>4

-----------------------------------------------------------------------------
(* Every scene object is accounted for, and so is every subscription. *)

\* The objects a goroutine has still to tear down.
Tearing == {o \in Objs : \E a \in Admins : o \in admin[a].tear}

\* An object that exists is in the registry, torn down, or about to be.
Accounted ==
  /\ \A o \in created : o \in Registered \/ o \in torn \/ o \in Tearing
  /\ \A o \in torn : o \in created /\ o \notin Registered
  /\ \A o \in Tearing : o \in created /\ o \notin Registered

\* An object is torn down once, by one goroutine, and only one that was is locked.
TornOnce ==
  /\ \A a \in Admins : \A o \in admin[a].tear : o \notin torn
  /\ \A a, b \in Admins : a # b => admin[a].tear \cap admin[b].tear = {}
  /\ locked \subseteq torn

\* A show that has scenes has an active one, so a call that migrates tears nothing down.
CallsApart ==
  /\ active = None => Registered = {}
  /\ \A a \in Admins : admin[a].pc \in {"migrate1", "migrate2"} => admin[a].tear = {}

\* An object that does not exist yet has no trace.
Untouched ==
  /\ rejected \subseteq created
  /\ \A o \in Objs \ created : subscribers[o] = {}
  /\ \A s \in Subs : conn[s] \in {"resolved", "checked"} => captured[s] \in created \cup {Holding}
  /\ \A a \in Admins : admin[a].pc \in {"migrate1", "migrate2"} => admin[a].next \in created

\* Subscriptions travel in the second phase of a migration only.
Travelling == \A a \in Admins : admin[a].pc # "migrate2" => admin[a].transit = {}

\* The server can reach s.
Housed(s) ==
  \/ \E a \in Admins : s \in admin[a].transit
  \/ \E o \in Registered \cup {Holding} \cup Tearing : s \in subscribers[o]

AllHoused ==
  \A s \in Subs : conn[s] = "run" /\ ~ closed[s] /\ ~ stale[s] /\ s \notin lost => Housed(s)

RegistryInv ==
  Filed /\ Accounted /\ TornOnce /\ CallsApart /\ Untouched /\ Travelling /\ AllHoused

\* The registry and the tear-downs after a call or a phase of one.
LEMMA NewSceneSets ==
  ASSUME FlowInv, Filed, NEW a \in Admins, NEW id \in Ids, NEW o, NewScene(a, id, o)
  PROVE  /\ Registered' = (Registered \ {scenes[id]}) \cup {o}
         /\ Tearing' = Tearing \cup ({scenes[id]} \ {None})
  <1>1. /\ Idle.tear = {} /\ admin[a] = Idle /\ o \in Objs \ created
        /\ scenes'[id] = o /\ \A j \in Ids : j # id => scenes'[j] = scenes[j]
        /\ \A b \in Admins : b # a => admin'[b] = admin[b]
        /\ admin'[a].tear = {scenes[id]} \ {None}
    BY NewSceneParts, IdleParts
  <1>2. scenes \in [Ids -> Objs \cup {None}]
    BY ServerType
  <1>3. Registered' = (Registered \ {scenes[id]}) \cup {o}
    BY <1>1, <1>2, DistinctAssumption DEF Registered, Filed
  <1>4. Tearing' = Tearing \cup ({scenes[id]} \ {None})
    BY <1>1, <1>2 DEF Tearing
  <1> QED
    BY <1>3, <1>4

LEMMA ResetSets ==
  ASSUME FlowInv, NEW a \in Admins, Reset(a)
  PROVE  Registered' = {} /\ Tearing' = Tearing \cup Registered
  <1>1. /\ Idle.tear = {} /\ admin[a] = Idle /\ Registered \subseteq Objs
        /\ \A i \in Ids : scenes'[i] = None
        /\ \A b \in Admins : b # a => admin'[b] = admin[b]
        /\ admin'[a].tear = Registered
    BY ResetParts, IdleParts, ServerType
  <1>2. Registered' = {}
    BY <1>1 DEF Registered
  <1>3. Tearing' = Tearing \cup Registered
    BY <1>1 DEF Tearing
  <1> QED
    BY <1>2, <1>3

\* Steps that leave both alone.
LEMMA SameSets ==
  ASSUME scenes' = scenes, \A a \in Admins : admin'[a].tear = admin[a].tear
  PROVE  Registered' = Registered /\ Tearing' = Tearing
  BY DEF Registered, Tearing

\* A step that registers, removes and moves nothing.
LEMMA RegistryQuiet ==
  ASSUME FlowInv, RegistryInv,
         UNCHANGED <<scenes, active, created, subscribers, torn, admin, closed, locked, lost>>,
         rejected' \subseteq created,
         \A s \in Subs : stale[s] => stale'[s],
         \A s \in Subs : conn'[s] = "run" => conn[s] = "run",
         \A s \in Subs : conn'[s] \in {"resolved", "checked"} => captured'[s] \in created \cup {Holding}
  PROVE  RegistryInv'
  <1>1. Registered' = Registered /\ Tearing' = Tearing
    BY SameSets
  <1>2. Filed' /\ Accounted' /\ TornOnce' /\ CallsApart' /\ Untouched' /\ Travelling'
    BY <1>1 DEF RegistryInv, Filed, Accounted, TornOnce, CallsApart, Untouched, Travelling
  <1>3. \A s \in Subs : Housed(s) => Housed(s)'
    BY <1>1 DEF Housed
  <1>4. AllHoused'
    BY <1>3 DEF AllHoused, RegistryInv
  <1> QED
    BY <1>2, <1>4 DEF RegistryInv

\* A goroutine that is told to tear down registered objects is the only one, and the first.
LEMMA TornOnceMore ==
  ASSUME FlowInv, RegistryInv, NEW a \in Admins, admin'[a].tear \subseteq Registered,
         \A b \in Admins : b # a => admin'[b].tear = admin[b].tear,
         torn' = torn, locked' = locked
  PROVE  TornOnce'
  <1>1. \A b \in Admins : admin[b].tear \subseteq Objs
    BY ServerType DEF AdminState
  <1>2. \A b \in Admins : admin[b].tear \cap Registered = {}
    BY <1>1 DEF RegistryInv, Accounted, Tearing
  <1>3. torn \cap Registered = {}
    BY DEF RegistryInv, Accounted
  <1> QED
    BY <1>2, <1>3 DEF RegistryInv, TornOnce

\* Every move keeps the books.
LEMMA MoveRegistry ==
  ASSUME FlowInv, RegistryInv, ServerMove
  PROVE  RegistryInv'
  <1> USE DEF RegistryInv
  <1>0. /\ scenes \in [Ids -> Objs \cup {None}] /\ created \subseteq Objs /\ torn \subseteq Objs
        /\ subscribers \in [Scenes -> SUBSET Subs] /\ Registered \subseteq Objs
        /\ LiveScene \in Scenes /\ Tearing \subseteq Objs /\ Holding \notin Objs /\ None \notin Objs
        /\ Objs \subseteq Scenes /\ Holding \in Scenes
        /\ Idle.tear = {} /\ Idle.transit = {} /\ Idle.pc = "idle"
        /\ \A a \in Admins : admin[a].tear \subseteq Tearing
    <2>1. \A a \in Admins : admin[a].tear \subseteq Objs
      BY ServerType DEF AdminState
    <2> QED
      BY <2>1, ServerType, IdleParts, DistinctAssumption DEF Tearing, Scenes
  <1>1. ASSUME NEW a \in Admins, NEW id \in Ids, NEW o \in Objs, NewScene(a, id, o)
        PROVE  RegistryInv'
    <2>1. /\ admin[a] = Idle /\ o \in Objs \ created
          /\ created' = created \cup {o}
          /\ scenes'[id] = o /\ \A j \in Ids : j # id => scenes'[j] = scenes[j]
          /\ \A b \in Admins : b # a => admin'[b] = admin[b]
          /\ admin'[a].tear = {scenes[id]} \ {None} /\ admin'[a].transit = {}
          /\ admin'[a].pc # "migrate2" /\ (admin'[a].pc = "migrate1" => active = None)
          /\ admin'[a].pc = "migrate1" => admin'[a].prev = Holding /\ admin'[a].next = o
          /\ active' = (IF active = None THEN id ELSE active)
          /\ UNCHANGED <<subscribers, torn, rejected, conn, captured, closed, stale, locked, lost>>
      BY <1>1, NewSceneParts
    <2>2. /\ Registered' = (Registered \ {scenes[id]}) \cup {o}
          /\ Tearing' = Tearing \cup ({scenes[id]} \ {None})
          /\ scenes[id] # None => scenes[id] \in Registered
      BY <1>1, NewSceneSets DEF Registered
    <2>3. Filed'
      BY <1>0, <2>1 DEF Filed
    <2>4. Accounted'
      <3>1. scenes[id] # None => scenes[id] \in created
        BY DEF Filed
      <3>2. scenes[id] # o
        BY <1>0, <2>1, <3>1
      <3> QED
        BY <1>0, <2>1, <2>2, <3>1, <3>2 DEF Accounted
    <2>5. Untouched' /\ Travelling'
      BY <2>1 DEF Untouched, Travelling
    <2>6. AllHoused'
      <3>1. ASSUME NEW s \in Subs, Housed(s) PROVE Housed(s)'
        BY <1>0, <2>1, <2>2, <3>1 DEF Housed
      <3> QED
        BY <2>1, <3>1 DEF AllHoused
    <2>7. TornOnce'
      <3>1. /\ admin'[a].tear \subseteq Registered
            /\ \A b \in Admins : b # a => admin'[b].tear = admin[b].tear
            /\ torn' = torn /\ locked' = locked
        BY <2>1, <2>2
      <3> QED
        BY <3>1, TornOnceMore
    <2>8. CallsApart'
      <3>1. id \in Ids /\ None \notin Ids
        BY DistinctAssumption
      <3>2. active' # None
        BY <2>1, <3>1
      <3>3. admin'[a].pc = "migrate1" => admin'[a].tear = {}
        BY <2>1, <2>2 DEF CallsApart
      <3> QED
        BY <2>1, <3>2, <3>3 DEF CallsApart
    <2> QED
      BY <2>3, <2>4, <2>5, <2>6, <2>7, <2>8
  <1>2. ASSUME NEW a \in Admins, NEW id \in Ids, SetActive(a, id)
        PROVE  RegistryInv'
    <2>1. /\ admin[a] = Idle /\ scenes[id] # None
          /\ \A b \in Admins : b # a => admin'[b] = admin[b]
          /\ admin'[a].tear = {} /\ admin'[a].transit = {}
          /\ admin'[a].pc = "migrate1" /\ admin'[a].next = scenes[id] /\ active' = id
          /\ UNCHANGED <<scenes, created, subscribers, torn, rejected, conn, captured, closed, stale,
                         locked, lost>>
      BY <1>2, SetActiveParts
    <2>2. \A b \in Admins : admin'[b].tear = admin[b].tear /\ admin'[b].transit = admin[b].transit
      BY <1>0, <2>1
    <2>3. Registered' = Registered /\ Tearing' = Tearing
      BY <2>1, <2>2, SameSets
    <2>4. Filed' /\ Accounted'
      BY <2>1, <2>3 DEF Filed, Accounted
    <2>5. Untouched' /\ Travelling'
      BY <2>1 DEF Untouched, Travelling, Filed
    <2>6. AllHoused'
      BY <2>1, <2>2, <2>3 DEF AllHoused, Housed
    <2>7. TornOnce' /\ CallsApart'
      BY <2>1, <2>2, <2>3, DistinctAssumption DEF TornOnce, CallsApart
    <2> QED
      BY <2>4, <2>5, <2>6, <2>7
  <1>3. ASSUME NEW a \in Admins, Reset(a) PROVE RegistryInv'
    <2>1. /\ admin[a] = Idle /\ \A i \in Ids : scenes'[i] = None
          /\ \A b \in Admins : b # a => admin'[b] = admin[b]
          /\ admin'[a].tear = Registered /\ admin'[a].transit = {}
          /\ admin'[a].pc \notin {"migrate1", "migrate2"}
          /\ UNCHANGED <<created, subscribers, torn, rejected, conn, captured, closed, stale,
                         locked, lost>>
      BY <1>3, ResetParts
    <2>2. Registered' = {} /\ Tearing' = Tearing \cup Registered
      BY <1>3, ResetSets
    <2>3. Filed' /\ Untouched' /\ Travelling'
      BY <2>1 DEF Filed, Untouched, Travelling
    <2>4. Accounted'
      <3>1. Registered \subseteq created
        BY DEF Registered, Filed
      <3> QED
        BY <2>1, <2>2, <3>1 DEF Accounted
    <2>5. AllHoused'
      <3>1. ASSUME NEW s \in Subs, Housed(s) PROVE Housed(s)'
        BY <1>0, <2>1, <2>2, <3>1 DEF Housed
      <3> QED
        BY <2>1, <3>1 DEF AllHoused
    <2>6. TornOnce'
      <3>1. /\ admin'[a].tear \subseteq Registered
            /\ \A b \in Admins : b # a => admin'[b].tear = admin[b].tear
            /\ torn' = torn /\ locked' = locked
        BY <2>1
      <3> QED
        BY <3>1, TornOnceMore
    <2>7. CallsApart'
      BY <2>1, <2>2 DEF CallsApart
    <2> QED
      BY <2>3, <2>4, <2>5, <2>6, <2>7
  <1>4. ASSUME NEW a \in Admins, NEW o \in Objs, Reject(a, o) PROVE RegistryInv'
    <2>1. /\ UNCHANGED <<scenes, active, created, subscribers, torn, admin, closed, stale, conn,
                         captured, locked, lost>>
          /\ rejected' = rejected \cup {o} /\ o \in created
      BY <1>4 DEF Reject, handlerVars, subVars, panicVars
    <2> QED
      BY <2>1, RegistryQuiet DEF Untouched
  <1>5. ASSUME NEW a \in Admins, migrate1(a) PROVE RegistryInv'
    <2> DEFINE prev == admin[a].prev
               live == subscribers[prev] \cap Live
    <2>1. /\ admin[a].pc = "migrate1" /\ prev \in Scenes
          /\ subscribers'[prev] = subscribers[prev] \ live
          /\ \A o \in Scenes : o # prev => subscribers'[o] = subscribers[o]
          /\ \A b \in Admins : b # a => admin'[b] = admin[b]
          /\ admin'[a].tear = admin[a].tear /\ admin'[a].transit = live
          /\ admin'[a].pc # "migrate1"
          /\ live = {} => admin'[a].pc # "migrate2"
          /\ live # {} => admin'[a].pc = "migrate2" /\ admin'[a].next = admin[a].next
          /\ UNCHANGED <<scenes, active, created, torn, rejected, conn, captured, closed, stale,
                         locked, lost>>
      BY <1>5, Migrate1Parts
    <2> HIDE DEF prev, live
    <2>2. Registered' = Registered /\ Tearing' = Tearing
      BY <2>1, SameSets
    <2>3. Filed' /\ Accounted'
      BY <2>1, <2>2 DEF Filed, Accounted
    <2>4. Untouched' /\ Travelling'
      BY <1>0, <2>1 DEF Untouched, Travelling
    <2>5. ASSUME NEW s \in Subs, Housed(s) PROVE Housed(s)'
      <3>1. CASE s \in live
        BY <2>1, <3>1 DEF Housed
      <3>2. CASE s \notin live
        <4>1. \A o \in Scenes : s \in subscribers[o] => s \in subscribers'[o]
          BY <2>1, <3>2
        <4>2. admin[a].transit = {}
          BY <2>1 DEF Travelling
        <4> QED
          BY <1>0, <2>1, <2>2, <2>5, <4>1, <4>2 DEF Housed
      <3> QED
        BY <3>1, <3>2
    <2>6. AllHoused'
      BY <2>1, <2>5 DEF AllHoused
    <2>7. TornOnce' /\ CallsApart'
      <3>1. \A b \in Admins : admin'[b].tear = admin[b].tear
        BY <2>1
      <3> QED
        BY <2>1, <2>2, <3>1 DEF TornOnce, CallsApart
    <2> QED
      BY <2>3, <2>4, <2>6, <2>7
  <1>6. ASSUME NEW a \in Admins, migrate2(a) PROVE RegistryInv'
    <2> DEFINE next == admin[a].next
    <2>1. /\ admin[a].pc = "migrate2" /\ next \in Objs
          /\ next \in torn => Roomy(a) = {}
          /\ subscribers'[next] = subscribers[next] \cup Roomy(a)
          /\ \A o \in Scenes : o # next => subscribers'[o] = subscribers[o]
          /\ \A s \in Subs : stale'[s] <=> stale[s] \/ s \in admin[a].transit \ Roomy(a)
          /\ \A b \in Admins : b # a => admin'[b] = admin[b]
          /\ admin'[a].tear = admin[a].tear /\ admin'[a].transit = {}
          /\ admin'[a].pc \notin {"migrate1", "migrate2"}
          /\ UNCHANGED <<scenes, active, created, torn, rejected, conn, captured, closed, locked, lost>>
      BY <1>6, Migrate2Parts
    <2>2. Registered' = Registered /\ Tearing' = Tearing
      BY <2>1, SameSets
    <2>3. Filed' /\ Accounted'
      BY <2>1, <2>2 DEF Filed, Accounted
    <2>4. next \in created
      BY <2>1 DEF Untouched
    <2>5. Untouched' /\ Travelling'
      BY <1>0, <2>1, <2>4 DEF Untouched, Travelling
    <2>6. TornOnce' /\ CallsApart'
      <3>1. \A b \in Admins : admin'[b].tear = admin[b].tear
        BY <2>1
      <3> QED
        BY <2>1, <2>2, <3>1 DEF TornOnce, CallsApart
    <2>7. ASSUME NEW s \in Subs, Housed(s), ~ stale'[s] PROVE Housed(s)'
      <3>1. CASE s \in admin[a].transit
        <4>1. s \in Roomy(a)
          BY <2>1, <2>7, <3>1
        <4>2. next \in Registered \cup Tearing
          BY <2>1, <2>4, <4>1 DEF Accounted
        <4> QED
          BY <2>1, <2>2, <4>1, <4>2 DEF Housed
      <3>2. CASE s \notin admin[a].transit
        <4>1. \A o \in Scenes : s \in subscribers[o] => s \in subscribers'[o]
          BY <2>1
        <4> QED
          BY <1>0, <2>1, <2>2, <2>7, <3>2, <4>1 DEF Housed
      <3> QED
        BY <3>1, <3>2
    <2>8. AllHoused'
      BY <2>1, <2>7 DEF AllHoused
    <2> QED
      BY <2>3, <2>5, <2>6, <2>8
  <1>7. ASSUME NEW a \in Admins, NEW o \in Objs, tearDown(a, o) PROVE RegistryInv'
    <2>1. /\ admin[a].pc = "tear" /\ o \in admin[a].tear
          /\ \A s \in Subs : closed'[s] <=> closed[s] \/ s \in subscribers[o]
          /\ subscribers'[o] = {} /\ \A x \in Scenes : x # o => subscribers'[x] = subscribers[x]
          /\ torn' = torn \cup {o}
          /\ \A b \in Admins : b # a => admin'[b] = admin[b]
          /\ admin'[a].tear = admin[a].tear \ {o} /\ admin'[a].transit = {}
          /\ admin'[a].pc \notin {"migrate1", "migrate2"}
          /\ UNCHANGED <<scenes, active, created, rejected, conn, captured, stale, locked, lost>>
      BY <1>7, TearParts
    <2>2. Registered' = Registered
      BY <2>1 DEF Registered
    <2>3. Tearing' \subseteq Tearing /\ Tearing \subseteq Tearing' \cup {o}
      BY <2>1 DEF Tearing
    <2>4. Filed' /\ Accounted'
      BY <1>0, <2>1, <2>2, <2>3 DEF Filed, Accounted
    <2>5. Untouched' /\ Travelling'
      BY <1>0, <2>1 DEF Untouched, Travelling
    <2>6. ASSUME NEW s \in Subs, Housed(s), ~ closed'[s] PROVE Housed(s)'
      <3>1. \A x \in Scenes : s \in subscribers[x] => x # o /\ s \in subscribers'[x]
        BY <2>1, <2>6
      <3>2. admin[a].transit = {}
        BY <2>1 DEF Travelling
      <3> QED
        BY <1>0, <2>1, <2>2, <2>3, <2>6, <3>1, <3>2 DEF Housed
    <2>7. AllHoused'
      BY <2>1, <2>6 DEF AllHoused
    <2>8. TornOnce'
      <3>1. \A b \in Admins : b # a => o \notin admin[b].tear
        BY <2>1 DEF TornOnce
      <3> QED
        BY <2>1, <3>1 DEF TornOnce
    <2>9. CallsApart'
      BY <2>1, <2>2 DEF CallsApart
    <2> QED
      BY <2>4, <2>5, <2>7, <2>8, <2>9
  <1>8. ASSUME NEW o \in created, NEW K \in SUBSET subscribers[o], emit(o, K) PROVE RegistryInv'
    <2>1. /\ UNCHANGED <<scenes, active, created, subscribers, torn, admin, closed, conn, captured,
                         rejected, locked, lost>>
          /\ \A s \in Subs : stale[s] => stale'[s]
      BY <1>8 DEF emit, sceneVars, handlerVars, panicVars
    <2> QED
      BY <2>1, RegistryQuiet DEF Untouched
  <1>9. ASSUME NEW o \in created, Refreshed(o) PROVE RegistryInv'
    <2>1. /\ UNCHANGED <<scenes, active, created, subscribers, torn, admin, closed, conn, captured,
                         rejected, locked, lost>>
          /\ \A s \in Subs : stale[s] => stale'[s]
      BY <1>9 DEF Refreshed, sceneVars, handlerVars, panicVars
    <2> QED
      BY <2>1, RegistryQuiet DEF Untouched
  <1>10. ASSUME NEW s \in Subs, NEW o \in Scenes, resolveScene(s, o) PROVE RegistryInv'
    <2>1. /\ UNCHANGED <<scenes, active, created, subscribers, torn, admin, closed, stale, rejected,
                         locked, lost>>
          /\ conn' = [conn EXCEPT ![s] = "resolved"] /\ captured' = [captured EXCEPT ![s] = o]
          /\ o = LiveScene \/ o \in Registered
      BY <1>10 DEF resolveScene, sceneVars, subVars, panicVars
    <2>2. o \in created \cup {Holding}
      <3>1. Registered \subseteq created
        BY DEF Registered, Filed
      <3> QED
        BY <2>1, <3>1, ServerType
    <2>3. conn \in [Subs -> {"off", "resolved", "checked", "run", "closing", "detaching", "gone",
                            "panicked"}] /\ captured \in [Subs -> Scenes \cup {None}]
      BY DEF FlowInv, PinnedInv, OwnInv, Shape, TypeOK
    <2> QED
      BY <2>1, <2>2, <2>3, RegistryQuiet DEF Untouched
  <1>11. ASSUME NEW s \in Subs, checkRejection(s) \/ deliver(s) PROVE RegistryInv'
    <2>1. /\ UNCHANGED <<scenes, active, created, subscribers, torn, admin, closed, stale, rejected,
                         captured, locked, lost>>
          /\ \A x \in Subs : conn'[x] \in {"resolved", "checked"} => conn[x] \in {"resolved", "checked"}
          /\ \A x \in Subs : conn'[x] = "run" => conn[x] = "run"
      <3>1. conn \in [Subs -> {"off", "resolved", "checked", "run", "closing", "detaching", "gone",
                              "panicked"}]
        BY DEF FlowInv, PinnedInv, OwnInv, Shape, TypeOK
      <3> QED
        BY <1>11, <3>1 DEF checkRejection, deliver, sceneVars, subVars, handlerVars, panicVars
    <2> QED
      BY <2>1, RegistryQuiet DEF Untouched
  <1>12. ASSUME NEW s \in Subs, subscribe(s) PROVE RegistryInv'
    <2> DEFINE o == captured[s]
    <2>1. /\ conn[s] = "checked" /\ o \in Scenes
          /\ \A x \in Subs : x # s => conn'[x] = conn[x]
          /\ UNCHANGED <<scenes, active, created, torn, rejected, admin, captured, closed, stale,
                         locked, lost>>
      BY <1>12, SubscribeParts
    <2>2. CASE conn'[s] = "panicked" /\ subscribers' = subscribers
      BY <2>1, <2>2, RegistryQuiet DEF Untouched
    <2>3. CASE /\ o \notin torn /\ conn'[s] = "run"
               /\ subscribers'[o] = subscribers[o] \cup {s}
               /\ \A x \in Scenes : x # o => subscribers'[x] = subscribers[x]
      <3>1. Registered' = Registered /\ Tearing' = Tearing
        BY <2>1, SameSets
      <3>2. o \in created \cup {Holding}
        BY <2>1 DEF Untouched
      <3>3. Filed' /\ Accounted'
        BY <2>1, <3>1 DEF Filed, Accounted
      <3>4. Untouched' /\ Travelling'
        BY <1>0, <2>1, <2>3, <3>2 DEF Untouched, Travelling
      <3>5. Housed(s)'
        BY <2>3, <3>1, <3>2 DEF Accounted, Housed
      <3>6. ASSUME NEW x \in Subs, Housed(x) PROVE Housed(x)'
        <4>1. \A y \in Scenes : subscribers[y] \subseteq subscribers'[y]
          BY <2>3
        <4> QED
          BY <1>0, <2>1, <3>1, <3>6, <4>1 DEF Housed
      <3>7. AllHoused'
        BY <2>1, <3>5, <3>6 DEF AllHoused
      <3>8. TornOnce' /\ CallsApart'
        BY <2>1, <3>1 DEF TornOnce, CallsApart
      <3> QED
        BY <3>3, <3>4, <3>7, <3>8
    <2> QED
      BY <1>12, <2>1, <2>2, <2>3, SubscribeParts
  <1>13. CASE UNCHANGED vars
    BY <1>13, RegistryQuiet DEF vars, Untouched
  <1>14. ASSUME NEW a \in Admins, migrate2Panics(a) PROVE RegistryInv'
    <2>1. /\ admin[a].pc = "migrate2" /\ admin[a].next \in torn
          /\ \A b \in Admins : b # a => admin'[b] = admin[b]
          /\ admin'[a] = Idle
          /\ locked' = locked \cup {admin[a].next}
          /\ lost' = lost \cup admin[a].transit
          /\ \A s \in Subs : stale[s] => stale'[s]
          /\ UNCHANGED <<scenes, active, created, rejected, subscribers, torn, conn, captured, closed>>
      BY <1>14, PanicsParts
    <2>2. \A b \in Admins : admin'[b].tear = admin[b].tear
      BY <1>0, <2>1 DEF CallsApart
    <2>3. Registered' = Registered /\ Tearing' = Tearing
      BY <2>1, <2>2, SameSets
    <2>4. Filed' /\ Accounted'
      BY <2>1, <2>3 DEF Filed, Accounted
    <2>5. TornOnce' /\ CallsApart'
      BY <1>0, <2>1, <2>2, <2>3 DEF TornOnce, CallsApart
    <2>6. Untouched' /\ Travelling'
      BY <1>0, <2>1 DEF Untouched, Travelling
    <2>7. ASSUME NEW s \in Subs, Housed(s), s \notin lost' PROVE Housed(s)'
      BY <1>0, <2>1, <2>3, <2>7 DEF Housed
    <2>8. AllHoused'
      BY <2>1, <2>7 DEF AllHoused
    <2> QED
      BY <2>4, <2>5, <2>6, <2>8
  <1> QED
    BY <1>1, <1>2, <1>3, <1>4, <1>5, <1>6, <1>7, <1>8, <1>9, <1>10, <1>11, <1>12, <1>13,
       <1>14, Zenon
       DEF ServerMove, AdminStep

\* The books are balanced at the start.
LEMMA InitRegistry == Init => RegistryInv
  <1> SUFFICES ASSUME Init PROVE RegistryInv
    OBVIOUS
  <1>1. Registered = {} /\ Tearing = {}
    BY DEF Init, Registered, Tearing, Idle
  <1>2. Filed /\ Accounted
    BY <1>1 DEF Init, Filed, Accounted
  <1>3. \A a \in Admins : admin[a].pc = "idle" /\ admin[a].transit = {}
    BY IdleParts DEF Init
  <1>4. Untouched /\ Travelling
    BY <1>3 DEF Init, Untouched, Travelling, Scenes
  <1>5. AllHoused
    BY DEF Init, AllHoused
  <1>6. TornOnce /\ CallsApart
    BY <1>1, <1>3, IdleParts DEF Init, TornOnce, CallsApart
  <1> QED
    BY <1>2, <1>4, <1>5, <1>6 DEF RegistryInv

-----------------------------------------------------------------------------
(* The handlers' requests. *)

Steps == {"none", "start", "tokens", "install", "create", "reject", "set", "refresh", "activate",
          "second", "version", "finish", "find", "apply", "publish", "read", "done"}

\* The steps of a setup that has registered a scene, and of a request on one.
MadeSteps == {"reject", "set", "refresh", "activate", "second", "version"}
SceneSteps == {"apply", "publish", "read"}

RequestState ==
  [pc : Steps, op : {"none", "setup", "reset", "emit", "state"}, sc : Scenarios \cup {None},
   obj : Objs \cup {None}, left : SUBSET DOMAIN TokenRole, at : Nat, alone : BOOLEAN,
   status : {"none", "ok", "conflict", "failed"}, reply : States \cup {None}]

\* A request r is at a step of its kind, with what that step uses: a scene among
\* the objects C, a place among the bundles, the tokens to install.
StepOK(r, C) ==
  /\ r.pc = "none" => r = NoRequest
  /\ r.op = "none" => r.pc = "none"
  /\ r.pc \in {"start", "tokens", "finish"} => r.op \in {"setup", "reset"}
  /\ r.pc \in {"install", "create"} \cup MadeSteps => r.op = "setup"
  /\ r.pc = "find" => r.op \in {"emit", "state"}
  /\ r.pc \in {"apply", "publish"} => r.op = "emit"
  /\ r.pc = "read" => r.op = "state"
  /\ r.op = "setup" <=> r.sc # None
  /\ r.pc = "install" => r.left \subseteq Recognised(r.sc)
  /\ r.pc \in MadeSteps \cup SceneSteps => r.obj \in C
  /\ r.pc \in {"reject", "set", "refresh", "activate"} => r.at = 1
  /\ r.pc = "second" => r.at \in 1 .. Len(Bundles[r.sc]) - 1
  /\ r.pc = "version" => r.at \in 1 .. Len(Bundles[r.sc])
  /\ r.pc = "done" <=> r.status # "none"
  /\ r.status = "conflict" => r.op \in {"emit", "state"}

\* Only a handler that is running is in a call of the server.
RequestsOK ==
  /\ request \in [Admins -> RequestState]
  /\ \A a \in Admins : StepOK(request[a], created)
  /\ \A a \in Admins : admin[a] # Idle => request[a].pc \notin {"none", "done"}

\* A step that is not the request's own keeps it in order.
LEMMA StepGrows ==
  ASSUME NEW r, NEW C, NEW D, C \subseteq D, StepOK(r, C)
  PROVE  StepOK(r, D)
  BY DEF StepOK

\* The kind, the scenario and the mark of a's request are kept; the rest too.
SameKind(a) ==
  /\ request'[a].op = request[a].op /\ request'[a].sc = request[a].sc
  /\ request'[a].alone = request[a].alone
SameScene(a) == request'[a].obj = request[a].obj /\ request'[a].at = request[a].at
SameAnswer(a) == request'[a].status = request[a].status /\ request'[a].reply = request[a].reply

\* Only the request of a changes.
OnlyRequest(a) ==
  /\ request' \in [Admins -> RequestState]
  /\ \A b \in Admins : b # a => request'[b] = request[b]

LEMMA GotoParts ==
  ASSUME RequestsOK, NEW a \in Admins, NEW p \in Steps, Goto(a, p)
  PROVE  /\ OnlyRequest(a) /\ request'[a].pc = p
         /\ SameKind(a) /\ SameScene(a) /\ SameAnswer(a) /\ request'[a].left = request[a].left
  <1>1. request' = [request EXCEPT ![a] = [request[a] EXCEPT !.pc = p]]
    BY DEF Goto
  <1>2. request[a] \in RequestState /\ request \in [Admins -> RequestState]
    BY DEF RequestsOK
  <1>3. [request[a] EXCEPT !.pc = p] \in RequestState
    BY <1>2, Zenon DEF RequestState
  <1>4. request'[a] = [request[a] EXCEPT !.pc = p] /\ OnlyRequest(a)
    BY <1>1, <1>2, <1>3 DEF OnlyRequest
  <1> QED
    BY <1>2, <1>4 DEF RequestState, SameKind, SameScene, SameAnswer

LEMMA ReplyParts ==
  ASSUME RequestsOK, NEW a \in Admins, NEW st \in {"ok", "conflict", "failed"}, Reply(a, st)
  PROVE  /\ OnlyRequest(a) /\ request'[a].pc = "done" /\ request'[a].status = st
         /\ SameKind(a) /\ SameScene(a) /\ request'[a].reply = request[a].reply
         /\ request'[a].left = request[a].left
  <1>1. request' = [request EXCEPT ![a] = [request[a] EXCEPT !.pc = "done", !.status = st]]
    BY DEF Reply
  <1>2. request[a] \in RequestState /\ request \in [Admins -> RequestState]
    BY DEF RequestsOK
  <1>3. [request[a] EXCEPT !.pc = "done", !.status = st] \in RequestState
    BY <1>2, Zenon DEF RequestState, Steps
  <1>4. request'[a] = [request[a] EXCEPT !.pc = "done", !.status = st] /\ OnlyRequest(a)
    BY <1>1, <1>2, <1>3 DEF OnlyRequest
  <1> QED
    BY <1>2, <1>4 DEF RequestState, SameKind, SameScene

\* A step of handler a alone.
LEMMA RequestMoves ==
  ASSUME RequestsOK, NEW a \in Admins, OnlyRequest(a), created \subseteq created',
         StepOK(request'[a], created'),
         \A b \in Admins : b # a => admin'[b] = admin[b],
         request'[a].pc \notin {"none", "done"} \/ admin'[a] = Idle
  PROVE  RequestsOK'
  <1>1. \A b \in Admins : StepOK(request'[b], created')
    BY StepGrows DEF RequestsOK, OnlyRequest
  <1>2. \A b \in Admins : admin'[b] # Idle => request'[b].pc \notin {"none", "done"}
    BY DEF RequestsOK, OnlyRequest
  <1> QED
    BY <1>1, <1>2 DEF RequestsOK, OnlyRequest

\* A step that leaves the requests alone and starts no call.
LEMMA RequestKept ==
  ASSUME RequestsOK, request' = request, created \subseteq created',
         \A a \in Admins : admin'[a] # Idle => admin[a] # Idle
  PROVE  RequestsOK'
  <1>1. \A b \in Admins : StepOK(request'[b], created')
    BY StepGrows DEF RequestsOK
  <1> QED
    BY <1>1 DEF RequestsOK

\* What a bundle is.
LEMMA BundleParts ==
  ASSUME NEW k \in Scenarios
  PROVE  /\ Len(Bundles[k]) \in Nat \ {0}
         /\ \A n \in 1 .. Len(Bundles[k]) : Bundles[k][n].id \in Ids /\ Bundles[k][n].pinned \in BOOLEAN
         /\ DOMAIN Bundles[k] = 1 .. Len(Bundles[k])
  <1> DEFINE B == [id : Ids, pinned : BOOLEAN]
  <1>1. Bundles[k] \in Seq(B) /\ Bundles[k] # <<>>
    BY ScenarioAssumption
  <1> HIDE DEF B
  <1>2. Len(Bundles[k]) \in Nat \ {0} /\ DOMAIN Bundles[k] = 1 .. Len(Bundles[k])
    BY <1>1
  <1>3. ASSUME NEW n \in 1 .. Len(Bundles[k])
        PROVE  Bundles[k][n].id \in Ids /\ Bundles[k][n].pinned \in BOOLEAN
    <2>1. Bundles[k][n] \in B
      BY <1>1, <1>3
    <2> QED
      BY <2>1 DEF B
  <1> QED
    BY <1>2, <1>3

\* What the handlers' steps do to their request, and the server's part of it.
LEMMA RegisterParts ==
  ASSUME RequestsOK, NEW a \in Admins, request[a].sc \in Scenarios,
         NEW n \in 1 .. Len(Bundles[request[a].sc]), NEW opt, NEW next \in Steps,
         register(a, n, opt, next)
  PROVE  LET b == Bundles[request[a].sc][n]
         IN  /\ NewScene(a, b.id, Fresh) /\ b.id \in Ids /\ Fresh \in Objs \ created
             /\ pinned' = (IF opt /\ b.pinned THEN pinned \cup {Fresh} ELSE pinned)
             /\ OnlyRequest(a) /\ request'[a].pc = next /\ request'[a].obj = Fresh
             /\ request'[a].at = n /\ SameKind(a) /\ SameAnswer(a)
             /\ UNCHANGED <<driver, sent, tokens, planeActive, content, data, shown, session>>
  <1> DEFINE b == Bundles[request[a].sc][n]
             o == Fresh
             r == [request[a] EXCEPT !.obj = o, !.at = n, !.pc = next]
  <1>1. /\ NewScene(a, b.id, o)
        /\ pinned' = (IF opt /\ b.pinned THEN pinned \cup {o} ELSE pinned)
        /\ request' = [request EXCEPT ![a] = r]
        /\ UNCHANGED <<driver, sent, tokens, planeActive, content, data, shown, session>>
    BY DEF register, contentVars
  <1>2. o \in Objs \ created
    BY <1>1 DEF NewScene
  <1> HIDE DEF o
  <1>3. request[a] \in RequestState /\ request \in [Admins -> RequestState]
    BY DEF RequestsOK
  <1>4. n \in Nat /\ o \in Objs \cup {None}
    BY <1>2, BundleParts
  <1>5. r \in RequestState
    BY <1>3, <1>4, Zenon DEF RequestState
  <1>6. request'[a] = r /\ OnlyRequest(a)
    BY <1>1, <1>3, <1>5 DEF OnlyRequest
  <1>7. /\ r.pc = next /\ r.obj = o /\ r.at = n /\ r.op = request[a].op /\ r.sc = request[a].sc
        /\ r.alone = request[a].alone /\ r.status = request[a].status /\ r.reply = request[a].reply
    BY <1>3 DEF RequestState
  <1> HIDE DEF r
  <1>8. SameKind(a) /\ SameAnswer(a) /\ request'[a].pc = next /\ request'[a].obj = o /\ request'[a].at = n
    BY <1>6, <1>7 DEF SameKind, SameAnswer
  <1>9. b.id \in Ids
    BY BundleParts
  <1> QED
    BY <1>1, <1>2, <1>6, <1>8, <1>9 DEF o

LEMMA ResetTokensParts ==
  ASSUME RequestsOK, NEW a \in Admins, resetTokens(a)
  PROVE  LET k == request[a].sc
         IN  /\ request[a].pc = "tokens" /\ admin[a] = Idle
             /\ OnlyRequest(a) /\ SameKind(a) /\ SameScene(a) /\ SameAnswer(a)
             /\ k = None => request'[a].pc = "finish"
             /\ k # None => /\ request'[a].left = Recognised(k)
                            /\ request'[a].pc = (IF Recognised(k) = {} THEN "create" ELSE "install")
             /\ tokens' = [t \in TokenValues |-> None]
             /\ UNCHANGED <<vars, driver, sent, planeActive, pinned, content, data, shown, session>>
  <1> DEFINE k == request[a].sc
             left == IF k = None THEN {} ELSE Recognised(k)
             pc == IF k = None THEN "finish" ELSE IF left = {} THEN "create" ELSE "install"
             r == [request[a] EXCEPT !.left = left, !.pc = pc]
  <1>1. /\ request[a].pc = "tokens" /\ admin[a] = Idle
        /\ request' = [request EXCEPT ![a] = r]
        /\ tokens' = [t \in TokenValues |-> None]
        /\ UNCHANGED <<vars, driver, sent, planeActive, pinned, content, data, shown, session>>
    BY DEF resetTokens, contentVars, At
  <1>2. left \in SUBSET DOMAIN TokenRole /\ pc \in Steps
    BY DEF Recognised, Steps
  <1>3. request[a] \in RequestState /\ request \in [Admins -> RequestState]
    BY DEF RequestsOK
  <1>4. /\ k = None => pc = "finish"
        /\ k # None => left = Recognised(k) /\ pc = (IF Recognised(k) = {} THEN "create" ELSE "install")
    OBVIOUS
  <1> HIDE DEF left, pc
  <1>5. r \in RequestState
    BY <1>2, <1>3, Zenon DEF RequestState
  <1>6. request'[a] = r /\ OnlyRequest(a)
    BY <1>1, <1>3, <1>5 DEF OnlyRequest
  <1>7. /\ request'[a].pc = pc /\ request'[a].left = left
        /\ SameKind(a) /\ SameScene(a) /\ SameAnswer(a)
    BY <1>3, <1>6 DEF RequestState, SameKind, SameScene, SameAnswer
  <1> QED
    BY <1>1, <1>4, <1>6, <1>7

LEMMA InstallParts ==
  ASSUME RequestsOK, NEW a \in Admins, NEW p, installToken(a, p)
  PROVE  LET left == request[a].left \ {p}
         IN  /\ request[a].pc = "install" /\ admin[a] = Idle /\ p \in request[a].left
             /\ OnlyRequest(a) /\ SameKind(a) /\ SameScene(a) /\ SameAnswer(a)
             /\ request'[a].left = left
             /\ request'[a].pc = (IF left = {} THEN "create" ELSE "install")
             /\ tokens' = [tokens EXCEPT ![Tokens[request[a].sc][p]] = TokenRole[p]]
             /\ UNCHANGED <<vars, driver, sent, planeActive, pinned, content, data, shown, session>>
  <1> DEFINE left == request[a].left \ {p}
             pc == IF left = {} THEN "create" ELSE "install"
             r == [request[a] EXCEPT !.left = left, !.pc = pc]
  <1>0. request[a] \in RequestState /\ request \in [Admins -> RequestState]
    BY DEF RequestsOK
  <1>1. /\ request[a].pc = "install" /\ admin[a] = Idle /\ p \in request[a].left
        /\ tokens' = [tokens EXCEPT ![Tokens[request[a].sc][p]] = TokenRole[p]]
        /\ UNCHANGED <<vars, driver, sent, planeActive, pinned, content, data, shown, session>>
    BY DEF installToken, contentVars, At
  <1>2. request' = [request EXCEPT ![a] = r]
    BY <1>0, <1>1 DEF installToken
  <1>3. left \in SUBSET DOMAIN TokenRole /\ pc \in Steps
    BY <1>0 DEF RequestState, Steps
  <1> HIDE DEF left, pc
  <1>5. r \in RequestState
    BY <1>0, <1>3, Zenon DEF RequestState
  <1>6. request'[a] = r /\ OnlyRequest(a)
    BY <1>0, <1>2, <1>5 DEF OnlyRequest
  <1>7. /\ request'[a].pc = pc /\ request'[a].left = left
        /\ SameKind(a) /\ SameScene(a) /\ SameAnswer(a)
    BY <1>0, <1>6 DEF RequestState, SameKind, SameScene, SameAnswer
  <1> QED
    BY <1>1, <1>6, <1>7 DEF left, pc

LEMMA FindParts ==
  ASSUME FlowInv, RequestsOK, NEW a \in Admins, findActive(a)
  PROVE  /\ request[a].pc = "find" /\ admin[a] = Idle
         /\ OnlyRequest(a) /\ SameKind(a) /\ request'[a].reply = request[a].reply
         /\ \/ /\ active = None
               /\ request'[a].pc = "done" /\ request'[a].status = "conflict" /\ SameScene(a)
            \/ /\ active # None /\ LiveScene \in Registered
               /\ request'[a].pc = (IF request[a].op = "emit" THEN "apply" ELSE "read")
               /\ request'[a].obj = LiveScene /\ request'[a].status = request[a].status
         /\ UNCHANGED <<vars, driver, sent, tokens, planeActive, pinned, content, data, shown, session>>
  <1> DEFINE pc == IF request[a].op = "emit" THEN "apply" ELSE "read"
             o == LiveScene
             r == [request[a] EXCEPT !.obj = o, !.pc = pc]
  <1>0. request[a] \in RequestState /\ request \in [Admins -> RequestState]
    BY DEF RequestsOK
  <1>1. /\ request[a].pc = "find" /\ admin[a] = Idle
        /\ UNCHANGED <<vars, driver, sent, tokens, planeActive, pinned, content, data, shown, session>>
    BY DEF findActive, contentVars, At
  <1>2. CASE active = None /\ Reply(a, "conflict")
    BY <1>1, <1>2, ReplyParts
  <1>3. CASE active # None /\ request' = [request EXCEPT ![a] = r]
    <2>1. o \in Registered /\ o \in Objs \cup {None} /\ pc \in Steps
      BY <1>3, ServerType DEF Steps
    <2>2. pc = (IF request[a].op = "emit" THEN "apply" ELSE "read") /\ o = LiveScene
      OBVIOUS
    <2> HIDE DEF pc, o
    <2>3. r \in RequestState
      BY <1>0, <2>1, Zenon DEF RequestState
    <2>4. request'[a] = r /\ OnlyRequest(a)
      BY <1>0, <1>3, <2>3 DEF OnlyRequest
    <2>5. /\ request'[a].pc = pc /\ request'[a].obj = o /\ request'[a].status = request[a].status
          /\ SameKind(a) /\ request'[a].reply = request[a].reply
      BY <1>0, <2>4 DEF RequestState, SameKind
    <2> QED
      BY <1>1, <1>3, <2>1, <2>2, <2>4, <2>5
  <1> QED
    BY <1>2, <1>3 DEF findActive

LEMMA ReadParts ==
  ASSUME RequestsOK, NEW a \in Admins, readState(a), content[request[a].obj] \in States
  PROVE  /\ request[a].pc = "read" /\ admin[a] = Idle
         /\ OnlyRequest(a) /\ SameKind(a) /\ SameScene(a)
         /\ request'[a].pc = "done" /\ request'[a].status = "ok"
         /\ request'[a].reply = content[request[a].obj]
         /\ UNCHANGED <<vars, driver, sent, tokens, planeActive, pinned, content, data, shown, session>>
  <1> DEFINE v == content[request[a].obj]
             r == [request[a] EXCEPT !.pc = "done", !.status = "ok", !.reply = v]
  <1>0. request[a] \in RequestState /\ request \in [Admins -> RequestState]
    BY DEF RequestsOK
  <1>1. /\ request[a].pc = "read" /\ admin[a] = Idle
        /\ request' = [request EXCEPT ![a] = r]
        /\ UNCHANGED <<vars, driver, sent, tokens, planeActive, pinned, content, data, shown, session>>
    BY DEF readState, contentVars, At
  <1>2. v \in States \cup {None}
    OBVIOUS
  <1> HIDE DEF v
  <1>3. r \in RequestState
    BY <1>0, <1>2, Zenon DEF RequestState, Steps
  <1>4. request'[a] = r /\ OnlyRequest(a)
    BY <1>0, <1>1, <1>3 DEF OnlyRequest
  <1>5. /\ request'[a].pc = "done" /\ request'[a].status = "ok" /\ request'[a].reply = v
        /\ SameKind(a) /\ SameScene(a)
    BY <1>0, <1>4 DEF RequestState, SameKind, SameScene
  <1> QED
    BY <1>1, <1>4, <1>5 DEF v

\* A request that no longer runs alone is at the same step.
LEMMA CrowdedParts ==
  ASSUME NEW r \in RequestState, NEW C, StepOK(r, C), r.pc # "none"
  PROVE  LET q == [r EXCEPT !.alone = FALSE]
         IN  /\ q.pc = r.pc /\ q.op = r.op /\ q.sc = r.sc /\ q.obj = r.obj /\ q.left = r.left
             /\ q.at = r.at /\ ~ q.alone /\ q.status = r.status /\ q.reply = r.reply
             /\ StepOK(q, C)
  <1> DEFINE q == [r EXCEPT !.alone = FALSE]
  <1>1. /\ q.pc = r.pc /\ q.op = r.op /\ q.sc = r.sc /\ q.obj = r.obj /\ q.left = r.left
        /\ q.at = r.at /\ ~ q.alone /\ q.status = r.status /\ q.reply = r.reply
    BY DEF RequestState
  <1> HIDE DEF q
  <1>2. StepOK(q, C)
    BY <1>1 DEF StepOK
  <1> QED
    BY <1>1, <1>2 DEF q

\* The driver's requests.
DriverState ==
  [on : Admins \cup {None}, sure : BOOLEAN, scenario : Scenarios \cup {None}, state : States,
   reply : States \cup {None}]

\* NoRequest is a request that is at no step.
LEMMA NoRequestParts ==
  /\ NoRequest \in RequestState /\ NoRequest.pc = "none" /\ NoRequest.status = "none"
  /\ NoRequest.reply = None
  /\ \A C : StepOK(NoRequest, C)
  <1>1. NoRequest \in RequestState
    BY DEF NoRequest, RequestState, Steps
  <1>2. \A C : StepOK(NoRequest, C)
    BY DEF NoRequest, StepOK, MadeSteps, SceneSteps
  <1>3. NoRequest.pc = "none" /\ NoRequest.status = "none" /\ NoRequest.reply = None
    BY DEF NoRequest
  <1> QED
    BY <1>1, <1>2, <1>3

LEMMA SendParts ==
  ASSUME RequestsOK, driver \in DriverState, NEW a \in Admins, NEW op \in {"setup", "reset", "emit", "state"},
         NEW k \in Scenarios \cup {None}, op = "setup" <=> k # None, send(a, op, k)
  PROVE  /\ driver.on = None /\ request[a] = NoRequest /\ sent.requests < MaxRequests
         /\ request' \in [Admins -> RequestState]
         /\ request'[a].pc = Entry(op) /\ request'[a].op = op /\ request'[a].sc = k
         /\ (request'[a].alone <=> Running = {})
         /\ request'[a].status = "none" /\ request'[a].reply = None
         /\ \A b \in Admins : b # a =>
              /\ b \notin Running => request'[b] = request[b]
              /\ b \in Running => request'[b] = [request[b] EXCEPT !.alone = FALSE]
         /\ driver' \in DriverState /\ driver'.on = a /\ driver'.sure = driver.sure
         /\ driver'.scenario = driver.scenario /\ driver'.state = driver.state /\ driver'.reply = None
         /\ UNCHANGED <<vars, tokens, planeActive, pinned, content, data, shown, session>>
  <1> DEFINE alone == Running = {}
             pc == Entry(op)
             r == [NoRequest EXCEPT !.pc = pc, !.op = op, !.sc = k, !.alone = alone]
  <1>1. /\ driver.on = None /\ request[a] = NoRequest /\ sent.requests < MaxRequests
        /\ request' = [b \in Admins |->
             IF b = a THEN r
             ELSE IF b \in Running THEN [request[b] EXCEPT !.alone = FALSE] ELSE request[b]]
        /\ driver' = [driver EXCEPT !.on = a, !.reply = None]
        /\ UNCHANGED <<vars, tokens, planeActive, pinned, content, data, shown, session>>
    BY DEF send, contentVars
  <1>2. pc \in Steps /\ alone \in BOOLEAN
    BY DEF Entry, Steps
  <1>3. alone <=> Running = {}
    OBVIOUS
  <1> HIDE DEF alone, pc
  <1>4. /\ r \in RequestState /\ r.pc = pc /\ r.op = op /\ r.sc = k /\ (r.alone <=> alone)
        /\ r.status = "none" /\ r.reply = None
    BY <1>2 DEF NoRequest, RequestState
  <1> HIDE DEF r
  <1>5. \A b \in Admins : [request[b] EXCEPT !.alone = FALSE] \in RequestState
    <2> SUFFICES ASSUME NEW b \in Admins
                 PROVE  [request[b] EXCEPT !.alone = FALSE] \in RequestState
      OBVIOUS
    <2>1. request[b] \in RequestState
      BY DEF RequestsOK
    <2> QED
      BY <2>1, Zenon DEF RequestState
  <1>6. request \in [Admins -> RequestState]
    BY DEF RequestsOK
  <1>7. request' \in [Admins -> RequestState] /\ request'[a] = r
    BY <1>1, <1>4, <1>5, <1>6
  <1>8. \A b \in Admins : b # a =>
              /\ b \notin Running => request'[b] = request[b]
              /\ b \in Running => request'[b] = [request[b] EXCEPT !.alone = FALSE]
    BY <1>1, <1>5
  <1>9. /\ driver' \in DriverState /\ driver'.on = a /\ driver'.sure = driver.sure
        /\ driver'.scenario = driver.scenario /\ driver'.state = driver.state /\ driver'.reply = None
    BY <1>1 DEF DriverState
  <1> QED
    BY <1>1, <1>3, <1>4, <1>7, <1>8, <1>9 DEF pc

\* The states that are written.
LEMMA StatesParts ==
  Empty \in States /\ Emitted \in States /\ \A k \in Scenarios : Seed[k] \in States
  BY DEF States

LEMMA LearnedParts ==
  ASSUME RequestsOK, driver \in DriverState, NEW a \in Admins, request[a].pc = "done"
  PROVE  LET r == request[a]
             d == Learned(a)
         IN  /\ d \in DriverState /\ d.on = None
             /\ d.sure <=> r.alone /\ r.status # "failed" /\ (r.op \in {"setup", "reset"} \/ driver.sure)
             /\ ~ (r.status = "ok" /\ r.op = "state") => d.reply = driver.reply
             /\ r.status = "ok" /\ r.op = "setup" => d.scenario = r.sc /\ d.state = Seed[r.sc]
             /\ r.status = "ok" /\ r.op = "reset" => d.scenario = None /\ d.state = Empty
             /\ r.status = "ok" /\ r.op = "emit" => d.scenario = driver.scenario /\ d.state = Emitted
             /\ r.status = "ok" /\ r.op = "state" =>
                  d.scenario = driver.scenario /\ d.state = driver.state /\ d.reply = r.reply
             /\ r.status # "ok" => d.scenario = driver.scenario /\ d.state = driver.state
  <1> DEFINE r == request[a]
             sure == r.alone /\ r.status # "failed" /\ (r.op \in {"setup", "reset"} \/ driver.sure)
             known == [driver EXCEPT !.on = None, !.sure = sure]
  <1>1. /\ r \in RequestState /\ StepOK(r, created)
    BY DEF RequestsOK
  <1>2. /\ r.op \in {"setup", "reset", "emit", "state"} /\ sure \in BOOLEAN
        /\ r.sc \in Scenarios \cup {None} /\ r.reply \in States \cup {None}
        /\ (r.op = "setup" => r.sc \in Scenarios)
        /\ r.status \in {"none", "ok", "conflict", "failed"}
    BY <1>1 DEF StepOK, RequestState
  <1>3. known = [driver EXCEPT !.on = None,
                               !.sure = r.alone /\ r.status # "failed" /\ (r.op \in {"setup", "reset"} \/ @)]
    BY DEF DriverState
  <1>4. (sure <=> r.alone /\ r.status # "failed" /\ (r.op \in {"setup", "reset"} \/ driver.sure))
    OBVIOUS
  <1>5. Learned(a) =
          IF r.status # "ok" THEN known
          ELSE CASE r.op = "setup" -> [known EXCEPT !.scenario = r.sc, !.state = Seed[r.sc]]
                 [] r.op = "reset" -> [known EXCEPT !.scenario = None, !.state = Empty]
                 [] r.op = "emit"  -> [known EXCEPT !.state = Emitted]
                 [] r.op = "state" -> [known EXCEPT !.reply = r.reply]
    BY <1>3 DEF Learned
  <1> HIDE DEF sure
  <1>6. /\ known \in DriverState /\ known.on = None /\ known.sure = sure /\ known.reply = driver.reply
        /\ known.scenario = driver.scenario /\ known.state = driver.state
    BY <1>2 DEF DriverState
  <1> HIDE DEF known, r
  <1>7. CASE r.status # "ok"
    BY <1>4, <1>5, <1>6, <1>7 DEF r
  <1>8. CASE r.status = "ok" /\ r.op = "setup"
    <2>1. Learned(a) = [known EXCEPT !.scenario = r.sc, !.state = Seed[r.sc]]
      BY <1>5, <1>8
    <2>2. Seed[r.sc] \in States
      BY <1>2, <1>8, StatesParts
    <2>3. /\ Learned(a) \in DriverState /\ Learned(a).on = None /\ Learned(a).sure = sure
          /\ Learned(a).reply = driver.reply /\ Learned(a).scenario = r.sc /\ Learned(a).state = Seed[r.sc]
      BY <1>2, <1>6, <2>1, <2>2 DEF DriverState
    <2> QED
      BY <1>4, <1>8, <2>3 DEF r
  <1>9. CASE r.status = "ok" /\ r.op = "reset"
    <2>1. Learned(a) = [known EXCEPT !.scenario = None, !.state = Empty]
      BY <1>5, <1>9
    <2>3. /\ Learned(a) \in DriverState /\ Learned(a).on = None /\ Learned(a).sure = sure
          /\ Learned(a).reply = driver.reply /\ Learned(a).scenario = None /\ Learned(a).state = Empty
      BY <1>6, <2>1, StatesParts DEF DriverState
    <2> QED
      BY <1>4, <1>9, <2>3 DEF r
  <1>10. CASE r.status = "ok" /\ r.op = "emit"
    <2>1. Learned(a) = [known EXCEPT !.state = Emitted]
      BY <1>5, <1>10
    <2>3. /\ Learned(a) \in DriverState /\ Learned(a).on = None /\ Learned(a).sure = sure
          /\ Learned(a).reply = driver.reply /\ Learned(a).scenario = driver.scenario
          /\ Learned(a).state = Emitted
      BY <1>6, <2>1, StatesParts DEF DriverState
    <2> QED
      BY <1>4, <1>10, <2>3 DEF r
  <1>11. CASE r.status = "ok" /\ r.op = "state"
    <2>1. Learned(a) = [known EXCEPT !.reply = r.reply]
      BY <1>5, <1>11
    <2>3. /\ Learned(a) \in DriverState /\ Learned(a).on = None /\ Learned(a).sure = sure
          /\ Learned(a).reply = r.reply /\ Learned(a).scenario = driver.scenario
          /\ Learned(a).state = driver.state
      BY <1>2, <1>6, <2>1 DEF DriverState
    <2> QED
      BY <1>4, <1>11, <2>3 DEF r
  <1> QED
    BY <1>2, <1>7, <1>8, <1>9, <1>10, <1>11

LEMMA AnswerParts ==
  ASSUME RequestsOK, driver \in DriverState, NEW a \in Admins, answer(a)
  PROVE  /\ request[a].pc = "done"
         /\ request' \in [Admins -> RequestState] /\ request'[a] = NoRequest
         /\ \A b \in Admins : b # a => request'[b] = request[b]
         /\ driver' = (IF driver.on = a THEN Learned(a) ELSE driver)
         /\ driver' \in DriverState
         /\ UNCHANGED <<vars, sent, tokens, planeActive, pinned, content, data, shown, session>>
  <1>1. /\ request[a].pc = "done"
        /\ request' = [request EXCEPT ![a] = NoRequest]
        /\ driver' = (IF driver.on = a THEN Learned(a) ELSE driver)
        /\ UNCHANGED <<vars, sent, tokens, planeActive, pinned, content, data, shown, session>>
    BY DEF answer, contentVars
  <1>2. request \in [Admins -> RequestState]
    BY DEF RequestsOK
  <1>3. request' \in [Admins -> RequestState] /\ request'[a] = NoRequest
        /\ \A b \in Admins : b # a => request'[b] = request[b]
    BY <1>1, <1>2, NoRequestParts
  <1>4. driver' \in DriverState
    BY <1>1, LearnedParts
  <1> QED
    BY <1>1, <1>3, <1>4

LEMMA TimeoutParts ==
  ASSUME driver \in DriverState, NEW a \in Admins, timeout(a)
  PROVE  /\ driver.on = a /\ a \in Running
         /\ driver' \in DriverState /\ driver'.on = None /\ ~ driver'.sure
         /\ UNCHANGED <<vars, request, tokens, planeActive, pinned, content, data, shown, session>>
  <1>1. /\ driver.on = a /\ a \in Running
        /\ driver' = [driver EXCEPT !.on = None, !.sure = FALSE]
        /\ UNCHANGED <<vars, request, tokens, planeActive, pinned, content, data, shown, session>>
    BY DEF timeout, contentVars
  <1> QED
    BY <1>1 DEF DriverState

\* What the steps that start or end a call, or write to a scene, do.
LEMMA ResetServerParts ==
  ASSUME RequestsOK, NEW a \in Admins, resetServer(a)
  PROVE  /\ request[a].pc = "start" /\ admin[a] = Idle /\ Reset(a)
         /\ OnlyRequest(a) /\ request'[a].pc = "tokens" /\ SameKind(a) /\ SameScene(a) /\ SameAnswer(a)
         /\ UNCHANGED <<driver, sent, tokens, planeActive, pinned, content, data, shown, session>>
  <1>1. /\ request[a].pc = "start" /\ admin[a] = Idle /\ Reset(a) /\ Goto(a, "tokens")
        /\ UNCHANGED <<driver, sent, tokens, planeActive, pinned, content, data, shown, session>>
    BY DEF resetServer, contentVars, At
  <1> QED
    BY <1>1, GotoParts DEF Steps

\* A scenario's request is of a scenario.
LEMMA SetupParts ==
  ASSUME RequestsOK, NEW a \in Admins,
         request[a].pc \in {"install", "create", "reject", "set", "refresh", "activate", "second", "version"}
  PROVE  request[a].op = "setup" /\ request[a].sc \in Scenarios /\ request[a].status = "none"
  <1>1. request[a] \in RequestState /\ StepOK(request[a], created)
    BY DEF RequestsOK
  <1> QED
    BY <1>1 DEF StepOK, RequestState, MadeSteps

\* The scene a request works on is an object.
LEMMA ObjParts ==
  ASSUME RequestsOK, NEW a \in Admins, request[a].pc \in MadeSteps \cup SceneSteps
  PROVE  request[a].obj \in created
  BY DEF RequestsOK, StepOK

LEMMA CreatePrimaryParts ==
  ASSUME RequestsOK, NEW a \in Admins, createPrimary(a)
  PROVE  LET k == request[a].sc
             b == Bundles[k][1]
         IN  /\ request[a].pc = "create" /\ admin[a] = Idle /\ k \in Scenarios
             /\ NewScene(a, b.id, Fresh) /\ b.id \in Ids /\ Fresh \in Objs \ created
             /\ pinned' = (IF b.pinned THEN pinned \cup {Fresh} ELSE pinned)
             /\ OnlyRequest(a)
             /\ request'[a].pc = (IF k \in Malformed THEN "reject" ELSE SeedStep(k))
             /\ request'[a].obj = Fresh /\ request'[a].at = 1 /\ SameKind(a) /\ SameAnswer(a)
             /\ UNCHANGED <<driver, sent, tokens, planeActive, content, data, shown, session>>
  <1> DEFINE k == request[a].sc
             next == IF k \in Malformed THEN "reject" ELSE SeedStep(k)
  <1>1. request[a].pc = "create" /\ admin[a] = Idle /\ register(a, 1, TRUE, next)
    BY DEF createPrimary, At
  <1>2. k \in Scenarios
    BY <1>1, SetupParts
  <1>3. 1 \in 1 .. Len(Bundles[k])
    BY <1>2, BundleParts
  <1>4. next \in Steps
    BY DEF Steps, SeedStep
  <1>5. next = (IF k \in Malformed THEN "reject" ELSE SeedStep(k))
    OBVIOUS
  <1> HIDE DEF next
  <1> QED
    BY <1>1, <1>2, <1>3, <1>4, <1>5, RegisterParts

LEMMA CreateSecondaryParts ==
  ASSUME RequestsOK, NEW a \in Admins, createSecondary(a)
  PROVE  LET k == request[a].sc
             n == request[a].at + 1
             b == Bundles[k][n]
         IN  /\ request[a].pc = "second" /\ admin[a] = Idle /\ k \in Scenarios
             /\ n \in 2 .. Len(Bundles[k])
             /\ NewScene(a, b.id, Fresh) /\ b.id \in Ids /\ Fresh \in Objs \ created
             /\ pinned' = pinned
             /\ OnlyRequest(a)
             /\ request'[a].pc = (IF b.pinned THEN "version" ELSE NextBundle(k, n))
             /\ request'[a].obj = Fresh /\ request'[a].at = n /\ SameKind(a) /\ SameAnswer(a)
             /\ UNCHANGED <<driver, sent, tokens, planeActive, content, data, shown, session>>
  <1> DEFINE k == request[a].sc
             n == request[a].at + 1
             next == IF Bundles[k][n].pinned THEN "version" ELSE NextBundle(k, n)
  <1>1. request[a].pc = "second" /\ admin[a] = Idle /\ register(a, n, FALSE, next)
    BY DEF createSecondary, At
  <1>2. k \in Scenarios
    BY <1>1, SetupParts
  <1>3. n \in 1 .. Len(Bundles[k]) /\ n \in 2 .. Len(Bundles[k])
    <2>1. request[a].at \in 1 .. Len(Bundles[k]) - 1
      BY <1>1 DEF RequestsOK, StepOK
    <2> QED
      BY <1>2, <2>1, BundleParts
  <1>4. next \in Steps
    BY DEF Steps, NextBundle
  <1>5. next = (IF Bundles[k][n].pinned THEN "version" ELSE NextBundle(k, n))
    OBVIOUS
  <1> HIDE DEF next, n
  <1>6. /\ NewScene(a, Bundles[k][n].id, Fresh) /\ Bundles[k][n].id \in Ids /\ Fresh \in Objs \ created
        /\ pinned' = pinned
        /\ OnlyRequest(a) /\ request'[a].pc = next /\ request'[a].obj = Fresh
        /\ request'[a].at = n /\ SameKind(a) /\ SameAnswer(a)
        /\ UNCHANGED <<driver, sent, tokens, planeActive, content, data, shown, session>>
    BY <1>1, <1>2, <1>3, <1>4, RegisterParts
  <1> QED
    BY <1>1, <1>2, <1>3, <1>5, <1>6 DEF n

LEMMA RejectParts ==
  ASSUME RequestsOK, NEW a \in Admins, rejectPrimary(a)
  PROVE  /\ request[a].pc = "reject" /\ admin[a] = Idle /\ Reject(a, request[a].obj)
         /\ OnlyRequest(a) /\ request'[a].pc = SeedStep(request[a].sc)
         /\ SameKind(a) /\ SameScene(a) /\ SameAnswer(a)
         /\ UNCHANGED <<driver, sent, tokens, planeActive, pinned, content, data, shown, session>>
  <1>1. /\ request[a].pc = "reject" /\ admin[a] = Idle /\ Reject(a, request[a].obj)
        /\ Goto(a, SeedStep(request[a].sc))
        /\ UNCHANGED <<driver, sent, tokens, planeActive, pinned, content, data, shown, session>>
    BY DEF rejectPrimary, contentVars, At
  <1>2. SeedStep(request[a].sc) \in Steps
    BY DEF SeedStep, Steps
  <1> QED
    BY <1>1, <1>2, GotoParts

LEMMA SeedParts ==
  ASSUME RequestsOK, NEW a \in Admins, seedStore(a)
  PROVE  /\ request[a].pc = "set" /\ admin[a] = Idle
         /\ content' = [content EXCEPT ![request[a].obj] = Seed[request[a].sc]]
         /\ OnlyRequest(a) /\ request'[a].pc = "refresh"
         /\ SameKind(a) /\ SameScene(a) /\ SameAnswer(a)
         /\ UNCHANGED <<vars, driver, sent, tokens, planeActive, pinned, data, shown, session>>
  <1>1. /\ request[a].pc = "set" /\ admin[a] = Idle /\ Goto(a, "refresh")
        /\ content' = [content EXCEPT ![request[a].obj] = Seed[request[a].sc]]
        /\ UNCHANGED <<vars, driver, sent, tokens, planeActive, pinned, data, shown, session>>
    BY DEF seedStore, At
  <1> QED
    BY <1>1, GotoParts DEF Steps

LEMMA RefreshParts ==
  ASSUME RequestsOK, NEW a \in Admins, refreshAll(a)
  PROVE  /\ request[a].pc = "refresh" /\ admin[a] = Idle /\ Refreshed(request[a].obj)
         /\ Carry({}, None)
         /\ OnlyRequest(a) /\ request'[a].pc = "activate"
         /\ SameKind(a) /\ SameScene(a) /\ SameAnswer(a)
         /\ UNCHANGED <<driver, sent, tokens, planeActive, pinned, content, session>>
  <1>1. /\ request[a].pc = "refresh" /\ admin[a] = Idle /\ Goto(a, "activate")
        /\ Refreshed(request[a].obj) /\ Carry({}, None)
        /\ UNCHANGED <<driver, sent, tokens, planeActive, pinned, content, session>>
    BY DEF refreshAll, At, Refreshed
  <1> QED
    BY <1>1, GotoParts DEF Steps

LEMMA ActivateParts ==
  ASSUME RequestsOK, NEW a \in Admins, activate(a)
  PROVE  LET k == request[a].sc
             id == Bundles[k][1].id
         IN  /\ request[a].pc = "activate" /\ admin[a] = Idle /\ k \in Scenarios /\ id \in Ids
             /\ OnlyRequest(a) /\ SameKind(a) /\ SameScene(a) /\ request'[a].reply = request[a].reply
             /\ \/ /\ scenes[id] = None /\ UNCHANGED vars
                   /\ request'[a].pc = "done" /\ request'[a].status = "failed"
                \/ /\ scenes[id] # None /\ active = id /\ UNCHANGED vars
                   /\ request'[a].pc = NextBundle(k, 1) /\ request'[a].status = request[a].status
                \/ /\ SetActive(a, id) /\ active # id
                   /\ request'[a].pc = NextBundle(k, 1) /\ request'[a].status = request[a].status
             /\ UNCHANGED <<driver, sent, tokens, planeActive, pinned, content, data, shown, session>>
  <1> DEFINE k == request[a].sc
             id == Bundles[k][1].id
  <1>1. /\ request[a].pc = "activate" /\ admin[a] = Idle
        /\ UNCHANGED <<driver, sent, tokens, planeActive, pinned, content, data, shown, session>>
    BY DEF activate, contentVars, At
  <1>2. k \in Scenarios
    BY <1>1, SetupParts
  <1>3. id \in Ids
    BY <1>2, BundleParts
  <1>4. NextBundle(k, 1) \in Steps
    BY DEF NextBundle, Steps
  <1>5. CASE scenes[id] = None /\ Reply(a, "failed") /\ UNCHANGED vars
    BY <1>1, <1>2, <1>3, <1>5, ReplyParts
  <1>6. CASE scenes[id] # None /\ active = id /\ Goto(a, NextBundle(k, 1)) /\ UNCHANGED vars
    BY <1>1, <1>2, <1>3, <1>4, <1>6, GotoParts DEF SameAnswer
  <1>7. CASE SetActive(a, id) /\ Goto(a, NextBundle(k, 1))
    <2>1. active # id
      BY <1>7 DEF SetActive
    <2> QED
      BY <1>1, <1>2, <1>3, <1>4, <1>7, <2>1, GotoParts DEF SameAnswer
  <1> QED
    BY <1>5, <1>6, <1>7 DEF activate

LEMMA VersionParts ==
  ASSUME RequestsOK, NEW a \in Admins, setVersion(a)
  PROVE  /\ request[a].pc = "version" /\ admin[a] = Idle
         /\ pinned' = pinned \cup {request[a].obj}
         /\ OnlyRequest(a) /\ request'[a].pc = NextBundle(request[a].sc, request[a].at)
         /\ SameKind(a) /\ SameScene(a) /\ SameAnswer(a)
         /\ UNCHANGED <<vars, driver, sent, tokens, planeActive, content, data, shown, session>>
  <1>1. /\ request[a].pc = "version" /\ admin[a] = Idle
        /\ pinned' = pinned \cup {request[a].obj}
        /\ Goto(a, NextBundle(request[a].sc, request[a].at))
        /\ UNCHANGED <<vars, driver, sent, tokens, planeActive, content, data, shown, session>>
    BY DEF setVersion, contentVars, At
  <1>2. NextBundle(request[a].sc, request[a].at) \in Steps
    BY DEF NextBundle, Steps
  <1> QED
    BY <1>1, <1>2, GotoParts

LEMMA FinishParts ==
  ASSUME RequestsOK, NEW a \in Admins, finish(a)
  PROVE  /\ request[a].pc = "finish" /\ admin[a] = Idle
         /\ planeActive' = (IF request[a].op = "setup" THEN Bundles[request[a].sc][1].id ELSE None)
         /\ OnlyRequest(a) /\ request'[a].pc = "done" /\ request'[a].status = "ok"
         /\ SameKind(a) /\ SameScene(a) /\ request'[a].reply = request[a].reply
         /\ UNCHANGED <<vars, driver, sent, tokens, pinned, content, data, shown, session>>
  <1>1. /\ request[a].pc = "finish" /\ admin[a] = Idle /\ Reply(a, "ok")
        /\ planeActive' = (IF request[a].op = "setup" THEN Bundles[request[a].sc][1].id ELSE None)
        /\ UNCHANGED <<vars, driver, sent, tokens, pinned, content, data, shown, session>>
    BY DEF finish, contentVars, At
  <1> QED
    BY <1>1, ReplyParts

LEMMA ApplyParts ==
  ASSUME RequestsOK, NEW a \in Admins, applyEmit(a)
  PROVE  /\ request[a].pc = "apply" /\ admin[a] = Idle
         /\ content' = [content EXCEPT ![request[a].obj] = Emitted]
         /\ OnlyRequest(a) /\ request'[a].pc = "publish"
         /\ SameKind(a) /\ SameScene(a) /\ SameAnswer(a)
         /\ UNCHANGED <<vars, driver, sent, tokens, planeActive, pinned, data, shown, session>>
  <1>1. /\ request[a].pc = "apply" /\ admin[a] = Idle /\ Goto(a, "publish")
        /\ content' = [content EXCEPT ![request[a].obj] = Emitted]
        /\ UNCHANGED <<vars, driver, sent, tokens, planeActive, pinned, data, shown, session>>
    BY DEF applyEmit, At
  <1> QED
    BY <1>1, GotoParts DEF Steps

LEMMA PublishParts ==
  ASSUME RequestsOK, NEW a \in Admins, NEW K, publishEmit(a, K)
  PROVE  /\ request[a].pc = "publish" /\ admin[a] = Idle
         /\ emit(request[a].obj, K) /\ K \in SUBSET subscribers[request[a].obj]
         /\ Carry(K, Emitted)
         /\ OnlyRequest(a) /\ request'[a].pc = "done" /\ request'[a].status = "ok"
         /\ SameKind(a) /\ SameScene(a) /\ request'[a].reply = request[a].reply
         /\ UNCHANGED <<driver, sent, tokens, planeActive, pinned, content, session>>
  <1>1. /\ request[a].pc = "publish" /\ admin[a] = Idle /\ Reply(a, "ok")
        /\ emit(request[a].obj, K) /\ Carry(K, Emitted)
        /\ UNCHANGED <<driver, sent, tokens, planeActive, pinned, content, session>>
    BY DEF publishEmit, At
  <1>2. K \in SUBSET subscribers[request[a].obj]
    BY <1>1 DEF emit
  <1> QED
    BY <1>1, <1>2, ReplyParts

-----------------------------------------------------------------------------
(* What the queued frames say. *)

\* An object that does not exist yet has no state, and neither has holding.
ContentType ==
  /\ content \in [Scenes -> States]
  /\ \A o \in Scenes \ created : content[o] = Empty

\* Every queued frame says a state.
Said(s) == data[s] \in Seq(States) /\ Len(data[s]) = Len(out[s])

DataType == (\A s \in Subs : Said(s)) /\ shown \in [Subs -> States]

\* What s shows once everything on its way has arrived.
Final(s) == IF data[s] = <<>> THEN shown[s] ELSE data[s][Len(data[s])]

\* What is left of what the queue of s says when the connections in S take a frame.
Kept(S, s) == IF s \in S THEN Tail(data[s]) ELSE data[s]

\* What the last of the frames fs says, if it is new.
Says(f, v) == IF f.type = "delta" THEN v ELSE content'[f.scene]

\* A step that queues frames behind the kept ones.
LEMMA CarryParts ==
  ASSUME FlowInv, FlowInv', DataType, ContentType', NEW S, NEW v, Carry(S, v), NEW s \in Subs,
         s \in S => out[s] # <<>>,
         Len(Kept(S, s)) <= Len(out'[s]),
         \A i \in 1 .. Len(out'[s]) : i > Len(Kept(S, s)) =>
           Says(out'[s][i], v) \in States
  PROVE  /\ Said(s)'
         /\ Kept(S, s) \in Seq(States)
         /\ shown'[s] = (IF s \in S THEN Seen(s) ELSE shown[s]) /\ shown'[s] \in States
         /\ Len(out'[s]) > Len(Kept(S, s)) => Final(s)' = Says(out'[s][Len(out'[s])], v)
         /\ Len(out'[s]) = Len(Kept(S, s)) =>
              Final(s)' = (IF Kept(S, s) = <<>> THEN shown'[s] ELSE Kept(S, s)[Len(Kept(S, s))])
  <1> DEFINE kept == Kept(S, s)
             m == Len(kept)
             n == Len(out'[s])
  <1>1. /\ data[s] \in Seq(States) /\ Len(data[s]) = Len(out[s]) /\ shown[s] \in States
        /\ out'[s] \in Seq(FrameType)
    <2>1. Said(s) /\ shown[s] \in States
      BY DEF DataType
    <2>2. (out \in [Subs -> Seq(FrameType)])'
      BY DEF FlowInv, PinnedInv, OwnInv, Shape, TypeOK
    <2> QED
      BY <2>1, <2>2 DEF Said
  <1>2. s \in S => data[s] # <<>>
    <2>1. out[s] # <<>> => Len(data[s]) # 0
      <3> SUFFICES ASSUME out[s] # <<>>, Len(data[s]) = 0 PROVE FALSE
        OBVIOUS
      <3>1. out[s] \in Seq(FrameType)
        BY ServerType
      <3> QED
        BY <1>1, <3>1
    <2> QED
      BY <1>1, <2>1
  <1>3. kept \in Seq(States) /\ m \in Nat /\ n \in Nat
    BY <1>1, <1>2 DEF Kept
  <1>4. data'[s] = [i \in 1 .. n |-> IF i <= m THEN kept[i] ELSE Says(out'[s][i], v)]
    BY DEF Carry, Kept, Says
  <1>5. shown'[s] = (IF s \in S THEN Seen(s) ELSE shown[s])
    BY DEF Carry
  <1>6. shown'[s] \in States
    BY <1>1, <1>2, <1>5 DEF Seen
  <1> HIDE DEF kept
  <1>7. \A i \in 1 .. n : (IF i <= m THEN kept[i] ELSE Says(out'[s][i], v)) \in States
    BY <1>3 DEF kept
  <1>8. data'[s] \in Seq(States) /\ Len(data'[s]) = n
    BY <1>3, <1>4, <1>7
  <1>9. n > 0 => Final(s)' = (IF n <= m THEN kept[n] ELSE Says(out'[s][n], v))
    <2> SUFFICES ASSUME n > 0
                 PROVE  Final(s)' = (IF n <= m THEN kept[n] ELSE Says(out'[s][n], v))
      OBVIOUS
    <2>1. data'[s] # <<>> /\ n \in 1 .. n
      BY <1>3, <1>8
    <2>2. Final(s)' = data'[s][n]
      BY <1>8, <2>1 DEF Final
    <2> QED
      BY <1>4, <2>1, <2>2
  <1>10. n = 0 => Final(s)' = shown'[s]
    BY <1>8 DEF Final
  <1>11. m = 0 <=> kept = <<>>
    BY <1>3
  <1> QED
    BY <1>3, <1>5, <1>6, <1>8, <1>9, <1>10, <1>11 DEF Said, kept

\* A frame that is not a Delta says what the scene's store holds.
LEMMA SaysState ==
  ASSUME ContentType', NEW f \in FrameType, NEW v, f.type = "delta" => v \in States
  PROVE  Says(f, v) \in States /\ (f.type # "delta" => Says(f, v) = content'[f.scene])
  BY DEF ContentType, Says, FrameType

\* Nothing is queued for s.
LEMMA CarrySame ==
  ASSUME FlowInv, FlowInv', DataType, ContentType', NEW S, NEW v, Carry(S, v), NEW s \in Subs,
         s \notin S, out'[s] = out[s]
  PROVE  Said(s)' /\ shown'[s] \in States /\ Final(s)' = Final(s)
  <1>1. Kept(S, s) = data[s] /\ Len(out'[s]) = Len(data[s]) /\ Len(data[s]) \in Nat
    BY DEF Kept, DataType, Said
  <1>2. /\ Said(s)' /\ shown'[s] \in States /\ shown'[s] = shown[s]
        /\ Final(s)' = (IF data[s] = <<>> THEN shown'[s] ELSE data[s][Len(data[s])])
    BY <1>1, CarryParts
  <1> QED
    BY <1>2 DEF Final

\* One frame is queued for s.
LEMMA CarryAppend ==
  ASSUME FlowInv, FlowInv', DataType, ContentType', NEW S, NEW v, Carry(S, v), NEW s \in Subs,
         s \notin S, NEW f \in FrameType, f.type = "delta" => v \in States,
         out'[s] = Append(out[s], f)
  PROVE  Said(s)' /\ shown'[s] \in States /\ Final(s)' = Says(f, v)
  <1> DEFINE n == Len(out[s])
  <1>1. /\ Kept(S, s) = data[s] /\ Len(data[s]) = n /\ n \in Nat
        /\ Len(out'[s]) = n + 1 /\ out'[s][n + 1] = f
    BY ServerType DEF Kept, DataType, Said
  <1> HIDE DEF n
  <1>2. \A i \in 1 .. Len(out'[s]) : i > Len(Kept(S, s)) => Says(out'[s][i], v) \in States
    BY <1>1, SaysState
  <1>3. Len(Kept(S, s)) <= Len(out'[s]) /\ Len(out'[s]) > Len(Kept(S, s))
    BY <1>1
  <1>4. Said(s)' /\ shown'[s] \in States /\ Final(s)' = Says(out'[s][Len(out'[s])], v)
    BY <1>2, <1>3, CarryParts
  <1> QED
    BY <1>1, <1>4

\* A SceneChanged and a Snapshot are queued for s.
LEMMA CarryTwo ==
  ASSUME FlowInv, FlowInv', DataType, ContentType', NEW S, NEW v, Carry(S, v), NEW s \in Subs,
         s \notin S, NEW f \in FrameType, NEW g \in FrameType, f.type # "delta", g.type # "delta",
         Len(out'[s]) = Len(out[s]) + 2, out'[s][Len(out[s]) + 1] = f, out'[s][Len(out[s]) + 2] = g
  PROVE  Said(s)' /\ shown'[s] \in States /\ Final(s)' = content'[g.scene]
  <1> DEFINE n == Len(out[s])
  <1>1. /\ Kept(S, s) = data[s] /\ Len(data[s]) = n /\ n \in Nat
        /\ Len(out'[s]) = n + 2 /\ out'[s][n + 1] = f /\ out'[s][n + 2] = g
    BY ServerType DEF Kept, DataType, Said
  <1> HIDE DEF n
  <1>2. \A i \in 1 .. Len(out'[s]) : i > Len(Kept(S, s)) => Says(out'[s][i], v) \in States
    <2> SUFFICES ASSUME NEW i \in 1 .. Len(out'[s]), i > Len(Kept(S, s))
                 PROVE  Says(out'[s][i], v) \in States
      OBVIOUS
    <2>1. i = n + 1 \/ i = n + 2
      BY <1>1
    <2> QED
      BY <1>1, <2>1, SaysState
  <1>3. Len(Kept(S, s)) <= Len(out'[s]) /\ Len(out'[s]) > Len(Kept(S, s)) /\ (s \in S => out[s] # <<>>)
    BY <1>1
  <1>4. Said(s)' /\ shown'[s] \in States /\ Final(s)' = Says(out'[s][Len(out'[s])], v)
    BY <1>2, <1>3, CarryParts
  <1>5. Says(g, v) = content'[g.scene]
    BY SaysState
  <1> QED
    BY <1>1, <1>4, <1>5

\* s takes the head of its queue, and nothing or one frame is queued.
LEMMA CarryTake ==
  ASSUME FlowInv, FlowInv', DataType, ContentType', NEW S, NEW v, Carry(S, v), NEW s \in Subs,
         s \in S, out[s] # <<>>, out'[s] = Tail(out[s])
  PROVE  /\ Said(s)' /\ shown'[s] \in States
         /\ Final(s)' = (IF Len(out[s]) = 1 THEN Seen(s) ELSE Final(s))
  <1> DEFINE n == Len(out[s])
             kept == Kept(S, s)
  <1>1. /\ kept = Tail(data[s]) /\ Len(data[s]) = n /\ n \in Nat /\ n > 0
        /\ data[s] \in Seq(States) /\ out[s] \in Seq(FrameType)
    BY ServerType DEF Kept, DataType, Said
  <1>2. /\ Len(out'[s]) = n - 1 /\ Len(kept) = n - 1
        /\ n > 1 => kept # <<>> /\ kept[n - 1] = data[s][n]
        /\ n = 1 => kept = <<>>
    <2>1. Len(Tail(out[s])) = n - 1
      BY <1>1
    <2>2. /\ Tail(data[s]) \in Seq(States) /\ Len(Tail(data[s])) = n - 1
          /\ \A i \in 1 .. n - 1 : Tail(data[s])[i] = data[s][i + 1]
      BY <1>1
    <2>3. n > 1 => Tail(data[s])[n - 1] = data[s][n]
      <3>1. n > 1 => n - 1 \in 1 .. n - 1 /\ (n - 1) + 1 = n
        BY <1>1
      <3> QED
        BY <2>2, <3>1
    <2>4. n = 1 <=> Tail(data[s]) = <<>>
      <3> DEFINE tl == Tail(data[s])
      <3>1. tl \in Seq(States) /\ Len(tl) = n - 1 /\ n \in Nat
        BY <1>1, <2>2
      <3> HIDE DEF tl, n
      <3>2. Len(tl) = 0 <=> tl = <<>>
        BY <3>1
      <3>3. n = 1 <=> tl = <<>>
        BY <3>1, <3>2
      <3> QED
        BY <3>3 DEF tl
    <2> QED
      BY <1>1, <2>1, <2>2, <2>3, <2>4
  <1> HIDE DEF n
  <1>3. Len(Kept(S, s)) <= Len(out'[s]) /\ Len(out'[s]) = Len(Kept(S, s))
    BY <1>1, <1>2
  <1>4. \A i \in 1 .. Len(out'[s]) : i > Len(Kept(S, s)) => Says(out'[s][i], v) \in States
    BY <1>1, <1>2
  <1>5. /\ Said(s)' /\ shown'[s] \in States /\ shown'[s] = Seen(s)
        /\ Final(s)' = (IF kept = <<>> THEN shown'[s] ELSE kept[Len(kept)])
    BY <1>3, <1>4, CarryParts
  <1>6. CASE n = 1
    BY <1>2, <1>5, <1>6 DEF n
  <1>7. CASE n > 1
    <2>1. Final(s) = data[s][n]
      BY <1>1, <1>7 DEF Final
    <2> QED
      BY <1>2, <1>5, <1>7, <2>1 DEF n
  <1>8. n = 1 \/ n > 1
    BY <1>1
  <1> QED
    BY <1>6, <1>7, <1>8

LEMMA CarryCollapse ==
  ASSUME FlowInv, FlowInv', DataType, ContentType', NEW S, NEW v, Carry(S, v), NEW s \in Subs,
         s \in S, out[s] # <<>>, NEW f \in FrameType, f.type = "delta" => v \in States,
         out'[s] = Append(Tail(out[s]), f)
  PROVE  Said(s)' /\ shown'[s] \in States /\ Final(s)' = Says(f, v)
  <1> DEFINE n == Len(out[s])
  <1>1. /\ Kept(S, s) = Tail(data[s]) /\ Len(data[s]) = n /\ n \in Nat /\ n > 0
        /\ data[s] \in Seq(States) /\ out[s] \in Seq(FrameType)
    BY ServerType DEF Kept, DataType, Said
  <1>2. Len(out'[s]) = n /\ Len(Kept(S, s)) = n - 1 /\ out'[s][n] = f
    <2>1. Tail(out[s]) \in Seq(FrameType) /\ Len(Tail(out[s])) = n - 1
      BY <1>1
    <2>2. Len(Append(Tail(out[s]), f)) = n /\ Append(Tail(out[s]), f)[n] = f
      BY <1>1, <2>1
    <2> QED
      BY <1>1, <2>2
  <1> HIDE DEF n
  <1>3. \A i \in 1 .. Len(out'[s]) : i > Len(Kept(S, s)) => Says(out'[s][i], v) \in States
    BY <1>1, <1>2, SaysState
  <1>4. Len(Kept(S, s)) <= Len(out'[s]) /\ Len(out'[s]) > Len(Kept(S, s))
    BY <1>1, <1>2
  <1>5. Said(s)' /\ shown'[s] \in States /\ Final(s)' = Says(out'[s][Len(out'[s])], v)
    BY <1>3, <1>4, CarryParts
  <1> QED
    BY <1>2, <1>5

\* A Carry writes for every connection.
LEMMA CarryType ==
  ASSUME NEW S, NEW v, Carry(S, v), \A s \in Subs : Said(s)' /\ shown'[s] \in States
  PROVE  DataType'
  <1>1. shown' = [s \in Subs |-> IF s \in S THEN Seen(s) ELSE shown[s]]
    BY DEF Carry
  <1>2. shown' \in [Subs -> States]
    BY <1>1
  <1> QED
    BY <1>2 DEF DataType

\* Nothing is queued and nothing is taken.
LEMMA QuietData ==
  ASSUME FlowInv, FlowInv', DataType, ContentType', NEW v, Carry({}, v), out' = out
  PROVE  DataType' /\ \A s \in Subs : Final(s)' = Final(s)
  <1>1. \A s \in Subs : Said(s)' /\ shown'[s] \in States /\ Final(s)' = Final(s)
    BY CarrySame
  <1> QED
    BY <1>1, CarryType

\* refreshAll: the subscribers that are not stale will show what the scene holds.
LEMMA RefreshData ==
  ASSUME FlowInv, FlowInv', DataType, ContentType', NEW o \in Scenes, Refreshed(o),
         Carry({}, None), content' = content
  PROVE  /\ DataType'
         /\ \A s \in Subs : s \notin subscribers[o] => Final(s)' = Final(s)
         /\ \A s \in Subs : s \in subscribers[o] /\ ~ stale'[s] => Final(s)' = content[o]
  <1> DEFINE fit == {s \in subscribers[o] : Free(s) >= 1}
             f == Frame("snapshot", o, seq[o])
  <1>1. /\ out' = [s \in Subs |-> IF s \in fit THEN Append(out[s], f) ELSE out[s]]
        /\ stale' = [s \in Subs |-> stale[s] \/ s \in subscribers[o] \ fit]
    BY DEF Refreshed
  <1>2. f \in FrameType /\ f.type = "snapshot" /\ f.scene = o
    BY FrameIsFrame, ServerType DEF Frame
  <1> HIDE DEF f
  <1>3. ASSUME NEW s \in Subs
        PROVE  /\ Said(s)' /\ shown'[s] \in States
               /\ s \notin subscribers[o] => Final(s)' = Final(s)
               /\ s \in subscribers[o] /\ ~ stale'[s] => Final(s)' = content[o]
    <2>1. CASE s \in fit
      <3>1. out'[s] = Append(out[s], f)
        BY <1>1, <2>1
      <3>2. Said(s)' /\ shown'[s] \in States /\ Final(s)' = Says(f, None)
        BY <1>2, <3>1, CarryAppend
      <3>3. Says(f, None) = content'[o]
        BY <1>2, SaysState
      <3> QED
        BY <2>1, <3>2, <3>3
    <2>2. CASE s \notin fit
      <3>1. out'[s] = out[s] /\ (s \in subscribers[o] => stale'[s])
        BY <1>1, <2>2
      <3>2. Said(s)' /\ shown'[s] \in States /\ Final(s)' = Final(s)
        BY <3>1, CarrySame
      <3> QED
        BY <3>1, <3>2
    <2> QED
      BY <2>1, <2>2
  <1>4. DataType'
    BY <1>3, CarryType
  <1> QED
    BY <1>3, <1>4

\* Emit: the subscribers that are not stale will show what was emitted.
LEMMA EmitData ==
  ASSUME FlowInv, FlowInv', DataType, ContentType', NEW o \in Scenes, NEW K \in SUBSET subscribers[o],
         emit(o, K), Carry(K, Emitted), content' = content
  PROVE  /\ DataType'
         /\ \A s \in Subs : s \notin subscribers[o] => Final(s)' = Final(s)
         /\ \A s \in Subs : s \in subscribers[o] /\ ~ stale'[s] /\ content[o] = Emitted =>
              Final(s)' = content[o]
  <1> DEFINE fit == {s \in subscribers[o] : Free(s) >= 1}
             n == seq[o] + 1
             d == Frame("delta", o, n)
             f == Frame("snapshot", o, n)
  <1>1. /\ out' = [s \in Subs |->
             IF s \in fit THEN Append(out[s], d)
             ELSE IF s \in K THEN Append(Tail(out[s]), f) ELSE out[s]]
        /\ stale' = [s \in Subs |-> stale[s] \/ s \in subscribers[o] \ (fit \cup K)]
        /\ \A s \in K : s \notin fit /\ client[s].last # 0
    BY DEF emit
  <1>2. /\ d \in FrameType /\ d.type = "delta"
        /\ f \in FrameType /\ f.type = "snapshot" /\ f.scene = o
    BY FrameIsFrame, ServerType DEF Frame
  <1> HIDE DEF d, f
  <1>3. ASSUME NEW s \in Subs
        PROVE  /\ Said(s)' /\ shown'[s] \in States
               /\ s \notin subscribers[o] => Final(s)' = Final(s)
               /\ s \in subscribers[o] /\ ~ stale'[s] /\ content[o] = Emitted => Final(s)' = content[o]
    <2>1. CASE s \in fit
      <3>1. out'[s] = Append(out[s], d) /\ s \notin K
        BY <1>1, <2>1
      <3>2. Said(s)' /\ shown'[s] \in States /\ Final(s)' = Says(d, Emitted)
        BY <1>2, <3>1, CarryAppend, StatesParts
      <3>3. Says(d, Emitted) = Emitted
        BY <1>2 DEF Says
      <3> QED
        BY <2>1, <3>2, <3>3
    <2>2. CASE s \in K
      <3>1. out'[s] = Append(Tail(out[s]), f)
        BY <1>1, <2>2
      <3>2. out[s] # <<>>
        <4>1. ~ (Free(s) >= 1) /\ client[s].last # 0
          BY <1>1, <2>2
        <4>2. Len(out[s]) > 0
          BY <4>1, OutCapAssumption, ServerType DEF Free
        <4> QED
          BY <4>2
      <3>3. Said(s)' /\ shown'[s] \in States /\ Final(s)' = Says(f, Emitted)
        BY <1>2, <2>2, <3>1, <3>2, CarryCollapse, StatesParts
      <3>4. Says(f, Emitted) = content'[o]
        BY <1>2, SaysState
      <3> QED
        BY <2>2, <3>3, <3>4
    <2>3. CASE s \notin fit /\ s \notin K
      <3>1. out'[s] = out[s] /\ (s \in subscribers[o] => stale'[s])
        BY <1>1, <2>3
      <3>2. Said(s)' /\ shown'[s] \in States /\ Final(s)' = Final(s)
        BY <2>3, <3>1, CarrySame
      <3> QED
        BY <3>1, <3>2
    <2> QED
      BY <2>1, <2>2, <2>3
  <1>4. DataType'
    BY <1>3, CarryType
  <1> QED
    BY <1>3, <1>4

\* The second phase of a migration: those that join will show what the scene holds.
LEMMA Migrate2Data ==
  ASSUME FlowInv, FlowInv', DataType, ContentType', NEW a \in Admins, migrate2(a),
         Carry({}, None), content' = content
  PROVE  /\ DataType'
         /\ \A s \in Subs : s \notin admin[a].transit => Final(s)' = Final(s)
         /\ \A s \in Subs : s \in Roomy(a) => Final(s)' = content[admin[a].next]
  <1> DEFINE next == admin[a].next
             f == Frame("changed", next, admin[a].bump)
             g == Frame("snapshot", next, seq[next])
  <1>0. /\ \A s \in Subs : s \in Roomy(a) => out'[s] = out[s] \o <<f, g>>
        /\ \A s \in Subs : s \notin admin[a].transit => out'[s] = out[s]
        /\ \A s \in Subs : out'[s] = out[s] \/ s \in Roomy(a) \/ out'[s] = Append(out[s], f)
    BY Migrate2Parts
  <1>1. next \in Scenes /\ admin[a].bump \in Nat \ {0} /\ seq[next] \in Nat \ {0}
    BY ServerType DEF migrate2, FlowInv, PinnedInv, OwnInv, Shape, AdminShape, AdminState, Scenes
  <1>2. f \in FrameType /\ f.type = "changed" /\ g \in FrameType /\ g.type = "snapshot" /\ g.scene = next
    BY <1>1, FrameIsFrame DEF Frame
  <1> HIDE DEF f, g, next
  <1>3. ASSUME NEW s \in Subs
        PROVE  /\ Said(s)' /\ shown'[s] \in States
               /\ s \notin admin[a].transit => Final(s)' = Final(s)
               /\ s \in Roomy(a) => Final(s)' = content[next]
    <2>1. CASE s \in Roomy(a)
      <3>1. out'[s] = out[s] \o <<f, g>> /\ out[s] \in Seq(FrameType) /\ s \in admin[a].transit
        BY <1>0, <2>1, ServerType DEF Roomy
      <3>2. /\ Len(out'[s]) = Len(out[s]) + 2
            /\ out'[s][Len(out[s]) + 1] = f /\ out'[s][Len(out[s]) + 2] = g
        BY <1>2, <3>1
      <3>3. Said(s)' /\ shown'[s] \in States /\ Final(s)' = content'[g.scene]
        BY <1>2, <3>2, CarryTwo
      <3> QED
        BY <1>2, <3>1, <3>3
    <2>2. CASE s \notin Roomy(a) /\ out'[s] = out[s]
      <3>1. Said(s)' /\ shown'[s] \in States /\ Final(s)' = Final(s)
        BY <2>2, CarrySame
      <3> QED
        BY <2>2, <3>1
    <2>3. CASE s \notin Roomy(a) /\ out'[s] = Append(out[s], f)
      <3>1. out'[s] # out[s]
        <4>1. out[s] \in Seq(FrameType)
          BY ServerType
        <4>2. Len(Append(out[s], f)) = Len(out[s]) + 1 /\ Len(out[s]) \in Nat
          BY <1>2, <4>1
        <4> QED
          BY <2>3, <4>2
      <3>2. Said(s)' /\ shown'[s] \in States
        BY <1>2, <2>3, CarryAppend
      <3> QED
        BY <1>0, <2>3, <3>1, <3>2
    <2> QED
      BY <1>0, <2>1, <2>2, <2>3
  <1>4. DataType'
    BY <1>3, CarryType
  <1> QED
    BY <1>3, <1>4 DEF next

\* A migration that panics: the connections it did not have in hand are not touched.
LEMMA PanicsData ==
  ASSUME FlowInv, FlowInv', DataType, ContentType', NEW a \in Admins, migrate2Panics(a),
         Carry({}, None)
  PROVE  /\ DataType'
         /\ \A s \in Subs : s \notin admin[a].transit => Final(s)' = Final(s)
  <1> DEFINE next == admin[a].next
             moved == admin[a].transit
             one == {s \in moved : Free(s) = 1}
             f == Frame("changed", next, admin[a].bump)
             g == Frame("snapshot", next, seq[next])
  <1>1. next \in Scenes /\ admin[a].bump \in Nat \ {0} /\ seq[next] \in Nat \ {0}
    BY ServerType, PanicsParts
       DEF FlowInv, PinnedInv, OwnInv, Shape, AdminShape, AdminState, Scenes
  <1>2. f \in FrameType /\ f.type = "changed" /\ g \in FrameType /\ g.type = "snapshot" /\ g.scene = next
    BY <1>1, FrameIsFrame DEF Frame
  <1>3. PICK w \in admin[a].transit, B \in SUBSET admin[a].transit : PanicFrames(a, w, B)
    BY PanicParts
  <1>8. out' = [s \in Subs |-> IF s = w THEN out[s] \o <<f, g>>
                               ELSE IF s \in one \cap B THEN Append(out[s], f) ELSE out[s]]
    BY <1>3, Zenon DEF PanicFrames
  <1>4. \A s \in Subs : s \notin moved => out'[s] = out[s]
    BY PanicsParts
  <1>5. \A s \in Subs : \/ out'[s] = out[s] \o <<f, g>> \/ out'[s] = Append(out[s], f)
                        \/ out'[s] = out[s]
    BY <1>8
  <1> HIDE DEF f, g, next, moved
  <1>6. ASSUME NEW s \in Subs
        PROVE  /\ Said(s)' /\ shown'[s] \in States
               /\ s \notin moved => Final(s)' = Final(s)
    <2>1. CASE out'[s] = out[s]
      <3>1. Said(s)' /\ shown'[s] \in States /\ Final(s)' = Final(s)
        BY <2>1, CarrySame
      <3> QED
        BY <3>1
    <2>2. CASE out'[s] # out[s]
      <3>1. s \in moved
        BY <1>4, <2>2
      <3>2. CASE out'[s] = Append(out[s], f)
        BY <1>2, <3>1, <3>2, CarryAppend
      <3>3. CASE out'[s] = out[s] \o <<f, g>>
        <4>1. out[s] \in Seq(FrameType)
          BY ServerType
        <4>2. /\ Len(out'[s]) = Len(out[s]) + 2
              /\ out'[s][Len(out[s]) + 1] = f /\ out'[s][Len(out[s]) + 2] = g
          BY <1>2, <3>3, <4>1
        <4> QED
          BY <1>2, <3>1, <4>2, CarryTwo
      <3> QED
        BY <1>5, <2>2, <3>2, <3>3
    <2> QED
      BY <2>1, <2>2
  <1>7. DataType'
    BY <1>6, CarryType
  <1> QED
    BY <1>6, <1>7 DEF moved

\* A connection subscribes: it will show what the scene holds.
LEMMA SubscribeData ==
  ASSUME FlowInv, FlowInv', DataType, ContentType', NEW s \in Subs, subscribe(s),
         Carry({}, None), content' = content
  PROVE  /\ DataType'
         /\ \A x \in Subs : x # s => Final(x)' = Final(x)
         /\ conn'[s] = "run" => Final(s)' = content[captured[s]]
  <1> DEFINE o == captured[s]
             f == Frame("snapshot", o, seq[o])
  <1>1. CASE conn'[s] = "panicked" /\ out' = out
    BY <1>1, QuietData
  <1>2. CASE out'[s] = <<f>>
    <2>1. /\ conn[s] = "checked" /\ o \in Scenes
          /\ \A x \in Subs : x # s => out'[x] = out[x]
      BY SubscribeParts
    <2>2. out[s] = <<>>
      BY <2>1 DEF FlowInv, PinnedInv, NothingSent
    <2>3. f \in FrameType /\ f.type = "snapshot" /\ f.scene = o
      BY <2>1, FrameIsFrame, ServerType DEF Frame
    <2> HIDE DEF f
    <2>4. out'[s] = Append(out[s], f)
      BY <1>2, <2>2
    <2>5. Said(s)' /\ shown'[s] \in States /\ Final(s)' = Says(f, None)
      BY <2>3, <2>4, CarryAppend
    <2>6. Says(f, None) = content'[o]
      BY <2>3, SaysState
    <2>7. \A x \in Subs : x # s => Said(x)' /\ shown'[x] \in States /\ Final(x)' = Final(x)
      BY <2>1, CarrySame
    <2>8. DataType'
      BY <2>5, <2>7, CarryType
    <2> QED
      BY <2>5, <2>6, <2>7, <2>8
  <1> QED
    BY <1>1, <1>2, SubscribeParts

\* A frame arrives: a live client that is on a scene goes on to show what it will.
LEMMA DeliverData ==
  ASSUME FlowInv, FlowInv', DataType, ContentType', NEW s \in Subs, deliver(s), Carry({s}, None)
  PROVE  /\ DataType'
         /\ \A x \in Subs : x # s => Final(x)' = Final(x)
         /\ Counted(s) /\ ~ Waits(out[s]) => Final(s)' = Final(s)
  <1>1. out[s] # <<>> /\ out' = [out EXCEPT ![s] = Tail(out[s])]
    BY DEF deliver
  <1>2. out'[s] = Tail(out[s]) /\ \A x \in Subs : x # s => out'[x] = out[x]
    BY <1>1, ServerType
  <1>3. \A x \in Subs : x # s => Said(x)' /\ shown'[x] \in States /\ Final(x)' = Final(x)
    BY <1>2, CarrySame
  <1>4. /\ Said(s)' /\ shown'[s] \in States
        /\ Final(s)' = (IF Len(out[s]) = 1 THEN Seen(s) ELSE Final(s))
    BY <1>1, <1>2, CarryTake
  <1>5. ASSUME Counted(s), ~ Waits(out[s]), Len(out[s]) = 1 PROVE Seen(s) = Final(s)
    <2>1. out[s] \in Seq(FrameType) /\ data[s] \in Seq(States) /\ Len(data[s]) = 1
      BY <1>5, ServerType DEF DataType, Said
    <2>2. Head(out[s]) = out[s][1] /\ Head(data[s]) = data[s][1] /\ Final(s) = data[s][1]
      BY <1>5, <2>1 DEF Final
    <2>3. out[s][1].type # "changed"
      BY <1>1, <1>5 DEF Waits
    <2>4. out[s][1].type = "delta" => out[s][1].seq = client[s].last + 1
      BY <1>5, FlowShape DEF Counts, SeqBefore
    <2> QED
      BY <2>2, <2>3, <2>4 DEF Seen
  <1>6. DataType'
    BY <1>3, <1>4, CarryType
  <1> QED
    BY <1>3, <1>4, <1>5, <1>6

-----------------------------------------------------------------------------
(* The shape of the whole, under every step. *)

PlaneType ==
  /\ driver \in DriverState
  /\ sent \in [requests : 0 .. MaxRequests, timeouts : 0 .. MaxTimeouts, objects : Nat]
  /\ tokens \in [TokenValues -> Roles \cup {None}]
  /\ planeActive \in Ids \cup {None}
  /\ pinned \subseteq created
  /\ session \in [Subs -> {"new", "denied"} \cup Roles]

BaseInv == FlowInv /\ RegistryInv /\ RequestsOK /\ PlaneType /\ ContentType /\ DataType

\* Every step is a move of the server, or leaves it alone.
LEMMA StepIsMove ==
  ASSUME BaseInv, ControlNext
  PROVE  ServerMove
  <1> USE DEF BaseInv
  <1>1. ASSUME NEW a \in Admins, NEW op, NEW k, send(a, op, k) \/ answer(a) \/ timeout(a)
        PROVE  ServerMove
    BY <1>1 DEF send, answer, timeout, ServerMove
  <1>2. ASSUME NEW a \in Admins, resetServer(a) PROVE ServerMove
    BY <1>2 DEF resetServer, ServerMove
  <1>3. ASSUME NEW a \in Admins, resetTokens(a) \/ \E p \in DOMAIN TokenRole : installToken(a, p)
        PROVE  ServerMove
    BY <1>3 DEF resetTokens, installToken, ServerMove
  <1>4. ASSUME NEW a \in Admins, createPrimary(a) PROVE ServerMove
    BY <1>4, CreatePrimaryParts DEF ServerMove
  <1>5. ASSUME NEW a \in Admins, rejectPrimary(a) PROVE ServerMove
    <2>1. Reject(a, request[a].obj) /\ request[a].obj \in Objs
      BY <1>5, RejectParts, ServerType DEF Reject
    <2> QED
      BY <2>1 DEF ServerMove
  <1>6. ASSUME NEW a \in Admins, seedStore(a) \/ setVersion(a) \/ finish(a) PROVE ServerMove
    BY <1>6 DEF seedStore, setVersion, finish, ServerMove
  <1>7. ASSUME NEW a \in Admins, findActive(a) \/ applyEmit(a) \/ readState(a) PROVE ServerMove
    BY <1>7 DEF findActive, applyEmit, readState, ServerMove
  <1>8. ASSUME NEW a \in Admins, refreshAll(a) PROVE ServerMove
    <2>1. Refreshed(request[a].obj) /\ request[a].obj \in created
      BY <1>8, RefreshParts, ObjParts DEF MadeSteps
    <2> QED
      BY <2>1 DEF ServerMove
  <1>9. ASSUME NEW a \in Admins, activate(a) PROVE ServerMove
    BY <1>9, ActivateParts DEF ServerMove
  <1>10. ASSUME NEW a \in Admins, createSecondary(a) PROVE ServerMove
    BY <1>10, CreateSecondaryParts DEF ServerMove
  <1>11. ASSUME NEW a \in Admins, NEW K \in SUBSET Subs, publishEmit(a, K) PROVE ServerMove
    <2>1. /\ emit(request[a].obj, K) /\ request[a].obj \in created
          /\ K \in SUBSET subscribers[request[a].obj]
      BY <1>11, PublishParts, ObjParts DEF SceneSteps
    <2> QED
      BY <2>1 DEF ServerMove
  <1>12. ASSUME NEW a \in Admins, serverStep(a) PROVE ServerMove
    BY <1>12, Zenon DEF serverStep, AdminStep, ServerMove
  <1>15. ASSUME NEW a \in Admins, serverPanics(a) PROVE ServerMove
    BY <1>15, Zenon DEF serverPanics, AdminStep, ServerMove
  <1>13. ASSUME NEW s \in Subs, authenticate(s) \/ resolve(s) PROVE ServerMove
    BY <1>13 DEF authenticate, resolve, ServerMove
  <1>14. ASSUME NEW s \in Subs, subscribeStep(s) \/ deliverFrame(s) PROVE ServerMove
    BY <1>14 DEF subscribeStep, deliverFrame, ServerMove
  <1> HIDE DEF BaseInv
  <1> QED
    BY <1>1, <1>2, <1>3, <1>4, <1>5, <1>6, <1>7, <1>8, <1>9, <1>10, <1>11, <1>12, <1>13, <1>14,
       <1>15, Zenon
       DEF ControlNext, HandlerNext

\* The server keeps its shape, its owners, its streams and its books.
LEMMA NextServer ==
  ASSUME BaseInv, ControlNext
  PROVE  FlowInv' /\ RegistryInv'
  BY StepIsMove, MoveFlow, MoveRegistry DEF BaseInv

\* The phases of a call change no id, no object and no other goroutine.
LEMMA AdminStepParts ==
  ASSUME FlowInv, NEW a \in Admins, AdminStep(a)
  PROVE  /\ admin[a] # Idle /\ \A b \in Admins : b # a => admin'[b] = admin[b]
         /\ UNCHANGED <<scenes, active, created, rejected, conn, captured, todo, late, client>>
  <1>1. CASE migrate1(a)
    BY <1>1, Migrate1Parts, IdleParts
  <1>2. CASE migrate2(a)
    BY <1>2, Migrate2Parts, IdleParts
  <1>3. ASSUME NEW o \in Objs, tearDown(a, o) PROVE
         /\ admin[a] # Idle /\ \A b \in Admins : b # a => admin'[b] = admin[b]
         /\ UNCHANGED <<scenes, active, created, rejected, conn, captured, todo, late, client>>
    BY <1>3, TearParts, IdleParts
  <1>4. CASE migrate2Panics(a)
    BY <1>4, PanicsParts, IdleParts
  <1> QED
    BY <1>1, <1>2, <1>3, <1>4 DEF AdminStep

\* A handler's step in a call of the server.
LEMMA ServerStepParts ==
  ASSUME FlowInv, NEW a \in Admins, serverStep(a)
  PROVE  /\ AdminStep(a) /\ admin[a] # Idle /\ \A b \in Admins : b # a => admin'[b] = admin[b]
         /\ content' = content /\ Carry({}, None)
         /\ UNCHANGED <<scenes, active, created, rejected, conn, captured, todo, late, client, locked,
                        lost, request, driver, sent, tokens, planeActive, pinned, session>>
  <1>1. /\ migrate1(a) \/ migrate2(a) \/ \E o \in Objs : tearDown(a, o)
        /\ content' = content /\ Carry({}, None)
        /\ UNCHANGED <<request, driver, sent, tokens, planeActive, pinned, session>>
    BY DEF serverStep, planeVars
  <1>2. AdminStep(a)
    BY <1>1 DEF AdminStep
  <1>3. UNCHANGED <<locked, lost>>
    BY <1>1, Migrate1Parts, Migrate2Parts, TearParts
  <1> QED
    BY <1>1, <1>2, <1>3, AdminStepParts

\* A handler panics in one.
LEMMA PanicStepParts ==
  ASSUME FlowInv, RequestsOK, NEW a \in Admins, serverPanics(a)
  PROVE  /\ migrate2Panics(a) /\ AdminStep(a) /\ admin[a] # Idle /\ admin'[a] = Idle
         /\ \A b \in Admins : b # a => admin'[b] = admin[b]
         /\ request[a].pc \notin {"none", "done"}
         /\ OnlyRequest(a) /\ request'[a].pc = "done" /\ request'[a].status = "failed"
         /\ SameKind(a) /\ SameScene(a) /\ request'[a].reply = request[a].reply
         /\ content' = content /\ Carry({}, None)
         /\ UNCHANGED <<scenes, active, created, rejected, conn, captured, todo, late, client,
                        driver, sent, tokens, planeActive, pinned, session>>
  <1>1. /\ migrate2Panics(a) /\ Reply(a, "failed") /\ content' = content /\ Carry({}, None)
        /\ UNCHANGED <<driver, sent, tokens, planeActive, pinned, session>>
    BY DEF serverPanics
  <1>2. AdminStep(a)
    BY <1>1 DEF AdminStep
  <1>3. admin[a] # Idle /\ request[a].pc \notin {"none", "done"}
    BY <1>2, AdminStepParts DEF RequestsOK
  <1> QED
    BY <1>1, <1>2, <1>3, AdminStepParts, PanicsParts, ReplyParts

\* The requests stay in order.
LEMMA NextRequests ==
  ASSUME BaseInv, ControlNext
  PROVE  RequestsOK'
  <1> USE DEF BaseInv
  <1>0. \A b \in Admins : request[b] \in RequestState /\ StepOK(request[b], created)
    BY DEF RequestsOK
  <1>1. ASSUME NEW a \in Admins, NEW op \in {"setup", "reset", "emit", "state"},
               NEW k \in Scenarios \cup {None}, op = "setup" <=> k # None, send(a, op, k)
        PROVE  RequestsOK'
    <2>1. /\ request[a] = NoRequest
          /\ request' \in [Admins -> RequestState]
          /\ request'[a].pc = Entry(op) /\ request'[a].op = op /\ request'[a].sc = k
          /\ request'[a].status = "none"
          /\ \A b \in Admins : b # a =>
               /\ b \notin Running => request'[b] = request[b]
               /\ b \in Running => request'[b] = [request[b] EXCEPT !.alone = FALSE]
          /\ UNCHANGED vars
      <3>1. driver \in DriverState
        BY DEF PlaneType
      <3> QED
        BY ONLY <1>1, <3>1, SendParts, RequestsOK
    <2>2. created' = created /\ admin' = admin
      BY <2>1 DEF vars
    <2>3. StepOK(request'[a], created) /\ request'[a].pc \notin {"none", "done"}
      <3>1. request'[a].pc \in {"start", "find"}
        BY <2>1 DEF Entry
      <3>2. request'[a].pc = "start" => op \in {"setup", "reset"}
        BY <2>1 DEF Entry
      <3>3. request'[a].pc = "find" => op \in {"emit", "state"}
        BY <1>1, <2>1 DEF Entry
      <3> QED
        BY <1>1, <2>1, <3>1, <3>2, <3>3 DEF StepOK, MadeSteps, SceneSteps
    <2>4. ASSUME NEW b \in Admins, b # a
          PROVE  StepOK(request'[b], created) /\ request'[b].pc = request[b].pc
      <3>1. CASE b \in Running
        <4>1. request[b].pc # "none"
          BY <3>1 DEF Running
        <4>2. request[b] \in RequestState /\ StepOK(request[b], created)
          BY <1>0, <2>4
        <4>3. request'[b] = [request[b] EXCEPT !.alone = FALSE]
          BY <2>1, <2>4, <3>1
        <4> HIDE DEF BaseInv
        <4> QED
          BY <4>1, <4>2, <4>3, CrowdedParts
      <3>2. CASE b \notin Running
        BY <1>0, <2>1, <2>4, <3>2
      <3> QED
        BY <3>1, <3>2
    <2> QED
      BY <2>1, <2>2, <2>3, <2>4 DEF RequestsOK
  <1>2. ASSUME NEW a \in Admins, answer(a) PROVE RequestsOK'
    <2>1. /\ request[a].pc = "done"
          /\ request' \in [Admins -> RequestState] /\ request'[a] = NoRequest
          /\ \A b \in Admins : b # a => request'[b] = request[b]
          /\ created' = created /\ admin' = admin
      BY <1>2, AnswerParts DEF PlaneType, vars
    <2>2. StepOK(request'[a], created') /\ admin'[a] = Idle
      BY <2>1, NoRequestParts DEF RequestsOK
    <2> QED
      BY <2>1, <2>2, RequestMoves DEF OnlyRequest
  <1>3. ASSUME NEW a \in Admins, timeout(a) PROVE RequestsOK'
    BY <1>3, RequestKept DEF timeout, vars
  <1>4. ASSUME NEW a \in Admins, resetServer(a) PROVE RequestsOK'
    <2>1. /\ request[a].pc = "start" /\ Reset(a)
          /\ OnlyRequest(a) /\ request'[a].pc = "tokens" /\ SameKind(a) /\ SameScene(a) /\ SameAnswer(a)
      BY <1>4, ResetServerParts
    <2>2. created' = created /\ \A b \in Admins : b # a => admin'[b] = admin[b]
      BY <2>1, ResetParts
    <2>3. StepOK(request'[a], created')
      BY <1>0, <2>1 DEF StepOK, SameKind, SameScene, SameAnswer, MadeSteps, SceneSteps
    <2> QED
      BY <2>1, <2>2, <2>3, RequestMoves
  <1>5. ASSUME NEW a \in Admins, resetTokens(a) PROVE RequestsOK'
    <2> DEFINE k == request[a].sc
    <2>1. /\ request[a].pc = "tokens" /\ admin[a] = Idle
          /\ OnlyRequest(a) /\ SameKind(a) /\ SameScene(a) /\ SameAnswer(a)
          /\ k = None => request'[a].pc = "finish"
          /\ k # None => /\ request'[a].left = Recognised(k)
                         /\ request'[a].pc = (IF Recognised(k) = {} THEN "create" ELSE "install")
          /\ UNCHANGED vars
      BY <1>5, ResetTokensParts
    <2>2. created' = created /\ admin' = admin
      BY <2>1 DEF vars
    <2>3. StepOK(request'[a], created')
      BY <1>0, <2>1, <2>2 DEF StepOK, SameKind, SameScene, SameAnswer, MadeSteps, SceneSteps
    <2> QED
      BY <2>1, <2>2, <2>3, RequestMoves
  <1>6. ASSUME NEW a \in Admins, NEW p, installToken(a, p) PROVE RequestsOK'
    <2> DEFINE left == request[a].left \ {p}
    <2>1. /\ request[a].pc = "install" /\ admin[a] = Idle
          /\ OnlyRequest(a) /\ SameKind(a) /\ SameScene(a) /\ SameAnswer(a)
          /\ request'[a].left = left
          /\ request'[a].pc = (IF left = {} THEN "create" ELSE "install")
          /\ UNCHANGED vars
      BY <1>6, InstallParts
    <2>2. created' = created /\ admin' = admin
      BY <2>1 DEF vars
    <2>3. StepOK(request'[a], created')
      BY <1>0, <2>1, <2>2 DEF StepOK, SameKind, SameScene, SameAnswer, MadeSteps, SceneSteps
    <2> QED
      BY <2>1, <2>2, <2>3, RequestMoves
  <1>7. ASSUME NEW a \in Admins, createPrimary(a) PROVE RequestsOK'
    <2> DEFINE k == request[a].sc
    <2>1. /\ request[a].pc = "create" /\ k \in Scenarios
          /\ NewScene(a, Bundles[k][1].id, Fresh) /\ Bundles[k][1].id \in Ids
          /\ OnlyRequest(a)
          /\ request'[a].pc = (IF k \in Malformed THEN "reject" ELSE SeedStep(k))
          /\ request'[a].obj = Fresh /\ request'[a].at = 1 /\ SameKind(a) /\ SameAnswer(a)
      BY <1>7, CreatePrimaryParts
    <2>2. created' = created \cup {Fresh} /\ \A b \in Admins : b # a => admin'[b] = admin[b]
      BY <2>1, NewSceneParts
    <2>3. StepOK(request'[a], created') /\ request'[a].pc \notin {"none", "done"}
      BY <1>0, <2>1, <2>2 DEF StepOK, SameKind, SameAnswer, SeedStep, MadeSteps, SceneSteps
    <2> QED
      BY <2>1, <2>2, <2>3, RequestMoves
  <1>8. ASSUME NEW a \in Admins, rejectPrimary(a) PROVE RequestsOK'
    <2>1. /\ request[a].pc = "reject" /\ admin[a] = Idle /\ Reject(a, request[a].obj)
          /\ OnlyRequest(a) /\ request'[a].pc = SeedStep(request[a].sc)
          /\ SameKind(a) /\ SameScene(a) /\ SameAnswer(a)
      BY <1>8, RejectParts
    <2>2. created' = created /\ admin' = admin
      BY <2>1 DEF Reject
    <2>3. StepOK(request'[a], created') /\ request'[a].pc \notin {"none", "done"}
      BY <1>0, <2>1, <2>2 DEF StepOK, SameKind, SameScene, SameAnswer, SeedStep, MadeSteps, SceneSteps
    <2> QED
      BY <2>1, <2>2, <2>3, RequestMoves
  <1>9. ASSUME NEW a \in Admins, seedStore(a) PROVE RequestsOK'
    <2>1. /\ request[a].pc = "set" /\ admin[a] = Idle
          /\ OnlyRequest(a) /\ request'[a].pc = "refresh"
          /\ SameKind(a) /\ SameScene(a) /\ SameAnswer(a)
          /\ created' = created /\ admin' = admin
      BY <1>9, SeedParts DEF vars
    <2>2. StepOK(request'[a], created')
      BY <1>0, <2>1 DEF StepOK, SameKind, SameScene, SameAnswer, MadeSteps, SceneSteps
    <2> QED
      BY <2>1, <2>2, RequestMoves
  <1>10. ASSUME NEW a \in Admins, refreshAll(a) PROVE RequestsOK'
    <2>1. /\ request[a].pc = "refresh" /\ admin[a] = Idle /\ Refreshed(request[a].obj)
          /\ OnlyRequest(a) /\ request'[a].pc = "activate"
          /\ SameKind(a) /\ SameScene(a) /\ SameAnswer(a)
      BY <1>10, RefreshParts
    <2>2. created' = created /\ admin' = admin
      BY <2>1 DEF Refreshed, sceneVars
    <2>3. StepOK(request'[a], created')
      BY <1>0, <2>1, <2>2 DEF StepOK, SameKind, SameScene, SameAnswer, MadeSteps, SceneSteps
    <2> QED
      BY <2>1, <2>2, <2>3, RequestMoves
  <1>11. ASSUME NEW a \in Admins, activate(a) PROVE RequestsOK'
    <2> DEFINE k == request[a].sc
               id == Bundles[k][1].id
    <2>1. /\ request[a].pc = "activate" /\ admin[a] = Idle /\ k \in Scenarios /\ id \in Ids
          /\ OnlyRequest(a) /\ SameKind(a) /\ SameScene(a) /\ request'[a].reply = request[a].reply
      BY <1>11, ActivateParts
    <2>2. CASE /\ UNCHANGED vars
               /\ request'[a].pc = "done" /\ request'[a].status = "failed"
      <3>1. created' = created /\ admin' = admin
        BY <2>2 DEF vars
      <3>2. StepOK(request'[a], created')
        BY <1>0, <2>1, <2>2, <3>1 DEF StepOK, SameKind, SameScene, MadeSteps, SceneSteps
      <3> QED
        BY <2>1, <3>1, <3>2, RequestMoves
    <2>3. CASE /\ UNCHANGED vars \/ SetActive(a, id)
               /\ request'[a].pc = NextBundle(k, 1) /\ request'[a].status = request[a].status
      <3>1. created' = created /\ \A b \in Admins : b # a => admin'[b] = admin[b]
        BY <2>1, <2>3, SetActiveParts DEF vars
      <3>2. request[a].at = 1
        BY <1>0, <2>1 DEF StepOK
      <3>3. StepOK(request'[a], created')
        BY <1>0, <2>1, <2>3, <3>1, <3>2, BundleParts
           DEF StepOK, SameKind, SameScene, NextBundle, MadeSteps, SceneSteps
      <3> QED
        BY <2>1, <2>3, <3>1, <3>3, RequestMoves DEF NextBundle
    <2> QED
      BY <1>11, <2>1, <2>2, <2>3, ActivateParts
  <1>12. ASSUME NEW a \in Admins, createSecondary(a) PROVE RequestsOK'
    <2> DEFINE k == request[a].sc
               n == request[a].at + 1
    <2>1. /\ request[a].pc = "second" /\ k \in Scenarios /\ n \in 2 .. Len(Bundles[k])
          /\ NewScene(a, Bundles[k][n].id, Fresh) /\ Bundles[k][n].id \in Ids
          /\ OnlyRequest(a)
          /\ request'[a].pc = (IF Bundles[k][n].pinned THEN "version" ELSE NextBundle(k, n))
          /\ request'[a].obj = Fresh /\ request'[a].at = n /\ SameKind(a) /\ SameAnswer(a)
      BY <1>12, CreateSecondaryParts
    <2>2. created' = created \cup {Fresh} /\ \A b \in Admins : b # a => admin'[b] = admin[b]
      BY <2>1, NewSceneParts
    <2> HIDE DEF n
    <2>3. StepOK(request'[a], created') /\ request'[a].pc \notin {"none", "done"}
      BY <1>0, <2>1, <2>2, BundleParts
         DEF StepOK, SameKind, SameAnswer, NextBundle, MadeSteps, SceneSteps
    <2> QED
      BY <2>1, <2>2, <2>3, RequestMoves
  <1>13. ASSUME NEW a \in Admins, setVersion(a) PROVE RequestsOK'
    <2>1. /\ request[a].pc = "version" /\ admin[a] = Idle
          /\ OnlyRequest(a) /\ request'[a].pc = NextBundle(request[a].sc, request[a].at)
          /\ SameKind(a) /\ SameScene(a) /\ SameAnswer(a)
          /\ created' = created /\ admin' = admin
      BY <1>13, VersionParts DEF vars
    <2>2. request[a].sc \in Scenarios
      BY <2>1, SetupParts
    <2>3. StepOK(request'[a], created') /\ request'[a].pc \notin {"none", "done"}
      BY <1>0, <2>1, <2>2, BundleParts
         DEF StepOK, SameKind, SameScene, SameAnswer, NextBundle, MadeSteps, SceneSteps
    <2> QED
      BY <2>1, <2>3, RequestMoves
  <1>14. ASSUME NEW a \in Admins, finish(a) PROVE RequestsOK'
    <2>1. /\ request[a].pc = "finish" /\ admin[a] = Idle
          /\ OnlyRequest(a) /\ request'[a].pc = "done" /\ request'[a].status = "ok"
          /\ SameKind(a) /\ SameScene(a)
          /\ created' = created /\ admin' = admin
      BY <1>14, FinishParts DEF vars
    <2>2. StepOK(request'[a], created')
      BY <1>0, <2>1 DEF StepOK, SameKind, SameScene, MadeSteps, SceneSteps
    <2> QED
      BY <2>1, <2>2, RequestMoves
  <1>15. ASSUME NEW a \in Admins, findActive(a) PROVE RequestsOK'
    <2>1. /\ request[a].pc = "find" /\ admin[a] = Idle /\ OnlyRequest(a) /\ SameKind(a)
          /\ \/ request'[a].pc = "done" /\ request'[a].status = "conflict"
             \/ /\ LiveScene \in Registered
                /\ request'[a].pc = (IF request[a].op = "emit" THEN "apply" ELSE "read")
                /\ request'[a].obj = LiveScene /\ request'[a].status = request[a].status
          /\ created' = created /\ admin' = admin
      BY <1>15, FindParts DEF vars
    <2>2. Registered \subseteq created
      BY DEF Registered, RegistryInv, Filed
    <2>3. StepOK(request'[a], created')
      BY <1>0, <2>1, <2>2 DEF StepOK, SameKind, MadeSteps, SceneSteps
    <2> QED
      BY <2>1, <2>3, RequestMoves
  <1>16. ASSUME NEW a \in Admins, applyEmit(a) PROVE RequestsOK'
    <2>1. /\ request[a].pc = "apply" /\ admin[a] = Idle
          /\ OnlyRequest(a) /\ request'[a].pc = "publish"
          /\ SameKind(a) /\ SameScene(a) /\ SameAnswer(a)
          /\ created' = created /\ admin' = admin
      BY <1>16, ApplyParts DEF vars
    <2>2. StepOK(request'[a], created')
      BY <1>0, <2>1 DEF StepOK, SameKind, SameScene, SameAnswer, MadeSteps, SceneSteps
    <2> QED
      BY <2>1, <2>2, RequestMoves
  <1>17. ASSUME NEW a \in Admins, NEW K, publishEmit(a, K) PROVE RequestsOK'
    <2>1. /\ request[a].pc = "publish" /\ admin[a] = Idle /\ emit(request[a].obj, K)
          /\ OnlyRequest(a) /\ request'[a].pc = "done" /\ request'[a].status = "ok"
          /\ SameKind(a) /\ SameScene(a)
      BY <1>17, PublishParts
    <2>2. created' = created /\ admin' = admin
      BY <2>1 DEF emit, sceneVars
    <2>3. StepOK(request'[a], created')
      BY <1>0, <2>1, <2>2 DEF StepOK, SameKind, SameScene, MadeSteps, SceneSteps
    <2> QED
      BY <2>1, <2>2, <2>3, RequestMoves
  <1>18. ASSUME NEW a \in Admins, readState(a) PROVE RequestsOK'
    <2>0. content[request[a].obj] \in States
      <3>1. request[a].obj \in created
        BY <1>18, ObjParts DEF readState, At, SceneSteps
      <3> QED
        BY <3>1, ServerType DEF ContentType, Scenes
    <2>1. /\ request[a].pc = "read" /\ admin[a] = Idle
          /\ OnlyRequest(a) /\ request'[a].pc = "done" /\ request'[a].status = "ok"
          /\ SameKind(a) /\ SameScene(a)
          /\ created' = created /\ admin' = admin
      BY <1>18, <2>0, ReadParts DEF vars
    <2>2. StepOK(request'[a], created')
      BY <1>0, <2>1 DEF StepOK, SameKind, SameScene, MadeSteps, SceneSteps
    <2> QED
      BY <2>1, <2>2, RequestMoves
  <1>19. ASSUME NEW a \in Admins, serverStep(a) PROVE RequestsOK'
    BY <1>19, ServerStepParts, RequestKept
  <1>25. ASSUME NEW a \in Admins, serverPanics(a) PROVE RequestsOK'
    <2>1. /\ admin'[a] = Idle /\ \A b \in Admins : b # a => admin'[b] = admin[b]
          /\ request[a].pc \notin {"none", "done"} /\ created' = created
          /\ OnlyRequest(a) /\ request'[a].pc = "done" /\ request'[a].status = "failed"
          /\ SameKind(a) /\ SameScene(a)
      BY <1>25, PanicStepParts
    <2>2. StepOK(request'[a], created')
      BY <1>0, <2>1 DEF StepOK, SameKind, SameScene, MadeSteps, SceneSteps
    <2> QED
      BY <2>1, <2>2, RequestMoves
  <1>20. ASSUME NEW s \in Subs, authenticate(s) PROVE RequestsOK'
    BY <1>20, RequestKept DEF authenticate, planeVars, vars
  <1>21. ASSUME NEW s \in Subs, resolve(s) PROVE RequestsOK'
    BY <1>21, RequestKept DEF resolve, resolveScene, planeVars, vars, sceneVars
  <1>22. ASSUME NEW s \in Subs, subscribeStep(s) PROVE RequestsOK'
    BY <1>22, RequestKept DEF subscribeStep, checkRejection, subscribe, planeVars, sceneVars
  <1>23. ASSUME NEW s \in Subs, deliverFrame(s) PROVE RequestsOK'
    BY <1>23, RequestKept DEF deliverFrame, deliver, planeVars, sceneVars
  <1>24. /\ \A a \in Admins : \A k \in Scenarios : send(a, "setup", k) => RequestsOK'
         /\ \A a \in Admins : \A op \in {"reset", "emit", "state"} : send(a, op, None) => RequestsOK'
    BY <1>1, ScenarioAssumption
  <1> HIDE DEF BaseInv
  <1> QED
    BY <1>2, <1>3, <1>4, <1>5, <1>6, <1>7, <1>8, <1>9, <1>10, <1>11, <1>12, <1>13, <1>14, <1>15, <1>16,
       <1>17, <1>18, <1>19, <1>20, <1>21, <1>22, <1>23, <1>24, <1>25, Zenon DEF ControlNext, HandlerNext

\* Objects are never forgotten.
LEMMA CreatedGrows ==
  ASSUME FlowInv, ServerMove
  PROVE  created \subseteq created'
  <1>1. ASSUME NEW a \in Admins, NEW id \in Ids, NEW o \in Objs, NewScene(a, id, o)
        PROVE  created \subseteq created'
    BY <1>1 DEF NewScene
  <1>2. ASSUME NEW a \in Admins, AdminStep(a) PROVE created \subseteq created'
    BY <1>2, AdminStepParts
  <1>3. ASSUME NEW a \in Admins, Reset(a) \/ \E id \in Ids : SetActive(a, id)
        PROVE  created \subseteq created'
    BY <1>3 DEF Reset, SetActive
  <1>4. ASSUME NEW a \in Admins, NEW o \in Objs, Reject(a, o) PROVE created \subseteq created'
    BY <1>4 DEF Reject
  <1>5. ASSUME NEW o, (\E K \in SUBSET subscribers[o] : emit(o, K)) \/ Refreshed(o)
        PROVE  created \subseteq created'
    BY <1>5 DEF emit, Refreshed, sceneVars
  <1>6. ASSUME NEW s \in Subs, checkRejection(s) \/ subscribe(s) \/ deliver(s) \/ \E o \in Scenes : resolveScene(s, o)
        PROVE  created \subseteq created'
    BY <1>6 DEF checkRejection, subscribe, deliver, resolveScene, sceneVars
  <1>7. UNCHANGED vars => created \subseteq created'
    BY DEF vars
  <1> QED
    BY <1>1, <1>2, <1>3, <1>4, <1>5, <1>6, <1>7, Zenon DEF ServerMove

\* The driver, the tokens and the plane keep their shape.
LEMMA PlaneKept ==
  ASSUME PlaneType, created \subseteq created',
         UNCHANGED <<driver, sent, tokens, planeActive, pinned, session>>
  PROVE  PlaneType'
  BY DEF PlaneType

LEMMA NextPlane ==
  ASSUME BaseInv, ControlNext
  PROVE  PlaneType'
  <1> USE DEF BaseInv
  <1>0. created \subseteq created'
    BY StepIsMove, CreatedGrows
  <1>1. /\ driver \in DriverState
        /\ sent \in [requests : 0 .. MaxRequests, timeouts : 0 .. MaxTimeouts, objects : Nat]
        /\ tokens \in [TokenValues -> Roles \cup {None}] /\ planeActive \in Ids \cup {None}
        /\ pinned \subseteq created /\ session \in [Subs -> {"new", "denied"} \cup Roles]
    BY DEF PlaneType
  <1>2. ASSUME NEW a \in Admins, NEW op \in {"setup", "reset", "emit", "state"},
               NEW k \in Scenarios \cup {None}, op = "setup" <=> k # None, send(a, op, k)
        PROVE  PlaneType'
    <2>1. driver' \in DriverState /\ UNCHANGED <<tokens, planeActive, pinned, session>>
      BY ONLY <1>1, <1>2, SendParts, RequestsOK
    <2>2. sent' \in [requests : 0 .. MaxRequests, timeouts : 0 .. MaxTimeouts, objects : Nat]
      <3> DEFINE n == IF k = None THEN 0 ELSE Len(Bundles[k])
      <3>1. n \in Nat
        <4>1. k # None => Bundles[k] \in Seq([id : Ids, pinned : BOOLEAN])
          BY ScenarioAssumption
        <4> QED
          BY <4>1
      <3>2. sent.requests < MaxRequests /\ sent' = [sent EXCEPT !.requests = @ + 1, !.objects = @ + n]
        BY <1>2 DEF send
      <3> HIDE DEF n
      <3>3. sent.requests + 1 \in 0 .. MaxRequests /\ sent.objects + n \in Nat
        BY <1>1, <3>1, <3>2, ControlBoundsAssumption
      <3> QED
        BY <1>1, <3>2, <3>3
    <2> QED
      BY <1>0, <1>1, <2>1, <2>2 DEF PlaneType
  <1>3. ASSUME NEW a \in Admins, answer(a) PROVE PlaneType'
    <2>1. driver' \in DriverState /\ UNCHANGED <<sent, tokens, planeActive, pinned, session>>
      BY ONLY <1>1, <1>3, AnswerParts, RequestsOK
    <2> QED
      BY <1>0, <1>1, <2>1 DEF PlaneType
  <1>4. ASSUME NEW a \in Admins, timeout(a) PROVE PlaneType'
    <2>1. driver' \in DriverState /\ UNCHANGED <<tokens, planeActive, pinned, session>>
      BY ONLY <1>1, <1>4, TimeoutParts
    <2>2. sent' \in [requests : 0 .. MaxRequests, timeouts : 0 .. MaxTimeouts, objects : Nat]
      BY <1>1, <1>4, ControlBoundsAssumption DEF timeout
    <2> QED
      BY <1>0, <1>1, <2>1, <2>2 DEF PlaneType
  <1>5. ASSUME NEW a \in Admins, resetTokens(a) PROVE PlaneType'
    <2>1. /\ tokens' = [t \in TokenValues |-> None]
          /\ UNCHANGED <<driver, sent, planeActive, pinned, session>>
      BY <1>5, ResetTokensParts
    <2>2. tokens' \in [TokenValues -> Roles \cup {None}]
      BY <2>1
    <2> QED
      BY <1>0, <1>1, <2>1, <2>2 DEF PlaneType
  <1>6. ASSUME NEW a \in Admins, NEW p \in DOMAIN TokenRole, installToken(a, p) PROVE PlaneType'
    <2>1. /\ tokens' = [tokens EXCEPT ![Tokens[request[a].sc][p]] = TokenRole[p]]
          /\ UNCHANGED <<driver, sent, planeActive, pinned, session>>
      BY <1>6, InstallParts
    <2>2. TokenRole[p] \in Roles
      BY DEF Roles
    <2>3. tokens' \in [TokenValues -> Roles \cup {None}]
      BY <1>1, <2>1, <2>2
    <2> QED
      BY <1>0, <1>1, <2>1, <2>3 DEF PlaneType
  <1>7. ASSUME NEW a \in Admins, createPrimary(a) PROVE PlaneType'
    <2> DEFINE b == Bundles[request[a].sc][1]
    <2>1. /\ NewScene(a, b.id, Fresh) /\ b.id \in Ids
          /\ pinned' = (IF b.pinned THEN pinned \cup {Fresh} ELSE pinned)
          /\ UNCHANGED <<driver, sent, tokens, planeActive, session>>
      BY <1>7, CreatePrimaryParts
    <2>2. created' = created \cup {Fresh}
      BY <2>1, NewSceneParts
    <2>3. pinned' \subseteq created'
      BY <1>1, <2>1, <2>2
    <2> QED
      BY <1>1, <2>1, <2>3 DEF PlaneType
  <1>8. ASSUME NEW a \in Admins, setVersion(a) PROVE PlaneType'
    <2>1. /\ request[a].pc = "version" /\ pinned' = pinned \cup {request[a].obj}
          /\ UNCHANGED <<driver, sent, tokens, planeActive, session>>
      BY <1>8, VersionParts
    <2>2. request[a].obj \in created
      BY <2>1, ObjParts DEF MadeSteps
    <2> QED
      BY <1>0, <1>1, <2>1, <2>2 DEF PlaneType
  <1>9. ASSUME NEW a \in Admins, finish(a) PROVE PlaneType'
    <2>1. /\ request[a].pc = "finish"
          /\ planeActive' = (IF request[a].op = "setup" THEN Bundles[request[a].sc][1].id ELSE None)
          /\ UNCHANGED <<driver, sent, tokens, pinned, session>>
      BY <1>9, FinishParts
    <2>2. request[a].op = "setup" => request[a].sc \in Scenarios
      BY DEF RequestsOK, StepOK, RequestState
    <2>3. planeActive' \in Ids \cup {None}
      BY <2>1, <2>2, BundleParts
    <2> QED
      BY <1>0, <1>1, <2>1, <2>3 DEF PlaneType
  <1>10. ASSUME NEW s \in Subs, authenticate(s) PROVE PlaneType'
    <2>1. UNCHANGED <<driver, sent, tokens, planeActive, pinned>>
      BY <1>10 DEF authenticate, planeVars
    <2>2. Presents[s] \in TokenValues
      BY DEF TokenValues
    <2>3. session' \in [Subs -> {"new", "denied"} \cup Roles]
      BY <1>1, <1>10, <2>2 DEF authenticate
    <2> QED
      BY <1>0, <1>1, <2>1, <2>3 DEF PlaneType
  <1>11. ASSUME NEW s \in Subs, resolve(s) PROVE PlaneType'
    <2>1. UNCHANGED <<driver, sent, tokens, planeActive, pinned>>
      BY <1>11 DEF resolve, planeVars
    <2>2. session' \in [Subs -> {"new", "denied"} \cup Roles]
      BY <1>1, <1>11 DEF resolve
    <2> QED
      BY <1>0, <1>1, <2>1, <2>2 DEF PlaneType
  <1>12. ASSUME NEW a \in Admins, resetServer(a) \/ rejectPrimary(a) \/ seedStore(a) \/ activate(a) PROVE PlaneType'
    BY <1>0, <1>12, PlaneKept DEF resetServer, rejectPrimary, seedStore, activate
  <1>13. ASSUME NEW a \in Admins, createSecondary(a) PROVE PlaneType'
    BY <1>0, <1>13, PlaneKept, CreateSecondaryParts
  <1>14. ASSUME NEW a \in Admins, refreshAll(a) \/ findActive(a) \/ applyEmit(a) \/ readState(a) PROVE PlaneType'
    BY <1>0, <1>14, PlaneKept DEF refreshAll, findActive, applyEmit, readState
  <1>15. ASSUME NEW a \in Admins, serverStep(a) \/ \E K \in SUBSET Subs : publishEmit(a, K) PROVE PlaneType'
    BY <1>0, <1>15, PlaneKept DEF serverStep, publishEmit, planeVars
  <1>16. ASSUME NEW s \in Subs, subscribeStep(s) \/ deliverFrame(s) PROVE PlaneType'
    BY <1>0, <1>16, PlaneKept DEF subscribeStep, deliverFrame, planeVars
  <1>18. ASSUME NEW a \in Admins, serverPanics(a) PROVE PlaneType'
    BY <1>0, <1>18, PlaneKept DEF serverPanics
  <1>17. /\ \A a \in Admins : \A k \in Scenarios : send(a, "setup", k) => PlaneType'
         /\ \A a \in Admins : \A op \in {"reset", "emit", "state"} : send(a, op, None) => PlaneType'
    BY <1>2, ScenarioAssumption
  <1> HIDE DEF BaseInv
  <1> QED
    BY <1>3, <1>4, <1>5, <1>6, <1>7, <1>8, <1>9, <1>10, <1>11, <1>12, <1>13, <1>14, <1>15, <1>16,
       <1>17, <1>18, Zenon DEF ControlNext, HandlerNext

\* Only two steps write to a scene's store.
LEMMA StepContent ==
  ASSUME BaseInv, ControlNext
  PROVE  \/ content' = content
         \/ \E a \in Admins : seedStore(a) \/ applyEmit(a)
  <1>1. ASSUME NEW a \in Admins, NEW op, NEW k, send(a, op, k) \/ answer(a) \/ timeout(a)
        PROVE  content' = content
    BY <1>1 DEF send, answer, timeout, contentVars
  <1>2. ASSUME NEW a \in Admins,
               resetServer(a) \/ resetTokens(a) \/ \E p \in DOMAIN TokenRole : installToken(a, p)
        PROVE  content' = content
    BY <1>2 DEF resetServer, resetTokens, installToken, contentVars
  <1>3. ASSUME NEW a \in Admins, createPrimary(a) \/ createSecondary(a) PROVE content' = content
    BY <1>3, CreatePrimaryParts, CreateSecondaryParts DEF BaseInv
  <1>4. ASSUME NEW a \in Admins, rejectPrimary(a) \/ activate(a) \/ setVersion(a) \/ finish(a)
        PROVE  content' = content
    BY <1>4 DEF rejectPrimary, activate, setVersion, finish, contentVars
  <1>5. ASSUME NEW a \in Admins,
               findActive(a) \/ readState(a) \/ refreshAll(a) \/ serverStep(a) \/ serverPanics(a)
        PROVE  content' = content
    BY <1>5 DEF findActive, readState, refreshAll, serverStep, serverPanics, contentVars
  <1>6. ASSUME NEW a \in Admins, NEW K, publishEmit(a, K) PROVE content' = content
    BY <1>6 DEF publishEmit
  <1>7. ASSUME NEW s \in Subs, authenticate(s) \/ resolve(s) \/ subscribeStep(s) \/ deliverFrame(s)
        PROVE  content' = content
    BY <1>7 DEF authenticate, resolve, subscribeStep, deliverFrame, contentVars
  <1> QED
    BY <1>1, <1>2, <1>3, <1>4, <1>5, <1>6, <1>7, Zenon DEF ControlNext, HandlerNext

LEMMA NextContent ==
  ASSUME BaseInv, ControlNext
  PROVE  ContentType'
  <1> USE DEF BaseInv
  <1>0. created \subseteq created' /\ created \subseteq Scenes
    BY StepIsMove, CreatedGrows, ServerType DEF Scenes
  <1>1. CASE content' = content
    BY <1>0, <1>1 DEF ContentType
  <1>2. ASSUME NEW a \in Admins, seedStore(a) PROVE ContentType'
    <2>1. /\ request[a].pc = "set"
          /\ content' = [content EXCEPT ![request[a].obj] = Seed[request[a].sc]]
      BY <1>2, SeedParts
    <2>2. request[a].obj \in created /\ Seed[request[a].sc] \in States
      BY <2>1, ObjParts, SetupParts, StatesParts DEF MadeSteps
    <2> QED
      BY <1>0, <2>1, <2>2 DEF ContentType
  <1>3. ASSUME NEW a \in Admins, applyEmit(a) PROVE ContentType'
    <2>1. /\ request[a].pc = "apply" /\ content' = [content EXCEPT ![request[a].obj] = Emitted]
      BY <1>3, ApplyParts
    <2>2. request[a].obj \in created
      BY <2>1, ObjParts DEF SceneSteps
    <2> QED
      BY <1>0, <2>1, <2>2, StatesParts DEF ContentType
  <1> QED
    BY <1>1, <1>2, <1>3, StepContent

\* The queues and the screens change in six steps.
LEMMA StepData ==
  ASSUME BaseInv, ControlNext
  PROVE  \/ UNCHANGED <<out, data, shown>>
         \/ \E a \in Admins : \/ refreshAll(a) \/ serverStep(a) \/ serverPanics(a)
                             \/ \E K \in SUBSET Subs : publishEmit(a, K)
         \/ \E s \in Subs : subscribeStep(s) \/ deliverFrame(s)
  <1> DEFINE Same == UNCHANGED <<out, data, shown>>
  <1>0. UNCHANGED vars => out' = out
    BY DEF vars
  <1>1. ASSUME NEW a \in Admins, NEW op, NEW k, send(a, op, k) \/ answer(a) \/ timeout(a) PROVE Same
    BY <1>0, <1>1 DEF send, answer, timeout, contentVars
  <1>2. ASSUME NEW a \in Admins, resetServer(a) PROVE Same
    BY <1>2, ResetServerParts, ResetParts DEF BaseInv
  <1>3. ASSUME NEW a \in Admins, resetTokens(a) \/ \E p \in DOMAIN TokenRole : installToken(a, p) PROVE Same
    BY <1>0, <1>3 DEF resetTokens, installToken, contentVars
  <1>4. ASSUME NEW a \in Admins, createPrimary(a) PROVE Same
    BY <1>4, CreatePrimaryParts, NewSceneParts DEF BaseInv
  <1>5. ASSUME NEW a \in Admins, createSecondary(a) PROVE Same
    BY <1>5, CreateSecondaryParts, NewSceneParts DEF BaseInv
  <1>6. ASSUME NEW a \in Admins, rejectPrimary(a) PROVE Same
    BY <1>6, RejectParts DEF BaseInv, Reject, subVars
  <1>7. ASSUME NEW a \in Admins, activate(a) PROVE Same
    BY <1>0, <1>7, ActivateParts, SetActiveParts DEF BaseInv
  <1>8. ASSUME NEW a \in Admins, seedStore(a) \/ applyEmit(a) \/ setVersion(a) \/ finish(a) PROVE Same
    BY <1>0, <1>8 DEF seedStore, applyEmit, setVersion, finish, contentVars
  <1>9. ASSUME NEW a \in Admins, findActive(a) \/ readState(a) PROVE Same
    BY <1>0, <1>9 DEF findActive, readState, contentVars
  <1>10. ASSUME NEW s \in Subs, authenticate(s) \/ resolve(s) PROVE Same
    BY <1>0, <1>10 DEF authenticate, resolve, resolveScene, contentVars, subVars
  <1> HIDE DEF Same
  <1>11. Same \/ (\E a \in Admins : \/ refreshAll(a) \/ serverStep(a) \/ serverPanics(a)
                                   \/ \E K \in SUBSET Subs : publishEmit(a, K))
              \/ (\E s \in Subs : subscribeStep(s) \/ deliverFrame(s))
    BY <1>1, <1>2, <1>3, <1>4, <1>5, <1>6, <1>7, <1>8, <1>9, <1>10, Zenon DEF ControlNext, HandlerNext
  <1> QED
    BY <1>11 DEF Same

\* Nothing is queued, taken or shown.
LEMMA DataSame ==
  ASSUME DataType, UNCHANGED <<out, data, shown>>
  PROVE  DataType' /\ \A s \in Subs : Final(s)' = Final(s)
  BY DEF DataType, Said, Final

LEMMA NextData ==
  ASSUME BaseInv, ControlNext, FlowInv', ContentType'
  PROVE  DataType'
  <1> USE DEF BaseInv
  <1>0. created \subseteq Scenes
    BY ServerType DEF Scenes
  <1>1. ASSUME NEW a \in Admins, refreshAll(a) PROVE DataType'
    <2>1. request[a].pc = "refresh" /\ Refreshed(request[a].obj) /\ Carry({}, None) /\ content' = content
      BY <1>1, RefreshParts
    <2>2. request[a].obj \in Scenes
      BY <1>0, <2>1, ObjParts DEF MadeSteps
    <2> QED
      BY <2>1, <2>2, RefreshData
  <1>2. ASSUME NEW a \in Admins, NEW K, publishEmit(a, K) PROVE DataType'
    <2>1. /\ request[a].pc = "publish" /\ emit(request[a].obj, K) /\ Carry(K, Emitted)
          /\ K \in SUBSET subscribers[request[a].obj] /\ content' = content
      BY <1>2, PublishParts
    <2>2. request[a].obj \in Scenes
      BY <1>0, <2>1, ObjParts DEF SceneSteps
    <2> QED
      BY <2>1, <2>2, EmitData
  <1>3. ASSUME NEW a \in Admins, serverStep(a) PROVE DataType'
    <2>1. /\ migrate1(a) \/ migrate2(a) \/ \E o \in Objs : tearDown(a, o)
          /\ content' = content /\ Carry({}, None)
      BY <1>3 DEF serverStep
    <2>2. CASE migrate1(a)
      BY <2>1, <2>2, Migrate1Parts, QuietData
    <2>3. CASE migrate2(a)
      BY <2>1, <2>3, Migrate2Data
    <2>4. ASSUME NEW o \in Objs, tearDown(a, o) PROVE DataType'
      BY <2>1, <2>4, TearParts, QuietData
    <2> QED
      BY <2>1, <2>2, <2>3, <2>4
  <1>7. ASSUME NEW a \in Admins, serverPanics(a) PROVE DataType'
    BY <1>7, PanicStepParts, PanicsData
  <1>4. ASSUME NEW s \in Subs, subscribeStep(s) PROVE DataType'
    <2>1. (checkRejection(s) \/ subscribe(s)) /\ content' = content /\ Carry({}, None)
      BY <1>4 DEF subscribeStep
    <2>2. CASE checkRejection(s)
      <3>1. out' = out
        BY <2>2 DEF checkRejection, subVars
      <3> QED
        BY <2>1, <3>1, QuietData
    <2>3. CASE subscribe(s)
      BY <2>1, <2>3, SubscribeData
    <2> QED
      BY <2>1, <2>2, <2>3
  <1>5. ASSUME NEW s \in Subs, deliverFrame(s) PROVE DataType'
    BY <1>5, DeliverData DEF deliverFrame
  <1>6. CASE UNCHANGED <<out, data, shown>>
    BY <1>6, DataSame
  <1> QED
    BY <1>1, <1>2, <1>3, <1>4, <1>5, <1>6, <1>7, StepData

\* The base holds at first and in every step.
LEMMA NextBase ==
  ASSUME BaseInv, ControlNext
  PROVE  BaseInv'
  <1>1. FlowInv' /\ RegistryInv' /\ RequestsOK' /\ PlaneType' /\ ContentType'
    BY NextServer, NextRequests, NextPlane, NextContent
  <1> QED
    BY <1>1, NextData DEF BaseInv

LEMMA BaseStutter ==
  ASSUME BaseInv, UNCHANGED allVars
  PROVE  BaseInv'
  <1>1. UNCHANGED <<vars, planeVars, contentVars, session>>
    BY DEF allVars
  <1>2. UNCHANGED <<request, driver, sent, tokens, planeActive, pinned, content, data, shown, session>>
    BY <1>1 DEF planeVars, contentVars
  <1>3. FlowInv'
    <2>1. OwnInv' /\ TransitLive' /\ NothingSent' /\ TestPinned' /\ \A s \in Subs : FlowOf(s)'
      BY <1>1, NextShape, NextOwn, NextPinned, NextFlow DEF BaseInv, FlowInv, PinnedInv, OwnInv
    <2> QED
      BY <2>1 DEF FlowInv, PinnedInv
  <1>4. RegistryInv'
    BY <1>1, MoveRegistry DEF ServerMove, BaseInv
  <1>5. RequestsOK'
    BY <1>1, <1>2, RequestKept DEF BaseInv, vars
  <1>6. PlaneType' /\ ContentType' /\ DataType'
    BY <1>1, <1>2, PlaneKept, DataSame DEF BaseInv, vars, ContentType
  <1> QED
    BY <1>3, <1>4, <1>5, <1>6 DEF BaseInv

LEMMA InitBase == ControlInit => BaseInv
  <1> SUFFICES ASSUME ControlInit PROVE BaseInv
    OBVIOUS
  <1>1. Init
    BY DEF ControlInit
  <1>2. FlowInv
    BY <1>1, InitFlow
  <1>3. RegistryInv
    BY <1>1, InitRegistry
  <1>4. RequestsOK
    <2>1. request = [a \in Admins |-> NoRequest] /\ \A a \in Admins : admin[a] = Idle
      BY <1>1 DEF ControlInit, Init
    <2>2. \A a \in Admins : request[a] = NoRequest
      BY <2>1
    <2>3. request \in [Admins -> RequestState]
      BY <2>1, NoRequestParts
    <2> QED
      BY <2>1, <2>2, <2>3, NoRequestParts DEF RequestsOK
  <1>5. PlaneType
    <2>1. driver \in DriverState
      BY StatesParts DEF ControlInit, DriverState
    <2>2. sent \in [requests : 0 .. MaxRequests, timeouts : 0 .. MaxTimeouts, objects : Nat]
      BY ControlBoundsAssumption DEF ControlInit
    <2>3. tokens \in [TokenValues -> Roles \cup {None}] /\ planeActive \in Ids \cup {None} /\ pinned \subseteq created
      BY DEF ControlInit
    <2>4. session \in [Subs -> {"new", "denied"} \cup Roles]
      BY DEF ControlInit
    <2> QED
      BY <2>1, <2>2, <2>3, <2>4 DEF PlaneType
  <1>6. ContentType
    BY StatesParts DEF ControlInit, ContentType
  <1>7. DataType
    <2>1. /\ data = [s \in Subs |-> <<>>] /\ shown = [s \in Subs |-> Empty]
          /\ out = [s \in Subs |-> <<>>]
      BY <1>1 DEF ControlInit, Init
    <2>2. \A s \in Subs : Said(s)
      BY <2>1 DEF Said
    <2> QED
      BY <2>1, <2>2, StatesParts DEF DataType
  <1> QED
    BY <1>2, <1>3, <1>4, <1>5, <1>6, <1>7 DEF BaseInv

LEMMA BaseInvariant == ControlSpec => []BaseInv
  <1>1. ControlInit => BaseInv
    BY InitBase
  <1>2. BaseInv /\ [ControlNext]_allVars => BaseInv'
    BY NextBase, BaseStutter
  <1> QED
    BY <1>1, <1>2, PTL DEF ControlSpec

-----------------------------------------------------------------------------
(* No subscription is lost. *)

\* The state of the control plane, of its driver and of the clients keeps its
\* shape, and every frame in a connection's queue says something of a state.
THEOREM ControlTypeCorrect == ControlSpec => []ControlTypeOK
  <1>1. BaseInv => ControlTypeOK
    <2> SUFFICES ASSUME BaseInv PROVE ControlTypeOK
      OBVIOUS
    <2> USE DEF BaseInv
    <2>1. ASSUME NEW a \in Admins
          PROVE  /\ request[a].pc \in {"none", "start", "tokens", "install", "create", "reject", "set",
                                       "refresh", "activate", "second", "version", "finish", "find",
                                       "apply", "publish", "read", "done"}
                 /\ request[a].op \in {"none", "setup", "reset", "emit", "state"}
                 /\ request[a].sc \in Scenarios \cup {None}
                 /\ request[a].obj \in Objs \cup {None}
                 /\ request[a].status \in {"none", "ok", "conflict", "failed"}
      <3>1. request[a] \in RequestState
        BY DEF RequestsOK
      <3> QED
        BY <3>1 DEF RequestState, Steps
    <2>2. driver.on \in Admins \cup {None} /\ driver.scenario \in Scenarios \cup {None}
      BY DEF PlaneType, DriverState
    <2>3. sent.requests <= MaxRequests /\ sent.timeouts <= MaxTimeouts
      BY ControlBoundsAssumption DEF PlaneType
    <2>4. /\ tokens \in [TokenValues -> Roles \cup {None}] /\ planeActive \in Ids \cup {None}
          /\ pinned \subseteq created /\ session \in [Subs -> {"new", "denied"} \cup Roles]
      BY DEF PlaneType
    <2>5. content \in [Scenes -> States] /\ shown \in [Subs -> States]
          /\ \A s \in Subs : Len(data[s]) = Len(out[s])
      BY DEF ContentType, DataType, Said
    <2> QED
      BY <2>1, <2>2, <2>3, <2>4, <2>5 DEF ControlTypeOK
  <1> QED
    BY <1>1, BaseInvariant, PTL

\* What the server promises holds under the handlers, which call it from several
\* goroutines at once and refresh a scene's subscribers beside its migrations:
\* one owner per subscription, no send on a closed channel, test sessions stay,
\* streams that cohere and, for live clients, that are gapless.
THEOREM ServerUnderControl ==
  ControlSpec => [](OneOwner /\ NoSendOnClosed /\ TestPinned /\ SceneCoherent /\ LiveNoGap)
  <1>1. BaseInv => OneOwner /\ NoSendOnClosed /\ TestPinned /\ SceneCoherent /\ LiveNoGap
    BY FlowMeans DEF BaseInv, FlowInv, PinnedInv, OwnInv
  <1> QED
    BY <1>1, BaseInvariant, PTL

\* Whatever setups, resets, emits, timeouts and panics of a handler overlap, an
\* open subscription that was not marked stale and was not in the hands of a
\* migration that panicked is, at any moment, with a scene of the registry, with
\* holding, with a scene about to be torn down or on its way to the next one.
THEOREM NothingOrphaned == ControlSpec => []NoOrphans
  <1>1. BaseInv => NoOrphans
    <2> SUFFICES ASSUME BaseInv, NEW s \in Subs, conn[s] = "run", ~ closed[s], ~ stale[s], s \notin lost
                 PROVE  \/ \E o \in Registered \cup {Holding} : s \in subscribers[o]
                        \/ \E a \in Admins :
                             s \in admin[a].transit \/ \E o \in admin[a].tear : s \in subscribers[o]
      BY DEF NoOrphans
    <2>1. Housed(s)
      BY DEF BaseInv, RegistryInv, AllHoused
    <2> QED
      BY <2>1 DEF Housed, Tearing
  <1> QED
    BY <1>1, BaseInvariant, PTL

-----------------------------------------------------------------------------
(* Requests that run alone. *)

\* What every step of a handler keeps.
LEMMA HandlerParts ==
  ASSUME BaseInv, NEW a \in Admins, HandlerNext(a)
  PROVE  /\ a \in Running /\ driver' = driver
         /\ \A b \in Admins : b # a => request'[b] = request[b] /\ admin'[b] = admin[b]
         /\ SameKind(a) /\ request'[a].pc # "none"
  <1> USE DEF BaseInv
  <1> DEFINE Kept1 == /\ driver' = driver /\ SameKind(a) /\ request'[a].pc # "none"
                      /\ \A b \in Admins : b # a => request'[b] = request[b] /\ admin'[b] = admin[b]
             Done == a \in Running /\ Kept1
  <1>0. UNCHANGED vars => admin' = admin
    BY DEF vars
  <1>1. CASE resetServer(a)
    <2>1. /\ request[a].pc = "start" /\ Reset(a) /\ OnlyRequest(a) /\ SameKind(a)
          /\ request'[a].pc = "tokens" /\ driver' = driver
      BY <1>1, ResetServerParts
    <2>2. \A b \in Admins : b # a => admin'[b] = admin[b]
      BY <2>1, ResetParts
    <2> QED
      BY <2>1, <2>2 DEF Running, OnlyRequest
  <1>2. CASE resetTokens(a)
    <2>1. /\ request[a].pc = "tokens" /\ OnlyRequest(a) /\ SameKind(a) /\ driver' = driver /\ UNCHANGED vars
          /\ request'[a].pc \in {"finish", "create", "install"}
      BY <1>2, ResetTokensParts
    <2> QED
      BY <1>0, <2>1 DEF Running, OnlyRequest
  <1>3. ASSUME NEW p, installToken(a, p) PROVE Done
    <2>1. /\ request[a].pc = "install" /\ OnlyRequest(a) /\ SameKind(a) /\ driver' = driver /\ UNCHANGED vars
          /\ request'[a].pc \in {"create", "install"}
      BY <1>3, InstallParts
    <2> QED
      BY <1>0, <2>1 DEF Running, OnlyRequest
  <1>4. CASE createPrimary(a)
    <2> DEFINE k == request[a].sc
    <2>1. /\ request[a].pc = "create" /\ NewScene(a, Bundles[k][1].id, Fresh) /\ Bundles[k][1].id \in Ids
          /\ OnlyRequest(a) /\ SameKind(a) /\ driver' = driver
          /\ request'[a].pc = (IF k \in Malformed THEN "reject" ELSE SeedStep(k))
      BY <1>4, CreatePrimaryParts
    <2>2. \A b \in Admins : b # a => admin'[b] = admin[b]
      BY <2>1, NewSceneParts
    <2> QED
      BY <2>1, <2>2 DEF Running, OnlyRequest, SeedStep
  <1>5. CASE rejectPrimary(a)
    <2>1. /\ request[a].pc = "reject" /\ Reject(a, request[a].obj) /\ OnlyRequest(a) /\ SameKind(a)
          /\ request'[a].pc = SeedStep(request[a].sc) /\ driver' = driver
      BY <1>5, RejectParts
    <2> QED
      BY <2>1 DEF Running, OnlyRequest, SeedStep, Reject
  <1>6. CASE seedStore(a)
    <2>1. /\ request[a].pc = "set" /\ OnlyRequest(a) /\ SameKind(a) /\ driver' = driver /\ UNCHANGED vars
          /\ request'[a].pc = "refresh"
      BY <1>6, SeedParts
    <2> QED
      BY <1>0, <2>1 DEF Running, OnlyRequest
  <1>7. CASE refreshAll(a)
    <2>1. /\ request[a].pc = "refresh" /\ OnlyRequest(a) /\ SameKind(a) /\ driver' = driver
          /\ request'[a].pc = "activate" /\ Refreshed(request[a].obj)
      BY <1>7, RefreshParts
    <2> QED
      BY <2>1 DEF Running, OnlyRequest, Refreshed
  <1>8. CASE activate(a)
    <2> DEFINE k == request[a].sc
               id == Bundles[k][1].id
    <2>1. /\ request[a].pc = "activate" /\ OnlyRequest(a) /\ SameKind(a) /\ driver' = driver /\ id \in Ids
          /\ request'[a].pc = "done" \/ request'[a].pc = NextBundle(k, 1)
          /\ UNCHANGED vars \/ SetActive(a, id)
      BY <1>8, ActivateParts
    <2>2. \A b \in Admins : b # a => admin'[b] = admin[b]
      BY <1>0, <2>1, SetActiveParts
    <2> QED
      BY <2>1, <2>2 DEF Running, OnlyRequest, NextBundle
  <1>9. CASE createSecondary(a)
    <2> DEFINE k == request[a].sc
               n == request[a].at + 1
    <2>1. /\ request[a].pc = "second" /\ NewScene(a, Bundles[k][n].id, Fresh) /\ Bundles[k][n].id \in Ids
          /\ OnlyRequest(a) /\ SameKind(a) /\ driver' = driver
          /\ request'[a].pc = (IF Bundles[k][n].pinned THEN "version" ELSE NextBundle(k, n))
      BY <1>9, CreateSecondaryParts
    <2> HIDE DEF n
    <2>2. \A b \in Admins : b # a => admin'[b] = admin[b]
      BY <2>1, NewSceneParts
    <2> QED
      BY <2>1, <2>2 DEF Running, OnlyRequest, NextBundle
  <1>10. CASE setVersion(a)
    <2>1. /\ request[a].pc = "version" /\ OnlyRequest(a) /\ SameKind(a) /\ driver' = driver /\ UNCHANGED vars
          /\ request'[a].pc = NextBundle(request[a].sc, request[a].at)
      BY <1>10, VersionParts
    <2> QED
      BY <1>0, <2>1 DEF Running, OnlyRequest, NextBundle
  <1>11. CASE finish(a)
    <2>1. /\ request[a].pc = "finish" /\ OnlyRequest(a) /\ SameKind(a) /\ driver' = driver /\ UNCHANGED vars
          /\ request'[a].pc = "done"
      BY <1>11, FinishParts
    <2> QED
      BY <1>0, <2>1 DEF Running, OnlyRequest
  <1>12. CASE findActive(a)
    <2>1. /\ request[a].pc = "find" /\ OnlyRequest(a) /\ SameKind(a) /\ driver' = driver /\ UNCHANGED vars
          /\ request'[a].pc \in {"done", "apply", "read"}
      BY <1>12, FindParts
    <2> QED
      BY <1>0, <2>1 DEF Running, OnlyRequest
  <1>13. CASE applyEmit(a)
    <2>1. /\ request[a].pc = "apply" /\ OnlyRequest(a) /\ SameKind(a) /\ driver' = driver /\ UNCHANGED vars
          /\ request'[a].pc = "publish"
      BY <1>13, ApplyParts
    <2> QED
      BY <1>0, <2>1 DEF Running, OnlyRequest
  <1>14. ASSUME NEW K, publishEmit(a, K) PROVE Done
    <2>1. /\ request[a].pc = "publish" /\ OnlyRequest(a) /\ SameKind(a) /\ driver' = driver
          /\ request'[a].pc = "done" /\ emit(request[a].obj, K)
      BY <1>14, PublishParts
    <2> QED
      BY <2>1 DEF Running, OnlyRequest, emit
  <1>15. CASE readState(a)
    <2>0. content[request[a].obj] \in States
      <3>1. request[a].obj \in created
        BY <1>15, ObjParts DEF readState, At, SceneSteps
      <3> QED
        BY <3>1, ServerType DEF ContentType, Scenes
    <2>1. /\ request[a].pc = "read" /\ OnlyRequest(a) /\ SameKind(a) /\ driver' = driver /\ UNCHANGED vars
          /\ request'[a].pc = "done"
      BY <1>15, <2>0, ReadParts
    <2> QED
      BY <1>0, <2>1 DEF Running, OnlyRequest
  <1>16. CASE serverStep(a)
    <2>1. /\ request' = request /\ driver' = driver
          /\ admin[a] # Idle /\ \A b \in Admins : b # a => admin'[b] = admin[b]
      BY <1>16, ServerStepParts
    <2>2. a \in Running
      BY <2>1 DEF RequestsOK, Running
    <2> QED
      BY <2>1, <2>2 DEF SameKind, Running
  <1>18. CASE serverPanics(a)
    <2>1. /\ driver' = driver /\ OnlyRequest(a) /\ SameKind(a) /\ request'[a].pc = "done"
          /\ request[a].pc \notin {"none", "done"}
          /\ \A b \in Admins : b # a => admin'[b] = admin[b]
      BY <1>18, PanicStepParts
    <2> QED
      BY <2>1 DEF Running, OnlyRequest
  <1> HIDE DEF BaseInv, Kept1, Done
  <1>17. Done
    BY <1>1, <1>2, <1>3, <1>4, <1>5, <1>6, <1>7, <1>8, <1>9, <1>10, <1>11, <1>12, <1>13, <1>14,
       <1>15, <1>16, <1>18, Zenon DEF HandlerNext, Done, Kept1
  <1> QED
    BY <1>17 DEF Done, Kept1

\* What the steps of the clients keep.
LEMMA ClientParts ==
  ASSUME NEW s \in Subs, authenticate(s) \/ resolve(s) \/ subscribeStep(s) \/ deliverFrame(s)
  PROVE  UNCHANGED <<scenes, active, created, rejected, torn, admin, locked, lost, content,
                     request, driver, sent, tokens, planeActive, pinned, closed, stale, seq>>
  <1>1. CASE authenticate(s)
    BY <1>1 DEF authenticate, vars, planeVars, contentVars
  <1>2. CASE resolve(s)
    BY <1>2 DEF resolve, resolveScene, vars, planeVars, contentVars, sceneVars, subVars, panicVars
  <1>3. CASE subscribeStep(s) /\ checkRejection(s)
    BY <1>3 DEF subscribeStep, checkRejection, planeVars, sceneVars, subVars, panicVars
  <1>4. CASE subscribeStep(s) /\ subscribe(s)
    BY <1>4 DEF subscribeStep, subscribe, planeVars, sceneVars, panicVars
  <1>5. CASE deliverFrame(s)
    BY <1>5 DEF deliverFrame, deliver, planeVars, sceneVars, panicVars
  <1> QED
    BY <1>1, <1>2, <1>3, <1>4, <1>5 DEF subscribeStep

\* The kinds of steps.
DriverStep(a) ==
  \/ \E k \in Scenarios : send(a, "setup", k)
  \/ \E op \in {"reset", "emit", "state"} : send(a, op, None)
  \/ answer(a) \/ timeout(a)

ClientStep(s) == authenticate(s) \/ resolve(s) \/ subscribeStep(s) \/ deliverFrame(s)

LEMMA StepKinds ==
  ASSUME ControlNext
  PROVE  \/ \E a \in Admins : DriverStep(a) \/ HandlerNext(a)
         \/ \E s \in Subs : ClientStep(s)
  BY Zenon DEF ControlNext, DriverStep, ClientStep

\* An alone request is the only one running; a driver that is sure of what it
\* knows and waits for nothing has left no handler behind.
AloneInv ==
  /\ \A a \in Admins : request[a].alone /\ (a \in Running \/ driver.on = a) => Running \subseteq {a}
  /\ \A a \in Admins : driver.on = a => request[a].pc # "none"
  /\ driver.on = None /\ driver.sure => Running = {}

\* A step that starts no request and ends none but by "done".
LEMMA AloneKept ==
  ASSUME AloneInv, driver' = driver,
         \A b \in Admins : /\ request'[b].alone = request[b].alone
                           /\ request'[b].pc = request[b].pc \/ (b \in Running /\ request'[b].pc # "none")
  PROVE  AloneInv'
  <1>1. Running' \subseteq Running
    BY DEF Running
  <1>2. ASSUME NEW a \in Admins, request'[a].alone, a \in Running' \/ driver'.on = a
        PROVE  Running' \subseteq {a}
    BY <1>1, <1>2 DEF AloneInv
  <1>3. ASSUME NEW a \in Admins, driver'.on = a PROVE request'[a].pc # "none"
    BY <1>3 DEF AloneInv
  <1> QED
    BY <1>1, <1>2, <1>3 DEF AloneInv

\* What a request of the driver's does to the others.
LEMMA SendAlone ==
  ASSUME BaseInv, NEW a \in Admins, NEW op \in {"setup", "reset", "emit", "state"},
         NEW k \in Scenarios \cup {None}, op = "setup" <=> k # None, send(a, op, k)
  PROVE  /\ driver.on = None /\ a \notin Running /\ Running' = Running \cup {a}
         /\ request[a] = NoRequest /\ request'[a].pc = Entry(op) /\ request'[a].op = op
         /\ request'[a].sc = k /\ request'[a].status = "none" /\ request'[a].reply = None
         /\ (request'[a].alone <=> Running = {})
         /\ \A b \in Running : ~ request'[b].alone
         /\ \A b \in Admins \ {a} : /\ request'[b].pc = request[b].pc
                                    /\ request'[b].status = request[b].status
                                    /\ request'[b].alone => request[b].alone
                                    /\ b \notin Running => request'[b] = request[b]
         /\ driver'.on = a /\ driver'.sure = driver.sure /\ driver'.scenario = driver.scenario
         /\ driver'.state = driver.state /\ driver'.reply = None
         /\ UNCHANGED <<vars, tokens, planeActive, pinned, content, data, shown, session>>
  <1>0. driver \in DriverState /\ RequestsOK
    BY DEF BaseInv, PlaneType
  <1>1. /\ driver.on = None /\ request[a] = NoRequest
        /\ request'[a].pc = Entry(op) /\ request'[a].op = op /\ request'[a].sc = k
        /\ (request'[a].alone <=> Running = {})
        /\ request'[a].status = "none" /\ request'[a].reply = None
        /\ \A b \in Admins : b # a =>
             /\ b \notin Running => request'[b] = request[b]
             /\ b \in Running => request'[b] = [request[b] EXCEPT !.alone = FALSE]
        /\ driver'.on = a /\ driver'.sure = driver.sure
        /\ driver'.scenario = driver.scenario /\ driver'.state = driver.state /\ driver'.reply = None
        /\ UNCHANGED <<vars, tokens, planeActive, pinned, content, data, shown, session>>
    BY ONLY <1>0, SendParts, send(a, op, k), op = "setup" <=> k # None
  <1>2. a \notin Running
    BY <1>1, NoRequestParts DEF Running
  <1>3. ASSUME NEW b \in Running, b # a
        PROVE  /\ request'[b].pc = request[b].pc /\ request'[b].status = request[b].status
               /\ ~ request'[b].alone
    <2>1. request[b] \in RequestState
      BY <1>0, <1>3 DEF RequestsOK, Running
    <2>2. request'[b] = [request[b] EXCEPT !.alone = FALSE]
      BY <1>1, <1>3 DEF Running
    <2> QED
      BY <2>1, <2>2 DEF RequestState
  <1>4. request'[a].pc \notin {"none", "done"}
    BY <1>1 DEF Entry
  <1>5. \A b \in Admins \ {a} : request'[b].pc = request[b].pc /\ request'[b].status = request[b].status
                                /\ (request'[b].alone => request[b].alone)
    BY <1>1, <1>3
  <1>6. Running' = Running \cup {a}
    BY <1>4, <1>5 DEF Running
  <1> QED
    BY <1>1, <1>2, <1>3, <1>5, <1>6

LEMMA NextAlone ==
  ASSUME BaseInv, AloneInv, ControlNext
  PROVE  AloneInv'
  <1>1. ASSUME NEW a \in Admins, NEW op \in {"setup", "reset", "emit", "state"},
               NEW k \in Scenarios \cup {None}, op = "setup" <=> k # None, send(a, op, k)
        PROVE  AloneInv'
    <2>1. /\ driver.on = None /\ Running' = Running \cup {a}
          /\ (request'[a].alone <=> Running = {})
          /\ \A b \in Running : ~ request'[b].alone
          /\ driver'.on = a /\ request'[a].pc = Entry(op)
      BY ONLY <1>1, SendAlone, BaseInv
    <2> QED
      BY <2>1, HandlerAssumption DEF AloneInv, Entry
  <1>2. ASSUME NEW a \in Admins, answer(a) PROVE AloneInv'
    <2>1. /\ request[a].pc = "done" /\ request'[a] = NoRequest
          /\ \A b \in Admins : b # a => request'[b] = request[b]
          /\ driver' = (IF driver.on = a THEN Learned(a) ELSE driver)
      BY <1>2, AnswerParts DEF BaseInv, PlaneType
    <2>2. Running' = Running
      BY <2>1, NoRequestParts DEF Running
    <2>3. CASE driver.on = a
      <3>1. driver'.on = None /\ (driver'.sure => request[a].alone)
        <4>1. driver \in DriverState /\ RequestsOK
          BY DEF BaseInv, PlaneType
        <4>2. Learned(a).on = None /\ (Learned(a).sure => request[a].alone)
          BY ONLY <2>1, <4>1, LearnedParts, a \in Admins
        <4> QED
          BY <2>1, <2>3, <4>2
      <3>2. request[a].alone => Running = {}
        BY <2>1, <2>3 DEF AloneInv, Running
      <3> QED
        BY <2>1, <2>2, <3>1, <3>2, HandlerAssumption DEF AloneInv, Running
    <2>4. CASE driver.on # a
      BY <2>1, <2>2, <2>4, NoRequestParts DEF AloneInv, Running
    <2> QED
      BY <2>3, <2>4
  <1>3. ASSUME NEW a \in Admins, timeout(a) PROVE AloneInv'
    <2>1. driver'.on = None /\ ~ driver'.sure /\ request' = request
      BY <1>3, TimeoutParts DEF BaseInv, PlaneType
    <2> QED
      BY <2>1, HandlerAssumption DEF AloneInv, Running
  <1>4. ASSUME NEW a \in Admins, HandlerNext(a) PROVE AloneInv'
    BY <1>4, HandlerParts, AloneKept DEF SameKind
  <1>5. ASSUME NEW s \in Subs, ClientStep(s) PROVE AloneInv'
    BY <1>5, ClientParts, AloneKept DEF ClientStep
  <1>6. ASSUME NEW a \in Admins, DriverStep(a) PROVE AloneInv'
    BY <1>1, <1>2, <1>3, <1>6, ScenarioAssumption DEF DriverStep
  <1> QED
    BY <1>4, <1>5, <1>6, StepKinds

\* What a handler that runs alone can rely on between its steps.
Solo(a) ==
  LET r == request[a]
  IN  /\ r.pc \in {"tokens", "install", "create"} => active = None /\ Registered = {}
      /\ r.pc \in {"reject", "set", "refresh", "activate"} =>
           active = Bundles[r.sc][1].id /\ scenes[active] = r.obj
      /\ r.pc \in SceneSteps => active # None /\ scenes[active] = r.obj
      /\ r.pc = "publish" => content[r.obj] = Emitted
      /\ r.pc = "version" => r.obj \in Registered
      /\ admin[a].pc \in {"migrate1", "migrate2"} => active # None /\ admin[a].next = LiveScene
      /\ admin[a].pc = "migrate1" => admin[a].prev = Holding

SoloInv == \A a \in Running : request[a].alone => Solo(a)

\* The steps of the handler itself.
LEMMA HandlerSolo ==
  ASSUME BaseInv, NEW a \in Admins, Solo(a), HandlerNext(a), request'[a].pc # "done"
  PROVE  Solo(a)'
  <1> USE DEF BaseInv
  <1>0. /\ Idle.pc = "idle" /\ (UNCHANGED vars => UNCHANGED <<scenes, active, admin>>)
        /\ (UNCHANGED <<scenes, active>> => UNCHANGED <<LiveScene, Registered>>)
        /\ None \notin Ids
    BY IdleParts, DistinctAssumption DEF vars, LiveScene, Registered
  <1>1. CASE resetServer(a)
    <2>1. Reset(a) /\ request'[a].pc = "tokens"
      BY <1>1, ResetServerParts
    <2>2. active' = None /\ Registered' = {} /\ admin'[a].pc \notin {"migrate1", "migrate2"}
      BY <2>1, ResetParts, ResetSets
    <2> QED
      BY <2>1, <2>2 DEF Solo, SceneSteps
  <1>2. CASE resetTokens(a)
    <2>1. /\ request[a].pc = "tokens" /\ admin[a] = Idle /\ UNCHANGED vars
          /\ request'[a].pc \in {"finish", "create", "install"}
      BY <1>2, ResetTokensParts
    <2> QED
      BY <1>0, <2>1 DEF Solo, SceneSteps
  <1>3. ASSUME NEW p, installToken(a, p) PROVE Solo(a)'
    <2>1. /\ request[a].pc = "install" /\ admin[a] = Idle /\ UNCHANGED vars
          /\ request'[a].pc \in {"create", "install"}
      BY <1>3, InstallParts
    <2> QED
      BY <1>0, <2>1 DEF Solo, SceneSteps
  <1>4. CASE createPrimary(a)
    <2> DEFINE k == request[a].sc
               id == Bundles[k][1].id
    <2>1. /\ request[a].pc = "create" /\ NewScene(a, id, Fresh) /\ id \in Ids
          /\ request'[a].sc = k /\ request'[a].obj = Fresh
          /\ request'[a].pc = (IF k \in Malformed THEN "reject" ELSE SeedStep(k))
      BY <1>4, CreatePrimaryParts DEF SameKind
    <2>2. active = None
      BY <2>1 DEF Solo
    <2>3. /\ active' = id /\ scenes'[id] = Fresh /\ admin'[a].pc # "migrate2"
          /\ admin'[a].pc = "migrate1" => admin'[a].next = Fresh /\ admin'[a].prev = Holding
      BY <2>1, <2>2, NewSceneParts
    <2>4. LiveScene' = Fresh /\ active' # None
      BY <1>0, <2>1, <2>3 DEF LiveScene
    <2>5. request'[a].pc \in {"reject", "set", "activate"}
      BY <2>1 DEF SeedStep
    <2> HIDE DEF id
    <2>6. active' = Bundles[request'[a].sc][1].id /\ scenes'[active'] = request'[a].obj
      BY <2>1, <2>3 DEF id
    <2> QED
      BY <2>3, <2>4, <2>5, <2>6 DEF Solo, SceneSteps
  <1>5. CASE rejectPrimary(a)
    <2>1. /\ request[a].pc = "reject" /\ admin[a] = Idle /\ Reject(a, request[a].obj)
          /\ SameKind(a) /\ SameScene(a) /\ request'[a].pc = SeedStep(request[a].sc)
      BY <1>5, RejectParts
    <2>2. UNCHANGED <<scenes, active, admin>>
      BY <2>1 DEF Reject
    <2>3. request'[a].pc \in {"set", "activate"}
      BY <2>1 DEF SeedStep
    <2> QED
      BY <1>0, <2>1, <2>2, <2>3 DEF Solo, SceneSteps, SameKind, SameScene
  <1>6. CASE seedStore(a)
    <2>1. /\ request[a].pc = "set" /\ admin[a] = Idle /\ SameKind(a) /\ SameScene(a) /\ UNCHANGED vars
          /\ request'[a].pc = "refresh"
      BY <1>6, SeedParts
    <2> QED
      BY <1>0, <2>1 DEF Solo, SceneSteps, SameKind, SameScene
  <1>7. CASE refreshAll(a)
    <2>1. /\ request[a].pc = "refresh" /\ admin[a] = Idle /\ SameKind(a) /\ SameScene(a)
          /\ Refreshed(request[a].obj) /\ request'[a].pc = "activate"
      BY <1>7, RefreshParts
    <2>2. UNCHANGED <<scenes, active, admin>>
      BY <2>1 DEF Refreshed, sceneVars
    <2> QED
      BY <1>0, <2>1, <2>2 DEF Solo, SceneSteps, SameKind, SameScene
  <1>8. CASE activate(a)
    <2> DEFINE k == request[a].sc
               id == Bundles[k][1].id
    <2>1. /\ request[a].pc = "activate" /\ admin[a] = Idle
          /\ request'[a].pc = "done" \/ request'[a].pc = NextBundle(k, 1)
          /\ UNCHANGED vars \/ (SetActive(a, id) /\ active # id)
      BY <1>8, ActivateParts
    <2>2. active = id
      BY <2>1 DEF Solo
    <2> QED
      BY <1>0, <2>1, <2>2 DEF Solo, SceneSteps, NextBundle
  <1>9. CASE createSecondary(a)
    <2> DEFINE k == request[a].sc
               n == request[a].at + 1
               id == Bundles[k][n].id
    <2>1. /\ request[a].pc = "second" /\ NewScene(a, id, Fresh) /\ id \in Ids
          /\ request'[a].pc = (IF Bundles[k][n].pinned THEN "version" ELSE NextBundle(k, n))
          /\ request'[a].obj = Fresh /\ Fresh \in Objs
      BY <1>9, CreateSecondaryParts
    <2> HIDE DEF id, n
    <2>2. /\ active' = (IF active = None THEN id ELSE active) /\ scenes'[id] = Fresh
          /\ admin'[a].pc # "migrate2" /\ (admin'[a].pc = "migrate1" <=> active = None)
          /\ admin'[a].pc = "migrate1" => admin'[a].next = Fresh /\ admin'[a].prev = Holding
      BY <2>1, NewSceneParts
    <2>3. active = None => active' # None /\ LiveScene' = Fresh
      BY <1>0, <2>1, <2>2 DEF LiveScene
    <2>4. request'[a].pc \in {"version", "second", "finish"}
      BY <2>1 DEF NextBundle
    <2>5. request'[a].obj \in Registered'
      BY <2>1, <2>2, DistinctAssumption DEF Registered, Scenes
    <2> QED
      BY <2>2, <2>3, <2>4, <2>5 DEF Solo, SceneSteps
  <1>10. CASE setVersion(a)
    <2>1. /\ request[a].pc = "version" /\ admin[a] = Idle /\ UNCHANGED vars
          /\ request'[a].pc = NextBundle(request[a].sc, request[a].at)
      BY <1>10, VersionParts
    <2> QED
      BY <1>0, <2>1 DEF Solo, SceneSteps, NextBundle
  <1>11. CASE finish(a)
    BY <1>11, FinishParts
  <1>12. CASE findActive(a)
    <2>1. /\ request[a].pc = "find" /\ admin[a] = Idle /\ UNCHANGED vars
          /\ active # None /\ request'[a].obj = LiveScene /\ request'[a].pc \in {"apply", "read"}
      BY <1>12, FindParts
    <2> QED
      BY <1>0, <2>1, ServerType DEF Solo, SceneSteps
  <1>13. CASE applyEmit(a)
    <2>1. /\ request[a].pc = "apply" /\ admin[a] = Idle /\ UNCHANGED vars /\ SameScene(a)
          /\ request'[a].pc = "publish" /\ content' = [content EXCEPT ![request[a].obj] = Emitted]
      BY <1>13, ApplyParts
    <2>2. request[a].obj \in Scenes
      BY <2>1, ObjParts, ServerType DEF SceneSteps, Scenes
    <2>3. content'[request'[a].obj] = Emitted
      BY <2>1, <2>2 DEF ContentType, SameScene
    <2> QED
      BY <1>0, <2>1, <2>3 DEF Solo, SceneSteps, SameScene
  <1>14. ASSUME NEW K, publishEmit(a, K) PROVE Solo(a)'
    BY <1>14, PublishParts
  <1>15. CASE readState(a)
    <2>0. content[request[a].obj] \in States
      <3>1. request[a].obj \in created
        BY <1>15, ObjParts DEF readState, At, SceneSteps
      <3> QED
        BY <3>1, ServerType DEF ContentType, Scenes
    <2> QED
      BY <1>15, <2>0, ReadParts
  <1>16. CASE serverStep(a)
    <2>1. request' = request /\ content' = content
      BY <1>16, ServerStepParts
    <2>2. UNCHANGED <<scenes, active>>
      BY <1>16, ServerStepParts
    <2>3. /\ admin'[a].pc # "migrate1"
          /\ admin'[a].pc \in {"migrate1", "migrate2"} =>
               admin[a].pc \in {"migrate1", "migrate2"} /\ admin'[a].next = admin[a].next
      <3>1. CASE migrate1(a)
        BY <3>1, Migrate1Parts
      <3>2. CASE migrate2(a)
        BY <3>2, Migrate2Parts
      <3>3. ASSUME NEW o \in Objs, tearDown(a, o) PROVE admin'[a].pc \notin {"migrate1", "migrate2"}
        BY <3>3, TearParts
      <3> QED
        BY <1>16, <3>1, <3>2, <3>3 DEF serverStep
    <2> QED
      BY <1>0, <2>1, <2>2, <2>3 DEF Solo
  <1>17. CASE serverPanics(a)
    BY <1>17, PanicStepParts
  <1> HIDE DEF BaseInv
  <1> QED
    BY <1>1, <1>2, <1>3, <1>4, <1>5, <1>6, <1>7, <1>8, <1>9, <1>10, <1>11, <1>12, <1>13, <1>14,
       <1>15, <1>16, <1>17, Zenon DEF HandlerNext

LEMMA NextSolo ==
  ASSUME BaseInv, AloneInv, SoloInv, ControlNext
  PROVE  SoloInv'
  <1>0. UNCHANGED <<scenes, active>> => UNCHANGED <<LiveScene, Registered>>
    BY DEF LiveScene, Registered
  <1>1. ASSUME NEW a \in Admins, NEW op \in {"setup", "reset", "emit", "state"},
               NEW k \in Scenarios \cup {None}, op = "setup" <=> k # None, send(a, op, k)
        PROVE  SoloInv'
    <2>1. /\ Running' = Running \cup {a} /\ \A b \in Running : ~ request'[b].alone
          /\ a \notin Running /\ request'[a].pc = Entry(op) /\ UNCHANGED vars
      BY ONLY <1>1, SendAlone, BaseInv
    <2>2. admin'[a] = Idle
      BY <2>1 DEF vars, BaseInv, RequestsOK, Running
    <2>3. Solo(a)'
      BY <2>1, <2>2, IdleParts DEF Solo, Entry, SceneSteps
    <2> QED
      BY <2>1, <2>3 DEF SoloInv
  <1>2. ASSUME NEW a \in Admins, answer(a) PROVE SoloInv'
    <2>1. /\ request[a].pc = "done" /\ request'[a] = NoRequest
          /\ \A b \in Admins : b # a => request'[b] = request[b]
          /\ UNCHANGED <<scenes, active, admin, content>>
      BY <1>2, AnswerParts DEF BaseInv, PlaneType, vars
    <2>2. Running' = Running /\ a \notin Running
      BY <2>1, NoRequestParts DEF Running
    <2> QED
      BY <1>0, <2>1, <2>2 DEF SoloInv, Solo, Running
  <1>3. ASSUME NEW a \in Admins, timeout(a) PROVE SoloInv'
    <2>1. UNCHANGED <<request, scenes, active, admin, content>>
      BY <1>3, TimeoutParts DEF BaseInv, PlaneType, vars
    <2> QED
      BY <1>0, <2>1 DEF SoloInv, Solo, Running
  <1>4. ASSUME NEW a \in Admins, HandlerNext(a) PROVE SoloInv'
    <2>1. /\ a \in Running /\ \A b \in Admins : b # a => request'[b] = request[b]
          /\ request'[a].alone = request[a].alone
      BY <1>4, HandlerParts DEF SameKind
    <2> SUFFICES ASSUME NEW b \in Running', request'[b].alone PROVE Solo(b)'
      BY DEF SoloInv
    <2>2. b \in Admins /\ request'[b].pc # "done"
      BY DEF Running
    <2>3. b = a
      BY <2>1, <2>2 DEF AloneInv, Running
    <2>4. Solo(a)
      BY <2>1, <2>3 DEF SoloInv
    <2> QED
      BY <1>4, <2>2, <2>3, <2>4, HandlerSolo
  <1>5. ASSUME NEW s \in Subs, ClientStep(s) PROVE SoloInv'
    <2>1. UNCHANGED <<request, scenes, active, admin, content>>
      BY <1>5, ClientParts DEF ClientStep
    <2> QED
      BY <1>0, <2>1 DEF SoloInv, Solo, Running
  <1>6. ASSUME NEW a \in Admins, DriverStep(a) PROVE SoloInv'
    BY <1>1, <1>2, <1>3, <1>6, ScenarioAssumption DEF DriverStep
  <1> QED
    BY <1>4, <1>5, <1>6, StepKinds

\* Handler a answers well, if it runs alone.
AloneAnswered == \A a \in Admins : request[a].alone => request[a].status # "failed"

\* A registered scene's mutex is free.
LEMMA RegisteredUnlocked ==
  ASSUME BaseInv, NEW o \in Registered
  PROVE  o \notin torn /\ o \notin locked
  BY DEF BaseInv, RegistryInv, Accounted, TornOnce

\* The migration of a handler that runs alone ends in the scene it has just registered.
LEMMA SoloMigrates ==
  ASSUME BaseInv, NEW a \in Admins, Solo(a), admin[a].pc \in {"migrate1", "migrate2"}
  PROVE  admin[a].next \notin torn /\ admin[a].next \notin locked
  <1>1. active # None /\ admin[a].next = LiveScene
    BY DEF Solo
  <1>2. LiveScene \in Registered
    BY <1>1, ServerType DEF BaseInv
  <1> QED
    BY <1>1, <1>2, RegisteredUnlocked

\* A handler that runs alone does not panic.
LEMMA SoloSound ==
  ASSUME BaseInv, NEW a \in Admins, Solo(a)
  PROVE  ~ serverPanics(a)
  <1> SUFFICES ASSUME serverPanics(a) PROVE FALSE
    OBVIOUS
  <1>1. admin[a].pc = "migrate2" /\ admin[a].next \in torn
    BY PanicStepParts, PanicsParts DEF BaseInv
  <1> QED
    BY <1>1, SoloMigrates

\* It needs no mutex that a panic left locked: its scene is registered, what it
\* has to tear down was not torn down before, and the rest moves from holding.
LEMMA AloneUnblocked ==
  ASSUME BaseInv, AloneInv, SoloInv, NEW a \in Admins, request[a].alone
  PROVE  ~ Blocked(a)
  <1>0. locked \subseteq torn /\ torn \subseteq Objs /\ Holding \notin Objs
    BY ServerType, DistinctAssumption DEF BaseInv, RegistryInv, TornOnce
  <1>1. CASE a \notin Running
    <2>1. request[a].pc \in {"none", "done"}
      BY <1>1 DEF Running
    <2>2. admin[a] = Idle
      BY <2>1 DEF BaseInv, RequestsOK
    <2> QED
      BY <2>1, <2>2, IdleParts DEF Blocked, At
  <1>2. CASE a \in Running
    <2>1. Solo(a)
      BY <1>2 DEF SoloInv
    <2>2. ~ (admin[a].pc = "migrate1" /\ admin[a].prev \in locked)
      BY <1>0, <2>1 DEF Solo
    <2>3. ~ (admin[a].pc = "migrate2" /\ admin[a].next \in locked)
      BY <2>1, SoloMigrates
    <2>4. admin[a].tear \cap locked = {}
      BY DEF BaseInv, RegistryInv, TornOnce
    <2>5. ASSUME request[a].pc \in {"reject", "refresh", "version", "publish"}
          PROVE  request[a].obj \in Registered
      <3>1. CASE request[a].pc = "version"
        BY <2>1, <3>1 DEF Solo
      <3>2. CASE request[a].pc \in {"reject", "refresh", "publish"}
        <4>1. /\ active # None /\ scenes[active] = request[a].obj
              /\ active \in Ids \cup {None}
          <5>1. request[a].pc \in {"reject", "refresh"} =>
                  active = Bundles[request[a].sc][1].id /\ scenes[active] = request[a].obj
            BY <2>1 DEF Solo
          <5>2. request[a].pc = "publish" => active # None /\ scenes[active] = request[a].obj
            BY <2>1 DEF Solo, SceneSteps
          <5>3. request[a].pc \in {"reject", "refresh"} => Bundles[request[a].sc][1].id \in Ids
            <6>1. RequestsOK
              BY DEF BaseInv
            <6>2. \A k \in Scenarios : 1 \in 1 .. Len(Bundles[k]) /\ Bundles[k][1].id \in Ids
              BY BundleParts
            <6> QED
              BY <6>1, <6>2, SetupParts
          <5> QED
            BY <3>2, <5>1, <5>2, <5>3, ServerType, DistinctAssumption DEF BaseInv
        <4>2. LiveScene \in Registered /\ LiveScene = scenes[active]
          BY <4>1, ServerType DEF BaseInv, LiveScene
        <4> QED
          BY <4>1, <4>2
      <3> QED
        BY <2>5, <3>1, <3>2
    <2> QED
      BY <2>2, <2>3, <2>4, <2>5, RegisteredUnlocked DEF Blocked, At
  <1> QED
    BY <1>1, <1>2

LEMMA NextAnswered ==
  ASSUME BaseInv, AloneInv, SoloInv, AloneAnswered, ControlNext
  PROVE  AloneAnswered'
  <1> USE DEF AloneAnswered
  <1>1. ASSUME NEW a \in Admins, NEW op \in {"setup", "reset", "emit", "state"},
               NEW k \in Scenarios \cup {None}, op = "setup" <=> k # None, send(a, op, k)
        PROVE  AloneAnswered'
    <2>1. /\ request'[a].status = "none"
          /\ \A b \in Admins \ {a} : /\ request'[b].status = request[b].status
                                     /\ request'[b].alone => request[b].alone
      BY ONLY <1>1, SendAlone, BaseInv
    <2> QED
      BY <2>1
  <1>2. ASSUME NEW a \in Admins, answer(a) PROVE AloneAnswered'
    <2>1. /\ request'[a] = NoRequest /\ \A b \in Admins : b # a => request'[b] = request[b]
      BY <1>2, AnswerParts DEF BaseInv, PlaneType
    <2> QED
      BY <2>1, NoRequestParts
  <1>3. ASSUME NEW a \in Admins, timeout(a) PROVE AloneAnswered'
    BY <1>3, TimeoutParts DEF BaseInv, PlaneType
  <1>4. ASSUME NEW a \in Admins, HandlerNext(a) PROVE AloneAnswered'
    <2>1. /\ a \in Running /\ \A b \in Admins : b # a => request'[b] = request[b]
          /\ request'[a].alone = request[a].alone
      BY <1>4, HandlerParts DEF SameKind
    <2>2. ASSUME request[a].alone, request'[a].status = "failed" PROVE FALSE
      <3>0. Solo(a) /\ request[a].status # "failed"
        BY <2>1, <2>2 DEF SoloInv
      <3> USE DEF BaseInv
      <3>1. CASE activate(a)
        <4> DEFINE id == Bundles[request[a].sc][1].id
        <4>1. request[a].pc = "activate" /\ (scenes[id] = None \/ request'[a].status = request[a].status)
          BY <3>1, ActivateParts
        <4>2. scenes[id] = request[a].obj /\ request[a].obj \in created
          BY <3>0, <4>1, ObjParts DEF Solo, MadeSteps
        <4> QED
          BY <2>2, <3>0, <4>1, <4>2, ServerType, DistinctAssumption DEF Scenes
      <3>2. CASE resetServer(a) \/ resetTokens(a) \/ \E p \in DOMAIN TokenRole : installToken(a, p)
        BY <2>2, <3>0, <3>2, ResetServerParts, ResetTokensParts, InstallParts DEF SameAnswer
      <3>3. CASE createPrimary(a) \/ createSecondary(a)
        BY <2>2, <3>0, <3>3, CreatePrimaryParts, CreateSecondaryParts DEF SameAnswer
      <3>4. CASE rejectPrimary(a) \/ seedStore(a) \/ refreshAll(a) \/ setVersion(a)
        BY <2>2, <3>0, <3>4, RejectParts, SeedParts, RefreshParts, VersionParts DEF SameAnswer
      <3>5. CASE finish(a) \/ findActive(a) \/ applyEmit(a) \/ \E K \in SUBSET Subs : publishEmit(a, K)
        BY <2>2, <3>0, <3>5, FinishParts, FindParts, ApplyParts, PublishParts DEF SameAnswer
      <3>6. CASE readState(a)
        <4>1. request[a].obj \in created
          BY <3>6, ObjParts DEF readState, At, SceneSteps
        <4>2. content[request[a].obj] \in States
          BY <4>1, ServerType DEF ContentType, Scenes
        <4> QED
          BY <2>2, <3>6, <4>2, ReadParts
      <3>7. CASE serverStep(a)
        BY <2>2, <3>0, <3>7, ServerStepParts
      <3>8. CASE serverPanics(a)
        BY <3>0, <3>8, SoloSound
      <3> HIDE DEF BaseInv
      <3> QED
        BY <1>4, <3>1, <3>2, <3>3, <3>4, <3>5, <3>6, <3>7, <3>8, Zenon DEF HandlerNext
    <2> QED
      BY <2>1, <2>2
  <1>5. ASSUME NEW s \in Subs, ClientStep(s) PROVE AloneAnswered'
    BY <1>5, ClientParts DEF ClientStep
  <1>6. ASSUME NEW a \in Admins, DriverStep(a) PROVE AloneAnswered'
    BY <1>1, <1>2, <1>3, <1>6, ScenarioAssumption DEF DriverStep
  <1> QED
    BY <1>4, <1>5, <1>6, StepKinds

CoreInv == BaseInv /\ AloneInv /\ SoloInv /\ AloneAnswered

LEMMA NextCore ==
  ASSUME CoreInv, ControlNext
  PROVE  CoreInv'
  BY NextBase, NextAlone, NextSolo, NextAnswered DEF CoreInv

\* What a stuttering step leaves alone.
LEMMA StutterParts ==
  ASSUME UNCHANGED allVars
  PROVE  /\ UNCHANGED <<scenes, active, created, subscribers, torn, rejected, seq, admin, conn, captured,
                        todo, closed, stale, out, client, late, locked, lost>>
         /\ UNCHANGED <<request, driver, sent, tokens, planeActive, pinned, content, data, shown, session>>
         /\ Running' = Running /\ Registered' = Registered /\ LiveScene' = LiveScene
         /\ Tearing' = Tearing
  <1>1. UNCHANGED <<vars, planeVars, contentVars, session>>
    BY DEF allVars
  <1> QED
    BY <1>1 DEF vars, planeVars, contentVars, Running, Registered, LiveScene, Tearing

LEMMA CoreStutter ==
  ASSUME CoreInv, UNCHANGED allVars
  PROVE  CoreInv'
  <1>1. BaseInv'
    BY BaseStutter DEF CoreInv
  <1>2. AloneInv' /\ SoloInv' /\ AloneAnswered'
    BY StutterParts DEF CoreInv, AloneInv, SoloInv, Solo, AloneAnswered
  <1> QED
    BY <1>1, <1>2 DEF CoreInv

\* Nothing runs at first.
LEMMA InitParts ==
  ASSUME ControlInit
  PROVE  /\ Running = {} /\ Registered = {} /\ active = None
         /\ \A a \in Admins : request[a] = NoRequest /\ admin[a] = Idle
         /\ \A s \in Subs : conn[s] = "off"
         /\ \A o \in Scenes : subscribers[o] = {}
         /\ driver.on = None /\ driver.scenario = None /\ driver.state = Empty /\ driver.reply = None
  <1>1. /\ Init /\ request = [a \in Admins |-> NoRequest]
        /\ driver = [on |-> None, sure |-> TRUE, scenario |-> None, state |-> Empty, reply |-> None]
    BY DEF ControlInit
  <1>2. \A a \in Admins : request[a] = NoRequest
    BY <1>1
  <1>3. Running = {}
    BY <1>2, NoRequestParts DEF Running
  <1>4. /\ Registered = {} /\ active = None /\ \A a \in Admins : admin[a] = Idle
        /\ \A s \in Subs : conn[s] = "off" /\ \A o \in Scenes : subscribers[o] = {}
    BY <1>1 DEF Init, Registered
  <1> QED
    BY <1>1, <1>2, <1>3, <1>4 DEF Init

LEMMA InitCore == ControlInit => CoreInv
  <1> SUFFICES ASSUME ControlInit PROVE CoreInv
    OBVIOUS
  <1>1. AloneInv /\ SoloInv /\ AloneAnswered
    BY InitParts, NoRequestParts, HandlerAssumption DEF AloneInv, SoloInv, AloneAnswered
  <1> QED
    BY <1>1, InitBase DEF CoreInv

LEMMA CoreInvariant == ControlSpec => []CoreInv
  <1>1. CoreInv /\ [ControlNext]_allVars => CoreInv'
    BY NextCore, CoreStutter
  <1> QED
    BY <1>1, InitCore, PTL DEF ControlSpec

\* A request that runs alone neither gets the 500 answer, which leaves the server
\* half set up, nor panics, nor waits for a mutex that an earlier panic left
\* locked: its SetActive finds the scene it has just registered, its migration
\* goes from holding to a scene nobody has torn down, and what it tears down
\* itself was never torn down before.
THEOREM AloneIsSafe == ControlSpec => []AloneNeverFails
  <1>1. CoreInv => AloneNeverFails
    BY AloneUnblocked DEF CoreInv, AloneAnswered, AloneNeverFails
  <1> QED
    BY <1>1, CoreInvariant, PTL

-----------------------------------------------------------------------------
(* What the live clients end up with. *)

\* The answers the driver has, or waits for, describe the server: nothing it
\* gave up on runs, and its own setup or reset has emptied the server.
Trusted ==
  \/ driver.on = None /\ driver.sure
  \/ \E a \in Admins :
       /\ driver.on = a /\ request[a].alone
       /\ IF request[a].op \in {"setup", "reset"} THEN request[a].pc # "start" ELSE driver.sure

\* A handler has written to a store and not told the subscribers yet.
Pending == \E a \in Running : request[a].pc \in {"refresh", "publish"}

\* s is with the live scene, on its way to it, or about to be closed.
Reached(s) == Follows(s) \/ \E o \in Tearing : s \in subscribers[o]

OnHolding ==
  \A s \in Live : s \in subscribers[Holding] /\ ~ stale[s] => Final(s) = content[Holding]

OnLive ==
  Trusted /\ ~ Pending =>
    \A s \in Live : s \in subscribers[LiveScene] /\ ~ stale[s] => Final(s) = content[LiveScene]

Followed ==
  Trusted =>
    \A s \in Live :
      conn[s] = "run" /\ ~ closed[s] /\ ~ stale[s] /\ ~ late[s] /\ s \notin lost => Reached(s)

ClientsInv == OnHolding /\ OnLive /\ Followed

\* Trust comes from the answers before, or from the reset of a request alone.
LEMMA TrustDriver ==
  ASSUME CoreInv, NEW a \in Admins, DriverStep(a), Trusted'
  PROVE  /\ Trusted /\ (Pending => Pending')
         /\ UNCHANGED <<vars, content, data, shown>>
  <1>0. BaseInv /\ AloneInv /\ RequestsOK /\ driver \in DriverState
    BY DEF CoreInv, BaseInv, PlaneType
  <1>1. ASSUME NEW op \in {"setup", "reset", "emit", "state"},
               NEW k \in Scenarios \cup {None}, op = "setup" <=> k # None, send(a, op, k)
        PROVE  Trusted /\ (Pending => Pending') /\ UNCHANGED <<vars, content, data, shown>>
    <2>1. /\ driver.on = None /\ a \notin Running /\ Running' = Running \cup {a}
          /\ request'[a].pc = Entry(op) /\ request'[a].op = op
          /\ (request'[a].alone <=> Running = {})
          /\ driver'.on = a /\ driver'.sure = driver.sure
          /\ UNCHANGED <<vars, content, data, shown>>
      BY ONLY <1>0, <1>1, SendAlone, a \in Admins
    <2>2. request'[a].alone /\ driver.sure
      BY <2>1, HandlerAssumption DEF Trusted, Entry
    <2> QED
      BY <2>1, <2>2 DEF Trusted, Pending
  <1>2. CASE answer(a)
    <2>1. /\ request[a].pc = "done" /\ request'[a] = NoRequest
          /\ \A b \in Admins : b # a => request'[b] = request[b]
          /\ driver' = (IF driver.on = a THEN Learned(a) ELSE driver)
          /\ UNCHANGED <<vars, content, data, shown>>
      BY ONLY <1>0, <1>2, AnswerParts, a \in Admins
    <2>2. Running' = Running /\ a \notin Running
      BY <2>1, NoRequestParts DEF Running
    <2>3. Pending => Pending'
      BY <2>1, <2>2 DEF Pending, Running
    <2>4. CASE driver.on = a
      <3>1. /\ Learned(a).on = None
            /\ Learned(a).sure => request[a].alone /\ (request[a].op \in {"setup", "reset"} \/ driver.sure)
        BY ONLY <1>0, <2>1, LearnedParts, a \in Admins
      <3>2. driver'.sure
        BY <2>1, <2>4, <3>1, HandlerAssumption DEF Trusted
      <3> QED
        BY <2>1, <2>3, <2>4, <3>1, <3>2 DEF Trusted
    <2>5. CASE driver.on # a
      BY <2>1, <2>3, <2>5 DEF Trusted
    <2> QED
      BY <2>4, <2>5
  <1>3. CASE timeout(a)
    <2>1. driver'.on = None /\ ~ driver'.sure
      BY <1>0, <1>3, TimeoutParts
    <2> QED
      BY <2>1, HandlerAssumption DEF Trusted
  <1> QED
    BY <1>1, <1>2, <1>3, ScenarioAssumption DEF DriverStep

LEMMA TrustHandler ==
  ASSUME CoreInv, NEW a \in Admins, HandlerNext(a), Trusted'
  PROVE  /\ driver.on = a /\ request[a].alone /\ Running = {a} /\ Solo(a)
         /\ \A b \in Admins : b # a => admin[b] = Idle
         /\ Trusted \/ resetServer(a)
         /\ ~ serverPanics(a)
  <1>0. BaseInv /\ AloneInv /\ SoloInv
    BY DEF CoreInv
  <1>1. /\ a \in Running /\ driver' = driver
        /\ \A b \in Admins : b # a => request'[b] = request[b]
        /\ SameKind(a)
    BY <1>0, HandlerParts
  <1>2. ~ (driver.on = None /\ driver.sure)
    BY <1>0, <1>1 DEF AloneInv
  <1>3. PICK b \in Admins :
          /\ driver.on = b /\ request'[b].alone
          /\ IF request'[b].op \in {"setup", "reset"} THEN request'[b].pc # "start" ELSE driver.sure
    BY <1>1, <1>2 DEF Trusted
  <1>4. request[b].alone /\ request[b].op = request'[b].op
    BY <1>1, <1>3 DEF SameKind
  <1>5. b = a /\ Running = {a}
    BY <1>0, <1>1, <1>3, <1>4 DEF AloneInv
  <1>6. \A c \in Admins : c # a => admin[c] = Idle
    BY <1>0, <1>5 DEF BaseInv, RequestsOK, Running
  <1>7. Solo(a)
    BY <1>0, <1>1, <1>4, <1>5 DEF SoloInv
  <1>9. ~ serverPanics(a)
    BY <1>0, <1>7, SoloSound
  <1>8. Trusted \/ resetServer(a)
    <2>1. CASE request[a].op \notin {"setup", "reset"}
      BY <1>3, <1>4, <1>5, <2>1 DEF Trusted
    <2>2. CASE request[a].op \in {"setup", "reset"} /\ request[a].pc # "start"
      BY <1>3, <1>4, <1>5, <2>2 DEF Trusted
    <2>3. CASE request[a].op \in {"setup", "reset"} /\ request[a].pc = "start"
      <3>1. request'[a].pc # "start"
        BY <1>3, <1>4, <1>5, <2>3
      <3>2. ~ serverStep(a)
        BY <2>3, <3>1 DEF serverStep, planeVars
      <3> QED
        BY <1>9, <2>3, <3>2 DEF HandlerNext, resetTokens, installToken, createPrimary, rejectPrimary, seedStore,
             refreshAll, activate, createSecondary, setVersion, finish, findActive, applyEmit,
             publishEmit, readState, At
    <2> QED
      BY <2>1, <2>2, <2>3
  <1> QED
    BY <1>3, <1>4, <1>5, <1>6, <1>7, <1>8, <1>9

LEMMA TrustClient ==
  ASSUME NEW s \in Subs, ClientStep(s)
  PROVE  (Trusted' => Trusted) /\ (Pending => Pending')
  <1>1. UNCHANGED <<request, driver>>
    BY ClientParts DEF ClientStep
  <1> QED
    BY <1>1 DEF Trusted, Pending, Running

\* A live subscriber of o that is not stale goes on to show what it will, unless
\* the step tells the subscribers of o.
LEMMA FinalStays ==
  ASSUME BaseInv, BaseInv', ControlNext, NEW s \in Live, NEW o \in Scenes, s \in subscribers[o], ~ stale'[s]
  PROVE  /\ ~ stale[s]
         /\ \/ Final(s)' = Final(s)
            \/ \E a \in Admins : /\ request[a].obj = o
                                 /\ refreshAll(a) \/ \E K \in SUBSET Subs : publishEmit(a, K)
  <1> USE DEF BaseInv
  <1>0. s \in Subs
    BY DEF Subs
  <1>00. /\ created \subseteq Scenes
         /\ \A x \in Scenes : s \in subscribers[x] => x = o
         /\ \A a \in Admins : s \notin admin[a].transit
    BY <1>0, ServerType DEF FlowInv, PinnedInv, OwnInv, OneOwner, Scenes
  <1>1. ASSUME NEW a \in Admins, refreshAll(a), request[a].obj # o
        PROVE  ~ stale[s] /\ Final(s)' = Final(s)
    <2>1. request[a].pc = "refresh" /\ Refreshed(request[a].obj) /\ Carry({}, None) /\ content' = content
      BY <1>1, RefreshParts
    <2>2. request[a].obj \in Scenes
      BY <1>00, <2>1, ObjParts DEF MadeSteps
    <2>3. s \notin subscribers[request[a].obj]
      BY <1>00, <1>1, <2>2
    <2>4. ~ stale[s]
      BY <1>0, <2>1 DEF Refreshed
    <2>5. Final(s)' = Final(s)
      BY <1>0, <2>1, <2>2, <2>3, RefreshData
    <2> QED
      BY <2>4, <2>5
  <1>2. ASSUME NEW a \in Admins, NEW K, publishEmit(a, K), request[a].obj # o
        PROVE  ~ stale[s] /\ Final(s)' = Final(s)
    <2>1. /\ request[a].pc = "publish" /\ emit(request[a].obj, K) /\ Carry(K, Emitted)
          /\ K \in SUBSET subscribers[request[a].obj] /\ content' = content
      BY <1>2, PublishParts
    <2>2. request[a].obj \in Scenes
      BY <1>00, <2>1, ObjParts DEF SceneSteps
    <2>3. s \notin subscribers[request[a].obj]
      BY <1>00, <1>2, <2>2
    <2>4. ~ stale[s]
      BY <1>0, <2>1 DEF emit
    <2>5. Final(s)' = Final(s)
      BY <1>0, <2>1, <2>2, <2>3, EmitData
    <2> QED
      BY <2>4, <2>5
  <1>3. ASSUME NEW a \in Admins, serverStep(a) PROVE ~ stale[s] /\ Final(s)' = Final(s)
    <2>1. content' = content /\ Carry({}, None)
      BY <1>3 DEF serverStep
    <2>2. CASE migrate1(a)
      BY <1>0, <2>1, <2>2, Migrate1Parts, QuietData
    <2>3. CASE migrate2(a)
      <3>1. Final(s)' = Final(s)
        BY <1>0, <1>00, <2>1, <2>3, Migrate2Data
      <3>2. ~ stale[s]
        BY <1>0, <2>3, Migrate2Parts
      <3> QED
        BY <3>1, <3>2
    <2>4. ASSUME NEW x \in Objs, tearDown(a, x) PROVE ~ stale[s] /\ Final(s)' = Final(s)
      BY <1>0, <2>1, <2>4, TearParts, QuietData
    <2> QED
      BY <1>3, <2>2, <2>3, <2>4 DEF serverStep
  <1>12. ASSUME NEW a \in Admins, serverPanics(a) PROVE ~ stale[s] /\ Final(s)' = Final(s)
    <2>1. migrate2Panics(a) /\ Carry({}, None) /\ s \notin admin[a].transit
      BY <1>0, <1>00, <1>12 DEF serverPanics
    <2>2. ~ stale[s]
      BY <1>0, <2>1, PanicsParts
    <2>3. Final(s)' = Final(s)
      BY <1>0, <2>1, PanicsData
    <2> QED
      BY <2>2, <2>3
  <1>4. ASSUME NEW x \in Subs, ClientStep(x) PROVE ~ stale[s]
    BY <1>4, ClientParts DEF ClientStep
  <1>5. ASSUME NEW x \in Subs, subscribeStep(x) PROVE Final(s)' = Final(s)
    <2>1. (checkRejection(x) \/ subscribe(x)) /\ content' = content /\ Carry({}, None)
      BY <1>5 DEF subscribeStep
    <2>2. CASE checkRejection(x)
      <3>1. out' = out
        BY <2>2 DEF checkRejection, subVars
      <3> QED
        BY <1>0, <2>1, <3>1, QuietData
    <2>3. CASE subscribe(x)
      <3>1. conn[x] = "checked"
        BY <2>3 DEF subscribe
      <3>2. x # s
        BY <3>1 DEF FlowInv, PinnedInv, OwnInv, NotYetOwned, Unowned
      <3> QED
        BY <1>0, <2>1, <2>3, <3>2, SubscribeData
    <2> QED
      BY <2>1, <2>2, <2>3
  <1>6. ASSUME NEW x \in Subs, deliverFrame(x) PROVE Final(s)' = Final(s)
    <2>1. deliver(x) /\ Carry({x}, None)
      BY <1>6 DEF deliverFrame
    <2>2. ~ stale[s]
      BY <1>4, <1>6 DEF ClientStep
    <2>3. Counted(s) /\ ~ Waits(out[s])
      BY <1>0, <2>2 DEF Counted, FlowInv, FlowOf, EndsAt
    <2> QED
      BY <1>0, <2>1, <2>3, DeliverData
  <1>7. ASSUME UNCHANGED <<out, data, shown>> PROVE Final(s)' = Final(s)
    BY <1>0, <1>7, DataSame
  <1>8. ASSUME ~ \E a \in Admins : \/ refreshAll(a) \/ serverStep(a) \/ serverPanics(a)
                                  \/ \E K \in SUBSET Subs : publishEmit(a, K)
        PROVE  ~ stale[s]
    <2>1. ASSUME NEW a \in Admins, DriverStep(a) PROVE stale' = stale
      BY <2>1 DEF DriverStep, send, answer, timeout, vars
    <2>2. ASSUME NEW a \in Admins, HandlerNext(a) PROVE stale' = stale
      <3>0. UNCHANGED vars => stale' = stale
        BY DEF vars
      <3>1. ASSUME resetServer(a) PROVE stale' = stale
        BY <3>1, ResetServerParts, ResetParts
      <3>2. ASSUME resetTokens(a) \/ \E p \in DOMAIN TokenRole : installToken(a, p) PROVE stale' = stale
        BY <3>0, <3>2 DEF resetTokens, installToken
      <3>3. ASSUME createPrimary(a) PROVE stale' = stale
        BY <3>3, CreatePrimaryParts, NewSceneParts
      <3>4. ASSUME createSecondary(a) PROVE stale' = stale
        BY <3>4, CreateSecondaryParts, NewSceneParts
      <3>5. ASSUME rejectPrimary(a) PROVE stale' = stale
        BY <3>5 DEF rejectPrimary, Reject, subVars
      <3>6. ASSUME activate(a) PROVE stale' = stale
        BY <3>0, <3>6, ActivateParts, SetActiveParts
      <3>7. ASSUME seedStore(a) \/ applyEmit(a) \/ setVersion(a) \/ finish(a) PROVE stale' = stale
        BY <3>0, <3>7 DEF seedStore, applyEmit, setVersion, finish
      <3>8. ASSUME findActive(a) \/ readState(a) PROVE stale' = stale
        BY <3>0, <3>8 DEF findActive, readState
      <3> HIDE DEF BaseInv
      <3> QED
        BY <1>8, <2>2, <3>1, <3>2, <3>3, <3>4, <3>5, <3>6, <3>7, <3>8, Zenon DEF HandlerNext
    <2> QED
      BY <1>4, <2>1, <2>2, StepKinds
  <1> HIDE DEF BaseInv
  <1>9. ~ stale[s]
    <2>1. ASSUME NEW a \in Admins, refreshAll(a) PROVE ~ stale[s]
      BY <1>0, <2>1 DEF refreshAll
    <2>2. ASSUME NEW a \in Admins, NEW K, publishEmit(a, K) PROVE ~ stale[s]
      BY <1>0, <2>2 DEF publishEmit, emit
    <2> QED
      BY <1>3, <1>8, <1>12, <2>1, <2>2
  <1>10. CASE \E a \in Admins : \/ refreshAll(a) \/ serverStep(a) \/ serverPanics(a)
                              \/ \E K \in SUBSET Subs : publishEmit(a, K)
    BY <1>1, <1>2, <1>3, <1>9, <1>10, <1>12
  <1>11. CASE \E x \in Subs : subscribeStep(x) \/ deliverFrame(x)
    BY <1>5, <1>6, <1>9, <1>11
  <1> QED
    BY <1>7, <1>9, <1>10, <1>11, StepData

\* The steps of a handler outside a call move nobody.
LEMMA HandlerQuiet ==
  ASSUME BaseInv, NEW a \in Admins, HandlerNext(a), ~ serverStep(a), ~ serverPanics(a)
  PROVE  /\ admin[a] = Idle
         /\ UNCHANGED <<subscribers, conn, closed, late, torn, captured, lost>>
         /\ \A s \in Subs : stale[s] => stale'[s]
  <1> USE DEF BaseInv
  <1> DEFINE Same == UNCHANGED <<subscribers, conn, closed, late, torn, captured, lost>>
             Grows == \A s \in Subs : stale[s] => stale'[s]
             Goal == admin[a] = Idle /\ Same /\ Grows
  <1>0. UNCHANGED vars => Same /\ Grows
    BY DEF vars
  <1>1. CASE resetServer(a)
    BY <1>1, ResetServerParts, ResetParts
  <1>2. ASSUME resetTokens(a) \/ \E p \in DOMAIN TokenRole : installToken(a, p) PROVE Goal
    BY <1>0, <1>2 DEF resetTokens, installToken, At
  <1>3. ASSUME createPrimary(a) PROVE Goal
    BY <1>3, CreatePrimaryParts, NewSceneParts
  <1>4. ASSUME createSecondary(a) PROVE Goal
    BY <1>4, CreateSecondaryParts, NewSceneParts
  <1>5. ASSUME rejectPrimary(a) PROVE Goal
    BY <1>5 DEF rejectPrimary, Reject, subVars, handlerVars, panicVars, At
  <1>6. ASSUME activate(a) PROVE Goal
    BY <1>0, <1>6, ActivateParts, SetActiveParts
  <1>7. ASSUME seedStore(a) \/ applyEmit(a) \/ setVersion(a) \/ finish(a) PROVE Goal
    BY <1>0, <1>7 DEF seedStore, applyEmit, setVersion, finish, At
  <1>8. ASSUME findActive(a) \/ readState(a) PROVE Goal
    BY <1>0, <1>8 DEF findActive, readState, At
  <1>9. ASSUME refreshAll(a) PROVE Goal
    BY <1>9 DEF refreshAll, At, handlerVars, panicVars
  <1>10. ASSUME NEW K, publishEmit(a, K) PROVE Goal
    BY <1>10 DEF publishEmit, emit, At, handlerVars, panicVars
  <1> HIDE DEF BaseInv, Goal
  <1>11. Goal
    BY <1>1, <1>2, <1>3, <1>4, <1>5, <1>6, <1>7, <1>8, <1>9, <1>10, Zenon DEF HandlerNext, Goal
  <1> QED
    BY <1>11 DEF Goal

\* Who joins a scene will show what the scene holds.
LEMMA FinalJoins ==
  ASSUME BaseInv, BaseInv', ControlNext, NEW s \in Live, NEW o \in Scenes,
         s \notin subscribers[o], s \in subscribers'[o]
  PROVE  Final(s)' = content'[o]
  <1> USE DEF BaseInv
  <1>0. s \in Subs
    BY DEF Subs
  <1>1. ASSUME NEW a \in Admins, DriverStep(a) PROVE FALSE
    <2>1. subscribers' = subscribers
      BY <1>1 DEF DriverStep, send, answer, timeout, vars
    <2> QED
      BY <2>1
  <1>2. ASSUME NEW a \in Admins, HandlerNext(a) PROVE Final(s)' = content'[o]
    <2>0. ~ serverPanics(a)
      <3> SUFFICES ASSUME serverPanics(a) PROVE FALSE
        OBVIOUS
      <3>1. subscribers' = subscribers
        BY PanicStepParts, PanicsParts
      <3> QED
        BY <3>1
    <2>1. serverStep(a)
      BY <1>2, <2>0, HandlerQuiet
    <2>2. content' = content /\ Carry({}, None)
      BY <2>1 DEF serverStep
    <2>3. ~ migrate1(a)
      <3> SUFFICES ASSUME migrate1(a) PROVE FALSE
        OBVIOUS
      <3>1. \A x \in Scenes : subscribers'[x] \subseteq subscribers[x]
        BY Migrate1Parts
      <3> QED
        BY <3>1
    <2>4. \A x \in Objs : ~ tearDown(a, x)
      <3> SUFFICES ASSUME NEW x \in Objs, tearDown(a, x) PROVE FALSE
        OBVIOUS
      <3>1. \A y \in Scenes : subscribers'[y] \subseteq subscribers[y]
        BY TearParts
      <3> QED
        BY <3>1
    <2>5. migrate2(a)
      BY <2>1, <2>3, <2>4 DEF serverStep
    <2>6. o = admin[a].next /\ s \in Roomy(a)
      <3>1. /\ subscribers'[admin[a].next] = subscribers[admin[a].next] \cup Roomy(a)
            /\ \A x \in Scenes : x # admin[a].next => subscribers'[x] = subscribers[x]
        BY <2>5, Migrate2Parts
      <3> QED
        BY <1>0, <3>1
    <2> QED
      BY <1>0, <2>2, <2>5, <2>6, Migrate2Data
  <1>3. ASSUME NEW x \in Subs, ClientStep(x) PROVE Final(s)' = content'[o]
    <2>1. subscribeStep(x) /\ subscribe(x)
      BY <1>3 DEF ClientStep, authenticate, resolve, resolveScene, subscribeStep, checkRejection,
           deliverFrame, deliver, vars
    <2>2. content' = content /\ Carry({}, None)
      BY <2>1 DEF subscribeStep
    <2>3. x = s /\ captured[s] = o /\ conn'[s] = "run"
      BY <2>1, SubscribeParts
    <2> QED
      BY <2>1, <2>2, <2>3, SubscribeData
  <1> QED
    BY <1>1, <1>2, <1>3, StepKinds

LEMMA NextOnHolding ==
  ASSUME BaseInv, BaseInv', ControlNext, OnHolding
  PROVE  OnHolding'
  <1> SUFFICES ASSUME NEW s \in Live, s \in subscribers'[Holding], ~ stale'[s]
               PROVE  Final(s)' = content'[Holding]
    BY DEF OnHolding
  <1>1. Holding \in Scenes /\ Holding \notin Objs
    BY DistinctAssumption DEF Scenes
  <1>2. created \subseteq Objs /\ created' \subseteq Objs
    <2>1. created \subseteq Objs
      BY ServerType DEF BaseInv
    <2>2. (created \subseteq Objs)'
      BY DEF BaseInv, FlowInv, PinnedInv, OwnInv, Shape, TypeOK
    <2> QED
      BY <2>1, <2>2
  <1>3. content'[Holding] = content[Holding]
    BY <1>1, <1>2 DEF BaseInv, ContentType
  <1>4. CASE s \in subscribers[Holding]
    <2>1. ASSUME NEW a \in Admins, request[a].obj = Holding,
                 refreshAll(a) \/ \E K \in SUBSET Subs : publishEmit(a, K)
          PROVE  FALSE
      <3>1. request[a].pc \in MadeSteps \cup SceneSteps
        BY <2>1 DEF refreshAll, publishEmit, At, MadeSteps, SceneSteps
      <3> QED
        BY <1>1, <1>2, <2>1, <3>1, ObjParts DEF BaseInv
    <2>2. ~ stale[s] /\ Final(s)' = Final(s)
      BY <1>1, <1>4, <2>1, FinalStays
    <2> QED
      BY <1>3, <1>4, <2>2 DEF OnHolding
  <1>5. CASE s \notin subscribers[Holding]
    BY <1>1, <1>5, FinalJoins
  <1> QED
    BY <1>4, <1>5

\* The live subscribers when the live scene is the same and its store too.
LEMMA OnLiveKept ==
  ASSUME BaseInv, BaseInv', ControlNext, OnLive, Trusted, ~ Pending, LiveScene' = LiveScene,
         content'[LiveScene] = content[LiveScene],
         \A a \in Admins : ~ refreshAll(a) /\ \A K \in SUBSET Subs : ~ publishEmit(a, K)
  PROVE  \A s \in Live : s \in subscribers'[LiveScene] /\ ~ stale'[s] => Final(s)' = content'[LiveScene]
  <1> SUFFICES ASSUME NEW s \in Live, s \in subscribers'[LiveScene], ~ stale'[s]
               PROVE  Final(s)' = content'[LiveScene]
    OBVIOUS
  <1>1. LiveScene \in Scenes
    BY ServerType DEF BaseInv
  <1>2. CASE s \in subscribers[LiveScene]
    <2>1. ~ stale[s] /\ Final(s)' = Final(s)
      BY <1>1, <1>2, FinalStays
    <2> QED
      BY <1>2, <2>1 DEF OnLive
  <1>3. CASE s \notin subscribers[LiveScene]
    BY <1>1, <1>3, FinalJoins
  <1> QED
    BY <1>2, <1>3

\* What the step of a trusted handler does to the live scene.
LEMMA LiveMoves ==
  ASSUME CoreInv, NEW a \in Admins, Solo(a), HandlerNext(a)
  PROVE  \/ resetServer(a) /\ LiveScene' = Holding
         \/ /\ createPrimary(a) \/ createSecondary(a)
            /\ LiveScene' # LiveScene => LiveScene' \in Objs \ created
         \/ LiveScene' = LiveScene /\ ~ resetServer(a) /\ ~ createPrimary(a) /\ ~ createSecondary(a)
  <1> USE DEF CoreInv, BaseInv
  <1>0. (UNCHANGED <<scenes, active>> => LiveScene' = LiveScene) /\ None \notin Ids
        /\ (UNCHANGED vars => UNCHANGED <<scenes, active>>)
    BY DistinctAssumption DEF LiveScene, vars
  <1>1. CASE resetServer(a)
    <2>1. active' = None
      BY <1>1, ResetServerParts, ResetParts
    <2> QED
      BY <1>1, <2>1 DEF LiveScene
  <1>2. ASSUME NEW id \in Ids, NewScene(a, id, Fresh)
        PROVE  LiveScene' # LiveScene => LiveScene' \in Objs \ created
    <2>1. /\ Fresh \in Objs \ created
          /\ scenes'[id] = Fresh /\ \A j \in Ids : j # id => scenes'[j] = scenes[j]
          /\ active' = (IF active = None THEN id ELSE active)
      BY <1>2, NewSceneParts
    <2>2. active \in Ids \cup {None}
      BY ServerType
    <2> QED
      BY <1>0, <2>1, <2>2 DEF LiveScene
  <1>3. CASE createPrimary(a)
    BY <1>2, <1>3, CreatePrimaryParts
  <1>4. CASE createSecondary(a)
    BY <1>2, <1>4, CreateSecondaryParts
  <1>5. CASE activate(a)
    <2> DEFINE id == Bundles[request[a].sc][1].id
    <2>1. request[a].pc = "activate" /\ (UNCHANGED vars \/ active # id)
      BY <1>5, ActivateParts
    <2>2. active = id
      BY <2>1 DEF Solo
    <2>3. ~ resetServer(a) /\ ~ createPrimary(a) /\ ~ createSecondary(a)
      BY <2>1 DEF resetServer, createPrimary, createSecondary, At
    <2> QED
      BY <1>0, <2>1, <2>2, <2>3
  <1>6. ASSUME ~ resetServer(a), ~ createPrimary(a), ~ createSecondary(a), ~ activate(a)
        PROVE  LiveScene' = LiveScene
    <2>1. ASSUME serverStep(a) PROVE UNCHANGED <<scenes, active>>
      BY <2>1, ServerStepParts
    <2>9. ASSUME serverPanics(a) PROVE UNCHANGED <<scenes, active>>
      BY <2>9, PanicStepParts
    <2>2. ASSUME resetTokens(a) \/ \E p \in DOMAIN TokenRole : installToken(a, p)
          PROVE  UNCHANGED <<scenes, active>>
      BY <1>0, <2>2 DEF resetTokens, installToken
    <2>3. ASSUME rejectPrimary(a) PROVE UNCHANGED <<scenes, active>>
      BY <2>3 DEF rejectPrimary, Reject
    <2>4. ASSUME seedStore(a) \/ applyEmit(a) \/ setVersion(a) \/ finish(a) PROVE UNCHANGED <<scenes, active>>
      BY <1>0, <2>4 DEF seedStore, applyEmit, setVersion, finish
    <2>5. ASSUME findActive(a) \/ readState(a) PROVE UNCHANGED <<scenes, active>>
      BY <1>0, <2>5 DEF findActive, readState
    <2>6. ASSUME refreshAll(a) PROVE UNCHANGED <<scenes, active>>
      BY <2>6 DEF refreshAll, sceneVars
    <2>7. ASSUME NEW K, publishEmit(a, K) PROVE UNCHANGED <<scenes, active>>
      BY <2>7 DEF publishEmit, emit, sceneVars
    <2> HIDE DEF CoreInv, BaseInv
    <2>8. UNCHANGED <<scenes, active>>
      BY <1>6, <2>1, <2>2, <2>3, <2>4, <2>5, <2>6, <2>7, <2>9, Zenon DEF HandlerNext
    <2> QED
      BY <1>0, <2>8
  <1> QED
    BY <1>1, <1>3, <1>4, <1>5, <1>6

LEMMA NextOnLive ==
  ASSUME CoreInv, BaseInv', ControlNext, ClientsInv, OnHolding'
  PROVE  OnLive'
  <1> SUFFICES ASSUME Trusted', ~ Pending'
               PROVE  \A s \in Live : s \in subscribers'[LiveScene'] /\ ~ stale'[s] =>
                        Final(s)' = content'[LiveScene']
    BY DEF OnLive
  <1>0. BaseInv /\ OnLive /\ LiveScene \in Scenes
    BY ServerType DEF CoreInv, BaseInv, ClientsInv
  <1>1. ASSUME NEW a \in Admins, DriverStep(a)
        PROVE  \A s \in Live : s \in subscribers'[LiveScene'] /\ ~ stale'[s] =>
                 Final(s)' = content'[LiveScene']
    <2>1. Trusted /\ ~ Pending /\ UNCHANGED <<vars, content, data, shown>>
      BY <1>1, TrustDriver
    <2>2. UNCHANGED <<LiveScene, subscribers, stale, content, data, shown>>
      BY <2>1 DEF vars, LiveScene
    <2> QED
      BY <1>0, <2>1, <2>2 DEF OnLive, Final
  <1>2. ASSUME NEW s \in Subs, ClientStep(s)
        PROVE  \A x \in Live : x \in subscribers'[LiveScene'] /\ ~ stale'[x] =>
                 Final(x)' = content'[LiveScene']
    <2>1. Trusted /\ ~ Pending
      BY <1>2, TrustClient
    <2>2. /\ LiveScene' = LiveScene /\ content' = content /\ request' = request
      BY <1>2, ClientParts DEF ClientStep, LiveScene
    <2>3. \A a \in Admins : ~ refreshAll(a) /\ \A K \in SUBSET Subs : ~ publishEmit(a, K)
      <3> SUFFICES ASSUME NEW a \in Admins, refreshAll(a) \/ \E K \in SUBSET Subs : publishEmit(a, K)
                   PROVE  FALSE
        OBVIOUS
      <3>1. request'[a].pc # request[a].pc
        BY RefreshParts, PublishParts DEF CoreInv, BaseInv
      <3> QED
        BY <2>2, <3>1
    <2> QED
      BY <1>0, <2>1, <2>2, <2>3, OnLiveKept
  <1>3. ASSUME NEW a \in Admins, HandlerNext(a)
        PROVE  \A s \in Live : s \in subscribers'[LiveScene'] /\ ~ stale'[s] =>
                 Final(s)' = content'[LiveScene']
    <2>1. Running = {a} /\ Solo(a) /\ (Trusted \/ resetServer(a)) /\ ~ serverPanics(a)
      BY <1>3, TrustHandler
    <2>2. CASE resetServer(a) /\ LiveScene' = Holding
      BY <2>2 DEF OnHolding
    <2>3. CASE refreshAll(a)
      <3>1. /\ request[a].pc = "refresh" /\ Refreshed(request[a].obj) /\ Carry({}, None) /\ content' = content
        BY <2>3, RefreshParts DEF CoreInv, BaseInv
      <3>2. LiveScene' = LiveScene /\ subscribers' = subscribers
        BY <3>1 DEF Refreshed, sceneVars, LiveScene
      <3>3. request[a].obj = LiveScene
        <4>1. request[a].obj = scenes[active] /\ active = Bundles[request[a].sc][1].id
          BY <2>1, <3>1 DEF Solo
        <4>2. active \in Ids /\ None \notin Ids
          BY <3>1, <4>1, SetupParts, BundleParts, DistinctAssumption DEF CoreInv, BaseInv
        <4> QED
          BY <4>1, <4>2 DEF LiveScene
      <3>4. \A s \in Subs : s \in subscribers[LiveScene] /\ ~ stale'[s] => Final(s)' = content[LiveScene]
        BY <1>0, <3>1, <3>3, RefreshData DEF BaseInv
      <3> QED
        BY <3>1, <3>2, <3>4 DEF Subs
    <2>4. ASSUME NEW K, publishEmit(a, K)
          PROVE  \A s \in Live : s \in subscribers'[LiveScene'] /\ ~ stale'[s] =>
                   Final(s)' = content'[LiveScene']
      <3>1. /\ request[a].pc = "publish" /\ emit(request[a].obj, K) /\ Carry(K, Emitted) /\ content' = content
            /\ K \in SUBSET subscribers[request[a].obj]
        BY <2>4, PublishParts DEF CoreInv, BaseInv
      <3>2. LiveScene' = LiveScene /\ subscribers' = subscribers
        BY <3>1 DEF emit, sceneVars, LiveScene
      <3>3. request[a].obj = LiveScene /\ content[LiveScene] = Emitted
        BY <2>1, <3>1 DEF Solo, SceneSteps, LiveScene
      <3>4. \A s \in Subs : s \in subscribers[LiveScene] /\ ~ stale'[s] => Final(s)' = content[LiveScene]
        BY <1>0, <3>1, <3>3, EmitData DEF BaseInv
      <3> QED
        BY <3>1, <3>2, <3>4 DEF Subs
    <2>5. CASE seedStore(a) \/ applyEmit(a)
      <3>1. request'[a].pc \in {"refresh", "publish"}
        BY <2>5, SeedParts, ApplyParts DEF CoreInv, BaseInv
      <3> QED
        BY <3>1 DEF Pending, Running
    <2>6. CASE LiveScene' # LiveScene /\ LiveScene' \in Objs \ created /\ subscribers' = subscribers
      BY <2>6 DEF CoreInv, BaseInv, RegistryInv, Untouched
    <2>7. CASE /\ LiveScene' = LiveScene /\ ~ resetServer(a) /\ ~ refreshAll(a) /\ ~ seedStore(a) /\ ~ applyEmit(a)
               /\ \A K \in SUBSET Subs : ~ publishEmit(a, K)
      <3>1. content' = content
        <4>1. ASSUME NEW b \in Admins, seedStore(b) \/ applyEmit(b) PROVE b = a
          BY <2>1, <4>1 DEF seedStore, applyEmit, At, Running
        <4> QED
          BY <1>0, <2>7, <4>1, StepContent
      <3>2. \A b \in Admins : ~ refreshAll(b) /\ \A K \in SUBSET Subs : ~ publishEmit(b, K)
        <4> SUFFICES ASSUME NEW b \in Admins, refreshAll(b) \/ \E K \in SUBSET Subs : publishEmit(b, K)
                     PROVE  b = a
          BY <2>7
        <4> QED
          BY <2>1 DEF refreshAll, publishEmit, At, Running
      <3>3. ~ Pending
        <4> SUFFICES ASSUME request[a].pc \in {"refresh", "publish"} PROVE FALSE
          BY <2>1 DEF Pending
        <4>1. serverStep(a)
          BY <1>3, <2>1, <2>7 DEF HandlerNext, resetServer, resetTokens, installToken, createPrimary,
               rejectPrimary, activate, createSecondary, setVersion, finish, findActive, readState, At
        <4>2. request' = request
          BY <4>1 DEF serverStep, planeVars
        <4> QED
          BY <2>1, <4>2 DEF Pending, Running
      <3> QED
        BY <1>0, <2>1, <2>7, <3>1, <3>2, <3>3, OnLiveKept
    <2>8. \/ resetServer(a) /\ LiveScene' = Holding
          \/ /\ createPrimary(a) \/ createSecondary(a)
             /\ LiveScene' # LiveScene => LiveScene' \in Objs \ created
          \/ LiveScene' = LiveScene /\ ~ resetServer(a) /\ ~ createPrimary(a) /\ ~ createSecondary(a)
      BY <1>3, <2>1, LiveMoves
    <2>9. createPrimary(a) \/ createSecondary(a) =>
            /\ subscribers' = subscribers /\ ~ resetServer(a) /\ ~ refreshAll(a) /\ ~ seedStore(a) /\ ~ applyEmit(a)
            /\ \A K \in SUBSET Subs : ~ publishEmit(a, K)
      <3> SUFFICES ASSUME createPrimary(a) \/ createSecondary(a)
                   PROVE /\ subscribers' = subscribers
                         /\ ~ resetServer(a) /\ ~ refreshAll(a) /\ ~ seedStore(a) /\ ~ applyEmit(a)
                         /\ \A K \in SUBSET Subs : ~ publishEmit(a, K)
        OBVIOUS
      <3>1. request[a].pc \in {"create", "second"} /\ admin[a] = Idle
        BY DEF createPrimary, createSecondary, At
      <3>2. ~ serverStep(a)
        BY <1>0, <3>1, ServerStepParts DEF BaseInv
      <3>3. subscribers' = subscribers
        BY <1>0, <1>3, <2>1, <3>2, HandlerQuiet
      <3> QED
        BY <3>1, <3>3 DEF resetServer, refreshAll, seedStore, applyEmit, publishEmit, At
    <2> QED
      BY <2>2, <2>3, <2>4, <2>5, <2>6, <2>7, <2>8, <2>9
  <1> QED
    BY <1>1, <1>2, <1>3, StepKinds

\* Who is reached stays so while the scenes, the calls and the members do.
LEMMA ReachedGrows ==
  ASSUME FlowInv, UNCHANGED <<scenes, active, admin>>, NEW s \in Subs, Reached(s),
         \A o \in Scenes : s \in subscribers[o] => s \in subscribers'[o]
  PROVE  Reached(s)'
  <1>1. LiveScene \in Scenes /\ Objs \subseteq Scenes /\ LiveScene' = LiveScene /\ Tearing' = Tearing
        /\ Tearing \subseteq Objs
    BY ServerType DEF Scenes, LiveScene, Tearing
  <1>2. \A a \in Admins : admin[a].pc = "migrate1" => admin[a].prev \in Scenes
    BY DEF FlowInv, PinnedInv, OwnInv, Shape, AdminShape
  <1>3. CASE s \in subscribers[LiveScene]
    BY <1>1, <1>3 DEF Reached, Follows
  <1>4. CASE \E a \in Admins : admin[a].pc = "migrate1" /\ s \in subscribers[admin[a].prev]
    BY <1>2, <1>4 DEF Reached, Follows
  <1>5. CASE \E a \in Admins : admin[a].pc = "migrate2" /\ s \in admin[a].transit
    BY <1>5 DEF Reached, Follows
  <1>6. CASE \E o \in Tearing : s \in subscribers[o]
    BY <1>1, <1>6 DEF Reached
  <1> QED
    BY <1>3, <1>4, <1>5, <1>6 DEF Reached, Follows

\* When no handler is in a call, reached is on the live scene.
LEMMA ReachedIdle ==
  ASSUME FlowInv, \A a \in Admins : admin[a] = Idle, NEW s \in Subs, Reached(s)
  PROVE  s \in subscribers[LiveScene]
  BY IdleParts DEF Reached, Follows, Tearing

\* The steps of a client.
LEMMA ClientFollowed ==
  ASSUME CoreInv, Followed, Trusted, NEW x \in Subs, ClientStep(x), NEW s \in Live,
         conn'[s] = "run", ~ closed'[s], ~ stale'[s], ~ late'[s], s \notin lost
  PROVE  Reached(s)'
  <1>0. /\ UNCHANGED <<scenes, active, admin, closed, stale>> /\ s \in Subs /\ FlowInv
        /\ LiveScene' = LiveScene /\ LiveScene \in Scenes
    BY ClientParts, ServerType DEF ClientStep, Subs, CoreInv, BaseInv, LiveScene
  <1>1. CASE subscribe(x)
    <2>1. subscribe(x)
      BY <1>1
    <2>2. CASE x = s
      <3>1. s \in subscribers'[captured[s]] /\ captured[s] = LiveScene
        BY <1>0, <2>1, <2>2, SubscribeParts
      <3> QED
        BY <1>0, <3>1 DEF Reached, Follows
    <2>3. CASE x # s
      <3>1. conn[s] = "run" /\ ~ late[s]
        BY <1>0, <2>1, <2>3, SubscribeParts
      <3>2. \A o \in Scenes : s \in subscribers[o] => s \in subscribers'[o]
        BY <1>0, <2>1, SubscribeParts
      <3>3. Reached(s)
        BY <1>0, <3>1 DEF Followed
      <3> QED
        BY <1>0, <3>2, <3>3, ReachedGrows
    <2> QED
      BY <2>2, <2>3
  <1>2. CASE ~ subscribe(x)
    <2>1. UNCHANGED <<subscribers, late>> /\ (conn'[s] = "run" => conn[s] = "run")
      <3>1. conn \in [Subs -> {"off", "resolved", "checked", "run", "closing", "detaching",
                       "gone", "panicked"}]
        BY <1>0 DEF FlowInv, PinnedInv, OwnInv, Shape, TypeOK
      <3>2. CASE authenticate(x)
        BY <3>2 DEF authenticate, vars
      <3>3. CASE resolve(x)
        BY <1>0, <3>1, <3>3 DEF resolve, resolveScene, vars, subVars
      <3>4. CASE subscribeStep(x)
        BY <1>0, <1>2, <3>1, <3>4 DEF subscribeStep, checkRejection, subVars
      <3>5. CASE deliverFrame(x)
        BY <3>5 DEF deliverFrame, deliver, handlerVars
      <3> QED
        BY <3>2, <3>3, <3>4, <3>5 DEF ClientStep
    <2>2. Reached(s)
      BY <1>0, <2>1 DEF Followed
    <2> QED
      BY <1>0, <2>1, <2>2, ReachedGrows
  <1> QED
    BY <1>1, <1>2

\* The rest of a call: the live subscribers travel to the live scene, or are closed.
LEMMA CallFollowed ==
  ASSUME FlowInv, NEW a \in Admins, serverStep(a), \A b \in Admins : b # a => admin[b] = Idle,
         admin[a].pc \in {"migrate1", "migrate2"} => admin[a].next = LiveScene,
         NEW s \in Live, Reached(s), ~ closed'[s], ~ stale'[s]
  PROVE  Reached(s)'
  <1>0. /\ s \in Subs /\ LiveScene \in Scenes /\ Objs \subseteq Scenes /\ Tearing \subseteq Objs
        /\ \A b \in Admins : b # a => admin'[b] = Idle
        /\ LiveScene' = LiveScene
    BY ServerType, ServerStepParts DEF Subs, Scenes, Tearing, LiveScene
  <1>1. /\ Idle.pc = "idle" /\ Idle.tear = {} /\ Idle.transit = {}
    BY IdleParts
  <1>2. \/ s \in subscribers[LiveScene]
        \/ admin[a].pc = "migrate1" /\ s \in subscribers[admin[a].prev]
        \/ admin[a].pc = "migrate2" /\ s \in admin[a].transit
        \/ \E o \in Objs : o \in admin[a].tear /\ s \in subscribers[o]
    BY <1>1 DEF Reached, Follows, Tearing
  <1>3. ASSUME NEW o \in Objs, o \in admin'[a].tear, s \in subscribers'[o] PROVE Reached(s)'
    BY <1>3 DEF Reached, Tearing
  <1>4. ASSUME s \in subscribers'[LiveScene] PROVE Reached(s)'
    BY <1>0, <1>4 DEF Reached, Follows
  <1>5. CASE migrate1(a)
    <2> DEFINE prev == admin[a].prev
               live == subscribers[prev] \cap Live
    <2>1. /\ admin[a].pc = "migrate1" /\ prev \in Scenes
          /\ \A o \in Scenes : o # prev => subscribers'[o] = subscribers[o]
          /\ admin'[a].tear = admin[a].tear /\ admin'[a].transit = live
          /\ live # {} => admin'[a].pc = "migrate2"
      BY <1>5, Migrate1Parts
    <2>2. CASE s \in subscribers[prev]
      <3>1. admin'[a].pc = "migrate2" /\ s \in admin'[a].transit
        BY <2>1, <2>2
      <3> QED
        BY <3>1 DEF Reached, Follows
    <2>3. CASE s \notin subscribers[prev]
      <3>1. \A o \in Scenes : s \in subscribers[o] => s \in subscribers'[o]
        BY <2>1, <2>3
      <3> QED
        BY <1>0, <1>2, <1>3, <1>4, <2>1, <2>3, <3>1
    <2> QED
      BY <2>2, <2>3
  <1>6. CASE migrate2(a)
    <2>1. /\ admin[a].pc = "migrate2" /\ admin[a].next = LiveScene
          /\ subscribers'[admin[a].next] = subscribers[admin[a].next] \cup Roomy(a)
          /\ \A o \in Scenes : o # admin[a].next => subscribers'[o] = subscribers[o]
          /\ \A x \in Subs : stale'[x] <=> stale[x] \/ x \in admin[a].transit \ Roomy(a)
          /\ admin'[a].tear = admin[a].tear
      BY <1>6, Migrate2Parts
    <2>2. \A o \in Scenes : s \in subscribers[o] => s \in subscribers'[o]
      BY <2>1
    <2>3. s \in admin[a].transit => s \in subscribers'[LiveScene]
      BY <1>0, <2>1
    <2> QED
      BY <1>0, <1>2, <1>3, <1>4, <2>1, <2>2, <2>3
  <1>7. ASSUME NEW x \in Objs, tearDown(a, x) PROVE Reached(s)'
    <2>1. /\ admin[a].pc = "tear"
          /\ \A y \in Subs : closed'[y] <=> closed[y] \/ y \in subscribers[x]
          /\ \A o \in Scenes : o # x => subscribers'[o] = subscribers[o]
          /\ admin'[a].tear = admin[a].tear \ {x}
      BY <1>7, TearParts
    <2>2. s \notin subscribers[x]
      BY <1>0, <2>1
    <2>3. \A o \in Scenes : s \in subscribers[o] => o # x /\ s \in subscribers'[o]
      BY <2>1, <2>2
    <2> QED
      BY <1>0, <1>2, <1>3, <1>4, <2>1, <2>3
  <1> QED
    BY <1>5, <1>6, <1>7 DEF serverStep

\* A scene is registered: the members of the live scene stay, are about to
\* travel from holding, or about to be closed with the object it replaces.
LEMMA NewSceneFollowed ==
  ASSUME FlowInv, Filed, NEW a \in Admins, NEW id \in Ids, NEW o, NewScene(a, id, o),
         NEW s \in Subs, s \in subscribers[LiveScene]
  PROVE  Reached(s)'
  <1>0. active \in Ids \cup {None} /\ None \notin Ids /\ scenes \in [Ids -> Objs \cup {None}] /\ None \notin Objs
        /\ (active # None => LiveScene = scenes[active]) /\ (active = None => LiveScene = Holding)
        /\ (active # None => LiveScene \in Registered)
    BY ServerType, DistinctAssumption DEF Scenes
  <1>1. /\ scenes'[id] = o /\ \A j \in Ids : j # id => scenes'[j] = scenes[j]
        /\ active' = (IF active = None THEN id ELSE active)
        /\ (admin'[a].pc = "migrate1" <=> active = None)
        /\ admin'[a].pc = "migrate1" => admin'[a].prev = Holding
        /\ subscribers' = subscribers
    BY NewSceneParts
  <1>2. CASE active = None
    <2>1. admin'[a].pc = "migrate1" /\ s \in subscribers'[admin'[a].prev]
      BY <1>0, <1>1, <1>2
    <2> QED
      BY <2>1 DEF Reached, Follows
  <1>3. CASE active = id
    <2>1. LiveScene \in Tearing'
      <3>1. Tearing' = Tearing \cup ({scenes[id]} \ {None})
        BY NewSceneSets
      <3>2. LiveScene = scenes[id] /\ LiveScene # None
        BY <1>0, <1>3 DEF Registered
      <3> QED
        BY <3>1, <3>2
    <2> QED
      BY <1>1, <2>1 DEF Reached
  <1>4. CASE active # None /\ active # id
    <2>1. LiveScene' = LiveScene
      BY <1>0, <1>1, <1>4 DEF LiveScene
    <2> QED
      BY <1>1, <2>1 DEF Reached, Follows
  <1> QED
    BY <1>2, <1>3, <1>4

LEMMA HandlerFollowed ==
  ASSUME CoreInv, Followed, NEW a \in Admins, HandlerNext(a), Trusted', NEW s \in Live,
         conn'[s] = "run", ~ closed'[s], ~ stale'[s], ~ late'[s], s \notin lost'
  PROVE  Reached(s)'
  <1>0. /\ s \in Subs /\ FlowInv /\ RequestsOK /\ RegistryInv /\ Filed /\ BaseInv
    BY DEF Subs, CoreInv, BaseInv, RegistryInv
  <1>1. /\ Running = {a} /\ Solo(a) /\ (Trusted \/ resetServer(a)) /\ ~ serverPanics(a)
        /\ \A b \in Admins : b # a => admin[b] = Idle
    BY TrustHandler
  <1>2. CASE serverStep(a)
    <2>1. admin[a] # Idle /\ UNCHANGED <<conn, late, lost>>
      BY <1>0, <1>2, ServerStepParts
    <2>2. Trusted
      BY <1>1, <2>1 DEF resetServer, At
    <2>3. (closed[s] => closed'[s]) /\ (stale[s] => stale'[s])
      <3>1. CASE migrate1(a)
        BY <1>0, <3>1, Migrate1Parts
      <3>2. CASE migrate2(a)
        BY <1>0, <3>2, Migrate2Parts
      <3>3. ASSUME NEW x \in Objs, tearDown(a, x) PROVE (closed[s] => closed'[s]) /\ (stale[s] => stale'[s])
        BY <1>0, <3>3, TearParts
      <3> QED
        BY <1>2, <3>1, <3>2, <3>3 DEF serverStep
    <2>4. Reached(s)
      BY <2>1, <2>2, <2>3 DEF Followed
    <2>5. admin[a].pc \in {"migrate1", "migrate2"} => admin[a].next = LiveScene
      BY <1>1 DEF Solo
    <2> QED
      BY <1>0, <1>1, <1>2, <2>4, <2>5, CallFollowed
  <1>3. CASE ~ serverStep(a)
    <2>1. /\ admin[a] = Idle /\ UNCHANGED <<subscribers, conn, closed, late>>
          /\ ~ stale[s] /\ s \notin lost
      BY <1>0, <1>1, <1>3, HandlerQuiet
    <2>2. \A b \in Admins : admin[b] = Idle
      BY <1>1, <2>1
    <2>3. CASE resetServer(a)
      <3>1. Housed(s)
        BY <1>0, <2>1 DEF RegistryInv, AllHoused
      <3>2. PICK o \in Registered \cup {Holding} : s \in subscribers[o]
        BY <2>2, <3>1, IdleParts DEF Housed, Tearing
      <3>3. Tearing' = Tearing \cup Registered /\ active' = None
        BY <1>0, <2>3, ResetServerParts, ResetSets, ResetParts
      <3>4. CASE o = Holding
        BY <2>1, <3>2, <3>3, <3>4 DEF Reached, Follows, LiveScene
      <3>5. CASE o \in Registered
        BY <2>1, <3>2, <3>3, <3>5 DEF Reached
      <3> QED
        BY <3>2, <3>4, <3>5
    <2>4. CASE ~ resetServer(a)
      <3>1. Reached(s)
        BY <1>1, <2>1, <2>4 DEF Followed
      <3>2. s \in subscribers[LiveScene]
        BY <1>0, <2>2, <3>1, ReachedIdle
      <3>3. CASE createPrimary(a)
        BY <1>0, <3>2, <3>3, CreatePrimaryParts, NewSceneFollowed
      <3>4. CASE createSecondary(a)
        BY <1>0, <3>2, <3>4, CreateSecondaryParts, NewSceneFollowed
      <3>5. CASE ~ createPrimary(a) /\ ~ createSecondary(a)
        <4>1. LiveScene' = LiveScene
          BY <1>1, <2>4, <3>5, LiveMoves
        <4> QED
          BY <2>1, <3>2, <4>1 DEF Reached, Follows
      <3> QED
        BY <3>3, <3>4, <3>5
    <2> QED
      BY <2>3, <2>4
  <1> QED
    BY <1>2, <1>3

LEMMA NextFollowed ==
  ASSUME CoreInv, ControlNext, Followed
  PROVE  Followed'
  <1> SUFFICES ASSUME Trusted', NEW s \in Live, conn'[s] = "run", ~ closed'[s], ~ stale'[s], ~ late'[s],
                      s \notin lost'
               PROVE  Reached(s)'
    BY DEF Followed
  <1>1. ASSUME NEW a \in Admins, DriverStep(a) PROVE Reached(s)'
    <2>1. Trusted /\ UNCHANGED vars
      BY <1>1, TrustDriver
    <2>2. UNCHANGED <<scenes, active, admin, subscribers, conn, closed, stale, late, lost>>
      BY <2>1 DEF vars
    <2>3. Reached(s) /\ s \in Subs
      BY <2>1, <2>2 DEF Followed, Subs
    <2> QED
      BY <2>2, <2>3, ReachedGrows DEF CoreInv, BaseInv
  <1>2. ASSUME NEW a \in Admins, HandlerNext(a) PROVE Reached(s)'
    BY <1>2, HandlerFollowed
  <1>3. ASSUME NEW x \in Subs, ClientStep(x) PROVE Reached(s)'
    <2>1. lost' = lost
      BY <1>3, ClientParts DEF ClientStep
    <2> QED
      BY <1>3, <2>1, TrustClient, ClientFollowed
  <1> QED
    BY <1>1, <1>2, <1>3, StepKinds

LEMMA ClientsStutter ==
  ASSUME ClientsInv, UNCHANGED allVars
  PROVE  ClientsInv'
  <1>1. /\ UNCHANGED <<subscribers, stale, closed, conn, late, lost, admin, data, shown, content, request, driver>>
        /\ LiveScene' = LiveScene /\ Tearing' = Tearing /\ Running' = Running
    BY StutterParts
  <1>2. (Trusted' <=> Trusted) /\ (Pending' <=> Pending)
    BY <1>1 DEF Trusted, Pending
  <1>3. \A s \in Live : (Reached(s)' <=> Reached(s)) /\ Final(s)' = Final(s)
    BY <1>1 DEF Reached, Follows, Final
  <1>4. OnHolding'
    BY <1>1, <1>3 DEF ClientsInv, OnHolding
  <1>5. OnLive'
    BY <1>1, <1>2, <1>3 DEF ClientsInv, OnLive
  <1>6. Followed'
    BY <1>1, <1>2, <1>3 DEF ClientsInv, Followed
  <1> QED
    BY <1>4, <1>5, <1>6 DEF ClientsInv

LEMMA InitClients == ControlInit => ClientsInv
  <1> SUFFICES ASSUME ControlInit PROVE ClientsInv
    OBVIOUS
  <1>1. /\ \A s \in Live : conn[s] = "off"
        /\ \A o \in Scenes : subscribers[o] = {}
    BY InitParts DEF Subs
  <1>2. Holding \in Scenes /\ LiveScene = Holding
    BY InitParts DEF Scenes, LiveScene
  <1> QED
    BY <1>1, <1>2 DEF ClientsInv, OnHolding, OnLive, Followed

LEMMA ClientsInvariant == ControlSpec => [](CoreInv /\ ClientsInv)
  <1>1. CoreInv /\ ClientsInv /\ [ControlNext]_allVars => (CoreInv /\ ClientsInv)'
    <2> SUFFICES ASSUME CoreInv, ClientsInv, [ControlNext]_allVars
                 PROVE  CoreInv' /\ ClientsInv'
      OBVIOUS
    <2>1. CASE ControlNext
      <3>1. CoreInv' /\ BaseInv /\ BaseInv'
        BY <2>1, NextCore DEF CoreInv
      <3>2. OnHolding'
        BY <2>1, <3>1, NextOnHolding DEF ClientsInv
      <3>3. OnLive'
        BY <2>1, <3>1, <3>2, NextOnLive
      <3>4. Followed'
        BY <2>1, NextFollowed DEF ClientsInv
      <3> QED
        BY <3>1, <3>2, <3>3, <3>4 DEF ClientsInv
    <2>2. CASE UNCHANGED allVars
      BY <2>2, CoreStutter, ClientsStutter
    <2> QED
      BY <2>1, <2>2
  <1>2. ControlInit => CoreInv /\ ClientsInv
    BY InitCore, InitClients
  <1> QED
    BY <1>1, <1>2, PTL DEF ControlSpec

\* A live client that came at any moment of a setup ends up showing the state of
\* the active scene, however the setup's steps and the client's interleaved:
\* once the driver has the answers it waited for and is sure of them, every
\* call of the server is over, whoever is reached is on the live scene, and the
\* last frame queued for it says what the store holds.  Not so the clients whose
\* queue was closed, that were marked stale, or that a migration lost when it
\* panicked before; who joins after that panic is included.
THEOREM ClientsShowTheScene == ControlSpec => []ClientsCatchUp
  <1>1. ASSUME CoreInv, ClientsInv PROVE ClientsCatchUp
    <2> SUFFICES ASSUME driver.on = None, driver.sure, NEW s \in Live, conn[s] = "run", ~ closed[s],
                        ~ stale[s], ~ late[s], s \notin lost, out[s] = <<>>
                 PROVE  shown[s] = content[LiveScene]
      BY DEF ClientsCatchUp
    <2>1. Running = {} /\ Trusted /\ s \in Subs
      BY <1>1 DEF CoreInv, AloneInv, Trusted, Subs
    <2>2. \A a \in Admins : admin[a] = Idle
      <3>1. RequestsOK
        BY <1>1 DEF CoreInv, BaseInv
      <3> QED
        BY <2>1, <3>1 DEF RequestsOK, Running
    <2>3. s \in subscribers[LiveScene]
      <3>1. Reached(s)
        BY <1>1, <2>1 DEF ClientsInv, Followed
      <3> QED
        BY <1>1, <2>1, <2>2, <3>1, ReachedIdle DEF CoreInv, BaseInv
    <2>4. Final(s) = content[LiveScene]
      BY <1>1, <2>1, <2>3 DEF ClientsInv, OnLive, Pending
    <2>5. data[s] = <<>>
      <3>1. data[s] \in Seq(States) /\ Len(data[s]) = 0
        BY <1>1, <2>1 DEF CoreInv, BaseInv, DataType, Said
      <3> QED
        BY <3>1
    <2> QED
      BY <2>4, <2>5 DEF Final
  <1> QED
    BY <1>1, ClientsInvariant, PTL

-----------------------------------------------------------------------------
(* What the driver knows. *)

\* The bundles of a scenario have different scene ids.  Nothing in handleSetup
\* sees to it: a second bundle under the id of the first replaces its scene.
DistinctBundles ==
  \A k \in Scenarios : \A m, n \in 1 .. Len(Bundles[k]) : Bundles[k][m].id = Bundles[k][n].id => m = n

\* The accepted tokens are those of the placeholders R of k, with their roles.
TokensOf(k, R) ==
  /\ {t \in TokenValues : tokens[t] # None} = {Tokens[k][p] : p \in R}
  /\ \A p \in R : \E q \in R : Tokens[k][q] = Tokens[k][p] /\ tokens[Tokens[k][p]] = TokenRole[q]

Installed(k) == TokensOf(k, Recognised(k))

Blank == \A t \in TokenValues : tokens[t] = None

\* The first n bundles of k are the registered scenes, the first one active ...
BundlesUpTo(k, n) ==
  /\ active = Bundles[k][1].id
  /\ {i \in Ids : scenes[i] # None} = {Bundles[k][m].id : m \in 1 .. n}

\* ... with the versions it gave.
VersionsUpTo(k, n) ==
  \A m \in 1 .. n : scenes[Bundles[k][m].id] \in pinned <=> Bundles[k][m].pinned

\* The primary scene is rejected if it has to be.
Judged(k) == LiveScene \in rejected <=> k \in Malformed

\* The server is set up for k and in state st, or empty if there is no scenario.
Known(k, st) ==
  IF k = None THEN active = None /\ planeActive = None /\ Blank
  ELSE Established(k) /\ content[LiveScene] = st

\* How far the setup or reset r has come.
SetupAt(r) ==
  LET k == r.sc
  IN  /\ r.pc = "install" => TokensOf(k, Recognised(k) \ r.left)
      /\ r.pc \in {"create"} \cup MadeSteps => Installed(k)
      /\ r.pc \in MadeSteps => BundlesUpTo(k, r.at)
      /\ r.pc \in MadeSteps \ {"version"} => VersionsUpTo(k, r.at)
      /\ r.pc = "version" => /\ VersionsUpTo(k, r.at - 1) /\ Bundles[k][r.at].pinned
                             /\ scenes[Bundles[k][r.at].id] = r.obj
      /\ r.pc = "reject" => k \in Malformed /\ content[LiveScene] = Empty
      /\ r.pc \in MadeSteps \ {"reject"} => Judged(k)
      /\ r.pc \in MadeSteps \ {"reject", "set"} => content[LiveScene] = Seed[k]
      /\ r.pc = "finish" /\ k = None => active = None /\ Blank
      /\ r.pc = "finish" /\ k # None =>
           /\ Installed(k) /\ BundlesUpTo(k, Len(Bundles[k])) /\ VersionsUpTo(k, Len(Bundles[k]))
           /\ Judged(k) /\ content[LiveScene] = Seed[k]
      /\ r.pc = "done" /\ r.status = "ok" => Known(k, IF k = None THEN Empty ELSE Seed[k])

\* What the emit or state request r finds, when the driver was sure.
AskAt(r) ==
  LET k == driver.scenario
  IN  /\ r.pc \in {"find", "apply", "read"} => Known(k, driver.state)
      /\ r.pc \in SceneSteps => k # None
      /\ r.pc = "publish" => Known(k, Emitted)
      /\ r.pc = "done" => Known(k, IF r.status = "ok" /\ r.op = "emit" THEN Emitted ELSE driver.state)
      /\ r.pc = "done" /\ r.status = "ok" /\ r.op = "state" => r.reply = driver.state

KnowInv ==
  /\ \A a \in Admins : driver.on = a =>
       /\ driver.reply = None
       /\ request[a].alone /\ request[a].op \in {"setup", "reset"} => SetupAt(request[a])
       /\ request[a].alone /\ request[a].op \in {"emit", "state"} /\ driver.sure => AskAt(request[a])
  /\ driver.on = None /\ driver.sure =>
       /\ Known(driver.scenario, driver.state)
       /\ driver.scenario # None => driver.reply \in {None, driver.state}

\* A step that changes nothing of what is known.
LEMMA SameKnown ==
  ASSUME UNCHANGED <<scenes, active, rejected, tokens, planeActive, pinned, content>>
  PROVE  /\ LiveScene' = LiveScene /\ (Blank' <=> Blank)
         /\ \A k, R : TokensOf(k, R)' <=> TokensOf(k, R)
         /\ \A k : Installed(k)' <=> Installed(k)
         /\ \A k, n : BundlesUpTo(k, n)' <=> BundlesUpTo(k, n)
         /\ \A k, n : VersionsUpTo(k, n)' <=> VersionsUpTo(k, n)
         /\ \A k : Judged(k)' <=> Judged(k)
         /\ \A k, st : Known(k, st)' <=> Known(k, st)
  <1>1. LiveScene' = LiveScene /\ (Blank' <=> Blank)
    BY DEF LiveScene, Blank
  <1>2. ASSUME NEW k, NEW R PROVE TokensOf(k, R)' <=> TokensOf(k, R)
    BY DEF TokensOf
  <1>3. ASSUME NEW k PROVE Installed(k)' <=> Installed(k)
    BY <1>2 DEF Installed
  <1>4. ASSUME NEW k, NEW n PROVE BundlesUpTo(k, n)' <=> BundlesUpTo(k, n)
    BY DEF BundlesUpTo
  <1>5. ASSUME NEW k, NEW n PROVE VersionsUpTo(k, n)' <=> VersionsUpTo(k, n)
    BY DEF VersionsUpTo
  <1>6. ASSUME NEW k PROVE Judged(k)' <=> Judged(k)
    BY <1>1 DEF Judged
  <1>7. ASSUME NEW k PROVE Established(k)' <=> Established(k)
    BY <1>1 DEF Established
  <1>8. ASSUME NEW k, NEW st PROVE Known(k, st)' <=> Known(k, st)
    BY <1>1, <1>7 DEF Known
  <1> QED
    BY <1>1, <1>2, <1>3, <1>4, <1>5, <1>6, <1>8

LEMMA SetupSame ==
  ASSUME UNCHANGED <<scenes, active, rejected, tokens, planeActive, pinned, content>>,
         NEW a \in Admins, request'[a] = request[a], SetupAt(request[a])
  PROVE  SetupAt(request[a])'
  <1> DEFINE r == request[a]
             k == r.sc
  <1>1. /\ LiveScene' = LiveScene /\ (Blank' <=> Blank)
        /\ TokensOf(k, Recognised(k) \ r.left)' <=> TokensOf(k, Recognised(k) \ r.left)
        /\ Installed(k)' <=> Installed(k)
        /\ BundlesUpTo(k, r.at)' <=> BundlesUpTo(k, r.at)
        /\ BundlesUpTo(k, Len(Bundles[k]))' <=> BundlesUpTo(k, Len(Bundles[k]))
        /\ VersionsUpTo(k, r.at)' <=> VersionsUpTo(k, r.at)
        /\ VersionsUpTo(k, r.at - 1)' <=> VersionsUpTo(k, r.at - 1)
        /\ VersionsUpTo(k, Len(Bundles[k]))' <=> VersionsUpTo(k, Len(Bundles[k]))
        /\ Judged(k)' <=> Judged(k)
        /\ \A st : Known(k, st)' <=> Known(k, st)
    BY DEF LiveScene, Blank, TokensOf, Installed, BundlesUpTo, VersionsUpTo, Judged, Known, Established
  <1> QED
    BY <1>1 DEF SetupAt

\* The value of a recognised placeholder is a token.
LEMMA RecognisedParts ==
  ASSUME NEW k \in Scenarios, NEW p \in Recognised(k)
  PROVE  Tokens[k][p] \in TokenValues /\ TokenRole[p] # None
  <1>1. p \in DOMAIN Tokens[k] /\ p \in DOMAIN TokenRole /\ Tokens[k][p] # Empty
    BY DEF Recognised
  <1> DEFINE S(x) == {Tokens[x][q] : q \in DOMAIN Tokens[x]}
  <1>2. Tokens[k][p] \in S(k) /\ S(k) \in {S(x) : x \in Scenarios}
    BY <1>1
  <1>3. Tokens[k][p] \in UNION {S(x) : x \in Scenarios}
    BY <1>2
  <1> QED
    BY <1>1, <1>3, RoleAssumption DEF TokenValues

LEMMA NoTokens ==
  ASSUME tokens' = [t \in TokenValues |-> None], NEW k, NEW R, R = {}
  PROVE  Blank' /\ TokensOf(k, R)'
  BY DEF Blank, TokensOf

\* One more token is accepted.
LEMMA OneMoreToken ==
  ASSUME tokens \in [TokenValues -> Roles \cup {None}], NEW k \in Scenarios,
         NEW R, R \subseteq Recognised(k), NEW p \in Recognised(k), TokensOf(k, R),
         tokens' = [tokens EXCEPT ![Tokens[k][p]] = TokenRole[p]]
  PROVE  TokensOf(k, R \cup {p})'
  <1> DEFINE v == Tokens[k][p]
  <1>1. v \in TokenValues /\ TokenRole[p] # None /\ \A q \in R : Tokens[k][q] \in TokenValues
    BY RecognisedParts
  <1>2. tokens'[v] = TokenRole[p] /\ \A t \in TokenValues : t # v => tokens'[t] = tokens[t]
    BY <1>1
  <1>3. {t \in TokenValues : tokens'[t] # None} = {Tokens[k][q] : q \in R \cup {p}}
    <2>1. {t \in TokenValues : tokens[t] # None} = {Tokens[k][q] : q \in R}
      BY DEF TokensOf
    <2>2. {t \in TokenValues : tokens'[t] # None} = {t \in TokenValues : tokens[t] # None} \cup {v}
      BY <1>1, <1>2
    <2> QED
      BY <2>1, <2>2
  <1>4. ASSUME NEW q \in R \cup {p}
        PROVE  \E x \in R \cup {p} : Tokens[k][x] = Tokens[k][q] /\ tokens'[Tokens[k][q]] = TokenRole[x]
    <2>1. CASE Tokens[k][q] = v
      BY <1>2, <2>1
    <2>2. CASE Tokens[k][q] # v
      <3>1. q \in R /\ Tokens[k][q] \in TokenValues
        BY <1>1, <2>2
      <3>2. PICK x \in R : Tokens[k][x] = Tokens[k][q] /\ tokens[Tokens[k][q]] = TokenRole[x]
        BY <3>1 DEF TokensOf
      <3> QED
        BY <1>2, <2>2, <3>1, <3>2
    <2> QED
      BY <2>1, <2>2
  <1> QED
    BY <1>3, <1>4 DEF TokensOf

\* The tokens are emptied, then installed one by one.
LEMMA TokensKnown ==
  ASSUME CoreInv, NEW a \in Admins, request[a].op \in {"setup", "reset"}, SetupAt(request[a]), Solo(a),
         resetTokens(a) \/ \E p \in DOMAIN TokenRole : installToken(a, p)
  PROVE  SetupAt(request[a])'
  <1>k. PICK k : k = request[a].sc
    OBVIOUS
  <1>0. RequestsOK /\ tokens \in [TokenValues -> Roles \cup {None}]
    BY DEF CoreInv, BaseInv, PlaneType
  <1>1. CASE resetTokens(a)
    <2>1. /\ request[a].pc = "tokens" /\ request'[a].sc = k
          /\ k = None => request'[a].pc = "finish"
          /\ k # None => /\ request'[a].left = Recognised(k)
                         /\ request'[a].pc = (IF Recognised(k) = {} THEN "create" ELSE "install")
          /\ tokens' = [t \in TokenValues |-> None] /\ UNCHANGED vars
      BY <1>0, <1>1, <1>k, ResetTokensParts DEF SameKind
    <2>2. active' = None
      BY <2>1 DEF Solo, vars
    <2>3. CASE k = None
      BY <2>1, <2>2, <2>3, NoTokens DEF SetupAt, MadeSteps
    <2>4. CASE k # None /\ Recognised(k) = {}
      <3>1. TokensOf(k, Recognised(k))'
        BY <2>1, <2>4, NoTokens DEF TokensOf
      <3>2. request'[a].pc = "create" /\ request'[a].sc = k
        BY <2>1, <2>4
      <3> QED
        BY <3>1, <3>2 DEF SetupAt, MadeSteps, Installed
    <2>5. CASE k # None /\ Recognised(k) # {}
      <3>1. request'[a].pc = "install" /\ request'[a].left = Recognised(k) /\ request'[a].sc = k
        BY <2>1, <2>5
      <3>2. Recognised(k) \ Recognised(k) = {}
        OBVIOUS
      <3>3. TokensOf(k, Recognised(k) \ Recognised(k))'
        BY <2>1, <3>2, NoTokens DEF TokensOf
      <3> QED
        BY <3>1, <3>3 DEF SetupAt, MadeSteps
    <2> QED
      BY <2>3, <2>4, <2>5
  <1>2. ASSUME NEW p, installToken(a, p) PROVE SetupAt(request[a])'
    <2>0. PICK left, R : left = request[a].left /\ R = Recognised(k) \ left
      OBVIOUS
    <2>1. /\ request[a].pc = "install" /\ p \in left /\ request'[a].sc = k
          /\ request'[a].left = left \ {p}
          /\ request'[a].pc = (IF left \ {p} = {} THEN "create" ELSE "install")
          /\ tokens' = [tokens EXCEPT ![Tokens[k][p]] = TokenRole[p]]
      BY <1>0, <1>2, <1>k, <2>0, InstallParts DEF SameKind
    <2>2. k \in Scenarios /\ left \subseteq Recognised(k)
      BY <1>0, <1>k, <2>0, <2>1, SetupParts DEF RequestsOK, StepOK
    <2>3. TokensOf(k, R) /\ R \subseteq Recognised(k)
      BY <1>k, <2>0, <2>1 DEF SetupAt
    <2>4. TokensOf(k, R \cup {p})'
      BY <1>0, <2>1, <2>2, <2>3, OneMoreToken
    <2>5. R \cup {p} = Recognised(k) \ (left \ {p}) /\ (left \ {p} = {} => R \cup {p} = Recognised(k))
      BY <2>0, <2>1, <2>2
    <2>6. TokensOf(k, Recognised(k) \ (left \ {p}))' /\ (left \ {p} = {} => TokensOf(k, Recognised(k))')
      BY <2>4, <2>5
    <2>7. CASE left \ {p} = {}
      <3>1. request'[a].pc = "create" /\ request'[a].sc = k
        BY <2>1, <2>7
      <3>2. TokensOf(k, Recognised(k))'
        BY <2>6, <2>7
      <3> QED
        BY <3>1, <3>2 DEF SetupAt, MadeSteps, Installed
    <2>8. CASE left \ {p} # {}
      BY <2>1, <2>6, <2>8 DEF SetupAt, MadeSteps
    <2> QED
      BY <2>7, <2>8
  <1> QED
    BY <1>1, <1>2

\* The primary scene is registered with its version.
LEMMA PrimaryKnown ==
  ASSUME CoreInv, NEW a \in Admins, SetupAt(request[a]), Solo(a), createPrimary(a)
  PROVE  SetupAt(request[a])'
  <1>k. PICK k, b : k = request[a].sc /\ b = Bundles[k][1]
    OBVIOUS
  <1>0. FlowInv /\ RequestsOK /\ RegistryInv /\ ContentType /\ pinned \subseteq created /\ None \notin Objs /\ Objs \subseteq Scenes
    BY DistinctAssumption DEF CoreInv, BaseInv, PlaneType, Scenes
  <1>1. /\ request[a].pc = "create" /\ k \in Scenarios
        /\ NewScene(a, b.id, Fresh) /\ b.id \in Ids /\ Fresh \in Objs \ created
        /\ pinned' = (IF b.pinned THEN pinned \cup {Fresh} ELSE pinned)
        /\ request'[a].pc = (IF k \in Malformed THEN "reject" ELSE SeedStep(k))
        /\ request'[a].at = 1 /\ request'[a].sc = k
        /\ tokens' = tokens /\ content' = content
    BY <1>0, <1>k, CreatePrimaryParts DEF SameKind
  <1>2. /\ scenes'[b.id] = Fresh /\ \A j \in Ids : j # b.id => scenes'[j] = scenes[j]
        /\ active' = (IF active = None THEN b.id ELSE active) /\ rejected' = rejected
    BY <1>0, <1>1, NewSceneParts
  <1>3. active = None /\ \A j \in Ids : scenes[j] = None
    BY <1>1 DEF Solo, Registered
  <1>4. active' = b.id /\ LiveScene' = Fresh
    BY <1>1, <1>2, <1>3, DistinctAssumption DEF LiveScene
  <1>5. Installed(k)'
    BY <1>1, <1>k DEF SetupAt, Installed, TokensOf
  <1>6. BundlesUpTo(k, 1)'
    <2>1. {i \in Ids : scenes'[i] # None} = {b.id}
      BY <1>0, <1>1, <1>2, <1>3
    <2>2. {Bundles[k][m].id : m \in 1 .. 1} = {b.id}
      BY <1>k
    <2> QED
      BY <1>4, <1>k, <2>1, <2>2 DEF BundlesUpTo
  <1>7. VersionsUpTo(k, 1)'
    <2>1. Fresh \in pinned' <=> b.pinned
      BY <1>0, <1>1
    <2> QED
      BY <1>2, <1>k, <2>1 DEF VersionsUpTo
  <1>8. LiveScene' \notin rejected'
    BY <1>0, <1>1, <1>2, <1>4 DEF RegistryInv, Untouched
  <1>9. content'[LiveScene'] = Empty
    BY <1>0, <1>1, <1>4 DEF ContentType
  <1>10. k \notin Malformed => Judged(k)'
    BY <1>8 DEF Judged
  <1>11. CASE k \in Malformed
    <2>1. request'[a].pc = "reject" /\ request'[a].sc = k /\ request'[a].at = 1
      BY <1>1, <1>11
    <2> QED
      BY <1>5, <1>6, <1>7, <1>9, <1>11, <2>1 DEF SetupAt, MadeSteps
  <1>12. CASE k \notin Malformed /\ Seed[k] = Empty
    <2>1. request'[a].pc = "activate" /\ request'[a].sc = k /\ request'[a].at = 1
      BY <1>1, <1>12 DEF SeedStep
    <2> QED
      BY <1>5, <1>6, <1>7, <1>9, <1>10, <1>12, <2>1 DEF SetupAt, MadeSteps
  <1>13. CASE k \notin Malformed /\ Seed[k] # Empty
    <2>1. request'[a].pc = "set" /\ request'[a].sc = k /\ request'[a].at = 1
      BY <1>1, <1>13 DEF SeedStep
    <2> QED
      BY <1>5, <1>6, <1>7, <1>10, <1>13, <2>1 DEF SetupAt, MadeSteps
  <1> QED
    BY <1>11, <1>12, <1>13

\* The steps on the primary scene: the verdict, the seed, the refresh and the
\* SetActive that finds it active.
LEMMA SeedingKnown ==
  ASSUME CoreInv, NEW a \in Admins, SetupAt(request[a]), Solo(a),
         rejectPrimary(a) \/ seedStore(a) \/ refreshAll(a) \/ activate(a)
  PROVE  SetupAt(request[a])'
  <1>k. PICK k : k = request[a].sc
    OBVIOUS
  <1>0. /\ FlowInv /\ RequestsOK /\ content \in [Scenes -> States] /\ created \subseteq Scenes
        /\ None \notin Ids
    BY ServerType, DistinctAssumption DEF CoreInv, BaseInv, ContentType, Scenes
  <1>1. /\ request[a].pc \in {"reject", "set", "refresh", "activate"}
        /\ UNCHANGED <<scenes, active, tokens, pinned>> \/ activate(a)
    <2>1. CASE rejectPrimary(a)
      BY <1>0, <2>1, RejectParts DEF Reject
    <2>2. CASE seedStore(a)
      BY <1>0, <2>2, SeedParts DEF vars
    <2>3. CASE refreshAll(a)
      BY <1>0, <2>3, RefreshParts DEF Refreshed, sceneVars
    <2>4. CASE activate(a)
      BY <1>0, <2>4, ActivateParts
    <2> QED
      BY <2>1, <2>2, <2>3, <2>4
  <1>2. /\ k \in Scenarios /\ request[a].at = 1 /\ request[a].obj \in created
        /\ active = Bundles[k][1].id /\ scenes[active] = request[a].obj /\ Bundles[k][1].id \in Ids
        /\ Len(Bundles[k]) \in Nat \ {0}
    <2>1. k \in Scenarios
      BY <1>0, <1>1, <1>k, SetupParts
    <2>2. request[a].at = 1 /\ request[a].obj \in created
      BY <1>0, <1>1, ObjParts DEF RequestsOK, StepOK, MadeSteps
    <2> QED
      BY <1>1, <1>k, <2>1, <2>2, BundleParts DEF Solo
  <1>3. LiveScene = request[a].obj
    BY <1>0, <1>2 DEF LiveScene
  <1>4. /\ Installed(k) /\ BundlesUpTo(k, 1) /\ VersionsUpTo(k, 1)
        /\ request[a].pc = "reject" => k \in Malformed /\ content[LiveScene] = Empty
        /\ request[a].pc \in {"set", "refresh", "activate"} => Judged(k)
        /\ request[a].pc \in {"refresh", "activate"} => content[LiveScene] = Seed[k]
    BY <1>1, <1>2, <1>k DEF SetupAt, MadeSteps
  <1>5. ASSUME UNCHANGED <<scenes, active, tokens, pinned>>
        PROVE  Installed(k)' /\ BundlesUpTo(k, 1)' /\ VersionsUpTo(k, 1)' /\ LiveScene' = LiveScene
    BY <1>4, <1>5 DEF Installed, TokensOf, BundlesUpTo, VersionsUpTo, LiveScene
  <1>6. CASE rejectPrimary(a)
    <2>1. /\ request[a].pc = "reject" /\ request'[a].pc = SeedStep(k) /\ request'[a].sc = k
          /\ request'[a].at = 1 /\ rejected' = rejected \cup {request[a].obj}
          /\ UNCHANGED <<scenes, active, tokens, pinned, content>>
      BY <1>0, <1>2, <1>6, <1>k, RejectParts DEF Reject, SameKind, SameScene
    <2>2. Judged(k)'
      BY <1>3, <1>4, <1>5, <2>1 DEF Judged
    <2>3. CASE Seed[k] = Empty
      <3>1. request'[a].pc = "activate"
        BY <2>1, <2>3 DEF SeedStep
      <3>2. content'[LiveScene'] = Seed[k]
        BY <1>4, <1>5, <2>1, <2>3
      <3> QED
        BY <1>5, <2>1, <2>2, <3>1, <3>2 DEF SetupAt, MadeSteps
    <2>4. CASE Seed[k] # Empty
      <3>1. request'[a].pc = "set"
        BY <2>1, <2>4 DEF SeedStep
      <3> QED
        BY <1>5, <2>1, <2>2, <3>1 DEF SetupAt, MadeSteps
    <2> QED
      BY <2>3, <2>4
  <1>7. CASE seedStore(a)
    <2>1. /\ request[a].pc = "set" /\ request'[a].pc = "refresh" /\ request'[a].sc = k
          /\ request'[a].at = 1 /\ content' = [content EXCEPT ![request[a].obj] = Seed[k]]
          /\ UNCHANGED <<scenes, active, rejected, tokens, pinned>>
      BY <1>0, <1>2, <1>7, <1>k, SeedParts DEF vars, SameKind, SameScene
    <2>2. content'[LiveScene'] = Seed[k]
      BY <1>0, <1>2, <1>3, <1>5, <2>1
    <2>3. Judged(k)'
      BY <1>4, <1>5, <2>1 DEF Judged
    <2> QED
      BY <1>5, <2>1, <2>2, <2>3 DEF SetupAt, MadeSteps
  <1>8. CASE refreshAll(a)
    <2>1. /\ request[a].pc = "refresh" /\ request'[a].pc = "activate" /\ request'[a].sc = k
          /\ request'[a].at = 1 /\ UNCHANGED <<scenes, active, rejected, tokens, pinned, content>>
      BY <1>0, <1>2, <1>8, <1>k, RefreshParts DEF Refreshed, sceneVars, SameKind, SameScene
    <2>2. Judged(k)' /\ content'[LiveScene'] = Seed[k]
      BY <1>4, <1>5, <2>1 DEF Judged
    <2> QED
      BY <1>5, <2>1, <2>2 DEF SetupAt, MadeSteps
  <1>9. CASE activate(a)
    <2>1. /\ request[a].pc = "activate" /\ request'[a].sc = k /\ request'[a].at = 1
          /\ request'[a].pc = NextBundle(k, 1) /\ UNCHANGED vars
          /\ UNCHANGED <<tokens, pinned, content>>
      <3>1. scenes[active] # None
        BY <1>0, <1>2, DistinctAssumption, ServerType
      <3> QED
        BY <1>0, <1>2, <1>9, <1>k, <3>1, ActivateParts DEF SameKind, SameScene
    <2>2. UNCHANGED <<scenes, active, rejected, tokens, pinned, content>>
      BY <2>1 DEF vars
    <2>3. Judged(k)' /\ content'[LiveScene'] = Seed[k]
      BY <1>4, <1>5, <2>1, <2>2 DEF Judged
    <2>4. CASE 1 < Len(Bundles[k])
      <3>1. request'[a].pc = "second"
        BY <2>1, <2>4 DEF NextBundle
      <3> QED
        BY <1>5, <2>1, <2>2, <2>3, <3>1 DEF SetupAt, MadeSteps
    <2>5. CASE ~ 1 < Len(Bundles[k])
      <3>1. request'[a].pc = "finish" /\ Len(Bundles[k]) = 1 /\ k # None
        <4>1. request'[a].pc = "finish"
          BY <2>1, <2>5 DEF NextBundle
        <4>2. \A l \in Nat \ {0} : ~ 1 < l => l = 1
          OBVIOUS
        <4>3. Len(Bundles[k]) = 1
          BY ONLY <1>2, <2>5, <4>2
        <4> QED
          BY <1>2, <4>1, <4>3, ScenarioAssumption
      <3> QED
        BY <1>5, <2>1, <2>2, <2>3, <3>1 DEF SetupAt, MadeSteps
    <2> QED
      BY <2>4, <2>5
  <1> QED
    BY <1>6, <1>7, <1>8, <1>9

\* A bundle more, with its version or the default one.
LEMMA BundlesGo ==
  ASSUME NEW k \in Scenarios, NEW n \in 1 .. Len(Bundles[k]), NEW a \in Admins,
         request'[a].sc = k, request'[a].at = n, request'[a].pc = NextBundle(k, n),
         Installed(k)', BundlesUpTo(k, n)', VersionsUpTo(k, n)', Judged(k)', content'[LiveScene'] = Seed[k]
  PROVE  SetupAt(request[a])'
  <1>1. Len(Bundles[k]) \in Nat /\ k # None
    BY BundleParts, ScenarioAssumption
  <1>2. CASE n < Len(Bundles[k])
    <2>1. request'[a].pc = "second"
      BY <1>2 DEF NextBundle
    <2> QED
      BY <2>1 DEF SetupAt, MadeSteps
  <1>3. CASE ~ n < Len(Bundles[k])
    <2>1. request'[a].pc = "finish" /\ n = Len(Bundles[k])
      BY <1>1, <1>3 DEF NextBundle
    <2>2. BundlesUpTo(k, Len(Bundles[k]))' /\ VersionsUpTo(k, Len(Bundles[k]))'
      BY <2>1
    <2> QED
      BY <1>1, <2>1, <2>2 DEF SetupAt, MadeSteps
  <1> QED
    BY <1>2, <1>3

LEMMA SecondKnown ==
  ASSUME CoreInv, DistinctBundles, NEW a \in Admins, SetupAt(request[a]), createSecondary(a)
  PROVE  SetupAt(request[a])'
  <1>k. PICK k, n : k = request[a].sc /\ n = request[a].at + 1
    OBVIOUS
  <1> DEFINE id(m) == Bundles[k][m].id
  <1>0. /\ FlowInv /\ RequestsOK /\ RegistryInv /\ pinned \subseteq created /\ None \notin Objs /\ None \notin Ids
        /\ scenes \in [Ids -> Objs \cup {None}]
    BY ServerType, DistinctAssumption DEF CoreInv, BaseInv, PlaneType, Scenes
  <1>1. /\ request[a].pc = "second" /\ k \in Scenarios /\ n \in 2 .. Len(Bundles[k])
        /\ NewScene(a, id(n), Fresh) /\ id(n) \in Ids /\ Fresh \in Objs \ created
        /\ pinned' = pinned /\ request'[a].sc = k /\ request'[a].at = n
        /\ request'[a].pc = (IF Bundles[k][n].pinned THEN "version" ELSE NextBundle(k, n))
        /\ request'[a].obj = Fresh /\ tokens' = tokens /\ content' = content
    BY <1>0, <1>k, CreateSecondaryParts DEF SameKind
  <1>2. /\ Len(Bundles[k]) \in Nat /\ request[a].at = n - 1 /\ n - 1 \in Nat \ {0} /\ n \in 1 .. Len(Bundles[k])
    <2>1. Len(Bundles[k]) \in Nat
      BY <1>1, BundleParts
    <2>2. request[a].at \in 1 .. Len(Bundles[k]) - 1
      BY <1>0, <1>1, <1>k DEF RequestsOK, StepOK
    <2> QED
      BY <1>1, <1>k, <2>1, <2>2
  <1>3. \A m \in 1 .. n - 1 : id(m) \in Ids /\ id(m) # id(n)
    BY <1>1, <1>2, BundleParts DEF DistinctBundles
  <1>4. /\ Installed(k) /\ BundlesUpTo(k, n - 1) /\ VersionsUpTo(k, n - 1) /\ Judged(k)
        /\ content[LiveScene] = Seed[k]
    BY <1>1, <1>2, <1>k DEF SetupAt, MadeSteps
  <1>5. active = id(1) /\ id(1) \in Ids /\ id(1) # id(n)
    BY <1>2, <1>3, <1>4 DEF BundlesUpTo
  <1>6. /\ scenes'[id(n)] = Fresh /\ \A j \in Ids : j # id(n) => scenes'[j] = scenes[j]
        /\ active' = active /\ rejected' = rejected
    BY <1>0, <1>1, <1>5, NewSceneParts
  <1>7. LiveScene' = LiveScene
    BY <1>5, <1>6 DEF LiveScene
  <1>8. Installed(k)' /\ Judged(k)' /\ content'[LiveScene'] = Seed[k]
    BY <1>1, <1>4, <1>6, <1>7 DEF Installed, TokensOf, Judged
  <1>9. BundlesUpTo(k, n)'
    <2>1. {i \in Ids : scenes[i] # None} = {id(m) : m \in 1 .. n - 1}
      BY <1>4 DEF BundlesUpTo
    <2>2. {i \in Ids : scenes'[i] # None} = {i \in Ids : scenes[i] # None} \cup {id(n)}
      BY <1>0, <1>1, <1>6
    <2>3. {id(m) : m \in 1 .. n} = {id(m) : m \in 1 .. n - 1} \cup {id(n)}
      <3>1. 1 .. n = 1 .. n - 1 \cup {n}
        BY <1>2
      <3> QED
        BY <3>1
    <2>4. {i \in Ids : scenes'[i] # None} = {id(m) : m \in 1 .. n}
      BY <2>1, <2>2, <2>3
    <2> QED
      BY <1>5, <1>6, <2>4 DEF BundlesUpTo
  <1>10. VersionsUpTo(k, n - 1)'
    BY <1>1, <1>3, <1>4, <1>6 DEF VersionsUpTo
  <1>11. CASE Bundles[k][n].pinned
    <2>1. request'[a].pc = "version"
      BY <1>1, <1>11
    <2>2. scenes'[id(n)] = request'[a].obj
      BY <1>1, <1>6
    <2> QED
      BY <1>1, <1>8, <1>9, <1>10, <1>11, <2>1, <2>2 DEF SetupAt, MadeSteps
  <1>12. CASE ~ Bundles[k][n].pinned
    <2>1. VersionsUpTo(k, n)'
      <3>1. Fresh \notin pinned'
        BY <1>0, <1>1
      <3>2. \A m \in 1 .. n : m = n \/ m \in 1 .. n - 1
        BY <1>2
      <3> QED
        BY <1>6, <1>10, <1>12, <3>1, <3>2 DEF VersionsUpTo
    <2>2. request'[a].pc = NextBundle(k, n)
      BY <1>1, <1>12
    <2> QED
      BY <1>1, <1>2, <1>8, <1>9, <2>1, <2>2, BundlesGo
  <1> QED
    BY <1>11, <1>12

LEMMA VersionKnown ==
  ASSUME CoreInv, DistinctBundles, NEW a \in Admins, SetupAt(request[a]), setVersion(a)
  PROVE  SetupAt(request[a])'
  <1>k. PICK k, n : k = request[a].sc /\ n = request[a].at
    OBVIOUS
  <1> DEFINE id(m) == Bundles[k][m].id
  <1>0. RequestsOK /\ Filed /\ None \notin Objs /\ created \subseteq Objs
    BY ServerType, DistinctAssumption DEF CoreInv, BaseInv, RegistryInv, Scenes
  <1>1. /\ request[a].pc = "version" /\ pinned' = pinned \cup {request[a].obj}
        /\ request'[a].pc = NextBundle(k, n) /\ request'[a].sc = k /\ request'[a].at = n
        /\ UNCHANGED vars /\ UNCHANGED <<tokens, content>>
    BY <1>0, <1>k, VersionParts DEF SameKind, SameScene
  <1>2. UNCHANGED <<scenes, active, rejected, tokens, content>> /\ LiveScene' = LiveScene
    BY <1>1 DEF vars, LiveScene
  <1>3. k \in Scenarios /\ n \in 1 .. Len(Bundles[k]) /\ request[a].obj \in created /\ Len(Bundles[k]) \in Nat
    <2>1. k \in Scenarios
      BY <1>0, <1>1, <1>k, SetupParts
    <2>2. n \in 1 .. Len(Bundles[k]) /\ request[a].obj \in created
      BY <1>0, <1>1, <1>k DEF RequestsOK, StepOK, MadeSteps
    <2> QED
      BY <2>1, <2>2, BundleParts
  <1>4. /\ Installed(k) /\ BundlesUpTo(k, n) /\ VersionsUpTo(k, n - 1) /\ Judged(k)
        /\ content[LiveScene] = Seed[k] /\ Bundles[k][n].pinned /\ scenes[id(n)] = request[a].obj
    BY <1>1, <1>k DEF SetupAt, MadeSteps
  <1>5. Installed(k)' /\ BundlesUpTo(k, n)' /\ Judged(k)' /\ content'[LiveScene'] = Seed[k]
    BY <1>2, <1>4 DEF Installed, TokensOf, BundlesUpTo, Judged
  <1>6. \A m \in 1 .. n - 1 : scenes[id(m)] # request[a].obj
    <2> SUFFICES ASSUME NEW m \in 1 .. n - 1, scenes[id(m)] = request[a].obj PROVE FALSE
      OBVIOUS
    <2>1. m \in 1 .. Len(Bundles[k]) /\ m # n
      BY <1>3
    <2>2. id(m) \in Ids /\ id(n) \in Ids /\ id(m) # id(n)
      BY <1>3, <2>1, BundleParts DEF DistinctBundles
    <2> QED
      BY <1>0, <1>3, <1>4, <2>2 DEF Filed
  <1>7. VersionsUpTo(k, n)'
    <2>1. \A m \in 1 .. n : m = n \/ m \in 1 .. n - 1
      BY <1>3
    <2> QED
      BY <1>1, <1>2, <1>4, <1>6, <2>1 DEF VersionsUpTo
  <1> QED
    BY <1>1, <1>3, <1>5, <1>7, BundlesGo

\* The last step of a setup or reset.
LEMMA FinishKnown ==
  ASSUME CoreInv, NEW a \in Admins, SetupAt(request[a]), finish(a)
  PROVE  SetupAt(request[a])'
  <1>k. PICK k : k = request[a].sc
    OBVIOUS
  <1>0. RequestsOK
    BY DEF CoreInv, BaseInv
  <1>1. /\ request[a].pc = "finish" /\ request'[a].sc = k /\ request'[a].pc = "done"
        /\ planeActive' = (IF request[a].op = "setup" THEN Bundles[k][1].id ELSE None)
        /\ UNCHANGED vars /\ UNCHANGED <<tokens, pinned, content>>
    BY <1>0, <1>k, FinishParts DEF SameKind
  <1>2. UNCHANGED <<scenes, active, rejected, tokens, pinned, content>> /\ LiveScene' = LiveScene
    BY <1>1 DEF vars, LiveScene
  <1>3. request[a].op = "setup" <=> k # None
    BY <1>0, <1>k DEF RequestsOK, StepOK
  <1>4. CASE k = None
    <2>1. active = None /\ Blank
      BY <1>1, <1>4, <1>k DEF SetupAt
    <2>2. Known(k, Empty)'
      BY <1>1, <1>2, <1>3, <1>4, <2>1 DEF Known, Blank
    <2> QED
      BY <1>1, <1>4, <2>2 DEF SetupAt, MadeSteps
  <1>5. CASE k # None
    <2>1. /\ Installed(k) /\ BundlesUpTo(k, Len(Bundles[k])) /\ VersionsUpTo(k, Len(Bundles[k]))
          /\ Judged(k) /\ content[LiveScene] = Seed[k]
      BY <1>1, <1>5, <1>k DEF SetupAt
    <2>2. DOMAIN Bundles[k] = 1 .. Len(Bundles[k])
      <3>1. k \in Scenarios
        BY <1>0, <1>5, <1>k DEF RequestsOK, RequestState
      <3> QED
        BY <3>1, BundleParts
    <2>3. active' = Bundles[k][1].id /\ planeActive' = active'
      BY <1>1, <1>2, <1>3, <1>5, <2>1 DEF BundlesUpTo
    <2>4. {i \in Ids : scenes'[i] # None} = {Bundles[k][n].id : n \in DOMAIN Bundles[k]}
      BY <1>2, <2>1, <2>2 DEF BundlesUpTo
    <2>5. \A n \in DOMAIN Bundles[k] : scenes'[Bundles[k][n].id] \in pinned' <=> Bundles[k][n].pinned
      BY <1>2, <2>1, <2>2 DEF VersionsUpTo
    <2>6. LiveScene' \in rejected' <=> k \in Malformed
      BY <1>2, <2>1 DEF Judged
    <2>7. /\ {t \in TokenValues : tokens'[t] # None} = {Tokens[k][p] : p \in Recognised(k)}
          /\ \A p \in Recognised(k) :
               \E q \in Recognised(k) : Tokens[k][q] = Tokens[k][p] /\ tokens'[Tokens[k][p]] = TokenRole[q]
      BY <1>2, <2>1 DEF Installed, TokensOf
    <2>8. Established(k)'
      BY <2>3, <2>4, <2>5, <2>6, <2>7 DEF Established
    <2>9. Known(k, Seed[k])'
      BY <1>2, <1>5, <2>1, <2>8 DEF Known
    <2> QED
      BY <1>1, <1>5, <2>9 DEF SetupAt, MadeSteps
  <1> QED
    BY <1>4, <1>5

\* Each step of a setup or reset that runs alone.
LEMMA SetupKnown ==
  ASSUME CoreInv, DistinctBundles, NEW a \in Admins, Solo(a), request[a].op \in {"setup", "reset"},
         SetupAt(request[a]), HandlerNext(a)
  PROVE  SetupAt(request[a])'
  <1>0. FlowInv /\ RequestsOK
    BY DEF CoreInv, BaseInv
  <1>1. CASE serverStep(a)
    <2>1. /\ UNCHANGED <<scenes, active, rejected, tokens, planeActive, pinned, content>>
          /\ request' = request
      BY <1>0, <1>1, ServerStepParts
    <2> QED
      BY <2>1, SetupSame
  <1>2. CASE resetServer(a)
    <2>1. request'[a].pc = "tokens"
      BY <1>0, <1>2, ResetServerParts
    <2> QED
      BY <2>1 DEF SetupAt, MadeSteps
  <1>3. CASE createPrimary(a)
    BY <1>3, PrimaryKnown
  <1>4. CASE createSecondary(a)
    BY <1>4, SecondKnown
  <1>5. CASE setVersion(a)
    BY <1>5, VersionKnown
  <1>6. CASE finish(a)
    BY <1>6, FinishKnown
  <1>7. ASSUME rejectPrimary(a) \/ seedStore(a) \/ refreshAll(a) \/ activate(a) PROVE SetupAt(request[a])'
    BY <1>7, SeedingKnown
  <1>8. ASSUME resetTokens(a) \/ \E p \in DOMAIN TokenRole : installToken(a, p) PROVE SetupAt(request[a])'
    BY <1>8, TokensKnown
  <1>9. ~ findActive(a) /\ ~ applyEmit(a) /\ ~ readState(a) /\ \A K \in SUBSET Subs : ~ publishEmit(a, K)
    <2>1. request[a].pc \notin {"find", "apply", "publish", "read"}
      BY <1>0 DEF RequestsOK, StepOK
    <2> QED
      BY <2>1 DEF findActive, applyEmit, readState, publishEmit, At
  <1>10. ~ serverPanics(a)
    BY SoloSound DEF CoreInv
  <1> QED
    BY <1>1, <1>2, <1>3, <1>4, <1>5, <1>6, <1>7, <1>8, <1>9, <1>10, Zenon DEF HandlerNext

\* A scenario that is set up has an active scene.
LEMMA KnownActive ==
  ASSUME NEW k, NEW st, Known(k, st)
  PROVE  (k = None => active = None) /\ (k # None => content[LiveScene] = st)
  BY DEF Known

\* What is known of the server, when only the state of the live scene changes.
LEMMA KnownState ==
  ASSUME UNCHANGED <<scenes, active, rejected, tokens, planeActive, pinned>>, NEW k, k # None,
         NEW st, NEW v, Known(k, st), content'[LiveScene] = v
  PROVE  Known(k, v)'
  <1>1. LiveScene' = LiveScene
    BY DEF LiveScene
  <1>2. Established(k)'
    BY <1>1 DEF Known, Established
  <1> QED
    BY <1>1, <1>2 DEF Known

\* Each step of an emit or state request that runs alone.
LEMMA AskKnown ==
  ASSUME CoreInv, NEW a \in Admins, Solo(a), request[a].op \in {"emit", "state"},
         AskAt(request[a]), HandlerNext(a)
  PROVE  AskAt(request[a])'
  <1>d. PICK k, st : k = driver.scenario /\ st = driver.state
    OBVIOUS
  <1>0. /\ FlowInv /\ RequestsOK /\ BaseInv /\ content \in [Scenes -> States] /\ created \subseteq Scenes
        /\ driver' = driver /\ request'[a].op = request[a].op
    BY ServerType, HandlerParts DEF CoreInv, BaseInv, ContentType, Scenes, SameKind
  <1>00. request[a].pc \in {"find", "apply", "publish", "read"}
    <2>1. request[a].pc \notin {"none", "done"}
      BY <1>0, HandlerParts DEF Running
    <2>2. request[a].pc \in Steps
      BY <1>0 DEF RequestsOK, RequestState
    <2> QED
      BY <1>0, <2>1, <2>2 DEF RequestsOK, StepOK, Steps, MadeSteps
  <1>1. CASE serverStep(a)
    <2>1. /\ UNCHANGED <<scenes, active, rejected, tokens, planeActive, pinned, content>>
          /\ request' = request
      BY <1>0, <1>1, ServerStepParts
    <2>2. \A x, y : Known(x, y)' <=> Known(x, y)
      BY <2>1, SameKnown
    <2> QED
      BY <1>0, <1>00, <1>d, <2>1, <2>2 DEF AskAt, SceneSteps
  <1>2. CASE findActive(a)
    <2>1. /\ request[a].pc = "find" /\ UNCHANGED vars
          /\ UNCHANGED <<tokens, planeActive, pinned, content>>
          /\ \/ /\ active = None
                /\ request'[a].pc = "done" /\ request'[a].status = "conflict"
             \/ /\ active # None
                /\ request'[a].pc = (IF request[a].op = "emit" THEN "apply" ELSE "read")
      BY <1>0, <1>2, FindParts
    <2>2. Known(k, st)
      BY <1>d, <2>1 DEF AskAt
    <2>3. Known(k, st)'
      <3>1. UNCHANGED <<scenes, active, rejected, tokens, planeActive, pinned, content>>
        BY <2>1 DEF vars
      <3> QED
        BY <2>2, <3>1, SameKnown
    <2>4. CASE request'[a].pc = "done" /\ request'[a].status = "conflict"
      BY <1>0, <1>d, <2>3, <2>4 DEF AskAt, SceneSteps
    <2>5. CASE active # None /\ request'[a].pc \in {"apply", "read"}
      <3>1. k # None
        BY <2>2, <2>5, KnownActive
      <3> QED
        BY <1>0, <1>d, <2>3, <2>5, <3>1 DEF AskAt, SceneSteps
    <2> QED
      BY <2>1, <2>4, <2>5
  <1>3. CASE applyEmit(a)
    <2>1. /\ request[a].pc = "apply" /\ request'[a].pc = "publish"
          /\ content' = [content EXCEPT ![request[a].obj] = Emitted] /\ UNCHANGED vars
          /\ UNCHANGED <<tokens, planeActive, pinned>> /\ request[a].obj \in Scenes
      BY <1>0, <1>3, ApplyParts, ObjParts DEF SceneSteps
    <2>2. Known(k, st) /\ k # None
      BY <1>d, <2>1 DEF AskAt, SceneSteps
    <2>3. request[a].obj = LiveScene
      BY <2>1 DEF Solo, SceneSteps, LiveScene
    <2>4. Known(k, Emitted)'
      <3>1. UNCHANGED <<scenes, active, rejected, tokens, planeActive, pinned>>
        BY <2>1 DEF vars
      <3>2. content'[LiveScene] = Emitted
        BY <1>0, <2>1, <2>3
      <3> QED
        BY <2>2, <3>1, <3>2, KnownState
    <2> QED
      BY <1>0, <1>d, <2>1, <2>2, <2>4 DEF AskAt, SceneSteps
  <1>4. ASSUME NEW K, publishEmit(a, K) PROVE AskAt(request[a])'
    <2>1. /\ request[a].pc = "publish" /\ request'[a].pc = "done" /\ request'[a].status = "ok"
          /\ emit(request[a].obj, K) /\ UNCHANGED <<tokens, planeActive, pinned, content>>
      BY <1>0, <1>4, PublishParts
    <2>2. Known(k, Emitted)
      BY <1>d, <2>1 DEF AskAt
    <2>3. Known(k, Emitted)'
      <3>1. UNCHANGED <<scenes, active, rejected, tokens, planeActive, pinned, content>>
        BY <2>1 DEF emit, sceneVars
      <3> QED
        BY <2>2, <3>1, SameKnown
    <2>4. request'[a].op = "emit"
      BY <1>0, <2>1 DEF RequestsOK, StepOK
    <2> QED
      BY <1>0, <1>d, <2>1, <2>3, <2>4 DEF AskAt, SceneSteps
  <1>5. CASE readState(a)
    <2>1. /\ request[a].pc = "read" /\ request'[a].pc = "done" /\ request'[a].status = "ok"
          /\ request'[a].reply = content[request[a].obj] /\ UNCHANGED vars
          /\ UNCHANGED <<tokens, planeActive, pinned, content>>
      <3>1. content[request[a].obj] \in States
        BY <1>0, <1>5, ObjParts DEF readState, At, SceneSteps
      <3> QED
        BY <1>0, <1>5, <3>1, ReadParts
    <2>2. Known(k, st) /\ k # None
      BY <1>d, <2>1 DEF AskAt, SceneSteps
    <2>3. request'[a].reply = st
      <3>1. request[a].obj = LiveScene
        BY <2>1 DEF Solo, SceneSteps, LiveScene
      <3> QED
        BY <2>1, <2>2, <3>1, KnownActive
    <2>4. Known(k, st)'
      <3>1. UNCHANGED <<scenes, active, rejected, tokens, planeActive, pinned, content>>
        BY <2>1 DEF vars
      <3> QED
        BY <2>2, <3>1, SameKnown
    <2>5. request'[a].op = "state"
      BY <1>0, <2>1 DEF RequestsOK, StepOK
    <2> QED
      BY <1>0, <1>d, <2>1, <2>3, <2>4, <2>5 DEF AskAt, SceneSteps
  <1>p. ~ serverPanics(a)
    BY SoloSound DEF CoreInv
  <1>6. ASSUME ~ serverStep(a), ~ findActive(a), ~ applyEmit(a), \A K \in SUBSET Subs : ~ publishEmit(a, K),
               ~ readState(a)
        PROVE  FALSE
    BY <1>00, <1>p, <1>6 DEF HandlerNext, resetServer, resetTokens, installToken, createPrimary, rejectPrimary,
         seedStore, refreshAll, activate, createSecondary, setVersion, finish, At
  <1> QED
    BY <1>1, <1>2, <1>3, <1>4, <1>5, <1>6

\* The requests of the driver, and their answers.
LEMMA DriverKnown ==
  ASSUME CoreInv, KnowInv, NEW a \in Admins, DriverStep(a)
  PROVE  KnowInv'
  <1>0. BaseInv /\ AloneInv /\ RequestsOK /\ driver \in DriverState
    BY DEF CoreInv, BaseInv, PlaneType
  <1>00. ASSUME UNCHANGED <<vars, tokens, planeActive, pinned, content>>
         PROVE  UNCHANGED <<scenes, active, rejected, tokens, planeActive, pinned, content>>
    BY <1>00 DEF vars
  <1>1. ASSUME NEW op \in {"setup", "reset", "emit", "state"},
               NEW k \in Scenarios \cup {None}, op = "setup" <=> k # None, send(a, op, k)
        PROVE  KnowInv'
    <2>1. /\ driver.on = None /\ driver'.on = a /\ driver'.reply = None /\ driver'.sure = driver.sure
          /\ driver'.scenario = driver.scenario /\ driver'.state = driver.state
          /\ request'[a].pc = Entry(op) /\ request'[a].op = op
          /\ UNCHANGED <<vars, tokens, planeActive, pinned, content>>
      BY ONLY <1>0, <1>1, SendAlone, a \in Admins
    <2>2. a # None
      BY HandlerAssumption
    <2>3. CASE op \in {"setup", "reset"}
      <3>1. request'[a].pc = "start"
        BY <2>1, <2>3 DEF Entry
      <3>2. SetupAt(request[a])'
        BY <3>1 DEF SetupAt, MadeSteps
      <3> QED
        BY <2>1, <2>2, <2>3, <3>2 DEF KnowInv
    <2>4. CASE op \in {"emit", "state"}
      <3>1. request'[a].pc = "find"
        BY <2>1, <2>4 DEF Entry
      <3>2. ASSUME driver.sure PROVE AskAt(request[a])'
        <4>1. Known(driver.scenario, driver.state)
          BY <2>1, <3>2 DEF KnowInv
        <4>2. PICK c, st : c = driver.scenario /\ st = driver.state
          OBVIOUS
        <4>3. Known(c, st)'
          BY <1>00, <2>1, <4>1, <4>2, SameKnown
        <4> QED
          BY <2>1, <3>1, <4>2, <4>3 DEF AskAt, SceneSteps
      <3> QED
        BY <2>1, <2>2, <2>4, <3>2 DEF KnowInv
    <2> QED
      BY <2>3, <2>4
  <1>2. CASE answer(a)
    <2>1. /\ request[a].pc = "done"
          /\ \A b \in Admins : b # a => request'[b] = request[b]
          /\ driver' = (IF driver.on = a THEN Learned(a) ELSE driver)
          /\ UNCHANGED <<scenes, active, rejected, tokens, planeActive, pinned, content>>
      BY ONLY <1>0, <1>00, <1>2, AnswerParts, a \in Admins
    <2>2. CASE driver.on = a
      <3> DEFINE r == request[a]
                 d == Learned(a)
      <3>1. /\ d.on = None
            /\ d.sure <=> r.alone /\ r.status # "failed" /\ (r.op \in {"setup", "reset"} \/ driver.sure)
            /\ ~ (r.status = "ok" /\ r.op = "state") => d.reply = driver.reply
            /\ r.status = "ok" /\ r.op = "setup" => d.scenario = r.sc /\ d.state = Seed[r.sc]
            /\ r.status = "ok" /\ r.op = "reset" => d.scenario = None /\ d.state = Empty
            /\ r.status = "ok" /\ r.op = "emit" => d.scenario = driver.scenario /\ d.state = Emitted
            /\ r.status = "ok" /\ r.op = "state" =>
                 d.scenario = driver.scenario /\ d.state = driver.state /\ d.reply = r.reply
            /\ r.status # "ok" => d.scenario = driver.scenario /\ d.state = driver.state
        BY ONLY <1>0, <2>1, LearnedParts, a \in Admins
      <3>2. /\ r.op \in {"setup", "reset", "emit", "state"} /\ r.status \in {"ok", "conflict", "failed"}
            /\ (r.status = "conflict" => r.op \in {"emit", "state"}) /\ (r.op = "setup" <=> r.sc # None)
        <4>1. r \in RequestState /\ StepOK(r, created)
          BY <1>0 DEF RequestsOK
        <4>2. r.op \in {"none", "setup", "reset", "emit", "state"} /\ r.status \in {"none", "ok", "conflict", "failed"}
          BY <4>1 DEF RequestState
        <4> QED
          BY <2>1, <4>1, <4>2 DEF StepOK
      <3>3. driver.reply = None
        BY <2>2 DEF KnowInv
      <3> SUFFICES ASSUME d.sure
                   PROVE  Known(d.scenario, d.state) /\ (d.scenario # None => d.reply \in {None, d.state})
        <4>1. PICK c, st : c = d.scenario /\ st = d.state
          OBVIOUS
        <4>2. Known(c, st)' <=> Known(c, st)
          BY <2>1, SameKnown
        <4>3. driver' = d
          BY <2>1, <2>2
        <4> HIDE DEF d
        <4>4. ASSUME d.sure, Known(c, st), d.scenario # None => d.reply \in {None, d.state} PROVE KnowInv'
          <5>1. \A b \in Admins : driver'.on # b
            BY <3>1, <4>3, HandlerAssumption
          <5> QED
            BY <4>1, <4>2, <4>3, <4>4, <5>1 DEF KnowInv
        <4>5. ASSUME ~ d.sure PROVE KnowInv'
          BY <3>1, <4>3, <4>5, HandlerAssumption DEF KnowInv
        <4> QED
          BY <4>1, <4>4, <4>5
      <3>4. CASE r.op \in {"setup", "reset"}
        <4>1. r.status = "ok"
          BY <3>1, <3>2, <3>4
        <4>2. SetupAt(r)
          BY <2>2, <3>1, <3>4 DEF KnowInv
        <4>3. Known(r.sc, IF r.sc = None THEN Empty ELSE Seed[r.sc])
          BY <2>1, <4>1, <4>2 DEF SetupAt
        <4>4. d.reply = None
          BY <3>1, <3>3, <3>4
        <4>5. CASE r.op = "setup"
          <5>1. d.scenario = r.sc /\ d.state = Seed[r.sc] /\ r.sc # None
            BY <3>1, <3>2, <4>1, <4>5
          <5> QED
            BY <4>3, <4>4, <5>1
        <4>6. CASE r.op = "reset"
          <5>1. d.scenario = None /\ d.state = Empty /\ r.sc = None
            BY <3>1, <3>2, <4>1, <4>6
          <5> QED
            BY <4>3, <4>4, <5>1
        <4> QED
          BY <3>4, <4>5, <4>6
      <3>5. CASE r.op \in {"emit", "state"}
        <4>1. AskAt(r)
          BY <2>2, <3>1, <3>5 DEF KnowInv
        <4>2. /\ Known(driver.scenario, IF r.status = "ok" /\ r.op = "emit" THEN Emitted ELSE driver.state)
              /\ r.status = "ok" /\ r.op = "state" => r.reply = driver.state
          BY <2>1, <4>1 DEF AskAt
        <4> HIDE DEF r, d
        <4>3. CASE r.status = "ok" /\ r.op = "emit"
          BY <3>1, <3>3, <4>2, <4>3
        <4>4. CASE r.status = "ok" /\ r.op = "state"
          BY <3>1, <4>2, <4>4
        <4>5. CASE r.status # "ok"
          BY <3>1, <3>3, <4>2, <4>5
        <4> QED
          BY <3>5, <4>3, <4>4, <4>5
      <3> QED
        BY <3>2, <3>4, <3>5
    <2>3. CASE driver.on # a
      <3>1. driver' = driver
        BY <2>1, <2>3
      <3>2. ASSUME NEW b \in Admins, driver'.on = b
            PROVE  /\ driver'.reply = None
                   /\ request'[b].alone /\ request'[b].op \in {"setup", "reset"} => SetupAt(request[b])'
                   /\ request'[b].alone /\ request'[b].op \in {"emit", "state"} /\ driver'.sure => AskAt(request[b])'
        <4>1. request'[b] = request[b] /\ driver.on = b
          BY <2>1, <2>3, <3>1, <3>2
        <4>2. SetupAt(request[b]) => SetupAt(request[b])'
          BY <2>1, <4>1, SetupSame
        <4>3. AskAt(request[b]) => AskAt(request[b])'
          <5>1. \A x, y : Known(x, y)' <=> Known(x, y)
            BY <2>1, SameKnown
          <5> QED
            BY <3>1, <4>1, <5>1 DEF AskAt
        <4> QED
          BY <3>1, <4>1, <4>2, <4>3 DEF KnowInv
      <3>3. driver'.on = None /\ driver'.sure =>
              /\ Known(driver.scenario, driver.state)'
              /\ driver'.scenario # None => driver'.reply \in {None, driver'.state}
        <4>1. PICK c, st : c = driver.scenario /\ st = driver.state
          OBVIOUS
        <4>2. Known(c, st)' <=> Known(c, st)
          BY <2>1, SameKnown
        <4> QED
          BY <3>1, <4>1, <4>2 DEF KnowInv
      <3> QED
        BY <3>2, <3>3 DEF KnowInv
    <2> QED
      BY <2>2, <2>3
  <1>3. CASE timeout(a)
    <2>1. driver'.on = None /\ ~ driver'.sure
      BY <1>0, <1>3, TimeoutParts
    <2> QED
      BY <2>1, HandlerAssumption DEF KnowInv
  <1> QED
    BY <1>1, <1>2, <1>3, ScenarioAssumption DEF DriverStep

\* A handler that runs alone goes on as the driver expects; of one that does not
\* the driver expects nothing.
LEMMA HandlerKnown ==
  ASSUME CoreInv, DistinctBundles, KnowInv, NEW a \in Admins, HandlerNext(a)
  PROVE  KnowInv'
  <1>1. /\ a \in Running /\ driver' = driver /\ SameKind(a)
        /\ \A b \in Admins : b # a => request'[b] = request[b]
    BY HandlerParts DEF CoreInv
  <1>2. ~ (driver'.on = None /\ driver'.sure)
    BY <1>1 DEF CoreInv, AloneInv
  <1>3. ASSUME NEW b \in Admins, driver'.on = b
        PROVE  /\ driver'.reply = None
               /\ request'[b].alone /\ request'[b].op \in {"setup", "reset"} => SetupAt(request[b])'
               /\ request'[b].alone /\ request'[b].op \in {"emit", "state"} /\ driver'.sure => AskAt(request[b])'
    <2>1. driver.on = b /\ driver'.reply = None
      BY <1>1, <1>3 DEF KnowInv
    <2>2. request'[b].alone = request[b].alone /\ request'[b].op = request[b].op
      BY <1>1 DEF SameKind
    <2>3. ASSUME request[b].alone PROVE b = a /\ Solo(a)
      <3>1. b = a
        BY <1>1, <2>1, <2>3 DEF CoreInv, AloneInv
      <3> QED
        BY <1>1, <2>3, <3>1 DEF CoreInv, SoloInv
    <2>4. ASSUME request[b].alone, request[b].op \in {"setup", "reset"} PROVE SetupAt(request[b])'
      <3>1. b = a /\ Solo(a) /\ SetupAt(request[a])
        BY <2>1, <2>3, <2>4 DEF KnowInv
      <3>2. SetupAt(request[a])'
        BY <2>4, <3>1, SetupKnown
      <3> QED
        BY <3>1, <3>2
    <2>5. ASSUME request[b].alone, request[b].op \in {"emit", "state"}, driver.sure PROVE AskAt(request[b])'
      <3>1. b = a /\ Solo(a) /\ AskAt(request[a])
        BY <2>1, <2>3, <2>5 DEF KnowInv
      <3>2. AskAt(request[a])'
        BY <2>5, <3>1, AskKnown
      <3> QED
        BY <3>1, <3>2
    <2> QED
      BY <1>1, <2>1, <2>2, <2>4, <2>5
  <1> QED
    BY <1>2, <1>3 DEF KnowInv

\* A step that changes nothing of what is known, and no request.
LEMMA SameKnowing ==
  ASSUME KnowInv, UNCHANGED <<scenes, active, rejected, tokens, planeActive, pinned, content, request, driver>>
  PROVE  KnowInv'
  <1>1. \A x, y : Known(x, y)' <=> Known(x, y)
    BY SameKnown
  <1>2. ASSUME NEW a \in Admins
        PROVE  (SetupAt(request[a]) => SetupAt(request[a])') /\ (AskAt(request[a]) => AskAt(request[a])')
    <2>1. SetupAt(request[a]) => SetupAt(request[a])'
      BY SetupSame
    <2>2. AskAt(request[a]) => AskAt(request[a])'
      BY <1>1 DEF AskAt
    <2> QED
      BY <2>1, <2>2
  <1>3. Known(driver.scenario, driver.state)' <=> Known(driver.scenario, driver.state)
    BY <1>1
  <1> QED
    BY <1>2, <1>3 DEF KnowInv

LEMMA InitKnown == ControlInit => KnowInv
  <1> SUFFICES ASSUME ControlInit PROVE KnowInv
    OBVIOUS
  <1>1. /\ driver.on = None /\ driver.scenario = None /\ active = None
        /\ planeActive = None /\ Blank
    BY InitParts DEF ControlInit, Blank
  <1> QED
    BY <1>1, HandlerAssumption DEF KnowInv, Known

LEMMA KnowInvariant == ControlSpec /\ DistinctBundles => [](CoreInv /\ DistinctBundles /\ KnowInv)
  <1>1. CoreInv /\ DistinctBundles /\ KnowInv /\ [ControlNext]_allVars => (CoreInv /\ DistinctBundles /\ KnowInv)'
    <2> SUFFICES ASSUME CoreInv, DistinctBundles, KnowInv, [ControlNext]_allVars
                 PROVE  CoreInv' /\ DistinctBundles' /\ KnowInv'
      OBVIOUS
    <2>1. DistinctBundles'
      BY DEF DistinctBundles
    <2>2. CASE ControlNext
      <3>1. CoreInv'
        BY <2>2, NextCore
      <3>2. ASSUME NEW s \in Subs, ClientStep(s) PROVE KnowInv'
        BY <3>2, ClientParts, SameKnowing DEF ClientStep
      <3>3. KnowInv'
        BY <2>2, <3>2, StepKinds, DriverKnown, HandlerKnown
      <3> QED
        BY <2>1, <3>1, <3>3
    <2>3. CASE UNCHANGED allVars
      BY <2>1, <2>3, CoreStutter, StutterParts, SameKnowing
    <2> QED
      BY <2>2, <2>3
  <1> QED
    BY <1>1, InitCore, InitKnown, PTL DEF ControlSpec

\* A driver that has the answers it waited for can rely on them, whatever timed
\* out or ran side by side before, if no scenario has two bundles of one scene
\* id: a handler that runs alone finds at each of its steps what its earlier
\* steps made, the server its Reset has emptied and the bundles, versions,
\* tokens and state it has put there.
THEOREM DriverCanRely == ControlSpec /\ DistinctBundles => []DriverKnows
  <1>1. KnowInv => DriverKnows
    <2> SUFFICES ASSUME KnowInv, driver.on = None, driver.sure
                 PROVE  IF driver.scenario = None
                          THEN active = None /\ planeActive = None /\ \A t \in TokenValues : tokens[t] = None
                          ELSE /\ Established(driver.scenario)
                               /\ content[LiveScene] = driver.state
                               /\ driver.reply \in {None, driver.state}
      BY DEF DriverKnows
    <2>1. /\ Known(driver.scenario, driver.state)
          /\ driver.scenario # None => driver.reply \in {None, driver.state}
      BY DEF KnowInv
    <2> QED
      BY <2>1 DEF Known, Blank
  <1> QED
    BY <1>1, KnowInvariant, PTL
=============================================================================
