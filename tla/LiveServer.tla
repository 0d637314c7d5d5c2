----------------------------- MODULE LiveServer -----------------------------
(***************************************************************************)
(* server/server.go and the connection handler of server/ws_handler.go:    *)
(* several scenes, the live endpoint that follows the active one, and the  *)
(* subscriptions that SetActive, NewScene and Reset move between scenes or *)
(* close while handlers subscribe, drain and detach concurrently.          *)
(*                                                                         *)
(* A scene is an object, not an id: NewScene under an id in use puts a new *)
(* object in the registry while goroutines keep pointers to the old one.   *)
(* An object whose subscribers map was set to nil is in `torn`.            *)
(*                                                                         *)
(* Every action is one critical section of the code (server.mu or one      *)
(* scene.mu).  The server-level calls release one mutex before they take   *)
(* the next, so each is a sequence of actions of its goroutine (an Admin): *)
(*   NewScene:  register; [migrate1; migrate2 from holding]; [tearDown]    *)
(*   SetActive: switch; migrate1; migrate2                                 *)
(*   Reset:     clear; tearDown each scene                                 *)
(* Between migrate1 and migrate2 the moving subscriptions are in no scene: *)
(* they are in their admin's `transit`.                                    *)
(*                                                                         *)
(* A write to a nil map is a panic.  net/http recovers those of its        *)
(* handlers, the control plane's included, and the process goes on; a      *)
(* goroutine of the program's own would end it, which leaves nothing to    *)
(* say about what follows.  migrateLive does not defer its Unlock: the     *)
(* scene's mutex stays locked, and whoever needs it waits for ever.        *)
(*                                                                         *)
(* What a scene holds is Scene's business; here a frame is only its type,  *)
(* the scene object it is about and its number.                            *)
(***************************************************************************)
EXTENDS Integers, Sequences, FiniteSets

CONSTANTS
  Ids,        \* scene ids
  Objs,       \* scene objects NewScene can create
  Holding,    \* the holding scene
  Admins,     \* goroutines that call NewScene, SetActive, Reset, Reject
  Live,       \* live-mode connections
  Test,       \* test-mode connections (scene and session in Subscribe)
  Operations, \* Operations[a]: the calls a makes, of {"new", "replace", "active", "reset", "reject"}
  OutCap,     \* capacity of a subscription's out channel
  MaxCalls,   \* bound on admin calls and emissions together
  None        \* no id, no object

Subs == Live \cup Test
Scenes == Objs \cup {Holding}

ASSUME DistinctAssumption ==
  /\ Live \cap Test = {}
  /\ Holding \notin Objs
  /\ None \notin Ids /\ None \notin Objs /\ None # Holding
ASSUME OperationsAssumption ==
  Operations \in [Admins -> SUBSET {"new", "replace", "active", "reset", "reject"}]
ASSUME OutCapAssumption == OutCap \in Nat /\ OutCap >= 2
ASSUME MaxCallsAssumption == MaxCalls \in Nat

VARIABLES
  scenes,       \* Server.scenes: id -> object
  active,       \* Server.active
  created,      \* the objects that exist
  subscribers,  \* Scene.subscribers of each object
  torn,         \* objects whose subscribers map is nil
  rejected,     \* objects marked by Reject
  seq,          \* Scene.seq of each object
  admin,        \* per admin: where it is in its call
  conn,         \* per connection: where its handler is
  captured,     \* the scene pointer the handler holds
  todo,         \* scenes the handler's detach has still to visit
  closed,       \* subscription.closed
  stale,        \* subscription.stale
  out,          \* subscription.out, after the frames serveLSDP writes itself
  client,       \* the client: the scene it shows and its tracker (0: no frame yet)
  late,         \* history: subscribed to a scene that was no longer the live one
  locked,       \* objects whose mutex a panic left locked
  lost,         \* history: the subscriptions a panicking migration had in hand
  calls         \* admin calls and emissions so far

sceneVars == <<scenes, active, created, rejected>>
subVars == <<closed, stale, out, client>>
handlerVars == <<conn, captured, todo, late>>
panicVars == <<locked, lost>>
vars == <<scenes, active, created, subscribers, torn, rejected, seq, admin,
          conn, captured, todo, closed, stale, out, client, late, locked, lost, calls>>

Frame(t, o, n) == [type |-> t, scene |-> o, seq |-> n]

FrameType == [type : {"delta", "snapshot", "changed"}, scene : Scenes, seq : Nat \ {0}]

ClientState == [scene : Scenes \cup {None}, last : Nat]

Idle == [pc |-> "idle", prev |-> None, next |-> None, transit |-> {}, bump |-> 0, tear |-> {}]

AdminState ==
  [pc : {"idle", "migrate1", "migrate2", "tear"},
   prev : Scenes \cup {None}, next : Objs \cup {None},
   transit : SUBSET Subs, bump : Nat, tear : SUBSET Objs]

\* The free slots of a subscription's channel.  The Snapshot serveLSDP writes
\* itself heads `out` until the client has it and takes no slot.
Free(s) == OutCap + (IF client[s].last = 0 THEN 1 ELSE 0) - Len(out[s])

\* The shape of the state; a queue never outgrows its channel.
TypeOK ==
  /\ scenes \in [Ids -> Objs \cup {None}]
  /\ active \in Ids \cup {None}
  /\ created \subseteq Objs
  /\ subscribers \in [Scenes -> SUBSET Subs]
  /\ torn \subseteq Objs
  /\ rejected \subseteq Objs
  /\ seq \in [Scenes -> Nat \ {0}]
  /\ admin \in [Admins -> AdminState]
  /\ conn \in [Subs -> {"off", "resolved", "checked", "run", "closing", "detaching",
                       "gone", "panicked"}]
  /\ captured \in [Subs -> Scenes \cup {None}]
  /\ todo \in [Subs -> SUBSET Scenes]
  /\ closed \in [Subs -> BOOLEAN]
  /\ stale \in [Subs -> BOOLEAN]
  /\ out \in [Subs -> Seq(FrameType)]
  /\ client \in [Subs -> ClientState]
  /\ \A s \in Subs : Free(s) >= 0
  /\ late \in [Subs -> BOOLEAN]
  /\ locked \subseteq Objs
  /\ lost \subseteq Subs
  /\ calls \in Nat

Init ==
  /\ scenes = [i \in Ids |-> None]
  /\ active = None
  /\ created = {}
  /\ subscribers = [o \in Scenes |-> {}]
  /\ torn = {}
  /\ rejected = {}
  /\ seq = [o \in Scenes |-> 1]
  /\ admin = [a \in Admins |-> Idle]
  /\ conn = [s \in Subs |-> "off"]
  /\ captured = [s \in Subs |-> None]
  /\ todo = [s \in Subs |-> {}]
  /\ closed = [s \in Subs |-> FALSE]
  /\ stale = [s \in Subs |-> FALSE]
  /\ out = [s \in Subs |-> <<>>]
  /\ client = [s \in Subs |-> [scene |-> None, last |-> 0]]
  /\ late = [s \in Subs |-> FALSE]
  /\ locked = {}
  /\ lost = {}
  /\ calls = 0

Registered == {scenes[i] : i \in Ids} \ {None}

\* ActiveScene, or the holding scene when no scene is active (resolveScene).
LiveScene == IF active = None THEN Holding ELSE scenes[active]

-----------------------------------------------------------------------------
(* Server-level calls. *)

Called == calls < MaxCalls /\ calls' = calls + 1

\* Where a call goes on: the migration, then the scenes to tear down.
Proceed(prev, next, tear) ==
  IF prev # None
    THEN [Idle EXCEPT !.pc = "migrate1", !.prev = prev, !.next = next, !.tear = tear]
    ELSE IF tear # {} THEN [Idle EXCEPT !.pc = "tear", !.tear = tear] ELSE Idle

\* Mutant: the first scene becomes active and the holding subscribers stay.
NewScene_ForgetsHolding(a, id, o) ==
  /\ admin[a] = Idle
  /\ IF scenes[id] = None THEN "new" \in Operations[a] ELSE "replace" \in Operations[a]
  /\ Called
  /\ o \in Objs \ created
  /\ created' = created \cup {o}
  /\ scenes' = [scenes EXCEPT ![id] = o]
  /\ active' = IF active = None THEN id ELSE active
  /\ admin' = [admin EXCEPT ![a] = Proceed(None, o, {scenes[id]} \ {None})]
  /\ UNCHANGED <<subscribers, torn, rejected, seq, handlerVars, subVars, panicVars>>

\* NewScene, under server.mu: put a new object under id; the first scene of an
\* empty show becomes active and will adopt the holding subscribers; an object
\* that was under id will be torn down.
NewScene(a, id, o) ==
  /\ admin[a] = Idle
  /\ IF scenes[id] = None THEN "new" \in Operations[a] ELSE "replace" \in Operations[a]
  /\ Called
  /\ o \in Objs \ created
  /\ created' = created \cup {o}
  /\ scenes' = [scenes EXCEPT ![id] = o]
  /\ active' = IF active = None THEN id ELSE active
  /\ admin' = [admin EXCEPT ![a] =
       Proceed(IF active = None THEN Holding ELSE None, o, {scenes[id]} \ {None})]
  /\ UNCHANGED <<subscribers, torn, rejected, seq, handlerVars, subVars, panicVars>>

\* SetActive, under server.mu.  (An unknown id and the active id do nothing.)
SetActive(a, id) ==
  /\ admin[a] = Idle
  /\ "active" \in Operations[a]
  /\ Called
  /\ scenes[id] # None
  /\ active # id
  /\ active' = id
  /\ admin' = [admin EXCEPT ![a] = Proceed(LiveScene, scenes[id], {})]
  /\ UNCHANGED <<scenes, created, subscribers, torn, rejected, seq, handlerVars,
                 subVars, panicVars>>

\* Reset, under server.mu: forget every scene; they will be torn down.
Reset(a) ==
  /\ admin[a] = Idle
  /\ "reset" \in Operations[a]
  /\ Called
  /\ scenes' = [i \in Ids |-> None]
  /\ active' = None
  /\ admin' = [admin EXCEPT ![a] = Proceed(None, None, Registered)]
  /\ UNCHANGED <<created, subscribers, torn, rejected, seq, handlerVars, subVars, panicVars>>

\* Scene.Reject on a scene the caller holds.
Reject(a, o) ==
  /\ admin[a] = Idle
  /\ "reject" \in Operations[a]
  /\ Called
  /\ o \in created \ (rejected \cup locked)
  /\ rejected' = rejected \cup {o}
  /\ UNCHANGED <<scenes, active, created, subscribers, torn, seq, admin, handlerVars,
                 subVars, panicVars>>

\* What is left of a's call after the migration.
AfterMigration(a) == Proceed(None, None, admin[a].tear)

\* Mutant: the live subscriptions stay registered with the previous scene.
migrate1_KeepsMembers(a) ==
  LET prev == admin[a].prev
      live == subscribers[prev] \cap Live
  IN  /\ admin[a].pc = "migrate1"
      /\ prev \notin locked
      /\ seq' = [seq EXCEPT ![prev] = @ + 1]
      /\ admin' = [admin EXCEPT ![a] =
           IF live = {} THEN AfterMigration(a)
           ELSE [@ EXCEPT !.pc = "migrate2", !.transit = live, !.bump = seq'[prev]]]
      /\ UNCHANGED <<sceneVars, subscribers, torn, handlerVars, subVars, panicVars, calls>>

\* Mutant: the filter on live mode is dropped.
migrate1_MovesAll(a) ==
  LET prev == admin[a].prev
      all == subscribers[prev]
  IN  /\ admin[a].pc = "migrate1"
      /\ prev \notin locked
      /\ subscribers' = [subscribers EXCEPT ![prev] = {}]
      /\ seq' = [seq EXCEPT ![prev] = @ + 1]
      /\ admin' = [admin EXCEPT ![a] =
           IF all = {} THEN AfterMigration(a)
           ELSE [@ EXCEPT !.pc = "migrate2", !.transit = all, !.bump = seq'[prev]]]
      /\ UNCHANGED <<sceneVars, torn, handlerVars, subVars, panicVars, calls>>

\* Mutant: the SceneChanged reuses the number of prev's last frame.
migrate1_NoBump(a) ==
  LET prev == admin[a].prev
      live == subscribers[prev] \cap Live
  IN  /\ admin[a].pc = "migrate1"
      /\ prev \notin locked
      /\ subscribers' = [subscribers EXCEPT ![prev] = @ \ live]
      /\ admin' = [admin EXCEPT ![a] =
           IF live = {} THEN AfterMigration(a)
           ELSE [@ EXCEPT !.pc = "migrate2", !.transit = live, !.bump = seq[prev]]]
      /\ UNCHANGED <<sceneVars, torn, seq, handlerVars, subVars, panicVars, calls>>

\* migrateLive, under prev.mu: the live subscriptions leave prev, whose
\* counter takes one more step for their SceneChanged even if there are none.
migrate1(a) ==
  LET prev == admin[a].prev
      live == subscribers[prev] \cap Live
  IN  /\ admin[a].pc = "migrate1"
      /\ prev \notin locked
      /\ subscribers' = [subscribers EXCEPT ![prev] = @ \ live]
      /\ seq' = [seq EXCEPT ![prev] = @ + 1]
      /\ admin' = [admin EXCEPT ![a] =
           IF live = {} THEN AfterMigration(a)
           ELSE [@ EXCEPT !.pc = "migrate2", !.transit = live, !.bump = seq'[prev]]]
      /\ UNCHANGED <<sceneVars, torn, handlerVars, subVars, panicVars, calls>>

\* Mutant: the second phase joins the scene without sending its Snapshot.
migrate2_NoSnapshot(a) ==
  LET next == admin[a].next
      moved == admin[a].transit
      some == {s \in moved : Free(s) >= 1}
  IN  /\ admin[a].pc = "migrate2"
      /\ next \notin torn \cup locked
      /\ out' = [s \in Subs |->
           IF s \in some THEN Append(out[s], Frame("changed", next, admin[a].bump)) ELSE out[s]]
      /\ stale' = [s \in Subs |-> stale[s] \/ s \in moved \ some]
      /\ subscribers' = [subscribers EXCEPT ![next] = @ \cup some]
      /\ admin' = [admin EXCEPT ![a] = AfterMigration(a)]
      /\ UNCHANGED <<sceneVars, torn, seq, handlerVars, closed, client, panicVars, calls>>

\* migrateLive, under next.mu: SceneChanged at prev's number, then a Snapshot
\* at next's.  A subscription without room for both is marked stale and joins
\* no scene; the others join next.
migrate2(a) ==
  LET next == admin[a].next
      moved == admin[a].transit
      two == {s \in moved : Free(s) >= 2}
      one == {s \in moved : Free(s) = 1}
      changed == Frame("changed", next, admin[a].bump)
  IN  /\ admin[a].pc = "migrate2"
      /\ next \notin locked
      /\ next \in torn => two = {}
      /\ out' = [s \in Subs |->
           IF s \in two THEN out[s] \o <<changed, Frame("snapshot", next, seq[next])>>
           ELSE IF s \in one THEN Append(out[s], changed) ELSE out[s]]
      /\ stale' = [s \in Subs |-> stale[s] \/ s \in moved \ two]
      /\ subscribers' = [subscribers EXCEPT ![next] = @ \cup two]
      /\ admin' = [admin EXCEPT ![a] = AfterMigration(a)]
      /\ UNCHANGED <<sceneVars, torn, seq, handlerVars, closed, client, panicVars, calls>>

\* The same where next has a nil map: the first subscription with room for both
\* frames, f, gets them and is not registered - a panic.  B are those without
\* room that came before it; the others are never looked at.  The caller's call
\* ends there, next.mu stays locked, and nobody knows the subscriptions any more.
migrate2Panics(a) ==
  LET next == admin[a].next
      moved == admin[a].transit
      two == {s \in moved : Free(s) >= 2}
      one == {s \in moved : Free(s) = 1}
      changed == Frame("changed", next, admin[a].bump)
  IN  /\ admin[a].pc = "migrate2"
      /\ next \in torn \ locked
      /\ \E f \in two : \E B \in SUBSET (moved \ two) :
           /\ out' = [s \in Subs |->
                IF s = f THEN out[s] \o <<changed, Frame("snapshot", next, seq[next])>>
                ELSE IF s \in one \cap B THEN Append(out[s], changed) ELSE out[s]]
           /\ stale' = [s \in Subs |-> stale[s] \/ s \in B]
      /\ admin' = [admin EXCEPT ![a] = Idle]
      /\ locked' = locked \cup {next}
      /\ lost' = lost \cup moved
      /\ UNCHANGED <<sceneVars, subscribers, torn, seq, handlerVars, closed, client, calls>>

\* Mutant: the channels are closed but the map keeps its entries.
tearDown_KeepsMembers(a, o) ==
  /\ admin[a].pc = "tear"
  /\ o \in admin[a].tear \ locked
  /\ closed' = [s \in Subs |-> closed[s] \/ s \in subscribers[o]]
  /\ torn' = torn \cup {o}
  /\ admin' = [admin EXCEPT ![a] = Proceed(None, None, admin[a].tear \ {o})]
  /\ UNCHANGED <<sceneVars, subscribers, seq, handlerVars, stale, out, client, panicVars, calls>>

\* Mutant: the map goes and the channels stay open.
tearDown_NoClose(a, o) ==
  /\ admin[a].pc = "tear"
  /\ o \in admin[a].tear \ locked
  /\ subscribers' = [subscribers EXCEPT ![o] = {}]
  /\ torn' = torn \cup {o}
  /\ admin' = [admin EXCEPT ![a] = Proceed(None, None, admin[a].tear \ {o})]
  /\ UNCHANGED <<sceneVars, seq, handlerVars, subVars, panicVars, calls>>

\* NewScene and Reset, under the old scene's mu: close every subscription of o
\* and set its map to nil.
tearDown(a, o) ==
  /\ admin[a].pc = "tear"
  /\ o \in admin[a].tear \ locked
  /\ closed' = [s \in Subs |-> closed[s] \/ s \in subscribers[o]]
  /\ subscribers' = [subscribers EXCEPT ![o] = {}]
  /\ torn' = torn \cup {o}
  /\ admin' = [admin EXCEPT ![a] = Proceed(None, None, admin[a].tear \ {o})]
  /\ UNCHANGED <<sceneVars, seq, handlerVars, stale, out, client, panicVars, calls>>

-----------------------------------------------------------------------------
(* Emissions. *)

\* A frame reaches the client: a Snapshot or a SceneChanged sets the scene it
\* shows; a Delta that skips a number is not applied (the client hangs up).
Received(c, f) ==
  IF f.type = "delta" /\ f.seq # c.last + 1 THEN c
  ELSE [scene |-> f.scene, last |-> f.seq]

\* Mutant: the Delta is queued without looking for room.
emit_NoRoomCheck(o, K) ==
  /\ o \in created \ locked
  /\ Called
  /\ K = {}
  /\ seq' = [seq EXCEPT ![o] = @ + 1]
  /\ out' = [s \in Subs |->
       IF s \in subscribers[o] THEN Append(out[s], Frame("delta", o, seq'[o])) ELSE out[s]]
  /\ UNCHANGED <<sceneVars, subscribers, torn, admin, handlerVars, closed, stale, client, panicVars>>

\* emitWithCause on object o, by an adapter that holds it or by a client's
\* Input, which the handler applies to the scene it captured (the holding scene
\* included) wherever the subscription is by then.  Of the subscribers whose queue
\* is full, those in K are drained by one frame before the second attempt and
\* get the collapse Snapshot; the others are marked stale.
emit(o, K) ==
  LET fit == {s \in subscribers[o] : Free(s) >= 1}
      n == seq[o] + 1
  IN  /\ o \in created \/ \E s \in Subs : conn[s] = "run" /\ captured[s] = o
      /\ o \notin locked
      /\ Called
      /\ K \subseteq {s \in subscribers[o] \ fit : conn[s] = "run" /\ client[s].last # 0}
      /\ seq' = [seq EXCEPT ![o] = n]
      /\ out' = [s \in Subs |->
           IF s \in fit THEN Append(out[s], Frame("delta", o, n))
           ELSE IF s \in K THEN Append(Tail(out[s]), Frame("snapshot", o, n)) ELSE out[s]]
      /\ client' = [s \in Subs |-> IF s \in K THEN Received(client[s], Head(out[s])) ELSE client[s]]
      /\ stale' = [s \in Subs |-> stale[s] \/ s \in subscribers[o] \ (fit \cup K)]
      /\ UNCHANGED <<sceneVars, subscribers, torn, admin, handlerVars, closed, panicVars>>

-----------------------------------------------------------------------------
(* Connection handlers. *)

\* resolveScene: the live scene, or a registered one in test mode.
resolveScene(s, o) ==
  /\ conn[s] = "off"
  /\ IF s \in Live THEN o = LiveScene ELSE o \in Registered
  /\ captured' = [captured EXCEPT ![s] = o]
  /\ conn' = [conn EXCEPT ![s] = "resolved"]
  /\ UNCHANGED <<sceneVars, subscribers, torn, seq, admin, todo, late, subVars, panicVars, calls>>

\* The Rejection check of serveLSDP: an error frame and the end, or go on.
checkRejection(s) ==
  /\ conn[s] = "resolved"
  /\ captured[s] \notin locked
  /\ conn' = [conn EXCEPT ![s] = IF captured[s] \in rejected THEN "gone" ELSE "checked"]
  /\ UNCHANGED <<sceneVars, subscribers, torn, seq, admin, captured, todo, late, subVars,
                 panicVars, calls>>

\* subscribeWithResume without since_sequence, under the captured scene's mu:
\* register and answer with a Snapshot, which serveLSDP writes before anything
\* queued.  A nil map is a panic, which net/http recovers: this handler ends.
subscribe(s) ==
  LET o == captured[s]
  IN  /\ conn[s] = "checked"
      /\ o \notin locked
      /\ IF o \in torn
           THEN /\ conn' = [conn EXCEPT ![s] = "panicked"]
                /\ UNCHANGED <<subscribers, out, late>>
           ELSE /\ subscribers' = [subscribers EXCEPT ![o] = @ \cup {s}]
                /\ out' = [out EXCEPT ![s] = <<Frame("snapshot", o, seq[o])>>]
                /\ conn' = [conn EXCEPT ![s] = "run"]
                /\ late' = [late EXCEPT ![s] = s \in Live /\ o # LiveScene]
      /\ UNCHANGED <<sceneVars, torn, seq, admin, captured, todo, closed, stale, client,
                     panicVars, calls>>

\* The first frame, then writerLoop: a closed channel is drained before it
\* reports its end.
deliver(s) ==
  /\ conn[s] = "run"
  /\ out[s] # <<>>
  /\ client' = [client EXCEPT ![s] = Received(@, Head(out[s]))]
  /\ out' = [out EXCEPT ![s] = Tail(@)]
  /\ UNCHANGED <<sceneVars, subscribers, torn, seq, admin, handlerVars, closed, stale,
                 panicVars, calls>>

\* The read side ends: the client left, sent Unsubscribe or something the
\* handler refuses.  Nothing else ends runConnection: the end of the channel
\* ends only the writer.
hangUp(s) ==
  /\ conn[s] = "run"
  /\ conn' = [conn EXCEPT ![s] = "closing"]
  /\ UNCHANGED <<sceneVars, subscribers, torn, seq, admin, captured, todo, late, subVars,
                 panicVars, calls>>

\* detach: list the registered scenes and holding, under server.mu.
detach(s) ==
  /\ conn[s] = "closing"
  /\ conn' = [conn EXCEPT ![s] = "detaching"]
  /\ todo' = [todo EXCEPT ![s] = Registered \cup {Holding}]
  /\ UNCHANGED <<sceneVars, subscribers, torn, seq, admin, captured, late, subVars,
                 panicVars, calls>>

\* unsubscribe on one of the listed scenes, under its mu.
unsubscribe(s, o) ==
  /\ conn[s] = "detaching"
  /\ o \in todo[s] \ locked
  /\ subscribers' = [subscribers EXCEPT ![o] = @ \ {s}]
  /\ closed' = [closed EXCEPT ![s] = @ \/ s \in subscribers[o]]
  /\ todo' = [todo EXCEPT ![s] = @ \ {o}]
  /\ conn' = [conn EXCEPT ![s] = IF todo'[s] = {} THEN "gone" ELSE @]
  /\ UNCHANGED <<sceneVars, torn, seq, admin, captured, late, stale, out, client, panicVars, calls>>

-----------------------------------------------------------------------------

AdminStep(a) ==
  \/ migrate1(a)
  \/ migrate2(a)
  \/ migrate2Panics(a)
  \/ \E o \in Objs : tearDown(a, o)

HandlerStep(s) ==
  \/ checkRejection(s)
  \/ subscribe(s)
  \/ deliver(s)
  \/ detach(s)
  \/ \E o \in Scenes : unsubscribe(s, o)

Next ==
  \/ \E a \in Admins :
       \/ \E id \in Ids : \E o \in Objs : NewScene(a, id, o)
       \/ \E id \in Ids : SetActive(a, id)
       \/ Reset(a)
       \/ \E o \in Objs : Reject(a, o)
       \/ AdminStep(a)
  \/ \E o \in Scenes : \E K \in SUBSET subscribers[o] : emit(o, K)
  \/ \E s \in Subs :
       \/ \E o \in Scenes : resolveScene(s, o)
       \/ HandlerStep(s)
       \/ hangUp(s)

Spec == Init /\ [][Next]_vars

\* Calls and handlers run to their end; clients come and leave as they like.
Fairness ==
  /\ \A a \in Admins : WF_vars(AdminStep(a))
  /\ \A s \in Subs : WF_vars(HandlerStep(s))

FairSpec == Spec /\ Fairness

-----------------------------------------------------------------------------
(* Properties. *)

\* A subscription has one owner: it is registered with at most one scene, or
\* on the way with exactly one goroutine, never both - however NewScene,
\* SetActive, Reset and detach interleave.
OneOwner ==
  \A s \in Subs :
    /\ \A o1, o2 \in Scenes : s \in subscribers[o1] /\ s \in subscribers[o2] => o1 = o2
    /\ \A a1, a2 \in Admins : s \in admin[a1].transit /\ s \in admin[a2].transit => a1 = a2
    /\ \A o \in Scenes, a \in Admins : ~ (s \in subscribers[o] /\ s \in admin[a].transit)

\* Nobody can send on a closed channel (a panic in Go): once unsubscribe,
\* NewScene or Reset has closed a subscription it is in no subscribers map and
\* no migration holds it, so no fan-out can reach it.
NoSendOnClosed ==
  \A s \in Subs : closed[s] =>
    /\ \A o \in Scenes : s \notin subscribers[o]
    /\ \A a \in Admins : s \notin admin[a].transit

\* What is on its way to a client is about the scene it shows when it gets
\* there: a delta follows a frame of the same scene, and what follows a
\* SceneChanged is the Snapshot of the scene it names.  frames.go asks for more:
\* "The next server frame after a SceneChanged MUST be a Snapshot with seq = 1";
\* of this only the Snapshot is stated here, its number is SnapshotAtOne below.
SceneCoherent ==
  \A s \in Subs : \A i \in 1 .. Len(out[s]) :
    LET f == out[s][i]
        before == IF i = 1 THEN client[s].scene ELSE out[s][i - 1].scene
        afterChange == i > 1 /\ out[s][i - 1].type = "changed"
    IN  /\ f.type = "delta" => f.scene = before /\ ~ afterChange
        /\ afterChange => f.type = "snapshot" /\ f.scene = before

\* What is on its way to s continues the numbers the client has: a Delta and a
\* SceneChanged are successors.
Continues(s) ==
  conn[s] = "run" /\ ~ stale[s] =>
    \A i \in 1 .. Len(out[s]) :
      LET n == IF i = 1 THEN client[s].last ELSE out[s][i - 1].seq
      IN  out[s][i].type # "snapshot" => out[s][i].seq = n + 1

\* The numbers a live client gets continue across scenes: the SceneChanged
\* that migrateLive sends is the successor of the last delta of the scene the
\* client leaves, and deltas of the new scene follow its Snapshot.
LiveNoGap == \A s \in Live : Continues(s)

\* A test-mode session is pinned to the scene it asked for: whatever becomes
\* active, is replaced or reset, it is registered nowhere else and every frame
\* on its way to the client, and the client's view, is of that scene.
TestPinned ==
  \A s \in Test :
    /\ \A o \in Scenes : s \in subscribers[o] => o = captured[s]
    /\ \A i \in 1 .. Len(out[s]) : out[s][i].scene = captured[s]
    /\ client[s].scene \in {None, captured[s]}

Quiet == \A a \in Admins : admin[a] = Idle

\* A live client that subscribed to the live scene is on the live scene when
\* no call is under way, also when scenes are replaced beside the goroutine that
\* registers, switches and resets.  Not so the one that was marked stale or has
\* left, whose scene was replaced or reset under it, or that a migration had in
\* hand when it panicked.
LiveFollows ==
  Quiet => \A s \in Live :
    conn[s] = "run" /\ ~ stale[s] /\ ~ late[s] /\ ~ closed[s] /\ s \notin lost =>
      s \in subscribers[LiveScene]

-----------------------------------------------------------------------------
(* What the code's comments say and the model refutes (README). *)

\* A handler that has finished leaves no subscription behind: detach removes
\* it "from whichever scene currently owns it ... so a migration during
\* SetActive does not leak".
NoLeak == \A s \in Subs : conn[s] = "gone" => \A o \in Scenes : s \notin subscribers[o]

\* The other half of the sentence in frames.go: the Snapshot after a SceneChanged
\* has "seq = 1", as SetActive's comment has it ("a fresh Snapshot at seq=1").
SnapshotAtOne ==
  \A s \in Subs : \A i \in 2 .. Len(out[s]) :
    out[s][i - 1].type = "changed" => out[s][i].seq = 1

\* No goroutine writes to the nil map of a scene that was replaced or reset.
NoPanic == locked = {} /\ \A s \in Subs : conn[s] # "panicked"

\* A rejected scene sends no snapshot.
RejectedNotServed ==
  [][\A s \in Subs : \A o \in rejected :
       Len(out'[s]) > Len(out[s]) => out'[s][Len(out'[s])] # Frame("snapshot", o, seq'[o])]_vars

\* The subscribers of a replaced scene get away from it ("they'll reconnect"):
\* a connection whose channel was closed ends.
ClosedConnectionsEnd ==
  \A s \in Subs : (conn[s] = "run" /\ closed[s]) ~> (conn[s] # "run")

\* LiveFollows without its exception for the clients that subscribed late: a live
\* subscription "follows whatever scene is currently active on the server".
LiveFollowsActive ==
  Quiet => \A s \in Live :
    conn[s] = "run" /\ ~ stale[s] /\ ~ closed[s] /\ s \notin lost =>
      s \in subscribers[LiveScene]

\* LiveNoGap for the test-mode clients of a scene, which no migration moves: "each
\* subsequent Delta / SceneChanged / Error increments by 1".
TestNoGap == \A s \in Test : Continues(s)
=============================================================================
