----------------------------- MODULE ShowFrames -----------------------------
(***************************************************************************)
(* The show-level frames of server/server.go: the scene roster and the     *)
(* overlay-app state.  Each is cached whole, fanned out to the live 1.1    *)
(* subscriptions of every scene, and replayed from the cache to each new   *)
(* one (server/ws_handler.go).                                             *)
(*                                                                         *)
(* The cache has a mutex of its own, the list of scenes is taken under     *)
(* server.mu, and each scene's subscriptions are visited under that scene's*)
(* mu: between any two of these the other goroutines run.  A caller        *)
(* (an Admin) is in one call at a time: SetRoster or SetOverlayApps        *)
(* (cache; list; visit ...), NewScene of an id in use (switch; tearDown),  *)
(* or NewScene of the first id or SetActive (switch; migrate1; migrate2).  *)
(* The callers are the embedding program's own goroutines.                 *)
(*                                                                         *)
(* A scene here is an object.  A NewScene that reuses an id puts another   *)
(* object in its place, closes the old one's subscriptions and sets its    *)
(* map to nil; a closed subscription is in no later fan-out and, though    *)
(* its connection stays, gets nothing any more.                            *)
(*                                                                         *)
(* What a cached value is does not matter, only which call set it: a value *)
(* is the number of the call, 0 before the first.  Subs are the live       *)
(* connections that negotiated 1.1; both senders skip all others.          *)
(***************************************************************************)
EXTENDS Naturals, Sequences, FiniteSets

CONSTANTS
  Admins,      \* goroutines that make the calls
  Allowed,     \* Allowed[a]: the calls a makes, of {"roster", "overlay", "new", "replace", "active"}
  Scenes,      \* the scene objects NewScene can create
  Holding,     \* the holding scene
  Subs,        \* live connections that negotiated lsdp.v1.1
  OutCap,      \* capacity of a subscription's out channel
  MaxCalls,    \* bound on the calls together
  None         \* no scene

ASSUME AllowedAssumption ==
  Allowed \in [Admins -> SUBSET {"roster", "overlay", "new", "replace", "active"}]
ASSUME ScenesAssumption == Holding \notin Scenes /\ None \notin Scenes \cup {Holding}
ASSUME BoundsAssumption == OutCap \in Nat \ {0} /\ MaxCalls \in Nat

Kinds == {"roster", "overlay"}

VARIABLES
  cache,       \* Server.roster, Server.overlay and their Set flags
  registered,  \* the objects in Server.scenes
  active,      \* the object under Server.active
  created,     \* the objects that exist
  torn,        \* the objects whose subscribers map is nil
  admin,       \* per admin: where it is in its call
  member,      \* the scene whose subscribers map holds the subscription
  conn,        \* per connection: where its handler is
  captured,    \* the scene the handler resolved
  out,         \* subscription.out
  stale,       \* subscription.stale
  closed,      \* subscription.closed
  shown,       \* what the client has of each kind
  calls        \* calls so far

sceneVars == <<registered, active, created, torn>>
connVars == <<member, conn, captured, out, stale, closed, shown>>
vars == <<cache, registered, active, created, torn, admin, member, conn, captured, out, stale,
          closed, shown, calls>>

Idle == [pc |-> "idle"]

ShowFrame(k, n) == [kind |-> k, value |-> n]

\* SceneChanged and Snapshot, which take their slots.
SceneFrame == [kind |-> "scene", value |-> 0]

LiveScene == IF active = None THEN Holding ELSE active

\* The shape of the state; a queue never outgrows its channel.
TypeOK ==
  /\ cache \in [Kinds -> Nat]
  /\ registered \subseteq Scenes
  /\ active \in registered \cup {None}
  /\ created \subseteq Scenes
  /\ torn \subseteq Scenes
  /\ \A a \in Admins :
       \/ admin[a] = Idle
       \/ admin[a] \in [pc : {"list", "visit"}, kind : Kinds, value : Nat,
                        todo : SUBSET (Scenes \cup {Holding})]
       \/ admin[a] \in [pc : {"migrate1", "migrate2"}, prev : Scenes \cup {Holding},
                        next : Scenes, transit : SUBSET Subs]
       \/ admin[a] \in [pc : {"tear"}, old : Scenes]
  /\ member \in [Subs -> Scenes \cup {Holding, None}]
  /\ conn \in [Subs -> {"off", "resolved", "roster", "overlay", "run", "gone"}]
  /\ captured \in [Subs -> Scenes \cup {Holding, None}]
  /\ out \in [Subs -> Seq([kind : Kinds \cup {"scene"}, value : Nat])]
  /\ \A s \in Subs : Len(out[s]) <= OutCap
  /\ stale \in [Subs -> BOOLEAN]
  /\ closed \in [Subs -> BOOLEAN]
  /\ shown \in [Subs -> [Kinds -> Nat]]
  /\ calls \in 0 .. MaxCalls

Init ==
  /\ cache = [k \in Kinds |-> 0]
  /\ registered = {}
  /\ active = None
  /\ created = {}
  /\ torn = {}
  /\ admin = [a \in Admins |-> Idle]
  /\ member = [s \in Subs |-> None]
  /\ conn = [s \in Subs |-> "off"]
  /\ captured = [s \in Subs |-> None]
  /\ out = [s \in Subs |-> <<>>]
  /\ stale = [s \in Subs |-> FALSE]
  /\ closed = [s \in Subs |-> FALSE]
  /\ shown = [s \in Subs |-> [k \in Kinds |-> 0]]
  /\ calls = 0

Called == calls < MaxCalls /\ calls' = calls + 1

-----------------------------------------------------------------------------
(* SetRoster and SetOverlayApps. *)

\* Under rosterMu or overlayMu: replace the cached value.
cacheShowFrame(a, k) ==
  /\ admin[a] = Idle
  /\ k \in Allowed[a]
  /\ Called
  /\ cache' = [cache EXCEPT ![k] = calls']
  /\ admin' = [admin EXCEPT ![a] = [pc |-> "list", kind |-> k, value |-> calls', todo |-> {}]]
  /\ UNCHANGED <<sceneVars, connVars>>

\* Mutant: only the registered scenes are listed.
allFanoutScenes_NoHolding(a) ==
  /\ admin[a].pc = "list"
  /\ admin' = [admin EXCEPT ![a] =
       IF registered = {} THEN Idle ELSE [@ EXCEPT !.pc = "visit", !.todo = registered]]
  /\ UNCHANGED <<cache, sceneVars, connVars, calls>>

\* allFanoutScenes, under server.mu: the registered scenes, then holding.
allFanoutScenes(a) ==
  /\ admin[a].pc = "list"
  /\ admin' = [admin EXCEPT ![a].pc = "visit", ![a].todo = registered \cup {Holding}]
  /\ UNCHANGED <<cache, sceneVars, connVars, calls>>

\* The members of S whose queue has n free slots.
Room(S, n) == {s \in S : Len(out[s]) + n <= OutCap}

\* fanoutShowFrame, one scene under its mu (the registered ones in any order,
\* holding last): a subscription without room is marked stale.
fanoutShowFrame(a, o) ==
  LET members == {s \in Subs : member[s] = o}
      fit == Room(members, 1)
      rest == admin[a].todo \ {o}
  IN  /\ admin[a].pc = "visit"
      /\ o \in admin[a].todo
      /\ o = Holding => admin[a].todo = {Holding}
      /\ out' = [s \in Subs |->
           IF s \in fit THEN Append(out[s], ShowFrame(admin[a].kind, admin[a].value)) ELSE out[s]]
      /\ stale' = [s \in Subs |-> stale[s] \/ s \in members \ fit]
      /\ admin' = [admin EXCEPT ![a] =
           IF rest = {} THEN Idle ELSE [@ EXCEPT !.todo = rest]]
      /\ UNCHANGED <<cache, sceneVars, member, conn, captured, closed, shown, calls>>

-----------------------------------------------------------------------------
(* NewScene and SetActive. *)

Migration(prev, next) == [pc |-> "migrate1", prev |-> prev, next |-> next, transit |-> {}]

\* NewScene, under server.mu: o comes under an unused id (p = None) or takes the
\* place of p.  The first scene becomes active and adopts the holding
\* subscribers; an id that is active stays so, now with o under it.
NewScene(a, o, p) ==
  /\ admin[a] = Idle
  /\ IF p = None THEN "new" \in Allowed[a] ELSE "replace" \in Allowed[a] /\ p \in registered
  /\ Called
  /\ o \in Scenes \ created
  /\ created' = created \cup {o}
  /\ registered' = (registered \ {p}) \cup {o}
  /\ active' = IF active \in {None, p} THEN o ELSE active
  /\ admin' = [admin EXCEPT ![a] =
       IF active = None THEN Migration(Holding, o)
       ELSE IF p # None THEN [pc |-> "tear", old |-> p] ELSE Idle]
  /\ UNCHANGED <<cache, torn, connVars>>

\* The end of a NewScene that replaced a scene, under the old one's mu: its
\* subscriptions are closed and its map becomes nil.
tearDown(a) ==
  LET gone == {s \in Subs : member[s] = admin[a].old}
  IN  /\ admin[a].pc = "tear"
      /\ member' = [s \in Subs |-> IF s \in gone THEN None ELSE member[s]]
      /\ closed' = [s \in Subs |-> closed[s] \/ s \in gone]
      /\ torn' = torn \cup {admin[a].old}
      /\ admin' = [admin EXCEPT ![a] = Idle]
      /\ UNCHANGED <<cache, registered, active, created, conn, captured, out, stale, shown, calls>>

\* SetActive of another registered scene.
SetActive(a, o) ==
  /\ admin[a] = Idle
  /\ "active" \in Allowed[a]
  /\ Called
  /\ o \in registered
  /\ active # o
  /\ active' = o
  /\ admin' = [admin EXCEPT ![a] = Migration(LiveScene, o)]
  /\ UNCHANGED <<cache, registered, created, torn, connVars>>

\* migrateLive under prev.mu: its subscriptions are with the caller now.
migrate1(a) ==
  LET moved == {s \in Subs : member[s] = admin[a].prev}
  IN  /\ admin[a].pc = "migrate1"
      /\ member' = [s \in Subs |-> IF s \in moved THEN None ELSE member[s]]
      /\ admin' = [admin EXCEPT ![a] =
           IF moved = {} THEN Idle ELSE [@ EXCEPT !.pc = "migrate2", !.transit = moved]]
      /\ UNCHANGED <<cache, sceneVars, conn, captured, out, stale, closed, shown, calls>>

\* Mutant: the subscriptions without room are not marked stale.
migrate2_NeverStale(a) ==
  LET moved == admin[a].transit
      two == Room(moved, 2)
      one == Room(moved, 1) \ two
  IN  /\ admin[a].pc = "migrate2"
      /\ admin[a].next \in torn => two = {}
      /\ out' = [s \in Subs |->
           IF s \in two THEN out[s] \o <<SceneFrame, SceneFrame>>
           ELSE IF s \in one THEN Append(out[s], SceneFrame) ELSE out[s]]
      /\ member' = [s \in Subs |-> IF s \in two THEN admin[a].next ELSE member[s]]
      /\ admin' = [admin EXCEPT ![a] = Idle]
      /\ UNCHANGED <<cache, sceneVars, conn, captured, stale, closed, shown, calls>>

\* migrateLive under next.mu: SceneChanged and Snapshot, for those with room.
\* The write to the map of a scene that another caller replaced meanwhile is a
\* panic, which ends the program (LiveServer has the one that is recovered).
migrate2(a) ==
  LET moved == admin[a].transit
      two == Room(moved, 2)
      one == Room(moved, 1) \ two
  IN  /\ admin[a].pc = "migrate2"
      /\ admin[a].next \in torn => two = {}
      /\ out' = [s \in Subs |->
           IF s \in two THEN out[s] \o <<SceneFrame, SceneFrame>>
           ELSE IF s \in one THEN Append(out[s], SceneFrame) ELSE out[s]]
      /\ stale' = [s \in Subs |-> stale[s] \/ s \in moved \ two]
      /\ member' = [s \in Subs |-> IF s \in two THEN admin[a].next ELSE member[s]]
      /\ admin' = [admin EXCEPT ![a] = Idle]
      /\ UNCHANGED <<cache, sceneVars, conn, captured, closed, shown, calls>>

-----------------------------------------------------------------------------
(* Connections. *)

\* resolveScene in live mode.
resolveScene(s) ==
  /\ conn[s] = "off"
  /\ conn' = [conn EXCEPT ![s] = "resolved"]
  /\ captured' = [captured EXCEPT ![s] = LiveScene]
  /\ UNCHANGED <<cache, sceneVars, admin, member, out, stale, closed, shown, calls>>

\* subscribeWithResume: from here on every fan-out reaches the queue.  On a
\* scene that was replaced since it is a panic, and the handler ends.
subscribe(s) ==
  /\ conn[s] = "resolved"
  /\ IF captured[s] \in torn
       THEN conn' = [conn EXCEPT ![s] = "gone"] /\ member' = member
       ELSE /\ conn' = [conn EXCEPT ![s] = "roster"]
            /\ member' = [member EXCEPT ![s] = captured[s]]
  /\ UNCHANGED <<cache, sceneVars, admin, captured, out, stale, closed, shown, calls>>

\* serveLSDP, before the writer starts: rosterFrame, then overlayAppsFrame,
\* each read from the cache (nothing is sent for one never set) and written
\* ahead of the queue.
replayShowFrame(s, k) ==
  /\ conn[s] = k
  /\ shown' = [shown EXCEPT ![s][k] = cache[k]]
  /\ conn' = [conn EXCEPT ![s] = IF k = "roster" THEN "overlay" ELSE "run"]
  /\ UNCHANGED <<cache, sceneVars, admin, member, captured, out, stale, closed, calls>>

\* writerLoop: one queued frame reaches the client, which keeps the latest.  A
\* closed channel is drained first; its end ends the writer and not the handler.
writerLoop(s) ==
  LET f == Head(out[s])
  IN  /\ conn[s] = "run"
      /\ out[s] # <<>>
      /\ out' = [out EXCEPT ![s] = Tail(@)]
      /\ shown' = [shown EXCEPT ![s] =
           IF f.kind \in Kinds THEN [@ EXCEPT ![f.kind] = f.value] ELSE @]
      /\ UNCHANGED <<cache, sceneVars, admin, member, conn, captured, stale, closed, calls>>

\* The connection ends and detach unsubscribes it from the registered scenes and
\* holding: not from one that a migration or a replacement has in hand.
detach(s) ==
  LET found == member[s] \in registered \cup {Holding}
  IN  /\ conn[s] \in {"roster", "overlay", "run"}
      /\ conn' = [conn EXCEPT ![s] = "gone"]
      /\ member' = [member EXCEPT ![s] = IF found THEN None ELSE @]
      /\ closed' = [closed EXCEPT ![s] = @ \/ found]
      /\ UNCHANGED <<cache, sceneVars, admin, captured, out, stale, shown, calls>>

-----------------------------------------------------------------------------

AdminStep(a) ==
  \/ allFanoutScenes(a)
  \/ \E o \in Scenes \cup {Holding} : fanoutShowFrame(a, o)
  \/ migrate1(a)
  \/ migrate2(a)
  \/ tearDown(a)

HandlerStep(s) ==
  \/ subscribe(s)
  \/ \E k \in Kinds : replayShowFrame(s, k)
  \/ writerLoop(s)

Next ==
  \/ \E a \in Admins :
       \/ \E k \in Kinds : cacheShowFrame(a, k)
       \/ \E o \in Scenes : \E p \in Scenes \cup {None} : NewScene(a, o, p)
       \/ \E o \in Scenes : SetActive(a, o)
       \/ AdminStep(a)
  \/ \E s \in Subs : resolveScene(s) \/ HandlerStep(s) \/ detach(s)

Spec == Init /\ [][Next]_vars

\* Calls and handlers run to their end, mutexes are handed over and a write
\* ends within its timeout; nobody is obliged to call, connect or leave.
Fairness ==
  /\ \A a \in Admins : WF_vars(AdminStep(a))
  /\ \A s \in Subs : WF_vars(HandlerStep(s))

FairSpec == Spec /\ Fairness

-----------------------------------------------------------------------------
(* Properties. *)

\* No call and nothing on its way to s.
Settled(s) ==
  /\ \A a \in Admins : admin[a] = Idle
  /\ conn[s] = "run" /\ out[s] = <<>>

\* Every live 1.1 client that is not marked stale and was not cut off by the
\* replacement of its scene ends up with the cached roster and overlay state,
\* whenever it joined and wherever it was moved: the cache it is replayed and
\* the frames fanned out meet without a hole.
ShowConverges ==
  \A s \in Subs : Settled(s) /\ ~ stale[s] /\ ~ closed[s] => shown[s] = cache

\* The same as progress: a value that stays cached reaches every client that
\* stays connected, is not marked stale and keeps its scene.
ShowDelivered ==
  \A s \in Subs : \A k \in Kinds : \A n \in 1 .. MaxCalls :
    (conn[s] = "run" /\ cache[k] = n)
      ~> (shown[s][k] = n \/ cache[k] # n \/ stale[s] \/ closed[s] \/ conn[s] # "run")

-----------------------------------------------------------------------------
(* What the code's comments say and the model refutes (README). *)

\* ShowConverges for the clients of a replaced scene too: SetRoster fans out "to
\* every live subscriber that negotiated lsdp.v1.1".
EveryoneCurrent ==
  \A s \in Subs : Settled(s) /\ ~ stale[s] => shown[s] = cache
=============================================================================
