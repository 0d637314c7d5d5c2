-------------------------- MODULE ShowFramesProofs --------------------------
(***************************************************************************)
(* Proofs about ShowFrames, for every number of admins, scenes and         *)
(* connections and every queue: the types, and that the replayed cache and *)
(* the fanned-out frames meet without a hole.                              *)
(***************************************************************************)
EXTENDS ShowFrames, TLAPS

-----------------------------------------------------------------------------
(* The hypothesis. *)

\* The calls that change where subscriptions are.
Switching == {"new", "replace", "active"}

\* The admin that publishes a kind of frame is the only one that does, no other
\* registers, replaces or switches scenes, and one admin does all of that.  A
\* single controller is the simplest case; one goroutine for the roster and one
\* for the overlay state, over scenes that stay, is another.  Without it a
\* fan-out can be overtaken or miss a subscription in transit (README, Known
\* deviations).
Orderly ==
  /\ \A a, b \in Admins : \A k \in Kinds :
       k \in Allowed[a] /\ Allowed[b] \cap ({k} \cup Switching) # {} => a = b
  /\ \A a, b \in Admins :
       Allowed[a] \cap Switching # {} /\ Allowed[b] \cap Switching # {} => a = b

-----------------------------------------------------------------------------
(* The inductive invariant. *)

Homes == Scenes \cup {Holding}

FrameType == [kind : Kinds \cup {"scene"}, value : Nat]

FanoutState == [pc : {"list", "visit"}, kind : Kinds, value : Nat, todo : SUBSET Homes]
MigrationState ==
  [pc : {"migrate1", "migrate2"}, prev : Homes, next : Scenes, transit : SUBSET Subs]
TearState == [pc : {"tear"}, old : Scenes]
AdminState == {Idle} \cup FanoutState \cup MigrationState \cup TearState

\* TypeOK, with the domain of admin; a scene is active once there is one.
TypeInv ==
  /\ cache \in [Kinds -> Nat]
  /\ registered \subseteq Scenes
  /\ active \in registered \cup {None}
  /\ active = None => registered = {}
  /\ created \subseteq Scenes
  /\ torn \subseteq Scenes
  /\ admin \in [Admins -> AdminState]
  /\ member \in [Subs -> Scenes \cup {Holding, None}]
  /\ conn \in [Subs -> {"off", "resolved", "roster", "overlay", "run", "gone"}]
  /\ captured \in [Subs -> Scenes \cup {Holding, None}]
  /\ out \in [Subs -> Seq(FrameType)]
  /\ \A s \in Subs : Len(out[s]) <= OutCap
  /\ stale \in [Subs -> BOOLEAN]
  /\ closed \in [Subs -> BOOLEAN]
  /\ shown \in [Subs -> [Kinds -> Nat]]
  /\ calls \in 0 .. MaxCalls

\* Admin state c, of an admin that makes the calls in may: a fan-out has the
\* cached value in hand, and a migration leads to a registered scene.
CallOf(c, may, values, reg) ==
  /\ c.pc \in {"list", "visit"} => c.kind \in may /\ c.value = values[c.kind]
  /\ c.pc \in {"migrate1", "migrate2"} => may \cap Switching # {} /\ c.next \in reg
  /\ c.pc = "tear" => may \cap Switching # {}

CallsInv == \A a \in Admins : CallOf(admin[a], Allowed[a], cache, registered)

Subscribed(s) == conn[s] \in {"roster", "overlay", "run"}

Moving(s) == \E a \in Admins : admin[a].pc = "migrate2" /\ s \in admin[a].transit

\* Scene o was replaced and will be torn down.
Doomed(o) == \E a \in Admins : admin[a].pc = "tear" /\ admin[a].old = o

\* Where a handler can hold scene o.
Known(o) == o \in registered \cup {Holding} \/ Doomed(o)

\* Before it subscribes, a handler is nowhere and its queue empty; it resolves a
\* scene that is registered, replaced since or holding.
Unsubscribed(s) ==
  /\ conn[s] \in {"off", "resolved"} => out[s] = <<>> /\ member[s] = None /\ ~ Moving(s)
  /\ conn[s] = "resolved" => Known(captured[s]) \/ captured[s] \in torn

\* A subscription that is neither stale nor closed is registered, will be closed
\* with its scene, or is being moved.
Placed(s) ==
  Subscribed(s) /\ ~ stale[s] /\ ~ closed[s] => Known(member[s]) \/ Moving(s)

PlaceInv == \A s \in Subs : Unsubscribed(s) /\ Placed(s)

\* A client with value w of kind k that takes the frames q ends up with v.
Ends(q, k, w, v) ==
  /\ \A i \in 1 .. Len(q) :
       q[i].kind = k /\ (\A j \in i + 1 .. Len(q) : q[j].kind # k) => q[i].value = v
  /\ (\A i \in 1 .. Len(q) : q[i].kind # k) => w = v

\* What the client has of kind k when its writer starts on the queue.
Base(c, k, w, v) == IF c = "roster" \/ (c = "overlay" /\ k = "overlay") THEN v ELSE w

\* What is on its way to s makes it current.
Caught(s, k) == Ends(out[s], k, Base(conn[s], k, shown[s][k], cache[k]), cache[k])

\* Admin state c, a fan-out of kind k that is still to visit scene o.
ToVisit(c, k, o) ==
  c.pc \in {"list", "visit"} /\ c.kind = k /\ (c.pc = "list" \/ o \in c.todo)

\* A fan-out of kind k will still reach s.
Pending(s, k) == \E a \in Admins : ToVisit(admin[a], k, member[s])

\* Whoever is subscribed and neither stale nor closed is current, or will be
\* visited.
Open(s) == Subscribed(s) /\ ~ stale[s] /\ ~ closed[s]

MeetInv ==
  \A s \in Subs : Open(s) => \A k \in Kinds : Caught(s, k) \/ Pending(s, k)

ShowInv == TypeInv /\ CallsInv /\ PlaceInv /\ MeetInv

-----------------------------------------------------------------------------
(* Queues. *)

\* A frame of kind k with value v at the end of the queue decides.
LEMMA EndsAppend ==
  ASSUME NEW q \in Seq(FrameType), NEW f \in FrameType, NEW k, NEW w, NEW v,
         f.kind = k, f.value = v
  PROVE  Ends(Append(q, f), k, w, v)
  <1> DEFINE p == Append(q, f)
  <1>1. /\ p \in Seq(FrameType) /\ Len(p) = Len(q) + 1 /\ Len(q) \in Nat
        /\ p[Len(q) + 1] = f
    OBVIOUS
  <1>2. ASSUME NEW i \in 1 .. Len(p), \A j \in i + 1 .. Len(p) : p[j].kind # k
        PROVE  i = Len(q) + 1
    <2>1. SUFFICES ASSUME i # Len(q) + 1 PROVE FALSE
      OBVIOUS
    <2>2. Len(q) + 1 \in i + 1 .. Len(p)
      BY <1>1, <2>1
    <2> QED
      BY <1>1, <1>2, <2>2
  <1>3. Len(q) + 1 \in 1 .. Len(p)
    BY <1>1
  <1> HIDE DEF p
  <1>4. \A i \in 1 .. Len(p) :
          p[i].kind = k /\ (\A j \in i + 1 .. Len(p) : p[j].kind # k) => p[i].value = v
    BY <1>1, <1>2
  <1>5. ~ (\A i \in 1 .. Len(p) : p[i].kind # k)
    BY <1>1, <1>3
  <1>6. Ends(p, k, w, v)
    BY <1>4, <1>5 DEF Ends
  <1> QED
    BY <1>6 DEF p

\* A frame of another kind changes nothing.
LEMMA EndsOther ==
  ASSUME NEW q \in Seq(FrameType), NEW f \in FrameType, NEW k, NEW w, NEW v,
         f.kind # k, Ends(q, k, w, v)
  PROVE  Ends(Append(q, f), k, w, v)
  <1> DEFINE p == Append(q, f)
  <1>1. /\ p \in Seq(FrameType) /\ Len(p) = Len(q) + 1 /\ Len(q) \in Nat
        /\ p[Len(q) + 1] = f /\ \A i \in 1 .. Len(q) : p[i] = q[i]
    OBVIOUS
  <1> HIDE DEF p
  <1>2. ASSUME NEW i \in 1 .. Len(p), p[i].kind = k, \A j \in i + 1 .. Len(p) : p[j].kind # k
        PROVE  p[i].value = v
    <2>1. i \in 1 .. Len(q) /\ p[i] = q[i]
      BY <1>1, <1>2
    <2>2. \A j \in i + 1 .. Len(q) : q[j].kind # k
      BY <1>1, <1>2, <2>1
    <2> QED
      BY <1>2, <2>1, <2>2 DEF Ends
  <1>3. (\A i \in 1 .. Len(p) : p[i].kind # k) => w = v
    <2>1. SUFFICES ASSUME \A i \in 1 .. Len(p) : p[i].kind # k PROVE w = v
      OBVIOUS
    <2>2. \A i \in 1 .. Len(q) : q[i].kind # k
      BY <1>1, <2>1
    <2> QED
      BY <2>2 DEF Ends
  <1>4. Ends(p, k, w, v)
    BY <1>2, <1>3 DEF Ends
  <1> QED
    BY <1>4 DEF p

\* Taking the first frame.
LEMMA EndsTail ==
  ASSUME NEW q \in Seq(FrameType), q # <<>>, NEW k, NEW w, NEW v, Ends(q, k, w, v)
  PROVE  Ends(Tail(q), k, IF Head(q).kind = k THEN Head(q).value ELSE w, v)
  <1> DEFINE p == Tail(q)
             u == IF Head(q).kind = k THEN Head(q).value ELSE w
  <1>1. /\ Len(q) \in Nat \ {0} /\ p \in Seq(FrameType) /\ Len(p) = Len(q) - 1
        /\ Head(q) = q[1] /\ \A i \in 1 .. Len(p) : p[i] = q[i + 1]
    OBVIOUS
  <1>2. (Head(q).kind = k => u = q[1].value) /\ (Head(q).kind # k => u = w)
    BY <1>1
  <1> HIDE DEF p, u
  <1>3. ASSUME NEW i \in 1 .. Len(p), p[i].kind = k, \A j \in i + 1 .. Len(p) : p[j].kind # k
        PROVE  p[i].value = v
    <2>1. i + 1 \in 1 .. Len(q) /\ p[i] = q[i + 1]
      BY <1>1
    <2>2. ASSUME NEW j \in (i + 1) + 1 .. Len(q) PROVE q[j].kind # k
      <3>1. j - 1 \in i + 1 .. Len(p) /\ j - 1 \in 1 .. Len(p) /\ (j - 1) + 1 = j
        BY <1>1, <2>1
      <3>2. p[j - 1] = q[j]
        BY <1>1, <3>1
      <3> QED
        BY <1>3, <3>1, <3>2
    <2> QED
      BY <1>3, <2>1, <2>2 DEF Ends
  <1>4. (\A i \in 1 .. Len(p) : p[i].kind # k) => u = v
    <2>1. SUFFICES ASSUME \A i \in 1 .. Len(p) : p[i].kind # k PROVE u = v
      OBVIOUS
    <2>2. ASSUME NEW j \in 2 .. Len(q) PROVE q[j].kind # k
      <3>1. j - 1 \in 1 .. Len(p) /\ (j - 1) + 1 = j
        BY <1>1
      <3>2. p[j - 1] = q[j]
        BY <1>1, <3>1
      <3> QED
        BY <2>1, <3>1, <3>2
    <2>3. 1 \in 1 .. Len(q) /\ \A j \in 1 .. Len(q) : j = 1 \/ j \in 2 .. Len(q)
      BY <1>1
    <2>4. CASE q[1].kind = k
      <3>1. \A j \in 1 + 1 .. Len(q) : q[j].kind # k
        BY <1>1, <2>2
      <3> QED
        BY <1>1, <1>2, <2>3, <2>4, <3>1 DEF Ends
    <2>5. CASE q[1].kind # k
      <3>1. \A j \in 1 .. Len(q) : q[j].kind # k
        BY <2>2, <2>3, <2>5
      <3> QED
        BY <1>1, <1>2, <2>5, <3>1 DEF Ends
    <2> QED
      BY <2>4, <2>5
  <1>5. Ends(p, k, u, v)
    BY <1>3, <1>4 DEF Ends
  <1> QED
    BY <1>5 DEF p, u

\* Nothing queued.
LEMMA EndsEmpty ==
  ASSUME NEW k, NEW w, NEW v
  PROVE  Ends(<<>>, k, w, v) <=> w = v
  BY DEF Ends

-----------------------------------------------------------------------------
(* Type correctness. *)

\* The shape of the state that the module documents.
LEMMA TypeInvIsTypeOK ==
  TypeInv => TypeOK
  <1>1. admin \in [Admins -> AdminState] =>
          \A a \in Admins :
            \/ admin[a] = Idle
            \/ admin[a] \in [pc : {"list", "visit"}, kind : Kinds, value : Nat,
                             todo : SUBSET (Scenes \cup {Holding})]
            \/ admin[a] \in [pc : {"migrate1", "migrate2"}, prev : Scenes \cup {Holding},
                             next : Scenes, transit : SUBSET Subs]
            \/ admin[a] \in [pc : {"tear"}, old : Scenes]
    BY Zenon DEF AdminState, FanoutState, MigrationState, TearState, Homes
  <1> QED
    BY <1>1, Zenon DEF TypeInv, TypeOK, FrameType

\* The states of an admin that is in a call.
LEMMA AdminShape ==
  ASSUME TypeInv, NEW a \in Admins
  PROVE  /\ admin[a].pc \in {"idle", "list", "visit", "migrate1", "migrate2", "tear"}
         /\ (admin[a] = Idle <=> admin[a].pc = "idle")
         /\ admin[a].pc \in {"list", "visit"} => admin[a] \in FanoutState
         /\ admin[a].pc \in {"migrate1", "migrate2"} => admin[a] \in MigrationState
         /\ admin[a].pc = "tear" => admin[a] \in TearState
  <1>1. admin[a] \in AdminState
    BY DEF TypeInv
  <1> QED
    BY <1>1 DEF AdminState, Idle, FanoutState, MigrationState, TearState

\* One frame more on the queues of the subscriptions in S that have room for it.
AppendTo(S, f) == [s \in Subs |-> IF s \in S THEN Append(out[s], f) ELSE out[s]]

LEMMA FrameTypes ==
  /\ SceneFrame \in FrameType /\ SceneFrame.kind = "scene"
  /\ \A k \in Kinds : \A n \in Nat :
       ShowFrame(k, n) \in FrameType /\ ShowFrame(k, n).kind = k /\ ShowFrame(k, n).value = n
  BY DEF FrameType, SceneFrame, ShowFrame

\* Where a fan-out is after scene o.
Visited(c, o) == IF c.todo \ {o} = {} THEN Idle ELSE [c EXCEPT !.todo = c.todo \ {o}]

LEMMA FanoutVisits ==
  ASSUME NEW a \in Admins, NEW o, fanoutShowFrame(a, o)
  PROVE  admin' = [admin EXCEPT ![a] = Visited(admin[a], o)]
  BY DEF fanoutShowFrame, Visited

\* The initial state has the types.
LEMMA TypeInit ==
  Init => TypeInv
  <1>1. Init => admin \in [Admins -> AdminState]
    BY DEF Init, AdminState
  <1>2. Init => out \in [Subs -> Seq(FrameType)] /\ \A s \in Subs : Len(out[s]) <= OutCap
    BY BoundsAssumption DEF Init
  <1>3. Init => calls \in 0 .. MaxCalls
    BY BoundsAssumption DEF Init
  <1>4. Init => cache \in [Kinds -> Nat] /\ shown \in [Subs -> [Kinds -> Nat]]
    BY DEF Init
  <1> QED
    BY <1>1, <1>2, <1>3, <1>4 DEF Init, TypeInv

\* Every step keeps them.
LEMMA TypeStep ==
  TypeInv /\ [Next]_vars => TypeInv'
  <1> SUFFICES ASSUME TypeInv, [Next]_vars PROVE TypeInv'
    OBVIOUS
  <1> USE BoundsAssumption DEF TypeInv
  <1>1. ASSUME NEW a \in Admins, NEW k \in Kinds, cacheShowFrame(a, k) PROVE TypeInv'
    <2>1. calls' \in 0 .. MaxCalls /\ calls' \in Nat
      BY <1>1 DEF cacheShowFrame, Called
    <2>2. cache' \in [Kinds -> Nat]
      BY <1>1, <2>1 DEF cacheShowFrame
    <2>3. admin' \in [Admins -> AdminState]
      BY <1>1, <2>1 DEF cacheShowFrame, AdminState, FanoutState
    <2> QED
      BY <1>1, <2>1, <2>2, <2>3 DEF cacheShowFrame, connVars, sceneVars
  <1>2. ASSUME NEW a \in Admins, NEW o \in Scenes, NEW p \in Scenes \cup {None}, NewScene(a, o, p)
        PROVE  TypeInv'
    <2>1. calls' \in 0 .. MaxCalls
      BY <1>2 DEF NewScene, Called
    <2>2. /\ Migration(Holding, o) \in AdminState
          /\ p # None => [pc |-> "tear", old |-> p] \in AdminState
      BY DEF Migration, AdminState, MigrationState, TearState, Homes
    <2>3. admin' \in [Admins -> AdminState]
      BY <1>2, <2>2 DEF NewScene, AdminState
    <2>4. /\ registered' \subseteq Scenes /\ created' \subseteq Scenes /\ torn' \subseteq Scenes
          /\ active' \in registered' \ {None}
      BY <1>2, ScenesAssumption DEF NewScene
    <2> QED
      BY <1>2, <2>1, <2>3, <2>4 DEF NewScene, connVars
  <1>3. ASSUME NEW a \in Admins, NEW o \in Scenes, SetActive(a, o) PROVE TypeInv'
    <2>1. calls' \in 0 .. MaxCalls
      BY <1>3 DEF SetActive, Called
    <2>2. Migration(LiveScene, o) \in AdminState
      BY DEF Migration, AdminState, MigrationState, Homes, LiveScene
    <2>3. admin' \in [Admins -> AdminState]
      BY <1>3, <2>2 DEF SetActive
    <2> QED
      BY <1>3, <2>1, <2>3, ScenesAssumption DEF SetActive, connVars
  <1>4. ASSUME NEW a \in Admins, allFanoutScenes(a) PROVE TypeInv'
    <2>1. admin[a] \in FanoutState
      BY <1>4, AdminShape DEF allFanoutScenes
    <2>2. [admin[a] EXCEPT !.pc = "visit", !.todo = registered \cup {Holding}] \in FanoutState
      BY <2>1 DEF FanoutState, Homes
    <2>3. admin' \in [Admins -> AdminState]
      BY <1>4, <2>2 DEF allFanoutScenes, AdminState
    <2> QED
      BY <1>4, <2>3 DEF allFanoutScenes, connVars, sceneVars
  <1>5. ASSUME NEW a \in Admins, NEW o \in Homes, fanoutShowFrame(a, o) PROVE TypeInv'
    <2>1. admin[a] \in FanoutState
      BY <1>5, AdminShape DEF fanoutShowFrame
    <2>2. Visited(admin[a], o) \in AdminState
      <3>1. [admin[a] EXCEPT !.todo = admin[a].todo \ {o}] \in FanoutState
        BY <2>1 DEF FanoutState, Homes
      <3> QED
        BY <3>1 DEF Visited, AdminState
    <2>3. admin' \in [Admins -> AdminState]
      <3>1. admin' = [admin EXCEPT ![a] = Visited(admin[a], o)]
        BY <1>5, FanoutVisits
      <3> QED
        BY <2>2, <3>1
    <2>4. ShowFrame(admin[a].kind, admin[a].value) \in FrameType
      BY <2>1, FrameTypes DEF FanoutState
    <2>5. out' = AppendTo(Room({s \in Subs : member[s] = o}, 1),
                         ShowFrame(admin[a].kind, admin[a].value))
      BY <1>5 DEF fanoutShowFrame, AppendTo
    <2>6. ASSUME NEW s \in Subs PROVE out'[s] \in Seq(FrameType) /\ Len(out'[s]) <= OutCap
      BY <2>4, <2>5 DEF AppendTo, Room
    <2>7. out' \in [Subs -> Seq(FrameType)]
      BY <2>5, <2>6 DEF AppendTo
    <2>8. stale' \in [Subs -> BOOLEAN]
      BY <1>5 DEF fanoutShowFrame
    <2> QED
      BY <1>5, <2>3, <2>6, <2>7, <2>8 DEF fanoutShowFrame, sceneVars
  <1>6. ASSUME NEW a \in Admins, migrate1(a) PROVE TypeInv'
    <2>1. admin[a] \in MigrationState
      BY <1>6, AdminShape DEF migrate1
    <2>2. ASSUME NEW S \in SUBSET Subs
          PROVE  [admin[a] EXCEPT !.pc = "migrate2", !.transit = S] \in MigrationState
      BY <2>1 DEF MigrationState
    <2>3. admin' \in [Admins -> AdminState]
      BY <1>6, <2>2 DEF migrate1, AdminState
    <2>4. member' \in [Subs -> Scenes \cup {Holding, None}]
      BY <1>6 DEF migrate1
    <2> QED
      BY <1>6, <2>3, <2>4 DEF migrate1, sceneVars
  <1>7. ASSUME NEW a \in Admins, migrate2(a) PROVE TypeInv'
    <2>1. admin[a] \in MigrationState
      BY <1>7, AdminShape DEF migrate2
    <2>2. admin' \in [Admins -> AdminState]
      BY <1>7 DEF migrate2, AdminState
    <2>3. member' \in [Subs -> Scenes \cup {Holding, None}] /\ stale' \in [Subs -> BOOLEAN]
      BY <1>7, <2>1 DEF migrate2, MigrationState
    <2>4. ASSUME NEW s \in Subs PROVE out'[s] \in Seq(FrameType) /\ Len(out'[s]) <= OutCap
      <3>1. /\ out[s] \o <<SceneFrame, SceneFrame>> \in Seq(FrameType)
            /\ Len(out[s] \o <<SceneFrame, SceneFrame>>) = Len(out[s]) + 2
        BY FrameTypes
      <3>2. /\ Append(out[s], SceneFrame) \in Seq(FrameType)
            /\ Len(Append(out[s], SceneFrame)) = Len(out[s]) + 1
        BY FrameTypes
      <3> QED
        BY <1>7, <3>1, <3>2 DEF migrate2, Room
    <2>5. out' \in [Subs -> Seq(FrameType)]
      BY <1>7, <2>4 DEF migrate2
    <2> QED
      BY <1>7, <2>2, <2>3, <2>4, <2>5 DEF migrate2, sceneVars
  <1>8. ASSUME NEW s \in Subs, resolveScene(s) PROVE TypeInv'
    BY <1>8 DEF resolveScene, LiveScene, sceneVars
  <1>9. ASSUME NEW s \in Subs, subscribe(s) PROVE TypeInv'
    BY <1>9 DEF subscribe, sceneVars
  <1>10. ASSUME NEW s \in Subs, NEW k \in Kinds, replayShowFrame(s, k) PROVE TypeInv'
    BY <1>10 DEF replayShowFrame, Kinds, sceneVars
  <1>11. ASSUME NEW s \in Subs, writerLoop(s) PROVE TypeInv'
    <2>1. /\ out[s] \in Seq(FrameType) /\ out[s] # <<>>
          /\ Head(out[s]) \in FrameType /\ Tail(out[s]) \in Seq(FrameType)
          /\ Len(Tail(out[s])) <= OutCap
      BY <1>11 DEF writerLoop
    <2>2. out' \in [Subs -> Seq(FrameType)] /\ \A t \in Subs : Len(out'[t]) <= OutCap
      BY <1>11, <2>1 DEF writerLoop
    <2>3. Head(out[s]).value \in Nat
      BY <2>1 DEF FrameType
    <2>4. shown' \in [Subs -> [Kinds -> Nat]]
      BY <1>11, <2>3 DEF writerLoop
    <2> QED
      BY <1>11, <2>2, <2>4 DEF writerLoop, sceneVars
  <1>12. ASSUME NEW s \in Subs, detach(s) PROVE TypeInv'
    BY <1>12 DEF detach, sceneVars
  <1>13. CASE UNCHANGED vars
    BY <1>13 DEF vars
  <1>14. ASSUME NEW a \in Admins, tearDown(a) PROVE TypeInv'
    <2>1. admin[a] \in TearState
      BY <1>14, AdminShape DEF tearDown
    <2>2. torn' \subseteq Scenes
      BY <1>14, <2>1 DEF tearDown, TearState
    <2>3. admin' \in [Admins -> AdminState]
      BY <1>14 DEF tearDown, AdminState
    <2> QED
      BY <1>14, <2>2, <2>3 DEF tearDown
  <1> QED
    BY <1>1, <1>2, <1>3, <1>4, <1>5, <1>6, <1>7, <1>8, <1>9, <1>10, <1>11, <1>12, <1>13, <1>14
       DEF Next, AdminStep, HandlerStep, Homes

\* The show-level state of the server and of its connections has the documented
\* shape, and no queue outgrows its channel.
THEOREM ShowTypeCorrect == Spec => []TypeOK
  <1>1. Init => TypeInv
    BY TypeInit
  <1>2. TypeInv /\ [Next]_vars => TypeInv'
    BY TypeStep
  <1>3. TypeInv => TypeOK
    BY TypeInvIsTypeOK
  <1> QED
    BY <1>1, <1>2, <1>3, PTL DEF Spec

-----------------------------------------------------------------------------
(* Calls and places. *)

\* While a kind is fanned out, nobody migrates or replaces.
LEMMA Exclusive ==
  ASSUME TypeInv, CallsInv, Orderly, NEW a \in Admins, NEW b \in Admins,
         admin[a].pc \in {"list", "visit"}, admin[b].pc \in {"migrate1", "migrate2", "tear"}
  PROVE  FALSE
  <1>1. admin[a].kind \in Kinds
    BY AdminShape DEF FanoutState
  <1>2. admin[a].kind \in Allowed[a] /\ Allowed[b] \cap Switching # {}
    BY DEF CallsInv, CallOf
  <1>3. a = b
    BY <1>1, <1>2 DEF Orderly
  <1> QED
    BY <1>3

\* While one admin may register, replace or switch, no other is moving or closing.
LEMMA OneSwitches ==
  ASSUME CallsInv, Orderly, NEW a \in Admins, Allowed[a] \cap Switching # {}, NEW b \in Admins,
         admin[b].pc \in {"migrate1", "migrate2", "tear"}
  PROVE  a = b
  BY DEF CallsInv, CallOf, Orderly

\* A step that leaves the cache and the registry alone and has no call start
\* keeps what the calls know.
LEMMA CallsKept ==
  ASSUME TypeInv, CallsInv, UNCHANGED <<cache, registered>>, NEW a \in Admins, NEW c,
         admin' = [admin EXCEPT ![a] = c], CallOf(c, Allowed[a], cache, registered)
  PROVE  CallsInv'
  BY DEF TypeInv, CallsInv

LEMMA CallsStep ==
  ASSUME TypeInv, CallsInv, Orderly, Next
  PROVE  CallsInv'
  <1> USE DEF TypeInv
  <1>0. CallOf(Idle, {}, cache, registered) /\ \A S : CallOf(Idle, S, cache, registered)
    BY DEF CallOf, Idle
  <1>1. ASSUME NEW a \in Admins, NEW k \in Kinds, cacheShowFrame(a, k) PROVE CallsInv'
    <2>1. /\ k \in Allowed[a] /\ cache' = [cache EXCEPT ![k] = calls'] /\ registered' = registered
          /\ admin' = [admin EXCEPT ![a] =
                         [pc |-> "list", kind |-> k, value |-> calls', todo |-> {}]]
      BY <1>1 DEF cacheShowFrame, sceneVars
    <2>2. ASSUME NEW b \in Admins PROVE CallOf(admin[b], Allowed[b], cache, registered)'
      <3>1. CASE b = a
        <4>1. admin'[b] = [pc |-> "list", kind |-> k, value |-> calls', todo |-> {}]
          BY <2>1, <3>1
        <4> QED
          BY <2>1, <3>1, <4>1 DEF CallOf
      <3>2. CASE b # a
        <4>1. admin'[b] = admin[b] /\ CallOf(admin[b], Allowed[b], cache, registered)
          BY <2>1, <3>2 DEF CallsInv
        <4>2. admin[b].pc \in {"list", "visit"} => admin[b].kind \in Kinds /\ admin[b].kind # k
          <5>1. SUFFICES ASSUME admin[b].pc \in {"list", "visit"}, admin[b].kind = k PROVE FALSE
            BY AdminShape DEF FanoutState
          <5>2. k \in Allowed[b]
            BY <4>1, <5>1 DEF CallOf
          <5> QED
            BY <2>1, <3>2, <5>2 DEF Orderly
        <4> QED
          BY <2>1, <4>1, <4>2 DEF CallOf
      <3> QED
        BY <3>1, <3>2
    <2> QED
      BY <2>2 DEF CallsInv
  <1>2. ASSUME NEW a \in Admins, NEW o \in Scenes, NEW p \in Scenes \cup {None}, NewScene(a, o, p)
        PROVE  CallsInv'
    <2>1. /\ Allowed[a] \cap Switching # {} /\ cache' = cache /\ o \in registered'
          /\ admin[a] = Idle
          /\ \/ admin' = [admin EXCEPT ![a] = Migration(Holding, o)]
             \/ admin' = [admin EXCEPT ![a] = [pc |-> "tear", old |-> p]]
             \/ admin' = [admin EXCEPT ![a] = Idle]
      BY <1>2 DEF NewScene, Switching
    <2>2. /\ CallOf(Migration(Holding, o), Allowed[a], cache, registered')
          /\ CallOf([pc |-> "tear", old |-> p], Allowed[a], cache, registered')
          /\ CallOf(Idle, Allowed[a], cache, registered')
      BY <2>1 DEF CallOf, Migration, Idle
    <2>3. ASSUME NEW b \in Admins, b # a PROVE CallOf(admin[b], Allowed[b], cache, registered')
      <3>1. admin[b].pc \notin {"migrate1", "migrate2", "tear"}
        BY <2>1, <2>3, OneSwitches
      <3> QED
        BY <3>1 DEF CallsInv, CallOf
    <2>4. ASSUME NEW b \in Admins PROVE CallOf(admin'[b], Allowed[b], cache', registered')
      <3>1. CASE b = a
        BY <2>1, <2>2, <3>1
      <3>2. CASE b # a
        BY <2>1, <2>3, <3>2
      <3> QED
        BY <3>1, <3>2
    <2> QED
      BY <2>4 DEF CallsInv
  <1>3. ASSUME NEW a \in Admins, NEW o \in Scenes, SetActive(a, o) PROVE CallsInv'
    <2>1. /\ Allowed[a] \cap Switching # {} /\ UNCHANGED <<cache, registered>> /\ o \in registered
          /\ admin' = [admin EXCEPT ![a] = Migration(LiveScene, o)]
      BY <1>3 DEF SetActive, Switching
    <2>2. CallOf(Migration(LiveScene, o), Allowed[a], cache, registered)
      BY <2>1 DEF CallOf, Migration
    <2> QED
      BY <2>1, <2>2, CallsKept
  <1>4. ASSUME NEW a \in Admins, allFanoutScenes(a) PROVE CallsInv'
    <2>1. /\ UNCHANGED <<cache, registered>>
          /\ admin' = [admin EXCEPT ![a] =
                         [admin[a] EXCEPT !.pc = "visit", !.todo = registered \cup {Holding}]]
      BY <1>4 DEF allFanoutScenes, sceneVars
    <2>2. admin[a] \in FanoutState /\ CallOf(admin[a], Allowed[a], cache, registered)
      BY <1>4, AdminShape DEF allFanoutScenes, CallsInv
    <2>3. CallOf([admin[a] EXCEPT !.pc = "visit", !.todo = registered \cup {Holding}],
                 Allowed[a], cache, registered)
      BY <2>2 DEF CallOf, FanoutState
    <2> QED
      BY <2>1, <2>3, CallsKept
  <1>5. ASSUME NEW a \in Admins, NEW o \in Homes, fanoutShowFrame(a, o) PROVE CallsInv'
    <2>1. UNCHANGED <<cache, registered>> /\ admin[a].pc = "visit"
      BY <1>5 DEF fanoutShowFrame, sceneVars
    <2>2. admin[a] \in FanoutState /\ CallOf(admin[a], Allowed[a], cache, registered)
      BY <2>1, AdminShape DEF CallsInv
    <2>3. CallOf([admin[a] EXCEPT !.todo = admin[a].todo \ {o}], Allowed[a], cache, registered)
      BY <2>2 DEF CallOf, FanoutState
    <2>4. CallOf(Visited(admin[a], o), Allowed[a], cache, registered)
      BY <1>0, <2>3 DEF Visited
    <2> QED
      BY <1>5, <2>1, <2>4, FanoutVisits, CallsKept
  <1>6. ASSUME NEW a \in Admins, migrate1(a) PROVE CallsInv'
    <2>1. UNCHANGED <<cache, registered>> /\ admin[a].pc = "migrate1"
      BY <1>6 DEF migrate1, sceneVars
    <2>2. admin[a] \in MigrationState /\ CallOf(admin[a], Allowed[a], cache, registered)
      BY <2>1, AdminShape DEF CallsInv
    <2>3. ASSUME NEW S
          PROVE  CallOf([admin[a] EXCEPT !.pc = "migrate2", !.transit = S],
                        Allowed[a], cache, registered)
      BY <2>1, <2>2 DEF CallOf, MigrationState
    <2>4. \/ admin' = [admin EXCEPT ![a] = Idle]
          \/ admin' = [admin EXCEPT ![a] = [admin[a] EXCEPT !.pc = "migrate2",
                          !.transit = {s \in Subs : member[s] = admin[a].prev}]]
      BY <1>6 DEF migrate1
    <2> QED
      BY <1>0, <2>1, <2>3, <2>4, CallsKept
  <1>7. ASSUME NEW a \in Admins, migrate2(a) PROVE CallsInv'
    BY <1>0, <1>7, CallsKept DEF migrate2, sceneVars
  <1>8. ASSUME UNCHANGED <<cache, registered, admin>> PROVE CallsInv'
    BY <1>8 DEF CallsInv
  <1>9. ASSUME NEW s \in Subs,
               \/ resolveScene(s) \/ subscribe(s) \/ writerLoop(s) \/ detach(s)
               \/ \E k \in Kinds : replayShowFrame(s, k)
        PROVE  UNCHANGED <<cache, registered, admin>>
    BY <1>9 DEF resolveScene, subscribe, writerLoop, detach, replayShowFrame, sceneVars
  <1>10. ASSUME NEW a \in Admins, tearDown(a) PROVE CallsInv'
    BY <1>0, <1>10, CallsKept DEF tearDown
  <1> QED
    BY <1>1, <1>2, <1>3, <1>4, <1>5, <1>6, <1>7, <1>8, <1>9, <1>10 DEF Next, AdminStep, HandlerStep, Homes

\* Who is being moved, after an admin that was not in migrate2 took a step to c.
LEMMA MovingAfter ==
  ASSUME TypeInv, NEW a \in Admins, NEW c, admin' = [admin EXCEPT ![a] = c],
         admin[a].pc # "migrate2", NEW s \in Subs
  PROVE  Moving(s)' <=> Moving(s) \/ (c.pc = "migrate2" /\ s \in c.transit)
  <1>1. admin'[a] = c /\ \A b \in Admins : b # a => admin'[b] = admin[b]
    BY DEF TypeInv
  <1> QED
    BY <1>1 DEF Moving

\* What is doomed, after an admin that was not tearing down took a step.
LEMMA DoomedAfter ==
  ASSUME TypeInv, NEW a \in Admins, NEW c, admin' = [admin EXCEPT ![a] = c],
         admin[a].pc # "tear", NEW o
  PROVE  Doomed(o) => Doomed(o)'
  <1>1. \A b \in Admins : b # a => admin'[b] = admin[b]
    BY DEF TypeInv
  <1> QED
    BY <1>1 DEF Doomed

\* Steps of an admin that moves and closes nobody, and may fill queues.
LEMMA PlaceKept ==
  ASSUME TypeInv, PlaceInv, NEW a \in Admins, NEW c, admin' = [admin EXCEPT ![a] = c],
         admin[a].pc \notin {"migrate2", "tear"}, c.pc # "migrate2",
         \A o : o \in registered => Known(o)',
         UNCHANGED <<member, conn, captured, closed, torn>>,
         \A s \in Subs : out'[s] = out[s] \/ member[s] \in Homes,
         \A s \in Subs : stale[s] => stale'[s]
  PROVE  PlaceInv'
  <1>1. ASSUME NEW s \in Subs PROVE Unsubscribed(s)' /\ Placed(s)'
    <2>1. Unsubscribed(s) /\ Placed(s)
      BY DEF PlaceInv
    <2>2. Moving(s)' <=> Moving(s)
      BY MovingAfter
    <2>3. \A o : Known(o) => Known(o)'
      BY DoomedAfter DEF Known
    <2>4. Unsubscribed(s)'
      BY <2>1, <2>2, <2>3, ScenesAssumption DEF Unsubscribed, Homes
    <2>5. Placed(s)'
      BY <2>1, <2>2, <2>3 DEF Placed, Subscribed
    <2> QED
      BY <2>4, <2>5
  <1> QED
    BY <1>1 DEF PlaceInv

\* A registry that stays.
LEMMA RegistryStays ==
  ASSUME registered' = registered
  PROVE  \A o : o \in registered => Known(o)'
  BY DEF Known

LEMMA PlaceStep ==
  ASSUME TypeInv, CallsInv, PlaceInv, Next
  PROVE  PlaceInv'
  <1>1. ASSUME NEW a \in Admins, NEW k \in Kinds, cacheShowFrame(a, k) PROVE PlaceInv'
    <2>1. admin' = [admin EXCEPT ![a] = [pc |-> "list", kind |-> k, value |-> calls', todo |-> {}]]
      BY <1>1 DEF cacheShowFrame
    <2>2. admin[a].pc = "idle" /\ UNCHANGED <<connVars, registered, torn>>
      BY <1>1 DEF cacheShowFrame, Idle, sceneVars
    <2>3. [pc |-> "list", kind |-> k, value |-> calls', todo |-> {}].pc # "migrate2"
      OBVIOUS
    <2> QED
      BY <2>1, <2>2, <2>3, RegistryStays, PlaceKept DEF connVars
  <1>2. ASSUME NEW a \in Admins, NEW o \in Scenes, SetActive(a, o) PROVE PlaceInv'
    <2>1. /\ admin[a].pc = "idle" /\ UNCHANGED <<connVars, registered, torn>>
          /\ admin' = [admin EXCEPT ![a] = Migration(LiveScene, o)]
      BY <1>2 DEF SetActive, Idle
    <2>2. Migration(LiveScene, o).pc # "migrate2"
      BY DEF Migration
    <2> QED
      BY <2>1, <2>2, RegistryStays, PlaceKept DEF connVars
  <1>8. ASSUME NEW a \in Admins, NEW o \in Scenes, NEW p \in Scenes \cup {None}, NewScene(a, o, p)
        PROVE  PlaceInv'
    <2> DEFINE c == IF active = None THEN Migration(Holding, o)
                    ELSE IF p # None THEN [pc |-> "tear", old |-> p] ELSE Idle
    <2>1. /\ admin' = [admin EXCEPT ![a] = c] /\ admin[a].pc = "idle"
          /\ UNCHANGED <<connVars, torn>> /\ registered' = (registered \ {p}) \cup {o}
          /\ p # None => p \in registered
      BY <1>8 DEF NewScene, Idle
    <2>2. c.pc # "migrate2"
      BY DEF Migration, Idle
    <2>3. admin'[a] = c
      BY <2>1 DEF TypeInv
    <2>4. ASSUME p \in registered PROVE Doomed(p)'
      <3>1. active # None /\ p # None
        BY <2>4, ScenesAssumption DEF TypeInv
      <3>2. c = [pc |-> "tear", old |-> p]
        BY <3>1
      <3>3. admin'[a].pc = "tear" /\ admin'[a].old = p
        BY <2>3, <3>2
      <3> QED
        BY <3>3 DEF Doomed
    <2>5. \A q : q \in registered => Known(q)'
      BY <2>1, <2>4 DEF Known
    <2> HIDE DEF c
    <2> QED
      BY <2>1, <2>2, <2>5, PlaceKept DEF connVars
  <1>3. ASSUME NEW a \in Admins, allFanoutScenes(a) PROVE PlaceInv'
    <2>1. admin' = [admin EXCEPT ![a] =
                      [admin[a] EXCEPT !.pc = "visit", !.todo = registered \cup {Holding}]]
      BY <1>3 DEF allFanoutScenes
    <2>2. [admin[a] EXCEPT !.pc = "visit", !.todo = registered \cup {Holding}].pc = "visit"
      BY <1>3, AdminShape DEF allFanoutScenes, FanoutState
    <2>3. admin[a].pc = "list" /\ UNCHANGED <<connVars, registered, torn>>
      BY <1>3 DEF allFanoutScenes, sceneVars
    <2> QED
      BY <2>1, <2>2, <2>3, RegistryStays, PlaceKept DEF connVars
  <1>4. ASSUME NEW a \in Admins, NEW o \in Homes, fanoutShowFrame(a, o) PROVE PlaceInv'
    <2>1. /\ admin' = [admin EXCEPT ![a] = Visited(admin[a], o)]
          /\ admin[a].pc = "visit" /\ UNCHANGED <<registered, torn, member, conn, captured, closed>>
      BY <1>4, FanoutVisits DEF fanoutShowFrame, sceneVars
    <2>2. Visited(admin[a], o).pc # "migrate2"
      BY <2>1, AdminShape DEF Visited, FanoutState, Idle
    <2>3. \A s \in Subs : (out'[s] = out[s] \/ member[s] \in Homes) /\ (stale[s] => stale'[s])
      BY <1>4 DEF fanoutShowFrame, Room
    <2> QED
      BY <2>1, <2>2, <2>3, RegistryStays, PlaceKept
  <1>5. ASSUME NEW a \in Admins, migrate1(a) PROVE PlaceInv'
    <2> DEFINE moved == {s \in Subs : member[s] = admin[a].prev}
               c == IF moved = {} THEN Idle
                    ELSE [admin[a] EXCEPT !.pc = "migrate2", !.transit = moved]
    <2>1. /\ admin' = [admin EXCEPT ![a] = c] /\ admin[a].pc = "migrate1"
          /\ UNCHANGED <<registered, torn, conn, captured, out, stale, closed>>
          /\ \A s \in Subs : member'[s] = IF s \in moved THEN None ELSE member[s]
      BY <1>5 DEF migrate1, sceneVars
    <2>2. admin[a] \in MigrationState
      BY <2>1, AdminShape
    <2>3. \A s \in Subs : (c.pc = "migrate2" /\ s \in c.transit) <=> s \in moved
      BY <2>2 DEF MigrationState, Idle
    <2>4. \A s \in moved : member[s] # None
      BY <2>2, ScenesAssumption DEF MigrationState, Homes
    <2> HIDE DEF moved, c
    <2>6. \A o : Known(o) => Known(o)'
      BY <2>1, DoomedAfter DEF Known
    <2>5. ASSUME NEW s \in Subs PROVE Unsubscribed(s)' /\ Placed(s)'
      <3>1. Unsubscribed(s) /\ Placed(s)
        BY DEF PlaceInv
      <3>2. Moving(s)' <=> Moving(s) \/ s \in moved
        BY <2>1, <2>3, MovingAfter
      <3>3. Unsubscribed(s)'
        BY <2>1, <2>4, <2>6, <3>1, <3>2 DEF Unsubscribed
      <3>4. Placed(s)'
        BY <2>1, <2>6, <3>1, <3>2 DEF Placed, Subscribed
      <3> QED
        BY <3>3, <3>4
    <2> QED
      BY <2>5 DEF PlaceInv
  <1>6. ASSUME NEW a \in Admins, migrate2(a) PROVE PlaceInv'
    <2> DEFINE moved == admin[a].transit
               two == Room(moved, 2)
    <2>1. /\ admin' = [admin EXCEPT ![a] = Idle] /\ admin[a].pc = "migrate2"
          /\ UNCHANGED <<registered, torn, conn, captured, closed>>
          /\ \A s \in Subs : /\ s \notin moved => out'[s] = out[s]
                             /\ stale'[s] = (stale[s] \/ s \in moved \ two)
                             /\ member'[s] = IF s \in two THEN admin[a].next ELSE member[s]
      BY <1>6 DEF migrate2, Room, sceneVars
    <2>2. admin[a].next \in registered
      BY <2>1 DEF CallsInv, CallOf
    <2>5. \A o : Known(o) => Known(o)'
      BY <2>1, DoomedAfter DEF Known
    <2>6. Known(admin[a].next)
      BY <2>2 DEF Known
    <2>3. two \subseteq moved
      BY DEF Room
    <2> HIDE DEF two
    <2>4. ASSUME NEW s \in Subs PROVE Unsubscribed(s)' /\ Placed(s)'
      <3>1. Unsubscribed(s) /\ Placed(s)
        BY DEF PlaceInv
      <3>2. admin'[a] = Idle /\ \A b \in Admins : b # a => admin'[b] = admin[b]
        BY <2>1 DEF TypeInv
      <3>3. Moving(s)' => Moving(s)
        BY <3>2 DEF Moving, Idle
      <3>4. s \in moved => Moving(s)
        BY <2>1 DEF Moving
      <3>5. Moving(s) /\ s \notin moved => Moving(s)'
        BY <3>2 DEF Moving
      <3>6. Unsubscribed(s)'
        BY <2>1, <2>3, <2>5, <3>1, <3>3, <3>4 DEF Unsubscribed
      <3>7. Placed(s)'
        BY <2>1, <2>3, <2>5, <2>6, <3>1, <3>5 DEF Placed, Subscribed
      <3> QED
        BY <3>6, <3>7
    <2> QED
      BY <2>4 DEF PlaceInv
  <1>7. ASSUME NEW s \in Subs,
               \/ resolveScene(s) \/ subscribe(s) \/ writerLoop(s) \/ detach(s)
               \/ \E k \in Kinds : replayShowFrame(s, k)
        PROVE  PlaceInv'
    <2>1. /\ UNCHANGED <<registered, torn, admin, stale>>
          /\ \A t \in Subs \ {s} : /\ member'[t] = member[t] /\ conn'[t] = conn[t]
                                   /\ captured'[t] = captured[t] /\ out'[t] = out[t]
                                   /\ closed'[t] = closed[t]
      BY <1>7 DEF resolveScene, subscribe, writerLoop, detach, replayShowFrame, TypeInv, sceneVars
    <2>2. /\ \A t \in Subs : Moving(t)' <=> Moving(t)
          /\ \A o : Known(o) => Known(o)'
      BY <2>1 DEF Moving, Known, Doomed
    <2>3. Unsubscribed(s) /\ Placed(s)
      BY DEF PlaceInv
    <2>4. ASSUME NEW t \in Subs \ {s} PROVE Unsubscribed(t)' /\ Placed(t)'
      <3>1. Unsubscribed(t) /\ Placed(t)
        BY DEF PlaceInv
      <3> QED
        BY <2>1, <2>2, <3>1 DEF Unsubscribed, Placed, Subscribed
    <2>5. Unsubscribed(s)' /\ Placed(s)'
      <3>1. CASE resolveScene(s)
        <4>1. /\ conn[s] = "off" /\ conn'[s] = "resolved" /\ captured'[s] = LiveScene
              /\ member'[s] = member[s] /\ out'[s] = out[s]
          BY <3>1 DEF resolveScene, TypeInv
        <4>2. Known(LiveScene)
          BY DEF LiveScene, TypeInv, Known
        <4> QED
          BY <2>1, <2>2, <2>3, <4>1, <4>2 DEF Unsubscribed, Placed, Subscribed
      <3>2. CASE subscribe(s)
        <4>1. /\ conn[s] = "resolved"
              /\ \/ conn'[s] = "gone"
                 \/ /\ conn'[s] = "roster" /\ member'[s] = captured[s]
                    /\ captured[s] \notin torn
          BY <3>2 DEF subscribe, TypeInv
        <4> QED
          BY <2>1, <2>2, <2>3, <4>1 DEF Unsubscribed, Placed, Subscribed
      <3>3. CASE writerLoop(s) \/ \E k \in Kinds : replayShowFrame(s, k)
        <4>1. /\ Subscribed(s) /\ conn'[s] \in {"overlay", "run"}
              /\ member'[s] = member[s] /\ closed'[s] = closed[s]
          BY <3>3 DEF writerLoop, replayShowFrame, TypeInv, Subscribed, Kinds
        <4> QED
          BY <2>1, <2>2, <2>3, <4>1 DEF Unsubscribed, Placed
      <3>4. CASE detach(s)
        <4>1. conn'[s] = "gone"
          BY <3>4 DEF detach, TypeInv
        <4> QED
          BY <4>1 DEF Unsubscribed, Placed, Subscribed
      <3> QED
        BY <1>7, <3>1, <3>2, <3>3, <3>4
    <2> QED
      BY <2>4, <2>5 DEF PlaceInv
  <1>9. ASSUME NEW a \in Admins, tearDown(a) PROVE PlaceInv'
    <2> DEFINE old == admin[a].old
    <2>1. /\ admin' = [admin EXCEPT ![a] = Idle] /\ admin[a].pc = "tear"
          /\ UNCHANGED <<registered, conn, captured, out, stale>> /\ torn' = torn \cup {old}
          /\ \A s \in Subs : /\ member[s] = old => member'[s] = None /\ closed'[s]
                             /\ member[s] # old => member'[s] = member[s] /\ closed'[s] = closed[s]
      BY <1>9 DEF tearDown, TypeInv
    <2>2. admin'[a] = Idle /\ \A b \in Admins : b # a => admin'[b] = admin[b]
      BY <2>1 DEF TypeInv
    <2>3. \A o : Known(o) => Known(o)' \/ o = old
      BY <2>1, <2>2 DEF Known, Doomed
    <2>4. ASSUME NEW s \in Subs PROVE Unsubscribed(s)' /\ Placed(s)'
      <3>1. Unsubscribed(s) /\ Placed(s)
        BY DEF PlaceInv
      <3>2. Moving(s)' <=> Moving(s)
        <4>1. Idle.pc # "migrate2" /\ admin[a].pc # "migrate2"
          BY <2>1 DEF Idle
        <4> QED
          BY <2>1, <4>1, MovingAfter
      <3>3. Unsubscribed(s)'
        BY <2>1, <2>3, <3>1, <3>2 DEF Unsubscribed
      <3>4. Placed(s)'
        BY <2>1, <2>3, <3>1, <3>2 DEF Placed, Subscribed
      <3> QED
        BY <3>3, <3>4
    <2> QED
      BY <2>4 DEF PlaceInv
  <1> QED
    BY <1>1, <1>2, <1>3, <1>4, <1>5, <1>6, <1>7, <1>8, <1>9 DEF Next, AdminStep, HandlerStep, Homes

-----------------------------------------------------------------------------
(* The cache and the fan-out meet. *)

\* A fan-out by an admin that does not step is still to come.
LEMMA PendingKept ==
  ASSUME TypeInv, NEW a \in Admins, NEW c, admin' = [admin EXCEPT ![a] = c],
         NEW s \in Subs, NEW k, member'[s] = member[s], Pending(s, k),
         ~ ToVisit(admin[a], k, member[s])
  PROVE  Pending(s, k)'
  <1>1. PICK b \in Admins : ToVisit(admin[b], k, member[s])
    BY DEF Pending
  <1>2. admin'[b] = admin[b]
    BY <1>1 DEF TypeInv
  <1>3. ToVisit(admin'[b], k, member'[s])
    BY <1>1, <1>2
  <1> QED
    BY <1>3 DEF Pending

LEMMA MeetStep ==
  ASSUME ShowInv, Orderly, Next
  PROVE  MeetInv'
  <1> USE DEF ShowInv
  <1> DEFINE Met(s, k) == Caught(s, k) \/ Pending(s, k)
  <1>0. ASSUME NEW s \in Subs, Open(s), NEW k \in Kinds PROVE Met(s, k)
    BY <1>0 DEF MeetInv
  <1>T. /\ admin \in [Admins -> AdminState] /\ out \in [Subs -> Seq(FrameType)]
        /\ cache \in [Kinds -> Nat]
    BY DEF TypeInv
  <1>1. ASSUME NEW a \in Admins, NEW j \in Kinds, cacheShowFrame(a, j),
               NEW s \in Subs, Open(s)', NEW k \in Kinds
        PROVE  Met(s, k)'
    <2> DEFINE c == [pc |-> "list", kind |-> j, value |-> calls', todo |-> {}]
    <2>1. /\ admin[a] = Idle /\ admin' = [admin EXCEPT ![a] = c]
          /\ cache' = [cache EXCEPT ![j] = calls'] /\ UNCHANGED connVars
      BY <1>1 DEF cacheShowFrame
    <2>2. CASE j = k
      <3>1. ToVisit(c, k, member'[s]) /\ admin'[a] = c
        BY <1>T, <2>1, <2>2 DEF ToVisit
      <3>2. Pending(s, k)'
        BY <3>1 DEF Pending
      <3> QED
        BY <3>2
    <2>3. CASE j # k
      <3>1. Met(s, k)
        BY <1>0, <1>1, <2>1 DEF connVars, Open, Subscribed
      <3>2. Caught(s, k) => Caught(s, k)'
        BY <1>T, <2>1, <2>3 DEF Caught, connVars
      <3>3. ~ ToVisit(admin[a], k, member[s])
        BY <2>1 DEF ToVisit, Idle
      <3>4. Pending(s, k) => Pending(s, k)'
        BY <2>1, <3>3, PendingKept DEF connVars
      <3> QED
        BY <3>1, <3>2, <3>4
    <2> QED
      BY <2>2, <2>3
  <1>2. ASSUME NEW a \in Admins,
               \E o \in Scenes : SetActive(a, o) \/ \E p \in Scenes \cup {None} : NewScene(a, o, p),
               NEW s \in Subs, Open(s)', NEW k \in Kinds
        PROVE  Met(s, k)'
    <2>1. /\ admin[a] = Idle /\ cache' = cache /\ UNCHANGED connVars
          /\ \E c : admin' = [admin EXCEPT ![a] = c]
      BY <1>2 DEF NewScene, SetActive
    <2>3. Met(s, k)
      BY <1>0, <1>2, <2>1 DEF connVars, Open, Subscribed
    <2>4. Caught(s, k) => Caught(s, k)'
      BY <2>1 DEF Caught, connVars
    <2>5. ~ ToVisit(admin[a], k, member[s])
      BY <2>1 DEF ToVisit, Idle
    <2>6. Pending(s, k) => Pending(s, k)'
      BY <2>1, <2>5, PendingKept DEF connVars
    <2> QED
      BY <2>3, <2>4, <2>6
  <1>3. ASSUME NEW a \in Admins, allFanoutScenes(a),
               NEW s \in Subs, Open(s)', NEW k \in Kinds
        PROVE  Met(s, k)'
    <2> DEFINE c == [admin[a] EXCEPT !.pc = "visit", !.todo = registered \cup {Holding}]
    <2>1. /\ admin[a].pc = "list" /\ admin' = [admin EXCEPT ![a] = c]
          /\ UNCHANGED <<cache, registered, connVars>>
      BY <1>3 DEF allFanoutScenes, sceneVars
    <2>2. Met(s, k) /\ Open(s)
      BY <1>0, <1>3, <2>1 DEF connVars, Open, Subscribed
    <2>3. Caught(s, k) => Caught(s, k)'
      BY <2>1 DEF Caught, connVars
    <2>4. CASE ToVisit(admin[a], k, member[s])
      <3>1. ~ Moving(s) /\ ~ Doomed(member[s])
        BY <2>1, Exclusive DEF Moving, Doomed
      <3>2. member[s] \in registered \cup {Holding}
        BY <2>2, <3>1 DEF PlaceInv, Placed, Open, Known
      <3>3. admin[a] \in FanoutState
        BY <2>1, AdminShape
      <3>4. ToVisit(c, k, member'[s]) /\ admin'[a] = c
        BY <1>T, <2>1, <2>4, <3>2, <3>3 DEF ToVisit, FanoutState, connVars
      <3>5. Pending(s, k)'
        BY <3>4 DEF Pending
      <3> QED
        BY <3>5
    <2>5. CASE ~ ToVisit(admin[a], k, member[s])
      <3>1. Pending(s, k) => Pending(s, k)'
        BY <2>1, <2>5, PendingKept DEF connVars
      <3> QED
        BY <2>2, <2>3, <3>1
    <2> QED
      BY <2>4, <2>5
  <1>4. ASSUME NEW a \in Admins, NEW o \in Homes, fanoutShowFrame(a, o),
               NEW s \in Subs, Open(s)', NEW k \in Kinds
        PROVE  Met(s, k)'
    <2> DEFINE f == ShowFrame(admin[a].kind, admin[a].value)
               c == Visited(admin[a], o)
    <2>1. /\ admin[a].pc = "visit" /\ admin' = [admin EXCEPT ![a] = c]
          /\ UNCHANGED <<cache, member, conn, shown, closed>>
      BY <1>4, FanoutVisits DEF fanoutShowFrame, sceneVars
    <2>2. /\ stale[s] => stale'[s]
          /\ member[s] = o => out'[s] = Append(out[s], f)
          /\ member[s] # o => out'[s] = out[s]
      BY <1>4 DEF fanoutShowFrame, Room, Open
    <2>3. Met(s, k)
      BY <1>0, <1>4, <2>1, <2>2 DEF Open, Subscribed
    <2>4. admin[a] \in FanoutState /\ admin[a].value = cache[admin[a].kind]
      BY <2>1, AdminShape DEF CallsInv, CallOf
    <2>5. f \in FrameType /\ f.kind = admin[a].kind /\ f.value = cache[admin[a].kind]
      BY <2>4, FrameTypes DEF FanoutState
    <2>6. out[s] \in Seq(FrameType)
      BY <1>T
    <2> HIDE DEF f
    <2>7. CASE member[s] = o
      <3>1. CASE admin[a].kind = k
        <4>1. Ends(Append(out[s], f), k, Base(conn[s], k, shown[s][k], cache[k]), cache[k])
          BY <2>5, <2>6, <3>1, EndsAppend
        <4>2. Caught(s, k)'
          BY <2>1, <2>2, <2>7, <4>1 DEF Caught
        <4> QED
          BY <4>2
      <3>2. CASE admin[a].kind # k
        <4>1. Caught(s, k) =>
                Ends(Append(out[s], f), k, Base(conn[s], k, shown[s][k], cache[k]), cache[k])
          BY <2>5, <2>6, <3>2, EndsOther DEF Caught
        <4>2. Caught(s, k) => Caught(s, k)'
          BY <2>1, <2>2, <2>7, <4>1 DEF Caught
        <4>3. ~ ToVisit(admin[a], k, member[s])
          BY <3>2 DEF ToVisit
        <4>4. Pending(s, k) => Pending(s, k)'
          BY <2>1, <4>3, PendingKept
        <4> QED
          BY <2>3, <4>2, <4>4
      <3> QED
        BY <3>1, <3>2
    <2>8. CASE member[s] # o
      <3>1. Caught(s, k) => Caught(s, k)'
        BY <2>1, <2>2, <2>8 DEF Caught
      <3>2. CASE ToVisit(admin[a], k, member[s])
        <4>1. ToVisit(c, k, member'[s])
          BY <2>1, <2>4, <2>8, <3>2 DEF ToVisit, Visited, FanoutState
        <4>2. Pending(s, k)'
          BY <1>T, <2>1, <4>1 DEF Pending
        <4> QED
          BY <4>2
      <3>3. CASE ~ ToVisit(admin[a], k, member[s])
        <4>1. Pending(s, k) => Pending(s, k)'
          BY <2>1, <3>3, PendingKept
        <4> QED
          BY <2>3, <3>1, <4>1
      <3> QED
        BY <3>2, <3>3
    <2> QED
      BY <2>7, <2>8
  <1>5. ASSUME NEW a \in Admins, migrate1(a) \/ migrate2(a), NEW s \in Subs,
               Open(s)', NEW k \in Kinds
        PROVE  Met(s, k)'
    <2>1. /\ admin[a].pc \in {"migrate1", "migrate2"} /\ UNCHANGED <<cache, conn, shown, closed>>
          /\ stale[s] => stale'[s]
          /\ \/ out'[s] = out[s] \/ out'[s] = Append(out[s], SceneFrame)
             \/ out'[s] = out[s] \o <<SceneFrame, SceneFrame>>
      <3>1. CASE migrate1(a)
        BY <3>1 DEF migrate1
      <3>2. CASE migrate2(a)
        BY <3>2 DEF migrate2
      <3> QED
        BY <1>5, <3>1, <3>2
    <2>2. \A b \in Admins : admin[b].pc \notin {"list", "visit"}
      BY <2>1, Exclusive
    <2>3. ~ Pending(s, k)
      BY <2>2 DEF Pending, ToVisit
    <2>4. Caught(s, k)
      BY <1>0, <1>5, <2>1, <2>3 DEF Open, Subscribed
    <2>5. SceneFrame \in FrameType /\ SceneFrame.kind # k /\ out[s] \in Seq(FrameType)
      BY <1>T, FrameTypes DEF Kinds
    <2>6. out[s] \o <<SceneFrame, SceneFrame>> = Append(Append(out[s], SceneFrame), SceneFrame)
      BY <2>5
    <2> DEFINE w == Base(conn[s], k, shown[s][k], cache[k])
    <2>7. Ends(out[s], k, w, cache[k])
      BY <2>4 DEF Caught
    <2> HIDE DEF w
    <2>8. Ends(Append(out[s], SceneFrame), k, w, cache[k])
      BY <2>5, <2>7, EndsOther
    <2>9. Append(out[s], SceneFrame) \in Seq(FrameType)
      BY <2>5
    <2>10. Ends(Append(Append(out[s], SceneFrame), SceneFrame), k, w, cache[k])
      BY <2>5, <2>8, <2>9, EndsOther
    <2>11. Ends(out'[s], k, w, cache[k])
      BY <2>1, <2>6, <2>7, <2>8, <2>10
    <2>12. Caught(s, k)'
      BY <2>1, <2>11 DEF Caught, w
    <2> QED
      BY <2>12
  <1>6. ASSUME NEW t \in Subs,
               \/ resolveScene(t) \/ subscribe(t) \/ writerLoop(t) \/ detach(t)
               \/ \E j \in Kinds : replayShowFrame(t, j),
               NEW s \in Subs, Open(s)', NEW k \in Kinds
        PROVE  Met(s, k)'
    <2>1. UNCHANGED <<cache, admin, stale>>
      BY <1>6 DEF resolveScene, subscribe, writerLoop, detach, replayShowFrame
    <2>2. ASSUME member'[s] = member[s] PROVE Pending(s, k) => Pending(s, k)'
      BY <2>1, <2>2 DEF Pending
    <2>3. CASE s # t
      <3>1. /\ member'[s] = member[s] /\ conn'[s] = conn[s]
            /\ out'[s] = out[s] /\ shown'[s] = shown[s] /\ closed'[s] = closed[s]
        BY <1>6, <2>3 DEF resolveScene, subscribe, writerLoop, detach, replayShowFrame, TypeInv
      <3>2. Met(s, k)
        BY <1>0, <1>6, <2>1, <3>1 DEF Open, Subscribed
      <3>3. Caught(s, k) => Caught(s, k)'
        BY <2>1, <3>1 DEF Caught
      <3> QED
        BY <2>2, <3>1, <3>2, <3>3
    <2>4. CASE s = t /\ (resolveScene(t) \/ detach(t))
      BY <1>6, <2>4 DEF resolveScene, detach, TypeInv, Open, Subscribed
    <2>5. CASE s = t /\ subscribe(t)
      <3>1. conn[s] = "resolved" /\ conn'[s] = "roster" /\ out'[s] = out[s]
        BY <1>6, <2>5 DEF subscribe, TypeInv, Open, Subscribed
      <3>2. out[s] = <<>>
        BY <3>1 DEF PlaceInv, Unsubscribed
      <3>3. Base(conn'[s], k, shown'[s][k], cache'[k]) = cache'[k]
        BY <3>1 DEF Base
      <3>4. Caught(s, k)'
        BY <3>1, <3>2, <3>3, EndsEmpty DEF Caught
      <3> QED
        BY <3>4
    <2>6. CASE s = t /\ \E j \in Kinds : replayShowFrame(t, j)
      <3>1. PICK j \in Kinds : replayShowFrame(s, j)
        BY <2>6
      <3>2. /\ conn[s] = j /\ conn'[s] = (IF j = "roster" THEN "overlay" ELSE "run")
            /\ out'[s] = out[s] /\ member'[s] = member[s] /\ closed'[s] = closed[s]
            /\ shown'[s] = [shown[s] EXCEPT ![j] = cache[j]]
        BY <3>1 DEF replayShowFrame, TypeInv
      <3>3. Met(s, k)
        BY <1>0, <1>6, <2>1, <3>2 DEF Open, Subscribed, Kinds
      <3>4. shown[s] \in [Kinds -> Nat]
        BY DEF TypeInv
      <3>5. shown'[s][k] = IF k = j THEN cache[k] ELSE shown[s][k]
        BY <3>2, <3>4
      <3>6. Base(conn'[s], k, shown'[s][k], cache'[k]) = Base(conn[s], k, shown[s][k], cache[k])
        BY <2>1, <3>2, <3>5 DEF Base, Kinds
      <3>7. Caught(s, k) => Caught(s, k)'
        BY <2>1, <3>2, <3>6 DEF Caught
      <3> QED
        BY <2>2, <3>2, <3>3, <3>7
    <2>7. CASE s = t /\ writerLoop(t)
      <3> DEFINE f == Head(out[s])
      <3>1. /\ conn[s] = "run" /\ conn'[s] = "run" /\ out[s] # <<>>
            /\ out'[s] = Tail(out[s]) /\ member'[s] = member[s] /\ closed'[s] = closed[s]
            /\ shown'[s] = (IF f.kind \in Kinds THEN [shown[s] EXCEPT ![f.kind] = f.value]
                           ELSE shown[s])
        BY <2>7 DEF writerLoop, TypeInv
      <3>2. Met(s, k)
        BY <1>0, <1>6, <2>1, <3>1 DEF Open, Subscribed
      <3>3. shown[s] \in [Kinds -> Nat] /\ out[s] \in Seq(FrameType)
        BY DEF TypeInv
      <3> HIDE DEF f
      <3>4. shown'[s][k] = IF f.kind = k THEN f.value ELSE shown[s][k]
        <4>1. CASE f.kind \in Kinds
          BY <3>1, <3>3, <4>1
        <4>2. CASE f.kind \notin Kinds
          BY <3>1, <4>2
        <4> QED
          BY <4>1, <4>2
      <3>5. ASSUME Caught(s, k) PROVE Caught(s, k)'
        <4>1. Ends(out[s], k, shown[s][k], cache[k])
          BY <3>1, <3>5 DEF Caught, Base
        <4>2. Ends(Tail(out[s]), k, IF f.kind = k THEN f.value ELSE shown[s][k], cache[k])
          BY <3>1, <3>3, <4>1, EndsTail DEF f
        <4>3. Ends(out'[s], k, shown'[s][k], cache'[k])
          BY <2>1, <3>1, <3>4, <4>2
        <4> QED
          BY <3>1, <4>3 DEF Caught, Base
      <3> QED
        BY <2>2, <3>1, <3>2, <3>5
    <2> QED
      BY <1>6, <2>3, <2>4, <2>5, <2>6, <2>7
  <1>8. ASSUME NEW a \in Admins, tearDown(a), NEW s \in Subs, Open(s)', NEW k \in Kinds
        PROVE  Met(s, k)'
    <2>1. /\ admin[a].pc = "tear" /\ admin' = [admin EXCEPT ![a] = Idle]
          /\ UNCHANGED <<cache, conn, shown, out, stale>> /\ ~ closed[s] /\ member'[s] = member[s]
      BY <1>8 DEF tearDown, TypeInv, Open
    <2>2. Met(s, k)
      BY <1>0, <1>8, <2>1 DEF Open, Subscribed
    <2>3. Caught(s, k) => Caught(s, k)'
      BY <2>1 DEF Caught
    <2>4. ~ ToVisit(admin[a], k, member[s])
      BY <2>1 DEF ToVisit
    <2>5. Pending(s, k) => Pending(s, k)'
      BY <2>1, <2>4, PendingKept
    <2> QED
      BY <2>2, <2>3, <2>5
  <1>7. ASSUME NEW s \in Subs, Open(s)', NEW k \in Kinds PROVE Met(s, k)'
    <2> HIDE DEF Met
    <2>1. CASE \E a \in Admins : \E j \in Kinds : cacheShowFrame(a, j)
      BY <1>1, <1>7, <2>1
    <2>2. CASE \E a \in Admins : \E o \in Scenes :
                 SetActive(a, o) \/ \E p \in Scenes \cup {None} : NewScene(a, o, p)
      BY <1>2, <1>7, <2>2
    <2>3. CASE \E a \in Admins : allFanoutScenes(a)
      BY <1>3, <1>7, <2>3
    <2>4. CASE \E a \in Admins : \E o \in Homes : fanoutShowFrame(a, o)
      BY <1>4, <1>7, <2>4
    <2>5. CASE \E a \in Admins : migrate1(a) \/ migrate2(a)
      BY <1>5, <1>7, <2>5
    <2>6. CASE \E t \in Subs :
                 \/ resolveScene(t) \/ subscribe(t) \/ writerLoop(t) \/ detach(t)
                 \/ \E j \in Kinds : replayShowFrame(t, j)
      BY <1>6, <1>7, <2>6
    <2>7. CASE \E a \in Admins : tearDown(a)
      BY <1>7, <1>8, <2>7
    <2> QED
      BY <2>1, <2>2, <2>3, <2>4, <2>5, <2>6, <2>7 DEF Next, AdminStep, HandlerStep, Homes
  <1> QED
    BY <1>7 DEF MeetInv

LEMMA ShowInit ==
  Init => ShowInv
  <1> SUFFICES ASSUME Init PROVE ShowInv
    OBVIOUS
  <1>1. TypeInv
    BY TypeInit
  <1>2. \A a \in Admins : admin[a] = Idle
    BY DEF Init
  <1>3. CallsInv
    BY <1>2 DEF CallsInv, CallOf, Idle
  <1>4. \A s \in Subs : conn[s] = "off" /\ out[s] = <<>> /\ member[s] = None /\ ~ Moving(s)
    BY <1>2 DEF Init, Moving, Idle
  <1>5. PlaceInv
    BY <1>4 DEF PlaceInv, Unsubscribed, Placed, Subscribed
  <1>6. MeetInv
    BY <1>4 DEF MeetInv, Open, Subscribed
  <1> QED
    BY <1>1, <1>3, <1>5, <1>6 DEF ShowInv

LEMMA ShowStep ==
  Orderly /\ ShowInv /\ [Next]_vars => ShowInv'
  <1> SUFFICES ASSUME Orderly, ShowInv, [Next]_vars PROVE ShowInv'
    OBVIOUS
  <1>1. CASE Next
    BY <1>1, TypeStep, CallsStep, PlaceStep, MeetStep DEF ShowInv
  <1>2. CASE UNCHANGED vars
    <2>1. TypeInv'
      BY <1>2, TypeStep DEF ShowInv
    <2>2. CallsInv'
      BY <1>2 DEF ShowInv, CallsInv, vars
    <2>3. /\ \A s \in Subs : /\ Moving(s)' <=> Moving(s)
                             /\ Subscribed(s)' <=> Subscribed(s)
                             /\ Open(s)' <=> Open(s)
          /\ \A o : Known(o)' <=> Known(o)
      BY <1>2 DEF Moving, Subscribed, Open, Known, Doomed, vars
    <2>4. PlaceInv'
      BY <1>2, <2>3 DEF ShowInv, PlaceInv, Unsubscribed, Placed, vars
    <2>5. \A s \in Subs : \A k \in Kinds :
            (Caught(s, k)' <=> Caught(s, k)) /\ (Pending(s, k)' <=> Pending(s, k))
      BY <1>2 DEF Caught, Pending, vars
    <2>6. MeetInv'
      BY <1>2, <2>3, <2>5 DEF ShowInv, MeetInv, vars
    <2> QED
      BY <2>1, <2>2, <2>4, <2>6 DEF ShowInv
  <1> QED
    BY <1>1, <1>2

\* With nothing under way, a client that is not stale is current.
LEMMA MetIsConverged ==
  ShowInv => ShowConverges
  <1> SUFFICES ASSUME ShowInv, NEW s \in Subs, Settled(s), ~ stale[s], ~ closed[s]
                  PROVE shown[s] = cache
    BY DEF ShowConverges
  <1>1. ASSUME NEW k \in Kinds PROVE shown[s][k] = cache[k]
    <2>1. ~ Pending(s, k)
      BY DEF Pending, ToVisit, Settled, Idle
    <2>2. Caught(s, k)
      BY <2>1 DEF ShowInv, MeetInv, Settled, Open, Subscribed
    <2>3. Ends(<<>>, k, shown[s][k], cache[k])
      BY <2>2 DEF Caught, Base, Settled
    <2> QED
      BY <2>3, EndsEmpty
  <1>2. shown[s] \in [Kinds -> Nat] /\ cache \in [Kinds -> Nat]
    BY DEF ShowInv, TypeInv
  <1> QED
    BY <1>1, <1>2

\* Orderly callers leave no hole between the cache that a new client is
\* replayed and the frames that are fanned out: whenever a client joined and
\* however often it was moved and other scenes were replaced, it ends up with the
\* cached roster and overlay state, unless its queue overflowed or its own scene
\* was replaced, which cuts it off.
THEOREM ShowFramesMeet == Spec /\ Orderly => []ShowConverges
  <1>1. Init /\ Orderly => Orderly /\ ShowInv
    BY ShowInit
  <1>2. (Orderly /\ ShowInv) /\ [Next]_vars => (Orderly /\ ShowInv)'
    <2> SUFFICES ASSUME Orderly, ShowInv, [Next]_vars PROVE Orderly' /\ ShowInv'
      OBVIOUS
    <2>1. Orderly'
      BY DEF Orderly
    <2> QED
      BY <2>1, ShowStep
  <1>3. ShowInv => ShowConverges
    BY MetIsConverged
  <1> QED
    BY <1>1, <1>2, <1>3, PTL DEF Spec
=============================================================================
