---------------------------- MODULE ControlPlane ----------------------------
(***************************************************************************)
(* interop/control/control.go, the HTTP API that sets a server up for a    *)
(* conformance scenario, with the driver that calls it                     *)
(* (interop/harness/http_driver.go), the StaticTokens it fills             *)
(* (server/auth.go) and the handshake of the clients that connect          *)
(* meanwhile (server/ws_handler.go).                                       *)
(*                                                                         *)
(* The module composes with LiveServer: the goroutine that net/http starts *)
(* for a request is one of LiveServer's admins, and a handler is a program *)
(* counter that runs LiveServer's NewScene, SetActive, Reset, Reject and   *)
(* emit in the order of the code.  Nothing serialises the handlers         *)
(* (Plane.mu covers only Plane.active), so clients and other handlers run  *)
(* between any two of their steps.                                         *)
(*                                                                         *)
(* The driver has one request under way at a time and gives up on it after *)
(* five seconds; the handler does not look at its request's context and    *)
(* runs on, beside the request the driver sends next.  A handler that       *)
(* panics is recovered by net/http, which serves the API                   *)
(* (cmd/lumencast/serve_scenario.go), and the server goes on.              *)
(*                                                                         *)
(* A scene's state is one leaf here (`content`), and every queued frame    *)
(* carries what it says of it (`data`, in step with LiveServer's `out`).   *)
(* Clients come at any moment and only read; LiveServer has those that     *)
(* leave, Session those that write.                                        *)
(***************************************************************************)
EXTENDS LiveServer

CONSTANTS
  Scenarios,    \* scenario names
  Tokens,       \* [scenario -> [placeholders of the request -> token]]
  Bundles,      \* [scenario -> sequence of [id, pinned]]: the scene id, whether a hash is given
  Malformed,    \* the scenarios whose first bundle has a malformed capture node
  Seed,         \* [scenario -> initial_state, else the bundle's defaults, else Empty]
  Empty,        \* a scene without state; also a token value that is not given
  Emitted,      \* what /test/emit writes
  TokenRole,    \* [recognised placeholder -> role]
  Presents,     \* [connection -> the token in its Subscribe frame]
  MaxClients,   \* bound on the connections that come
  MaxRequests,  \* bound on the requests the driver sends
  MaxTimeouts   \* bound on the requests it gives up on

ASSUME ScenarioAssumption ==
  /\ Malformed \subseteq Scenarios
  /\ \A k \in Scenarios : Bundles[k] \in Seq([id : Ids, pinned : BOOLEAN]) /\ Bundles[k] # <<>>
  /\ None \notin Scenarios
ASSUME HandlerAssumption == None \notin Admins
ASSUME RoleAssumption == \A p \in DOMAIN TokenRole : TokenRole[p] # None
ASSUME ControlBoundsAssumption ==
  MaxClients \in Nat /\ MaxRequests \in Nat /\ MaxTimeouts \in Nat

VARIABLES
  request,     \* per handler goroutine: its request and where it is
  driver,      \* HTTPDriver: the handler it waits for, and what the answers told it
  sent,        \* the requests and timeouts so far, and the objects the setups need
  tokens,      \* StaticTokens.tokens
  planeActive, \* Plane.active
  content,     \* the state of each scene object
  pinned,      \* the objects whose version is the one of the bundle
  session,     \* per connection: not read yet, turned away, or the role it authenticated with
  data,        \* what the frames of out say of the state
  shown        \* what each client shows

planeVars == <<request, driver, sent, tokens, planeActive, pinned>>
contentVars == <<content, data, shown>>
allVars == <<vars, planeVars, contentVars, session>>

Roles == {TokenRole[p] : p \in DOMAIN TokenRole}
TokenValues == {Presents[s] : s \in Subs} \cup
               ((UNION {{Tokens[k][p] : p \in DOMAIN Tokens[k]} : k \in Scenarios}) \ {Empty})
States == {Seed[k] : k \in Scenarios} \cup {Empty, Emitted}

NoRequest == [pc |-> "none", op |-> "none", sc |-> None, obj |-> None, left |-> {}, at |-> 0,
              alone |-> TRUE, status |-> "none", reply |-> None]

\* The shape of the state; data keeps in step with the queues.
ControlTypeOK ==
  /\ \A a \in Admins :
       /\ request[a].pc \in {"none", "start", "tokens", "install", "create", "reject", "set",
                             "refresh", "activate", "second", "version", "finish", "find",
                             "apply", "publish", "read", "done"}
       /\ request[a].op \in {"none", "setup", "reset", "emit", "state"}
       /\ request[a].sc \in Scenarios \cup {None}
       /\ request[a].obj \in Objs \cup {None}
       /\ request[a].status \in {"none", "ok", "conflict", "failed"}
  /\ driver.on \in Admins \cup {None}
  /\ driver.scenario \in Scenarios \cup {None}
  /\ sent.requests <= MaxRequests /\ sent.timeouts <= MaxTimeouts
  /\ tokens \in [TokenValues -> Roles \cup {None}]
  /\ planeActive \in Ids \cup {None}
  /\ content \in [Scenes -> States]
  /\ pinned \subseteq created
  /\ session \in [Subs -> {"new", "denied"} \cup Roles]
  /\ \A s \in Subs : Len(data[s]) = Len(out[s])
  /\ shown \in [Subs -> States]

ControlInit ==
  /\ Init
  /\ request = [a \in Admins |-> NoRequest]
  /\ driver = [on |-> None, sure |-> TRUE, scenario |-> None, state |-> Empty, reply |-> None]
  /\ sent = [requests |-> 0, timeouts |-> 0, objects |-> 0]
  /\ tokens = [t \in TokenValues |-> None]
  /\ planeActive = None
  /\ content = [o \in Scenes |-> Empty]
  /\ pinned = {}
  /\ \E C \in SUBSET Subs :
       /\ Cardinality(C) <= MaxClients
       /\ session = [s \in Subs |-> IF s \in C THEN "new" ELSE "denied"]
  /\ data = [s \in Subs |-> <<>>]
  /\ shown = [s \in Subs |-> Empty]

-----------------------------------------------------------------------------
(* What frames say. *)

\* What s shows once it has the head of its queue: a SceneChanged says nothing
\* of the state, and a Delta after a gap is not applied.
Seen(s) ==
  LET f == Head(out[s])
  IN  IF f.type = "changed" \/ (f.type = "delta" /\ f.seq # client[s].last + 1)
        THEN shown[s] ELSE Head(data[s])

\* The connections in S take the head of their queue; the frames the step
\* queues say v if they are Deltas, else what the scene's store holds.
Carry(S, v) ==
  /\ shown' = [s \in Subs |-> IF s \in S THEN Seen(s) ELSE shown[s]]
  /\ data' = [s \in Subs |->
       LET kept == IF s \in S THEN Tail(data[s]) ELSE data[s]
       IN  [i \in 1 .. Len(out'[s]) |->
              IF i <= Len(kept) THEN kept[i]
              ELSE IF out'[s][i].type = "delta" THEN v
              ELSE content'[out'[s][i].scene]]]

-----------------------------------------------------------------------------
(* The driver. *)

Running == {a \in Admins : request[a].pc \notin {"none", "done"}}

\* The first step of a request's handler.
Entry(op) == IF op \in {"setup", "reset"} THEN "start" ELSE "find"

\* HTTPDriver.Setup, Reset, Emit and SnapshotState: one request, served by a
\* goroutine of its own.
send(a, op, k) ==
  /\ driver.on = None
  /\ request[a] = NoRequest
  /\ sent.requests < MaxRequests
  /\ sent' = [sent EXCEPT !.requests = @ + 1,
                          !.objects = @ + (IF k = None THEN 0 ELSE Len(Bundles[k]))]
  /\ sent'.objects <= Cardinality(Objs)
  /\ request' = [b \in Admins |->
       IF b = a THEN [NoRequest EXCEPT !.pc = Entry(op), !.op = op, !.sc = k,
                                       !.alone = Running = {}]
       ELSE IF b \in Running THEN [request[b] EXCEPT !.alone = FALSE] ELSE request[b]]
  /\ driver' = [driver EXCEPT !.on = a, !.reply = None]
  /\ UNCHANGED <<vars, tokens, planeActive, pinned, contentVars, session>>

\* What the driver knows when it has a's answer: after a setup the scenario and
\* its state, after an emit the state, after a reset that there is none.  It is
\* `sure` of it if the handler ran alone and nothing before made it unsure.
Learned(a) ==
  LET r == request[a]
      fresh == r.op \in {"setup", "reset"}
      known == [driver EXCEPT !.on = None,
                              !.sure = r.alone /\ r.status # "failed" /\ (fresh \/ @)]
  IN  IF r.status # "ok" THEN known
      ELSE CASE r.op = "setup" -> [known EXCEPT !.scenario = r.sc, !.state = Seed[r.sc]]
             [] r.op = "reset" -> [known EXCEPT !.scenario = None, !.state = Empty]
             [] r.op = "emit"  -> [known EXCEPT !.state = Emitted]
             [] r.op = "state" -> [known EXCEPT !.reply = r.reply]

\* The answer arrives.  One the driver gave up on is dropped.
answer(a) ==
  /\ request[a].pc = "done"
  /\ request' = [request EXCEPT ![a] = NoRequest]
  /\ driver' = IF driver.on = a THEN Learned(a) ELSE driver
  /\ UNCHANGED <<vars, sent, tokens, planeActive, pinned, contentVars, session>>

\* client.Do returns after five seconds without an answer; the handler runs on.
timeout(a) ==
  /\ driver.on = a
  /\ a \in Running
  /\ sent.timeouts < MaxTimeouts
  /\ sent' = [sent EXCEPT !.timeouts = @ + 1]
  /\ driver' = [driver EXCEPT !.on = None, !.sure = FALSE]
  /\ UNCHANGED <<vars, request, tokens, planeActive, pinned, contentVars,
                 session>>

-----------------------------------------------------------------------------
(* The handlers. *)

\* Handler a is at step p of its request and in no call of the server.
At(a, p) == request[a].pc = p /\ admin[a] = Idle

Goto(a, p) == request' = [request EXCEPT ![a].pc = p]

\* The handler writes its answer.
Reply(a, status) == request' = [request EXCEPT ![a].pc = "done", ![a].status = status]

\* The tokens installTokens keeps: a placeholder with a role and a value.
Recognised(k) == {p \in DOMAIN Tokens[k] : p \in DOMAIN TokenRole /\ Tokens[k][p] # Empty}

\* The step after n bundles are registered.
NextBundle(k, n) == IF n < Len(Bundles[k]) THEN "second" ELSE "finish"

\* The step after the primary bundle was accepted or rejected.
SeedStep(k) == IF Seed[k] = Empty THEN "activate" ELSE "set"

\* handleSetup and handleReset begin with Server.Reset.
resetServer(a) ==
  /\ At(a, "start")
  /\ Reset(a)
  /\ Goto(a, "tokens")
  /\ UNCHANGED <<driver, sent, tokens, planeActive, pinned, contentVars, session>>

\* Mutant: the tokens of the scenario before are kept.
resetTokens_Keeps(a) ==
  LET k == request[a].sc
      left == IF k = None THEN {} ELSE Recognised(k)
  IN  /\ At(a, "tokens")
      /\ request' = [request EXCEPT
           ![a].left = left,
           ![a].pc = IF k = None THEN "finish" ELSE IF left = {} THEN "create" ELSE "install"]
      /\ UNCHANGED <<vars, driver, sent, tokens, planeActive, pinned, contentVars, session>>

\* StaticTokens.Reset, from installTokens or handleReset.
resetTokens(a) ==
  LET k == request[a].sc
      left == IF k = None THEN {} ELSE Recognised(k)
  IN  /\ At(a, "tokens")
      /\ tokens' = [t \in TokenValues |-> None]
      /\ request' = [request EXCEPT
           ![a].left = left,
           ![a].pc = IF k = None THEN "finish" ELSE IF left = {} THEN "create" ELSE "install"]
      /\ UNCHANGED <<vars, driver, sent, planeActive, pinned, contentVars, session>>

\* StaticTokens.Set for one placeholder; Go iterates the map in any order.
installToken(a, p) ==
  LET left == request[a].left \ {p}
  IN  /\ At(a, "install")
      /\ p \in request[a].left
      /\ tokens' = [tokens EXCEPT ![Tokens[request[a].sc][p]] = TokenRole[p]]
      /\ request' = [request EXCEPT ![a].left = left,
                                    ![a].pc = IF left = {} THEN "create" ELSE @]
      /\ UNCHANGED <<vars, driver, sent, planeActive, pinned, contentVars, session>>

\* An object that does not exist yet (send sees to it that there are enough).
Fresh == CHOOSE o \in Objs : o \notin created

\* Register bundle n of the scenario, its hash given as an option if opt.
register(a, n, opt, next) ==
  LET b == Bundles[request[a].sc][n]
      o == Fresh
  IN  /\ NewScene(a, b.id, o)
      /\ pinned' = IF opt /\ b.pinned THEN pinned \cup {o} ELSE pinned
      /\ request' = [request EXCEPT ![a].obj = o, ![a].at = n, ![a].pc = next]
      /\ UNCHANGED <<driver, sent, tokens, planeActive, contentVars, session>>

\* Mutant: the scene is registered under the id of the last bundle.
createPrimary_WrongId(a) ==
  LET o == Fresh
      k == request[a].sc
      b == Bundles[k][Len(Bundles[k])]
  IN  /\ At(a, "create")
      /\ NewScene(a, b.id, o)
      /\ pinned' = IF b.pinned THEN pinned \cup {o} ELSE pinned
      /\ request' = [request EXCEPT ![a].obj = o, ![a].at = 1,
                        ![a].pc = IF k \in Malformed THEN "reject" ELSE SeedStep(k)]
      /\ UNCHANGED <<driver, sent, tokens, planeActive, contentVars, session>>

\* The primary bundle's scene, its version an option of NewScene.
createPrimary(a) ==
  LET k == request[a].sc
  IN  /\ At(a, "create")
      /\ register(a, 1, TRUE, IF k \in Malformed THEN "reject" ELSE SeedStep(k))

\* CheckZabCaptureNodes found a malformed node.
rejectPrimary(a) ==
  /\ At(a, "reject")
  /\ Reject(a, request[a].obj)
  /\ Goto(a, SeedStep(request[a].sc))
  /\ UNCHANGED <<driver, sent, tokens, planeActive, pinned, contentVars, session>>

\* Scene.Set, under store.mu.  Values decoded from JSON always encode, so its
\* error path ("bad-initial-state") is never taken.
seedStore(a) ==
  /\ At(a, "set")
  /\ content' = [content EXCEPT ![request[a].obj] = Seed[request[a].sc]]
  /\ Goto(a, "refresh")
  /\ UNCHANGED <<vars, driver, sent, tokens, planeActive, pinned, data, shown, session>>

\* Mutant: the clients that are already on the scene are not told.
refreshAll_Silent(a) ==
  /\ At(a, "refresh")
  /\ Goto(a, "activate")
  /\ UNCHANGED <<vars, driver, sent, tokens, planeActive, pinned, contentVars, session>>

\* Scene.Set's refreshAll, under scene.mu: a Snapshot for every subscriber
\* with room, the others are marked stale.
refreshAll(a) ==
  LET o == request[a].obj
      fit == {s \in subscribers[o] : Free(s) >= 1}
  IN  /\ At(a, "refresh")
      /\ o \notin locked
      /\ out' = [s \in Subs |->
           IF s \in fit THEN Append(out[s], Frame("snapshot", o, seq[o])) ELSE out[s]]
      /\ stale' = [s \in Subs |-> stale[s] \/ s \in subscribers[o] \ fit]
      /\ UNCHANGED content
      /\ Carry({}, None)
      /\ Goto(a, "activate")
      /\ UNCHANGED <<sceneVars, subscribers, torn, seq, admin, handlerVars, closed, client,
                     panicVars, calls, driver, sent, tokens, planeActive, pinned, session>>

\* SetActive: an id another handler's Reset removed is the 500 answer, the id
\* NewScene has activated is nothing to do, any other is a switch.
activate(a) ==
  LET k == request[a].sc
      id == Bundles[k][1].id
  IN  /\ At(a, "activate")
      /\ \/ /\ scenes[id] = None
            /\ Reply(a, "failed")
            /\ UNCHANGED vars
         \/ /\ scenes[id] # None
            /\ active = id
            /\ Goto(a, NextBundle(k, 1))
            /\ UNCHANGED vars
         \/ /\ SetActive(a, id)
            /\ Goto(a, NextBundle(k, 1))
      /\ UNCHANGED <<driver, sent, tokens, planeActive, pinned, contentVars, session>>

\* A further bundle is registered with the default version ...
createSecondary(a) ==
  LET k == request[a].sc
      n == request[a].at + 1
  IN  /\ At(a, "second")
      /\ register(a, n, FALSE, IF Bundles[k][n].pinned THEN "version" ELSE NextBundle(k, n))

\* ... and gets its own with SetVersion, under its mu.
setVersion(a) ==
  /\ At(a, "version")
  /\ request[a].obj \notin locked
  /\ pinned' = pinned \cup {request[a].obj}
  /\ Goto(a, NextBundle(request[a].sc, request[a].at))
  /\ UNCHANGED <<vars, driver, sent, tokens, planeActive, contentVars, session>>

\* The last step of handleSetup and handleReset: Plane.active and the answer.
finish(a) ==
  /\ At(a, "finish")
  /\ planeActive' = IF request[a].op = "setup" THEN Bundles[request[a].sc][1].id ELSE None
  /\ Reply(a, "ok")
  /\ UNCHANGED <<vars, driver, sent, tokens, pinned, contentVars, session>>

\* handleEmit and handleState take the active scene, or answer 409.
findActive(a) ==
  /\ At(a, "find")
  /\ \/ /\ active = None
        /\ Reply(a, "conflict")
     \/ /\ active # None
        /\ request' = [request EXCEPT ![a].obj = LiveScene,
                          ![a].pc = IF request[a].op = "emit" THEN "apply" ELSE "read"]
  /\ UNCHANGED <<vars, driver, sent, tokens, planeActive, pinned, contentVars, session>>

\* Scene.Emit, under store.mu.
applyEmit(a) ==
  /\ At(a, "apply")
  /\ content' = [content EXCEPT ![request[a].obj] = Emitted]
  /\ Goto(a, "publish")
  /\ UNCHANGED <<vars, driver, sent, tokens, planeActive, pinned, data, shown, session>>

\* Scene.Emit, under scene.mu.
publishEmit(a, K) ==
  /\ At(a, "publish")
  /\ emit(request[a].obj, K)
  /\ UNCHANGED content
  /\ Carry(K, Emitted)
  /\ Reply(a, "ok")
  /\ UNCHANGED <<driver, sent, tokens, planeActive, pinned, session>>

\* handleState answers with the scene's state.
readState(a) ==
  /\ At(a, "read")
  /\ request' = [request EXCEPT ![a].pc = "done", ![a].status = "ok",
                                ![a].reply = content[request[a].obj]]
  /\ UNCHANGED <<vars, driver, sent, tokens, planeActive, pinned, contentVars, session>>

\* The rest of a NewScene, SetActive or Reset that the handler is in.
serverStep(a) ==
  /\ migrate1(a) \/ migrate2(a) \/ \E o \in Objs : tearDown(a, o)
  /\ UNCHANGED content
  /\ Carry({}, None)
  /\ UNCHANGED <<planeVars, session>>

\* The migration panics: net/http recovers, and aborts the connection without
\* an answer, which to the driver is as much of a failure as the 500 one.
serverPanics(a) ==
  /\ migrate2Panics(a)
  /\ UNCHANGED content
  /\ Carry({}, None)
  /\ Reply(a, "failed")
  /\ UNCHANGED <<driver, sent, tokens, planeActive, pinned, session>>

-----------------------------------------------------------------------------
(* Clients. *)

\* serveLSDP reads the first frame and authenticates its token, once: no frame
\* in time or another one than Subscribe ends the connection, and so does a
\* token that StaticTokens does not know now.
authenticate(s) ==
  /\ session[s] = "new"
  /\ \/ session' = [session EXCEPT ![s] = "denied"]
     \/ /\ tokens[Presents[s]] # None
        /\ session' = [session EXCEPT ![s] = tokens[Presents[s]]]
  /\ UNCHANGED <<vars, planeVars, contentVars>>

MayTest == {"test", "operator"}

\* resolveScene, for a connection that authenticated: test mode needs a role
\* that may, and a registered scene.
resolve(s) ==
  /\ session[s] \in Roles
  /\ \/ /\ s \in Live \/ session[s] \in MayTest
        /\ \E o \in Scenes : resolveScene(s, o)
        /\ UNCHANGED session
     \/ /\ conn[s] = "off"
        /\ s \in Test
        /\ session[s] \notin MayTest \/ \E id \in Ids : scenes[id] = None
        /\ session' = [session EXCEPT ![s] = "denied"]
        /\ UNCHANGED vars
  /\ UNCHANGED <<planeVars, contentVars>>

\* The rest of the handshake.
subscribeStep(s) ==
  /\ checkRejection(s) \/ subscribe(s)
  /\ UNCHANGED content
  /\ Carry({}, None)
  /\ UNCHANGED <<planeVars, session>>

\* A frame reaches the client.
deliverFrame(s) ==
  /\ deliver(s)
  /\ UNCHANGED content
  /\ Carry({s}, None)
  /\ UNCHANGED <<planeVars, session>>

-----------------------------------------------------------------------------

HandlerNext(a) ==
  \/ resetServer(a)
  \/ resetTokens(a)
  \/ \E p \in DOMAIN TokenRole : installToken(a, p)
  \/ createPrimary(a)
  \/ rejectPrimary(a)
  \/ seedStore(a)
  \/ refreshAll(a)
  \/ activate(a)
  \/ createSecondary(a)
  \/ setVersion(a)
  \/ finish(a)
  \/ findActive(a)
  \/ applyEmit(a)
  \/ \E K \in SUBSET Subs : publishEmit(a, K)
  \/ readState(a)
  \/ serverStep(a)
  \/ serverPanics(a)

ControlNext ==
  \/ \E a \in Admins :
       \/ \E k \in Scenarios : send(a, "setup", k)
       \/ \E op \in {"reset", "emit", "state"} : send(a, op, None)
       \/ answer(a)
       \/ timeout(a)
       \/ HandlerNext(a)
  \/ \E s \in Subs :
       authenticate(s) \/ resolve(s) \/ subscribeStep(s) \/ deliverFrame(s)

ControlSpec == ControlInit /\ [][ControlNext]_allVars

-----------------------------------------------------------------------------
(* Properties. *)

\* The server is set up for scenario k and nothing else: its first bundle's
\* scene is active, its bundles are the registered scenes with the versions it
\* gave, and exactly its tokens are accepted, with their roles.
Established(k) ==
  /\ active = Bundles[k][1].id
  /\ planeActive = active
  /\ {i \in Ids : scenes[i] # None} = {Bundles[k][n].id : n \in DOMAIN Bundles[k]}
  /\ \A n \in DOMAIN Bundles[k] : scenes[Bundles[k][n].id] \in pinned <=> Bundles[k][n].pinned
  /\ LiveScene \in rejected <=> k \in Malformed
  /\ {t \in TokenValues : tokens[t] # None} = {Tokens[k][p] : p \in Recognised(k)}
  /\ \A p \in Recognised(k) :
       \E q \in Recognised(k) : Tokens[k][q] = Tokens[k][p] /\ tokens[Tokens[k][p]] = TokenRole[q]

\* A driver that has the answers it waited for can rely on them, whatever
\* timed out or ran side by side before: after a setup that ran alone the
\* server is set up for that scenario alone, the active scene's state is what
\* the driver seeded or emitted last, and /test/state says so; after a reset
\* there is no scene and no token.
DriverKnows ==
  driver.on = None /\ driver.sure =>
    IF driver.scenario = None
      THEN active = None /\ planeActive = None /\ \A t \in TokenValues : tokens[t] = None
      ELSE /\ Established(driver.scenario)
           /\ content[LiveScene] = driver.state
           /\ driver.reply \in {None, driver.state}

\* Handler a waits for ever: its next step needs a mutex that a panic left locked.
Blocked(a) ==
  \/ admin[a].pc = "migrate1" /\ admin[a].prev \in locked
  \/ admin[a].pc = "migrate2" /\ admin[a].next \in locked
  \/ admin[a].pc = "tear" /\ admin[a].tear \cap locked # {}
  \/ /\ \E p \in {"reject", "refresh", "version", "publish"} : At(a, p)
     /\ request[a].obj \in locked

\* A request that runs alone is answered well, also after others have timed out,
\* panicked or left a mutex locked: the 500 answer, which leaves the server half
\* set up, the panic on the nil map of a scene another handler tore down, and
\* the wait for a mutex nobody will unlock each need a second handler that is
\* still under way (one that waits for ever included).
AloneNeverFails ==
  \A a \in Admins : request[a].alone => request[a].status # "failed" /\ ~ Blocked(a)

\* A live client that came at any moment of a setup, before it, between two of
\* its steps or after it, ends up showing the state of the active scene, also
\* when handlers beside it timed out or panicked earlier; one that subscribed to
\* a scene that was no longer the live one, was marked stale, was cut off by a
\* reset or was in the hands of a handler that panicked is excepted.
ClientsCatchUp ==
  driver.on = None /\ driver.sure /\ active # None =>
    \A s \in Live :
      conn[s] = "run" /\ ~ closed[s] /\ ~ stale[s] /\ ~ late[s] /\ s \notin lost /\ out[s] = <<>> =>
        shown[s] = content[LiveScene]

\* Every open connection is where the server can reach it, at any moment, also
\* after a panic: a subscription that is not closed and not marked stale is
\* registered with a scene of the registry or with holding, so that a later
\* switch, reset or detach finds it, or with one that a handler under way will
\* close, or a migration holds it.  Those a migration had in hand when it
\* panicked are excepted.
NoOrphans ==
  \A s \in Subs : conn[s] = "run" /\ ~ closed[s] /\ ~ stale[s] /\ s \notin lost =>
    \/ \E o \in Registered \cup {Holding} : s \in subscribers[o]
    \/ \E a \in Admins :
         s \in admin[a].transit \/ \E o \in admin[a].tear : s \in subscribers[o]

-----------------------------------------------------------------------------
(* What the code's comments say and the model refutes (README). *)

\* A client never shows a scene "built from a bundle we rejected": the setup of
\* a malformed bundle "is registered but marked unservable, so the subscriber
\* gets an INVALID_VALUE error frame where it would otherwise read a snapshot".
RejectedNeverShown == \A s \in Subs : client[s].scene \notin rejected

\* "Either path leaves the server with the scene populated before any client
\* subscribes": nobody is subscribed to the primary scene before its seed.
SeededBeforeSubscribers ==
  \A a \in Admins : request[a].pc = "set" => subscribers[request[a].obj] = {}

\* Reset: "In-flight subscribers are detached."
ResetDetaches ==
  \A a \in Admins : At(a, "tokens") /\ request[a].alone =>
    \A s \in Subs : conn[s] = "run" => closed[s]

\* NoOrphans when every handler has finished, without the exception for a panic: a
\* live subscription "follows whatever scene is currently active on the server".
EveryoneReachable ==
  Running = {} =>
    \A s \in Live : conn[s] = "run" /\ ~ closed[s] /\ ~ stale[s] =>
      \E o \in Registered \cup {Holding} : s \in subscribers[o]
=============================================================================
