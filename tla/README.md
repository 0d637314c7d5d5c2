# TLA+ models of lumencast-go

lumencast-go is a server SDK for live graphics: a *scene* is a set of leaf
paths with JSON values; adapters and operators write leaves, and every
connected client keeps a copy of the scene by means of the LSDP/1 protocol
(a snapshot, then numbered deltas over a WebSocket).  This directory models the
server's core in TLA+, checks the models with TLC on small instances and proves
the most important invariants with TLAPS for all instances.

## 1. Inventory of the system

| Part | State | Operations | Interacts with |
|---|---|---|---|
| `server/store.go` | leaf path -> value | `applyPatches`, `snapshot` | the scene; has a mutex of its own |
| `server/replay_buffer.go` | ring of the last deltas | `push`, `since`, `reset` | the scene, under `scene.mu` |
| `protocol/sequence.go` | one counter | `NextServer`, `Current` (server); `ObserveServer`, `ObserveSnapshot` (client) | numbers deltas, detects gaps |
| `server/scene.go` | store, counter, replay ring, subscribers, declared inputs, rejection | `Set`, `Emit`, `Reject`, `applyInput`, `subscribeWithResume`, `unsubscribe` | called by adapters, handlers and the server; sends to subscriptions' channels without blocking |
| `server/server.go` | scenes by id, the active id, the holding scene, cached roster and overlay state | `NewScene`, `SetActive`, `Reset`, `SetRoster`, `SetOverlayApps`, `migrateLive`, `detach` | moves live subscriptions between scenes |
| `server/ws_handler.go` | per connection: captured scene, subscription, reader and writer goroutine | `serveLSDP`, `runConnection`, `writerLoop` | reads client frames, drains the subscription |
| `server/auth.go`, `protocol/leaf_path.go` | identities, token table | `CanWrite`, `matchPathPattern`, `StaticTokens` | consulted by `serveLSDP` and `applyInput` |
| `server/adapters` | a retry delay; for pgx a notification channel and a pump goroutine | `HTTPPoll`, `WSSubscribe`, `PgListen`, `PgxListen` | call `Scene.Emit` |
| `protocol` frames, codec, errors | none | encode, decode | all of the above |
| `interop/control` | the id of the last setup | `handleSetup`, `handleReset`, `handleEmit`, `handleState` | drives the server and the token table; one goroutine per request, nothing serialises them |
| `interop/harness` | the request under way | `Setup`, `Reset`, `Emit`, `SnapshotState` | calls the control plane, gives up after 5 seconds |
| `lsml` | none | `HashRaw`, `Validate`, `CheckZabCaptureNodes` | the control plane rejects scenes, the CLI builds and validates bundles |
| `conformance` | a test client | scenario steps | drives the server for tests |
| `server/static.go`, `cmd`, `examples` | none of the show | files, flags | - |

What is hard here is concurrency.  `store.mu`, `scene.mu`, `server.mu`,
`rosterMu`, `overlayMu` and each subscription's own mutex are taken one after the other,
almost never nested; channels are bounded and sends never block; handlers keep
pointers to scenes across all of this; clients come back and resume.
`PROJECT.json` lists the hazards one by one, each at its line.  What makes the
parts correct:

- replay buffer: a resume it calls covered loses nothing recorded since the last
  reset;
- scene: clients see no gap and end up with the scene's state;
- server: a subscription is in one place, live clients follow the active scene,
  test-mode clients stay, nobody sends on a closed channel;
- show-level frames: clients end up with what is cached, unless their scene is
  replaced;
- connection: messages are answered, answers keep their order, sessions end;
- inputs: all or nothing, and only what role, claims and declarations allow;
- projection metadata: what a client shows carries the identity of its number;
- control plane: what the driver was answered is so, clients that connect during
  a setup catch up, a half-done setup is never reported as done;
- bundles: every node is checked, a valid layout can be rendered, the hash
  identifies the content, inputs keep to the document;
- adapters: nothing taken from the upstream is lost, a cancelled adapter ends.

## 2. Modules

| Module | Models | Checked by | Proved in |
|---|---|---|---|
| `ReplayLog` | what the replay buffer promises: a bounded log (abstract) | via `ReplayBuffer` | `ReplayBufferProofs` |
| `ReplayBuffer` | the ring of `replay_buffer.go` | `replay` | `ReplayBufferProofs` |
| `Scene` | one scene with concurrent callers and clients | `scene_emit`, `scene_set`, `scene_race` | `SceneProofs` |
| `LiveServer` | the registry, `migrateLive`, handlers | `live_switch`, `live_leak`, `control` | `LiveServerProofs` |
| `ShowFrames` | roster and overlay frames | `show_one` | `ShowFramesProofs` |
| `Session` | reader, writer and client of one connection | `session` | `SessionProofs` |
| `Projection` | `Scene` with projection metadata (extends `Scene`) | `projection` | `SceneProofs` |
| `ControlPlane` | the control plane, its driver, the token table and the handshake (extends `LiveServer`) | `control` | `ControlPlaneProofs` |
| `Input` | `applyInput` and its checks | `bundle` | `InputProofs` |
| `Lsml` | bundles as pure functions: canonical form, validation, leaf paths | `bundle` | - |
| `Bundle` | from a bundle to a scene's inputs (extends `Lsml` and `Input`) | `bundle` | - |
| `Adapters` | the source adapters' retry loops and the pgx pump | `adapters` | `AdaptersProofs` |

`MC*.tla` instantiate them; each `.cfg` is one run.  A definition whose name is
that of another one with a suffix (`push_NoWrap`, `migrate1_MovesAll`, ...) is a
mutant: a plausible bug in the code that `PROJECT.json` pairs with the property
that catches it.  `Scene` uses the operators of `ReplayLog` for its `replay`
variable, which is justified by the refinement proved in `ReplayBufferProofs`;
`LiveServer` abstracts from what `Scene` details (a frame there is its type, its
scene and its number), `Session` abstracts in turn from the phases of
`LiveServer` and adds the second goroutine that writes to the connection.
Two modules compose: every action of `ControlPlane` is one of `LiveServer` with
what it does to the control plane, and every action of `Projection` is one of
`Scene` with what it does to the metadata.

### ReplayBuffer

`records`, `head`, `size` are the Go fields; `seq` is the counter of the owning scene;
`pushed` is a history variable (everything pushed since the last reset,
overwritten records included).  `push` is `NextServer` plus `push` as
`emitWithCause` performs them under `scene.mu`; `SceneChangedSeq` is the number
`migrateLive` takes without a record.  `reset` is `replayBuffer.reset`, for
which the server has no caller today.

### Scene

A call of `Set` or `Emit` is two steps because the code takes `store.mu` for
`applyPatches` and `scene.mu` only afterwards: `Emit` / `Set` (the store), then
`publish` / `refreshAll` (number, record, fan-out).  Inside a fan-out, a
subscriber whose queue was full gets a second attempt, `collapse`; between the
two the writer may have drained a frame.  While `full` is not empty the caller
holds `scene.mu`, so nothing else that needs it can step.  `applyPatchesFails`
is the error return in the middle of Go's unordered map iteration; the paths it
wrote are in the history variable `dirty`, because no correctness statement
about published state can include them.  Clients apply what the protocol package
prescribes (`Receive`), leave at any time and, if in `Resuming`, come back with
the last number they saw.  `migrateAway` is the first phase of `migrateLive`
seen from one scene.

### LiveServer

Every action is one critical section.  `NewScene`, `SetActive` and `Reset` are
sequences of them, and their goroutine (an *admin*) remembers where it is:
`migrate1` (under `prev.mu`), `migrate2` (under `next.mu`), `tearDown`.  Between
the first two the moving subscriptions are in no scene (`transit`).  A scene is
an object, not an id: `torn` are objects whose subscribers map was set to nil.
Writing to such a map is a panic, in a connection's handler (`conn =
"panicked"`) or in a migration (`migrate2Panics`).  net/http recovers the panics
of its handlers, the control plane's included, and the process goes on; but
`migrateLive` does not defer its Unlock, so the scene's mutex stays in `locked`,
every step that needs it is disabled for ever, and the subscriptions the
migration had in hand are in no scene (`lost`, a history variable).  In a
goroutine of the embedding program's own the same panic ends the process, and
there is nothing to say about what follows.  Handlers step through
`resolveScene`, `checkRejection`, `subscribe`, `deliver`, `hangUp`, `detach`,
`unsubscribe`.  `late` is a history variable, see Known deviations.  Which calls an
admin makes is a constant (`Operations`): a program decides which of its goroutines
does what, and the control plane's handlers make every one.

### ShowFrames

`cacheShowFrame` (under `rosterMu` / `overlayMu`), `allFanoutScenes` (under
`server.mu`), `fanoutShowFrame` (one scene at a time, under its mu), and for a
new client `replayShowFrame` between subscribing and the start of the writer.  The
roster and the overlay state take the same path, so they are two values of
`Kinds`.  `migrate1` / `migrate2` are here because they take queue slots and
hold subscriptions.  `NewScene(a, o, p)` registers the object `o`, under an unused
id or in the place of `p`; in the second case `tearDown` closes the subscriptions
of `p` and makes its map nil, in a step of its own.  A `closed` subscription is in
no scene and gets nothing any more although its connection stays.  `detach` finds
the subscriptions of registered scenes and of holding only.

### Session

From the end of the first frames on.  The reader handles one message at a time:
`readInput`, or `readMessage` followed by `sendReply` (two steps, because the
number of an Error is read before the frame is written); `readFails` and
`finish` are its end.  The writer has `writeFrame`, `writePing`, `writerEnds`.
`wire` is the connection in the server-to-client direction, `inbox` the other.
A `course` is what may happen in one session: the messages, a switch, a
replacement.

### Input

Paths are sequences of segments, values a type and a number, claims the segments
of their pattern plus what follows them.  `Verdict` is the validation loop,
`applyInput` the whole operation.

### Projection

`EmitWithCauseAndMetadata` passes metadata that its Delta and its replay record
carry and that becomes `lastMetadata`; `stampMetadata` puts that on every
Snapshot.  `passed`, `recorded`, `stamped` and `outMeta` are the metadata of the
calls, records and frames that `Scene` has; `inForce` is a history variable, the
metadata in force at each number.  A client stores what it gets (`Identify`):
a Snapshot's metadata replaces its own, a Delta's does if there is any.

### ControlPlane

A request is served by a goroutine of its own, one of `LiveServer`'s admins.
`handleSetup` is `resetServer`, `resetTokens`, `installToken` for each
placeholder, `createPrimary`, `rejectPrimary` if a capture node is malformed,
`seedStore` and `refreshAll` if there is state, `activate`, `createSecondary` and
`setVersion` for the other bundles, `finish`; `serverStep` are the phases of the
`NewScene`, `SetActive` or `Reset` it is in.  `serverPanics` is the panic of such a
migration on a scene another handler has torn down: net/http
(`serve_scenario.go:75-85`) recovers it and aborts the connection, which the driver
sees as a failed request (`failed`), and requests, handlers and clients go on beside the scene that
stays locked (`Blocked` are the handlers that wait for it).  `handleReset` shares the first and
the last of these; `handleEmit` is `findActive`, `applyEmit`, `publishEmit`,
`handleState` is `findActive`, `readState`.  Requests that are refused before the
first step (method, body, no bundle) change nothing and are left out.  The driver
sends one request at a time, learns from the answer (`Learned`) and may give up
(`timeout`), after which the handler runs on.  `alone` in a request and `sure` in
the driver are history: whether another handler ran beside this one, and whether
the driver can know what the server holds.  A client's token is looked up once
(`authenticate`).  The state of a scene is one leaf, `content`; `data` is what the
queued frames say of it, `shown` what the clients make of them.

### Lsml and Bundle

A JSON value is its kind and its content, a leaf path its tokens, so that a
template is any sequence of words, dots and braces.  `writeCanonical` writes
tokens; SHA-256 is injective.  Strings are atoms: escapes and number formats are
left out.  `Bundle` starts from every document of the instance (or from a scene
the program declares itself), runs `CheckZabCaptureNodes` one node per step and
then lets clients send Inputs as in `Input`.

### Adapters

One adapter, of any of the three kinds.  `pollOnce` is an iteration of
`HTTPPoll` up to its wait; `connect`, `connectFails`, `readMessage`, `readFails`
and `AfterRun` are `wsRunOnce` / `pgxRunOnce` and the loops around them; `again`
and `stop` are the two ways out of the wait.  The pump of `pgxRunOnce` is a
process of its own (`pumpTakes`, `pumpSends`, `pumpFails`, `pumpCloses`), so
that `listenEnds` looks at `pumpErr` at any point of it.  The upstream, the
network and the owner of the context are the environment.  What `Emit` does is
in `Scene`; here it is an entry of `emitted`.

## 3. Runs and bounds

| Run | Instance | Shows |
|---|---|---|
| `replay` | 3 slots, 8 numbers, 2 patch sets | the ring wraps twice; coverage, order, refinement |
| `scene_emit` | 2 callers on separate paths, 1 resuming client, queue 2, ring 2, 5 numbers | no gap and convergence while queue and ring both overflow |
| `scene_set` | 1 caller that sets, emits and fails, 1 client, the endpoint may leave; fair | convergence with `Set` and failed calls, and delivery |
| `scene_race` | 2 callers of one path | **violated**: store order and number order differ |
| `projection` | 2 emitters of one path with a revision each, one also sets, 1 resuming client, queue 2, ring 2, 5 numbers | the identity shown is that of the number shown |
| `live_switch` | 2 admins, one that registers, switches, resets and rejects and one that replaces; 2 ids, 3 objects, a live client, queue 2, 5 calls | coherence (not the number of the Snapshot), numbering, following - also while scenes are replaced, reset and torn down beside the switches and a migration panics |
| `live_leak` | 1 admin, 1 live client | **violated**: `detach` misses a subscription in transit |
| `control` | 3 scenarios (seeded; malformed; two bundles), 2 ids and objects, 3 requests of which one may time out, 1 client (live or test), 2 handlers | answers hold, a request that runs alone neither fails nor hangs - also after a panic -, clients catch up, test-mode clients stay, nothing orphaned but by a panic, one owner, no send on a closed channel |
| `show_one` | 1 controller, 2 scene objects, registered, replaced and switched, 1 client, queue 3, 5 calls; fair | convergence and delivery of show-level frames |
| `session` | two courses: 2 Inputs and a refused one with a switch; ping, pong, unsubscribe and garbage with a replaced scene; queue 2; fair | the client is current, answers keep their order, every answer comes, every session ends |
| `bundle` | layouts of depth 3 over 8 kinds of leaf, every template of up to 4 tokens and some of 5, documents that differ in versions, members and nesting, 4 lists of declarations; 7 identities, 4 sets of declarations of the program's own, frames of up to 2 patches, 2 Inputs | capture check complete, templates resolve, hash identifies, store within declarations and document, atomicity, reach |
| `adapters` | the 3 adapters, a cap above and one below the floor, channel of 2, 4 events, 5 attempts; fair | nothing lost or reordered, errors reported, exact delays, cancellation ends both goroutines |

The bounds are the smallest at which the interesting cases occur: queues of 2
fill and collapse within the numbers available and have exactly the room a
migration needs; a ring of 2 or 3 is overwritten; two objects suffice to be on
the wrong one; two handlers suffice to interleave, and a request
after the one that was given up on suffices to rely on the answer (three suffice for
the recovered panic: a setup that is given up between `migrate1` and `migrate2`, a
reset, another setup); frames of two patches contain
the duplicated path and the valid patch before an invalid one.  One bound is thinner
than one would like: two scene objects are all that `control` can explore in its time,
so the scenario with two bundles runs only as the first setup; a third object is left to
the theorem `DriverCanRely`, which has no such bound.  `MaxSeq`,
`MaxCalls`, `MaxInputs`, `maxPings`, `MaxEvents`, `MaxRuns`, `MaxRequests`,
`MaxTimeouts` and `MaxClients` only bound the exploration: nothing in the
code depends on them (the real counters are 64-bit).  In `Scene` the bound is
checked before a call starts, so that no call is stuck half way; in `Session`
numbers are kept back for the Inputs still to come, for the same reason.  The
runs say `CHECK_DEADLOCK FALSE` because at a bound, or when every client has
gone, the system may stop.  Symmetry is used for ids, objects, handlers and values,
where they are interchangeable, in runs without liveness properties only.

Fairness.  `Scene`, `ShowFrames`, `Session` and `Adapters` assume weak fairness of what a
goroutine does once it has work: the rest of a call that has started, the
writer, the reader, a handler's cleanup.  Go schedules every runnable goroutine
and its mutexes are starvation-free; a frame write ends within its 5 second
timeout.  Nothing obliges anyone to call, connect, send or leave, and in
`Session` the network delivers as long as the connection is up.

## 4. Proofs

All constants are arbitrary (any number of callers, clients, scenes, admins,
messages, any capacity), under the `ASSUME`s of the modules.  Those say what the
code guarantees anyway: a queue holds at least the two frames of a migration
(`OutCapAssumption`; the code's is 256), `nil` is no scene, lengths and bounds of
declarations are numbers, claims are lists of segments, a handler's goroutine is not
the `None` that stands for nobody (`HandlerAssumption`), every token placeholder the
control plane recognises has a role (`RoleAssumption`).  `IsFiniteSet(Callers)`
and `IsFiniteSet(Msgs)` belong to the exploration bound: a bound on numbers is kept
by counting what is still to come.

The specification is the component's `Spec`; for `IdentityIsTrue` it is
`ProjectionSpec`, for the last four rows `ControlSpec`.

| Theorem | States | Hypotheses beyond the specification |
|---|---|---|
| `TypeCorrect`, `RingInvariant`, `ResumeComplete`, `ResumeOrdered`, `RingAnswersAsLog`, `RingImplementsLog` | the ring is a bounded log | - |
| `SceneTypeCorrect` | `TypeOK` | - |
| `GapFree` | `NoGap` | `~ SwitchesAway` |
| `ViewsConverge` | `Converged` | `~ SwitchesAway`, `Separate` |
| `IdentityIsTrue` | `IdentityMatchesNumber` | - |
| `ServerTypeCorrect`, `SingleOwner`, `ClosedUnreachable`, `TestSessionsPinned`, `FramesCohere`, `NumbersContinue` | `TypeOK`, `OneOwner`, `NoSendOnClosed`, `TestPinned`, `SceneCoherent`, `LiveNoGap` | - |
| `LiveClientsFollow` | `LiveFollows` | `Serial` |
| `ShowTypeCorrect` | `TypeOK` | - |
| `ShowFramesMeet` | `ShowConverges` | `Orderly` |
| `SessionTypeCorrect`, `AnswersKeepOrder` | `TypeOK`, `AnswersInOrder` | - |
| `ClientsAreCurrent` | `ClientCurrent` | `~ TracksErrors` |
| `InputTypeCorrect`, `StoreIsWithinSpec`, `InputWithinReach`, `InputsAreAtomic` | `TypeOK`, `StoreWithinSpec`, `WithinReach`, `AllOrNothing` | - |
| `AdaptersTypeCorrect`, `LossIsReported`, `NothingIsSwallowed`, `EventsInOrder`, `DelaysAreExact` | `TypeOK`, `LossReported`, `NothingSwallowed`, `EmittedInOrder`, `DelaysExact` | - |
| `ControlTypeCorrect` | `ControlTypeOK` | - |
| `ServerUnderControl` | `OneOwner`, `NoSendOnClosed`, `TestPinned`, `SceneCoherent`, `LiveNoGap` | - |
| `NothingOrphaned`, `AloneIsSafe`, `ClientsShowTheScene` | `NoOrphans`, `AloneNeverFails`, `ClientsCatchUp` | - |
| `DriverCanRely` | `DriverKnows` | `DistinctBundles` |

Every hypothesis excludes cases of section 5 in which the property is false:

- `Separate`: no two callers write the same path (else `scene_race`), and either
  nobody calls `Set` or nobody resumes (`scene.go:210`);
- `~ SwitchesAway`: the live endpoint stays on the scene (`server.go:347`);
- `Serial`: one goroutine makes the server-level calls, whichever they are
  (`server.go:192`); `live_switch` goes further and lets a second one replace
  scenes beside the first;
- `Orderly`: whoever publishes a kind of show-level frame is the only one to do
  so, nobody else registers, replaces or switches scenes, and one goroutine does all
  of that (`server.go:226`, `server.go:249`, `server.go:159`).  This is weaker than the single controller of the run.  The
  clients of a replaced scene are excepted by the property itself;
- `~ TracksErrors`: the client does not count the numbers of Errors
  (`ws_handler.go:253`);
- `DistinctBundles`: the bundles of one scenario have different scene ids
  (`control.go:154`).

**ReplayBufferProofs.**  `RingInvariant` is about the records the ring has lost as
well as those it has: the valid slots, read from the tail, have increasing numbers
(`Ordered`), none above the counter (`NotNewer`); each holds a record that was
pushed (`Genuine`); and a record pushed since the last reset that is in no valid slot is
older than the oldest one that is (`Forgotten`).  From it follow `ResumeComplete` and
`ResumeOrdered`.  `RingImplementsLog` shows that the ring implements `ReplayLog`;
its core is how the slot arithmetic modulo `cap` acts on the window when the ring
is full and when it is not.  `RingAnswersAsLog` adds that `since` answers as the
log does: with numbers increasing along the window, the records after a number are
a suffix of it, and the oldest slot decides coverage for both.  Together they
justify that `Scene` is written with the log.

**SceneProofs.**  `SceneTypeCorrect` includes the bound on every queue.  `NoGap`
alone is not inductive: it says nothing about where the queue ends relative to
the counter, nor what the replay window holds.  `GapInv` adds that the window
is a run of consecutive numbers that ends at the counter (`Contiguous`), that
connected clients are subscribers and others have nothing queued (`Registered`),
that nothing seen or under way has a number above the counter (`Bounded`), and
that what is on its way to a client that is not stale is in sequence and ends at
the counter - or one before it while the client's collapse is still to come
(`Flow`).

`Converged` speaks of moments when nothing is under way.  What holds in between is
that every view and every frame is right about each of its paths, or a later
emission will overwrite the path, or a call that has not published (or has failed)
wrote it (`Right`).  "A later emission" reaches back further than the window,
because a client may come back with a view of long ago; so `ConvInv` says that
*there is* a history `H` of the patches of every number that explains the window,
the views and the frames (`Explained`).  Each step exhibits the next history.  The
invariant further needs that the store keeps what a call under way wrote
(`CallsStand`, which is where separate paths come in), and that a new client starts
with a Snapshot (`SnapshotFirst`).  A `Set` invalidates what precedes its Snapshot
in each queue (`Superseded`).

The last part of the module is about `Projection`.  `IdentityInv`: the frames and
the records carry metadata that are true to the identity in force at their number
(`Carries`: a Snapshot names it, a Delta names it or leaves the one before), and
what a client shows is what was in force at the number it has.  No hypothesis is
needed: even a client with a gap, or a scene two callers race for, shows the
identity of its number.

**LiveServerProofs.**  The inductive invariant `OwnInv` adds to `OneOwner` and
`NoSendOnClosed` the shape of an admin's call in each phase and that a connection
has no owner and is not closed before it subscribes (`NotYetOwned`); `PinnedInv`
adds that only live subscriptions are ever in transit and that a connection is sent
nothing before it subscribes.  `SceneCoherent` and `LiveNoGap` are about the front
of a queue; the invariant behind them follows a queue to its end: the last frame is
of the scene that owns the subscription and has its current number, or, in transit,
is what the number taken by `migrate1` continues.  That holds for any number of
overlapping migrations because a subscription has one owner.  `FollowInv` says that
a live client is on the live scene, or on the scene a `migrate1` is about to empty,
or in the hands of a `migrate2`, or on a scene about to be torn down (`Escorted`); that
a migration under way always leads to the live scene, and that no scene that is or
will be torn down is registered (`Migrations`): true for one admin only.

**ShowFramesProofs.**  A client learns a value from the cache when it joins and from
fan-outs afterwards, and neither covers the other's window.  `MeetInv` says that for
each kind a client that is not stale either becomes current from what it has, what
it will be replayed and what is queued (`Caught`), or a fan-out that has the cached
value in hand will still visit the scene it is in (`Pending`); clients whose
subscription was closed are none of its business (`Open`).  It needs that open
subscriptions are registered, in transit or in a scene that is about to be torn down
(`PlaceInv`, `Doomed`) and that fan-outs carry the cached value (`CallsInv`);
`Exclusive`, from `Orderly`, that nothing moves a client out of a fan-out's way and
that no migration meets a scene torn down beside it.

**SessionProofs.**  `FlowInv`: there is a view such that the wire leads the client
to it and the queue leads from it to the scene's present state, no frame of them
being refused on the way (`Path`).  The two halves meet in that view when the writer
takes a frame, and answers the reader writes past the queue change no view.
`OrderInv` gives each answer the position of its message in `sent`: what the client
has, what is on the wire and what is still to be written (the queue, for echoes; the
reader's hand, for direct answers) climb to the number of messages the reader has
taken (`Chain`).  Both are statements about the existence of intermediate points,
because the frames they describe are consumed from the front and added at the end
in different steps.

**InputProofs.**  `Verdict` accepts a frame only if every patch passes (a minimum of
the faulty positions exists); a patch that passes lies in the domain of its
declaration (`checkConstraint` against the set `Domain`) and within its sender's
reach (`matchPathPattern`, by prefixes, against `Claimed`).  `LastValue` of an
accepted frame is the value of one of its patches, so a path named twice is covered.

**AdaptersProofs.**  `LifeInv` (which goroutine runs in which state of the loop),
`PumpInv` (the error is left before the channel is closed), `TakenInv` (what was
taken is handled, queued or in the pump's hand), `OrderInv` (emitted, queued, in
hand and on the connection are in the upstream's order, each part before the next)
and `DelayInv` (the delay is a function of the number of failures, by doubling or,
below the floor, by alternation).

**ControlPlaneProofs.**  Every step of the control plane is a step of `LiveServer`,
or the fan-out `refreshAll` that `LiveServer` does not have, or none of the server's
state (`ServerMove`), so the invariants of `LiveServerProofs` carry over once
`refreshAll` is shown to keep them; `ServerUnderControl` is what they say.  The rest
is in four layers, each resting on the ones before.

1. `RequestsOK` ties a handler's program counter to what it holds: the scene it
   created, the bundle it is at, the server call it is in.  `RegistryInv` says that
   every scene object is registered, torn down or in the hands of a tear-down, that
   objects not created yet have nobody, that one goroutine tears an object down, once,
   and only such objects are ever locked (`TornOnce`), and that a subscription is
   *housed*: in a registered scene, in holding, in transit or waiting to be closed.
   That is `NoOrphans`; a panic adds its subscriptions to `lost` and moves no other.
2. `AloneInv`: a request marked alone is the only one that runs, and a driver that is
   sure has left no handler behind.  Then nobody undoes what a handler has done, and
   `SoloInv` says what it will find: nothing registered before its first `NewScene`,
   its own scene active after it.  So neither `SetActive` of a setup nor the scene an
   emit writes to can be missing, a migration leads from holding to the scene just
   registered, which is not torn down, and no locked scene is needed
   (`AloneNeverFails`).
3. `ClientsInv` is about the last frame of a queue (`Final`: what the client will show
   when it has read everything).  In holding that is the holding scene's state.  On the
   live scene it is that scene's state unless a handler has written the store and not
   told the subscribers (`Pending`), or a request may have company (`~ Trusted`).  And
   a live client is on the live scene or on its way there (`Followed`), but for those
   that took the wrong turn at `resolveScene` (`late`) or were in the hands of a
   migration that panicked (`lost`).
4. `KnowInv` says, for the request the driver waits for, how much of the answer is
   already true: after each step of a setup, which tokens are installed, which bundles
   have their scene and version, whether the malformed one is rejected and the state
   seeded (`SetupAt`); for an emit or a state request, what it found (`AskAt`).  A
   setup that was alone therefore ends with everything `Known`, from whatever an
   earlier one left half done.  Here `DistinctBundles` is needed: without it a later
   bundle replaces the scene of an earlier one.

Only model-checked:

- liveness (`Delivered`, `ShowDelivered`, `DirectAnswered`, `SessionEnds`,
  `StopsWhenCancelled`), which is out of the prover's reach;
- `Lsml` and `Bundle`: what they compute is recursive over documents, which the
  prover's induction does not reach (`CaptureAgrees`, `BindsResolve`,
  `HashIdentifies`, `StoreWithinBundle`).

Every other safety property the runs check is stated by a theorem.  The type
invariants of `ShowFrames`, `Session`, `Input`, `Adapters` and `ControlPlane` are
proved and listed by no run.

## 5. Known deviations

Two runs expect a violation: `scene_race` and `live_leak`; the
findings in `PROJECT.json` quote the comment that says otherwise.  While
modelling we met more places where the code does not do what a comment says.  The
passing runs avoid each of them by a constant or an exception named here; undoing
it makes TLC produce the trace.

| Where | What happens | How to see it |
|---|---|---|
| `scene.go:333` | a client whose queue is full twice is marked stale, nothing reads the mark, and it stays connected with an old state; "coalesced into a fresh snapshot" (line 20), "the writer goroutine will close" (line 328) | `Scene`, `SlowClientsConverge` with one caller and one client |
| `scene.go:210` | a client that resumes after a `Set` is told it is up to date; "new subscribers see the same" | `Scene`, `Converged` with `Setters` and `Resuming` both non-empty |
| `server.go:347` | the number taken for SceneChanged is not recorded, so a later resume from before it has a gap; "from since_sequence+1 forward" | `Scene`, `ResumeStartsAtNext` with `SwitchesAway` and `Resuming` |
| `ws_handler.go:100` | a `SetActive` between `resolveScene` and `subscribe` leaves a live client on the old scene; "follows whatever scene is currently active" | `LiveServer`, `LiveFollowsActive` (`LiveFollows` excepts `late`) |
| `server.go:192` | two `SetActive` calls migrate in the other order than they switched | `LiveServer`, `LiveFollows` with two admins that both switch |
| `server.go:159` | a replaced scene's map is nil while handlers and migrations still hold the scene; "replaces the previous Scene atomically" | `LiveServer`, `NoPanic` in the instance of `live_switch` |
| `server.go:347` | test-mode clients of the scene that is left see a gap; "increments by 1" | `LiveServer`, `TestNoGap` with a test client |
| `server.go:355` | a rejected scene is served to migrated clients; "every subscriber receives code / message ... in place of the snapshot" | `LiveServer`, `RejectedNotServed` in the instance of `live_switch` |
| `server.go:356` | the Snapshot after a SceneChanged has the number of the new scene's counter, which exceeds 1 once the scene has emitted, also before it was active; "MUST be a Snapshot with seq = 1" (`frames.go:120-121`), "with seq reset to 1" (`frames.go:48-49`), "a fresh Snapshot at seq=1" (`server.go:173-176`) and the conformance scenario `seq-resets-on-scene-changed`; `migrateLive`'s own comment says "typically 1" (line 331) | `LiveServer`, `SnapshotAtOne` (`SceneCoherent` states the rest of the sentence) |
| `server.go:382` | a migration to a scene that another handler has torn down panics; net/http recovers it (`serve_scenario.go:75-85`), `next.mu` stays locked (line 384 is not deferred) and live clients stay connected in no scene; "follows whatever scene is currently active on the server" (`scene.go:556`) | `ControlPlane`, `EveryoneReachable` (`NoOrphans` excepts `lost`) |
| `server.go:139` | a `NewScene` that replaces the active scene sends no SceneChanged; "triggers a SceneChanged on the live endpoint" (line 135) | in `LiveServer.NewScene` only the first scene migrates anybody |
| `server.go:157` | connections of a replaced scene stay open and silent; "They'll reconnect" | `LiveServer`, `FairSpec`, `ClosedConnectionsEnd` in the instance of `live_switch` |
| `server.go:159` | a client of a replaced scene keeps its connection and gets no later roster or overlay state; `SetRoster` fans out "to every live subscriber that negotiated lsdp.v1.1" (line 205) | `ShowFrames`, `EveryoneCurrent` with one admin that makes every call (`ShowConverges` excepts `closed`) |
| `server.go:226` | two `SetRoster` calls fan out in the other order than they cached | `ShowFrames`, `ShowConverges` with `TwoAdmins`, `BothRosters` |
| `server.go:249` | a fan-out misses a subscription in transit | `ShowFrames`, `ShowConverges` with `TwoAdmins`, `RosterAndSwitch` |
| `ws_handler.go:253` | an Error written past the queue has the number of a queued delta; "increments by 1" | `Session`, `ClientCurrent` with `TracksErrors` |
| `scene.go:321` | the collapse snapshot loses the cause; "MUST echo this value verbatim" | `Session`, `FairSpec`, `Echoed` |
| `ws_handler.go:251` | Inputs go to the captured scene after a switch; "the active scene's operator_inputs" | `Session`, `InputOnShownScene` in a course that `switches` |
| `auth.go:97` | a star without a dot before it matches nothing; "`*` and `.*` suffixes match anything below" | `Input`, `StarReachesBelow` |
| `scene.go:373` | INVALID_VALUE without a path for an Input without patches; "REQUIRED" | `Input`, `PathOnError` |
| `control.go:113` | a client that subscribes between `NewScene` and `Reject`, or waits in holding, is served the scene of a malformed bundle; "the subscriber gets an INVALID_VALUE error frame where it would otherwise read a snapshot" | `ControlPlane`, `RejectedNeverShown` |
| `control.go:154` | a second bundle with the scene id of the first replaces the active, seeded scene by an empty one; "Either path leaves the server with the scene populated" (line 127) | `ControlPlane`, `DriverKnows` with a scenario whose two bundles share an id |
| `control.go:127` | `NewScene` activates the scene before it is seeded; "populated before any client subscribes" | `ControlPlane`, `SeededBeforeSubscribers` (`ClientsCatchUp` says what holds) |
| `server.go:401` | `Reset` leaves the subscribers of the holding scene; "In-flight subscribers are detached" | `ControlPlane`, `ResetDetaches` |
| `capture.go:36` | a capture below a `template` of a node that is no `repeat` is rejected although `Validate` passes the bundle; "Deliberately narrower than Validate" | `Bundle`, `NarrowerThanValidate` |
| `ws_subscribe.go:94` | after a decode error the adapter goes on reading the same connection; "non-nil error backs off" (lines 28-29) | `Adapters`, `readMessage` (only an attempt that ends is delayed, `DelaysExact`) |
| `http_poll.go:179` | a `MaxBackoff` below 250 ms is exceeded; "capped at cfg.MaxBackoff" | `Adapters`, `DelaysExact` states the alternation |

Further observations, which no document contradicts or which are outside a model:

- After `replayBuffer.reset` the ring is empty and `since` calls every resume
  covered and returns nothing (`replay_buffer.go:79-83`,
  `replay_buffer_test.go:112`), so a client that resumes from before the reset would
  lose what was recorded; `CoveredIsComplete` speaks of the records since the last
  reset.  The comment says "Used on scene_changed" (line 103), but the server has no
  caller.
- `extractInputSpecs` copies the type and `maxLength` only.  An input of type
  `enum` declared in a bundle has no values and refuses everything; `min` and
  `max` are not enforced.  A list of `operator_inputs` in which no item is an
  object declares nothing and leaves the namespace open.
- A session survives the removal of its token (`ws_handler.go:69` is the only
  check); `StaticTokens` has no link to sessions.
- The 400 answer `bad-initial-state` cannot occur: values decoded from JSON encode.
  The 500 answer of `SetActive` needs another handler's `Reset` in between
  (`AloneNeverFails`).
- The conformance bundles and `lumencast build` hash a document after a round trip
  through the typed `Bundle`, which `HashRaw`'s comment advises against for
  documents from elsewhere.

## 6. Not modelled

- The HTTP upgrade and sub-protocol negotiation (a flag of the subscription), and
  `IdentityFromRequest`, a callback of the embedding program.
- JSON text: escapes, number formats, SHA-256; field validation in the codec.
- The step executor of the conformance harness, its matching and its fixtures: a
  sequential script over the driver and one test client.
- The CLI, the static file handler and the HTTP listener, the examples: flags,
  files and sockets.
- Clients that resume with the number of another scene.

## 7. Plan

Order: the behaviour most used and hardest to test first.

1. Done: `ReplayLog`, `ReplayBuffer`, `Scene`, `LiveServer` with proofs;
   `ShowFrames`, `Session`, `Input`, `Adapters` model-checked.
2. Done: `ControlPlane` with the driver, the token table and the handshake;
   `Projection`; `Lsml` and `Bundle`.
3. Done: proofs of every safety property of `ReplayBuffer`, `Scene`, `Projection`,
   `LiveServer`, `ShowFrames`, `Session`, `Input` and `Adapters` that the runs check.
4. Done: `ControlPlane` - ownership over its richer steps, from the invariants of
   `LiveServerProofs`; `NoOrphans`, `AloneNeverFails`, `DriverKnows`,
   `ClientsCatchUp`.
5. Later: clients that resume with the number of another scene; the steps of the
   conformance harness.
