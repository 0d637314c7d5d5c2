------------------------------- MODULE Scene -------------------------------
(***************************************************************************)
(* One scene of server/scene.go with its store, its sequence counter, its  *)
(* replay window and its subscribers, driven by concurrent callers of Set  *)
(* and Emit (adapters, operator inputs) and by connections that come, go   *)
(* and resume (server/ws_handler.go).                                      *)
(*                                                                         *)
(* Locking.  Two mutexes matter.  store.mu covers applyPatches alone;      *)
(* scene.mu is taken only afterwards, for the numbering and the fan-out.   *)
(* A call is therefore two steps, and other callers run in between.  Inside*)
(* the fan-out the subscribers' writers keep draining their queues without *)
(* any lock: a subscriber whose queue was full gets a second, separate     *)
(* attempt (collapse) that may find room.  While `full` is not empty its   *)
(* caller holds scene.mu, and every other step that needs it waits.        *)
(*                                                                         *)
(* The client is the one the protocol package prescribes: a SequenceTracker*)
(* (ObserveServer, ObserveSnapshot) and a view that a Snapshot replaces and*)
(* a Delta patches (conformance/harness.go, absorbServerFrame).            *)
(***************************************************************************)
EXTENDS Naturals, Sequences, FiniteSets

CONSTANTS
  Callers,       \* goroutines that call Set / Emit
  Subs,          \* client connections; each may subscribe again and again
  Paths,         \* leaf paths
  Values,        \* JSON values
  Unset,         \* a path with no value yet
  Owned,         \* Owned[c]: the paths caller c writes
  Setters,       \* the callers that may call Set
  Faulty,        \* the callers that may pass a value that does not encode
  Resuming,      \* the clients that reconnect with since_sequence
  SwitchesAway,  \* whether the live endpoint may move to another scene
  OutCap,        \* capacity of a subscription's out channel (256 in serveLSDP)
  ReplayCap,     \* DefaultReplayBufferSize
  MaxSeq         \* bound on the scene's sequence counter

ASSUME OwnedAssumption == IsFiniteSet(Callers) /\ Owned \in [Callers -> SUBSET Paths]
ASSUME RolesAssumption ==
  /\ Setters \subseteq Callers
  /\ Faulty \subseteq Callers
  /\ Resuming \subseteq Subs
  /\ SwitchesAway \in BOOLEAN
ASSUME UnsetAssumption == Unset \notin Values
ASSUME BoundsAssumption ==
  /\ OutCap \in Nat \ {0}
  /\ ReplayCap \in Nat \ {0}
  /\ MaxSeq \in Nat \ {0}

VARIABLES
  store,         \* store.state
  seq,           \* Scene.seq
  replay,        \* Scene.replay, as the window of ReplayLog
  subscribers,   \* Scene.subscribers
  call,          \* per caller: where it is in Set / Emit, and its patches
  full,          \* subscribers whose Delta did not fit, still under scene.mu
  out,           \* subscription.out
  stale,         \* subscription.stale
  conn,          \* per client: off, run, closing (handler before detach)
  direct,        \* frames serveLSDP writes itself before the writer starts
  view,          \* the client's state
  last,          \* the client's SequenceTracker
  dirty          \* history: paths a failed call wrote and nothing published

serverVars == <<store, seq, replay, subscribers, call, full, out, stale, dirty>>
clientVars == <<view, last>>
vars == <<store, seq, replay, subscribers, call, full, out, stale, conn, direct,
          view, last, dirty>>

Patch == UNION {[D -> Values] : D \in SUBSET Paths \ {{}}}
State == [Paths -> Values \cup {Unset}]

Log == INSTANCE ReplayLog
         WITH window <- replay, cap <- ReplayCap, Patches <- Patch

Delta(n, p) == [type |-> "delta", seq |-> n, data |-> p]
Snapshot(n, st) == [type |-> "snapshot", seq |-> n, data |-> st]

Frame == [type : {"delta"}, seq : 1 .. MaxSeq, data : Patch]
           \cup [type : {"snapshot"}, seq : 1 .. MaxSeq, data : State]

Idle == [pc |-> "idle"]
Call == {Idle} \cup [pc : {"publish", "refresh", "collapse"}, patch : Patch]

\* The shape of the state; a queue never outgrows its channel.
TypeOK ==
  /\ store \in State
  /\ seq \in 1 .. MaxSeq
  /\ replay \in Seq([seq : 1 .. MaxSeq, patches : Patch])
  /\ subscribers \subseteq Subs
  /\ call \in [Callers -> Call]
  /\ full \subseteq subscribers
  /\ out \in [Subs -> Seq(Frame)]
  /\ \A s \in Subs : Len(out[s]) <= OutCap
  /\ stale \in [Subs -> BOOLEAN]
  /\ conn \in [Subs -> {"off", "run", "closing"}]
  /\ direct \in [Subs -> Seq(Frame)]
  /\ view \in [Subs -> State]
  /\ last \in [Subs -> 0 .. MaxSeq]
  /\ dirty \subseteq Paths

Init ==
  /\ store = [p \in Paths |-> Unset]
  /\ seq = 1
  /\ replay = <<>>
  /\ subscribers = {}
  /\ call = [c \in Callers |-> Idle]
  /\ full = {}
  /\ out = [s \in Subs |-> <<>>]
  /\ stale = [s \in Subs |-> FALSE]
  /\ conn = [s \in Subs |-> "off"]
  /\ direct = [s \in Subs |-> <<>>]
  /\ view = [s \in Subs |-> [p \in Paths |-> Unset]]
  /\ last = [s \in Subs |-> 0]
  /\ dirty = {}

-----------------------------------------------------------------------------
(* Callers of Set and Emit. *)

\* A state with some paths overwritten.
Patched(st, p) == [x \in Paths |-> IF x \in DOMAIN p THEN p[x] ELSE st[x]]

\* The patches caller c may pass.
PatchesOf(c) == UNION {[D -> Values] : D \in SUBSET Owned[c] \ {{}}}

\* The emissions that have been applied and not numbered yet.
Unpublished == {c \in Callers : call[c].pc = "publish"}

\* applyPatches when every value encodes: the whole map under store.mu.
applyPatches(c, p, next) ==
  /\ call[c] = Idle
  /\ store' = Patched(store, p)
  /\ dirty' = dirty \ DOMAIN p
  /\ call' = [call EXCEPT ![c] = [pc |-> next, patch |-> p]]
  /\ UNCHANGED <<seq, replay, subscribers, full, out, stale, conn, direct, view, last>>

\* applyPatches when a value of the map does not encode: Go iterates the map
\* in random order, so any of the other paths may have been written before
\* the error, and the caller returns it without a word to the subscribers.
applyPatchesFails(c, D, p) ==
  /\ c \in Faulty
  /\ call[c] = Idle
  /\ D \subseteq DOMAIN p
  /\ D # DOMAIN p
  /\ store' = [x \in Paths |-> IF x \in D THEN p[x] ELSE store[x]]
  /\ dirty' = dirty \cup D
  /\ UNCHANGED <<seq, replay, subscribers, call, full, out, stale, conn, direct, view, last>>

\* Scene.Emit / EmitWithCause: the part before scene.mu.
Emit(c, p) ==
  /\ seq + Cardinality(Unpublished) < MaxSeq
  /\ applyPatches(c, p, "publish")

\* Scene.Set: the part before refreshAll.
Set(c, p) ==
  /\ c \in Setters
  /\ applyPatches(c, p, "refresh")

\* Mutant: the capacity check is off by one.
Room_OffByOne(S) == {s \in S : Len(out[s]) <= OutCap}

\* The members of S whose queue has a free slot.
Room(S) == {s \in S : Len(out[s]) < OutCap}

\* A non-blocking send of f to every member of S (which has room).
SendAll(S, f) == [s \in Subs |-> IF s \in S THEN Append(out[s], f) ELSE out[s]]

\* Mutant: a full queue silently loses the Delta.
publish_DropsWhenFull(c) ==
  /\ call[c].pc = "publish"
  /\ full = {}
  /\ seq' = seq + 1
  /\ replay' = Log!Pushed(replay, [seq |-> seq', patches |-> call[c].patch])
  /\ out' = SendAll(Room(subscribers), Delta(seq', call[c].patch))
  /\ call' = [call EXCEPT ![c] = Idle]
  /\ UNCHANGED <<store, subscribers, full, stale, conn, direct, view, last, dirty>>

\* emitWithCause under scene.mu: number the emission, record it for replay,
\* and send the Delta to every subscriber that has room.
publish(c) ==
  /\ call[c].pc = "publish"
  /\ full = {}
  /\ seq' = seq + 1
  /\ replay' = Log!Pushed(replay, [seq |-> seq', patches |-> call[c].patch])
  /\ out' = SendAll(Room(subscribers), Delta(seq', call[c].patch))
  /\ full' = subscribers \ Room(subscribers)
  /\ call' = [call EXCEPT ![c] = IF full' = {} THEN Idle ELSE [@ EXCEPT !.pc = "collapse"]]
  /\ UNCHANGED <<store, subscribers, stale, conn, direct, view, last, dirty>>

\* Mutant: the collapse Snapshot is dropped without marking the subscription.
collapse_NeverStale(c, s) ==
  /\ call[c].pc = "collapse"
  /\ s \in full
  /\ full' = full \ {s}
  /\ call' = [call EXCEPT ![c] = IF full' = {} THEN Idle ELSE @]
  /\ out' = SendAll(Room({s}), Snapshot(seq, store))
  /\ UNCHANGED <<store, seq, replay, subscribers, stale, conn, direct, view, last, dirty>>

\* sendDelta's default branch, under scene.mu: a Snapshot of the store as it
\* is now, at the current number, if the writer has made room meanwhile;
\* otherwise the subscription is only marked stale.
collapse(c, s) ==
  /\ call[c].pc = "collapse"
  /\ s \in full
  /\ full' = full \ {s}
  /\ call' = [call EXCEPT ![c] = IF full' = {} THEN Idle ELSE @]
  /\ out' = SendAll(Room({s}), Snapshot(seq, store))
  /\ stale' = [stale EXCEPT ![s] = @ \/ s \notin Room({s})]
  /\ UNCHANGED <<store, seq, replay, subscribers, conn, direct, view, last, dirty>>

\* Mutant: Set forgets to notify the subscribers.
refreshAll_Silent(c) ==
  /\ call[c].pc = "refresh"
  /\ full = {}
  /\ call' = [call EXCEPT ![c] = Idle]
  /\ UNCHANGED <<store, seq, replay, subscribers, full, out, stale, conn, direct, view, last, dirty>>

\* refreshAll, under scene.mu: a Snapshot at the current number for every
\* subscriber with room, the others are marked stale.  No number is used and
\* nothing is recorded for replay.
refreshAll(c) ==
  /\ call[c].pc = "refresh"
  /\ full = {}
  /\ out' = SendAll(Room(subscribers), Snapshot(seq, store))
  /\ stale' = [s \in Subs |-> stale[s] \/ s \in subscribers \ Room(subscribers)]
  /\ call' = [call EXCEPT ![c] = Idle]
  /\ UNCHANGED <<store, seq, replay, subscribers, full, conn, direct, view, last, dirty>>

-----------------------------------------------------------------------------
(* Connections. *)

\* Mutant: a resume is served from the window whether or not it reaches back.
FirstFrames_IgnoresCoverage(q) ==
  IF 0 < q /\ q <= seq
    THEN LET rs == Log!Since(replay, q)
         IN  [i \in 1 .. Len(rs) |-> Delta(rs[i].seq, rs[i].patches)]
    ELSE <<Snapshot(seq, store)>>

\* What subscribeWithResume answers to since_sequence q: the recorded deltas
\* after q when the window covers q, else one Snapshot at the current number.
\* (q = 0: no resume requested.)
FirstFrames(q) ==
  IF 0 < q /\ q <= seq /\ Log!Covers(replay, q)
    THEN LET rs == Log!Since(replay, q)
         IN  [i \in 1 .. Len(rs) |-> Delta(rs[i].seq, rs[i].patches)]
    ELSE <<Snapshot(seq, store)>>

\* subscribeWithResume: register and answer, in one critical section.
subscribeWithResume(s, q) ==
  /\ conn[s] = "off"
  /\ full = {}
  /\ subscribers' = subscribers \cup {s}
  /\ direct' = [direct EXCEPT ![s] = FirstFrames(q)]
  /\ conn' = [conn EXCEPT ![s] = "run"]
  /\ UNCHANGED <<store, seq, replay, call, full, out, stale, view, last, dirty>>

\* The client takes one server frame: a Snapshot rebases its tracker
\* (ObserveSnapshot); a Delta is applied when it is the next one or the first
\* one, dropped when it is old, and makes the client close on a gap
\* (ObserveServer).
Receive(s, f) ==
  \/ /\ f.type = "snapshot"
     /\ view' = [view EXCEPT ![s] = f.data]
     /\ last' = [last EXCEPT ![s] = f.seq]
     /\ UNCHANGED conn
  \/ /\ f.type = "delta"
     /\ last[s] = 0 \/ f.seq = last[s] + 1
     /\ view' = [view EXCEPT ![s] = Patched(@, f.data)]
     /\ last' = [last EXCEPT ![s] = f.seq]
     /\ UNCHANGED conn
  \/ /\ f.type = "delta"
     /\ last[s] # 0 /\ f.seq <= last[s]
     /\ UNCHANGED <<view, last, conn>>
  \/ /\ f.type = "delta"
     /\ last[s] # 0 /\ f.seq > last[s] + 1
     /\ conn' = [conn EXCEPT ![s] = "closing"]
     /\ UNCHANGED <<view, last>>

\* serveLSDP writes the Snapshot or the replayed deltas itself.
sendFirst(s) ==
  /\ conn[s] = "run"
  /\ direct[s] # <<>>
  /\ Receive(s, Head(direct[s]))
  /\ direct' = [direct EXCEPT ![s] = Tail(@)]
  /\ UNCHANGED serverVars

\* Mutant: the writer is started before the first frames are out.
writerLoop_Early(s) ==
  /\ conn[s] = "run"
  /\ out[s] # <<>>
  /\ Receive(s, Head(out[s]))
  /\ out' = [out EXCEPT ![s] = Tail(@)]
  /\ UNCHANGED <<store, seq, replay, subscribers, call, full, stale, direct, dirty>>

\* writerLoop: one queued frame to the wire; runConnection starts it when the
\* first frames are out.
writerLoop(s) ==
  /\ conn[s] = "run"
  /\ direct[s] = <<>>
  /\ out[s] # <<>>
  /\ Receive(s, Head(out[s]))
  /\ out' = [out EXCEPT ![s] = Tail(@)]
  /\ UNCHANGED <<store, seq, replay, subscribers, call, full, stale, direct, dirty>>

\* The connection ends: unsubscribe frame, read or write error, peer gone.
hangUp(s) ==
  /\ conn[s] = "run"
  /\ conn' = [conn EXCEPT ![s] = "closing"]
  /\ UNCHANGED <<serverVars, clientVars, direct>>

\* unsubscribe, from the handler's deferred detach: until it has scene.mu the
\* fan-out goes on filling the queue.  The channel and what it holds are gone.
unsubscribe(s) ==
  /\ conn[s] = "closing"
  /\ full = {}
  /\ subscribers' = subscribers \ {s}
  /\ out' = [out EXCEPT ![s] = <<>>]
  /\ stale' = [stale EXCEPT ![s] = FALSE]
  /\ direct' = [direct EXCEPT ![s] = <<>>]
  /\ conn' = [conn EXCEPT ![s] = "off"]
  /\ UNCHANGED <<store, seq, replay, call, full, view, last, dirty>>

\* migrateLive's first phase with this scene as prev, then the clients are on
\* another scene and have rebased on its Snapshot: the counter advances for
\* their SceneChanged and nothing is recorded for replay.
migrateAway ==
  /\ SwitchesAway
  /\ full = {}
  /\ seq + Cardinality(Unpublished) < MaxSeq
  /\ seq' = seq + 1
  /\ subscribers' = {}
  /\ out' = [s \in Subs |-> <<>>]
  /\ stale' = [s \in Subs |-> FALSE]
  /\ direct' = [s \in Subs |-> <<>>]
  /\ conn' = [s \in Subs |-> "off"]
  /\ last' = [s \in Subs |-> IF s \in subscribers THEN 0 ELSE last[s]]
  /\ UNCHANGED <<store, replay, call, full, view, dirty>>

-----------------------------------------------------------------------------

Publishing(c) ==
  \/ publish(c)
  \/ \E s \in Subs : collapse(c, s)
  \/ refreshAll(c)

Next ==
  \/ \E c \in Callers :
       \/ \E p \in PatchesOf(c) : Emit(c, p) \/ Set(c, p)
       \/ \E p \in PatchesOf(c) : \E D \in SUBSET DOMAIN p : applyPatchesFails(c, D, p)
       \/ Publishing(c)
  \/ \E s \in Subs :
       \/ subscribeWithResume(s, 0)
       \/ s \in Resuming /\ subscribeWithResume(s, last[s])
       \/ sendFirst(s)
       \/ writerLoop(s)
       \/ hangUp(s)
       \/ unsubscribe(s)
  \/ migrateAway

Spec == Init /\ [][Next]_vars

\* Goroutines that are ready run, mutexes are handed over (Go's are
\* starvation free), and a frame write finishes or fails within its timeout.
\* Nothing obliges a caller to emit or a client to come, leave or come back.
Fairness ==
  /\ \A c \in Callers : WF_vars(Publishing(c))
  /\ \A s \in Subs : WF_vars(sendFirst(s)) /\ WF_vars(writerLoop(s)) /\ WF_vars(unsubscribe(s))

FairSpec == Spec /\ Fairness

-----------------------------------------------------------------------------
(* Properties. *)

\* The numbers of fs, read after n, leave no gap: a delta is the successor of
\* what precedes it and a snapshot never goes back.
InSequence(n, fs) ==
  \A i \in 1 .. Len(fs) :
    LET prev == IF i = 1 THEN n ELSE fs[i - 1].seq
    IN  IF fs[i].type = "delta" THEN prev > 0 /\ fs[i].seq = prev + 1
                                ELSE prev <= fs[i].seq

\* What is on its way to a client that is not marked stale continues what it
\* has: emitWithCause, collapse, refreshAll, the resume replay and the switch
\* from first frames to queue together never skip or repeat a delta, so
\* ObserveServer never answers ErrGap.
NoGap ==
  \A s \in Subs :
    conn[s] = "run" /\ ~ stale[s] => InSequence(last[s], direct[s] \o out[s])

\* No call and no frame under way for s.
Settled(s) ==
  /\ \A c \in Callers : call[c] = Idle
  /\ conn[s] = "run" /\ direct[s] = <<>> /\ out[s] = <<>>

\* A client that is not marked stale shows the scene's store once everything
\* under way has arrived, however it got there: snapshot, deltas, collapse,
\* refresh or resume.  (Paths a failed call left behind are excepted.)
Converged ==
  \A s \in Subs : Settled(s) /\ ~ stale[s] =>
    \A p \in Paths \ dirty : view[s][p] = store[p]

\* A delta published while a client is connected reaches it, unless it was
\* marked stale or its connection ended first.
Delivered ==
  \A s \in Subs : \A n \in 1 .. MaxSeq :
    (conn[s] = "run" /\ seq >= n) ~> (last[s] >= n \/ stale[s] \/ conn[s] # "run")

-----------------------------------------------------------------------------
(* What the code's comments say and the model refutes (README). *)

\* What Converged says, of every connected client: what "back-pressured subscribers get
\* coalesced into a fresh snapshot" promises of a slow one.
SlowClientsConverge ==
  \A s \in Subs : Settled(s) => \A p \in Paths \ dirty : view[s][p] = store[p]

\* What a client is sent after asking to resume after q starts with delta
\* q + 1: "a delta stream from since_sequence+1 forward".  A switch of the live
\* endpoint takes a number that is not recorded.
ResumeStartsAtNext ==
  \A s \in Resuming :
    LET q == last[s]
    IN  0 < q /\ q <= seq /\ Log!Covers(replay, q) /\ q < seq =>
          /\ Log!Since(replay, q) # <<>>
          /\ Log!Since(replay, q)[1].seq = q + 1
=============================================================================
