------------------------------ MODULE Adapters ------------------------------
(***************************************************************************)
(* The source adapters of server/adapters: HTTPPoll ("poll"), WSSubscribe  *)
(* ("ws") and PgxListen with PgListen ("pgx").  Each runs until its context*)
(* is cancelled, retries with a growing delay, and emits what it decodes.  *)
(*                                                                         *)
(* PgxListen has two goroutines and two channels: the pump takes           *)
(* notifications from the connection and hands them over; on an error it   *)
(* first leaves the error in pumpErr and then closes the channel.  PgListen*)
(* drains the channel, and only then is pumpErr looked at.                 *)
(*                                                                         *)
(* An event is its number: the upstream sends them in order (a successful  *)
(* poll is the next event).  The upstream, the network and the decoder are *)
(* external: a connection may fail or drop at any time, losing what is     *)
(* under way, and a payload decodes to patches, to nothing or to an error. *)
(* The delays are in a unit of which nextBackoff's floor is Floor.         *)
(***************************************************************************)
EXTENDS Naturals, Sequences

CONSTANTS
  Kinds,         \* the adapters to consider, of {"poll", "ws", "pgx"}
  Floor,         \* nextBackoff's floor, 250 ms
  Maxima,        \* the values of MaxBackoff
  Interval,      \* HTTPPollConfig.Interval
  ChanCap,       \* capacity of the notifications channel (64)
  MaxEvents,     \* bound on the upstream's events
  MaxRuns        \* bound on the attempts

ASSUME KindsAssumption == Kinds \subseteq {"poll", "ws", "pgx"}
ASSUME DelaysAssumption ==
  Floor \in Nat \ {0} /\ Maxima \subseteq Nat \ {0} /\ Interval \in Nat \ {0}
ASSUME BoundsAssumption == ChanCap \in Nat \ {0} /\ MaxEvents \in Nat /\ MaxRuns \in Nat

VARIABLES
  kind,       \* which adapter
  max,        \* cfg.MaxBackoff
  cancelled,  \* the context
  pc,         \* the adapter's goroutine
  backoff,    \* its local of that name
  delay,      \* the last wait
  failures,   \* history: failed attempts since backoff was last 0
  runs,       \* attempts so far, less one
  reported,   \* whether the last attempt ended with an error
  event,      \* upstream: the last event
  up,         \* upstream: the connection
  net,        \* events on the connection
  received,   \* history: events the adapter has taken from the connection
  handled,    \* history: events it has decoded
  emitted,    \* history: events it has emitted
  pump,       \* pgx: the pump goroutine
  chan,       \* pgx: the notifications channel
  closed,     \* pgx: whether it is closed
  pumpErr     \* pgx: the channel of that name ("" when empty)

loopVars == <<kind, max, pc, backoff, delay, failures, runs, reported>>
netVars == <<event, up, net>>
dataVars == <<received, handled, emitted>>
pumpVars == <<pump, chan, closed, pumpErr>>
vars == <<loopVars, cancelled, netVars, dataVars, pumpVars>>

Events == 1 .. MaxEvents

\* The shape of the state; the channel never outgrows its capacity.
TypeOK ==
  /\ kind \in Kinds /\ max \in Maxima
  /\ cancelled \in BOOLEAN /\ reported \in BOOLEAN /\ up \in BOOLEAN /\ closed \in BOOLEAN
  /\ pc \in {"attempt", "read", "listen", "wait", "returned"}
  /\ backoff \in Nat /\ delay \in Nat /\ failures \in Nat
  /\ runs \in 0 .. MaxRuns
  /\ event \in 0 .. MaxEvents
  /\ \A q \in {net, received, handled, emitted, chan} : q \in Seq(Events)
  /\ pump \in {"off", "take", "send", "close"}
  /\ Len(chan) <= ChanCap
  /\ pumpErr \in {"", "lost", "cancelled"}

Init ==
  /\ kind \in Kinds /\ max \in Maxima
  /\ cancelled = FALSE
  /\ pc = "attempt"
  /\ backoff = 0 /\ delay = 0 /\ failures = 0 /\ runs = 0
  /\ reported = FALSE
  /\ event = 0 /\ up = FALSE /\ net = <<>>
  /\ received = <<>> /\ handled = <<>> /\ emitted = <<>>
  /\ pump = "off" /\ chan = <<>> /\ closed = FALSE /\ pumpErr = ""

-----------------------------------------------------------------------------
(* The retry loops. *)

\* Mutant: the delay is not capped.
nextBackoff_NoCap(prev) == IF prev < Floor THEN Floor ELSE prev * 2

\* nextBackoff.
nextBackoff(prev) ==
  IF prev < Floor THEN Floor
  ELSE IF prev * 2 > max THEN max
  ELSE prev * 2

\* What cfg.Decode makes of a payload; JSONFlatDecode may do any of these.
Decode == {"patches", "empty", "error"}

\* An event that decodes to d: Emit if there are patches.
Handle(n, d) ==
  /\ handled' = Append(handled, n)
  /\ emitted' = IF d = "patches" THEN Append(emitted, n) ELSE emitted

\* HTTPPoll: one poll and the delay after it.  It fails when the request, the
\* response or its decoding does, and when the context is cancelled.
pollOnce ==
  /\ kind = "poll"
  /\ pc = "attempt"
  /\ \/ /\ ~ cancelled
        /\ event < MaxEvents
        /\ event' = event + 1
        /\ received' = Append(received, event')
        /\ \E d \in Decode \ {"error"} : Handle(event', d)
        /\ backoff' = 0 /\ failures' = 0 /\ reported' = FALSE
     \/ /\ backoff' = nextBackoff(backoff)
        /\ failures' = failures + 1 /\ reported' = TRUE
        /\ UNCHANGED <<event, dataVars>>
  /\ delay' = IF backoff' > Interval THEN backoff' ELSE Interval
  /\ pc' = "wait"
  /\ UNCHANGED <<kind, max, runs, cancelled, up, net, pumpVars>>

\* WSSubscribe and PgxListen after an attempt that ended with err: return when
\* the context is cancelled, else wait.  The delay grows also after an attempt
\* that worked for a while.
AfterRun(err) ==
  /\ up' = FALSE
  /\ net' = <<>>
  /\ IF cancelled
       THEN pc' = "returned" /\ UNCHANGED <<backoff, delay, failures, reported>>
       ELSE /\ pc' = "wait"
            /\ backoff' = nextBackoff(backoff)
            /\ delay' = backoff'
            /\ failures' = failures + 1
            /\ reported' = err
  /\ UNCHANGED <<kind, max, runs, event>>

\* The dial, the connect or a LISTEN fails.
connectFails ==
  /\ kind \in {"ws", "pgx"}
  /\ pc = "attempt"
  /\ AfterRun(TRUE)
  /\ UNCHANGED <<cancelled, dataVars, pumpVars>>

\* wsRunOnce or pgxRunOnce is connected; the latter starts its pump.
connect ==
  /\ kind \in {"ws", "pgx"}
  /\ pc = "attempt"
  /\ ~ cancelled
  /\ up' = TRUE
  /\ pc' = IF kind = "ws" THEN "read" ELSE "listen"
  /\ pump' = IF kind = "ws" THEN "off" ELSE "take"
  /\ chan' = <<>> /\ closed' = FALSE /\ pumpErr' = ""
  /\ UNCHANGED <<kind, max, backoff, delay, failures, runs, reported, cancelled, event, net,
                 dataVars>>

\* The timer.
again ==
  /\ pc = "wait"
  /\ runs < MaxRuns
  /\ runs' = runs + 1
  /\ pc' = "attempt"
  /\ UNCHANGED <<kind, max, backoff, delay, failures, reported, cancelled, netVars, dataVars,
                 pumpVars>>

\* ctx.Done during the wait.
stop ==
  /\ pc = "wait"
  /\ cancelled
  /\ pc' = "returned"
  /\ UNCHANGED <<kind, max, backoff, delay, failures, runs, reported, cancelled, netVars,
                 dataVars, pumpVars>>

-----------------------------------------------------------------------------
(* WSSubscribe. *)

\* wsRunOnce: one message.
readMessage ==
  /\ pc = "read"
  /\ net # <<>>
  /\ received' = Append(received, Head(net))
  /\ \E d \in Decode : Handle(Head(net), d)
  /\ net' = Tail(net)
  /\ UNCHANGED <<loopVars, cancelled, event, up, pumpVars>>

\* wsRunOnce: Read fails.
readFails ==
  /\ pc = "read"
  /\ ~ up \/ cancelled
  /\ AfterRun(TRUE)
  /\ UNCHANGED <<cancelled, dataVars, pumpVars>>

-----------------------------------------------------------------------------
(* PgxListen. *)

\* The pump takes a notification.
pumpTakes ==
  /\ pump = "take"
  /\ net # <<>>
  /\ received' = Append(received, Head(net))
  /\ net' = Tail(net)
  /\ pump' = "send"
  /\ UNCHANGED <<loopVars, cancelled, event, up, handled, emitted, chan, closed, pumpErr>>

\* Mutant: every notification is sent by a goroutine of its own, in any order.
pumpSends_Async ==
  /\ pump = "send"
  /\ Len(chan) < ChanCap
  /\ LET n == received[Len(received)] IN chan' \in {Append(chan, n), <<n>> \o chan}
  /\ pump' = "take"
  /\ UNCHANGED <<loopVars, cancelled, netVars, dataVars, closed, pumpErr>>

\* The pump hands it over, waiting while the channel is full.
pumpSends ==
  /\ pump = "send"
  /\ Len(chan) < ChanCap
  /\ chan' = Append(chan, received[Len(received)])
  /\ pump' = "take"
  /\ UNCHANGED <<loopVars, cancelled, netVars, dataVars, closed, pumpErr>>

\* Mutant: the pump closes the channel first and then leaves its error.
pumpFails_CloseFirst ==
  /\ pump = "take" /\ (~ up \/ cancelled)
  /\ closed' = TRUE
  /\ pump' = "close"
  /\ UNCHANGED <<loopVars, cancelled, netVars, dataVars, chan, pumpErr>>

\* Mutant: a pump that waits to send does not look at the context.
pumpFails_SendBlocks ==
  /\ pump = "take" /\ (~ up \/ cancelled)
  /\ pumpErr' \in {e \in {"lost", "cancelled"} : IF e = "lost" THEN ~ up ELSE cancelled}
  /\ pump' = "close"
  /\ UNCHANGED <<loopVars, cancelled, netVars, dataVars, chan, closed>>

\* The pump gives up: WaitForNotification fails, or the context is cancelled
\* while it waits to send.
pumpFails ==
  /\ \/ pump = "take" /\ (~ up \/ cancelled)
     \/ pump = "send" /\ cancelled
  /\ pumpErr' \in {e \in {"lost", "cancelled"} :
                     IF e = "lost" THEN pump = "take" /\ ~ up ELSE cancelled}
  /\ pump' = "close"
  /\ UNCHANGED <<loopVars, cancelled, netVars, dataVars, chan, closed>>

\* The deferred close of the channel.
pumpCloses ==
  /\ pump = "close"
  /\ closed' = TRUE
  /\ pump' = "off"
  /\ UNCHANGED <<loopVars, cancelled, netVars, dataVars, chan, pumpErr>>

\* PgListen: one notification.
listen ==
  /\ pc = "listen"
  /\ chan # <<>>
  /\ \E d \in Decode : Handle(Head(chan), d)
  /\ chan' = Tail(chan)
  /\ UNCHANGED <<loopVars, cancelled, netVars, received, pump, closed, pumpErr>>

\* Mutant: PgListen stops at the close with notifications still queued.
listenEnds_Undrained ==
  /\ pc = "listen"
  /\ cancelled \/ closed
  /\ AfterRun(pumpErr = "lost")
  /\ UNCHANGED <<cancelled, dataVars, pumpVars>>

\* PgListen returns: the context is cancelled or the closed channel is drained.
\* pgxRunOnce then looks once whether the pump has left an error, and closes
\* the connection.
listenEnds ==
  /\ pc = "listen"
  /\ cancelled \/ (closed /\ chan = <<>>)
  /\ AfterRun(pumpErr = "lost")
  /\ UNCHANGED <<cancelled, dataVars, pumpVars>>

-----------------------------------------------------------------------------
(* The environment. *)

\* The upstream sends an event.
upstreamSends ==
  /\ up
  /\ event < MaxEvents
  /\ event' = event + 1
  /\ net' = Append(net, event')
  /\ UNCHANGED <<loopVars, cancelled, up, dataVars, pumpVars>>

\* The connection drops; what is under way may still be read.
upstreamDrops ==
  /\ up
  /\ up' = FALSE
  /\ net' \in {<<>>, net}
  /\ UNCHANGED <<loopVars, cancelled, event, dataVars, pumpVars>>

\* The owner cancels the context.
cancel ==
  /\ ~ cancelled
  /\ cancelled' = TRUE
  /\ UNCHANGED <<loopVars, netVars, dataVars, pumpVars>>

-----------------------------------------------------------------------------

Loop ==
  \/ pollOnce \/ connectFails \/ connect \/ again \/ stop
  \/ readMessage \/ readFails
  \/ listen \/ listenEnds

Pump == pumpTakes \/ pumpSends \/ pumpFails \/ pumpCloses

Next == Loop \/ Pump \/ upstreamSends \/ upstreamDrops \/ cancel

Spec == Init /\ [][Next]_vars

\* Both goroutines run: timers fire, and reads fail or end when the context is
\* cancelled.  Nothing obliges the upstream to send or the owner to cancel.
Fairness == WF_vars(Loop) /\ WF_vars(Pump)

FairSpec == Spec /\ Fairness

-----------------------------------------------------------------------------
(* Properties. *)

\* Nothing is lost or reordered between the goroutines: what the adapter took
\* from the connection is what it has handled, then what the channel holds,
\* then what the pump is about to send - across reconnections, full channels
\* and a pump that fails while notifications are queued.  When an attempt has
\* ended without a cancellation, everything it took has been handled.
NothingSwallowed ==
  /\ ~ cancelled =>
       received = handled \o chan
                    \o (IF pump = "send" THEN <<received[Len(received)]>> ELSE <<>>)
  /\ pc \in {"wait", "attempt"} => handled = received

\* Events reach the scene in the order of the upstream, none of them twice.
EmittedInOrder ==
  \A i, j \in 1 .. Len(emitted) : i < j => emitted[i] < emitted[j]

\* A subscription that broke is reported to OnError before the adapter retries:
\* pgxRunOnce finds the pump's error although it looks only once.
LossReported == pc = "wait" /\ kind # "poll" => reported

\* The delays are the powers of two from the floor up to MaxBackoff, counted
\* from the last successful poll, or from the start for the subscriptions,
\* which never start over.  (With a MaxBackoff below the floor they alternate
\* between the two.)
DelaysExact ==
  /\ max >= Floor =>
       backoff = IF failures = 0 THEN 0
                 ELSE LET d == Floor * 2 ^ (failures - 1) IN IF d < max THEN d ELSE max
  /\ max < Floor =>
       backoff = IF failures = 0 THEN 0 ELSE IF failures % 2 = 1 THEN Floor ELSE max
  /\ pc = "wait" => delay = IF kind = "poll" /\ backoff < Interval THEN Interval ELSE backoff

\* A cancelled context ends the adapter, its pump too: nobody waits for a
\* channel that nobody serves.
StopsWhenCancelled == cancelled ~> (pc = "returned" /\ pump = "off")
=============================================================================
