--------------------------- MODULE AdaptersProofs ---------------------------
(***************************************************************************)
(* Proofs about Adapters, for every channel capacity and every bound: what *)
(* an adapter takes from its connection it handles, in order; a lost       *)
(* subscription is reported before the retry; the delays are the powers of *)
(* two between the floor and MaxBackoff.                                   *)
(***************************************************************************)
EXTENDS Adapters, FiniteSetTheorems, TLAPS

-----------------------------------------------------------------------------
(* The inductive invariants. *)

\* What the pump is about to send.
Pending == IF pump = "send" THEN <<received[Len(received)]>> ELSE <<>>

\* Who runs when: each adapter has the loop states of its kind, only PgxListen
\* has a pump, and the pump outlives PgListen only after a cancellation.  A
\* poller has no connection.
LifeInv ==
  /\ pc = "read" => kind = "ws"
  /\ pc = "listen" => kind = "pgx"
  /\ kind = "poll" => ~ up /\ net = <<>>
  /\ pc = "returned" => cancelled
  /\ pc \in {"attempt", "wait", "read"} => pump = "off" /\ chan = <<>>

\* The pump leaves its error before it closes, and stops when it has closed.
PumpInv ==
  /\ closed => pump = "off"
  /\ closed \/ pump = "close" => pumpErr # ""
  /\ pumpErr = "cancelled" => cancelled
  /\ pump = "send" => received # <<>>

\* Until a cancellation, what was taken is handled, queued or in the pump's hand.
TakenInv ==
  /\ ~ cancelled => received = handled \o chan \o Pending
  /\ pc \in {"attempt", "wait", "read"} => handled = received

Increasing(s) == \A i, j \in 1 .. Len(s) : i < j => s[i] < s[j]

Before(s, t) == \A i \in 1 .. Len(s) : \A j \in 1 .. Len(t) : s[i] < t[j]

UpTo(s, n) == \A i \in 1 .. Len(s) : s[i] <= n

\* The events e, c, p and n are in order, in themselves and one after the other,
\* and none is later than v.
Ordered(e, c, p, n, v) ==
  /\ Increasing(e) /\ Increasing(c) /\ Increasing(n)
  /\ Before(e, c) /\ Before(e, p) /\ Before(e, n)
  /\ Before(c, p) /\ Before(c, n) /\ Before(p, n)
  /\ UpTo(e, v) /\ UpTo(c, v) /\ UpTo(p, v) /\ UpTo(n, v)

\* Everything between the upstream and the scene is in the upstream's order:
\* emitted, then queued, then in the pump's hand, then on the connection.
OrderInv == Ordered(emitted, chan, Pending, net, event)

-----------------------------------------------------------------------------
(* Type correctness. *)

\* The sequences of the state are sequences of events.
LEMMA SeqTypes ==
  TypeOK <=>
    /\ kind \in Kinds /\ max \in Maxima
    /\ cancelled \in BOOLEAN /\ reported \in BOOLEAN /\ up \in BOOLEAN /\ closed \in BOOLEAN
    /\ pc \in {"attempt", "read", "listen", "wait", "returned"}
    /\ backoff \in Nat /\ delay \in Nat /\ failures \in Nat
    /\ runs \in 0 .. MaxRuns
    /\ event \in 0 .. MaxEvents
    /\ net \in Seq(Events) /\ received \in Seq(Events) /\ handled \in Seq(Events)
    /\ emitted \in Seq(Events) /\ chan \in Seq(Events)
    /\ pump \in {"off", "take", "send", "close"}
    /\ Len(chan) <= ChanCap
    /\ pumpErr \in {"", "lost", "cancelled"}
  BY Zenon DEF TypeOK

\* nextBackoff returns a delay.
LEMMA BackoffType ==
  TypeOK => nextBackoff(backoff) \in Nat
  <1> SUFFICES ASSUME TypeOK PROVE nextBackoff(backoff) \in Nat
    OBVIOUS
  <1>1. backoff \in Nat /\ max \in Nat /\ Floor \in Nat
    BY SeqTypes, DelaysAssumption
  <1> QED
    BY <1>1 DEF nextBackoff

\* The two states agree on the shape when the loop's part has it.
LoopType ==
  /\ kind \in Kinds /\ max \in Maxima /\ reported \in BOOLEAN
  /\ pc \in {"attempt", "read", "listen", "wait", "returned"}
  /\ backoff \in Nat /\ delay \in Nat /\ failures \in Nat
  /\ runs \in 0 .. MaxRuns

NetType == event \in 0 .. MaxEvents /\ up \in BOOLEAN /\ net \in Seq(Events)

DataType ==
  received \in Seq(Events) /\ handled \in Seq(Events) /\ emitted \in Seq(Events)

PumpType ==
  /\ pump \in {"off", "take", "send", "close"}
  /\ chan \in Seq(Events) /\ Len(chan) <= ChanCap
  /\ closed \in BOOLEAN
  /\ pumpErr \in {"", "lost", "cancelled"}

\* The shape of the state, group by group.
LEMMA Groups == TypeOK <=> LoopType /\ NetType /\ DataType /\ PumpType /\ cancelled \in BOOLEAN
  BY SeqTypes, Zenon DEF LoopType, NetType, DataType, PumpType

\* A group that a step leaves alone keeps its shape.
LEMMA GroupsUnchanged ==
  /\ LoopType /\ UNCHANGED loopVars => LoopType'
  /\ NetType /\ UNCHANGED netVars => NetType'
  /\ DataType /\ UNCHANGED dataVars => DataType'
  /\ PumpType /\ UNCHANGED pumpVars => PumpType'
  BY Zenon DEF LoopType, NetType, DataType, PumpType, loopVars, netVars, dataVars, pumpVars

\* What the end of an attempt does.
LEMMA AfterRunFacts ==
  ASSUME NEW err, AfterRun(err)
  PROVE  /\ up' = FALSE /\ net' = <<>>
         /\ kind' = kind /\ max' = max /\ runs' = runs /\ event' = event
         /\ cancelled => /\ pc' = "returned" /\ backoff' = backoff /\ delay' = delay
                         /\ failures' = failures /\ reported' = reported
         /\ ~ cancelled => /\ pc' = "wait" /\ backoff' = nextBackoff(backoff) /\ delay' = backoff'
                           /\ failures' = failures + 1 /\ reported' = err
  BY Zenon DEF AfterRun

\* The end of an attempt keeps the shape of the loop and of the connection.
LEMMA AfterRunType ==
  ASSUME TypeOK, NEW err \in BOOLEAN, AfterRun(err)
  PROVE  LoopType' /\ NetType'
  <1>1. LoopType /\ NetType /\ cancelled \in BOOLEAN
    BY Groups
  <1>2. nextBackoff(backoff) \in Nat
    BY BackoffType
  <1>3. NetType'
    <2>1. <<>> \in Seq(Events) /\ FALSE \in BOOLEAN
      OBVIOUS
    <2> QED
      BY <1>1, <2>1, AfterRunFacts, Zenon DEF NetType
  <1>4. CASE cancelled
    BY <1>1, <1>3, <1>4, AfterRunFacts, Zenon DEF LoopType
  <1>5. CASE ~ cancelled
    <2>1. failures + 1 \in Nat
      BY <1>1 DEF LoopType
    <2> QED
      BY <1>1, <1>2, <1>3, <1>5, <2>1, AfterRunFacts, Zenon DEF LoopType
  <1> QED
    BY <1>3, <1>4, <1>5

\* A decoded event is recorded.
LEMMA HandleType ==
  ASSUME handled \in Seq(Events), emitted \in Seq(Events),
         NEW n \in Events, NEW d, Handle(n, d)
  PROVE  handled' \in Seq(Events) /\ emitted' \in Seq(Events)
  <1>1. Append(handled, n) \in Seq(Events) /\ Append(emitted, n) \in Seq(Events)
    OBVIOUS
  <1> QED
    BY <1>1, Zenon DEF Handle

\* The initial state is well typed.
LEMMA InitTypeOK == Init => TypeOK /\ PumpInv
  <1> SUFFICES ASSUME Init PROVE TypeOK /\ PumpInv
    OBVIOUS
  <1>1. LoopType /\ NetType /\ DataType /\ PumpType /\ cancelled \in BOOLEAN
    <2>1. 0 \in Nat /\ 0 \in 0 .. MaxRuns /\ 0 \in 0 .. MaxEvents
      BY BoundsAssumption
    <2>2. <<>> \in Seq(Events) /\ Len(<<>>) <= ChanCap
      BY BoundsAssumption
    <2> QED
      BY <2>1, <2>2, Zenon DEF Init, LoopType, NetType, DataType, PumpType
  <1>2. PumpInv
    BY DEF Init, PumpInv
  <1> QED
    BY <1>1, <1>2, Groups

\* Every step keeps the shape of the state.
LEMMA NextTypeOK == TypeOK /\ PumpInv /\ [Next]_vars => TypeOK'
  <1> SUFFICES ASSUME TypeOK, PumpInv, [Next]_vars
               PROVE  LoopType' /\ NetType' /\ DataType' /\ PumpType' /\ cancelled' \in BOOLEAN
    <2>1. TypeOK' <=> LoopType' /\ NetType' /\ DataType' /\ PumpType' /\ cancelled' \in BOOLEAN
      BY Zenon DEF TypeOK, LoopType, NetType, DataType, PumpType
    <2> QED
      BY <2>1
  <1>0. LoopType /\ NetType /\ DataType /\ PumpType /\ cancelled \in BOOLEAN
    BY Groups
  <1>1. CASE pollOnce
    <2>1. NetType' /\ DataType' /\ PumpType' /\ cancelled' \in BOOLEAN
      <3>1. PumpType' /\ cancelled' \in BOOLEAN
        BY <1>0, <1>1, GroupsUnchanged, Zenon DEF pollOnce
      <3>2. CASE ~ cancelled /\ event < MaxEvents /\ event' = event + 1
                 /\ received' = Append(received, event') /\ \E d \in Decode \ {"error"} : Handle(event', d)
        <4>1. event' \in Events /\ event' \in 0 .. MaxEvents
          BY <1>0, <3>2, BoundsAssumption DEF NetType, Events
        <4>2. received' \in Seq(Events)
          BY <1>0, <3>2, <4>1 DEF DataType
        <4>3. handled' \in Seq(Events) /\ emitted' \in Seq(Events)
          BY <1>0, <3>2, <4>1, HandleType, Zenon DEF DataType
        <4>4. NetType'
          BY <1>0, <1>1, <4>1, Zenon DEF NetType, pollOnce
        <4> QED
          BY <3>1, <4>2, <4>3, <4>4, Zenon DEF DataType
      <3>3. CASE UNCHANGED <<event, dataVars>>
        BY <1>0, <1>1, <3>1, <3>3, Zenon DEF NetType, DataType, pollOnce, dataVars
      <3> QED
        BY <1>1, <3>2, <3>3, Zenon DEF pollOnce
    <2>2. backoff' \in Nat /\ failures' \in Nat /\ reported' \in BOOLEAN
      <3>1. nextBackoff(backoff) \in Nat /\ failures + 1 \in Nat /\ 0 \in Nat
        BY <1>0, BackoffType DEF LoopType
      <3> QED
        BY <1>1, <3>1, Zenon DEF pollOnce
    <2>3. delay' \in Nat
      <3>1. Interval \in Nat
        BY DelaysAssumption
      <3> QED
        BY <1>1, <2>2, <3>1, Zenon DEF pollOnce
    <2> QED
      BY <1>0, <1>1, <2>1, <2>2, <2>3, Zenon DEF LoopType, pollOnce
  <1>2. CASE connectFails
    <2>1. LoopType' /\ NetType'
      BY <1>2, AfterRunType, Zenon DEF connectFails
    <2> QED
      BY <1>0, <1>2, <2>1, GroupsUnchanged, Zenon DEF connectFails
  <1>3. CASE connect
    <2>1. LoopType' /\ NetType' /\ DataType' /\ cancelled' \in BOOLEAN
      BY <1>0, <1>3, Zenon DEF connect, LoopType, NetType, DataType, dataVars
    <2>2. <<>> \in Seq(Events) /\ Len(<<>>) <= ChanCap
      BY BoundsAssumption
    <2>3. PumpType'
      BY <1>3, <2>2, Zenon DEF connect, PumpType
    <2> QED
      BY <2>1, <2>3
  <1>4. CASE again
    <2>1. runs' \in 0 .. MaxRuns
      BY <1>0, <1>4, BoundsAssumption DEF again, LoopType
    <2>2. NetType' /\ DataType' /\ PumpType' /\ cancelled' \in BOOLEAN
      BY <1>0, <1>4, GroupsUnchanged, Zenon DEF again
    <2> QED
      BY <1>0, <1>4, <2>1, <2>2, Zenon DEF again, LoopType
  <1>5. CASE stop
    <2>1. NetType' /\ DataType' /\ PumpType' /\ cancelled' \in BOOLEAN
      BY <1>0, <1>5, GroupsUnchanged, Zenon DEF stop
    <2> QED
      BY <1>0, <1>5, <2>1, Zenon DEF stop, LoopType
  <1>6. CASE readMessage
    <2>1. LoopType' /\ PumpType' /\ cancelled' \in BOOLEAN
      BY <1>0, <1>6, GroupsUnchanged, Zenon DEF readMessage
    <2>2. Head(net) \in Events /\ Tail(net) \in Seq(Events)
      BY <1>0, <1>6 DEF readMessage, NetType
    <2>3. NetType'
      BY <1>0, <1>6, <2>2, Zenon DEF readMessage, NetType
    <2>4. received' \in Seq(Events)
      BY <1>0, <1>6, <2>2 DEF readMessage, DataType
    <2>5. handled' \in Seq(Events) /\ emitted' \in Seq(Events)
      BY <1>0, <1>6, <2>2, HandleType, Zenon DEF readMessage, DataType
    <2> QED
      BY <2>1, <2>3, <2>4, <2>5, Zenon DEF DataType
  <1>7. CASE readFails
    <2>1. LoopType' /\ NetType'
      BY <1>7, AfterRunType, Zenon DEF readFails
    <2> QED
      BY <1>0, <1>7, <2>1, GroupsUnchanged, Zenon DEF readFails
  <1>8. CASE listen
    <2>1. LoopType' /\ NetType' /\ cancelled' \in BOOLEAN /\ received' \in Seq(Events)
      BY <1>0, <1>8, GroupsUnchanged, Zenon DEF listen, DataType
    <2>2. Head(chan) \in Events /\ Tail(chan) \in Seq(Events) /\ Len(Tail(chan)) <= ChanCap
      <3>1. chan \in Seq(Events) /\ chan # <<>> /\ Len(chan) <= ChanCap
        BY <1>0, <1>8, Zenon DEF listen, PumpType
      <3>2. Head(chan) \in Events /\ Tail(chan) \in Seq(Events) /\ Len(Tail(chan)) = Len(chan) - 1
        BY <3>1
      <3> QED
        BY <3>1, <3>2, BoundsAssumption
    <2>3. PumpType'
      BY <1>0, <1>8, <2>2, Zenon DEF listen, PumpType
    <2>4. handled' \in Seq(Events) /\ emitted' \in Seq(Events)
      BY <1>0, <1>8, <2>2, HandleType, Zenon DEF listen, DataType
    <2> QED
      BY <2>1, <2>3, <2>4, Zenon DEF DataType
  <1>9. CASE listenEnds
    <2>1. (pumpErr = "lost") \in BOOLEAN
      BY Zenon
    <2>2. LoopType' /\ NetType'
      BY <1>9, <2>1, AfterRunType, Zenon DEF listenEnds
    <2> QED
      BY <1>0, <1>9, <2>2, GroupsUnchanged, Zenon DEF listenEnds
  <1>10. CASE pumpTakes
    <2>1. LoopType' /\ PumpType' /\ cancelled' \in BOOLEAN
      BY <1>0, <1>10, GroupsUnchanged, Zenon DEF pumpTakes, PumpType
    <2>2. Head(net) \in Events /\ Tail(net) \in Seq(Events)
      BY <1>0, <1>10 DEF pumpTakes, NetType
    <2>3. NetType'
      BY <1>0, <1>10, <2>2, Zenon DEF pumpTakes, NetType
    <2>4. received' \in Seq(Events)
      BY <1>0, <1>10, <2>2 DEF pumpTakes, DataType
    <2> QED
      BY <1>0, <1>10, <2>1, <2>3, <2>4, Zenon DEF pumpTakes, DataType
  <1>11. CASE pumpSends
    <2>1. LoopType' /\ NetType' /\ DataType' /\ cancelled' \in BOOLEAN
      BY <1>0, <1>11, GroupsUnchanged, Zenon DEF pumpSends
    <2>2. received # <<>>
      BY <1>11, Zenon DEF pumpSends, PumpInv
    <2>3. received[Len(received)] \in Events
      BY <1>0, <2>2 DEF DataType
    <2>4. Append(chan, received[Len(received)]) \in Seq(Events)
          /\ Len(Append(chan, received[Len(received)])) <= ChanCap
      <3>1. \A x \in Events : Append(chan, x) \in Seq(Events) /\ Len(Append(chan, x)) <= ChanCap
        <4>1. chan \in Seq(Events) /\ Len(chan) < ChanCap
          BY <1>0, <1>11, Zenon DEF pumpSends, PumpType
        <4> QED
          BY <4>1, BoundsAssumption
      <3> QED
        BY <2>3, <3>1, Zenon
    <2>5. PumpType'
      BY <1>0, <1>11, <2>4, Zenon DEF pumpSends, PumpType
    <2> QED
      BY <2>1, <2>5
  <1>12. CASE pumpFails
    <2>1. LoopType' /\ NetType' /\ DataType' /\ cancelled' \in BOOLEAN
      BY <1>0, <1>12, GroupsUnchanged, Zenon DEF pumpFails
    <2>2. PumpType'
      BY <1>0, <1>12, Zenon DEF pumpFails, PumpType
    <2> QED
      BY <2>1, <2>2
  <1>13. CASE pumpCloses
    <2>1. LoopType' /\ NetType' /\ DataType' /\ cancelled' \in BOOLEAN
      BY <1>0, <1>13, GroupsUnchanged, Zenon DEF pumpCloses
    <2>2. PumpType'
      BY <1>0, <1>13, Zenon DEF pumpCloses, PumpType
    <2> QED
      BY <2>1, <2>2
  <1>14. CASE upstreamSends
    <2>1. LoopType' /\ DataType' /\ PumpType' /\ cancelled' \in BOOLEAN
      BY <1>0, <1>14, GroupsUnchanged, Zenon DEF upstreamSends
    <2>2. event' \in Events /\ event' \in 0 .. MaxEvents
      BY <1>0, <1>14, BoundsAssumption DEF upstreamSends, NetType, Events
    <2>3. net' \in Seq(Events)
      BY <1>0, <1>14, <2>2 DEF upstreamSends, NetType
    <2> QED
      BY <1>0, <1>14, <2>1, <2>2, <2>3, Zenon DEF upstreamSends, NetType
  <1>15. CASE upstreamDrops
    <2>1. LoopType' /\ DataType' /\ PumpType' /\ cancelled' \in BOOLEAN
      BY <1>0, <1>15, GroupsUnchanged, Zenon DEF upstreamDrops
    <2>2. <<>> \in Seq(Events)
      OBVIOUS
    <2> QED
      BY <1>0, <1>15, <2>1, <2>2, Zenon DEF upstreamDrops, NetType
  <1>16. CASE cancel
    BY <1>0, <1>16, GroupsUnchanged, Zenon DEF cancel
  <1>17. CASE UNCHANGED vars
    BY <1>0, <1>17, GroupsUnchanged, Zenon DEF vars
  <1> QED
    BY <1>1, <1>2, <1>3, <1>4, <1>5, <1>6, <1>7, <1>8, <1>9, <1>10, <1>11, <1>12, <1>13,
       <1>14, <1>15, <1>16, <1>17 DEF Next, Loop, Pump

-----------------------------------------------------------------------------
(* The two goroutines. *)

\* What the environment leaves alone.
LEMMA EnvironmentFacts ==
  upstreamSends \/ upstreamDrops \/ cancel =>
    /\ UNCHANGED <<loopVars, dataVars, pumpVars>>
    /\ cancelled => cancelled'
    /\ (up /\ UNCHANGED cancelled) \/ UNCHANGED netVars
  <1>1. upstreamSends => UNCHANGED <<loopVars, dataVars, pumpVars>> /\ up /\ UNCHANGED cancelled
    BY Zenon DEF upstreamSends
  <1>2. upstreamDrops => UNCHANGED <<loopVars, dataVars, pumpVars>> /\ up /\ UNCHANGED cancelled
    BY Zenon DEF upstreamDrops
  <1>3. cancel => UNCHANGED <<loopVars, dataVars, pumpVars, netVars>> /\ cancelled'
    BY Zenon DEF cancel
  <1> QED
    BY <1>1, <1>2, <1>3, Zenon

\* Every step keeps the protocol of the pump.
LEMMA NextPumpInv == TypeOK /\ PumpInv /\ [Next]_vars => PumpInv'
  <1> SUFFICES ASSUME TypeOK, PumpInv, [Next]_vars PROVE PumpInv'
    OBVIOUS
  <1>1. DataType /\ PumpType /\ NetType /\ cancelled \in BOOLEAN
    BY Groups
  <1>2. CASE pollOnce
    <2>1. received # <<>> => received' # <<>>
      BY <1>1, <1>2 DEF pollOnce, DataType, dataVars, NetType
    <2> QED
      BY <1>2, <2>1, Zenon DEF pollOnce, PumpInv, pumpVars
  <1>3. CASE connect
    BY <1>3, Zenon DEF connect, PumpInv
  <1>4. CASE connectFails \/ readFails \/ listenEnds \/ again \/ stop
    <2>1. UNCHANGED <<cancelled, dataVars, pumpVars>>
      BY <1>4, Zenon DEF connectFails, readFails, listenEnds, again, stop
    <2> QED
      BY <2>1, Zenon DEF PumpInv, pumpVars, dataVars
  <1>5. CASE readMessage
    <2>1. received' # <<>>
      BY <1>1, <1>5 DEF readMessage, DataType
    <2> QED
      BY <1>5, <2>1, Zenon DEF readMessage, PumpInv, pumpVars
  <1>6. CASE pumpTakes
    <2>1. received' # <<>>
      <3>1. \A x : Append(received, x) # <<>>
        BY <1>1 DEF DataType
      <3> QED
        BY <1>6, <3>1, Zenon DEF pumpTakes
    <2> QED
      BY <1>6, <2>1, Zenon DEF pumpTakes, PumpInv
  <1>7. CASE pumpSends
    BY <1>7, Zenon DEF pumpSends, PumpInv, dataVars
  <1>8. CASE pumpFails
    BY <1>8, Zenon DEF pumpFails, PumpInv, dataVars
  <1>9. CASE pumpCloses
    BY <1>9, Zenon DEF pumpCloses, PumpInv, dataVars
  <1>10. CASE listen
    BY <1>10, Zenon DEF listen, PumpInv
  <1>11. CASE upstreamSends \/ upstreamDrops \/ cancel
    <2>1. UNCHANGED <<dataVars, pumpVars>> /\ (cancelled => cancelled')
      BY <1>11, EnvironmentFacts, Zenon
    <2> QED
      BY <2>1, Zenon DEF PumpInv, pumpVars, dataVars
  <1>12. CASE UNCHANGED vars
    BY <1>12, Zenon DEF vars, PumpInv, pumpVars, dataVars
  <1> QED
    BY <1>2, <1>3, <1>4, <1>5, <1>6, <1>7, <1>8, <1>9, <1>10, <1>11, <1>12 DEF Next, Loop, Pump

\* The state has its declared shape, and the pump its protocol, in every
\* reachable state of every adapter, for every capacity and bound.
THEOREM AdaptersTypeCorrect == Spec => [](TypeOK /\ PumpInv)
  <1> QED
    BY InitTypeOK, NextTypeOK, NextPumpInv, PTL DEF Spec

\* Every step keeps each goroutine in the states of its adapter.
LEMMA NextLifeInv == TypeOK /\ PumpInv /\ LifeInv /\ [Next]_vars => LifeInv'
  <1> SUFFICES ASSUME TypeOK, PumpInv, LifeInv, [Next]_vars PROVE LifeInv'
    OBVIOUS
  <1>1. kind \in {"poll", "ws", "pgx"}
    BY SeqTypes, KindsAssumption, Zenon
  <1>2. CASE pollOnce
    BY <1>2, Zenon DEF pollOnce, LifeInv, pumpVars
  <1>3. CASE connectFails \/ readFails \/ listenEnds
    <2>1. PICK err : AfterRun(err)
      BY <1>3, Zenon DEF connectFails, readFails, listenEnds
    <2>2. /\ up' = FALSE /\ net' = <<>> /\ kind' = kind /\ cancelled' = cancelled
          /\ pc' = IF cancelled THEN "returned" ELSE "wait"
          /\ UNCHANGED <<pump, chan>>
      BY <1>3, <2>1, AfterRunFacts, Zenon DEF connectFails, readFails, listenEnds, pumpVars
    <2>3. ~ cancelled => pump = "off" /\ chan = <<>>
      BY <1>3, Zenon DEF connectFails, readFails, listenEnds, LifeInv, PumpInv
    <2> QED
      BY <2>2, <2>3, Zenon DEF LifeInv
  <1>4. CASE connect
    BY <1>1, <1>4, Zenon DEF connect, LifeInv
  <1>5. CASE again \/ stop
    <2>1. CASE again
      BY <2>1, Zenon DEF again, netVars, pumpVars, LifeInv
    <2>2. CASE stop
      BY <2>2, Zenon DEF stop, netVars, pumpVars, LifeInv
    <2> QED
      BY <1>5, <2>1, <2>2
  <1>6. CASE readMessage
    BY <1>6, Zenon DEF readMessage, LifeInv, loopVars, pumpVars
  <1>7. CASE listen
    BY <1>7, Zenon DEF listen, LifeInv, loopVars, netVars
  <1>8. CASE pumpTakes
    BY <1>8, Zenon DEF pumpTakes, LifeInv, loopVars
  <1>9. CASE pumpSends \/ pumpFails \/ pumpCloses
    <2>1. pump # "off" /\ UNCHANGED <<kind, pc, cancelled, up, net>>
      BY <1>9, Zenon DEF pumpSends, pumpFails, pumpCloses, loopVars, netVars
    <2> QED
      BY <2>1, Zenon DEF LifeInv
  <1>10. CASE upstreamSends \/ upstreamDrops \/ cancel
    <2>1. UNCHANGED <<kind, pc, pump, chan>> /\ (cancelled => cancelled')
      BY <1>10, EnvironmentFacts, Zenon DEF loopVars, pumpVars
    <2>2. kind = "poll" => ~ up' /\ net' = <<>>
      BY <1>10, EnvironmentFacts, Zenon DEF netVars, LifeInv
    <2> QED
      BY <2>1, <2>2, Zenon DEF LifeInv
  <1>11. CASE UNCHANGED vars
    BY <1>11, Zenon DEF vars, LifeInv, loopVars, netVars, pumpVars
  <1> QED
    BY <1>2, <1>3, <1>4, <1>5, <1>6, <1>7, <1>8, <1>9, <1>10, <1>11 DEF Next, Loop, Pump

\* ... in every reachable state.
LEMMA AdaptersLife == Spec => []LifeInv
  <1>1. Init => LifeInv
    BY Zenon DEF Init, LifeInv
  <1> QED
    BY <1>1, NextLifeInv, AdaptersTypeCorrect, PTL DEF Spec

\* A subscription that broke is reported to OnError before the adapter retries:
\* pgxRunOnce finds the pump's error although it looks only once, because the
\* pump leaves it before it closes the channel PgListen drains.
THEOREM LossIsReported == Spec => []LossReported
  <1>1. Init => LossReported
    BY Zenon DEF Init, LossReported
  <1>2. TypeOK /\ PumpInv /\ LifeInv /\ LossReported /\ [Next]_vars => LossReported'
    <2> SUFFICES ASSUME TypeOK, PumpInv, LifeInv, LossReported, [Next]_vars PROVE LossReported'
      OBVIOUS
    <2>1. CASE listenEnds
      <3>1. ~ cancelled => pumpErr = "lost"
        BY <2>1, SeqTypes, Zenon DEF listenEnds, PumpInv
      <3> QED
        BY <2>1, <3>1, Zenon DEF listenEnds, AfterRun, LossReported
    <2>2. CASE connectFails \/ readFails
      BY <2>2, Zenon DEF connectFails, readFails, AfterRun, LossReported
    <2>3. CASE pollOnce
      BY <2>3, Zenon DEF pollOnce, LossReported
    <2>4. CASE connect
      BY <2>4, Zenon DEF connect, LossReported
    <2>5. CASE again \/ stop
      BY <2>5, Zenon DEF again, stop, LossReported
    <2>6. CASE UNCHANGED loopVars
      BY <2>6, Zenon DEF LossReported, loopVars
    <2>7. readMessage \/ listen \/ Pump \/ upstreamSends \/ upstreamDrops \/ cancel \/ UNCHANGED vars
            => UNCHANGED loopVars
      BY Zenon DEF readMessage, listen, Pump, pumpTakes, pumpSends, pumpFails, pumpCloses,
                   upstreamSends, upstreamDrops, cancel, vars
    <2> QED
      BY <2>1, <2>2, <2>3, <2>4, <2>5, <2>6, <2>7 DEF Next, Loop
  <1> QED
    BY <1>1, <1>2, AdaptersTypeCorrect, AdaptersLife, PTL DEF Spec

-----------------------------------------------------------------------------
(* Nothing is swallowed. *)

\* Handling the head of a queue keeps what was handled followed by the queue.
LEMMA ConcatHeadTail ==
  ASSUME NEW S, NEW h \in Seq(S), NEW c \in Seq(S), c # <<>>
  PROVE  Append(h, Head(c)) \o Tail(c) = h \o c
  <1>1. Len(Append(h, Head(c)) \o Tail(c)) = Len(h \o c)
    OBVIOUS
  <1>2. \A i \in 1 .. Len(h \o c) : (Append(h, Head(c)) \o Tail(c))[i] = (h \o c)[i]
    OBVIOUS
  <1> QED
    BY <1>1, <1>2

\* The empty queue.
LEMMA ConcatEmpty ==
  ASSUME NEW S, NEW h \in Seq(S)
  PROVE  h \o <<>> = h
  OBVIOUS

\* An adapter without queued events has handled what it took.
LEMMA TakenQuiet ==
  \A r \in Seq(Events) : r \o <<>> \o <<>> = r
  <1> SUFFICES ASSUME NEW r \in Seq(Events) PROVE r \o <<>> \o <<>> = r
    OBVIOUS
  <1>1. r \o <<>> = r
    BY ConcatEmpty
  <1> QED
    BY <1>1

\* Every step keeps what was taken.
LEMMA NextTakenInv ==
  TypeOK /\ PumpInv /\ LifeInv /\ TakenInv /\ [Next]_vars => TakenInv'
  <1> SUFFICES ASSUME TypeOK, PumpInv, LifeInv, TakenInv, [Next]_vars PROVE TakenInv'
    OBVIOUS
  <1>0. /\ net \in Seq(Events) /\ received \in Seq(Events) /\ handled \in Seq(Events)
        /\ chan \in Seq(Events)
    BY SeqTypes, Zenon
  <1>00. received' \in Seq(Events)
    <2>1. TypeOK'
      BY NextTypeOK
    <2> QED
      BY <2>1, Zenon DEF TypeOK
  <1>1. CASE pollOnce \/ readMessage
    <2>1. pc \in {"attempt", "read"} /\ pump' = pump /\ chan' = chan
      BY <1>1, Zenon DEF pollOnce, readMessage, pumpVars
    <2>2. handled = received /\ pump = "off" /\ chan = <<>>
      BY <2>1, Zenon DEF TakenInv, LifeInv
    <2>3. handled' = received'
      <3>1. CASE readMessage
        BY <2>2, <3>1, Zenon DEF readMessage, Handle
      <3>2. CASE pollOnce
        BY <2>2, <3>2, Zenon DEF pollOnce, Handle, dataVars
      <3> QED
        BY <1>1, <3>1, <3>2
    <2>4. Pending' = <<>>
      BY <2>1, <2>2, Zenon DEF Pending
    <2>5. received' = handled' \o chan' \o Pending'
      <3>1. received' \o <<>> \o <<>> = received'
        BY <1>00, TakenQuiet, Zenon
      <3>2. chan' = <<>>
        BY <2>1, <2>2, Zenon
      <3> QED
        BY <2>3, <2>4, <3>1, <3>2, Zenon
    <2> QED
      BY <2>3, <2>5, Zenon DEF TakenInv
  <1>2. CASE connect
    <2>1. handled' = received' /\ chan' = <<>> /\ pump' # "send"
      BY <1>2, Zenon DEF connect, dataVars, TakenInv
    <2>2. Pending' = <<>>
      BY <2>1, Zenon DEF Pending
    <2>3. received' = handled' \o chan' \o Pending'
      <3>1. received' \o <<>> \o <<>> = received'
        BY <1>00, TakenQuiet, Zenon
      <3> QED
        BY <2>1, <2>2, <3>1, Zenon
    <2> QED
      BY <2>1, <2>3, Zenon DEF TakenInv
  <1>3. CASE connectFails \/ readFails \/ listenEnds
    <2>1. UNCHANGED <<received, handled, chan, pump, cancelled>>
      BY <1>3, Zenon DEF connectFails, readFails, listenEnds, dataVars, pumpVars
    <2>2. Pending' = Pending
      BY <2>1, Zenon DEF Pending
    <2>3. ~ cancelled => handled = received
      <3>1. CASE connectFails \/ readFails
        BY <3>1, Zenon DEF connectFails, readFails, TakenInv
      <3>2. CASE listenEnds
        <4> SUFFICES ASSUME ~ cancelled PROVE handled = received
          OBVIOUS
        <4>1. closed /\ chan = <<>>
          BY <3>2, Zenon DEF listenEnds
        <4>2. Pending = <<>>
          BY <4>1, Zenon DEF PumpInv, Pending
        <4>3. received = handled \o chan \o Pending
          BY Zenon DEF TakenInv
        <4> QED
          BY <1>0, <4>1, <4>2, <4>3, ConcatEmpty, Zenon
      <3> QED
        BY <1>3, <3>1, <3>2
    <2>4. cancelled => pc' = "returned"
      BY <1>3, Zenon DEF connectFails, readFails, listenEnds, AfterRun
    <2> QED
      BY <2>1, <2>2, <2>3, <2>4, Zenon DEF TakenInv
  <1>4. CASE again \/ stop
    <2>1. pc = "wait" /\ UNCHANGED <<received, handled, chan, pump, cancelled>>
      BY <1>4, Zenon DEF again, stop, dataVars, pumpVars
    <2>2. Pending' = Pending
      BY <2>1, Zenon DEF Pending
    <2> QED
      BY <2>1, <2>2, Zenon DEF TakenInv
  <1>5. CASE listen
    <2>1. /\ chan # <<>> /\ handled' = Append(handled, Head(chan)) /\ chan' = Tail(chan)
          /\ UNCHANGED <<received, pump, cancelled>> /\ pc = "listen" /\ pc' = pc
      BY <1>5, Zenon DEF listen, Handle, loopVars
    <2>2. Pending' = Pending
      BY <2>1, Zenon DEF Pending
    <2>3. handled' \o chan' = handled \o chan
      BY <1>0, <2>1, ConcatHeadTail, Zenon
    <2> QED
      BY <2>1, <2>2, <2>3, Zenon DEF TakenInv
  <1>6. CASE pumpTakes
    <2>1. /\ pump = "take" /\ pump' = "send" /\ net # <<>> /\ received' = Append(received, Head(net))
          /\ UNCHANGED <<handled, chan, cancelled, pc>>
      BY <1>6, Zenon DEF pumpTakes, loopVars
    <2>2. Head(net) \in Events
      BY <1>0, <2>1
    <2>3. Append(received, Head(net))[Len(Append(received, Head(net)))] = Head(net)
      BY <1>0, <2>2
    <2>4. Pending = <<>> /\ Pending' = <<Head(net)>>
      BY <2>1, <2>3, Zenon DEF Pending
    <2>5. ~ cancelled => received = handled \o chan
      <3>1. handled \o chan \in Seq(Events)
        BY <1>0
      <3> QED
        BY <2>4, <3>1, ConcatEmpty, Zenon DEF TakenInv
    <2>6. ~ cancelled => received' = handled' \o chan' \o Pending'
      <3>1. Append(handled \o chan, Head(net)) = handled \o chan \o <<Head(net)>>
        <4>1. \A x \in Events : Append(handled \o chan, x) = handled \o chan \o <<x>>
          BY <1>0
        <4> QED
          BY <2>2, <4>1, Zenon
      <3>2. handled' \o chan' \o Pending' = handled \o chan \o <<Head(net)>>
        BY <2>1, <2>4
      <3>3. ~ cancelled => received' = Append(handled \o chan, Head(net))
        BY <2>1, <2>5, Zenon
      <3> QED
        BY <3>1, <3>2, <3>3, Zenon
    <2>7. pc \notin {"attempt", "wait", "read"}
      BY <2>1, Zenon DEF LifeInv
    <2> QED
      BY <2>1, <2>6, <2>7, Zenon DEF TakenInv
  <1>7. CASE pumpSends
    <2>1. /\ pump = "send" /\ pump' = "take" /\ chan' = Append(chan, received[Len(received)])
          /\ UNCHANGED <<received, handled, cancelled, pc>>
      BY <1>7, Zenon DEF pumpSends, loopVars, dataVars
    <2>2. received[Len(received)] \in Events
      <3>1. received # <<>>
        BY <2>1, Zenon DEF PumpInv
      <3> QED
        BY <1>0, <3>1
    <2>3. Pending = <<received[Len(received)]>> /\ Pending' = <<>>
      BY <2>1, Zenon DEF Pending
    <2>4. ~ cancelled => received = handled' \o chan'
      <3>1. \A x \in Events : handled \o Append(chan, x) = handled \o chan \o <<x>>
        BY <1>0
      <3>2. ~ cancelled => received = handled \o chan \o <<received[Len(received)]>>
        BY <2>3, Zenon DEF TakenInv
      <3>3. handled' \o chan' = handled \o Append(chan, received[Len(received)])
        BY <2>1
      <3>4. handled \o Append(chan, received[Len(received)])
              = handled \o chan \o <<received[Len(received)]>>
        BY <2>2, <3>1, Zenon
      <3> QED
        BY <3>2, <3>3, <3>4, Zenon
    <2>5. ~ cancelled => received' = handled' \o chan' \o Pending'
      BY <1>0, <2>1, <2>3, <2>4, ConcatEmpty, Zenon
    <2>6. pc \notin {"attempt", "wait", "read"}
      BY <2>1, Zenon DEF LifeInv
    <2> QED
      BY <2>1, <2>5, <2>6, Zenon DEF TakenInv
  <1>8. CASE pumpFails \/ pumpCloses
    <2>1. UNCHANGED <<received, handled, chan, cancelled, pc>>
      BY <1>8, Zenon DEF pumpFails, pumpCloses, loopVars, dataVars
    <2>2. ~ cancelled => Pending' = Pending
      BY <1>8, Zenon DEF pumpFails, pumpCloses, Pending
    <2> QED
      BY <2>1, <2>2, Zenon DEF TakenInv
  <1>9. CASE upstreamSends \/ upstreamDrops \/ cancel
    <2>1. UNCHANGED <<received, handled, chan, pump, pc>> /\ (cancelled => cancelled')
      BY <1>9, EnvironmentFacts, Zenon DEF loopVars, dataVars, pumpVars
    <2>2. Pending' = Pending
      BY <2>1, Zenon DEF Pending
    <2> QED
      BY <2>1, <2>2, Zenon DEF TakenInv
  <1>10. CASE UNCHANGED vars
    <2>1. UNCHANGED <<received, handled, chan, pump, cancelled, pc>>
      BY <1>10, Zenon DEF vars, loopVars, dataVars, pumpVars
    <2>2. Pending' = Pending
      BY <2>1, Zenon DEF Pending
    <2> QED
      BY <2>1, <2>2, Zenon DEF TakenInv
  <1> QED
    BY <1>1, <1>2, <1>3, <1>4, <1>5, <1>6, <1>7, <1>8, <1>9, <1>10 DEF Next, Loop, Pump

\* Nothing is lost or reordered between the goroutines: until a cancellation, what
\* the adapter took is what it handled, what the channel holds and what the pump is
\* about to send, across reconnections, full channels and failing pumps; and an
\* attempt that has ended handled everything it took.
THEOREM NothingIsSwallowed == Spec => []NothingSwallowed
  <1>1. Init => TakenInv
    <2> SUFFICES ASSUME Init PROVE TakenInv
      OBVIOUS
    <2>1. handled = received /\ chan = <<>> /\ Pending = <<>> /\ received \in Seq(Events)
      <3>1. <<>> \in Seq(Events)
        OBVIOUS
      <3> QED
        BY <3>1, Zenon DEF Init, Pending
    <2>2. received \o <<>> \o <<>> = received
      BY <2>1, TakenQuiet, Zenon
    <2> QED
      BY <2>1, <2>2, Zenon DEF TakenInv
  <1>2. TakenInv => NothingSwallowed
    BY Zenon DEF TakenInv, NothingSwallowed, Pending
  <1> QED
    BY <1>1, <1>2, NextTakenInv, AdaptersTypeCorrect, AdaptersLife, PTL DEF Spec

-----------------------------------------------------------------------------
(* Order. *)

\* Sequences in order, extended and shortened at either end.
LEMMA IncreasingFacts ==
  ASSUME NEW s \in Seq(Events), Increasing(s)
  PROVE  /\ \A x \in Events : Before(s, <<x>>) => Increasing(Append(s, x))
         /\ s # <<>> => Increasing(Tail(s)) /\ Before(<<Head(s)>>, Tail(s))
  <1>0. \A i \in 1 .. Len(s) : s[i] \in Nat
    BY BoundsAssumption DEF Events
  <1>1. ASSUME NEW x \in Events, Before(s, <<x>>) PROVE Increasing(Append(s, x))
    <2> DEFINE a == Append(s, x)
    <2>1. /\ Len(a) = Len(s) + 1 /\ Len(s) \in Nat /\ a[Len(s) + 1] = x
          /\ \A i \in 1 .. Len(s) : a[i] = s[i]
      OBVIOUS
    <2>2. \A i \in 1 .. Len(s) : s[i] < x
      BY <1>1 DEF Before
    <2> HIDE DEF a
    <2>3. ASSUME NEW i \in 1 .. Len(a), NEW j \in 1 .. Len(a), i < j PROVE a[i] < a[j]
      <3>1. CASE j = Len(s) + 1
        BY <2>1, <2>2, <2>3, <3>1
      <3>2. CASE j # Len(s) + 1
        BY <2>1, <2>3, <3>2 DEF Increasing
      <3> QED
        BY <3>1, <3>2
    <2> QED
      BY <2>3 DEF Increasing, a
  <1>2. ASSUME s # <<>> PROVE Increasing(Tail(s)) /\ Before(<<Head(s)>>, Tail(s))
    BY <1>0, <1>2 DEF Increasing, Before
  <1> QED
    BY <1>1, <1>2

LEMMA BeforeFacts ==
  ASSUME NEW s \in Seq(Events), NEW t \in Seq(Events), Before(s, t)
  PROVE  /\ \A x \in Events : Before(<<x>>, t) => Before(Append(s, x), t)
         /\ \A x \in Events : Before(s, <<x>>) => Before(s, Append(t, x))
         /\ s # <<>> => Before(Tail(s), t) /\ Before(<<Head(s)>>, t)
         /\ t # <<>> => Before(s, Tail(t)) /\ Before(s, <<Head(t)>>)
  <1>1. ASSUME NEW x \in Events, Before(<<x>>, t) PROVE Before(Append(s, x), t)
    BY <1>1 DEF Before
  <1>2. ASSUME NEW x \in Events, Before(s, <<x>>) PROVE Before(s, Append(t, x))
    BY <1>2 DEF Before
  <1>3. ASSUME s # <<>> PROVE Before(Tail(s), t) /\ Before(<<Head(s)>>, t)
    BY <1>3 DEF Before
  <1>4. ASSUME t # <<>> PROVE Before(s, Tail(t)) /\ Before(s, <<Head(t)>>)
    BY <1>4 DEF Before
  <1> QED
    BY <1>1, <1>2, <1>3, <1>4

LEMMA UpToFacts ==
  ASSUME NEW s \in Seq(Events), NEW v \in Nat, UpTo(s, v)
  PROVE  /\ \A x \in Events : UpTo(<<x>>, v) => UpTo(Append(s, x), v)
         /\ s # <<>> => UpTo(Tail(s), v) /\ UpTo(<<Head(s)>>, v)
         /\ Before(s, <<v + 1>>) /\ UpTo(s, v + 1)
  <1>0. \A i \in 1 .. Len(s) : s[i] \in Nat
    BY BoundsAssumption DEF Events
  <1>1. ASSUME NEW x \in Events, UpTo(<<x>>, v) PROVE UpTo(Append(s, x), v)
    BY <1>1 DEF UpTo
  <1>2. ASSUME s # <<>> PROVE UpTo(Tail(s), v) /\ UpTo(<<Head(s)>>, v)
    BY <1>2 DEF UpTo
  <1>3. Before(s, <<v + 1>>) /\ UpTo(s, v + 1)
    BY <1>0 DEF Before, UpTo
  <1> QED
    BY <1>1, <1>2, <1>3

\* Nothing is in order with everything.
LEMMA EmptyFacts ==
  /\ Increasing(<<>>)
  /\ \A t : Before(<<>>, t) /\ Before(t, <<>>)
  /\ \A v : UpTo(<<>>, v)
  /\ \A v \in Nat : UpTo(<<v>>, v)
  BY DEF Increasing, Before, UpTo

\* What the steps do to the order of events.
LEMMA OrderedFacts ==
  ASSUME NEW e \in Seq(Events), NEW c \in Seq(Events), NEW p \in Seq(Events),
         NEW n \in Seq(Events), NEW v \in Nat, Ordered(e, c, p, n, v)
  PROVE  \* the connection is lost, the pump gives up
         /\ Ordered(e, c, p, <<>>, v) /\ Ordered(e, c, <<>>, n, v)
         \* the upstream sends
         /\ v + 1 \in Events => Ordered(e, c, p, Append(n, v + 1), v + 1)
         \* a poll
         /\ v + 1 \in Events => /\ Ordered(Append(e, v + 1), <<>>, <<>>, <<>>, v + 1)
                                /\ Ordered(e, <<>>, <<>>, <<>>, v + 1)
         \* the pump takes and sends
         /\ n # <<>> => Ordered(e, c, <<Head(n)>>, Tail(n), v)
         /\ \A x \in Events : p = <<x>> => Ordered(e, Append(c, x), <<>>, n, v)
         \* PgListen handles, and emits or not
         /\ c # <<>> => Ordered(Append(e, Head(c)), Tail(c), p, n, v) /\ Ordered(e, Tail(c), p, n, v)
         \* a message is read, and emitted or not
         /\ n # <<>> => /\ Ordered(Append(e, Head(n)), <<>>, <<>>, Tail(n), v)
                        /\ Ordered(e, <<>>, <<>>, Tail(n), v)
  <1>0. /\ Increasing(e) /\ Increasing(c) /\ Increasing(n)
        /\ Before(e, c) /\ Before(e, p) /\ Before(e, n)
        /\ Before(c, p) /\ Before(c, n) /\ Before(p, n)
        /\ UpTo(e, v) /\ UpTo(c, v) /\ UpTo(p, v) /\ UpTo(n, v)
    BY Zenon DEF Ordered
  <1>1. Ordered(e, c, p, <<>>, v) /\ Ordered(e, c, <<>>, n, v)
    BY <1>0, EmptyFacts, Zenon DEF Ordered
  <1>2. ASSUME v + 1 \in Events PROVE Ordered(e, c, p, Append(n, v + 1), v + 1)
    <2>1. /\ Before(e, <<v + 1>>) /\ Before(c, <<v + 1>>) /\ Before(p, <<v + 1>>)
          /\ Before(n, <<v + 1>>)
          /\ UpTo(e, v + 1) /\ UpTo(c, v + 1) /\ UpTo(p, v + 1) /\ UpTo(n, v + 1)
      BY <1>0, UpToFacts, Zenon
    <2>2. UpTo(<<v + 1>>, v + 1) /\ v + 1 \in Nat
      BY DEF UpTo
    <2>3. UpTo(Append(n, v + 1), v + 1)
      BY <1>2, <2>1, <2>2, UpToFacts, Zenon
    <2>4. Increasing(Append(n, v + 1))
      BY <1>0, <1>2, <2>1, IncreasingFacts, Zenon
    <2>5. /\ Before(e, Append(n, v + 1)) /\ Before(c, Append(n, v + 1))
          /\ Before(p, Append(n, v + 1))
      BY <1>0, <1>2, <2>1, BeforeFacts, Zenon
    <2> QED
      BY <1>0, <2>1, <2>3, <2>4, <2>5, Zenon DEF Ordered
  <1>3. ASSUME v + 1 \in Events
        PROVE  Ordered(Append(e, v + 1), <<>>, <<>>, <<>>, v + 1) /\ Ordered(e, <<>>, <<>>, <<>>, v + 1)
    <2>1. Before(e, <<v + 1>>) /\ UpTo(e, v + 1)
      BY <1>0, UpToFacts, Zenon
    <2>2. UpTo(<<v + 1>>, v + 1) /\ v + 1 \in Nat
      BY DEF UpTo
    <2>3. UpTo(Append(e, v + 1), v + 1)
      BY <1>3, <2>1, <2>2, UpToFacts, Zenon
    <2>4. Increasing(Append(e, v + 1))
      BY <1>0, <1>3, <2>1, IncreasingFacts, Zenon
    <2> QED
      BY <1>0, <2>1, <2>3, <2>4, EmptyFacts, Zenon DEF Ordered
  <1>4. ASSUME n # <<>>
        PROVE  /\ Ordered(e, c, <<Head(n)>>, Tail(n), v)
               /\ Ordered(Append(e, Head(n)), <<>>, <<>>, Tail(n), v)
               /\ Ordered(e, <<>>, <<>>, Tail(n), v)
    <2>1. Head(n) \in Events
      BY <1>4
    <2>2. Increasing(Tail(n)) /\ Before(<<Head(n)>>, Tail(n))
      BY <1>0, <1>4, IncreasingFacts, Zenon
    <2>3. /\ Before(e, Tail(n)) /\ Before(e, <<Head(n)>>)
          /\ Before(c, Tail(n)) /\ Before(c, <<Head(n)>>)
      BY <1>0, <1>4, BeforeFacts, Zenon
    <2>4. UpTo(Tail(n), v) /\ UpTo(<<Head(n)>>, v)
      BY <1>0, <1>4, UpToFacts, Zenon
    <2>5. Ordered(e, c, <<Head(n)>>, Tail(n), v)
      BY <1>0, <2>2, <2>3, <2>4, Zenon DEF Ordered
    <2>6. Ordered(e, <<>>, <<>>, Tail(n), v)
      BY <1>0, <2>2, <2>3, <2>4, EmptyFacts, Zenon DEF Ordered
    <2>7. UpTo(Append(e, Head(n)), v)
      BY <1>0, <2>1, <2>4, UpToFacts, Zenon
    <2>8. Increasing(Append(e, Head(n)))
      BY <1>0, <2>1, <2>3, IncreasingFacts, Zenon
    <2>9. Before(Append(e, Head(n)), Tail(n))
      <3>1. Tail(n) \in Seq(Events)
        BY <1>4
      <3> QED
        BY <2>1, <2>2, <2>3, <3>1, BeforeFacts, Zenon
    <2>10. Ordered(Append(e, Head(n)), <<>>, <<>>, Tail(n), v)
      BY <2>2, <2>4, <2>7, <2>8, <2>9, EmptyFacts, Zenon DEF Ordered
    <2> QED
      BY <2>5, <2>6, <2>10
  <1>5. ASSUME NEW x \in Events, p = <<x>> PROVE Ordered(e, Append(c, x), <<>>, n, v)
    <2>1. Before(e, <<x>>) /\ Before(c, <<x>>) /\ Before(<<x>>, n) /\ UpTo(<<x>>, v)
      BY <1>0, <1>5, Zenon
    <2>2. Increasing(Append(c, x))
      BY <1>0, <2>1, IncreasingFacts, Zenon
    <2>3. Before(e, Append(c, x)) /\ Before(Append(c, x), n)
      BY <1>0, <2>1, BeforeFacts, Zenon
    <2>4. UpTo(Append(c, x), v)
      BY <1>0, <2>1, UpToFacts, Zenon
    <2> QED
      BY <1>0, <2>2, <2>3, <2>4, EmptyFacts, Zenon DEF Ordered
  <1>6. ASSUME c # <<>>
        PROVE  Ordered(Append(e, Head(c)), Tail(c), p, n, v) /\ Ordered(e, Tail(c), p, n, v)
    <2>1. Head(c) \in Events /\ Tail(c) \in Seq(Events)
      BY <1>6
    <2>2. Increasing(Tail(c)) /\ Before(<<Head(c)>>, Tail(c))
      BY <1>0, <1>6, IncreasingFacts, Zenon
    <2>3. /\ Before(e, Tail(c)) /\ Before(e, <<Head(c)>>)
          /\ Before(Tail(c), p) /\ Before(<<Head(c)>>, p)
          /\ Before(Tail(c), n) /\ Before(<<Head(c)>>, n)
      BY <1>0, <1>6, BeforeFacts, Zenon
    <2>4. UpTo(Tail(c), v) /\ UpTo(<<Head(c)>>, v)
      BY <1>0, <1>6, UpToFacts, Zenon
    <2>5. Ordered(e, Tail(c), p, n, v)
      BY <1>0, <2>2, <2>3, <2>4, Zenon DEF Ordered
    <2>6. Increasing(Append(e, Head(c)))
      BY <1>0, <2>1, <2>3, IncreasingFacts, Zenon
    <2>7. /\ Before(Append(e, Head(c)), Tail(c))
          /\ Before(Append(e, Head(c)), p) /\ Before(Append(e, Head(c)), n)
      BY <1>0, <2>1, <2>2, <2>3, BeforeFacts, Zenon
    <2>8. UpTo(Append(e, Head(c)), v)
      BY <1>0, <2>1, <2>4, UpToFacts, Zenon
    <2> QED
      BY <1>0, <2>2, <2>3, <2>4, <2>5, <2>6, <2>7, <2>8, Zenon DEF Ordered
  <1> QED
    BY <1>1, <1>2, <1>3, <1>4, <1>5, <1>6, Zenon

\* A step that leaves the events alone keeps their order.
LEMMA OrderUnchanged ==
  OrderInv /\ UNCHANGED <<emitted, chan, net, event, pump, received>> => OrderInv'
  BY Zenon DEF OrderInv, Pending

\* What Handle emits.
LEMMA HandleEmits ==
  ASSUME NEW n, NEW d, Handle(n, d)
  PROVE  emitted' = Append(emitted, n) \/ emitted' = emitted
  BY Zenon DEF Handle

\* Every step keeps the order of events.
LEMMA NextOrderInv ==
  TypeOK /\ PumpInv /\ LifeInv /\ OrderInv /\ [Next]_vars => OrderInv'
  <1> SUFFICES ASSUME TypeOK, PumpInv, LifeInv, OrderInv, [Next]_vars PROVE OrderInv'
    OBVIOUS
  <1>0. /\ net \in Seq(Events) /\ received \in Seq(Events) /\ emitted \in Seq(Events)
        /\ chan \in Seq(Events) /\ event \in 0 .. MaxEvents
    BY SeqTypes, Zenon
  <1>a. event \in Nat
    BY <1>0, BoundsAssumption
  <1>b. pump = "send" => received[Len(received)] \in Events
    <2>1. \A s \in Seq(Events) : s # <<>> => s[Len(s)] \in Events
      OBVIOUS
    <2> QED
      BY <1>0, <2>1, Zenon DEF PumpInv
  <1>c. Pending \in Seq(Events)
    <2>1. <<>> \in Seq(Events) /\ \A x \in Events : <<x>> \in Seq(Events)
      OBVIOUS
    <2> QED
      BY <1>b, <2>1, Zenon DEF Pending
  <1>d. Ordered(emitted, chan, Pending, net, event)
    BY Zenon DEF OrderInv
  <1>1. CASE pollOnce
    <2>1. /\ kind = "poll" /\ pump' = pump /\ chan' = chan /\ net' = net
          /\ pc = "attempt"
      BY <1>1, Zenon DEF pollOnce, pumpVars
    <2>2. net = <<>> /\ pump = "off" /\ chan = <<>> /\ Pending = <<>> /\ Pending' = <<>>
      BY <2>1, Zenon DEF LifeInv, Pending
    <2>3. CASE UNCHANGED <<event, dataVars>>
      BY <2>1, <2>3, OrderUnchanged, Zenon DEF dataVars
    <2>4. CASE event < MaxEvents /\ event' = event + 1 /\ \E d \in Decode : Handle(event', d)
      <3>1. event + 1 \in Events
        BY <1>0, <2>4, BoundsAssumption DEF Events
      <3>2. /\ Ordered(Append(emitted, event + 1), <<>>, <<>>, <<>>, event + 1)
            /\ Ordered(emitted, <<>>, <<>>, <<>>, event + 1)
        BY <1>0, <1>a, <1>c, <1>d, <3>1, OrderedFacts, Zenon
      <3>3. emitted' = Append(emitted, event + 1) \/ emitted' = emitted
        BY <2>4, HandleEmits, Zenon
      <3>4. Ordered(emitted', <<>>, <<>>, <<>>, event')
        BY <2>4, <3>2, <3>3, Zenon
      <3>5. chan' = <<>> /\ net' = <<>>
        BY <2>1, <2>2, Zenon
      <3> QED
        BY <2>2, <3>4, <3>5, Zenon DEF OrderInv
    <2> QED
      BY <1>1, <2>3, <2>4, Zenon DEF pollOnce
  <1>2. CASE connectFails \/ readFails \/ listenEnds
    <2>1. UNCHANGED <<emitted, chan, received, pump>>
      BY <1>2, Zenon DEF connectFails, readFails, listenEnds, dataVars, pumpVars
    <2>2. event' = event /\ net' = <<>>
      BY <1>2, Zenon DEF connectFails, readFails, listenEnds, AfterRun
    <2>3. Pending' = Pending
      BY <2>1, Zenon DEF Pending
    <2>4. Ordered(emitted, chan, Pending, <<>>, event)
      BY <1>0, <1>a, <1>c, <1>d, OrderedFacts, Zenon
    <2> QED
      BY <2>1, <2>2, <2>3, <2>4, Zenon DEF OrderInv
  <1>3. CASE connect
    <2>1. /\ UNCHANGED <<emitted, net, event>> /\ pc = "attempt" /\ chan' = <<>> /\ pump' # "send"
      BY <1>3, Zenon DEF connect, dataVars
    <2>2. chan = <<>> /\ Pending = <<>> /\ Pending' = <<>>
      BY <2>1, Zenon DEF LifeInv, Pending
    <2>3. Ordered(emitted, <<>>, <<>>, net, event)
      BY <1>d, <2>2, Zenon
    <2> QED
      BY <2>1, <2>2, <2>3, Zenon DEF OrderInv
  <1>4. CASE again \/ stop
    <2>1. UNCHANGED <<emitted, chan, net, event, pump, received>>
      BY <1>4, Zenon DEF again, stop, netVars, dataVars, pumpVars
    <2> QED
      BY <2>1, OrderUnchanged
  <1>5. CASE readMessage
    <2>1. /\ pc = "read" /\ net # <<>> /\ net' = Tail(net) /\ UNCHANGED <<event, pump, chan>>
          /\ \E d \in Decode : Handle(Head(net), d)
      BY <1>5, Zenon DEF readMessage, pumpVars
    <2>2. pump = "off" /\ chan' = <<>> /\ Pending' = <<>>
      BY <2>1, Zenon DEF LifeInv, Pending
    <2>3. /\ Ordered(Append(emitted, Head(net)), <<>>, <<>>, Tail(net), event)
          /\ Ordered(emitted, <<>>, <<>>, Tail(net), event)
      BY <1>0, <1>a, <1>c, <1>d, <2>1, OrderedFacts, Zenon
    <2>4. emitted' = Append(emitted, Head(net)) \/ emitted' = emitted
      BY <2>1, HandleEmits, Zenon
    <2>5. Ordered(emitted', <<>>, <<>>, Tail(net), event)
      BY <2>3, <2>4, Zenon
    <2> QED
      BY <2>1, <2>2, <2>5, Zenon DEF OrderInv
  <1>6. CASE listen
    <2>1. /\ chan # <<>> /\ chan' = Tail(chan) /\ UNCHANGED <<event, net, pump, received>>
          /\ \E d \in Decode : Handle(Head(chan), d)
      BY <1>6, Zenon DEF listen, netVars
    <2>2. Pending' = Pending
      BY <2>1, Zenon DEF Pending
    <2>3. /\ Ordered(Append(emitted, Head(chan)), Tail(chan), Pending, net, event)
          /\ Ordered(emitted, Tail(chan), Pending, net, event)
      BY <1>0, <1>a, <1>c, <1>d, <2>1, OrderedFacts, Zenon
    <2>4. emitted' = Append(emitted, Head(chan)) \/ emitted' = emitted
      BY <2>1, HandleEmits, Zenon
    <2>5. Ordered(emitted', Tail(chan), Pending, net, event)
      BY <2>3, <2>4, Zenon
    <2> QED
      BY <2>1, <2>2, <2>5, Zenon DEF OrderInv
  <1>7. CASE pumpTakes
    <2>1. /\ pump' = "send" /\ net # <<>> /\ received' = Append(received, Head(net))
          /\ net' = Tail(net) /\ UNCHANGED <<emitted, chan, event>>
      BY <1>7, Zenon DEF pumpTakes
    <2>2. Pending' = <<Head(net)>>
      <3>1. \A x \in Events : Append(received, x)[Len(Append(received, x))] = x
        BY <1>0
      <3>2. Head(net) \in Events
        BY <1>0, <2>1
      <3> QED
        BY <2>1, <3>1, <3>2, Zenon DEF Pending
    <2>3. Ordered(emitted, chan, <<Head(net)>>, Tail(net), event)
      BY <1>0, <1>a, <1>c, <1>d, <2>1, OrderedFacts, Zenon
    <2> QED
      BY <2>1, <2>2, <2>3, Zenon DEF OrderInv
  <1>8. CASE pumpSends
    <2>1. /\ pump = "send" /\ pump' = "take" /\ chan' = Append(chan, received[Len(received)])
          /\ UNCHANGED <<emitted, net, event>>
      BY <1>8, Zenon DEF pumpSends, netVars, dataVars
    <2>2. Pending = <<received[Len(received)]>> /\ Pending' = <<>>
      BY <2>1, Zenon DEF Pending
    <2>3. Ordered(emitted, Append(chan, received[Len(received)]), <<>>, net, event)
      BY <1>0, <1>a, <1>b, <1>c, <1>d, <2>1, <2>2, OrderedFacts, Zenon
    <2> QED
      BY <2>1, <2>2, <2>3, Zenon DEF OrderInv
  <1>9. CASE pumpFails \/ pumpCloses
    <2>1. pump' # "send" /\ UNCHANGED <<emitted, chan, net, event>>
      BY <1>9, Zenon DEF pumpFails, pumpCloses, netVars, dataVars
    <2>2. Pending' = <<>>
      BY <2>1, Zenon DEF Pending
    <2>3. Ordered(emitted, chan, <<>>, net, event)
      BY <1>0, <1>a, <1>c, <1>d, OrderedFacts, Zenon
    <2> QED
      BY <2>1, <2>2, <2>3, Zenon DEF OrderInv
  <1>10. CASE upstreamSends
    <2>1. /\ event < MaxEvents /\ event' = event + 1 /\ net' = Append(net, event + 1)
          /\ UNCHANGED <<emitted, chan, pump, received>>
      BY <1>10, Zenon DEF upstreamSends, dataVars, pumpVars
    <2>2. Pending' = Pending
      BY <2>1, Zenon DEF Pending
    <2>3. event + 1 \in Events
      BY <1>0, <2>1, BoundsAssumption DEF Events
    <2>4. Ordered(emitted, chan, Pending, Append(net, event + 1), event + 1)
      BY <1>0, <1>a, <1>c, <1>d, <2>3, OrderedFacts, Zenon
    <2> QED
      BY <2>1, <2>2, <2>4, Zenon DEF OrderInv
  <1>11. CASE upstreamDrops
    <2>1. net' \in {<<>>, net} /\ UNCHANGED <<emitted, chan, pump, received, event>>
      BY <1>11, Zenon DEF upstreamDrops, dataVars, pumpVars
    <2>2. Pending' = Pending
      BY <2>1, Zenon DEF Pending
    <2>3. Ordered(emitted, chan, Pending, <<>>, event)
      BY <1>0, <1>a, <1>c, <1>d, OrderedFacts, Zenon
    <2> QED
      BY <1>d, <2>1, <2>2, <2>3, Zenon DEF OrderInv
  <1>12. CASE cancel \/ UNCHANGED vars
    <2>1. UNCHANGED <<emitted, chan, net, event, pump, received>>
      BY <1>12, Zenon DEF cancel, vars, netVars, dataVars, pumpVars
    <2> QED
      BY <2>1, OrderUnchanged
  <1> QED
    BY <1>1, <1>2, <1>3, <1>4, <1>5, <1>6, <1>7, <1>8, <1>9, <1>10, <1>11, <1>12 DEF Next, Loop, Pump

\* Events reach the scene in the order of the upstream and none twice, across
\* lost connections, dropped payloads and both goroutines.
THEOREM EventsInOrder == Spec => []EmittedInOrder
  <1>1. Init => OrderInv
    <2> SUFFICES ASSUME Init PROVE OrderInv
      OBVIOUS
    <2>1. emitted = <<>> /\ chan = <<>> /\ net = <<>> /\ Pending = <<>>
      BY Zenon DEF Init, Pending
    <2> QED
      BY <2>1, EmptyFacts, Zenon DEF OrderInv, Ordered
  <1>2. OrderInv => EmittedInOrder
    BY Zenon DEF OrderInv, Ordered, Increasing, EmittedInOrder
  <1> QED
    BY <1>1, <1>2, NextOrderInv, AdaptersTypeCorrect, AdaptersLife, PTL DEF Spec

-----------------------------------------------------------------------------
(* The delays. *)

\* Powers of two double: half of the subsets of 1 .. n + 1 lack n + 1, and adding
\* it to each of them gives the other half.
LEMMA PowStep ==
  ASSUME NEW n \in Nat
  PROVE  2 ^ n \in Nat \ {0} /\ 2 ^ (n + 1) = 2 * 2 ^ n
  <1> DEFINE S == 1 .. n
             T == 1 .. n + 1
             New == {A \cup {n + 1} : A \in SUBSET S}
             f == [A \in SUBSET S |-> A \cup {n + 1}]
  <1>1. IsFiniteSet(S) /\ Cardinality(S) = n /\ IsFiniteSet(T) /\ Cardinality(T) = n + 1
    <2>1. n + 1 \in Int /\ n \in Int /\ 1 \in Int
      OBVIOUS
    <2>2. /\ IsFiniteSet(1 .. n) /\ Cardinality(1 .. n) = IF 1 > n THEN 0 ELSE n - 1 + 1
          /\ IsFiniteSet(1 .. n + 1) /\ Cardinality(1 .. n + 1) = IF 1 > n + 1 THEN 0 ELSE n + 1 - 1 + 1
      BY <2>1, FS_Interval
    <2> QED
      BY <2>2
  <1>2. IsFiniteSet(SUBSET S) /\ Cardinality(SUBSET S) = 2 ^ n
        /\ Cardinality(SUBSET T) = 2 ^ (n + 1)
    BY <1>1, FS_SUBSET, Zenon
  <1>3. n + 1 \notin S /\ T = S \cup {n + 1}
    OBVIOUS
  <1>4. SUBSET T = (SUBSET S) \cup New
    <2>1. ASSUME NEW A \in SUBSET T PROVE A \in (SUBSET S) \cup New
      <3>1. CASE n + 1 \in A
        <4>1. A = (A \ {n + 1}) \cup {n + 1} /\ A \ {n + 1} \in SUBSET S
          BY <1>3, <3>1, Zenon
        <4> QED
          BY <4>1, Zenon
      <3>2. CASE n + 1 \notin A
        BY <1>3, <3>2, Zenon
      <3> QED
        BY <3>1, <3>2
    <2>2. ASSUME NEW A \in (SUBSET S) \cup New PROVE A \in SUBSET T
      BY <1>3, Zenon
    <2> QED
      BY <2>1, <2>2, Zenon
  <1>5. (SUBSET S) \cap New = {}
    BY <1>3, Zenon
  <1>6. f \in Bijection(SUBSET S, New)
    <2>1. \A A \in SUBSET S : f[A] = A \cup {n + 1} /\ f[A] \in New
      BY Zenon
    <2>2. f \in [SUBSET S -> New]
      BY <2>1, Zenon
    <2>3. \A A, B \in SUBSET S : f[A] = f[B] => A = B
      <3> SUFFICES ASSUME NEW A \in SUBSET S, NEW B \in SUBSET S, A \cup {n + 1} = B \cup {n + 1}
                   PROVE  A = B
        BY <2>1, Zenon
      <3> QED
        BY <1>3, Zenon
    <2>4. \A B \in New : \E A \in SUBSET S : f[A] = B
      BY <2>1, Zenon
    <2> QED
      BY <2>2, <2>3, <2>4, Zenon DEF Bijection, Injection, Surjection, IsInjective
  <1>7. IsFiniteSet(New) /\ Cardinality(New) = 2 ^ n
    <2>1. ExistsBijection(SUBSET S, New)
      BY <1>6, Zenon DEF ExistsBijection
    <2> QED
      BY <1>2, <2>1, FS_Bijection, Zenon
  <1> HIDE DEF S, T, New
  <1>8. Cardinality((SUBSET S) \cup New) = 2 ^ n + 2 ^ n - 0
    <2>1. Cardinality((SUBSET S) \cup New)
            = Cardinality(SUBSET S) + Cardinality(New) - Cardinality((SUBSET S) \cap New)
      BY <1>2, <1>7, FS_Union, Zenon
    <2> QED
      BY <1>2, <1>5, <1>7, <2>1, FS_EmptySet, Zenon
  <1>9. 2 ^ n \in Nat /\ 2 ^ n # 0
    <2>1. SUBSET S # {}
      BY Zenon
    <2> QED
      BY <1>2, <2>1, FS_CardinalityType, FS_EmptySet, Zenon
  <1>10. 2 ^ (n + 1) = 2 ^ n + 2 ^ n - 0
    BY <1>2, <1>4, <1>8, Zenon
  <1> QED
    BY <1>9, <1>10

\* The first of them.
LEMMA PowZero == 2 ^ 0 = 1
  BY SMT

\* The delay after k + 1 failures, without the cap.
Doubled(k) == Floor * 2 ^ k

\* It starts at the floor and doubles.
LEMMA DoubledFacts ==
  /\ Doubled(0) = Floor
  /\ \A k \in Nat : /\ Doubled(k) \in Nat /\ Doubled(k) >= Floor
                     /\ Doubled(k + 1) = 2 * Doubled(k)
  <1>1. Doubled(0) = Floor
    BY PowZero, DelaysAssumption DEF Doubled
  <1>2. ASSUME NEW k \in Nat
        PROVE  Doubled(k) \in Nat /\ Doubled(k) >= Floor /\ Doubled(k + 1) = 2 * Doubled(k)
    <2>1. PICK a \in Nat \ {0} : a = 2 ^ k /\ 2 ^ (k + 1) = 2 * a
      BY PowStep, Zenon
    <2>2. PICK f \in Nat \ {0} : f = Floor
      BY DelaysAssumption
    <2>3. f * a \in Nat /\ f * a >= f /\ f * (2 * a) = 2 * (f * a)
      OBVIOUS
    <2>4. Doubled(k) = f * a /\ Doubled(k + 1) = f * (2 * a)
      BY <2>1, <2>2, Zenon DEF Doubled
    <2> QED
      BY <2>2, <2>3, <2>4
  <1> QED
    BY <1>1, <1>2

\* The delay after k failures in a row, of a backoff that starts at 0.
BackoffAfter(k) ==
  IF k = 0 THEN 0
  ELSE IF max >= Floor THEN IF Doubled(k - 1) < max THEN Doubled(k - 1) ELSE max
  ELSE IF k % 2 = 1 THEN Floor ELSE max

\* ... after one failure more.
LEMMA BackoffAfterSucc ==
  ASSUME NEW k \in Nat
  PROVE  BackoffAfter(k + 1) =
           IF max >= Floor THEN IF Doubled(k) < max THEN Doubled(k) ELSE max
           ELSE IF (k + 1) % 2 = 1 THEN Floor ELSE max
  <1>1. PICK j \in Nat : j = k + 1 /\ j # 0 /\ j - 1 = k
    OBVIOUS
  <1>2. BackoffAfter(j) = IF max >= Floor THEN IF Doubled(k) < max THEN Doubled(k) ELSE max
                          ELSE IF j % 2 = 1 THEN Floor ELSE max
    BY <1>1, Zenon DEF BackoffAfter
  <1> QED
    BY <1>1, <1>2, Zenon

\* nextBackoff computes the next of these delays.
LEMMA NextBackoffAfter ==
  ASSUME max \in Nat \ {0}, NEW k \in Nat, backoff = BackoffAfter(k)
  PROVE  nextBackoff(backoff) = BackoffAfter(k + 1)
  <1>0. Floor \in Nat \ {0}
    BY DelaysAssumption
  <1>1. CASE k = 0
    <2>1. backoff = 0 /\ nextBackoff(backoff) = Floor
      BY <1>0, <1>1 DEF BackoffAfter, nextBackoff
    <2>2. Doubled(k) = Floor /\ (k + 1) % 2 = 1
      BY <1>1, DoubledFacts
    <2>3. BackoffAfter(k + 1) = IF max >= Floor THEN IF Floor < max THEN Floor ELSE max ELSE Floor
      BY <2>2, BackoffAfterSucc, Zenon
    <2> QED
      BY <1>0, <2>1, <2>3
  <1>2. CASE k # 0 /\ max >= Floor
    <2>1. PICK d \in Nat : d = Doubled(k - 1) /\ d >= Floor /\ Doubled(k) = 2 * d
      <3>1. PICK j \in Nat : j = k - 1 /\ k = j + 1
        BY <1>2
      <3> QED
        BY <3>1, DoubledFacts, Zenon
    <2>2. backoff = IF d < max THEN d ELSE max
      BY <1>2, <2>1 DEF BackoffAfter
    <2>3. BackoffAfter(k + 1) = IF 2 * d < max THEN 2 * d ELSE max
      BY <1>2, <2>1, BackoffAfterSucc, Zenon
    <2>4. nextBackoff(backoff) = IF 2 * d < max THEN 2 * d ELSE max
      BY <1>0, <1>2, <2>1, <2>2 DEF nextBackoff
    <2> QED
      BY <2>3, <2>4
  <1>3. CASE k # 0 /\ ~ (max >= Floor)
    <2>1. backoff = IF k % 2 = 1 THEN Floor ELSE max
      BY <1>3 DEF BackoffAfter
    <2>2. BackoffAfter(k + 1) = IF (k + 1) % 2 = 1 THEN Floor ELSE max
      BY <1>3, BackoffAfterSucc, Zenon
    <2>3. k % 2 \in {0, 1} /\ ((k + 1) % 2 = 1 <=> k % 2 = 0)
      OBVIOUS
    <2>4. nextBackoff(backoff) = IF k % 2 = 1 THEN max ELSE Floor
      BY <1>0, <1>3, <2>1 DEF nextBackoff
    <2> QED
      BY <2>2, <2>3, <2>4
  <1> QED
    BY <1>1, <1>2, <1>3

\* The delays follow the failures.
DelayInv ==
  /\ backoff = BackoffAfter(failures)
  /\ pc = "wait" => delay = IF kind = "poll" /\ backoff < Interval THEN Interval ELSE backoff

\* Every step keeps the delays exact.
LEMMA NextDelayInv == TypeOK /\ LifeInv /\ DelayInv /\ [Next]_vars => DelayInv'
  <1> SUFFICES ASSUME TypeOK, LifeInv, DelayInv, [Next]_vars PROVE DelayInv'
    OBVIOUS
  <1>0. /\ max \in Nat \ {0} /\ failures \in Nat /\ backoff \in Nat
        /\ backoff = BackoffAfter(failures)
        /\ Interval \in Nat
    BY SeqTypes, DelaysAssumption DEF DelayInv
  <1>1. nextBackoff(backoff) = BackoffAfter(failures + 1) /\ nextBackoff(backoff) \in Nat
    BY <1>0, NextBackoffAfter, BackoffType, Zenon
  <1>2. CASE max' = max /\ kind' = kind /\ UNCHANGED <<backoff, failures>>
             /\ (pc' = "wait" => pc = "wait" /\ delay' = delay)
    BY <1>2, Zenon DEF DelayInv, BackoffAfter
  <1>3. CASE pollOnce
    <2>1. /\ max' = max /\ kind' = kind /\ kind = "poll"
          /\ delay' = IF backoff' > Interval THEN backoff' ELSE Interval
          /\ \/ backoff' = 0 /\ failures' = 0
             \/ backoff' = nextBackoff(backoff) /\ failures' = failures + 1
      BY <1>3, Zenon DEF pollOnce
    <2>2. backoff' \in Nat
      BY <1>1, <2>1
    <2>3. backoff' = BackoffAfter(failures')
      BY <1>1, <2>1, Zenon DEF BackoffAfter
    <2>4. BackoffAfter(failures)' = BackoffAfter(failures')
      BY <2>1, Zenon DEF BackoffAfter
    <2>5. delay' = IF backoff' < Interval THEN Interval ELSE backoff'
      BY <1>0, <2>1, <2>2
    <2> QED
      BY <2>1, <2>3, <2>4, <2>5, Zenon DEF DelayInv
  <1>4. CASE connectFails \/ readFails \/ listenEnds
    <2>1. PICK err : AfterRun(err)
      BY <1>4, Zenon DEF connectFails, readFails, listenEnds
    <2>2. kind # "poll"
      BY <1>4, Zenon DEF connectFails, readFails, listenEnds, LifeInv
    <2>3. CASE cancelled
      BY <1>2, <2>1, <2>3, AfterRunFacts, Zenon
    <2>4. CASE ~ cancelled
      <3>1. /\ max' = max /\ kind' = kind /\ failures' = failures + 1
            /\ backoff' = nextBackoff(backoff) /\ delay' = backoff'
        BY <2>1, <2>4, AfterRunFacts, Zenon
      <3>2. BackoffAfter(failures)' = BackoffAfter(failures')
        BY <3>1, Zenon DEF BackoffAfter
      <3>3. backoff' = BackoffAfter(failures)'
        BY <1>1, <3>1, <3>2, Zenon
      <3> QED
        BY <2>2, <3>1, <3>3, Zenon DEF DelayInv
    <2> QED
      BY <2>3, <2>4
  <1>5. CASE connect
    BY <1>2, <1>5, Zenon DEF connect
  <1>6. CASE again
    BY <1>2, <1>6, Zenon DEF again
  <1>7. CASE stop
    BY <1>2, <1>7, Zenon DEF stop
  <1>8. CASE UNCHANGED loopVars
    BY <1>2, <1>8, Zenon DEF loopVars
  <1>9. readMessage \/ listen \/ Pump \/ upstreamSends \/ upstreamDrops \/ cancel \/ UNCHANGED vars
          => UNCHANGED loopVars
    BY Zenon DEF readMessage, listen, Pump, pumpTakes, pumpSends, pumpFails, pumpCloses,
                 upstreamSends, upstreamDrops, cancel, vars
  <1> QED
    BY <1>3, <1>4, <1>5, <1>6, <1>7, <1>8, <1>9 DEF Next, Loop

\* The delays are exactly the powers of two from the floor up to MaxBackoff,
\* counted from the last successful poll, or from the start for subscriptions;
\* with a MaxBackoff below the floor they alternate (nextBackoff).
THEOREM DelaysAreExact == Spec => []DelaysExact
  <1>1. Init => DelayInv
    BY Zenon DEF Init, DelayInv, BackoffAfter
  <1>2. TypeOK /\ DelayInv => DelaysExact
    <2> SUFFICES ASSUME TypeOK, DelayInv PROVE DelaysExact
      OBVIOUS
    <2>1. max \in Nat /\ Floor \in Nat
      BY SeqTypes, DelaysAssumption
    <2>2. max < Floor <=> ~ (max >= Floor)
      BY <2>1
    <2> QED
      BY <2>2, Zenon DEF DelayInv, DelaysExact, BackoffAfter, Doubled
  <1> QED
    BY <1>1, <1>2, NextDelayInv, AdaptersTypeCorrect, AdaptersLife, PTL DEF Spec
=============================================================================
