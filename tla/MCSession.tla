------------------------------ MODULE MCSession ------------------------------
(* Instances of Session for model checking. *)
EXTENDS Session, TLC

CONSTANTS x, y, in1, in2, bad, ping, pong, bye, again, junk

\* Inputs and a refused one while the scene may switch; what the reader answers
\* itself, ignores or ends on while the scene may be replaced.
MCSessions ==
  {[msgs |-> {in1, in2, bad}, switches |-> TRUE, replaces |-> FALSE, maxSeq |-> 4, maxPings |-> 0],
   [msgs |-> {ping, pong, bye, junk}, switches |-> FALSE, replaces |-> TRUE, maxSeq |-> 2, maxPings |-> 1]}

MCMsgs == UNION {k.msgs : k \in MCSessions}

KindOf ==
  in1 :> "input" @@ in2 :> "input" @@ bad :> "refused" @@ ping :> "ping" @@ pong :> "pong"
    @@ bye :> "unsubscribe" @@ again :> "subscribe" @@ junk :> "garbage"

Kinded == [m \in Msgs |-> KindOf[m]]
=============================================================================
