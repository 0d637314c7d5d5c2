---------------------------- MODULE MCShowFrames ----------------------------
(* Instances of ShowFrames for model checking. *)
EXTENDS ShowFrames, TLC

CONSTANTS a1, a2, x, y, s1, s2

OneAdmin == {a1}
TwoAdmins == {a1, a2}

\* One controller that makes every call, one after the other.
AllByOne == [a \in Admins |-> {"roster", "overlay", "new", "replace", "active"}]

\* Two goroutines that both publish rosters.
BothRosters == [a \in Admins |-> {"roster"}]

\* One publishes rosters, the other registers, replaces and switches scenes.
RosterAndSwitch == a1 :> {"roster"} @@ a2 :> {"new", "replace", "active"}
=============================================================================
