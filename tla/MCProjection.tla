---------------------------- MODULE MCProjection ----------------------------
(* An instance of Projection for model checking. *)
EXTENDS Projection, TLC

CONSTANTS c1, c2, s1, a, v1, m1, m2

TwoCallers == {c1, c2}

OwnsAll == [c \in Callers |-> Paths]

Revisions == c1 :> m1 @@ c2 :> m2
=============================================================================
