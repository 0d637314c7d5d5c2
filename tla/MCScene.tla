------------------------------ MODULE MCScene ------------------------------
(* Instances of Scene for model checking. *)
EXTENDS Scene, TLC

CONSTANTS c1, c2, s1, s2, a, b, v1, v2

OneCaller == {c1}
TwoCallers == {c1, c2}
OnePath == {a}
TwoPaths == {a, b}
OneValue == {v1}
TwoValues == {v1, v2}
Nobody == {}

\* One adapter that writes everything.
OwnsAll == [c \in Callers |-> Paths]

\* Each adapter writes paths of its own.
OwnsApart == c1 :> {a} @@ c2 :> {b}

Symmetric == Permutations(TwoValues)
=============================================================================
