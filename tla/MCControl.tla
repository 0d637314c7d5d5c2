----------------------------- MODULE MCControl -----------------------------
(* An instance of ControlPlane for model checking. *)
EXTENDS ControlPlane, TLC

CONSTANTS i1, i2, o1, o2, r1, r2, l1, t1, plain, broken, pair, x, y, z, tokA, tokB

MCScenarios == {plain, broken, pair}

\* A seeded scene; one from a malformed bundle, without state; two scenes.
MCBundles == [k \in MCScenarios |->
  CASE k = plain  -> <<[id |-> i1, pinned |-> TRUE]>>
    [] k = broken -> <<[id |-> i2, pinned |-> FALSE]>>
    [] k = pair   -> <<[id |-> i2, pinned |-> FALSE], [id |-> i1, pinned |-> TRUE]>>]

MCMalformed == {broken}

MCSeed == [k \in MCScenarios |->
  CASE k = plain -> x [] k = broken -> Empty [] k = pair -> y]

\* The same token in the hands of a tester and of a viewer; another one; a
\* placeholder that is never installed and one without a value.
MCTokens == [k \in MCScenarios |->
  CASE k = plain  -> "$TOKEN_TEST" :> tokA @@ "$TOKEN_INVALID" :> tokB
    [] k = broken -> "$TOKEN_VIEWER" :> tokA @@ "$TOKEN_OPERATOR" :> Empty
    [] k = pair   -> "$TOKEN_VIEWER" :> tokB]

MCTokenRole ==
  "$TOKEN_TEST" :> "test" @@ "$TOKEN_VIEWER" :> "viewer" @@ "$TOKEN_OPERATOR" :> "operator"

MCPresents == [s \in Subs |-> tokA]

\* Every handler may make every call.
AllOperations == [a \in Admins |-> {"new", "replace", "active", "reset", "reject"}]

\* The goroutines are interchangeable.
HandlerSymmetry == Permutations(Admins)
=============================================================================
