---------------------------- MODULE MCLiveServer ----------------------------
(* Instances of LiveServer for model checking. *)
EXTENDS LiveServer, TLC

CONSTANTS i1, i2, i3, o1, o2, o3, a1, a2, l1, l2, t1

\* One goroutine registers and switches scenes.
OneSwitches == a1 :> {"new", "active"}

\* One registers, switches, resets and rejects scenes, another one replaces them.
OneReplaces == a1 :> {"new", "active", "reset", "reject"} @@ a2 :> {"replace"}

\* Scene ids and scene objects are interchangeable.
SceneSymmetry == Permutations(Ids) \cup Permutations(Objs)
=============================================================================
