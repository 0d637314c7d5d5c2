---------------------------- MODULE MCAdapters ----------------------------
(* Small instance of Adapters: every adapter, a cap above and one below the floor. *)
EXTENDS Adapters

AllKinds == {"poll", "ws", "pgx"}
=============================================================================
