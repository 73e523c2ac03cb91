------------------------- MODULE MCContextHandover -------------------------
(* A secretary whose watcher dies, and a dispatcher whose watcher does not. *)
EXTENDS ContextHandover

MCCrashes == [r \in Roles |-> IF r = "secretary" THEN 1 ELSE 0]
MCCrashesOfDispatcher == [r \in Roles |-> IF r = "dispatcher" THEN 1 ELSE 0]
=============================================================================
