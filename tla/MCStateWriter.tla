--------------------------- MODULE MCStateWriter ---------------------------
(* Two secretary processes and the dispatcher on one task.  Transactions   *)
(* on other tasks act on one only through the version, the lock and the    *)
(* hooks, which a second transaction on the same task exercises too.       *)
EXTENDS StateWriter

CONSTANTS s1, s2, t1
=============================================================================
