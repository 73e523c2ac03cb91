---------------------------- MODULE MCDelegation ----------------------------
(***************************************************************************)
(* The instance of Delegation that TLC checks.                             *)
(***************************************************************************)
EXTENDS Delegation, TLC

CONSTANTS t1, t2

\* Two tasks are symmetric; so are two base branches.
Alike == Permutations(Tasks) \union Permutations(Bases)
=============================================================================
