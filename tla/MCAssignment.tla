---------------------------- MODULE MCAssignment ----------------------------
(***************************************************************************)
(* How work is found, ranked, judged and delegated, and how its branch is  *)
(* cut, on instances that TLC checks: the five share no state, so each     *)
(* behaviour follows the one it starts with.                               *)
(***************************************************************************)
EXTENDS Delegation, BaseBranch, GoalJudge, WorkDiscovery, CandidateRanking

CONSTANTS t1, t2, h1, o1, p1, q1, topic1

VARIABLE part

\* Two tasks are symmetric, and so are two bases, for whose names two scans and two branches
\* of the origin stand as well.
Alike == Permutations(Tasks) \union Permutations(Bases)

\* A delegation that never runs, and favours none of the bases.
Resting == INSTANCE Delegation WITH Bases <- {none}

assignmentVars == <<vars, gitVars, judgeVars, discoveryVars, rankingVars, part>>

AssignmentInit ==
  /\ BaseBranchInit /\ JudgeInit /\ DiscoveryInit /\ RankingInit
  /\ part \in {"delegation", "base", "judge", "discovery", "ranking"}
  \* What the other parts do not tell apart.
  /\ \/ part = "delegation" /\ Init
     \/ part # "delegation" /\ Resting!Init /\ registry = "url" /\ ~cloned
                            /\ \A p \in Appliers : plan[p].task = t1
  /\ part # "base" => /\ clone.origin /\ clone.refspec = Branches /\ clone.head = unset
                      /\ \A b \in Branches : remote[b] = 0 /\ clone.track[b] = 0
  /\ part # "discovery" => \A i \in Tickets : ticket[i].open /\ ticket[i].created = 0

AssignmentNext ==
  /\ UNCHANGED part
  /\ \/ /\ part = "delegation" /\ Next
        /\ UNCHANGED <<gitVars, judgeVars, discoveryVars, rankingVars>>
     \/ /\ part = "base" /\ BaseBranchNext
        /\ UNCHANGED <<vars, judgeVars, discoveryVars, rankingVars>>
     \/ /\ part = "judge" /\ JudgeNext
        /\ UNCHANGED <<vars, gitVars, discoveryVars, rankingVars>>
     \/ /\ part = "discovery" /\ DiscoveryNext
        /\ UNCHANGED <<vars, gitVars, judgeVars, rankingVars>>
     \/ /\ part = "ranking" /\ RankingNext
        /\ UNCHANGED <<vars, gitVars, judgeVars, discoveryVars>>

AssignmentSpec == AssignmentInit /\ [][AssignmentNext]_assignmentVars

\* Each part's state keeps its type.
AssignmentTypeOK ==
  /\ part = "delegation" => TypeOK
  /\ part = "base" => BaseBranchTypeOK
  /\ part = "judge" => JudgeTypeOK
  /\ part = "discovery" => DiscoveryTypeOK
  /\ part = "ranking" => RankingTypeOK
=============================================================================
