--------------------------- MODULE AcceptanceGate ---------------------------
(***************************************************************************)
(* The acceptance-test gate, tools/acceptance_gate.py: it judges, from git *)
(* and from the CI records of a pull request, whether the test that its    *)
(* first commit declares failed before the fix and passes with it.  While  *)
(* it reads, the branch is pushed again, the base moves and CI goes on.    *)
(***************************************************************************)
EXTENDS Naturals, Sequences, FiniteSets, SequencesExt

CONSTANTS Branches,   \* bound: what the pull request may look like
          MaxPushes,  \* bound: pushes, each of which starts a CI run
          MaxChecks    \* bound: runs of the gate

VARIABLES base,      \* the tip of the base branch; 1 and later have the bug fixed on their own
          branch,    \* the pull request: where it forks, and what its commits do
          workflows, \* the pull_request workflow runs, in the order of their creation
          failed,    \* state.db: the commits a failed ci_completed event is recorded for
          pin,       \* state.db: what the first recorded acceptance_gate event saw
          check,     \* the gate
          checks

acceptanceVars == <<base, branch, workflows, failed, pin, check, checks>>

Tests == {"test1", "test2"} \* a commit that declares the test, and a rewritten one
Commits == Tests \union {"fix", "tamper"} \* tamper: changes a protected path

ASSUME GateAssumption ==
  /\ {MaxPushes, MaxChecks} \subseteq Nat
  /\ Branches \subseteq Seq(Commits) /\ \A commits \in Branches : IsInjective(commits)

\* --------------------------------------------------------------------------
(* GitHub                                                                   *)

\* Bound: nothing is looked at after the last gate.
Relevant == checks < MaxChecks \/ check.pc # "done"

\* The job on the merge of a commit and the base: the declared test fails unless the bug is
\* fixed, or the test does not run any more.
Outcome(sha, b) ==
  IF /\ \E k \in DOMAIN sha.commits : sha.commits[k] \in Tests
     /\ \A k \in DOMAIN sha.commits : sha.commits[k] \notin {"fix", "tamper"}
     /\ b = 0
  THEN "failure" ELSE "success"

\* New commits, the same ones again, a rewritten or a rebased branch.
Push ==
  /\ Len(workflows) < MaxPushes /\ Relevant
  /\ \E commits \in Branches, fork \in {branch.fork, base} :
       branch' = [fork |-> fork, commits |-> commits]
  /\ workflows' = Append(workflows, [sha |-> branch', base |-> base, conclusion |-> "none"])
  /\ UNCHANGED <<base, failed, pin, check, checks>>

BaseMoves == /\ Relevant /\ base = 0 /\ base' = 1
             /\ UNCHANGED <<branch, workflows, failed, pin, check, checks>>

\* A watcher, if there is one, records a failure of the head it watched.
RunCompletes(n) ==
  /\ Relevant /\ workflows[n].conclusion = "none"
  /\ workflows' = [workflows EXCEPT ![n].conclusion = Outcome(workflows[n].sha, workflows[n].base)]
  /\ failed' \in {failed} \union
       (IF workflows'[n].conclusion = "failure" THEN {failed \union {workflows[n].sha}} ELSE {})
  /\ UNCHANGED <<base, branch, pin, check, checks>>

\* --------------------------------------------------------------------------
(* The gate                                                                 *)

NoCheck == [pc |-> "idle", head |-> [fork |-> 0, commits |-> << >>],
           picked |-> [at \in {"test", "head"} |-> 0], job |-> "none", result |-> "none"]

\* The commits of the range that declare a test; exactly one of them is a manifest.
Declaring(head) == {k \in DOMAIN head.commits : head.commits[k] \in Tests}
ManifestAt(head) == CHOOSE k \in Declaring(head) : TRUE
TestCommit(head) == [head EXCEPT !.commits = SubSeq(@, 1, ManifestAt(head))]
Digest(head) == head.commits[ManifestAt(head)]

\* Mutant: whatever comes after the test commit.
ProtectedAnyhow(head) == TRUE

\* The protected entries at the head are those of the test commit.
Protected(head) == \A k \in ManifestAt(head)..Len(head.commits) : head.commits[k] # "tamper"
First(head) == ManifestAt(head) = 1
CiFailedAt(head) == TestCommit(head) \in failed

Ends(result, digest, g) ==
  \* With --pr the event is the pin: a verdict that cannot be recorded is a rejection.
  \/ /\ check' = [NoCheck EXCEPT !.pc = "done", !.result = result,
                                !.head = IF result = "passed" THEN g.head ELSE @]
     /\ pin' = IF pin = "none" THEN digest ELSE pin
  \/ /\ check' = [NoCheck EXCEPT !.pc = "done", !.result = "rejected"]
     /\ UNCHANGED pin

\* The pin is read, and what git says is judged: the range, the pin, the protected entries,
\* the place of the test commit and the record of its failure.
StartCheck ==
  LET g == [NoCheck EXCEPT !.pc = "test_runs", !.head = branch] IN
  /\ check.pc \in {"idle", "done"} /\ checks < MaxChecks /\ checks' = checks + 1
  /\ IF Cardinality(Declaring(branch)) # 1
     THEN Ends(IF Declaring(branch) = {} /\ pin = "none" THEN "no-manifest" ELSE "rejected",
               "none", g)
     ELSE IF \/ pin \notin {"none", Digest(branch)} \/ ~Protected(branch) \/ ~First(branch)
             \/ ~CiFailedAt(branch)
          THEN Ends("rejected", Digest(branch), g)
          ELSE check' = g /\ UNCHANGED pin
  /\ UNCHANGED <<base, branch, workflows, failed>>

Sha(at) == IF at = "test" THEN TestCommit(check.head) ELSE check.head

\* The latest pull_request run of a commit, read once: the jobs of this run are compared, and
\* its base.
PrRuns(at, pc, next) ==
  LET of == {n \in DOMAIN workflows : workflows[n].sha = Sha(at)} IN
  /\ check.pc = pc
  /\ IF of = {} THEN Ends("rejected", Digest(check.head), check)
     ELSE check' = [check EXCEPT !.pc = next, !.picked[at] = Max(of)] /\ UNCHANGED pin
  /\ UNCHANGED <<base, branch, workflows, failed, checks>>

\* Mutant: the latest completed job of the commit, whatever run it is of.
JobOfCommit(at) ==
  LET of == {n \in DOMAIN workflows : workflows[n].sha = Sha(at) /\ workflows[n].conclusion # "none"} IN
  IF of = {} THEN "none" ELSE workflows[Max(of)].conclusion

JobAt(at) == workflows[check.picked[at]].conclusion

CheckRunsAtTest ==
  /\ check.pc = "test_jobs"
  /\ check' = [check EXCEPT !.pc = "head_runs", !.job = JobAt("test")]
  /\ UNCHANGED <<base, branch, workflows, failed, pin, checks>>

\* The job failed at the test commit and succeeded at head, on one and the same base.
CheckRunsAtHead ==
  /\ check.pc = "head_jobs"
  /\ Ends(IF /\ check.job = "failure" /\ JobAt("head") = "success"
             /\ workflows[check.picked["test"]].base = workflows[check.picked["head"]].base
          THEN "passed" ELSE "rejected", Digest(check.head), check)
  /\ UNCHANGED <<base, branch, workflows, failed, checks>>

\* --------------------------------------------------------------------------
AcceptanceInit ==
  /\ base = 0 /\ branch = [fork |-> 0, commits |-> << >>]
  /\ workflows = << >> /\ failed = {} /\ pin = "none" /\ check = NoCheck /\ checks = 0

AcceptanceNext ==
  \/ Push \/ BaseMoves
  \/ \E n \in DOMAIN workflows : RunCompletes(n)
  \/ StartCheck
  \/ PrRuns("test", "test_runs", "test_jobs") \/ CheckRunsAtTest
  \/ PrRuns("head", "head_runs", "head_jobs") \/ CheckRunsAtHead

AcceptanceSpec == AcceptanceInit /\ [][AcceptanceNext]_acceptanceVars

AcceptanceTypeOK ==
  /\ base \in 0..1 /\ checks \in 0..MaxChecks /\ pin \in {"none"} \union Tests
  /\ branch.commits \in Branches \union {<< >>} /\ Len(workflows) \in 0..MaxPushes
  /\ check.result \in {"none", "passed", "rejected", "no-manifest"}

\* Whatever is pushed, merged into the base and run again while the gate reads, it passes
\* only a head that fixes the bug itself, after the very test that the first recorded gate
\* of this pull request saw, and without a change of what is protected.
PassedMeansFixed ==
  check.result = "passed" =>
    /\ \E k \in DOMAIN check.head.commits : check.head.commits[k] = "fix"
    /\ pin = Digest(check.head) /\ Protected(check.head)
=============================================================================
