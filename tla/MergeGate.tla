----------------------------- MODULE MergeGate -----------------------------
(***************************************************************************)
(* From a verdict to a merge, and from a merge to the run row: the hook    *)
(* that guards the secretary's gh pr merge                                 *)
(* (tools/acceptance_merge_hook.py), the end of the watcher's merge-watch  *)
(* (tools/pr_watch.py) and the record of the merge                         *)
(* (tools/run_complete_on_merge.py), which the watcher and the secretary's *)
(* command line share.  The pull request may also be merged by a human in  *)
(* the web UI, past the hook.                                              *)
(***************************************************************************)
EXTENDS PrWatch

CONSTANT Overlap  \* may the secretary's call overlap the watcher's

ASSUME MergeGateAssumption == Overlap \in BOOLEAN

VARIABLES hook,     \* the head a merge command was allowed for, not yet merged
          linked,   \* does runs.pr_url or runs.branch lead from the PR to its run
          run,      \* pr_state of the run, and its pr_merged events
          cli,      \* the secretary's call of run_complete_on_merge.py
          reports   \* what the watcher reported of the merge, with the head

gateVars == <<hook, linked, run, cli, reports>>
vars == <<prVars, watchVars, gateVars>>

Report == [kind : {"PR_MERGED", "PR_MERGED_HEAD_UNCONFIRMED", "PR_MERGED_NO_RUN"},
           head : Heads \union {none}]

TypeOK ==
  /\ PullRequestTypeOK /\ PrWatchTypeOK
  /\ hook \in Heads \union {none}
  /\ linked \in BOOLEAN
  /\ run \in [merged : BOOLEAN, events : Nat]
  /\ cli \in {"idle", "write"}
  /\ reports \subseteq Report

Init ==
  /\ PullRequestInit /\ PrWatchInit
  /\ hook = none /\ linked = FALSE
  /\ run = [merged |-> FALSE, events |-> 0]
  /\ cli = "idle" /\ reports = {}

-----------------------------------------------------------------------------
\* The merge command names the head; the hook wants it to be the head of the
\* pull request and of the latest verdict, which must be a pass.
Allows(h) == head = h /\ vouched = h

HookAllows(h) ==
  /\ hook = none /\ Allows(h)
  /\ hook' = h
  /\ UNCHANGED <<prVars, watchVars, linked, run, cli, reports>>

\* The acceptance gate rejects, runs out of time, or GitHub refuses.
HookEnds ==
  /\ hook # none
  /\ hook' = none
  /\ UNCHANGED <<prVars, watchVars, linked, run, cli, reports>>

\* Mutant: the merge command names no head.
TargetLatest == head

\* --match-head-commit: GitHub merges the named head or nothing.
Target == hook

HookMerges ==
  /\ hook # none
  /\ MergeAt(Target, "hook")
  /\ hook' = none
  /\ UNCHANGED <<watchVars, linked, run, cli, reports>>

HumanMerges == MergeAt(head, "human") /\ UNCHANGED <<watchVars, gateVars>>

\* set_run_pr_open.py back-fills pr_url and branch, perhaps late.
Backfill == ~linked /\ linked' = TRUE
            /\ UNCHANGED <<prVars, watchVars, hook, run, cli, reports>>

-----------------------------------------------------------------------------
\* Mutant: the trace is looked for in runs.status, which a merge never changes.
AlreadyCompleted == FALSE

\* complete_on_merge looks for its own trace before it opens the transaction.
Already == run.merged /\ run.events > 0

Recorded == run' = [merged |-> TRUE, events |-> run.events + 1]

\* The watcher sees the merge and looks up the run.
FindRun ==
  /\ pc = "merge" /\ merged.at # none /\ (~Overlap => cli = "idle")
  /\ pc' = (IF ~linked THEN "report_no_run" ELSE IF Already THEN "report" ELSE "pr_merged")
  /\ UNCHANGED <<prVars, round, announced, events, vouched, starts, gateVars>>

RecordMerge ==
  /\ pc = "pr_merged"
  /\ Recorded /\ pc' = "report"
  /\ UNCHANGED <<prVars, round, announced, events, vouched, starts, hook, linked, cli, reports>>

\* Mutant: the merged head is not compared.
KindOfRun == IF pc = "report_no_run" THEN "PR_MERGED_NO_RUN" ELSE "PR_MERGED"

\* A merge of a head that the watcher did not confirm is never a clean report.
Kind == IF Moved(round.oid, merged.at) THEN "PR_MERGED_HEAD_UNCONFIRMED"
        ELSE IF pc = "report_no_run" THEN "PR_MERGED_NO_RUN" ELSE "PR_MERGED"

ReportMerge ==
  /\ pc \in {"report", "report_no_run"}
  /\ reports' = reports \union {[kind |-> Kind, head |-> merged.at]}
  /\ pc' = "off" /\ round' = NoRound
  /\ UNCHANGED <<prVars, announced, events, vouched, starts, hook, linked, run, cli>>

\* The 24 hours of a merge-watch are over.
Timeout == pc = "merge" /\ Step("off", NoRound) /\ UNCHANGED gateVars

\* The secretary runs run_complete_on_merge.py by hand; with --task-id it finds
\* the run without a link, and the record it writes is the link.
CliFinds ==
  /\ cli = "idle" /\ merged.at # none /\ ~Already
  /\ ~Overlap => pc # "pr_merged"
  /\ cli' = "write"
  /\ UNCHANGED <<prVars, watchVars, hook, linked, run, reports>>

CliRecords ==
  /\ cli = "write"
  /\ Recorded /\ cli' = "idle" /\ linked' = TRUE
  /\ UNCHANGED <<prVars, watchVars, hook, reports>>

CliDies == cli = "write" /\ cli' = "idle"
           /\ UNCHANGED <<prVars, watchVars, hook, linked, run, reports>>

-----------------------------------------------------------------------------
MergeStep == FindRun \/ RecordMerge \/ ReportMerge

Others == \/ GitHub /\ UNCHANGED <<watchVars, gateVars>>
          \/ StartWatch /\ UNCHANGED gateVars
          \/ Watch /\ UNCHANGED gateVars
          \/ Cancel /\ UNCHANGED gateVars
          \/ Kill /\ UNCHANGED gateVars

Next == \/ Others
        \/ \E h \in Heads : HookAllows(h)
        \/ HookEnds \/ HookMerges \/ HumanMerges \/ Backfill
        \/ MergeStep \/ Timeout \/ CliFinds \/ CliRecords \/ CliDies

Spec == Init /\ [][Next]_vars

\* GitHub runs what was pushed and the watcher, while it lives, takes its steps.
Fairness == /\ GitHubFairness
            /\ WF_vars(Watch /\ UNCHANGED gateVars)

FairSpec == Spec /\ Fairness

-----------------------------------------------------------------------------
(* Safety *)

\* A ci_completed event that vouches for a head speaks of that head: the rows
\* counted as passed did pass there, one of those behind a failure failed there.
\* They were read at another moment than the head, which may move in between.
Describes(verdict, h) ==
  /\ verdict.status \in {"passed", "failed"} => verdict.rows # {}
  /\ verdict.status = "passed" => \A w \in verdict.rows : ci[h][w] = "pass"
  /\ verdict.status = "failed" => \E w \in verdict.rows : ci[h][w] = "fail"

VerdictDescribesHead ==
  pc = "record" /\ Completed.oid # none => Describes(round.verdict, Completed.oid)

\* No pass is recorded while a workflow of the head still waits in the queue,
\* if the workflow-runs API answered.
PassedIsFinished ==
  pc = "record" /\ Completed.passed /\ Completed.oid # none /\ round.verdict.sure
    => ~HasUnfinishedRun(Completed.oid)

\* A verdict that vouches for a head was read from that head and is final for it.
VerdictIsSound == VerdictDescribesHead /\ PassedIsFinished

\* What the hook let through had a passed verdict at exactly the head that was
\* merged, whatever was pushed between the verdict, the hook and the merge.
HookMergesVettedHead ==
  merged.by = "hook" => \E e \in events : e.passed /\ e.oid = merged.at

\* PR_MERGED tells the secretary to go on: it is never sent for a head without a
\* passed verdict of the watcher, unless the head could not be read for it.
CleanMergeIsConfirmed ==
  \A r \in reports : r.kind = "PR_MERGED" =>
    \E e \in events : e.passed /\ e.head \in {r.head, none}

\* Neither a merge past the hook nor the report of a clean one does without a pass.
MergesAreVetted == HookMergesVettedHead /\ CleanMergeIsConfirmed

\* Calls that do not overlap record a merge once, however often they are repeated,
\* killed before or after the transaction, or made by the other caller.
RecordedOnce == run.events <= 1 /\ (run.merged <=> run.events = 1)

(* Liveness *)

\* A living watcher does not leave a head in silence: there is a verdict for it, or
\* its conflict is announced, or the watcher ends, or the head moves on or is merged.
EveryHeadIsJudged ==
  \A h \in Heads :
    (pc # "off" /\ head = h)
      ~> \/ pc = "off" \/ head # h \/ merged.at # none \/ h \in announced
         \/ \E e \in events : e.head \in {h, none}
=============================================================================
