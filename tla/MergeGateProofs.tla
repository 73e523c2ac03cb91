-------------------------- MODULE MergeGateProofs --------------------------
(***************************************************************************)
(* Theorems about MergeGate, for any number of heads, workflows, watchers  *)
(* and retries.  Two of them need that the branch is never forced back to  *)
(* an earlier head, one that the two callers of run_complete_on_merge.py   *)
(* do not overlap; each states its assumption.                             *)
(***************************************************************************)
EXTENDS MergeGate, TLAPS

-----------------------------------------------------------------------------
(* The steps, one case each: the proofs about Next split along them.       *)

\* Steps that change neither the watcher nor the records.
GitHubStep == GitHub /\ UNCHANGED <<watchVars, gateVars>>

\* Steps of the watcher that only change pc and round.
LocalStep == \/ ReadBefore \/ Startup \/ Poll \/ Attempt \/ AttemptFails
             \/ Guard \/ ReadAfter \/ Kill \/ HeadMoved

LEMMA NextCases ==
  ASSUME Next
  PROVE  \/ GitHubStep
         \/ LocalStep /\ UNCHANGED gateVars
         \/ (Probe \/ Reprobe \/ Settled) /\ UNCHANGED gateVars
         \/ StartWatch /\ UNCHANGED gateVars
         \/ (RecordVerdict \/ Cancel) /\ UNCHANGED gateVars
         \/ \E h \in Heads : HookAllows(h)
         \/ HookEnds \/ HookMerges \/ HumanMerges \/ Backfill
         \/ FindRun \/ RecordMerge \/ ReportMerge \/ Timeout
         \/ CliFinds \/ CliRecords \/ CliDies
BY DEF Next, Others, Watch, MergeStep, GitHubStep, LocalStep

\* A step of GitHub is a push, a conflict, or runs of one head moving on.
LEMMA GitHubCases ==
  ASSUME GitHub
  PROVE  \/ Push \/ Conflicts \/ Trigger
         \/ \E h \in Heads, w \in Workflows, from \in Unfinished :
              \E to \in CiState \ {"none", "queued"} : RunMoves(h, w, from, to)
<1> SUFFICES ASSUME NEW h \in Heads, NEW w \in Workflows, Start(h, w) \/ Finish(h, w)
             PROVE  \E from \in Unfinished : \E to \in CiState \ {"none", "queued"} :
                       RunMoves(h, w, from, to)
  BY DEF GitHub
<1>1. CASE Start(h, w)
  BY <1>1 DEF Start, Unfinished, CiState
<1>2. CASE Finish(h, w)
  BY <1>2 DEF Finish, Unfinished, CiState
<1> QED
  BY <1>1, <1>2

-----------------------------------------------------------------------------
(* Type correctness                                                        *)

LEMMA InitTypeOK == Init => TypeOK
<1> SUFFICES ASSUME Init PROVE TypeOK
  OBVIOUS
<1>1. PullRequestTypeOK
  <2>1. head \in Heads /\ top \in Heads
    BY PullRequestAssumption DEF Init, PullRequestInit, Heads
  <2>2. ci \in [Heads -> [Workflows -> CiState]]
    BY DEF Init, PullRequestInit, CiState
  <2>3. conflicting \in BOOLEAN
    BY Zenon DEF Init, PullRequestInit
  <2>4. merged \in [at : Heads \union {none}, by : {"nobody", "human", "hook"}]
    BY DEF Init, PullRequestInit
  <2> QED
    BY <2>1, <2>2, <2>3, <2>4 DEF PullRequestTypeOK
<1>2. NoVerdict \in Verdict
  BY DEF NoVerdict, Verdict, Status
<1>3. NoRound \in Round
  BY <1>2, PrWatchAssumption DEF NoRound, Round, HeadRead, none
<1>4. PrWatchTypeOK
  BY <1>3, PrWatchAssumption DEF Init, PrWatchInit, PrWatchTypeOK, Phase, HeadRead, none
<1> QED
  BY <1>1, <1>4 DEF Init, TypeOK, none

\* The pull request keeps its type whoever changes it.
LEMMA GitHubType ==
  ASSUME PullRequestTypeOK, GitHub
  PROVE  PullRequestTypeOK'
<1>1. CASE Push
  BY <1>1, PullRequestAssumption DEF Push, NextHeads, PullRequestTypeOK, Heads
<1>2. CASE Conflicts
  BY <1>2 DEF Conflicts, PullRequestTypeOK
<1>3. CASE Trigger
  BY <1>3 DEF Trigger, PullRequestTypeOK, CiState
<1>4. ASSUME NEW h \in Heads, NEW w \in Workflows, NEW from, NEW to \in CiState,
             RunMoves(h, w, from, to)
      PROVE  PullRequestTypeOK'
  BY <1>4 DEF RunMoves, PullRequestTypeOK
<1> QED
  BY <1>1, <1>2, <1>3, <1>4, GitHubCases

LEMMA MergeType ==
  ASSUME PullRequestTypeOK, NEW h \in Heads, NEW who \in {"human", "hook"}, MergeAt(h, who)
  PROVE  PullRequestTypeOK'
BY DEF MergeAt, PullRequestTypeOK

\* A step that sets pc and round to what they may be keeps the watcher's type.
LEMMA StepType ==
  ASSUME PrWatchTypeOK, NEW next \in Phase, NEW locals \in Round, Step(next, locals)
  PROVE  PrWatchTypeOK'
BY DEF Step, PrWatchTypeOK

\* The rounds that a step of the watcher may start or go on with.
LEMMA RoundTypes ==
  ASSUME round \in Round
  PROVE  /\ NoRound \in Round
         /\ \A h \in HeadRead : [NoRound EXCEPT !.before = h] \in Round
         /\ \A h \in HeadRead : [NoRound EXCEPT !.oid = h] \in Round
         /\ Poller \in Round
         /\ \A s \in Status, rows \in SUBSET Workflows : Judged(s, rows) \in Round
<1>1. NoVerdict \in Verdict
  BY DEF NoVerdict, Verdict, Status
<1>2. NoRound \in Round
  BY <1>1, PrWatchAssumption DEF NoRound, Round, HeadRead, none
<1>3. round.before \in HeadRead
  BY DEF Round
<1>4. \A h \in HeadRead : [NoRound EXCEPT !.before = h] \in Round
  BY <1>2 DEF Round
<1>5. \A h \in HeadRead : [NoRound EXCEPT !.oid = h] \in Round
  BY <1>2 DEF Round
<1>6. ASSUME NEW s \in Status, NEW rows \in SUBSET Workflows
      PROVE  Judged(s, rows) \in Round
  <2>1. [status |-> s, rows |-> rows, sure |-> FALSE] \in Verdict
    BY DEF Verdict
  <2> QED
    BY <1>2, <1>3, <2>1 DEF Judged, Round
<1> QED
  BY <1>2, <1>3, <1>4, <1>5, <1>6 DEF Poller

LEMMA DecideType ==
  ASSUME PrWatchTypeOK, Decide
  PROVE  PrWatchTypeOK'
<1>1. Summary(head) \in Status /\ Rows(head) \in SUBSET Workflows
  BY DEF Summary, Status, Rows
<1>2. Judged(Summary(head), Rows(head)) \in Round
  BY <1>1, RoundTypes DEF PrWatchTypeOK
<1> QED
  BY <1>2, StepType DEF Decide, Phase, CiPhase

\* Every local step of the watcher sets pc and round to what they may be.
LEMMA LocalType ==
  ASSUME TypeOK, LocalStep
  PROVE  PrWatchTypeOK'
<1> USE DEF TypeOK
<1>0. PrWatchTypeOK /\ round \in Round /\ head \in HeadRead /\ none \in HeadRead
  BY DEF PrWatchTypeOK, PullRequestTypeOK, HeadRead
<1>1. CASE ReadBefore
  BY <1>0, <1>1, RoundTypes, StepType DEF ReadBefore, Phase, CiPhase
<1>2. CASE Startup
  BY <1>0, <1>2, RoundTypes, StepType, DecideType DEF Startup, Phase, CiPhase
<1>3. CASE Poll
  BY <1>0, <1>3, RoundTypes, StepType, DecideType DEF Poll, Phase, CiPhase
<1>4. CASE Attempt
  <2>1. \A l \in {"empty", "pending"} : [round EXCEPT !.last = l] \in Round
    BY <1>0 DEF Round
  <2> QED
    BY <1>0, <1>4, <2>1, RoundTypes, StepType, DecideType DEF Attempt, Phase, CiPhase
<1>5. CASE AttemptFails
  BY <1>0, <1>5, StepType DEF AttemptFails, Phase, CiPhase
<1>6. CASE Guard
  <2>1. [round.verdict EXCEPT !.sure = TRUE] \in Verdict
    BY <1>0 DEF Round, Verdict
  <2>2. [round EXCEPT !.verdict = [@ EXCEPT !.sure = TRUE]] \in Round
    BY <1>0, <2>1 DEF Round
  <2> QED
    BY <1>0, <1>6, <2>2, RoundTypes, StepType DEF Guard, Phase, CiPhase
<1>7. CASE ReadAfter
  <2>1. \A o \in HeadRead, x \in BOOLEAN : [round EXCEPT !.oid = o, !.exact = x] \in Round
    BY <1>0 DEF Round
  <2>2. PICK after \in {head, none} :
          IF Moved(round.before, after)
          THEN Step("before", NoRound)
          ELSE Step("settled",
                    [round EXCEPT !.oid = IF round.before # none THEN round.before ELSE after,
                                  !.exact = (round.before # none /\ round.before = after)])
    BY <1>7 DEF ReadAfter
  <2>3. (IF round.before # none THEN round.before ELSE after) \in HeadRead
    BY <1>0 DEF Round
  <2>4. (round.before # none /\ round.before = after) \in BOOLEAN
    OBVIOUS
  <2> QED
    BY <1>0, <2>1, <2>2, <2>3, <2>4, RoundTypes, StepType DEF Phase, CiPhase
<1>8. CASE Kill
  BY <1>0, <1>8, RoundTypes, StepType DEF Kill, Phase
<1>9. CASE HeadMoved
  BY <1>0, <1>9, RoundTypes, StepType DEF HeadMoved, Phase, CiPhase
<1> QED
  BY <1>1, <1>2, <1>3, <1>4, <1>5, <1>6, <1>7, <1>8, <1>9 DEF LocalStep

\* The steps that probe mergeability, which may announce a conflict.
LEMMA ProbeType ==
  ASSUME TypeOK, Probe \/ Reprobe \/ Settled
  PROVE  PrWatchTypeOK'
<1> USE DEF TypeOK
<1>0. PrWatchTypeOK /\ round \in Round /\ head \in Heads
  BY DEF PrWatchTypeOK, PullRequestTypeOK
<1>1. ASSUME Conflict PROVE PrWatchTypeOK'
  BY <1>0, <1>1, RoundTypes DEF Conflict, Announce, PrWatchTypeOK, Phase, CiPhase
<1>2. CASE Probe
  BY <1>0, <1>1, <1>2, StepType DEF Probe, Phase, CiPhase
<1>3. CASE Reprobe
  <2>1. CASE Conflict
    BY <1>1, <2>1
  <2>2. CASE round.tries < MaxTries /\ Step("resolve", [round EXCEPT !.tries = @ + 1])
    <3>1. [round EXCEPT !.tries = @ + 1] \in Round
      BY <1>0, <2>2, PrWatchAssumption DEF Round
    <3> QED
      BY <1>0, <2>2, <3>1, StepType DEF Phase, CiPhase
  <2>3. CASE GiveUp
    <3>1. Judged(IF round.last = "empty" THEN "incomplete" ELSE "indeterminate", {}) \in Round
      BY <1>0, RoundTypes DEF Status
    <3> QED
      BY <1>0, <2>3, <3>1, RoundTypes, StepType DEF GiveUp, Phase, CiPhase
  <2> QED
    BY <1>3, <2>1, <2>2, <2>3 DEF Reprobe
<1>4. CASE Settled
  <2>1. CASE Step("record", round)
    BY <1>0, <2>1, StepType DEF Phase, CiPhase
  <2>2. CASE Announce /\ pc' = "record" /\ UNCHANGED <<prVars, round, events, vouched, starts>>
    BY <1>0, <2>2 DEF Announce, PrWatchTypeOK, Phase, CiPhase
  <2> QED
    BY <1>4, <2>1, <2>2 DEF Settled
<1> QED
  BY <1>2, <1>3, <1>4

LEMMA CompletedType ==
  ASSUME round \in Round
  PROVE  Completed \in Event
BY DEF Completed, Event, Round, HeadRead

LEMMA AppendType ==
  ASSUME events \subseteq Event, NEW e \in Event, Append(e)
  PROVE  events' \subseteq Event /\ vouched' \in HeadRead
BY DEF Append, Event, HeadRead

LEMMA RecordType ==
  ASSUME TypeOK, RecordVerdict \/ Cancel
  PROVE  PrWatchTypeOK'
<1> USE DEF TypeOK
<1>0. PrWatchTypeOK /\ round \in Round /\ round.oid \in HeadRead
  BY DEF PrWatchTypeOK, Round
<1>1. CASE RecordVerdict
  BY <1>0, <1>1, CompletedType, AppendType, RoundTypes
     DEF RecordVerdict, PrWatchTypeOK, Phase, CiPhase
<1>2. CASE Cancel
  <2>1. [passed |-> FALSE, head |-> none, oid |-> none] \in Event
    BY DEF Event, HeadRead
  <2> QED
    BY <1>0, <1>2, <2>1, AppendType, RoundTypes DEF Cancel, PrWatchTypeOK, Phase
<1> QED
  BY <1>1, <1>2

\* The remaining steps, one case each.
LEMMA NextTypeOK == TypeOK /\ [Next]_vars => TypeOK'
<1> SUFFICES ASSUME TypeOK, [Next]_vars PROVE TypeOK'
  OBVIOUS
<1>0. CASE UNCHANGED vars
  BY <1>0 DEF vars, prVars, watchVars, gateVars, TypeOK, PullRequestTypeOK, PrWatchTypeOK,
              Round, Verdict
<1>a. ASSUME UNCHANGED gateVars, PullRequestTypeOK', PrWatchTypeOK' PROVE TypeOK'
  BY <1>a DEF gateVars, TypeOK
<1>b. ASSUME UNCHANGED prVars PROVE PullRequestTypeOK'
  BY <1>b DEF prVars, TypeOK, PullRequestTypeOK
<1>c. ASSUME UNCHANGED watchVars PROVE PrWatchTypeOK'
  BY <1>c DEF watchVars, TypeOK, PrWatchTypeOK
<1>1. CASE GitHubStep
  BY <1>1, <1>a, <1>c, GitHubType DEF GitHubStep, TypeOK
<1>2. CASE LocalStep /\ UNCHANGED gateVars
  <2>1. UNCHANGED prVars
    BY <1>2 DEF LocalStep, ReadBefore, Startup, Poll, Decide, Attempt, AttemptFails, Guard,
                ReadAfter, Kill, HeadMoved, Step
  <2> QED
    BY <1>2, <1>a, <1>b, <2>1, LocalType
<1>3. CASE (Probe \/ Reprobe \/ Settled) /\ UNCHANGED gateVars
  <2>1. UNCHANGED prVars
    BY <1>3 DEF Probe, Reprobe, Settled, Conflict, GiveUp, Step
  <2> QED
    BY <1>3, <1>a, <1>b, <2>1, ProbeType
<1>4. CASE StartWatch /\ UNCHANGED gateVars
  <2>1. PrWatchTypeOK'
    BY <1>4, PrWatchAssumption DEF StartWatch, TypeOK, PrWatchTypeOK, Phase, CiPhase
  <2> QED
    BY <1>4, <1>a, <1>b, <2>1 DEF StartWatch
<1>5. CASE (RecordVerdict \/ Cancel) /\ UNCHANGED gateVars
  <2>1. UNCHANGED prVars
    BY <1>5 DEF RecordVerdict, Cancel
  <2> QED
    BY <1>5, <1>a, <1>b, <2>1, RecordType
<1>6. ASSUME NEW h \in Heads, HookAllows(h) PROVE TypeOK'
  BY <1>6, <1>b, <1>c DEF HookAllows, TypeOK
<1>7. CASE HookEnds
  BY <1>7, <1>b, <1>c DEF HookEnds, TypeOK
<1>8. CASE HookMerges
  <2>1. hook \in Heads
    BY <1>8 DEF HookMerges, TypeOK
  <2>2. PullRequestTypeOK'
    BY <1>8, <2>1, MergeType DEF HookMerges, Target, TypeOK
  <2> QED
    BY <1>8, <1>c, <2>2 DEF HookMerges, TypeOK
<1>9. CASE HumanMerges
  <2>1. PullRequestTypeOK'
    BY <1>9, MergeType DEF HumanMerges, TypeOK, PullRequestTypeOK
  <2> QED
    BY <1>9, <1>a, <1>c, <2>1 DEF HumanMerges
<1>10. CASE Backfill
  BY <1>10, <1>b, <1>c DEF Backfill, TypeOK
<1>11. CASE FindRun
  <2>1. PrWatchTypeOK'
    BY <1>11 DEF FindRun, TypeOK, PrWatchTypeOK, Phase
  <2> QED
    BY <1>11, <1>a, <1>b, <2>1 DEF FindRun
<1>12. CASE RecordMerge
  <2>1. PrWatchTypeOK'
    BY <1>12 DEF RecordMerge, TypeOK, PrWatchTypeOK, Phase
  <2> QED
    BY <1>12, <1>b, <2>1 DEF RecordMerge, Recorded, TypeOK
<1>13. CASE ReportMerge
  <2>1. PrWatchTypeOK'
    BY <1>13, RoundTypes DEF ReportMerge, TypeOK, PrWatchTypeOK, Phase
  <2>2. [kind |-> Kind, head |-> merged.at] \in Report
    BY DEF Kind, Report, TypeOK, PullRequestTypeOK
  <2> QED
    BY <1>13, <1>b, <2>1, <2>2 DEF ReportMerge, TypeOK
<1>14. CASE Timeout
  <2>1. PrWatchTypeOK'
    BY <1>14, RoundTypes, StepType DEF Timeout, TypeOK, PrWatchTypeOK, Phase
  <2> QED
    BY <1>14, <1>a, <1>b, <2>1 DEF Timeout, Step
<1>15. CASE CliFinds
  BY <1>15, <1>b, <1>c DEF CliFinds, TypeOK
<1>16. CASE CliRecords
  BY <1>16, <1>b, <1>c DEF CliRecords, Recorded, TypeOK
<1>17. CASE CliDies
  BY <1>17, <1>b, <1>c DEF CliDies, TypeOK
<1> QED
  BY <1>0, <1>1, <1>2, <1>3, <1>4, <1>5, <1>6, <1>7, <1>8, <1>9, <1>10, <1>11, <1>12,
     <1>13, <1>14, <1>15, <1>16, <1>17, NextCases

\* Every reachable state is well typed, for any constants.
THEOREM MergeTyped == Spec => []TypeOK
BY InitTypeOK, NextTypeOK, PTL DEF Spec

-----------------------------------------------------------------------------
(* Merges past the hook, and what a clean report says                      *)

\* Among these events is a pass that vouches for the head.
Vetted(S, h) == \E e \in S : e.passed /\ e.oid = h

\* The verdict behind a merge-watch, and the merge behind its last steps.
WatchFits ==
  /\ pc \in {"merge", "pr_merged", "report", "report_no_run"}
       => \E e \in events : e.passed /\ e.head = round.oid
  /\ pc \in {"pr_merged", "report", "report_no_run"} => merged.at # none

MergeInv == /\ TypeOK
            /\ vouched # none => Vetted(events, vouched)
            /\ hook # none => Vetted(events, hook)
            /\ HookMergesVettedHead
            /\ WatchFits
            /\ CleanMergeIsConfirmed

\* Nothing is ever taken out of the events, and a merge is final.
LEMMA Keeps ==
  ASSUME TypeOK, Next
  PROVE  /\ events \subseteq events'
         /\ merged.at # none => merged' = merged
<1> USE DEF prVars, watchVars, gateVars
<1>1. CASE GitHubStep
  BY <1>1 DEF GitHubStep, GitHub, Push, Trigger, Conflicts, Start, Finish, RunMoves
<1>2. CASE LocalStep
  BY <1>2 DEF LocalStep, ReadBefore, Startup, Poll, Decide, Attempt, AttemptFails, Guard,
              ReadAfter, Kill, HeadMoved, Step
<1>3. CASE Probe \/ Reprobe \/ Settled
  BY <1>3 DEF Probe, Reprobe, Settled, Conflict, GiveUp, Step
<1>4. CASE StartWatch \/ RecordVerdict \/ Cancel
  BY <1>4 DEF StartWatch, RecordVerdict, Cancel, Append
<1>5. CASE HookEnds \/ Backfill \/ CliFinds \/ CliRecords \/ CliDies \/ \E h \in Heads : HookAllows(h)
  BY <1>5 DEF HookEnds, Backfill, CliFinds, CliRecords, CliDies, HookAllows
<1>6. CASE HookMerges \/ HumanMerges
  BY <1>6 DEF HookMerges, HumanMerges, MergeAt, CanMerge
<1>7. CASE FindRun \/ RecordMerge \/ ReportMerge \/ Timeout
  BY <1>7 DEF FindRun, RecordMerge, ReportMerge, Timeout, Step
<1> QED
  BY <1>1, <1>2, <1>3, <1>4, <1>5, <1>6, <1>7, NextCases

\* What the database vouches for changes only with an event.
LEMMA VouchedStep ==
  ASSUME MergeInv, Next
  PROVE  vouched' # none => Vetted(events', vouched')
<1> USE DEF prVars, watchVars, gateVars
<1>0. \A h : Vetted(events, h) => Vetted(events', h)
  BY Keeps DEF Vetted, MergeInv
<1>1. CASE UNCHANGED vouched
  BY <1>0, <1>1 DEF MergeInv
<1>2. CASE RecordVerdict \/ Cancel
  <2>1. PICK e : Append(e)
    BY <1>2 DEF RecordVerdict, Cancel
  <2> QED
    BY <2>1 DEF Append, Vetted
<1> QED
  BY <1>1, <1>2, NextCases
     DEF GitHubStep, LocalStep, ReadBefore, Startup, Poll, Decide, Attempt, AttemptFails, Guard,
         ReadAfter, Kill, HeadMoved, Step, Probe, Reprobe, Settled, Conflict, GiveUp, StartWatch,
         HookEnds, Backfill, CliFinds, CliRecords, CliDies, HookAllows, HookMerges, HumanMerges,
         FindRun, RecordMerge, ReportMerge, Timeout

\* The hook takes its head from what the database vouches for, and only that
\* head is merged through it.
LEMMA HookStep ==
  ASSUME MergeInv, Next
  PROVE  (hook' # none => Vetted(events', hook')) /\ HookMergesVettedHead'
<1> USE DEF prVars, watchVars, gateVars
<1>0. \A h : Vetted(events, h) => Vetted(events', h)
  BY Keeps DEF Vetted, MergeInv
<1>h. HookMergesVettedHead <=> (merged.by = "hook" => Vetted(events, merged.at))
  BY DEF HookMergesVettedHead, Vetted
<1>i. HookMergesVettedHead' <=> (merged'.by = "hook" => Vetted(events', merged'.at))
  BY DEF HookMergesVettedHead, Vetted
<1>1. CASE UNCHANGED <<hook, merged>>
  BY <1>0, <1>1, <1>h, <1>i DEF MergeInv
<1>2. ASSUME NEW h \in Heads, HookAllows(h)
      PROVE  (hook' # none => Vetted(events', hook')) /\ HookMergesVettedHead'
  BY <1>0, <1>2, <1>h, <1>i DEF HookAllows, Allows, MergeInv
<1>3. CASE HookEnds
  BY <1>0, <1>3, <1>h, <1>i DEF HookEnds, MergeInv
<1>4. CASE HookMerges
  BY <1>0, <1>4, <1>i DEF HookMerges, Target, MergeAt, MergeInv
<1>5. CASE HumanMerges
  BY <1>0, <1>5, <1>i DEF HumanMerges, MergeAt, MergeInv
<1> QED
  BY <1>1, <1>2, <1>3, <1>4, <1>5, NextCases
     DEF GitHubStep, GitHub, Push, Trigger, Conflicts, Start, Finish, RunMoves,
         LocalStep, ReadBefore, Startup, Poll, Decide, Attempt, AttemptFails, Guard,
         ReadAfter, Kill, HeadMoved, Step, Probe, Reprobe, Settled, Conflict, GiveUp, StartWatch,
         RecordVerdict, Cancel, Backfill, CliFinds, CliRecords, CliDies,
         FindRun, RecordMerge, ReportMerge, Timeout

\* The watcher takes to the merge a head that its own passed event names.
LEMMA WatchFitsStep ==
  ASSUME MergeInv, Next
  PROVE  WatchFits'
<1> USE DEF prVars, watchVars, gateVars
<1>0. events \subseteq events' /\ (merged.at # none => merged'.at # none)
  BY Keeps DEF MergeInv
<1>1. CASE UNCHANGED <<pc, round>>
  BY <1>0, <1>1 DEF MergeInv, WatchFits
<1>2. CASE LocalStep \/ Probe \/ Reprobe \/ Settled \/ StartWatch \/ Timeout \/ Cancel
  <2>1. pc' \notin {"merge", "pr_merged", "report", "report_no_run"}
    BY <1>2 DEF LocalStep, ReadBefore, Startup, Poll, Decide, Attempt, AttemptFails, Guard,
                ReadAfter, Kill, HeadMoved, Step, Probe, Reprobe, Settled, Conflict, GiveUp,
                StartWatch, Timeout, Cancel
  <2> QED
    BY <2>1 DEF WatchFits
<1>3. CASE RecordVerdict
  <2>1. CASE pc' = "merge"
    <3>1. Completed.passed /\ round' = [NoRound EXCEPT !.oid = round.oid]
      BY <1>3, <2>1 DEF RecordVerdict
    <3>2. round'.oid = Completed.head
      BY <3>1 DEF NoRound, Completed
    <3>3. Completed \in events'
      BY <1>3 DEF RecordVerdict, Append
    <3> QED
      BY <2>1, <3>1, <3>2, <3>3 DEF WatchFits
  <2>2. CASE pc' = "off"
    BY <2>2 DEF WatchFits
  <2> QED
    BY <1>3, <2>1, <2>2 DEF RecordVerdict
<1>4. CASE FindRun
  BY <1>0, <1>4 DEF FindRun, MergeInv, WatchFits
<1>5. CASE RecordMerge
  BY <1>0, <1>5 DEF RecordMerge, MergeInv, WatchFits
<1>6. CASE ReportMerge
  BY <1>6 DEF ReportMerge, WatchFits
<1> QED
  BY <1>1, <1>2, <1>3, <1>4, <1>5, <1>6, NextCases
     DEF GitHubStep, HookEnds, Backfill, CliFinds, CliRecords, CliDies, HookAllows, HookMerges,
         HumanMerges

\* A clean report is one of a head that WatchFits has an event for.
LEMMA CleanStep ==
  ASSUME MergeInv, Next
  PROVE  CleanMergeIsConfirmed'
<1> USE DEF prVars, watchVars, gateVars
<1>0. events \subseteq events'
  BY Keeps DEF MergeInv
<1>1. CASE UNCHANGED reports
  BY <1>0, <1>1 DEF MergeInv, CleanMergeIsConfirmed
<1>2. CASE ReportMerge
  <2> SUFFICES ASSUME NEW r \in reports', r.kind = "PR_MERGED"
               PROVE  \E e \in events' : e.passed /\ e.head \in {r.head, none}
    BY DEF CleanMergeIsConfirmed
  <2>1. CASE r \in reports
    BY <1>0, <2>1 DEF MergeInv, CleanMergeIsConfirmed
  <2>2. CASE r = [kind |-> Kind, head |-> merged.at]
    <3>1. PICK e \in events : e.passed /\ e.head = round.oid
      BY <1>2 DEF ReportMerge, MergeInv, WatchFits
    <3>2. merged.at # none /\ ~Moved(round.oid, merged.at)
      BY <1>2, <2>2 DEF ReportMerge, MergeInv, WatchFits, Kind
    <3>3. e.head \in {merged.at, none}
      BY <3>1, <3>2 DEF Moved
    <3> QED
      BY <1>0, <2>2, <3>1, <3>3
  <2> QED
    BY <1>2, <2>1, <2>2 DEF ReportMerge
<1> QED
  BY <1>1, <1>2, NextCases
     DEF GitHubStep, LocalStep, ReadBefore, Startup, Poll, Decide, Attempt, AttemptFails, Guard,
         ReadAfter, Kill, HeadMoved, Step, Probe, Reprobe, Settled, Conflict, GiveUp, StartWatch,
         RecordVerdict, Cancel, HookAllows, HookEnds, HookMerges, HumanMerges, Backfill,
         CliFinds, CliRecords, CliDies, FindRun, RecordMerge, Timeout

LEMMA InitMergeInv == Init => MergeInv
BY InitTypeOK
   DEF Init, PullRequestInit, PrWatchInit, MergeInv, HookMergesVettedHead, WatchFits,
       CleanMergeIsConfirmed

LEMMA NextMergeInv == MergeInv /\ [Next]_vars => MergeInv'
<1> SUFFICES ASSUME MergeInv, [Next]_vars PROVE MergeInv'
  OBVIOUS
<1>1. CASE UNCHANGED vars
  BY <1>1, NextTypeOK
     DEF vars, prVars, watchVars, gateVars, MergeInv, Vetted, HookMergesVettedHead, WatchFits,
         CleanMergeIsConfirmed
<1>2. CASE Next
  <2>1. TypeOK'
    BY <1>2, NextTypeOK DEF MergeInv
  <2> QED
    BY <1>2, <2>1, VouchedStep, HookStep, WatchFitsStep, CleanStep DEF MergeInv
<1> QED
  BY <1>1, <1>2

\* What the hook lets through has a passed verdict at exactly the merged head,
\* for any pushes, watchers and humans beside it.
THEOREM HookMergesVetted == Spec => []HookMergesVettedHead
<1>1. MergeInv => HookMergesVettedHead
  BY DEF MergeInv
<1> QED
  BY <1>1, InitMergeInv, NextMergeInv, PTL DEF Spec

\* PR_MERGED is never sent for a readable head without a passed verdict.
THEOREM CleanMergeConfirmed == Spec => []CleanMergeIsConfirmed
<1>1. MergeInv => CleanMergeIsConfirmed
  BY DEF MergeInv
<1> QED
  BY <1>1, InitMergeInv, NextMergeInv, PTL DEF Spec

\* Both: what passes the hook, and what is reported as clean, was vetted.
THEOREM MergesVetted == Spec => []MergesAreVetted
BY HookMergesVetted, CleanMergeConfirmed, PTL DEF MergesAreVetted

-----------------------------------------------------------------------------
(* One record of a merge                                                   *)

\* A caller between its look for an earlier record and its transaction is alone.
RecordInv == /\ TypeOK
             /\ RecordedOnce
             /\ pc = "pr_merged" => run.events = 0 /\ cli = "idle"
             /\ cli = "write" => run.events = 0

LEMMA InitRecordInv == Init => RecordInv
BY InitTypeOK DEF Init, PrWatchInit, RecordInv, RecordedOnce

LEMMA NextRecordInv ==
  ASSUME ~Overlap
  PROVE  RecordInv /\ [Next]_vars => RecordInv'
<1> SUFFICES ASSUME RecordInv, [Next]_vars PROVE RecordInv'
  OBVIOUS
<1> USE DEF prVars, watchVars, gateVars
<1>0. TypeOK' /\ run \in [merged : BOOLEAN, events : Nat]
  BY NextTypeOK DEF RecordInv, TypeOK
<1>1. CASE UNCHANGED vars
  BY <1>0, <1>1 DEF vars, RecordInv, RecordedOnce
<1>2. CASE UNCHANGED <<run, cli>> /\ (pc' = "pr_merged" => pc = "pr_merged")
  BY <1>0, <1>2 DEF RecordInv, RecordedOnce
<1>3. CASE FindRun
  BY <1>0, <1>3 DEF FindRun, Already, RecordInv, RecordedOnce
<1>4. CASE RecordMerge
  BY <1>0, <1>4 DEF RecordMerge, Recorded, RecordInv, RecordedOnce
<1>5. CASE CliFinds
  BY <1>0, <1>5 DEF CliFinds, Already, RecordInv, RecordedOnce
<1>6. CASE CliRecords
  BY <1>0, <1>6 DEF CliRecords, Recorded, RecordInv, RecordedOnce
<1>7. CASE CliDies
  BY <1>0, <1>7 DEF CliDies, RecordInv, RecordedOnce
<1>8. ASSUME Next
      PROVE  \/ UNCHANGED <<run, cli>> /\ (pc' = "pr_merged" => pc = "pr_merged")
             \/ FindRun \/ RecordMerge \/ CliFinds \/ CliRecords \/ CliDies
  BY <1>8, NextCases
     DEF GitHubStep, LocalStep, ReadBefore, Startup, Poll, Decide, Attempt, AttemptFails, Guard,
         ReadAfter, Kill, HeadMoved, Step, Probe, Reprobe, Settled, Conflict, GiveUp, StartWatch,
         RecordVerdict, Cancel, HookAllows, HookEnds, HookMerges, HumanMerges, Backfill,
         ReportMerge, Timeout
<1> QED
  BY <1>1, <1>2, <1>3, <1>4, <1>5, <1>6, <1>7, <1>8

\* Callers that do not overlap record a merge once, whenever they are killed.
THEOREM MergeRecordedOnce ==
  ASSUME ~Overlap
  PROVE  Spec => []RecordedOnce
<1>1. RecordInv => RecordedOnce
  BY DEF RecordInv
<1>2. RecordInv /\ [Next]_vars => RecordInv'
  BY NextRecordInv
<1> QED
  BY <1>1, <1>2, InitRecordInv, PTL DEF Spec

-----------------------------------------------------------------------------
(* A verdict and the head it vouches for                                   *)

\* The runs c bear the verdict v of head h out, and none of them is unfinished
\* if the verdict was accepted after they had been read.
Holds(c, v, h) ==
  /\ v.status \in {"passed", "failed"} => v.rows # {}
  /\ v.status = "passed" => \A w \in v.rows : c[h][w] = "pass"
  /\ v.status = "failed" => \E w \in v.rows : c[h][w] = "fail"
  /\ v.status = "passed" /\ v.sure => \A w \in Workflows : c[h][w] \notin Unfinished

\* Heads only grow, so a round whose first head read still is the head has read
\* nothing of another head; once the head was read again that is settled.
HeadInv ==
  /\ TypeOK
  /\ head = top
  /\ round.before # none => round.before <= head
  /\ pc \in {"guard", "after"} /\ round.before = head => Holds(ci, round.verdict, head)
  /\ pc \in {"settled", "record"} /\ round.exact
       => round.oid # none /\ Holds(ci, round.verdict, round.oid)

\* Runs only move on, and a head with a decided row is not triggered again.
LEMMA HoldsKept ==
  ASSUME PullRequestTypeOK, GitHub, NEW v \in Verdict, NEW h \in Heads, Holds(ci, v, h)
  PROVE  Holds(ci', v, h)
<1>0. v.rows \subseteq Workflows
  BY DEF Verdict
<1>1. CASE Push \/ Conflicts
  BY <1>1 DEF Push, Conflicts
<1>2. CASE Trigger
  <2>1. CASE h = head
    BY <1>0, <1>2, <2>1 DEF Trigger, Holds, PullRequestTypeOK
  <2>2. CASE h # head
    <3>1. ci'[h] = ci[h]
      BY <1>2, <2>2 DEF Trigger, PullRequestTypeOK
    <3> QED
      BY <3>1 DEF Holds
  <2> QED
    BY <2>1, <2>2
<1>3. ASSUME NEW g \in Heads, NEW w \in Workflows, NEW from \in Unfinished,
             NEW to \in CiState \ {"none", "queued"}, RunMoves(g, w, from, to)
      PROVE  Holds(ci', v, h)
  <2>1. ci[g][w] \in Unfinished
    BY <1>3 DEF RunMoves
  <2>2. \A x \in Workflows : ci'[h][x] = ci[h][x] \/ ci[h][x] \in Unfinished
    BY <1>3, <2>1 DEF RunMoves, PullRequestTypeOK
  <2>3. \A x \in Workflows : ci[h][x] \in {"pass", "fail"} => ci'[h][x] = ci[h][x]
    BY <2>2 DEF Unfinished
  <2>4. \A x \in Workflows : ci[h][x] \notin Unfinished => ci'[h][x] = ci[h][x]
    BY <2>2
  <2> QED
    BY <1>0, <2>3, <2>4 DEF Holds
<1> QED
  BY <1>1, <1>2, <1>3, GitHubCases

\* What Decide reads is so at the moment it reads it.
LEMMA DecideHolds ==
  ASSUME HeadInv, TypeOK', Decide
  PROVE  HeadInv'
<1>1. Holds(ci, [status |-> Summary(head), rows |-> Rows(head), sure |-> FALSE], head)
  BY DEF Holds, Summary, Rows, Pending
<1>2. /\ pc' = "guard" /\ round' = Judged(Summary(head), Rows(head)) /\ UNCHANGED prVars
  BY DEF Decide, Step
<1>3. /\ round'.before = round.before /\ round'.exact = FALSE
      /\ round'.verdict = [status |-> Summary(head), rows |-> Rows(head), sure |-> FALSE]
  BY <1>2 DEF Judged, NoRound
<1> QED
  BY <1>1, <1>2, <1>3 DEF HeadInv, prVars

\* Outside the last phases of a round only the two head reads matter.
LEMMA EarlyPhase ==
  ASSUME HeadInv, TypeOK', UNCHANGED prVars,
         pc' \notin {"guard", "after", "settled", "record"},
         round'.before \in {round.before, head, none}
  PROVE  HeadInv'
BY DEF HeadInv, prVars, TypeOK, PullRequestTypeOK, Heads, none

\* The steps of GitHub leave the round alone.
LEMMA GitHubHeadStep ==
  ASSUME ~Returns, HeadInv, TypeOK', GitHubStep
  PROVE  HeadInv'
<1>1. UNCHANGED <<pc, round>> /\ PullRequestTypeOK /\ GitHub /\ round \in Round
  BY DEF GitHubStep, watchVars, HeadInv, TypeOK, PrWatchTypeOK
<1>2. round.verdict \in Verdict /\ round.oid \in HeadRead /\ round.before \in HeadRead
  BY <1>1 DEF Round
<1>3. \A h \in Heads : Holds(ci, round.verdict, h) => Holds(ci', round.verdict, h)
  BY <1>1, <1>2, HoldsKept
<1>4. head \in Heads /\ head' \in Heads /\ (round.oid # none => round.oid \in Heads)
  BY <1>1, <1>2 DEF HeadInv, TypeOK, PullRequestTypeOK, HeadRead
<1>5. \/ UNCHANGED <<head, top>>
      \/ head' = top + 1 /\ top' = top + 1
  <2>1. CASE Push
    BY <2>1 DEF Push, NextHeads, HeadInv, TypeOK, PullRequestTypeOK, Heads
  <2> QED
    BY <1>1, <2>1, GitHubCases DEF Conflicts, Trigger, RunMoves
<1>6. CASE UNCHANGED <<head, top>>
  BY <1>1, <1>3, <1>4, <1>6 DEF HeadInv
<1>7. CASE head' = top + 1 /\ top' = top + 1
  <2>1. head' = head + 1 /\ head \in Nat /\ (round.before # none => round.before \in Nat)
    BY <1>2, <1>4, <1>7 DEF HeadInv, Heads, HeadRead
  <2>2. round.before # none => round.before <= head' /\ round.before # head'
    BY <2>1 DEF HeadInv
  <2>3. round.before # head'
    BY <2>1, <2>2 DEF none
  <2> QED
    BY <1>1, <1>3, <1>4, <1>7, <2>2, <2>3 DEF HeadInv
<1> QED
  BY <1>5, <1>6, <1>7

\* A round from its first head read to the event it ends in.
LEMMA LocalHeadStep ==
  ASSUME HeadInv, TypeOK', LocalStep
  PROVE  HeadInv'
<1>0. /\ round \in Round /\ UNCHANGED prVars
      /\ NoRound.before = none /\ Poller.before = round.before
  BY DEF HeadInv, TypeOK, PrWatchTypeOK, NoRound, Poller, LocalStep, ReadBefore, Startup, Poll,
         Decide, Attempt, AttemptFails, Guard, ReadAfter, Kill, HeadMoved, Step
<1>1. CASE Decide
  BY <1>1, DecideHolds
<1>2. CASE /\ pc' \notin {"guard", "after", "settled", "record"}
           /\ round'.before \in {round.before, head, none}
  BY <1>0, <1>2, EarlyPhase
<1>3. CASE Guard /\ pc' = "after"
  <2>1. round'.before = round.before
    BY <1>0, <1>3 DEF Guard, Step, Poller, Round
  <2>2. CASE round' = round
    BY <1>0, <1>3, <2>2 DEF Guard, HeadInv, prVars
  <2>3. CASE /\ round.verdict.status = "passed"
             /\ ~Waits(IF round.before # none THEN round.before ELSE head)
             /\ round' = [round EXCEPT !.verdict = [@ EXCEPT !.sure = TRUE]]
    <3>1. /\ round'.verdict.status = round.verdict.status
          /\ round'.verdict.rows = round.verdict.rows
      BY <1>0, <2>3 DEF Round, Verdict
    <3>2. round.before = head => \A w \in Workflows : ci[head][w] \notin Unfinished
      BY <2>3 DEF Waits, HasUnfinishedRun
    <3>3. round.before = head => Holds(ci, round'.verdict, head)
      BY <1>3, <3>1, <3>2 DEF Guard, HeadInv, Holds
    <3> QED
      BY <1>0, <1>3, <2>1, <3>3 DEF HeadInv, prVars
  <2> QED
    BY <1>3, <2>2, <2>3 DEF Guard, Step
<1>4. CASE ReadAfter /\ pc' = "settled"
  <2>1. PICK after \in {head, none} :
          round' = [round EXCEPT !.oid = IF round.before # none THEN round.before ELSE after,
                                 !.exact = (round.before # none /\ round.before = after)]
    BY <1>4 DEF ReadAfter, Step
  <2>2. round'.before = round.before /\ round'.verdict = round.verdict
    BY <1>0, <2>1 DEF Round
  <2>3. round'.exact => round.before = head /\ round.before # none /\ round'.oid = head
    BY <1>0, <2>1 DEF Round
  <2>4. round'.exact => Holds(ci, round'.verdict, round'.oid) /\ round'.oid # none
    BY <1>4, <2>2, <2>3 DEF ReadAfter, HeadInv
  <2> QED
    BY <1>0, <1>4, <2>2, <2>4 DEF HeadInv, prVars
<1> QED
  BY <1>0, <1>1, <1>2, <1>3, <1>4
     DEF LocalStep, ReadBefore, Startup, Poll, Attempt, AttemptFails, Guard, ReadAfter, Kill,
         HeadMoved, Step, NoRound, Round, none

\* The steps that may announce a conflict.
LEMMA ProbeHeadStep ==
  ASSUME HeadInv, TypeOK', Probe \/ Reprobe \/ Settled
  PROVE  HeadInv'
<1>0. /\ round \in Round /\ UNCHANGED prVars /\ Poller.before = round.before
  BY DEF HeadInv, TypeOK, PrWatchTypeOK, NoRound, Poller, Probe, Reprobe, Settled, Conflict,
         GiveUp, Step
<1>1. CASE /\ pc' \notin {"guard", "after", "settled", "record"}
           /\ round'.before \in {round.before, head, none}
  BY <1>0, <1>1, EarlyPhase
<1>2. CASE Settled
  BY <1>0, <1>2 DEF Settled, Step, HeadInv, prVars
<1>3. CASE Step("guard", Judged(IF round.last = "empty" THEN "incomplete" ELSE "indeterminate", {}))
  <2>1. pc' = "guard" /\ round'.before = round.before /\ round'.exact = FALSE
    BY <1>3 DEF Step, Judged, NoRound
  <2>2. Holds(ci, round'.verdict, head)
    BY <1>3 DEF Step, Judged, NoRound, Holds
  <2> QED
    BY <1>0, <2>1, <2>2 DEF HeadInv, prVars
<1> QED
  BY <1>0, <1>1, <1>2, <1>3 DEF Probe, Reprobe, Conflict, GiveUp, Step, Round

LEMMA NextHeadInv ==
  ASSUME ~Returns
  PROVE  HeadInv /\ [Next]_vars => HeadInv'
<1> SUFFICES ASSUME HeadInv, [Next]_vars PROVE HeadInv'
  OBVIOUS
<1>0. TypeOK'
  BY NextTypeOK DEF HeadInv
<1>1. CASE UNCHANGED <<head, top, ci, pc, round>>
  BY <1>0, <1>1 DEF HeadInv
<1>2. CASE /\ UNCHANGED <<head, top, ci>>
           /\ pc' \notin {"guard", "after", "settled", "record"}
           /\ round'.before \in {round.before, none}
  BY <1>0, <1>2 DEF HeadInv
<1>3. CASE GitHubStep
  BY <1>0, <1>3, GitHubHeadStep
<1>4. CASE LocalStep
  BY <1>0, <1>4, LocalHeadStep
<1>5. CASE Probe \/ Reprobe \/ Settled
  BY <1>0, <1>5, ProbeHeadStep
<1>6. CASE StartWatch \/ RecordVerdict \/ Cancel \/ FindRun \/ RecordMerge \/ ReportMerge \/ Timeout
  BY <1>2, <1>6
     DEF StartWatch, RecordVerdict, Cancel, FindRun, RecordMerge, ReportMerge, Timeout, Step,
         NoRound, prVars
<1>7. CASE \/ HookEnds \/ HookMerges \/ HumanMerges \/ Backfill \/ CliFinds \/ CliRecords \/ CliDies
           \/ \E h \in Heads : HookAllows(h)
  BY <1>1, <1>7
     DEF HookEnds, HookMerges, HumanMerges, MergeAt, Backfill, CliFinds, CliRecords, CliDies,
         HookAllows, prVars, watchVars
<1>8. CASE UNCHANGED vars
  BY <1>1, <1>8 DEF vars, prVars, watchVars
<1> QED
  BY <1>3, <1>4, <1>5, <1>6, <1>7, <1>8, NextCases

LEMMA InitHeadInv == Init => HeadInv
BY InitTypeOK DEF Init, PullRequestInit, PrWatchInit, NoRound, HeadInv

\* A verdict that vouches for a head describes that head, however the reads of a
\* round are spread over pushes and runs, if no push brings a head back.
THEOREM VerdictsDescribe ==
  ASSUME ~Returns
  PROVE  Spec => []VerdictDescribesHead
<1>1. HeadInv => VerdictDescribesHead
  BY DEF HeadInv, VerdictDescribesHead, Completed, Describes, Holds
<1>2. HeadInv /\ [Next]_vars => HeadInv'
  BY NextHeadInv
<1> QED
  BY <1>1, <1>2, InitHeadInv, PTL DEF Spec

\* A pass that vouches for a head has no workflow of it left in the queue.
THEOREM PassesFinished ==
  ASSUME ~Returns
  PROVE  Spec => []PassedIsFinished
<1>1. HeadInv => PassedIsFinished
  BY DEF HeadInv, PassedIsFinished, Completed, Holds, HasUnfinishedRun
<1>2. HeadInv /\ [Next]_vars => HeadInv'
  BY NextHeadInv
<1> QED
  BY <1>1, <1>2, InitHeadInv, PTL DEF Spec

\* Both: what is vouched for is a final verdict of that very head.
THEOREM VerdictsSound ==
  ASSUME ~Returns
  PROVE  Spec => []VerdictIsSound
BY VerdictsDescribe, PassesFinished, PTL DEF VerdictIsSound
=============================================================================
