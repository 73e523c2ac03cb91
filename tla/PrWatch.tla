------------------------------ MODULE PrWatch ------------------------------
(***************************************************************************)
(* The watcher of a pull request, tools/pr_watch.py: rounds of ci-watch    *)
(* that end in one ci_completed event, the conflict notices on the way,    *)
(* and the merge-watch that starts the next round when the head moves.     *)
(*                                                                         *)
(* Every gh call is a step of its own and reads the pull request as it is  *)
(* at that moment: between two of them the head may move, a run may start  *)
(* or finish, and any of them may come back unreadable.  A verdict is      *)
(* therefore put together from reads of different moments, and what binds  *)
(* it to a head are the head reads before and after.  What happens when    *)
(* the pull request is found merged is module MergeGate's.                 *)
(***************************************************************************)
EXTENDS PullRequest

CONSTANTS MaxStarts,  \* bound: watchers started for the pull request
          MaxTries    \* bound: retries of the resolver within its time budget

ASSUME PrWatchAssumption == MaxStarts \in Nat /\ MaxTries \in Nat

VARIABLES pc,         \* where the watcher is; "off" when there is none
          round,      \* the local variables of the round under way
          announced,  \* heads in the ledger of _ConflictWatch
          events,     \* the ci_completed events of the pull request
          vouched,    \* head_oid of the latest of them, if it is a pass that has one
          starts      \* watchers started so far

watchVars == <<pc, round, announced, events, vouched, starts>>

CiPhase == {"before", "startup", "poll", "probe", "resolve", "reprobe", "guard",
            "after", "settled", "record"}
Phase == CiPhase \union {"off", "merge", "pr_merged", "report", "report_no_run"}
Status == {"passed", "failed", "incomplete", "indeterminate"}
HeadRead == Heads \union {none}

\* rows: the checks counted in the verdict.  sure: the workflow-runs API was
\* asked, and answered, before the verdict was accepted.
Verdict == [status : Status, rows : SUBSET Workflows, sure : BOOLEAN]
NoVerdict == [status |-> "incomplete", rows |-> {}, sure |-> FALSE]

\* tries, last: the resolver's attempts and its last parseable answer.  oid: the
\* head the round returns.  exact: it was read before and after, and is the same.
Round == [before : HeadRead, verdict : Verdict,
          tries : 0..MaxTries, last : {"none", "empty", "pending"},
          oid : HeadRead, exact : BOOLEAN]
NoRound == [before |-> none, verdict |-> NoVerdict, tries |-> 0, last |-> "none",
            oid |-> none, exact |-> FALSE]

\* A ci_completed event: whether its status is a pass, which is all its readers
\* ask, its head tag and, if it vouches for a head, its head_oid.
Event == [passed : BOOLEAN, head : HeadRead, oid : HeadRead]

PrWatchTypeOK ==
  /\ pc \in Phase /\ round \in Round
  /\ announced \subseteq Heads
  /\ events \subseteq Event /\ vouched \in HeadRead
  /\ starts \in 0..MaxStarts

PrWatchInit ==
  /\ pc = "off" /\ round = NoRound
  /\ announced = {} /\ events = {} /\ vouched = none /\ starts = 0

-----------------------------------------------------------------------------
\* What a checks list adds up to: one failure is a failure, whatever is pending.
Summary(h) ==
  IF \E w \in Rows(h) : ci[h][w] = "fail" THEN "failed"
  ELSE IF Rows(h) = {} \/ Pending(h) THEN "incomplete" ELSE "passed"

\* Polling ends only when rows exist and every one of them is decided.
Decided(h) == Rows(h) # {} /\ ~Pending(h)

\* The next step of the watcher, with these local variables and nothing else changed.
Step(next, locals) == /\ pc' = next /\ round' = locals
                      /\ UNCHANGED <<prVars, announced, events, vouched, starts>>

StartWatch ==
  /\ pc = "off" /\ starts < MaxStarts
  /\ pc' = "before" /\ starts' = starts + 1 /\ announced' = {}
  /\ UNCHANGED <<prVars, round, events, vouched>>

\* A read of headRefOid, which may fail.
ReadBefore ==
  /\ pc = "before"
  /\ \E h \in {head, none} : Step("startup", [NoRound EXCEPT !.before = h])

\* What of the round survives when polling starts again, and when it ends.
Poller == [NoRound EXCEPT !.before = round.before]

Judged(status, rows) ==
  [NoRound EXCEPT !.before = round.before,
                  !.verdict = [status |-> status, rows |-> rows, sure |-> FALSE]]

Decide == Step("guard", Judged(Summary(head), Rows(head)))

\* The one-shot look at the whole rollup, for CI that ended before the watcher
\* started; undecided, empty and unreadable all fall through to polling.
Startup == /\ pc = "startup"
           /\ \/ Decided(head) /\ Decide
              \/ Step("poll", Poller)

\* While rows are pending the loop only sleeps; an empty or unreadable answer
\* turns to the question whether the head conflicts.
Poll == /\ pc = "poll"
        /\ \/ Decided(head) /\ Decide
           \/ Step("probe", round)

-----------------------------------------------------------------------------
\* Mutant: the ledger is keyed by the head the round began with.
AnnounceBefore == announced' = announced \union {round.before}

\* The canonical event and its push; the ledger keeps them to one per head.
Announce == announced' = announced \union {head}

\* The mergeability probe finds a conflict: no check will ever come for this
\* head, so the watcher goes on polling for the re-push.
Conflict ==
  /\ conflicting
  /\ Announce /\ pc' = "poll" /\ round' = Poller
  /\ UNCHANGED <<prVars, events, vouched, starts>>

\* No conflict, or no answer: the bounded resolver takes over.
Probe == /\ pc = "probe"
         /\ Conflict \/ Step("resolve", round)

\* One attempt of the resolver.  It returns a failure at once, even while other
\* rows are pending, and then its caller goes back to polling.
Attempt ==
  /\ pc = "resolve"
  /\ IF Summary(head) # "incomplete"
     THEN IF Pending(head) THEN Step("poll", Poller) ELSE Decide
     ELSE Step("reprobe", [round EXCEPT !.last = IF Pending(head) THEN "pending"
                                                                  ELSE "empty"])

\* The same attempt when the probe cannot be parsed.
AttemptFails == pc = "resolve" /\ Step("reprobe", round)

\* The budget is spent: what was read last is the verdict, unless rows were
\* still pending; if nothing was ever read it is indeterminate.
GiveUp ==
  IF round.last = "pending" THEN Step("poll", Poller)
  ELSE Step("guard", Judged(IF round.last = "empty" THEN "incomplete" ELSE "indeterminate", {}))

Reprobe ==
  /\ pc = "reprobe"
  /\ \/ Conflict
     \/ round.tries < MaxTries /\ Step("resolve", [round EXCEPT !.tries = @ + 1])
     \/ GiveUp

-----------------------------------------------------------------------------
\* Mutant: rows that are all green are the whole of CI.
WaitsForNone(h) == FALSE

Waits(h) == HasUnfinishedRun(h)

\* All rows green can still hide a queued workflow: a passed verdict waits for
\* the runs of the head.  It is accepted unseen when it is no pass, when the
\* runs cannot be read, and when the head is seen to have moved on.
Guard ==
  /\ pc = "guard"
  /\ LET h == IF round.before # none THEN round.before ELSE head IN
     \/ Step("after", round)
     \/ /\ round.verdict.status = "passed" /\ ~Waits(h)
        /\ Step("after", [round EXCEPT !.verdict = [@ EXCEPT !.sure = TRUE]])
     \/ round.verdict.status = "passed" /\ Waits(h) /\ Step("poll", Poller)

Moved(from, to) == from # none /\ to # none /\ from # to

\* A head that moved since the round began discards the verdict.
ReadAfter ==
  /\ pc = "after"
  /\ \E after \in {head, none} :
       IF Moved(round.before, after)
       THEN Step("before", NoRound)
       ELSE Step("settled",
                 [round EXCEPT !.oid = IF round.before # none THEN round.before ELSE after,
                               !.exact = (round.before # none /\ round.before = after)])

\* The verdict's own probe: CI may be green and the head conflict all the same.
\* It must not speak of another head than the verdict's.
Settled ==
  /\ pc = "settled"
  /\ \/ /\ conflicting /\ ~Moved(round.oid, head)
        /\ Announce /\ pc' = "record"
        /\ UNCHANGED <<prVars, round, events, vouched, starts>>
     \/ Step("record", round)

Append(e) ==
  /\ events' = events \union {e}
  /\ vouched' = IF e.passed THEN e.oid ELSE none

\* Mutant: the verdict vouches for whatever head was read last.
CompletedUnbracketed == [passed |-> round.verdict.status = "passed", head |-> round.oid,
                         oid |-> round.oid]

\* head_oid is there only if the head was read before and after, and is the same.
Completed == [passed |-> round.verdict.status = "passed", head |-> round.oid,
              oid |-> IF round.exact THEN round.oid ELSE none]

\* Only a pass, and only under --merge-watch, goes on to watch for the merge.
RecordVerdict ==
  /\ pc = "record"
  /\ Append(Completed)
  /\ \/ /\ Completed.passed
        /\ pc' = "merge" /\ round' = [NoRound EXCEPT !.oid = round.oid]
     \/ pc' = "off" /\ round' = NoRound
  /\ UNCHANGED <<prVars, announced, starts>>

\* An interrupt during the watch is recorded as canceled.
Cancel ==
  /\ pc \in {"startup", "poll", "probe", "resolve", "reprobe", "guard"}
  /\ Append([passed |-> FALSE, head |-> none, oid |-> none])
  /\ pc' = "off" /\ round' = NoRound
  /\ UNCHANGED <<prVars, announced, starts>>

\* The process is killed, or fails on an exception, at any step.
Kill == pc # "off" /\ Step("off", NoRound)

\* Mutant: merge-watch polls for the merge alone.
HeadMovedIgnored == FALSE

\* Merge-watch sees another head than the one it confirmed: a new round.
HeadMoved == pc = "merge" /\ merged.at = none /\ Moved(round.oid, head)
             /\ Step("before", NoRound)

\* The steps of the rounds, which a living watcher keeps taking.
Watch == \/ ReadBefore \/ Startup \/ Poll \/ Probe \/ Attempt \/ AttemptFails \/ Reprobe
         \/ Guard \/ ReadAfter \/ Settled \/ RecordVerdict \/ HeadMoved
=============================================================================
