# Verification of claude-org-ja

TLA+ models of the coordination code of claude-org-ja, the TLC runs that check
them on small instances, and TLAPS proofs of their main properties for every
value of the constants.  Paths are relative to the repository root (`src/` in
PROJECT.json).

To check a run: `tlc -config X.cfg M`; to check the proofs: `tlapm M.tla`.
PROJECT.json lists the runs, the mutants (a plausible bug for every property,
which its run must find), the source lines each definition stands for, the
hazards and the findings.

## 1. The system

A claude-org is a handful of Claude Code sessions in terminal panes that share a
directory and a database.  The **Secretary** talks to the human, accepts tasks,
opens and merges pull requests.  The **Dispatcher** spawns a **Worker** pane for
each task and looks at all of them every three minutes.  The **Curator** turns
worker notes into knowledge.  The agents follow runbooks, but what they may not
get wrong is done by Python tools, which are what this project models.

State is kept in

* `.state/state.db` (SQLite, WAL, deferred transactions, 5 s busy timeout):
  `runs` (queued, in_use, review, completed, failed, suspended, abandoned, and
  the state of the pull request), `events` (an append-only journal),
  `event_deliveries` (the relay's ledger), projects, worker directories;
* files derived from it after each commit (`org-state.md`, `org-state.json`), the
  worker records `.state/workers/worker-*.md` (moved to `archive/` on
  completion), and small JSON files of single tools (heartbeat and halt marker of
  the relay, the register of pending decisions, the judge's cache and budget, pid
  files, manifests);
* what the tools leave elsewhere: base clones and worktrees, briefs and send
  plans in worker directories, branches, pull requests and workflow runs on
  GitHub, panes of the terminal.

There is no server: any session may start a tool at any time, sessions are
killed with their panes, and a restarted session repeats what it is not sure
about.  Most hazards are therefore of one kind: two short-lived processes (or
one, twice) with a check and an effect that are not one step.  The rest come from
what the tools can only look at: GitHub and a terminal, read call by call while
they change.

`docs/contracts/state-semantics-contract.md` states invariants I1-I8 and the
ownership of run transitions (T1-T9); it is where most abstract specifications
and both disagreements about `runs` come from.

### Inventory

| Component | State | Operations | Hard part | Correct when | Module |
|---|---|---|---|---|---|
| Outbox relay (`relay_scan.py`, ledger of `writer.py`) | `event_deliveries`, heartbeat and halt map | scan, send, mark-delivered, mark-failed, mark-halted | overlapping sessions, redelivery, paging, an outage told from a designed stop | nothing is marked that was not received; every terminal event is delivered; no halt hides an old event | OutboxRelay |
| StateWriter (`writer.py`, `snapshotter.py`) | `runs`, `events`, derived files, worker records | begin, commit, rollback, upsert, status, reserve, hooks | hooks after the commit, in memory; one write lock | reservation exactly once, no resurrection, archive agrees with status, files catch up | StateWriter |
| Delegation (`gen_delegate_payload.py`, `resolve_worker_layout.py`) | worktree, brief, send plan, run row, `delegate_sent`, base clone | resolve, apply, send | half-done applies, repeated with other options; an old clone; a lock left behind | each reservation can be sent, is alone in its directory, all files agree on the base, and the branch is cut from what the base was at the origin | Delegation, BaseBranch |
| PR watch (`pr_watch.py`) | round, announced heads, `ci_completed` | rollup, poll, resolve, guard, bracket, merge-watch | a head that moves between reads; queued workflows without rows | a verdict speaks of the head it names, and no head is left in silence | PrWatch |
| Merge hook and merge record (`acceptance_merge_hook.py`, `run_complete_on_merge.py`) | `pr_state`, `pr_merged` | decide, complete_on_merge | push between look and merge; two callers | only a vetted head is merged past the hook; a merge is recorded once | MergeGate |
| Context handover (`context_handover_watch.py`, `context_record.py`) | operation record, handover and late-input files, turn record | due, stages, recover | crash around a typed `/clear` | nothing a person wrote is lost; a cleared session is resumed or reported | ContextHandover, RoleSession |
| Spawn gate (`spawn_gate.py`) | worker record, spawn events | verify, record, audit | redispatch under a verification; compare and replace in two steps | verified means up in the right directory; audit hides no unverified spawn | SpawnGate |
| Self-edit approval (`self_edit_approval.py`) | approval events, keys in a pane | send, record, audit | parts, wrapping, keys that show up late | audit is silent only about workers that were told | SelfEditApproval |
| Codex round cap (`codex_round_cap.py`, its hook, `codex_review_gate.sh`) | round events | classify, grant, set | parallel calls | no review beyond the allowance | CodexRoundCap |
| Retro gate (`dispatcher_retro_gate.py`, `block-close-before-retro.sh`) | ack events | ask, poll, record, close | pane ids given out again; reopened runs | a pane is closed after the retro of its own dispatch | RetroGate |
| Acceptance gate (`acceptance_gate.py`) | pin event | check | branch, base and CI move while it reads | a passed head fixes the bug the pinned test shows | AcceptanceGate |
| Curator archive (`curator_archive.py`) | directories, rows | archive, purge | move and row in two steps, across devices in three | rows find their directories, nothing is lost | CuratorArchive |
| Workers migration (`migrate_workers.py`) | directories, manifest | plan, apply, rollback | a swap through a third name; deaths | a rollback restores, no name is of another project | WorkersMigration |
| Watcher restart guard (`watcher_restart_guard.py`) | watch events | evaluate | launch rows written after the fact; nameless ends | live means watched; completed is this watch's own | WatcherRestartGuard |
| Watcher panes (`spawn_watch_pane.py`, `pick_watcher_anchor.py`) | panes | pick, spawn, confirm, clean up | calls with unknown outcome | one pane per pull request, nobody squeezed | WatchPane |
| Secretary queue watcher (`secretary_queue_watcher.py`) | credits, pid file | tail, alarm, stop | the journal does not say which message was delivered; reused pids | woken for a waiting message and for nothing else; no stranger is signalled | QueueWatcher, QueueSidecar |
| Pending decisions (`pending_decisions.py`) | JSON register | append, mark, escalate, resolve | whole-file rewrite without a lock | the newest entry of a worker speaks for all of them | PendingDecisions |
| Work discovery scan (`work_discovery_scan.py`) | none; GitHub | fetch, exclude, order | lists fetched one after the other | no blocked issue proposed, none left out by what was never so; the order is steady | WorkDiscovery, CandidateRanking |
| Goal judge (`work_discovery_goals.py`) | cache, budget, failure file | judge | overlapping scans without a lock | a day costs its budget | GoalJudge |
| Run history, derived files' text, importers, reports, dashboard, permission hooks, generators, installers | none, or text | batch | text | - | not modelled |

PROJECT.json has the whole list, with the reason for each part that is not
modelled: mostly text (classification of shell commands and screens, rendering of
markdown), reports that only read, and one-shot installers.

## 2. Modules

```
DeliveryContract <- refined by - OutboxRelay  <- MCOutboxRelay, OutboxRelayProofs
RunTable         <- refined by - StateWriter  <- MCStateWriter, StateWriterProofs
PullRequest <- PrWatch <- MergeGate           <- MCMergeGate,   MergeGateProofs
RoleSession <- ContextHandover                <- MCContextHandover, ContextHandoverProofs

Delegation <- MCDelegation, DelegationProofs   \
BaseBranch, CandidateRanking, GoalJudge,        +-- MCAssignment <- AssignmentProofs
WorkDiscovery                                  /

EventLog <- SpawnGate, SelfEditApproval, RetroGate,  \
            CodexRoundCap                             |
AcceptanceGate, CuratorArchive, WorkersMigration      +-- MCGates <- GatesProofs

WatcherRestartGuard, WatchPane, QueueWatcher,        \
QueueSidecar, PendingDecisions                        +-- MCMonitors <- MonitorsProofs
```

`MCAssignment`, `MCGates` and `MCMonitors` put programs side by side that share
no state, or at most the log of events: a variable `part` is chosen at the start and
never changes, and only that part moves.  Their states are the sum of the
parts', so each part is explored as if it had a run of its own, and each property is
the part's own.  The proof modules of the three follow the same division: each section
proves one part, for the part's own specification.  The parts that do interact are composed as modules: PullRequest
with PrWatch and MergeGate, RoleSession with ContextHandover.

### OutboxRelay (implements DeliveryContract)

Terminal events must reach the secretary.  A dispatcher session calls
`relay_scan.py`, sends what it prints, and confirms each event with
`--mark-delivered` or `--mark-failed`.  `ledger` is `event_deliveries`,
`heartbeat` and `halted` are one recipient's entry of `relay-heartbeat.json`; a
session's `pc` stands between the steps of a command (judge the heartbeat, spend a
halt marker, read the rows and stamp the heartbeat, record the attempts, print)
and of the cycle around it.  The halt marker is read and written back in two steps
(`seen` is what was read), by the audit that spends it and by `--mark-halted`.  `inbox`
is external: what arrived in the secretary's pane.  Sessions may overlap (an old
dispatcher that was not closed), die between any two steps, fail to send or to write
the heartbeat, and stop by design with `--mark-halted`.  Either half of `--cycle` may
raise: an audit that did (`AuditFails`, exit 2) is followed by the scan all the same
and told of with it; a scan that did (`ListFails`) has stamped the heartbeat or not.
`--audit` and `--list` are also run on their own.

DeliveryContract is what the ledger promises: an event is settled only after it
was received, and stays settled.

### StateWriter (implements RunTable)

One action for each of begin, read, write, commit, rollback, and each step of a
post-commit hook (render the derived file, replace it, look at the status, move
the worker record), because the processes interleave exactly there.
Transactions are deferred, as `sqlite3` opens them: one whose first statement
reads keeps that snapshot and fails at its first write if somebody committed
since; one whose first statement writes waits for the lock.  That difference is
what keeps a re-apply from making a dispatched run a reservation again.  The
archive intents are in memory, so a death after the commit loses them.  RunTable
is what the contract promises of rows, events and archive with no transaction in
sight, restricted to the transitions that the code implements.

### Delegation, BaseBranch

Delegation is one apply as its steps: resolve (read of state.db, look for residue),
base clone, worktree, brief, send plan, the reservation's transaction; with an
abort or death between any two, and re-applies of the same task with another base.
Dispatch, review, close and abandon change the rows it reads.

BaseBranch is the git below it.  `remote` is the origin, `clone` the base clone: what
it fetches, what its remote-tracking refs say, what its `origin/HEAD` names.  An
apply fetches the base or, without one, what the refspec covers; finds the ref to cut
from; removes a lock of `.git/config` that a sandbox left behind (a look and an
unlink, between which a living git may have taken it); adds the worktree and records
the base, trying twice; or finds that the worktree of an earlier apply may be used
again.  Others push and delete branches meanwhile.  The ghost `tips` remembers the
tips each branch has had at the origin since the apply began.

### PullRequest, PrWatch, MergeGate

PullRequest is GitHub as `pr_watch.py` sees it, and external: heads, workflow runs
(`queued` runs of a concurrency group have no check row), mergeability, the merge
with or without `--match-head-commit`.  PrWatch is one watcher: each `gh` call is
a step of its own, and between two of them anything may happen on GitHub.
MergeGate adds the hook before `gh pr merge`, merge-watch, the two callers of
`complete_on_merge` and the run row.

### RoleSession, ContextHandover

RoleSession is the session of a role, external except for the turn record its
hooks keep (`context_record.py`): lines wait in the pane, start a turn or join
one, and `/clear` opens a session that knows nothing.  What a session knows is a
set of inputs, input 0 being the conversation before the model starts; the
handover and late-input files are such sets too.  ContextHandover is the watcher:
`op` is `handover-op.json`, `pc` the point inside `tick` where it waits or stands
between two looks.  Whatever it types is one step that may take or not take, and
be seen to take or not.  It may die anywhere, and only `op`, the files and the
backoff survive; `Crash` also stands for an exception that ends a tick.  A line
does not wait in an idle pane as long as a restart takes (`Restart`).

### Gates: EventLog, SpawnGate, SelfEditApproval, RetroGate, CodexRoundCap

EventLog is what four gates share: run rows and the append-only events, an event's
place in the log being its time.

* *SpawnGate*: the dispatcher spawns, waits and asks `verify`; its reads, the append
  of `worker_spawn_verified` and the three steps of the worker record (read, compare,
  replace; three attempts) are actions of their own, between which the task may be
  spawned again and the secretary may write to the record.  The dispatcher may misspell
  a task, be wrong about a directory and quote any registered peer.
* *SelfEditApproval*: the file list is split into parts that fit the pane (`Widths`,
  `Heights`, cells per path); `send` types each part, looks at the composer, presses
  Enter and looks again, and records the approval once all parts went.
* *RetroGate*: the question to the secretary, the polling of messages, each verdict,
  the event, and the hook that lets `close_pane` through; a daemon restart gives pane
  ids out again.
* *CodexRoundCap*: `classify` as an operator over what it looks at in a command; the
  hook's lookup of the task, `BEGIN IMMEDIATE`, count, grant or denial, commit; the gate
  script's review; the secretary's raise.

### AcceptanceGate, CuratorArchive, WorkersMigration

* *AcceptanceGate*: the test commit must come first, fail in CI without the fix and
  pass with it, on one base, and the protected paths must stay as it left them.  Each
  read of GitHub (runs, then the jobs of the chosen run) is a step, while the branch is
  pushed or forced, the base moves (its new tip has the bug fixed on its own, the case
  that would look like a fix) and CI goes on.
* *CuratorArchive*: move, row, and the move back when the row cannot be updated; across
  devices the move is a copy and a delete; purge; two curators that may die anywhere.
* *WorkersMigration*: the plan's renames, among them a swap of two projects through an
  intermediate name, with a manifest entry before and after each; `--keep-compat`
  links; the rollback, which may die as well.

### Monitors: WatcherRestartGuard, WatchPane, QueueWatcher, QueueSidecar, PendingDecisions

* *WatcherRestartGuard*: `evaluate` over the rows of one pull request: pushes, launch
  rows (which the secretary writes after the launch, or after the end), the ends of
  watches, which do not say whose they are, and ends of foreign watches.  The greedy
  pairing of launches and ends is the code's.
* *WatchPane*: which pane is split, for the width and height that is left, the wait for
  the confirmation and the clean-up, when any call may be refused or its outcome be
  unknown.
* *QueueWatcher*: the broker's messages by number, free or claimed, with leases that run
  out, drains, restarts, and an enqueue whose record comes late; the credits the watcher
  keeps against the journal's deliveries, the backlog that was there when it started, and
  the threshold.  The ghost `clean` notes that nothing was on its way to the journal when
  it started (section 6 says why).
* *QueueSidecar*: the pid file, and `--stop` as check and kill.  A pid may be given out
  again at any time except between these two.  A stop that finds the process gone removes
  the file without a look (`StopComesLate`), one that killed it only if it names the pid.
* *PendingDecisions*: every command reads the whole register, and writes it by way of a
  temporary file whose name is the same for all: opening it empties what another command
  has in it, and the one that comes second to `os.replace` may find nothing there.  `torn`
  is the register after such a text was published; every command refuses it then.

### Work discovery: WorkDiscovery, CandidateRanking, GoalJudge

* *WorkDiscovery*: the scan's calls to two repositories one by one (issues, merged
  pulls, blocked-by references within and across), with truncation at the limits, while
  issues are closed and reopened and pulls merge.
* *CandidateRanking*: the sort key of the candidates and the cap key that picks the
  judge's batch, as definitions over issue records; an event changes one thing at a
  time, and the properties relate two successive scans.
* *GoalJudge*: cache by clauses and text, batches, the daily budget, the call, its
  failure and the cooldown file, with overlapping scans and deaths between the steps.

## 3. Runs

| Run | Shows | Size |
|---|---|---|
| `relay` | two overlapping sessions, two events, one row per scan, two faults: every property of the relay, its liveness, and that it implements the contract | 742k states |
| `writer` | two secretaries and the dispatcher on one run, two commits, one fault: reservation exactly once, files catch up, archive agrees with completion, implements RunTable, nobody waits for the lock for ever | 546k |
| `merge` | watcher, hook, human and command line on one pull request with two heads and two workflows, one of them in a queue | 747k |
| `handover` | two operations on either role's session, one input at any moment, a suspension, one death of the secretary's watcher: nothing lost in silence, an open conversation is spared, a cleared session is followed up | 246k |
| `assignment` | Delegation, BaseBranch, CandidateRanking, GoalJudge, WorkDiscovery | 1.90M |
| `gates` | SpawnGate, SelfEditApproval, CodexRoundCap, RetroGate, AcceptanceGate, CuratorArchive, WorkersMigration | 2.19M |
| `monitors` | WatcherRestartGuard, WatchPane, QueueWatcher, QueueSidecar, PendingDecisions | 3.77M |
| `delegation_two` | *violation*: two applies overlap and both get pattern A | |
| `terminal_final` | *violation*: a terminal run is revived | |
| `handover_again` | *violation*: a restarted watcher has the emptied dispatcher session overwrite its handover file | |
| `guard_late` | *violation*: watches that ended before their launches were recorded leave the guard at `live` | |
| `migrate_rollback` | *violation*: a migration that died between compat link and manifest entry is not rolled back | |

What the properties mean is written above each in its module.

### Bounds

All bounds are constants that appear in guards, so a run ends by using them up;
for this reason deadlock is not checked where the actors may have nothing left to
do.  They were chosen so that each bad case fits, and each is confirmed by the
mutants, which need it:

* *relay*: two events and a page of one row make a failing row block the other;
  two sessions overlap; two faults allow a death and a lost heartbeat, or a lost
  heartbeat and an audit that fails, in one history.  `StaleMin = 0` because the code's age test only keeps fresh rows from
  being called an outage, and time is modelled by the order of scans.
* *writer*: a lost update needs two writers, an overwrite of the derived file two
  commits; one fault is a death or a failing hook anywhere.  The proofs have no bound.
* *merge*: two heads are one push; a second workflow that waits in a queue is
  what rows alone do not show; `MaxTries = 1` keeps one repetition of the
  resolver's loop, whose attempts are alike.  With more heads the proofs take over.
* *handover*: one input is enough to be late in each way (in the turn before or
  after the file is written, or behind it); two operations show what one leaves to
  the next; one death is one restart at each stage.  The watcher of the dispatcher
  does not die in this run: when it does, `handover_again` applies.
  `DiesInGaps = FALSE` leaves out two deaths whose damage is known (hazard list):
  inside the write of the late-input file, and in `fail` before the report.
* *assignment*: pattern B needs two tasks, a base mismatch two bases, a conflict of
  files two applies of one task and one of another; four applies leave one more for a
  retry.  One task, two branches, two commits and three applies show a clone that is
  behind, a base that is gone and a reused worktree (two tasks with two applies
  were checked once, and the proof covers the rest).  Two repositories of one issue and
  two pulls, a window of one merge and three events are enough for an issue to lose a
  voice and gain another.  The judge has two scans, two calls and one text of
  one issue, over three hours and two days (with two texts the spending property was checked
  as well, in 1.6M states more).  For the scan one issue in each repository and a pull into
  each branch; its page limits are not reached, because
  a list that was cut excuses the scan.
* *gates*: two panes are a redispatch; two hooks and an allowance that is raised or
  lowered are a race; three CI runs are test, head and one more of either, on either
  base; two curators and two directories meet in one place; five commands of the
  migration are apply, death, rollback, death and again.
* *monitors*: two watchers, one foreign end and four rows; a tab that has room for one
  and one that has none; three messages with one restart of the broker; three pids and
  two brokers; two overlapping commands and two entries of one asker (three were checked
  once with the register as one step, and the proof has no bound).

Symmetry is used in the sum runs only over names that no part tells apart (tasks,
bases, hooks, callers); no liveness is checked there.

### Fairness

* *relay* (`ZeroMiss`): weak fairness of what a living session does on its own,
  because its `/loop 3m` schedule issues the cycle again.  Nothing makes a session
  come back: the property itself supposes that one is running again and again.
  Failed sends are among the bounded faults.
* *writer* (`EveryCallEnds`): a process that was started runs to its end; nothing
  makes one start, die or fail.
* *merge* (`EveryHeadIsJudged`): GitHub runs the workflows it accepted; those that
  wait in a concurrency group are started too, in the end, because the run before
  them ends.  The watcher takes its steps while it lives; it may be killed at any time.
* *handover* (`ClearedIsFollowedUp`): a living watcher takes its next step, because
  each of its waits has a timeout.  Nothing makes the session do anything, nor the
  watcher be started again: the property supposes that it is.

The gates, monitors and discovery tools are commands that somebody runs or not, so
nothing there must eventually happen; what a monitor owes is stated as what holds each
time it answers.  The one tool there that waits, the queue watcher, has its promise
stated as a bound on the clock (`NothingStagnates`).

## 4. Proofs

The proofs hold for any sets of sessions, tasks, heads, hooks and so on, and any
bounds.  What they assume of constants is stated as ASSUME in the modules (finite
sets of sessions and hooks, where something is counted over them).

* **OutboxRelayProofs.**  `TypeCorrect`; `LedgerTellsTruth` from the invariant that
  a session that is about to confirm has sent, and that what a ledger row calls
  delivered was received; `RelayImplementsContract` on top of it: each step of the
  relay is a step of DeliveryContract or leaves its variables alone.
  `SendsRecorded`: what is counted is not only what was sent but what may still be,
  `PromisesCovered` (messages in the inbox and sessions that will still send one are at
  most the attempts of the row).  `OutagesReportedFirst` needs `MissedIsSeen`, that an
  outage nobody has reported still shows in the heartbeat until a command stamps it that
  will tell (`Telling`): one whose audit found it or failed, and that has yet to print.  No command but one with such an audit stamps while an outage shows, save a
  plain `--list`, which the property gives up.
  `HaltsAreHonest` needs `HaltSeen`: of the events that a session saw before it
  writes the marker, the terminal ones are delivered, and stay so.
* **StateWriterProofs.**  `WriterInv` says that the write lock belongs to the one
  transaction that has written, and what each open transaction still knows of
  the committed row though others commit meanwhile (`RowFits`): from it `SentOnce`
  and `DispatchedStays`.  `FileInv` follows an archive
  intent from the statement that made it to the move: `CompletedArchived`,
  `ArchivedCompleted` and both together, `ArchiveFollows`.  `DerivedCaught` needs that
  no snapshot is newer than the database.  `WriterImplementsTable` uses both.
* **DelegationProofs.**  `DelegationTyped` and `DelegationKept` (a run is never
  repointed once its gate was set) hold for any number of overlapping applies.
  `ReservationsSendable`, `DirectoriesSeparate` and `BasesAgree` assume `OneApply`,
  one apply at a time, which the code takes for granted and the run
  `delegation_two` shows to be needed.  `FileInv` says which task owns the files
  of a directory at every point of an apply, including after an abort.
* **MergeGateProofs.**  `MergeInv`: what is vouched for, and what the hook let
  through, has a passed event with that full sha; from it `HookMergesVetted`,
  `CleanMergeConfirmed` and both, `MergesVetted`, with no assumption.
  `MergeRecordedOnce` assumes that the two callers of `complete_on_merge` do not
  overlap.  `HeadInv`: while heads only grow, a head that is read twice was there in
  between, so the rows of the verdict are its rows; from it `VerdictsDescribe`,
  `PassesFinished` and both, `VerdictsSound`, under `~Returns` (a branch that is
  forced away and back defeats the comparison of heads, see section 5).
* **ContextHandoverProofs.**  `HandoverTyped`; `ConversationSpared` from `SparedInv`:
  a secretary that was idle with nothing waiting in its pane has no `/clear` of an earlier
  operation before it, so nothing but the watcher's own can end the session while it
  looks, and what it saw stays true until a turn begins.
  `NothingIsLost`, that an operation done in silence has lost nothing, follows from
  `FollowInv`.  `ClearsKnown`, `HandoversKnown` and `InOrder` say which lines of the
  watcher's still wait in the pane at each stage: a `/clear` only from the time it is
  typed on until it takes effect, a handover line only before the file is found written,
  a resume of this operation only once it was announced; `NothingLeft`, that an operation
  starts with none of an earlier one before it.  So nothing but the handover turn writes
  the file (`SaidInFile`), and what reaches the old session is in the late-input file,
  and then in the session or reported as unread (`SaidLate`).  It assumes `CalmDeaths`,
  and says so: no death inside the writing of a file (hazard list), and none of the
  dispatcher's watcher, of which the run `handover_again` shows what it may do.  The
  secretary's may die at any other step, any number of times.
* **AssignmentProofs.**
  * `CutsSound` (BaseBranch).  `CutsInv` says for each apply what it knows of the
    origin (`Fresh`: a fetched ref is a tip the branch has had since the apply began, so
    is each ref the refspec covers unless it was missing) and what it will name (`Named`:
    the ref is the configured base or one the clone fetches, and only that is recorded).
    Fetches of other applies change the refs under a running one; they only make them
    newer, which is why `tips` is a set.
  * `SpendingStaysBounded` (GoalJudge).  `OneCall`: a call under way is announced in the
    failure file, and every other scan either began before it or has yet to look, on a
    clock at most a tick later, and will find it cooling.  `Budgeted`: the
    day of a scan that is past its look at the budget bears one more call, and what was
    really spent is at most what the file says, what the caller will still add and the
    lost lines.
  * `ProposalsStaySound` (WorkDiscovery).  The invariant relates each list of the scan to
    `seen`: what was read as open was open once since the scan began, what stayed open
    was read if its list was not cut, and a merge once made keeps its time and its text.
    That the newest of some merges decides needs the maximum of a finite set.
  * `RankingStaysSteady` (CandidateRanking).  `Remembers` says what the present still knows
    of the last scan: there was a time of update for each issue then, the one it has now
    if nobody commented since and earlier than its own and all others' if somebody did,
    and the issues that were not edited stand in the order of the keys they had with it.
    A scan compares two issues by the keys of today; `OrderTurns` shows that two keys with
    the same label, effort and milestone change their order only through their updates or
    the merges.  `OrderExists` and `InOrderIs` show that a finite set with keys of one
    length, no two alike, has an order and that `InOrder` is it.
    `ReportStands` (the batch and the blocked are those of today as long as nothing was
    edited or merged) holds because the key of the cap does not contain the update.
  * `AssignmentTyped`: the type invariant of the whole run, from the five parts' invariants,
    the delegation's from DelegationProofs.
* **GatesProofs.**
  * SpawnGate: `SpawnsTyped`; `VerifiedWorkersAreUp` for any number of dispatchers;
    `SpawnsAreAlwaysVerified` for one (`OneDispatcher`).  The second half is about the
    audit, which takes an event for a verification of the latest spawn when it is the
    later of the two.  With two dispatchers that is not so: one may spawn the task
    again after `verify` of the other has read the spawn and before it appends its
    event, and the audit is then silent about the second worker.  There is one
    dispatcher by design, so the runs and the theorem have one.
  * SelfEditApproval: `ApprovalsReachTheWorker`, with nobody else at the pane
    (`NoDisturbance`, what the tool's docstring excepts too).  `SendGoesRight` follows
    a send: the worker holds the parts sent so far, and the part under way is in its
    composer, or went with Enter.  `FlattenIs` says that the parts joined are the list
    that was split.
  * RetroGate: `ClosesAreJudged`, with no assumption on the panes or on restarts of the
    daemon (`OwnVerification`): the newest verification in the pane of a worker at work is
    its own, and the log judges no task
    after it that no gate was passed for, so what clears an earlier worker is older.
  * CuratorArchive: `ArchivesAreSafe`, for any number of curators.  `TargetIsHeld`: the
    target is of at most one curator that is past its move; `SourcesAreKnown`: a
    directory is away from its row's path only while a curator is to say so, or died;
    `ArchivedIsThere`: what a row says is archived is at the target for good.
  * CodexRoundCap: `ReviewsAreGranted`.  `LockHeld`: between BEGIN and commit a hook has
    the lock, so what it counted is still the count when it writes.  `RoundsCover`:
    reviews that ran and hooks that may still run one are at most the rounds granted.
  * AcceptanceGate: `PassesAreFixed`.  `Found` follows a gate from read to read: the head
    it took has one declaration, ahead of everything, as pinned, with the protected
    entries unchanged; the chosen runs are of its commits; a failure that was read is not
    taken back.  The failure shows that the base has the bug, the same base at the head
    that the success comes from the head's own commits, and the protected entries leave
    only the fix.
  * WorkersMigration: `MigrationsAreSafe`, for any number of commands and deaths.  The
    invariant has three parts.  `Placed`: each directory is at exactly one of its places, and no
    link is where one is looked for.
    `Stage(plan, compat, d)`: after d operations of a plan the tree is the one they make of the
    tree before it, up to the compatibility links.  `Manifest` and `Told` say which d:
    the manifest names the first operations of the plan, all done but the last, of
    which the paths must tell.  They tell it in every case but one, a link made and its
    entry not yet completed; `past.torn` marks it and the property excepts it
    (the finding `migrate_rollback`).
  * `GatesTyped`: the type invariant of the whole run, with no assumption of its own.
    The parts' invariants are combined by the `part` that never changes.
* **MonitorsProofs.**
  * `VerdictsAreHeld` (WatcherRestartGuard): the pairing of launches with ends is a function
    defined over the rows; `ClaimsAreBuilt` says that it exists and gives each launch the
    end the loop gives it, `LeftForAll` that enough ends are left for the launches of the
    watches that have ended.
  * `PanesStaySound` (WatchPane): a pane under the pull request's name is known to the
    script from the call that made it, whatever that call answered; the chosen direction
    has the room.
  * `StopsSpareOthers` (QueueSidecar) and `LatestQuestionsSpeak` (PendingDecisions).
  * `AlarmsStayRight` (QueueWatcher): the journal mostly counts and the broker holds
    messages, so the invariant ties one to the other.  `CountOK`: a scan of the whole
    journal finds as many messages, and the same claims, as the broker holds, but for the
    record in hand.  `WatchOK`: if the watcher read on now, its pending messages and what
    it has left of the old ones would again be what the broker holds.  Both are about
    functions defined by recursion over the journal; `TalliesOneMore` and `ReadsOneMore`
    say what one record more adds, and `SentInOrder` that the enqueue records stand in the
    order of the messages.
  * `MonitorsTyped`: the type invariant of the whole run, for any constants.

Checked and not proved are the liveness properties alone (`ZeroMiss`, `EveryCallEnds`,
`EveryHeadIsJudged`, `ClearedIsFollowedUp`): liveness under fairness is out of the prover's
reach.  Every safety and action property of a passing run is a theorem, under the
assumptions named above.

The library's induction theorems take an operator as a parameter, which the provers
cannot instantiate.  Where a proof needs induction over data all the same (a maximum, the
parts of a list joined, a function defined by recursion) it takes the least
counterexample, which a well-founded order has (`WFMin`, `NatLessThanWellFounded`).

## 5. Disagreements between code and documents

Five have a violation run; PROJECT.json quotes the lines.

1. `terminal_final`: the contract says a terminal row cannot come back because
   `task_id` is UNIQUE; `upsert_run` updates the row in place.
2. `delegation_two`: invariant I2 (one active pattern A run per project) relies on
   a second look at reservation time that is not there.
3. `handover_again`: a restart compares session ids so that a handover is not
   redone in an emptied session; a `/clear` that still waits behind a turn of the
   dispatcher passes that test.
4. `guard_late`: the greedy pairing of launches and ends is said never to answer
   `live` for ever; with two watches whose launches are recorded after their ends it does.
5. `migrate_rollback`: the manifest is written ahead of each rename so that a killed
   migration can be rolled back; with `--keep-compat` the link at the old path hides the
   rename from the probe.

Others were met while modelling, and are not runs of their own:

* A failed apply "can simply be re-applied" (`gen_delegate_payload.py:2330`), but for a
  registered local repository its own brief counts as residue (`:606`).
* Equal head reads "provably" show that a verdict belongs to the commit
  (`pr_watch.py:1902`); a branch forced away and back passes that test
  (`Returns = TRUE`).
* Derived files are promised fresh after every commit (contract I6, `snapshotter.py:3`);
  two hooks that overlap leave the older rendering, until the next commit.
* The worker record is "replaced atomically only if its bytes are still what was read"
  (`spawn_gate.py:632`); a line written between the compare (656) and the replace (658)
  is lost.
* `complete_on_merge` is called idempotent; two callers that overlap each record the
  merge (`Overlap = TRUE`).
* `origin/HEAD` is taken to name the live default branch (`gen_delegate_payload.py`,
  around 1575); a fetch does not follow its renaming or deletion.  CutsAreSound excepts a
  default branch that is missing at the origin.
* A lock of `.git/config` is looked at and removed in two steps, so one that a git took in
  between is removed although the code means to spare it.
* An empty `updatedAt` sorts as the newest, against the comment of `_neg_str`; only a file
  given with `--from-file` has one.
* The failure that is to keep a batch from being tried for an hour
  (`docs/design/work-discovery-triage.md`, 12.4.1) is kept in one file, so that of a later
  batch erases it.
* A reopened issue that a merge into the base branch had finished stays excluded; the case
  of a repository's name is not folded where a blocking reference is looked up.
* The preflight of the migration finds nothing to object to in a swap with
  `--keep-compat`, which then fails at its second step; and an apply that had nothing to
  move leaves a newer manifest, which the rollback takes.
* A halt marker "suppresses exactly one audit" (`relay_scan.py:406`); an audit that finds
  it gone when it comes to spend it takes that for spent (434), so of two audits that
  overlap both are excused.
* The purge selects an archived row and removes its directory later, also when the row was
  taken back to active in between.

## 6. Abstractions and what is not modelled

* Text: messages, briefs, markdown, screens and shell commands are reduced to
  what a property can tell apart.  The merge hook's classification of commands
  is left out, and the acceptance gate is "may answer anything" there: AcceptanceGate
  models it on its own.
* Time: timeouts are choices that are always possible; ages are orders of events, save
  in the queue watcher and the goal judge, which have small clocks.
* The branch of the acceptance gate starts empty: its commits come with pushes.
* Delegation takes one project, whose registry row is a URL, a local path or a
  mirror; pattern C and layout overrides are left out.  A queued run is abandoned
  only after the dispatcher refused it.  BaseBranch leaves out `git fetch --prune`
  by hand and submodules.
* PR watch: the delivery of the peer message and the start and abort notices.  In
  one race the code has no defence and the model no property: rows are read green,
  then the queued run fails before the workflow-runs API is read (hazard list).
* Relay: the text of the message and its verification against HEAD; other
  recipients in the same heartbeat file, so `write_heartbeat`, which replaces its own
  recipient's entry whatever it was, is one step.  One step are also: the reading of the
  rows and the stamp; the count of the backlog and the first read of the heartbeat; the
  time of a halt and the read before its write.  The temporary file of the heartbeat has
  one name, which is taken for a write that fails or a file that is lost, both faults.
  `OutageReportedFirst` gives up what the code does: a `--list` on its own renews the trace
  with no audit, and a command that dies after the stamp takes its finding with it.  An
  audit that failed is told of as a tool error, which says that something is wrong and not
  that events waited; the stamp that follows it hides the outage from the next audit.
* Spawn gate: one dispatcher in the run.  Of two, one may dispatch a task again between
  the other's read of the spawn (`spawn_gate.py:779`) and its append of the event, and
  the audit takes that event for a verification of the later spawn.
* Handover: inputs are distinct (the code drops the second of two with the same
  text); pane names, the composer and the home pane are the failure that typing a
  line may always have; the snapshot of runs and decisions may always differ.
* Self-edit approval: the run has no disturbance of the pane (`Disturbances = {}`).
  With a dialog over the composer between the look and Enter, somebody else who types, or
  keys of an earlier failed send that arrive late, audit is silent about a worker that
  was not told; the tool's docstring claims no more than what it can look at.
* Queue watcher: the property excepts a watcher that started while an enqueue was on its
  way to the journal (`clean`).  When the message was claimed before that record came,
  and another message was free, the trim of `secretary_queue_watcher.py:507-513` keeps
  the claim as an old one, and the credits are one off: that session may stay silent about
  the message.  TLC finds this when `clean` is taken out of `NothingStagnates`.
* PR panes: one run of `spawn_watch_pane.py` at a time for a pull request.  Of two that
  overlap each may look before the other has opened its pane; what comes of that is not
  modelled.
* Queue watcher: no property is about the alarm that tells of what a restart of the broker
  lost, only about the messages that still wait.
* Queue sidecar: `remove_pid_file` reads and removes the file in one step.  The watcher of another broker that was given a reused pid is signalled
  too; it runs the same script, so the property allows it.
* Pending decisions: overlapping commands undo each other's change (hazard list); the
  property is what the dispatcher and the notification rely on.  A text that two
  commands wrote into the same file is one of the two or unreadable, never a third
  register that reads well; a file that was published empty reads as no questions.
* Discovery: the learned effort, similarity of issues and the report; the pool of recent
  merges is taken as exactly the latest ones; blockers in repositories that are not
  scanned.  Of the judge, the parsing of its ledger.
* Curator archive: the test of a directory's modification time, which does not look at
  runs in use.  Migration: the repair of git worktrees, the count of active runs.
* Gates: the inbox file from which a retro is replayed, malformed rows of `list_peers`, the
  manifest's diff against the files it names.
* Not modelled at all: see the components with status `not_modelled`.  They render or
  parse text, read and print, classify one command or one screen, or install; none keeps
  state between two steps that could be taken out of order.

## 7. What would come next

1. An abstract promise of ContextHandover (what the session knew is known again, or
   reported) as a module it implements; two watchers; both roles on one operation file.
2. `NothingIsLost` for a dispatcher whose watcher dies where no `/clear` waits.
3. AcceptanceGate in the place of the arbitrary answer in MergeGate.
4. The relay with several recipients that share one heartbeat file.
