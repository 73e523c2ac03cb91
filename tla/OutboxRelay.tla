---------------------------- MODULE OutboxRelay ----------------------------
(***************************************************************************)
(* The outbox relay that guarantees the secretary hears of every terminal  *)
(* event: the events table, the event_deliveries ledger                    *)
(* (tools/state_db/writer.py), and the monitoring cycle of the dispatcher  *)
(* built on them (tools/relay_scan.py): audit, scan, record the attempts,  *)
(* send, record the outcome; and the designed stop of the loop.            *)
(*                                                                         *)
(* A dispatcher is an agent session that issues one command at a time.     *)
(* More than one may serve a recipient, because a session that was handed  *)
(* over can still be alive when its successor starts.  Sessions die        *)
(* between any two commands and inside them, sends, audits and scans fail, *)
(* and the heartbeat file, which each command reads, changes and replaces  *)
(* without a lock, can be unwritable or lost; MaxFaults bounds how often   *)
(* all of that happens together.                                           *)
(***************************************************************************)
EXTENDS Naturals, Sequences, FiniteSets

CONSTANTS Recipients,    \* recipient ids; "secretary" is the one in production
          Dispatchers,   \* dispatcher sessions
          Serves,        \* Serves[d]: the --recipient of session d
          Limit,         \* --limit of the scan; MaxEvents when it is not given
          Backfills,     \* the values of "is --since-hours 0 passed" a scan may take
          StaleMin,      \* age beyond which the trace of a scan is stale
          MaxEvents,     \* bound: events ever recorded
          MaxFaults      \* bound: deaths, failures, and audits run on their own

ASSUME ConstantsAssumption ==
         /\ Serves \in [Dispatchers -> Recipients]
         /\ Limit \in Nat \ {0}
         /\ Backfills \subseteq BOOLEAN
         /\ StaleMin \in Nat
         /\ MaxEvents \in Nat
         /\ MaxFaults \in Nat

ASSUME DispatchersAssumption == IsFiniteSet(Dispatchers)

VARIABLES events,      \* the events table in id order; id i is position i
          ledger,      \* event_deliveries: ledger[r][i], UNIQUE (source_event_id, recipient)
          heartbeat,   \* the entry of each recipient in relay-scan-heartbeat.json
          inbox,       \* inbox[r][i]: how many messages about event i reached r
          pc,          \* where each dispatcher session is in its command or cycle
          rows,        \* the surfaced ids the session has still to deal with
          exit,        \* exit code of the audit in the session's command, so far
          seen,        \* the entry a command has read and will write back
          cleared,     \* ghost: the number of events the halt precheck of d saw
          missed,      \* ghost: an outage of r that nobody was told of
          faults       \* ghost: faults so far

sessionVars == <<pc, rows, exit, seen, cleared>>
vars == <<events, ledger, heartbeat, inbox, sessionVars, missed, faults>>

Ids == 1..MaxEvents

\* "terminal": its kind is in TERMINAL_KINDS and it occurred after the ledger
\* epoch; "legacy": such a kind before the epoch; "other": any other kind.
EventClass == {"terminal", "legacy", "other"}

Row == [status : {"none", "pending", "delivered", "failed"}, attempt : Nat]

NoRow == [status |-> "none", attempt |-> 0]

\* last_scan_at as its age (one more than StaleMin stands for every older one)
\* and halted_at as a flag.
Trace == [scanned : BOOLEAN, age : 0..(StaleMin + 1), halted : BOOLEAN]

NoTrace == [scanned |-> FALSE, age |-> 0, halted |-> FALSE]

Steps == {"idle", "clear", "spend", "scan", "begin", "relay", "confirm", "refuse",
          "quiet", "halting", "marking", "halted", "down"}

\* The pcs at which a session is in no command of the relay and relays nothing.
OutOfCycle == {"idle", "quiet", "halted", "down"}

TypeOK ==
  /\ events \in Seq(EventClass) /\ Len(events) <= MaxEvents
  /\ ledger \in [Recipients -> [Ids -> Row]]
  /\ heartbeat \in [Recipients -> Trace]
  /\ inbox \in [Recipients -> [Ids -> Nat]]
  /\ pc \in [Dispatchers -> Steps]
  /\ rows \in [Dispatchers -> SUBSET Ids]
  /\ exit \in [Dispatchers -> {0, 2, 10}]
  /\ seen \in [Dispatchers -> Trace]
  /\ cleared \in [Dispatchers -> 0..MaxEvents]
  /\ missed \in [Recipients -> BOOLEAN]
  /\ faults \in 0..MaxFaults

-----------------------------------------------------------------------------
(* The ledger: what each statement of StateWriter does to one row.         *)

\* Plausible bug: a repeated attempt is not counted.
AttemptedOnce(row) == [status |-> IF row.status = "none" THEN "pending" ELSE row.status,
                       attempt |-> 1]

\* INSERT ... ON CONFLICT of begin_delivery_attempt: the status of an
\* existing row is kept.
Attempted(row) == [status  |-> IF row.status = "none" THEN "pending" ELSE row.status,
                   attempt |-> row.attempt + 1]

Delivered(row) == [status  |-> "delivered",
                   attempt |-> IF row.status = "none" THEN 1 ELSE row.attempt]

\* Plausible bug: a late failure report undoes a confirmed delivery.
FailedOverwrites(row) == [status  |-> "failed",
                          attempt |-> IF row.status = "none" THEN 1 ELSE row.attempt]

Failed(row) == [status  |-> IF row.status = "delivered" THEN "delivered" ELSE "failed",
                attempt |-> IF row.status = "none" THEN 1 ELSE row.attempt]

\* Plausible bug: only events without any row are surfaced.
SurfacesUntried(class, row, backfill) ==
  /\ class # "other"
  /\ row.status = "none"
  /\ class = "terminal" \/ backfill

\* The WHERE clause of pending_deliveries: a terminal kind, no delivered row,
\* and either at or after the floor or attempted before.
Surfaces(class, row, backfill) ==
  /\ class # "other"
  /\ row.status # "delivered"
  /\ class = "terminal" \/ backfill \/ row.status # "none"

Pending(r, backfill) ==
  {i \in 1..Len(events) : Surfaces(events[i], ledger[r][i], backfill)}

\* ORDER BY e.id ASC LIMIT n.
Page(ids) == {i \in ids : Cardinality({j \in ids : j < i}) < Limit}

Lowest(ids) == CHOOSE i \in ids : \A j \in ids : i <= j

-----------------------------------------------------------------------------
Init == /\ events \in {<<>>, <<"legacy">>} /\ Len(events) <= MaxEvents
        /\ ledger = [r \in Recipients |-> [i \in Ids |-> NoRow]]
        /\ heartbeat = [r \in Recipients |-> NoTrace]
        /\ inbox = [r \in Recipients |-> [i \in Ids |-> 0]]
        /\ pc = [d \in Dispatchers |-> "idle"]
        /\ rows = [d \in Dispatchers |-> {}]
        /\ exit = [d \in Dispatchers |-> 0]
        /\ seen = [d \in Dispatchers |-> NoTrace]
        /\ cleared = [d \in Dispatchers |-> 0]
        /\ missed = [r \in Recipients |-> FALSE]
        /\ faults = 0

Goto(d, step) == pc' = [pc EXCEPT ![d] = step]

At(d, step) == pc[d] = step

Fault == faults < MaxFaults /\ faults' = faults + 1

\* _write_heartbeat_file: either the entry of r becomes trace, or the write fails
\* and is swallowed.  The temporary file has one name for all writers: if two meet
\* there, the replace of one fails, or the file is garbage (HeartbeatLost).
Persist(r, trace, ok) ==
  IF ok THEN heartbeat' = [heartbeat EXCEPT ![r] = trace] /\ UNCHANGED faults
        ELSE UNCHANGED heartbeat /\ Fault

\* pr_watch, the hooks and the other tools append to the journal.
AppendEvent ==
  /\ Len(events) < MaxEvents
  /\ \E class \in {"terminal", "other"} : events' = Append(events, class)
  /\ UNCHANGED <<ledger, heartbeat, inbox, sessionVars, missed, faults>>

Broken(trace) == ~trace.scanned \/ trace.age > StaleMin

\* Plausible bug: every audit calls clear_halted and takes its "nothing left to
\* clear" for an excuse.
ExcusableAlways(trace) == TRUE

\* Only a halt that was recorded excuses the audit.
Excusable(trace) == trace.halted

\* First half of --cycle, also --audit: count the backlog and judge the trace left
\* by the last scan.  exit is the verdict unless a halt marker can be spent.
Audit(d) ==
  LET r == Serves[d]
      trace == heartbeat[r]
  IN /\ pc[d] \in {"idle", "quiet"}
     /\ exit' = [exit EXCEPT ![d] =
                   IF Broken(trace) /\ Pending(r, FALSE) # {} THEN 10 ELSE 0]
     /\ Goto(d, IF Excusable(trace) THEN "clear" ELSE "scan")
     /\ UNCHANGED <<events, ledger, heartbeat, inbox, rows, seen, cleared, missed, faults>>

\* clear_halted reads the entry again.  A marker that somebody else has removed in
\* the meantime counts as spent.
ClearHalted(d) ==
  LET trace == heartbeat[Serves[d]]
  IN /\ At(d, "clear")
     /\ \/ /\ trace.halted
           /\ seen' = [seen EXCEPT ![d] = trace]
           /\ Goto(d, "spend")
           /\ UNCHANGED exit
        \/ /\ ~trace.halted
           /\ exit' = [exit EXCEPT ![d] = 0]
           /\ Goto(d, "scan")
           /\ UNCHANGED seen
     /\ UNCHANGED <<events, ledger, heartbeat, inbox, rows, cleared, missed, faults>>

\* clear_halted writes back the entry it read, without the marker, over whatever
\* was written since.  The exemption is granted only if it could be spent.
SpendHalt(d) ==
  /\ At(d, "spend")
  /\ \E consumed \in BOOLEAN :
       /\ Persist(Serves[d], [seen[d] EXCEPT !.halted = FALSE], consumed)
       /\ exit' = [exit EXCEPT ![d] = IF consumed THEN 0 ELSE @]
  /\ seen' = [seen EXCEPT ![d] = NoTrace]
  /\ Goto(d, "scan")
  /\ UNCHANGED <<events, ledger, inbox, rows, cleared, missed>>

\* _safe_audit: the audit raises (a locked or broken database), which is exit 2,
\* and the cycle goes on to its scan.  Whatever can raise comes before clear_halted:
\* that one swallows its errors, and the commit after it has nothing to commit.
AuditFails(d) ==
  /\ pc[d] \in {"idle", "quiet"}
  /\ Fault
  /\ exit' = [exit EXCEPT ![d] = 2]
  /\ Goto(d, "scan")
  /\ UNCHANGED <<events, ledger, heartbeat, inbox, rows, seen, cleared, missed>>

\* The command of d prints its report: what its audit found, or that it failed.
Report(d) == /\ exit' = [exit EXCEPT ![d] = 0]
             /\ missed' = [missed EXCEPT ![Serves[d]] = @ /\ exit[d] = 0]

\* The command was an --audit on its own.
AuditReturns(d) ==
  /\ At(d, "scan")
  /\ Fault
  /\ Report(d)
  /\ Goto(d, "idle")
  /\ UNCHANGED <<events, ledger, heartbeat, inbox, rows, seen, cleared>>

\* write_heartbeat replaces the whole entry, whatever it was: a scan that ran ends
\* the halt.
Stamp(trace) == [scanned |-> TRUE, age |-> 0, halted |-> FALSE]

\* cmd_list, its first part: read the undelivered events and stamp the heartbeat.
ListPage(d) ==
  LET r == Serves[d]
  IN /\ \E backfill \in Backfills :
          rows' = [rows EXCEPT ![d] = Page(Pending(r, backfill))]
     /\ Goto(d, "begin")
     /\ \E ok \in BOOLEAN : Persist(r, Stamp(heartbeat[r]), ok)
     /\ UNCHANGED <<events, ledger, inbox, seen, cleared>>

\* Second half of --cycle, whatever the audit said.
Scan(d) == At(d, "scan") /\ ListPage(d) /\ UNCHANGED <<exit, missed>>

\* --list on its own asks no audit.  An outage it hides is hidden for good.
List(d) == /\ pc[d] \in {"idle", "quiet"}
           /\ ListPage(d)
           /\ missed' = [missed EXCEPT ![Serves[d]] = FALSE]
           /\ UNCHANGED exit

\* cmd_list, the rest: record an attempt for every surfaced event, in one
\* transaction that is committed before anything is sent, and print.
BeginAttempts(d) ==
  LET r == Serves[d]
  IN /\ At(d, "begin")
     /\ ledger' = [ledger EXCEPT ![r] =
                     [i \in Ids |-> IF i \in rows[d] THEN Attempted(@[i]) ELSE @[i]]]
     /\ Report(d)
     /\ Goto(d, IF rows[d] = {} THEN "quiet" ELSE "relay")
     /\ UNCHANGED <<events, heartbeat, inbox, rows, seen, cleared, faults>>

\* The scan half raises, before it has stamped the heartbeat or after: exit 2 with
\* the audit still printed.  Nothing of a transaction stays.
ListFails(d) ==
  /\ pc[d] \in {"scan", "begin"}
  /\ Fault
  /\ Report(d)
  /\ Goto(d, "idle")
  /\ rows' = [rows EXCEPT ![d] = {}]
  /\ UNCHANGED <<events, ledger, heartbeat, inbox, seen, cleared>>

\* send_message of one surfaced event reaches the recipient.
SendOk(d) ==
  /\ At(d, "relay")
  /\ inbox' = [inbox EXCEPT ![Serves[d]][Lowest(rows[d])] = @ + 1]
  /\ Goto(d, "confirm")
  /\ UNCHANGED <<events, ledger, heartbeat, rows, exit, seen, cleared, missed, faults>>

\* send_message is refused, e.g. [pane_not_found].
SendFails(d) ==
  /\ At(d, "relay")
  /\ Fault
  /\ Goto(d, "refuse")
  /\ UNCHANGED <<events, ledger, heartbeat, inbox, rows, exit, seen, cleared, missed>>

CurrentRow(d) == ledger[Serves[d]][Lowest(rows[d])]

\* Record the outcome of the send of the lowest surfaced event and go on.
Settle(d, outcome) ==
  LET i == Lowest(rows[d])
  IN /\ ledger' = [ledger EXCEPT ![Serves[d]][i] = outcome]
     /\ rows' = [rows EXCEPT ![d] = @ \ {i}]
     /\ Goto(d, IF rows[d] = {i} THEN "idle" ELSE "relay")
     /\ UNCHANGED <<events, heartbeat, inbox, exit, seen, cleared, missed, faults>>

MarkDelivered(d) == At(d, "confirm") /\ Settle(d, Delivered(CurrentRow(d)))

MarkFailed(d) == At(d, "refuse") /\ Settle(d, Failed(CurrentRow(d)))

\* Plausible bug: trust the runbook's last look at the relay set.
NothingPendingTrusted(r) == TRUE

NothingPending(r) == Pending(r, FALSE) = {}

\* --mark-halted, the re-check: exit 10 keeps the loop running.
HaltCheck(d) ==
  /\ At(d, "quiet")
  /\ IF NothingPending(Serves[d])
     THEN Goto(d, "halting") /\ cleared' = [cleared EXCEPT ![d] = Len(events)]
     ELSE Goto(d, "idle") /\ UNCHANGED cleared
  /\ UNCHANGED <<events, ledger, heartbeat, inbox, rows, exit, seen, missed, faults>>

\* write_halted reads the entry.
HaltRead(d) ==
  /\ At(d, "halting")
  /\ seen' = [seen EXCEPT ![d] = heartbeat[Serves[d]]]
  /\ Goto(d, "marking")
  /\ UNCHANGED <<events, ledger, heartbeat, inbox, rows, exit, cleared, missed, faults>>

\* It writes back the entry it read with halted_at added.  A write that fails is
\* exit 2: no designed stop.
HaltWrite(d) ==
  /\ At(d, "marking")
  /\ \E ok \in BOOLEAN :
       /\ Persist(Serves[d], [seen[d] EXCEPT !.halted = TRUE], ok)
       /\ Goto(d, IF ok THEN "halted" ELSE "idle")
  /\ seen' = [seen EXCEPT ![d] = NoTrace]
  /\ cleared' = [cleared EXCEPT ![d] = 0]
  /\ UNCHANGED <<events, ledger, inbox, rows, exit, missed>>

\* The re-check raises: exit 2, nothing is written.
HaltFails(d) ==
  /\ At(d, "quiet")
  /\ Fault
  /\ Goto(d, "idle")
  /\ UNCHANGED <<events, ledger, heartbeat, inbox, rows, exit, seen, cleared, missed>>

\* The session dies, or is stopped without --mark-halted.  If it has stamped the
\* heartbeat and not printed yet, what its audit found is lost with it.
Die(d) ==
  /\ pc[d] \notin {"down", "halted"}
  /\ Fault
  /\ Goto(d, "down")
  /\ rows' = [rows EXCEPT ![d] = {}]
  /\ exit' = [exit EXCEPT ![d] = 0]
  /\ seen' = [seen EXCEPT ![d] = NoTrace]
  /\ cleared' = [cleared EXCEPT ![d] = 0]
  /\ missed' = [missed EXCEPT ![Serves[d]] = @ /\ ~(At(d, "begin") /\ exit[d] # 0)]
  /\ UNCHANGED <<events, ledger, heartbeat, inbox>>

\* An operator starts the loop again.
Resume(d) ==
  /\ pc[d] \in {"down", "halted"}
  /\ Goto(d, "idle")
  /\ UNCHANGED <<events, ledger, heartbeat, inbox, rows, exit, seen, cleared, missed, faults>>

\* The heartbeat file is lost or unreadable: every entry reads as absent.
HeartbeatLost ==
  /\ Fault
  /\ heartbeat' = [r \in Recipients |-> NoTrace]
  /\ UNCHANGED <<events, ledger, inbox, sessionVars, missed>>

Older(trace) == IF trace.scanned /\ trace.age <= StaleMin
                THEN [trace EXCEPT !.age = @ + 1] ELSE trace

\* What the next audit calls a finding.
OutageShows(r) == Broken(heartbeat[r]) /\ ~heartbeat[r].halted /\ ~NothingPending(r)

\* Nobody runs the cycle of r, its trace is broken, events wait, and the loop
\* was not stopped on purpose.
Outage(r) == /\ OutageShows(r)
             /\ \A d \in Dispatchers : Serves[d] = r => pc[d] \in OutOfCycle

\* Time passes.
Tick ==
  /\ heartbeat' = [r \in Recipients |-> Older(heartbeat[r])]
  /\ seen' = [d \in Dispatchers |-> Older(seen[d])]
  /\ missed' = [r \in Recipients |-> missed[r] \/ Outage(r)]
  /\ <<heartbeat, seen, missed>>' # <<heartbeat, seen, missed>>
  /\ UNCHANGED <<events, ledger, inbox, pc, rows, exit, cleared, faults>>

\* What a session that is alive does on its own.
Work(d) == \/ Audit(d) \/ ClearHalted(d) \/ SpendHalt(d) \/ Scan(d) \/ BeginAttempts(d)
           \/ SendOk(d) \/ MarkDelivered(d) \/ MarkFailed(d) \/ HaltRead(d) \/ HaltWrite(d)

\* What it may be told to do, what fails, and what happens to it.
Other(d) == \/ HaltCheck(d) \/ List(d) \/ AuditReturns(d) \/ AuditFails(d) \/ ListFails(d)
            \/ SendFails(d) \/ HaltFails(d) \/ Die(d) \/ Resume(d)

Next == \/ AppendEvent \/ HeartbeatLost \/ Tick
        \/ \E d \in Dispatchers : Work(d) \/ Other(d)

Spec == Init /\ [][Next]_vars

\* A live session goes on with its cycle (the /loop 3m schedule re-issues it).
\* Nothing makes a session die, fail, halt or come back.
FairSpec == Spec /\ \A d \in Dispatchers : WF_vars(Work(d))

-----------------------------------------------------------------------------
(* Properties                                                              *)

\* The ledger says delivered only of what reached the recipient: marking
\* follows a confirmed send in every interleaving of sessions, deaths and
\* retries (begin_delivery_attempt, mark_delivered, the relay cycle).
DeliveredWasReceived ==
  \A r \in Recipients, i \in Ids :
    ledger[r][i].status = "delivered" => inbox[r][i] > 0

\* Every message sent was preceded by an attempt committed to the ledger: the
\* duplicates a recipient can see are bounded by the attempt column, whatever
\* session sent them.
SendsAreRecorded ==
  \A r \in Recipients, i \in Ids : inbox[r][i] <= ledger[r][i].attempt

\* A loop that died and left a backlog is told of before its trace is renewed: an
\* outage nobody was told of still shows in the heartbeat, or the command that has
\* just renewed it found the outage and is about to say so (exit 10), or could not
\* judge and is about to say that (exit 2).  This is what the order audit, then scan
\* of cmd_cycle is for.  Given up are a --list on its own and a command that dies
\* between the stamp and its report.
OutageReportedFirst ==
  \A r \in Recipients :
    missed[r] => \/ OutageShows(r)
                 \/ \E d \in Dispatchers : Serves[d] = r /\ At(d, "begin") /\ exit[d] # 0

\* A halt marker never excuses an event that was there when the halt was
\* checked: whatever is pending when the marker is written arrived after
\* the re-check of --mark-halted.
HaltHidesNothingOld ==
  [][\A d \in Dispatchers :
       pc[d] = "marking" /\ pc'[d] = "halted"
         => \A i \in Pending(Serves[d], FALSE) :
              events[i] = "legacy" \/ i > cleared[d]]_vars

\* An excuse leaves no marker behind to excuse another audit: an audit that starts
\* on a broken trace with a backlog and finds no marker says so, and one that takes
\* its finding back ends with no marker in the file, whatever other sessions wrote
\* between its reads and its write.
ExcuseIsSpent ==
  [][\A d \in Dispatchers :
       LET r == Serves[d] IN
         pc'[d] = "scan" /\ exit'[d] = 0 =>
           /\ pc[d] \in OutOfCycle => ~OutageShows(r)
           /\ exit[d] = 10 => ~heartbeat'[r].halted]_vars

\* A designed stop hides nothing of before it, and nothing once it has been used.
HaltIsHonest == HaltHidesNothingOld /\ ExcuseIsSpent

Running(r) == \E d \in Dispatchers : Serves[d] = r /\ pc[d] \notin {"down", "halted"}

\* Zero-miss: if the loop of r is always started again, every terminal event
\* that occurred after the ledger was born is eventually received by r and
\* settled, whatever deaths, failed sends and designed stops came between.
ZeroMiss ==
  \A r \in Recipients, i \in Ids :
    []<>Running(r) =>
      ((i <= Len(events) /\ events[i] = "terminal")
         ~> (ledger[r][i].status = "delivered" /\ inbox[r][i] > 0))

\* The relay implements the delivery contract: an event is settled only after
\* it was received, and for ever.
Contract == INSTANCE DeliveryContract WITH
  logged   <- 1..Len(events),
  received <- [r \in Recipients |-> {i \in Ids : inbox[r][i] > 0}],
  settled  <- [r \in Recipients |-> {i \in Ids : ledger[r][i].status = "delivered"}]

ImplementsContract == Contract!CSpec
=============================================================================
