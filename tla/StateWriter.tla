---------------------------- MODULE StateWriter ----------------------------
(***************************************************************************)
(* Writing runs to state.db: StateWriter's transactions                    *)
(* (tools/state_db/writer.py) on a SQLite database in WAL mode, the three  *)
(* post-commit hooks (org-state.md, org-state.json, archiving of worker    *)
(* files), and the transactions that carry a run through its life: the T1  *)
(* reservation of gen_delegate_payload apply, the T2 upsert of the         *)
(* dispatcher, and the update_run_status calls of the secretary.           *)
(*                                                                         *)
(* A writer is a short-lived process.  BEGIN is deferred: a transaction    *)
(* whose first statement reads takes its snapshot there, and its first     *)
(* write fails at once ("database is locked") if another writer committed  *)
(* or is writing since; one whose first statement writes waits for the     *)
(* lock.  Writers die anywhere, statements and hooks fail; MaxFaults       *)
(* bounds how often.                                                       *)
(***************************************************************************)
EXTENDS Naturals, FiniteSets

CONSTANTS Secretaries,   \* processes started by the secretary
          dispatcher,    \* the process of the dispatcher, which runs one at a time
          Tasks,         \* task ids
          MaxCommits,    \* bound: commits after which no transaction is opened
          MaxFaults      \* bound: crashes, failed statements, failed hooks

ASSUME WriterAssumption == /\ dispatcher \notin Secretaries
                           /\ MaxCommits \in Nat
                           /\ MaxFaults \in Nat

Writers == Secretaries \union {dispatcher}

VARIABLES runs,      \* runs[t]: committed runs.status, "none" if there is no row
          sent,      \* sent[t]: number of committed delegate_sent events
          version,   \* number of commits so far: the state a snapshot shows
          lock,      \* the writers that hold the SQLite write lock: one at most
          file,      \* file[t]: where worker-{t}.md is
          shown,     \* shown[k]: version rendered in derived file k
          excuse,    \* ghost: k may be stale (a hook died, or was overtaken)
          drift,     \* ghost: tasks whose archiving was lost to a fault
          pc,        \* where each writer is
          call,      \* the transaction body each writer runs, on which task
          seen,      \* the version a writer's snapshot shows
          intent,    \* is the writer's _pending_worker_archives not empty
          faults     \* ghost: faults so far

dbVars == <<runs, sent, version>>
outVars == <<file, shown, excuse, drift>>
vars == <<runs, sent, version, lock, file, shown, excuse, drift,
          pc, call, seen, intent, faults>>

\* suspended and failed are statuses no code writes (contract table, T9).
Later == {"in_use", "review", "completed", "abandoned"}
Status == {"none", "queued"} \union Later

Derived == {"md", "json"}

Steps == {"idle", "begun", "read", "written", "md", "md_write", "json",
          "json_write", "drain", "move"}

\* The pcs at which a transaction is open.
InTransaction == {"begun", "read", "written"}

TypeOK ==
  /\ runs \in [Tasks -> Status]
  /\ sent \in [Tasks -> Nat]
  /\ version \in Nat
  /\ lock \subseteq Writers
  /\ file \in [Tasks -> {"none", "live", "archived"}]
  /\ shown \in [Derived -> Nat]
  /\ excuse \in [Derived -> BOOLEAN]
  /\ drift \subseteq Tasks
  /\ pc \in [Writers -> Steps]
  /\ call \in [Writers -> [body : {"apply", "dispatch", "status"},
                           task : Tasks, goal : Status]]
  /\ seen \in [Writers -> Nat]
  /\ intent \in [Writers -> BOOLEAN]
  /\ faults \in 0..MaxFaults

-----------------------------------------------------------------------------
\* Plausible bug: only terminal runs are refused.
ReappliableLoose(status) == status \in {"none", "queued", "in_use", "review"}

\* _assert_reappliable: no row, or a reservation that was not dispatched yet.
Reappliable(status) == status \in {"none", "queued"}

\* Plausible bug: every apply records the event.
NewEventsAlways(t) == 1

\* _has_delegate_sent: the event is recorded once per run.
NewEvents(t) == IF sent[t] > 0 THEN 0 ELSE 1

\* The transitions the contract lets the secretary write (T4 to T8).
SecretaryMay(from, to) ==
  <<from, to>> \in {<<"in_use", "review">>, <<"review", "completed">>,
                    <<"review", "in_use">>, <<"in_use", "abandoned">>,
                    <<"queued", "abandoned">>}

Init == /\ runs = [t \in Tasks |-> "none"]
        /\ sent = [t \in Tasks |-> 0]
        /\ version = 0
        /\ lock = {}
        /\ file = [t \in Tasks |-> "none"]
        /\ shown = [k \in Derived |-> 0]
        /\ excuse = [k \in Derived |-> FALSE]
        /\ drift = {}
        /\ pc = [w \in Writers |-> "idle"]
        /\ \E t \in Tasks :
             call = [w \in Writers |-> [body |-> "apply", task |-> t, goal |-> "queued"]]
        /\ seen = [w \in Writers |-> 0]
        /\ intent = [w \in Writers |-> FALSE]
        /\ faults = 0

Goto(w, step) == pc' = [pc EXCEPT ![w] = step]

Fault == faults < MaxFaults /\ faults' = faults + 1

Open(w, body, t, goal) ==
  /\ pc[w] = "idle" /\ version < MaxCommits
  /\ Goto(w, "begun")
  /\ call' = [call EXCEPT ![w] = [body |-> body, task |-> t, goal |-> goal]]

\* gen_delegate_payload apply: the preflight, then the files, then BEGIN.
OpenApply(w, t) ==
  /\ w \in Secretaries
  /\ Reappliable(runs[t])
  /\ Open(w, "apply", t, "queued")
  /\ UNCHANGED <<dbVars, outVars, lock, seen, intent, faults>>

\* The dispatcher received DELEGATE and spawned the worker; the helper has
\* written the worker file.
OpenDispatch(w, t) ==
  /\ w = dispatcher
  /\ runs[t] = "queued"
  /\ Open(w, "dispatch", t, "in_use")
  /\ file' = [file EXCEPT ![t] = "live"]
  /\ UNCHANGED <<dbVars, shown, excuse, drift, lock, seen, intent, faults>>

\* The secretary decides on a transition from what it knows of the run.  It
\* may leave an apply running, but takes its decisions one after the other.
OpenStatus(w, t, goal) ==
  /\ w \in Secretaries
  /\ \A x \in Secretaries : pc[x] \in InTransaction => call[x].body # "status"
  /\ SecretaryMay(runs[t], goal)
  /\ Open(w, "status", t, goal)
  /\ UNCHANGED <<dbVars, outVars, lock, seen, intent, faults>>

\* The first SELECT of a body that starts with one: the snapshot is taken.
Read(w) ==
  /\ pc[w] = "begun" /\ call[w].body # "status"
  /\ Goto(w, "read")
  /\ seen' = [seen EXCEPT ![w] = version]
  /\ UNCHANGED <<dbVars, outVars, lock, call, intent, faults>>

\* Plausible bug: an exception in the body leaves the transaction open.
UndoKeepsLock(w) ==
  /\ Goto(w, "idle")
  /\ intent' = [intent EXCEPT ![w] = FALSE]
  /\ UNCHANGED <<dbVars, outVars, lock, call, seen>>

\* What rollback() undoes: the lock, and the archive intents.
Undo(w) ==
  /\ Goto(w, "idle")
  /\ lock' = lock \ {w}
  /\ intent' = [intent EXCEPT ![w] = FALSE]
  /\ UNCHANGED <<dbVars, outVars, call, seen>>

\* The guard repeated inside the transaction refuses; while the snapshot is
\* current it sees what is committed.
Refuse(w) ==
  /\ pc[w] = "read" /\ seen[w] = version
  /\ call[w].body = "apply" /\ ~Reappliable(runs[call[w].task])
  /\ Undo(w)
  /\ UNCHANGED faults

\* SQLITE_BUSY: the snapshot is stale, or somebody is writing.
Locked(w) ==
  /\ pc[w] = "read"
  /\ seen[w] # version \/ lock # {}
  /\ Undo(w)
  /\ UNCHANGED faults

\* Plausible bug: the row changes but the file is not queued for archiving.
QueuesNothing(body, goal) == FALSE

\* update_run_status queues the archive move of a run it completes;
\* upsert_run never does.
QueuesArchive(body, goal) == body = "status" /\ goal = "completed"

\* The UPDATE, or the upsert with its event: the first write takes the lock.
Write(w) ==
  /\ \/ pc[w] = "begun" /\ call[w].body = "status"
     \/ /\ pc[w] = "read" /\ seen[w] = version
        /\ call[w].body = "apply" => Reappliable(runs[call[w].task])
  /\ lock = {}
  /\ lock' = {w}
  /\ Goto(w, "written")
  /\ intent' = [intent EXCEPT ![w] = @ \/ QueuesArchive(call[w].body, call[w].goal)]
  /\ UNCHANGED <<dbVars, outVars, call, seen, faults>>

\* A second update_run_status in the same transaction: a run can be toggled
\* through completed and back before it is committed.
WriteAgain(w, goal) ==
  /\ pc[w] = "written" /\ call[w].body = "status"
  /\ goal \in {"in_use", "review", "completed"} \ {call[w].goal}
  /\ runs[call[w].task] \in {"in_use", "review"}
  /\ call' = [call EXCEPT ![w].goal = goal]
  /\ intent' = [intent EXCEPT ![w] = @ \/ QueuesArchive("status", goal)]
  /\ UNCHANGED <<dbVars, outVars, pc, lock, seen, faults>>

\* An exception in the body, or the busy timeout of a waiting writer.
Rollback(w) ==
  /\ pc[w] \in InTransaction
  /\ Fault
  /\ Undo(w)

\* conn.commit(): the row is durable; the hooks follow.
Commit(w) ==
  LET t == call[w].task
  IN /\ pc[w] = "written"
     /\ runs' = [runs EXCEPT ![t] = call[w].goal]
     /\ sent' = [sent EXCEPT ![t] =
                   @ + IF call[w].body = "apply" THEN NewEvents(t) ELSE 0]
     /\ version' = version + 1
     /\ lock' = {}
     /\ Goto(w, "md")
     /\ UNCHANGED <<outVars, call, seen, intent, faults>>

\* Hook k reads the database ...
Render(w, k) ==
  /\ pc[w] = k
  /\ Goto(w, IF k = "md" THEN "md_write" ELSE "json_write")
  /\ seen' = [seen EXCEPT ![w] = version]
  /\ UNCHANGED <<dbVars, outVars, lock, call, intent, faults>>

\* Plausible bug: the archive hook is called by a name that does not exist.
AfterUnknown(k) == IF k = "md" THEN "json" ELSE "archive"

\* Plausible bug: the JSON hook is left out.
AfterSkips(k) == "drain"

After(k) == IF k = "md" THEN "json" ELSE "drain"

Writing(k) == IF k = "md" THEN "md_write" ELSE "json_write"

\* ... and replaces the file with what it rendered.  An older rendering may
\* overwrite a newer one.
Publish(w, k) ==
  /\ pc[w] = Writing(k)
  /\ Goto(w, After(k))
  /\ shown' = [shown EXCEPT ![k] = seen[w]]
  /\ excuse' = [excuse EXCEPT ![k] = seen[w] # version /\ (@ \/ shown[k] > seen[w])]
  /\ UNCHANGED <<dbVars, file, drift, lock, call, seen, intent, faults>>

\* Hook k fails: logged and swallowed.
HookFails(w, k) ==
  /\ pc[w] \in {k, Writing(k)}
  /\ Fault
  /\ Goto(w, After(k))
  /\ excuse' = [excuse EXCEPT ![k] = TRUE]
  /\ UNCHANGED <<dbVars, file, shown, drift, lock, call, seen, intent>>

\* Plausible bug: the queued intent is trusted without re-reading the row.
MovableTrusted(t) == file[t] = "live"

\* The committed status is re-read, and the file must be there.
Movable(t) == runs[t] = "completed" /\ file[t] = "live"

Drain(w) ==
  /\ pc[w] = "drain"
  /\ Goto(w, IF intent[w] /\ Movable(call[w].task) THEN "move" ELSE "idle")
  /\ intent' = [intent EXCEPT ![w] = FALSE]
  /\ UNCHANGED <<dbVars, outVars, lock, call, seen, faults>>

Move(w) ==
  /\ pc[w] = "move"
  /\ Goto(w, "idle")
  /\ file' = [file EXCEPT ![call[w].task] = "archived"]
  /\ UNCHANGED <<dbVars, shown, excuse, drift, lock, call, seen, intent, faults>>

\* os.replace fails: logged, the file is left in place.
MoveFails(w) ==
  /\ pc[w] = "move"
  /\ Fault
  /\ Goto(w, "idle")
  /\ drift' = drift \union {call[w].task}
  /\ UNCHANGED <<dbVars, file, shown, excuse, lock, call, seen, intent>>

\* The hooks writer w still owes derived file k.
Owes(w, k) == pc[w] \in {"md", "md_write"} \/ (k = "json" /\ pc[w] \in {"json", "json_write"})

\* The process is killed.  SQLite undoes an open transaction; the hooks and
\* the archive intents, which live in memory, are lost.
Crash(w) ==
  /\ pc[w] # "idle"
  /\ Fault
  /\ Goto(w, "idle")
  /\ lock' = lock \ {w}
  /\ intent' = [intent EXCEPT ![w] = FALSE]
  /\ excuse' = [k \in Derived |-> excuse[k] \/ Owes(w, k)]
  /\ drift' = IF pc[w] \notin InTransaction /\ (intent[w] \/ pc[w] = "move")
              THEN drift \union {call[w].task} ELSE drift
  /\ UNCHANGED <<dbVars, file, shown, call, seen>>

\* What a running process does on its own.
Proceed(w) == \/ Read(w) \/ Refuse(w) \/ Locked(w) \/ Write(w) \/ Commit(w)
              \/ \E k \in Derived : Render(w, k) \/ Publish(w, k)
              \/ Drain(w) \/ Move(w)

Next == \E w \in Writers :
          \/ \E t \in Tasks : \/ OpenApply(w, t) \/ OpenDispatch(w, t)
                              \/ \E s \in Later : OpenStatus(w, t, s)
          \/ \E s \in Later : WriteAgain(w, s)
          \/ Proceed(w) \/ Rollback(w) \/ Crash(w) \/ MoveFails(w)
          \/ \E k \in Derived : HookFails(w, k)

Spec == Init /\ [][Next]_vars

\* A process that was started runs to its end; nothing makes one start.
FairSpec == Spec /\ \A w \in Writers : WF_vars(Proceed(w))

-----------------------------------------------------------------------------
(* Properties                                                              *)

\* The T1 reservation and its delegate_sent event are all-or-nothing and
\* exactly-once, through repeated and concurrent applies, rollbacks and
\* crashes (_reserve_in_db).
SentOncePerRun == \A t \in Tasks : sent[t] = IF runs[t] = "none" THEN 0 ELSE 1

\* Contract I3: the worker file of a completed run is in the archive, unless
\* the writer that completed it has still to move it, or lost the move to a
\* fault.
CompletedIsArchived ==
  \A t \in Tasks :
    runs[t] = "completed" /\ file[t] = "live"
      => \/ t \in drift
         \/ \E w \in Writers : /\ call[w].task = t
                                /\ \/ pc[w] = "move"
                                   \/ pc[w] \notin InTransaction /\ intent[w]

\* Only the file of a run that is completed is put away, though the intent is
\* queued before the commit and spent long after it.
ArchivedIsCompleted ==
  \A t \in Tasks : file[t] = "archived" => runs[t] = "completed"

\* Contract I3, both ways.
ArchiveFollowsStatus == CompletedIsArchived /\ ArchivedIsCompleted

\* Writer w will publish the current version in derived file k.
WillShow(w, k) ==
  \/ Owes(w, k) /\ pc[w] # Writing(k)
  \/ pc[w] = Writing(k) /\ seen[w] = version

\* Contract I6, as far as it holds: a derived file shows the last commit, or a
\* running hook will make it so, or a hook died or was overtaken since.
DerivedCatchUp ==
  \A k \in Derived : \/ shown[k] = version
                     \/ excuse[k]
                     \/ \E w \in Writers : WillShow(w, k)

\* A run that left queued is never made a reservation again: a re-apply that
\* races the dispatcher is refused or fails, it does not resurrect the run.
NeverRequeued ==
  [][\A t \in Tasks : runs[t] \in Later => runs'[t] \in Later]_vars

\* No process waits for the write lock for ever.
EveryCallEnds == \A w \in Writers : pc[w] # "idle" ~> pc[w] = "idle"

\* Transactions, locks and hooks implement the table of runs.
Table == INSTANCE RunTable WITH
  sent     <- {t \in Tasks : sent[t] > 0},
  archived <- {t \in Tasks : file[t] = "archived"}

ImplementsRunTable == Table!TSpec

\* Contract I5: "Re-running a task with the same task_id is forbidden by the
\* runs.task_id UNIQUE constraint".  The upsert of T2 updates the row instead.
TerminalIsFinal ==
  [][\A t \in Tasks : runs[t] \in {"completed", "abandoned"} => runs'[t] = runs[t]]_vars

\* Contract I6 as written: when every hook has run, and none failed, the
\* derived files show the database.
DerivedAreFresh ==
  (\A w \in Writers : pc[w] = "idle") /\ faults = 0
    => \A k \in Derived : shown[k] = version
=============================================================================
