----------------------------- MODULE SpawnGate -----------------------------
(***************************************************************************)
(* The spawn-completion gate (tools/spawn_gate.py).  A dispatcher spawns a *)
(* worker's pane, waits for the worker to register, and asks the gate      *)
(* (verify) for the report it sends; the monitoring loop asks (audit)      *)
(* which spawns never passed it.  The gate also completes the worker's     *)
(* record, which the secretary writes to as well.                          *)
(***************************************************************************)
EXTENDS EventLog

CONSTANTS Dispatchers, \* dispatcher sessions
          MaxPanes,    \* bound: panes that are ever spawned
          MaxNotes     \* bound: lines the secretary ever appends to a record

ASSUME SpawnAssumption == MaxPanes \in Nat /\ MaxNotes \in Nat

VARIABLES record,   \* record[t]: .state/workers/worker-<t>.md
          panes,    \* external: panes and what list_peers says of them
          pc,       \* pc[d]: where d stands in the ceremony and in verify
          job,      \* job[d]: the arguments of d's verify
          seen,     \* seen[d]: what verify read
          passed    \* ghost: panes whose own spawn was the latest when verify read it

spawnVars == <<runs, events, record, panes, pc, job, seen, passed>>

Panes == 1..MaxPanes
Notes == 1..MaxNotes
Slots == 0..MaxPanes

SpawnEvent == [kind : {"delegate_sent"}, task : Tasks, dir : Dirs]
         \union [kind : {"worker_spawned"}, task : Tasks, pane : Panes]
         \union [kind : {"worker_spawn_verified"}, task : Tasks, pane : Panes, peer : Slots,
                 evidence : {"list_peers", "send_delivery"}, background : BOOLEAN]
\* pane, started: header fields; dispatched: the Progress Log has the dispatch line;
\* log: its other lines
Record == [there : BOOLEAN, pane : Slots, started : BOOLEAN, status : {"planned", "active"},
           dispatched : BOOLEAN, log : SUBSET Notes]
Pane == [task : Tasks, cwd : Dirs, registered : BOOLEAN]
\* peer = 0: no --peer-* flag was given; byName: --peer-id is the registered name
Job == [task : Tasks, pane : Slots, peer : Slots, byName : BOOLEAN,
        evidence : {"list_peers", "send_delivery"}, background : BOOLEAN]
Seen == [before : Record, tries : 0..3]

SpawnTypeOK ==
  /\ runs \in [Tasks -> Run]
  /\ events \in Seq(SpawnEvent)
  /\ record \in [Tasks -> Record]
  /\ panes \in Seq(Pane) /\ Len(panes) <= MaxPanes
  /\ pc \in [Dispatchers -> {"idle", "events", "append", "read", "compare", "replace"}]
  /\ job \in [Dispatchers -> Job]
  /\ seen \in [Dispatchers -> Seen]
  /\ passed \subseteq Panes

NoRecord == [there |-> FALSE, pane |-> 0, started |-> FALSE, status |-> "planned",
             dispatched |-> FALSE, log |-> {}]
NoJob == [task |-> CHOOSE t \in Tasks : TRUE, pane |-> 0, peer |-> 0, byName |-> FALSE,
          evidence |-> "list_peers", background |-> FALSE]
NothingSeen == [before |-> NoRecord, tries |-> 0]

SpawnInit ==
  /\ runs = NoRuns
  /\ events = <<>>
  /\ record = [t \in Tasks |-> NoRecord]
  /\ panes = <<>>
  /\ pc = [d \in Dispatchers |-> "idle"]
  /\ job = [d \in Dispatchers |-> NoJob]
  /\ seen = [d \in Dispatchers |-> NothingSeen]
  /\ passed = {}

-----------------------------------------------------------------------------
(* What the events say                                                     *)

\* _delegate_sent_dir
DelegateSentDir(t) ==
  IF Of("delegate_sent", t) = {} THEN NoDir ELSE events[LatestEventAt("delegate_sent", t)].dir

-----------------------------------------------------------------------------
(* The secretary                                                           *)

\* apply (T1); a reservation by hand leaves no delegate_sent, or no record.
Delegate(t) ==
  /\ runs[t].status = "none"
  /\ \E dir \in Dirs, sent, there \in BOOLEAN :
       /\ runs' = [runs EXCEPT ![t] = [status |-> "queued", dir |-> dir]]
       /\ events' = IF sent THEN Append(events, DelegateSent(t, dir))
                            ELSE events
       /\ record' = [record EXCEPT ![t].there = there]
  /\ UNCHANGED <<panes, pc, job, seen, passed>>

\* The secretary appends a line to the Progress Log.
AppendNote(t) ==
  /\ record[t].there
  /\ \E n \in Notes :
       /\ \A k \in Notes : k < n => \E u \in Tasks : k \in record[u].log
       /\ \A u \in Tasks : n \notin record[u].log
       /\ record' = [record EXCEPT ![t].log = @ \union {n}]
  /\ UNCHANGED <<runs, events, panes, pc, job, seen, passed>>

Close(t) == /\ runs[t].status = "in_use"
            /\ runs' = [runs EXCEPT ![t].status = "completed"]
            /\ UNCHANGED <<events, record, panes, pc, job, seen, passed>>

-----------------------------------------------------------------------------
(* The dispatcher's ceremony                                               *)

\* spawn_pane and worker_spawned; the task may be misspelt, the directory wrong.
Spawn(d, t) ==
  /\ pc[d] = "idle" /\ Len(panes) < MaxPanes
  /\ runs[t].status \in {"none", "queued", "in_use"}
  /\ \E cwd \in Dirs : panes' = Append(panes, [task |-> t, cwd |-> cwd, registered |-> FALSE])
  /\ events' = Append(events, [kind |-> "worker_spawned", task |-> t, pane |-> Len(panes) + 1])
  /\ UNCHANGED <<runs, record, pc, job, seen, passed>>

\* The worker passes its prompts and appears in list_peers.
Register(p) ==
  /\ p \in DOMAIN panes /\ ~panes[p].registered
  /\ panes' = [panes EXCEPT ![p].registered = TRUE]
  /\ UNCHANGED <<runs, events, record, pc, job, seen, passed>>

\* Step 4: the dispatcher records the run as in_use, with the directory it believes in.
Adopt(d, t) ==
  /\ pc[d] = "idle" /\ runs[t].status = "queued" /\ Of("worker_spawned", t) # {}
  /\ \E dir \in Dirs : runs' = [runs EXCEPT ![t] = [status |-> "in_use", dir |-> dir]]
  /\ UNCHANGED <<events, record, panes, pc, job, seen, passed>>

-----------------------------------------------------------------------------
(* verify                                                                  *)

\* Mutant: any positive id opens the background gate.
BoundById(j) == j.evidence = "list_peers" /\ ~j.byName /\ j.peer # 0

\* The exact match that a background tab needs.
Bound(j) == j.evidence = "list_peers" /\ ~j.byName /\ j.peer = j.pane

\* The checks of the arguments alone.
Quoted(j) == /\ j.evidence = "list_peers" => j.peer # 0
             /\ j.background => Bound(j)
             /\ j.evidence # "list_peers" => j.peer = 0

\* The directory that the quoted cwd is compared with.
ExpectedDir(t) == IF DelegateSentDir(t) # NoDir THEN DelegateSentDir(t) ELSE runs[t].dir

\* run_row, worker_dir_known, worker_dir_divergence, peer_cwd, peer_name
DirsAgree(j) ==
  /\ runs[j.task].status # "none"
  /\ ExpectedDir(j.task) # NoDir
  /\ DelegateSentDir(j.task) # NoDir => DelegateSentDir(j.task) = runs[j.task].dir
  /\ j.evidence = "list_peers" =>
       panes[j.peer].cwd = ExpectedDir(j.task) /\ panes[j.peer].task = j.task

\* The dispatcher quotes a registered peer, or none; the name and the cwd are the
\* peer's.  A failed check changes nothing.
Verify(d, t) ==
  /\ pc[d] = "idle" /\ panes # <<>>
  /\ \E j \in Job :
       /\ j.task = t /\ j.pane \in DOMAIN panes
       /\ j.peer # 0 => j.peer \in DOMAIN panes /\ panes[j.peer].registered
       /\ Quoted(j) /\ DirsAgree(j)
       /\ job' = [job EXCEPT ![d] = j]
  /\ pc' = [pc EXCEPT ![d] = "events"]
  /\ UNCHANGED <<runs, events, record, panes, seen, passed>>

\* A verification counts only if it is not older than the latest spawn.
CoversCurrentSpawn(t) ==
  LatestEventAt("worker_spawn_verified", t) >= LatestEventAt("worker_spawned", t)

\* verify is over, or its process died, or the append failed.
Leaves(d) == /\ pc' = [pc EXCEPT ![d] = "idle"]
             /\ job' = [job EXCEPT ![d] = NoJob]
             /\ seen' = [seen EXCEPT ![d] = NothingSeen]

Moves(d, place) == pc' = [pc EXCEPT ![d] = place] /\ UNCHANGED job

ReadEvents(d) ==
  LET t == job[d].task spawned == LatestEventAt("worker_spawned", t) IN
  /\ pc[d] = "events"
  /\ IF spawned = 0
     THEN Leaves(d) /\ UNCHANGED passed
     ELSE /\ Moves(d, IF CoversCurrentSpawn(t) THEN "read" ELSE "append")
          /\ passed' = passed \union {events[spawned].pane}
          /\ UNCHANGED seen
  /\ UNCHANGED <<runs, events, record, panes>>

AppendVerifiedEvent(d) ==
  /\ pc[d] = "append"
  /\ LET j == job[d]
     IN events' = Append(events, SpawnVerified(j.task, j.pane, j.peer, j.evidence, j.background))
  /\ Moves(d, "read")
  /\ UNCHANGED <<runs, record, panes, seen, passed>>

Die(d) == pc[d] # "idle" /\ Leaves(d) /\ UNCHANGED <<runs, events, record, panes, passed>>

-----------------------------------------------------------------------------
(* The worker's record: read, compare, replace                             *)

\* _rewrite_worker_md
RewriteWorkerMd(r, p) ==
  [r EXCEPT !.pane = IF @ = 0 THEN p ELSE @, !.started = TRUE, !.status = "active",
            !.dispatched = TRUE]

ReadRecord(d) ==
  LET r == record[job[d].task] IN
  /\ pc[d] = "read"
  /\ IF r.there /\ RewriteWorkerMd(r, job[d].pane) # r
     THEN Moves(d, "compare") /\ seen' = [seen EXCEPT ![d].before = r]
     ELSE Leaves(d)
  /\ UNCHANGED <<runs, events, record, panes, passed>>

CompareRecord(d) ==
  /\ pc[d] = "compare"
  /\ \/ /\ record[job[d].task] = seen[d].before
        /\ Moves(d, "replace") /\ UNCHANGED seen
     \/ /\ record[job[d].task] # seen[d].before /\ seen[d].tries < 2
        /\ Moves(d, "read") /\ seen' = [seen EXCEPT ![d].tries = @ + 1]
     \/ /\ record[job[d].task] # seen[d].before /\ seen[d].tries = 2
        /\ Leaves(d)
  /\ UNCHANGED <<runs, events, record, panes, passed>>

ReplaceRecord(d) ==
  /\ pc[d] = "replace"
  /\ record' = [record EXCEPT ![job[d].task] = RewriteWorkerMd(seen[d].before, job[d].pane)]
  /\ Leaves(d)
  /\ UNCHANGED <<runs, events, panes, passed>>

-----------------------------------------------------------------------------
(* audit                                                                   *)

\* Mutant: a verification of an earlier dispatch of the task is enough.
UncoveredAtAll(t) == Of("worker_spawn_verified", t) = {}

Uncovered(t) == ~CoversCurrentSpawn(t)

\* Spawns inside the grace time, before the gate's epoch or of finished runs are
\* left out; a task that was never delegated is listed apart.
Reportable(t, cutoff, since) ==
  LET spawned == LatestEventAt("worker_spawned", t)
  IN /\ spawned # 0 /\ Uncovered(t)
     /\ spawned <= cutoff /\ spawned >= since
     /\ runs[t].status # "completed"

Malformed(t) == runs[t].status = "none" /\ Of("delegate_sent", t) = {}

\* The findings of an audit with these bounds.
Findings(cutoff, since) == {t \in Tasks : Reportable(t, cutoff, since) /\ ~Malformed(t)}

-----------------------------------------------------------------------------
SpawnNext ==
  \/ \E t \in Tasks : Delegate(t) \/ AppendNote(t) \/ Close(t)
  \/ \E d \in Dispatchers, t \in Tasks : Spawn(d, t) \/ Adopt(d, t) \/ Verify(d, t)
  \/ \E p \in Panes : Register(p)
  \/ \E d \in Dispatchers : \/ ReadEvents(d) \/ AppendVerifiedEvent(d) \/ Die(d)
                            \/ ReadRecord(d) \/ CompareRecord(d) \/ ReplaceRecord(d)

SpawnSpec == SpawnInit /\ [][SpawnNext]_spawnVars

-----------------------------------------------------------------------------
(* Properties                                                              *)

\* A verification that quotes a peer speaks of a worker of that task that is up in
\* the directory the secretary recorded, whatever directory the dispatcher wrote to
\* the run; for a background tab, of the very pane that was spawned.
VerifiedWorkerIsUp ==
  \A i \in DOMAIN events :
    LET e == events[i] IN
    e.kind = "worker_spawn_verified" /\ e.evidence = "list_peers" =>
      /\ panes[e.peer].registered /\ panes[e.peer].task = e.task
      /\ DelegateSentDir(e.task) \in {NoDir, panes[e.peer].cwd}
      /\ e.background => panes[e.pane].registered /\ panes[e.pane].task = e.task

\* audit reports a spawn that is neither too young nor too old nor of a finished or
\* unknown task, unless it was the latest spawn of its task when a verification passed:
\* a verification of an earlier dispatch does not hide it.
SilenceMeansVerified ==
  \A t \in Tasks :
    LET spawned == LatestEventAt("worker_spawned", t)
    IN /\ runs[t].status # "completed" /\ ~Malformed(t)
       /\ spawned # 0 /\ events[spawned].pane \notin passed
       => \A cutoff \in spawned..Len(events), since \in 1..spawned :
            t \in Findings(cutoff, since)

\* The gate lets no wrong worker through, and its audit no unverified one.
SpawnsAreVerified == VerifiedWorkerIsUp /\ SilenceMeansVerified
=============================================================================
