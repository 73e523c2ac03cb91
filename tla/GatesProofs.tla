----------------------------- MODULE GatesProofs -----------------------------
(***************************************************************************)
(* What the gates promise, for any tasks, panes, hooks, directories and    *)
(* events: the log they share only grows, and the latest event of a kind   *)
(* speaks for a task.                                                      *)
(***************************************************************************)
EXTENDS MCGates, Integers, FiniteSetTheorems, SequenceTheorems, WellFoundedInduction, TLAPS

-----------------------------------------------------------------------------
(* Numbers and the log                                                     *)

\* Every set of numbers has a least one.
LEMMA LeastExists ==
  ASSUME NEW S, S \subseteq Nat, S # {}
  PROVE  \E k \in S : \A m \in S : k <= m
<1> DEFINE R == OpToRel(<, Nat)
<1>1. IsWellFoundedOn(R, Nat) BY NatLessThanWellFounded
<1>2. \A x, y \in Nat : y < x => <<y, x>> \in R BY DEF OpToRel
<1> HIDE DEF R
<1>3. PICK k \in S : \A y \in S : <<y, k>> \notin R BY <1>1, WFMin
<1>4. ASSUME NEW m \in S PROVE k <= m
  <2>1. k \in Nat /\ m \in Nat OBVIOUS
  <2>2. ~(m < k) BY <1>2, <1>3, <2>1
  <2> QED BY <2>1, <2>2
<1> QED BY <1>4

\* Every set of numbers that is bounded has a greatest one.
LEMMA LatestExists ==
  ASSUME NEW n \in Nat, NEW S \in SUBSET (1..n), S # {}
  PROVE  \E k \in S : \A m \in S : m <= k
<1> DEFINE Bounds == {bound \in Nat : \A m \in S : m <= bound}
<1>1. n \in Bounds OBVIOUS
<1>2. PICK bound \in Bounds : \A c \in Bounds : bound <= c BY <1>1, LeastExists
<1>3. bound \in S
  <2> SUFFICES ASSUME bound \notin S PROVE FALSE OBVIOUS
  <2>1. bound # 0
    <3>1. PICK m \in S : TRUE OBVIOUS
    <3> QED BY <3>1
  <2>2. bound - 1 \in Bounds
    <3>1. ASSUME NEW m \in S PROVE m <= bound - 1
      <4>1. m <= bound /\ m # bound /\ m \in Nat OBVIOUS
      <4> QED BY <4>1
    <3> QED BY <2>1, <3>1
  <2> QED BY <1>2, <2>2
<1> QED BY <1>3

\* An append adds one event and leaves the others.
LEMMA LogGrows ==
  ASSUME NEW E, events \in Seq(E), NEW e \in E, events' = Append(events, e)
  PROVE  /\ Len(events) \in Nat /\ DOMAIN events = 1..Len(events) /\ events' \in Seq(E)
         /\ Len(events') = Len(events) + 1 /\ DOMAIN events' = 1..(Len(events) + 1)
         /\ \A i \in DOMAIN events : events'[i] = events[i]
         /\ events'[Len(events) + 1] = e
OBVIOUS

LEMMA LogOf ==
  ASSUME NEW E, events \in Seq(E), NEW e \in E, events' = Append(events, e), NEW t, NEW kind
  PROVE  /\ e.kind = kind /\ e.task = t => Of(kind, t)' = Of(kind, t) \union {Len(events) + 1}
         /\ ~(e.kind = kind /\ e.task = t) => Of(kind, t)' = Of(kind, t)
BY LogGrows DEF Of

\* The latest event of a kind and a task is one, and none is later.
LEMMA LatestIsLatest ==
  ASSUME NEW E, events \in Seq(E), NEW t, NEW kind
  PROVE  /\ Of(kind, t) = {} => LatestEventAt(kind, t) = 0
         /\ Of(kind, t) # {} => /\ LatestEventAt(kind, t) \in Of(kind, t)
                                /\ LatestEventAt(kind, t) \in DOMAIN events
         /\ LatestEventAt(kind, t) \in 0..Len(events)
         /\ \A i \in Of(kind, t) : i <= LatestEventAt(kind, t)
<1>1. Of(kind, t) \in SUBSET (1..Len(events)) /\ Len(events) \in Nat BY DEF Of
<1>2. Of(kind, t) # {} => \E i \in Of(kind, t) : \A j \in Of(kind, t) : j <= i
  BY <1>1, LatestExists
<1> DEFINE of == Of(kind, t)
<1>3. LatestEventAt(kind, t) = IF of = {} THEN 0 ELSE CHOOSE i \in of : \A j \in of : j <= i
  BY DEF LatestEventAt
<1> HIDE DEF of
<1>4. CASE of = {} BY <1>1, <1>3, <1>4 DEF of
<1>5. CASE of # {}
  <2>1. /\ LatestEventAt(kind, t) \in of
        /\ \A i \in of : i <= LatestEventAt(kind, t)
    BY <1>2, <1>3, <1>5 DEF of
  <2> QED BY <1>1, <1>5, <2>1 DEF of
<1> QED BY <1>4, <1>5

\* What is not appended leaves the latest event as it was; what is becomes the latest.
LEMMA LatestStays ==
  ASSUME NEW E, events \in Seq(E), NEW e \in E, events' = Append(events, e), NEW t, NEW kind
  PROVE  /\ e.kind = kind /\ e.task = t => LatestEventAt(kind, t)' = Len(events) + 1
         /\ ~(e.kind = kind /\ e.task = t) => LatestEventAt(kind, t)' = LatestEventAt(kind, t)
<1>1. CASE ~(e.kind = kind /\ e.task = t)
  <2>1. Of(kind, t)' = Of(kind, t) BY <1>1, LogOf
  <2> QED BY <1>1, <2>1 DEF LatestEventAt
<1>2. CASE e.kind = kind /\ e.task = t
  <2> DEFINE n == Len(events) + 1
             then == Of(kind, t)'
             last == CHOOSE i \in then : \A j \in then : j <= i
  <2>1. then = Of(kind, t) \union {n} BY <1>2, LogOf
  <2>2. Of(kind, t) \in SUBSET (1..Len(events)) /\ n \in Nat BY DEF Of
  <2>3. LatestEventAt(kind, t)' = IF then = {} THEN 0 ELSE last BY DEF LatestEventAt
  <2>4. \A j \in then : j <= n /\ j \in Nat BY <2>1, <2>2
  <2> HIDE DEF then, n
  <2>5. n \in then BY <2>1
  <2>6. last \in then /\ \A j \in then : j <= last BY <2>4, <2>5
  <2> HIDE DEF last
  <2>7. last = n BY <2>2, <2>4, <2>5, <2>6
  <2> QED BY <1>2, <2>3, <2>5, <2>7 DEF n
<1> QED BY <1>1, <1>2

-----------------------------------------------------------------------------
(* SpawnGate                                                               *)

\* What the checks of verify have established, of its arguments and of the event it appends:
\* all of it stays true.
Shown(j) ==
  /\ runs[j.task].status # "none" /\ j.pane \in DOMAIN panes
  /\ j.evidence = "list_peers" =>
       /\ j.peer \in DOMAIN panes /\ panes[j.peer].registered /\ panes[j.peer].task = j.task
       /\ DelegateSentDir(j.task) \in {NoDir, panes[j.peer].cwd}
  /\ j.background => j.evidence = "list_peers" /\ j.peer = j.pane

IsVerified(i) == events[i].kind = "worker_spawn_verified"

ShownInv == /\ SpawnTypeOK
            /\ \A d \in Dispatchers : pc[d] # "idle" => Shown(job[d])
            /\ \A i \in DOMAIN events : IsVerified(i) => Shown(events[i])

\* What verify may still append, and what covers a spawn, is of a spawn that was the latest
\* one when verify read it.
LatestPassed(t) == LatestEventAt("worker_spawned", t) # 0
                   /\ events[LatestEventAt("worker_spawned", t)].pane \in passed
PassInv ==
  /\ \A d \in Dispatchers : pc[d] = "append" => LatestPassed(job[d].task)
  /\ \A t \in Tasks : LatestEventAt("worker_spawned", t) # 0 /\ CoversCurrentSpawn(t) => LatestPassed(t)

\* The organisation has one dispatcher session, whose calls follow one another.
OneDispatcher == \A d, e \in Dispatchers : d = e

-----------------------------------------------------------------------------

LEMMA SpawnInitHolds == SpawnInit => ShownInv /\ PassInv
<1> SUFFICES ASSUME SpawnInit PROVE ShownInv /\ PassInv OBVIOUS
<1>1. PICK t \in Tasks : t = CHOOSE u \in Tasks : TRUE BY EventLogAssumption
<1>2. NoJob \in Job BY <1>1, SpawnAssumption DEF NoJob, Job, Slots
<1>3. NoRecord \in Record BY SpawnAssumption DEF NoRecord, Record, Slots
<1>4. NothingSeen \in Seen BY <1>3 DEF NothingSeen, Seen
<1>5. NoRuns \in [Tasks -> Run] BY DEF NoRuns, Run, Statuses
<1>6. SpawnTypeOK BY <1>2, <1>3, <1>4, <1>5, SpawnAssumption DEF SpawnInit, SpawnTypeOK
<1>7. DOMAIN events = {} BY DEF SpawnInit
<1>8. \A u \in Tasks : LatestEventAt("worker_spawned", u) = 0 BY <1>7 DEF LatestEventAt, Of
<1> QED BY <1>6, <1>7, <1>8 DEF SpawnInit, ShownInv, PassInv

LEMMA RewriteTyped ==
  ASSUME NEW r \in Record, NEW p \in Slots
  PROVE  RewriteWorkerMd(r, p) \in Record
BY DEF RewriteWorkerMd, Record

\* Panes are only added, and registered; runs never go back to none.
Grows == /\ Len(panes') >= Len(panes) /\ DOMAIN panes \subseteq DOMAIN panes'
         /\ \A p \in DOMAIN panes : /\ panes'[p].task = panes[p].task
                                    /\ panes'[p].cwd = panes[p].cwd
                                    /\ panes[p].registered => panes'[p].registered
         /\ \A t \in Tasks : runs[t].status # "none" => runs'[t].status # "none"

\* A reservation is the first thing the log says of its task.
LEMMA SpawnTyped ==
  ASSUME ShownInv, SpawnNext
  PROVE  SpawnTypeOK' /\ Grows
<1> USE SpawnAssumption
<1>1. /\ SpawnTypeOK /\ runs \in [Tasks -> Run] /\ events \in Seq(SpawnEvent)
      /\ record \in [Tasks -> Record] /\ panes \in Seq(Pane) /\ Len(panes) <= MaxPanes
      /\ job \in [Dispatchers -> Job] /\ seen \in [Dispatchers -> Seen]
      /\ pc \in [Dispatchers -> {"idle", "events", "append", "read", "compare", "replace"}]
      /\ passed \subseteq Panes
  BY DEF ShownInv, SpawnTypeOK
<1>2. NoJob \in Job
  <2>1. PICK t \in Tasks : t = CHOOSE u \in Tasks : TRUE BY EventLogAssumption
  <2> QED BY <2>1 DEF NoJob, Job, Slots
<1>3. NothingSeen \in Seen BY DEF NothingSeen, Seen, NoRecord, Record, Slots
<1>4. ASSUME NEW t \in Tasks, Delegate(t) PROVE SpawnTypeOK' /\ Grows
  <2>1. PICK dir \in Dirs, told \in BOOLEAN, there \in BOOLEAN :
          /\ runs' = [runs EXCEPT ![t] = [status |-> "queued", dir |-> dir]]
          /\ events' = IF told THEN Append(events, DelegateSent(t, dir)) ELSE events
          /\ record' = [record EXCEPT ![t].there = there]
    BY <1>4 DEF Delegate
  <2>2. DelegateSent(t, dir) \in SpawnEvent BY DEF DelegateSent, SpawnEvent
  <2>3. events' \in Seq(SpawnEvent) BY <1>1, <2>1, <2>2
  <2>4. runs' \in [Tasks -> Run] BY <1>1, <2>1 DEF Run, Statuses
  <2>5. record' \in [Tasks -> Record] BY <1>1, <2>1, SMTT(30) DEF Record
  <2>6. UNCHANGED <<panes, pc, job, seen, passed>> BY <1>4 DEF Delegate
  <2>7. Grows BY <1>1, <2>1, <2>6 DEF Grows
  <2> QED BY <1>1, <2>3, <2>4, <2>5, <2>6, <2>7 DEF SpawnTypeOK
<1>5. ASSUME NEW t \in Tasks, AppendNote(t) PROVE SpawnTypeOK' /\ Grows
  <2>1. PICK n \in Notes : record' = [record EXCEPT ![t].log = @ \union {n}]
    BY <1>5 DEF AppendNote
  <2>2. record' \in [Tasks -> Record] BY <1>1, <2>1 DEF Record
  <2> QED BY <1>1, <1>5, <2>2 DEF SpawnTypeOK, Grows, AppendNote
<1>6. ASSUME NEW t \in Tasks, Close(t) PROVE SpawnTypeOK' /\ Grows
  <2>1. runs' \in [Tasks -> Run] BY <1>1, <1>6 DEF Close, Run, Statuses
  <2>2. \A u \in Tasks : runs[u].status # "none" => runs'[u].status # "none"
    BY <1>1, <1>6 DEF Close
  <2> QED BY <1>1, <1>6, <2>1, <2>2 DEF SpawnTypeOK, Grows, Close
<1>7. ASSUME NEW d \in Dispatchers, NEW t \in Tasks, Spawn(d, t) PROVE SpawnTypeOK' /\ Grows
  <2>1. PICK cwd \in Dirs : panes' = Append(panes, [task |-> t, cwd |-> cwd, registered |-> FALSE])
    BY <1>7 DEF Spawn
  <2>2. Len(panes) + 1 \in Panes BY <1>1, <1>7 DEF Spawn, Panes
  <2>3. /\ panes' \in Seq(Pane) /\ Len(panes') = Len(panes) + 1
        /\ \A p \in DOMAIN panes : p \in DOMAIN panes' /\ panes'[p] = panes[p]
    BY <1>1, <2>1 DEF Pane
  <2>4. events' \in Seq(SpawnEvent)
    <3>1. [kind |-> "worker_spawned", task |-> t, pane |-> Len(panes) + 1] \in SpawnEvent
      BY <2>2 DEF SpawnEvent
    <3> QED BY <1>1, <1>7, <3>1 DEF Spawn
  <2>5. UNCHANGED <<runs, record, pc, job, seen, passed>> /\ Len(panes) < MaxPanes
    BY <1>7 DEF Spawn
  <2> QED BY <1>1, <2>3, <2>4, <2>5 DEF SpawnTypeOK, Grows
<1>8. ASSUME NEW d \in Dispatchers, NEW t \in Tasks, Adopt(d, t) PROVE SpawnTypeOK' /\ Grows
  <2>1. PICK dir \in Dirs : runs' = [runs EXCEPT ![t] = [status |-> "in_use", dir |-> dir]]
    BY <1>8 DEF Adopt
  <2>2. runs' \in [Tasks -> Run] BY <1>1, <2>1 DEF Run, Statuses
  <2>3. \A u \in Tasks : runs[u].status # "none" => runs'[u].status # "none" BY <1>1, <2>1
  <2> QED BY <1>1, <1>8, <2>2, <2>3 DEF SpawnTypeOK, Grows, Adopt
<1>9. ASSUME NEW d \in Dispatchers, NEW t \in Tasks, Verify(d, t) PROVE SpawnTypeOK' /\ Grows
  <2>1. PICK j \in Job : job' = [job EXCEPT ![d] = j] BY <1>9 DEF Verify
  <2> QED BY <1>1, <1>9, <2>1 DEF SpawnTypeOK, Grows, Verify
<1>10. ASSUME NEW p \in Panes, Register(p) PROVE SpawnTypeOK' /\ Grows
  <2>1. /\ p \in DOMAIN panes /\ panes' = [panes EXCEPT ![p].registered = TRUE]
    BY <1>10 DEF Register
  <2>2. panes' \in Seq(Pane) /\ Len(panes') = Len(panes)
    <3>1. panes[p] \in Pane BY <1>1, <2>1
    <3>2. [panes[p] EXCEPT !.registered = TRUE] \in Pane BY <3>1 DEF Pane
    <3>3. panes' = [panes EXCEPT ![p] = [panes[p] EXCEPT !.registered = TRUE]] BY <2>1
    <3> QED BY <1>1, <2>1, <3>2, <3>3
  <2>3. \A q \in DOMAIN panes : /\ panes'[q].task = panes[q].task
                                /\ panes'[q].cwd = panes[q].cwd
                                /\ panes[q].registered => panes'[q].registered
    BY <1>1, <2>1 DEF Pane
  <2> QED BY <1>1, <1>10, <2>1, <2>2, <2>3 DEF SpawnTypeOK, Grows, Register
<1>11. ASSUME NEW d \in Dispatchers, ReadEvents(d) PROVE SpawnTypeOK' /\ Grows
  <2> DEFINE spawned == LatestEventAt("worker_spawned", job[d].task)
  <2>1. spawned # 0 => events[spawned].pane \in Panes
    <3>1. spawned # 0 => spawned \in Of("worker_spawned", job[d].task) /\ spawned \in DOMAIN events
      BY <1>1, LatestIsLatest
    <3>2. \A i \in DOMAIN events : events[i].kind = "worker_spawned" => events[i].pane \in Panes
      BY <1>1 DEF SpawnEvent
    <3> QED BY <3>1, <3>2 DEF Of
  <2>2. passed' \subseteq Panes /\ UNCHANGED <<runs, events, record, panes>>
    BY <1>1, <1>11, <2>1 DEF ReadEvents
  <2>3. /\ job' \in [Dispatchers -> Job] /\ seen' \in [Dispatchers -> Seen]
        /\ pc' \in [Dispatchers -> {"idle", "events", "append", "read", "compare", "replace"}]
    BY <1>1, <1>2, <1>3, <1>11 DEF ReadEvents, Leaves, Moves
  <2> QED BY <1>1, <2>2, <2>3 DEF SpawnTypeOK, Grows
<1>12. ASSUME NEW d \in Dispatchers, AppendVerifiedEvent(d) PROVE SpawnTypeOK' /\ Grows
  <2> DEFINE j == job[d]
             e == SpawnVerified(j.task, j.pane, j.peer, j.evidence, j.background)
  <2>1. pc[d] = "append" /\ events' = Append(events, e) BY <1>12 DEF AppendVerifiedEvent
  <2>2. j \in Job /\ j.pane \in DOMAIN panes BY <1>1, <2>1 DEF ShownInv, Shown
  <2>3. j.pane \in Panes BY <1>1, <2>2 DEF Panes
  <2>4. e \in SpawnEvent BY <2>2, <2>3 DEF SpawnEvent, SpawnVerified, Job
  <2> HIDE DEF e
  <2>5. events' \in Seq(SpawnEvent) BY <1>1, <2>1, <2>4
  <2>6. pc' \in [Dispatchers -> {"idle", "events", "append", "read", "compare", "replace"}]
    BY <1>1, <1>12 DEF AppendVerifiedEvent, Moves
  <2>7. UNCHANGED <<job, runs, record, panes, seen, passed>>
    BY <1>12 DEF AppendVerifiedEvent, Moves
  <2> QED BY <1>1, <2>5, <2>6, <2>7 DEF SpawnTypeOK, Grows
<1>13. ASSUME NEW d \in Dispatchers, Die(d) PROVE SpawnTypeOK' /\ Grows
  BY <1>1, <1>2, <1>3, <1>13 DEF SpawnTypeOK, Grows, Die, Leaves
<1>14. ASSUME NEW d \in Dispatchers, ReadRecord(d) PROVE SpawnTypeOK' /\ Grows
  <2>1. record[job[d].task] \in Record BY <1>1 DEF Job
  <2>2. /\ job' \in [Dispatchers -> Job] /\ seen' \in [Dispatchers -> Seen]
        /\ pc' \in [Dispatchers -> {"idle", "events", "append", "read", "compare", "replace"}]
    <3>1. CASE Moves(d, "compare") /\ seen' = [seen EXCEPT ![d].before = record[job[d].task]]
      BY <1>1, <2>1, <3>1 DEF Moves, Seen
    <3>2. CASE Leaves(d) BY <1>1, <1>2, <1>3, <3>2 DEF Leaves
    <3> QED BY <1>14, <3>1, <3>2 DEF ReadRecord
  <2> QED BY <1>1, <1>14, <2>2 DEF SpawnTypeOK, Grows, ReadRecord
<1>15. ASSUME NEW d \in Dispatchers, CompareRecord(d) PROVE SpawnTypeOK' /\ Grows
  <2>1. /\ job' \in [Dispatchers -> Job] /\ seen' \in [Dispatchers -> Seen]
        /\ pc' \in [Dispatchers -> {"idle", "events", "append", "read", "compare", "replace"}]
    <3>1. CASE Moves(d, "replace") /\ UNCHANGED seen BY <1>1, <3>1 DEF Moves
    <3>2. CASE /\ seen[d].tries < 2 /\ Moves(d, "read")
               /\ seen' = [seen EXCEPT ![d].tries = @ + 1]
      <4>1. seen[d] \in Seen /\ seen[d].tries \in 0..3 BY <1>1 DEF Seen
      <4>2. [seen[d] EXCEPT !.tries = @ + 1] \in Seen BY <3>2, <4>1 DEF Seen
      <4> QED BY <1>1, <3>2, <4>2 DEF Moves
    <3>3. CASE Leaves(d) BY <1>1, <1>2, <1>3, <3>3 DEF Leaves
    <3> QED BY <1>15, <3>1, <3>2, <3>3 DEF CompareRecord
  <2> QED BY <1>1, <1>15, <2>1 DEF SpawnTypeOK, Grows, CompareRecord
<1>16. ASSUME NEW d \in Dispatchers, ReplaceRecord(d) PROVE SpawnTypeOK' /\ Grows
  <2>1. RewriteWorkerMd(seen[d].before, job[d].pane) \in Record
    BY <1>1, RewriteTyped DEF Seen, Job
  <2>2. /\ job' \in [Dispatchers -> Job] /\ seen' \in [Dispatchers -> Seen]
        /\ pc' \in [Dispatchers -> {"idle", "events", "append", "read", "compare", "replace"}]
        /\ record' \in [Tasks -> Record]
    BY <1>1, <1>2, <1>3, <1>16, <2>1 DEF ReplaceRecord, Leaves
  <2> QED BY <1>1, <1>16, <2>2 DEF SpawnTypeOK, Grows, ReplaceRecord
<1> QED BY <1>4, <1>5, <1>6, <1>7, <1>8, <1>9, <1>10, <1>11, <1>12, <1>13, <1>14, <1>15, <1>16
        DEF SpawnNext

\* What a step adds to the log: nothing, or the reservation of a task that has no run, a
\* spawn, or what a verify has established.
LEMMA SpawnAppends ==
  ASSUME ShownInv, SpawnNext
  PROVE  \/ events' = events
         \/ \E e \in SpawnEvent : /\ events' = Append(events, e)
                                  /\ e.kind = "delegate_sent" => runs[e.task].status = "none"
                                  /\ e.kind = "worker_spawn_verified" => Shown(e)
<1> DEFINE Goal == \/ events' = events
                   \/ \E e \in SpawnEvent :
                        /\ events' = Append(events, e)
                        /\ e.kind = "delegate_sent" => runs[e.task].status = "none"
                        /\ e.kind = "worker_spawn_verified" => Shown(e)
<1> USE SpawnAssumption
<1>1. ASSUME NEW t \in Tasks, Delegate(t) PROVE Goal
  <2>1. PICK dir \in Dirs, told \in BOOLEAN :
          events' = IF told THEN Append(events, DelegateSent(t, dir)) ELSE events
    BY <1>1 DEF Delegate
  <2>2. /\ DelegateSent(t, dir) \in SpawnEvent /\ DelegateSent(t, dir).task = t
        /\ DelegateSent(t, dir).kind = "delegate_sent"
    BY DEF DelegateSent, SpawnEvent
  <2> QED BY <1>1, <2>1, <2>2 DEF Delegate
<1>2. ASSUME NEW d \in Dispatchers, NEW t \in Tasks, Spawn(d, t) PROVE Goal
  <2> DEFINE e == [kind |-> "worker_spawned", task |-> t, pane |-> Len(panes) + 1]
  <2>1. Len(panes) + 1 \in Panes BY <1>2 DEF Spawn, Panes, ShownInv, SpawnTypeOK
  <2>2. e \in SpawnEvent /\ e.kind = "worker_spawned" BY <2>1 DEF SpawnEvent
  <2>3. events' = Append(events, e) BY <1>2 DEF Spawn
  <2> QED BY <2>2, <2>3
<1>3. ASSUME NEW d \in Dispatchers, AppendVerifiedEvent(d) PROVE Goal
  <2> DEFINE j == job[d]
             e == SpawnVerified(j.task, j.pane, j.peer, j.evidence, j.background)
  <2>1. pc[d] = "append" /\ events' = Append(events, e) BY <1>3 DEF AppendVerifiedEvent
  <2>2. j \in Job /\ Shown(j) /\ j.pane \in Panes
    BY <2>1 DEF ShownInv, SpawnTypeOK, Shown, Panes
  <2>3. e \in SpawnEvent /\ e.kind = "worker_spawn_verified"
    BY <2>2 DEF SpawnEvent, SpawnVerified, Job
  <2>4. Shown(e) BY <2>2 DEF Shown, SpawnVerified
  <2> QED BY <2>1, <2>3, <2>4
<1>4. ASSUME UNCHANGED events PROVE Goal BY <1>4
<1> HIDE DEF Goal
<1>5. \A t \in Tasks : AppendNote(t) \/ Close(t) => UNCHANGED events BY DEF AppendNote, Close
<1>6. \A d \in Dispatchers, t \in Tasks : Adopt(d, t) \/ Verify(d, t) => UNCHANGED events
  BY DEF Adopt, Verify
<1>7. \A p \in Panes : Register(p) => UNCHANGED events BY DEF Register
<1>8. \A d \in Dispatchers :
        ReadEvents(d) \/ Die(d) \/ ReadRecord(d) \/ CompareRecord(d) \/ ReplaceRecord(d)
          => UNCHANGED events
  BY DEF ReadEvents, Die, ReadRecord, CompareRecord, ReplaceRecord
<1>9. Goal BY <1>1, <1>2, <1>3, <1>4, <1>5, <1>6, <1>7, <1>8 DEF SpawnNext
<1> QED BY <1>9 DEF Goal

\* A task with a run keeps the directory it was reserved with.
LEMMA ReservedDirStays ==
  ASSUME ShownInv, SpawnNext, NEW t \in Tasks, runs[t].status # "none"
  PROVE  DelegateSentDir(t)' = DelegateSentDir(t)
<1>1. events \in Seq(SpawnEvent) BY DEF ShownInv, SpawnTypeOK
<1>2. CASE events' = events BY <1>2 DEF DelegateSentDir, LatestEventAt, Of
<1>3. ASSUME NEW e \in SpawnEvent, events' = Append(events, e),
             e.kind = "delegate_sent" => runs[e.task].status = "none"
      PROVE  DelegateSentDir(t)' = DelegateSentDir(t)
  <2>1. ~(e.kind = "delegate_sent" /\ e.task = t) BY <1>3
  <2>2. /\ Of("delegate_sent", t)' = Of("delegate_sent", t)
        /\ LatestEventAt("delegate_sent", t)' = LatestEventAt("delegate_sent", t)
    BY <1>1, <1>3, <2>1, LogOf, LatestStays
  <2>3. \A i \in DOMAIN events : events'[i] = events[i] BY <1>1, <1>3, LogGrows
  <2>4. Of("delegate_sent", t) # {} => LatestEventAt("delegate_sent", t) \in DOMAIN events
    BY <1>1, LatestIsLatest
  <2> QED BY <2>2, <2>3, <2>4 DEF DelegateSentDir
<1> QED BY <1>2, <1>3, SpawnAppends

\* What was established stays established.
LEMMA ShownStays ==
  ASSUME ShownInv, SpawnNext
  PROVE  \A j : j.task \in Tasks /\ Shown(j) => Shown(j)'
<1> SUFFICES ASSUME NEW j, j.task \in Tasks, Shown(j) PROVE Shown(j)' OBVIOUS
<1>1. Grows BY SpawnTyped
<1>2. DelegateSentDir(j.task)' = DelegateSentDir(j.task) BY ReservedDirStays DEF Shown
<1> HIDE DEF DelegateSentDir
<1>3. runs'[j.task].status # "none" /\ j.pane \in DOMAIN panes' BY <1>1 DEF Shown, Grows
<1>4. ASSUME j.evidence = "list_peers"
      PROVE  /\ j.peer \in DOMAIN panes' /\ panes'[j.peer].registered /\ panes'[j.peer].task = j.task
             /\ DelegateSentDir(j.task)' \in {NoDir, panes'[j.peer].cwd}
  BY <1>1, <1>2, <1>4 DEF Shown, Grows
<1> QED BY <1>3, <1>4 DEF Shown

LEMMA EventsStayShown ==
  ASSUME ShownInv, SpawnNext
  PROVE  (\A i \in DOMAIN events : IsVerified(i) => Shown(events[i]))'
<1>1. events \in Seq(SpawnEvent) /\ \A i \in DOMAIN events : events[i].task \in Tasks
  BY DEF ShownInv, SpawnTypeOK, SpawnEvent
<1>2. \A j : j.task \in Tasks /\ Shown(j) => Shown(j)' BY ShownStays
<1>3. CASE events' = events BY <1>1, <1>2, <1>3 DEF ShownInv, IsVerified
<1>4. ASSUME NEW e \in SpawnEvent, events' = Append(events, e),
             e.kind = "worker_spawn_verified" => Shown(e)
      PROVE  (\A i \in DOMAIN events : IsVerified(i) => Shown(events[i]))'
  <2>1. /\ DOMAIN events' = 1..(Len(events) + 1) /\ DOMAIN events = 1..Len(events)
        /\ Len(events) \in Nat /\ events'[Len(events) + 1] = e
        /\ \A i \in DOMAIN events : events'[i] = events[i]
    BY <1>1, <1>4, LogGrows
  <2>2. e.task \in Tasks BY DEF SpawnEvent
  <2>3. ASSUME NEW i \in DOMAIN events', events'[i].kind = "worker_spawn_verified"
        PROVE  \E j : j = events'[i] /\ Shown(j)'
    <3>1. CASE i = Len(events) + 1 BY <1>2, <1>4, <2>1, <2>2, <2>3, <3>1
    <3>2. CASE i \in DOMAIN events BY <1>1, <1>2, <2>1, <2>3, <3>2 DEF ShownInv, IsVerified
    <3> QED BY <2>1, <3>1, <3>2
  <2> QED BY <2>3 DEF IsVerified
<1> QED BY <1>3, <1>4, SpawnAppends

\* A verify that passes its checks has shown what it is to append.
LEMMA ChecksShow ==
  ASSUME ShownInv, NEW t \in Tasks, NEW d \in Dispatchers, Verify(d, t)
  PROVE  Shown(job'[d]) /\ \A e \in Dispatchers : e # d => job'[e] = job[e] /\ pc'[e] = pc[e]
<1>1. /\ job \in [Dispatchers -> Job] /\ panes \in Seq(Pane)
      /\ pc \in [Dispatchers -> {"idle", "events", "append", "read", "compare", "replace"}]
  BY DEF ShownInv, SpawnTypeOK
<1>2. PICK j \in Job :
        /\ j.task = t /\ j.pane \in DOMAIN panes
        /\ j.peer # 0 => j.peer \in DOMAIN panes /\ panes[j.peer].registered
        /\ Quoted(j) /\ DirsAgree(j)
        /\ job' = [job EXCEPT ![d] = j]
  BY DEF Verify
<1>3. job'[d] = j /\ \A e \in Dispatchers : e # d => job'[e] = job[e] /\ pc'[e] = pc[e]
  BY <1>1, <1>2 DEF Verify
<1> HIDE DEF DelegateSentDir
<1>4. Shown(j)
  <2>1. j.evidence = "list_peers" =>
          panes[j.peer].cwd = ExpectedDir(j.task) /\ panes[j.peer].task = j.task
    BY <1>2 DEF DirsAgree
  <2>2. ExpectedDir(j.task) = IF DelegateSentDir(j.task) # NoDir THEN DelegateSentDir(j.task)
                              ELSE runs[j.task].dir
    BY DEF ExpectedDir
  <2>3. j.evidence = "list_peers" => j.peer # 0 BY <1>2 DEF Quoted
  <2>4. j.background => j.evidence = "list_peers" /\ j.peer = j.pane BY <1>2 DEF Quoted, Bound
  <2>5. runs[j.task].status # "none" BY <1>2 DEF DirsAgree
  <2> QED BY <1>2, <2>1, <2>2, <2>3, <2>4, <2>5 DEF Shown
<1> QED BY <1>3, <1>4

LEMMA JobsStayShown ==
  ASSUME ShownInv, SpawnNext
  PROVE  (\A d \in Dispatchers : pc[d] # "idle" => Shown(job[d]))'
<1>1. /\ job \in [Dispatchers -> Job] /\ \A d \in Dispatchers : job[d].task \in Tasks
      /\ pc \in [Dispatchers -> {"idle", "events", "append", "read", "compare", "replace"}]
  BY DEF ShownInv, SpawnTypeOK, Job
<1>2. \A j : j.task \in Tasks /\ Shown(j) => Shown(j)' BY ShownStays
<1>3. \A d \in Dispatchers : pc[d] # "idle" => Shown(job[d]) BY DEF ShownInv
<1> DEFINE Kept == \A e \in Dispatchers : pc'[e] # "idle" => job'[e] = job[e] /\ pc[e] # "idle"
           Goal == \A e \in Dispatchers : pc'[e] # "idle" => \E j : j = job'[e] /\ Shown(j)'
<1>4. ASSUME Kept PROVE Goal BY <1>1, <1>2, <1>3, <1>4
<1>5. \A t \in Tasks : Delegate(t) \/ AppendNote(t) \/ Close(t) => Kept
  BY DEF Delegate, AppendNote, Close
<1>6. \A d \in Dispatchers, t \in Tasks : Spawn(d, t) \/ Adopt(d, t) => Kept
  BY DEF Spawn, Adopt
<1>7. \A p \in Panes : Register(p) => Kept BY DEF Register
<1>8. \A d \in Dispatchers, to \in {"read", "append", "compare", "replace"} :
        /\ pc[d] # "idle" /\ Moves(d, to) => Kept
        /\ Leaves(d) => Kept
  BY <1>1 DEF Moves, Leaves
<1>9. \A d \in Dispatchers :
        ReadEvents(d) \/ AppendVerifiedEvent(d) \/ Die(d) \/ ReadRecord(d) \/ CompareRecord(d)
          \/ ReplaceRecord(d) => Kept
  <2> HIDE DEF Kept
  <2> SUFFICES ASSUME NEW d \in Dispatchers,
                      ReadEvents(d) \/ AppendVerifiedEvent(d) \/ Die(d) \/ ReadRecord(d)
                        \/ CompareRecord(d) \/ ReplaceRecord(d)
               PROVE  Kept
    OBVIOUS
  <2>1. /\ pc[d] # "idle"
        /\ \/ \E to \in {"read", "append", "compare", "replace"} : Moves(d, to)
           \/ Leaves(d)
    BY DEF ReadEvents, AppendVerifiedEvent, Die, ReadRecord, CompareRecord, ReplaceRecord
  <2> QED BY <1>8, <2>1
<1>10. ASSUME NEW d \in Dispatchers, NEW t \in Tasks, Verify(d, t) PROVE Goal
  <2>1. job' \in [Dispatchers -> Job] /\ job'[d].task \in Tasks
    BY <1>10, <1>1, SpawnTyped DEF SpawnTypeOK, SpawnNext, Job
  <2>2. /\ Shown(job'[d]) /\ \A e \in Dispatchers : e # d => job'[e] = job[e] /\ pc'[e] = pc[e]
    BY <1>10, ChecksShow
  <2> QED BY <1>1, <1>2, <1>3, <2>1, <2>2
<1>11. Goal
  <2> HIDE DEF Goal, Kept
  <2> QED BY <1>4, <1>5, <1>6, <1>7, <1>9, <1>10 DEF SpawnNext
<1> QED BY <1>11

\* The invariant that every verification rests on.
LEMMA SpawnShown == SpawnSpec => []ShownInv
<1>1. SpawnInit => ShownInv BY SpawnInitHolds
<1>2. ShownInv /\ [SpawnNext]_spawnVars => ShownInv'
  <2> SUFFICES ASSUME ShownInv, [SpawnNext]_spawnVars PROVE ShownInv' OBVIOUS
  <2>1. CASE SpawnNext BY <2>1, SpawnTyped, EventsStayShown, JobsStayShown DEF ShownInv
  <2>2. CASE UNCHANGED spawnVars
    <3>1. SpawnTypeOK' BY <2>2 DEF spawnVars, ShownInv, SpawnTypeOK
    <3>2. \A j : Shown(j)' = Shown(j)
      BY <2>2 DEF spawnVars, Shown, DelegateSentDir, LatestEventAt, Of
    <3>3. UNCHANGED <<job, pc, events>> BY <2>2 DEF spawnVars
    <3> QED BY <3>1, <3>2, <3>3 DEF ShownInv, IsVerified
  <2> QED BY <2>1, <2>2
<1> QED BY <1>1, <1>2, PTL DEF SpawnSpec

\* The rows, events, worker records, panes and the verification under way keep their shape
\* (tools/spawn_gate.py), for any tasks, panes, directories and verifications.
THEOREM SpawnsTyped == SpawnSpec => []SpawnTypeOK
<1>1. ShownInv => SpawnTypeOK BY DEF ShownInv
<1> QED BY <1>1, SpawnShown, PTL

\* The peer that a worker_spawn_verified event quotes is up, of that task and in the directory
\* that the secretary recorded, and for a background tab so is the very pane that was spawned
\* (tools/spawn_gate.py, cmd_verify): in every state, for all constants.
THEOREM VerifiedWorkersAreUp == SpawnSpec => []VerifiedWorkerIsUp
<1>1. ShownInv => VerifiedWorkerIsUp
  BY DEF ShownInv, VerifiedWorkerIsUp, IsVerified, Shown
<1> QED BY <1>1, SpawnShown, PTL

\* An event that is not a spawn leaves what is the latest spawn, and whether it was passed.
LEMMA PassedStays ==
  ASSUME events \in Seq(SpawnEvent), passed \subseteq passed', NEW t \in Tasks,
         \/ events' = events
         \/ \E e \in SpawnEvent : /\ events' = Append(events, e)
                                  /\ ~(e.kind = "worker_spawned" /\ e.task = t)
  PROVE  /\ LatestEventAt("worker_spawned", t)' = LatestEventAt("worker_spawned", t)
         /\ LatestPassed(t) => LatestPassed(t)'
<1> DEFINE n == LatestEventAt("worker_spawned", t)
<1>1. n # 0 => n \in DOMAIN events BY LatestIsLatest
<1>2. CASE events' = events BY <1>2 DEF LatestPassed, LatestEventAt, Of
<1>3. ASSUME NEW e \in SpawnEvent, events' = Append(events, e),
             ~(e.kind = "worker_spawned" /\ e.task = t)
      PROVE  n' = n /\ (LatestPassed(t) => LatestPassed(t)')
  <2>1. n' = n BY <1>3, LatestStays
  <2>2. \A i \in DOMAIN events : events'[i] = events[i] BY <1>3, LogGrows
  <2> HIDE DEF n
  <2> QED BY <1>1, <2>1, <2>2 DEF LatestPassed, n
<1> QED BY <1>2, <1>3

\* With one dispatcher, a task is not dispatched again while its verification is appended.
LEMMA PassStays ==
  ASSUME ShownInv, PassInv, OneDispatcher, SpawnNext
  PROVE  PassInv'
<1>1. /\ events \in Seq(SpawnEvent) /\ job \in [Dispatchers -> Job] /\ passed \subseteq Panes
      /\ pc \in [Dispatchers -> {"idle", "events", "append", "read", "compare", "replace"}]
      /\ \A d \in Dispatchers : job[d].task \in Tasks
  BY DEF ShownInv, SpawnTypeOK, Job
<1> DEFINE Pending == \A e \in Dispatchers : pc'[e] = "append" => pc[e] = "append" /\ job'[e] = job[e]
<1>2. ASSUME UNCHANGED <<events, passed>>, Pending PROVE PassInv'
  <2>1. \A t : LatestPassed(t)' = LatestPassed(t) BY <1>2 DEF LatestPassed, LatestEventAt, Of
  <2>2. \A t : LatestEventAt("worker_spawned", t)' = LatestEventAt("worker_spawned", t)
               /\ CoversCurrentSpawn(t)' = CoversCurrentSpawn(t)
    BY <1>2 DEF CoversCurrentSpawn, LatestEventAt, Of
  <2>3. \A e \in Dispatchers : pc'[e] = "append" => \E t : t = job'[e].task /\ LatestPassed(t)'
    BY <1>2, <2>1 DEF PassInv
  <2>4. \A t \in Tasks : LatestEventAt("worker_spawned", t)' # 0 /\ CoversCurrentSpawn(t)'
                           => LatestPassed(t)'
    BY <2>1, <2>2 DEF PassInv
  <2> QED BY <2>3, <2>4 DEF PassInv
<1>3. ASSUME NEW t \in Tasks, Delegate(t) PROVE PassInv'
  <2>1. PICK dir \in Dirs, told \in BOOLEAN :
          events' = IF told THEN Append(events, DelegateSent(t, dir)) ELSE events
    BY <1>3 DEF Delegate
  <2>2. UNCHANGED <<pc, job, passed>> BY <1>3 DEF Delegate
  <2> DEFINE e == DelegateSent(t, dir)
  <2>3. CASE events' = events BY <1>2, <2>2, <2>3
  <2>4. CASE events' = Append(events, e)
    <3>1. e \in SpawnEvent /\ e.kind = "delegate_sent" BY DEF DelegateSent, SpawnEvent
    <3> HIDE DEF e
    <3>2. \A u \in Tasks : /\ LatestEventAt("worker_spawned", u)' = LatestEventAt("worker_spawned", u)
                           /\ LatestPassed(u) => LatestPassed(u)'
      BY <1>1, <2>2, <2>4, <3>1, PassedStays
    <3>3. \A u \in Tasks :
            LatestEventAt("worker_spawn_verified", u)' = LatestEventAt("worker_spawn_verified", u)
      BY <1>1, <2>4, <3>1, LatestStays
    <3> QED BY <1>1, <2>2, <3>2, <3>3 DEF PassInv, CoversCurrentSpawn
  <2> QED BY <2>1, <2>3, <2>4
<1>4. ASSUME NEW d \in Dispatchers, NEW t \in Tasks, Spawn(d, t) PROVE PassInv'
  <2> DEFINE e == [kind |-> "worker_spawned", task |-> t, pane |-> Len(panes) + 1]
  <2>1. events' = Append(events, e) /\ UNCHANGED <<pc, job, passed>> BY <1>4 DEF Spawn
  <2>2. e \in SpawnEvent /\ e.kind = "worker_spawned" /\ e.task = t
    <3>1. Len(panes) + 1 \in Panes BY <1>4, SpawnAssumption DEF Spawn, Panes, ShownInv, SpawnTypeOK
    <3> QED BY <3>1 DEF SpawnEvent
  <2> HIDE DEF e
  <2>3. \A e2 \in Dispatchers : pc'[e2] # "append" BY <1>4, <2>1 DEF Spawn, OneDispatcher
  <2>4. ASSUME NEW u \in Tasks, LatestEventAt("worker_spawned", u)' # 0, CoversCurrentSpawn(u)'
        PROVE  LatestPassed(u)'
    <3>1. /\ LatestEventAt("worker_spawn_verified", u)' = LatestEventAt("worker_spawn_verified", u)
          /\ LatestEventAt("worker_spawn_verified", u) \in 0..Len(events) /\ Len(events) \in Nat
      BY <1>1, <2>1, <2>2, LatestStays, LatestIsLatest
    <3>2. CASE u = t
      <4>1. LatestEventAt("worker_spawned", u)' = Len(events) + 1
        BY <1>1, <2>1, <2>2, <3>2, LatestStays
      <4> QED BY <2>4, <3>1, <4>1 DEF CoversCurrentSpawn
    <3>3. CASE u # t
      <4>1. /\ LatestEventAt("worker_spawned", u)' = LatestEventAt("worker_spawned", u)
            /\ LatestPassed(u) => LatestPassed(u)'
        BY <1>1, <2>1, <2>2, <3>3, PassedStays
      <4> QED BY <2>4, <3>1, <4>1 DEF CoversCurrentSpawn, PassInv
    <3> QED BY <3>2, <3>3
  <2> QED BY <2>3, <2>4 DEF PassInv
<1>5. ASSUME NEW d \in Dispatchers, ReadEvents(d) PROVE PassInv'
  <2> DEFINE t == job[d].task
             spawned == LatestEventAt("worker_spawned", t)
  <2>1. CASE spawned = 0
    <3>1. Leaves(d) /\ UNCHANGED <<events, passed>> BY <1>5, <2>1 DEF ReadEvents
    <3> QED BY <1>1, <1>2, <3>1 DEF Leaves
  <2>2. CASE spawned # 0
    <3>1. /\ Moves(d, IF CoversCurrentSpawn(t) THEN "read" ELSE "append") /\ UNCHANGED events
          /\ passed' = passed \union {events[spawned].pane}
      BY <1>5, <2>2 DEF ReadEvents
    <3>2. \A u : /\ LatestEventAt("worker_spawned", u)' = LatestEventAt("worker_spawned", u)
                 /\ CoversCurrentSpawn(u)' = CoversCurrentSpawn(u)
      BY <3>1 DEF CoversCurrentSpawn, LatestEventAt, Of
    <3>3. \A u : LatestPassed(u) => LatestPassed(u)' BY <3>1, <3>2 DEF LatestPassed
    <3>4. \A u : u = t => LatestPassed(u)' BY <2>2, <3>1, <3>2 DEF LatestPassed
    <3>5. \A e \in Dispatchers : pc'[e] = "append" => \E u : u = job'[e].task /\ LatestPassed(u)'
      <4> SUFFICES ASSUME NEW e \in Dispatchers, pc'[e] = "append"
                   PROVE  \E u : u = job'[e].task /\ LatestPassed(u)'
        OBVIOUS
      <4>1. CASE e = d BY <3>1, <3>4, <4>1 DEF Moves
      <4>2. CASE e # d BY <1>1, <3>1, <3>3, <4>2 DEF Moves, PassInv
      <4> QED BY <4>1, <4>2
    <3>6. \A u \in Tasks : LatestEventAt("worker_spawned", u)' # 0 /\ CoversCurrentSpawn(u)'
                             => LatestPassed(u)'
      BY <3>2, <3>3 DEF PassInv
    <3> QED BY <3>5, <3>6 DEF PassInv
  <2> QED BY <2>1, <2>2
<1>6. ASSUME NEW d \in Dispatchers, AppendVerifiedEvent(d) PROVE PassInv'
  <2> DEFINE j == job[d]
             e == SpawnVerified(j.task, j.pane, j.peer, j.evidence, j.background)
  <2>1. pc[d] = "append" /\ events' = Append(events, e) /\ UNCHANGED <<job, passed>>
    BY <1>6 DEF AppendVerifiedEvent, Moves
  <2>2. \A e2 \in Dispatchers : pc'[e2] # "append"
    BY <1>1, <1>6 DEF AppendVerifiedEvent, Moves, OneDispatcher
  <2>3. e \in SpawnEvent /\ e.kind = "worker_spawn_verified" /\ e.task = j.task
    <3>1. j \in Job /\ Shown(j) /\ j.pane \in Panes
      BY <2>1, SpawnAssumption DEF ShownInv, SpawnTypeOK, Shown, Panes
    <3> QED BY <3>1 DEF SpawnEvent, SpawnVerified, Job
  <2> HIDE DEF e
  <2>4. \A u \in Tasks : /\ LatestEventAt("worker_spawned", u)' = LatestEventAt("worker_spawned", u)
                         /\ LatestPassed(u) => LatestPassed(u)'
    BY <1>1, <2>1, <2>3, PassedStays
  <2>5. ASSUME NEW u \in Tasks, LatestEventAt("worker_spawned", u)' # 0, CoversCurrentSpawn(u)'
        PROVE  LatestPassed(u)'
    <3>1. CASE u = j.task BY <2>1, <2>4, <3>1 DEF PassInv
    <3>2. CASE u # j.task
      <4>1. LatestEventAt("worker_spawn_verified", u)' = LatestEventAt("worker_spawn_verified", u)
        BY <1>1, <2>1, <2>3, <3>2, LatestStays
      <4> QED BY <2>4, <2>5, <4>1 DEF PassInv, CoversCurrentSpawn
    <3> QED BY <3>1, <3>2
  <2> QED BY <2>2, <2>5 DEF PassInv
<1>7. \A t \in Tasks : AppendNote(t) \/ Close(t) => UNCHANGED <<events, passed>> /\ Pending
  BY DEF AppendNote, Close
<1>8. \A d \in Dispatchers, t \in Tasks : Adopt(d, t) => UNCHANGED <<events, passed>> /\ Pending
  BY DEF Adopt
<1>9. \A d \in Dispatchers, t \in Tasks : Verify(d, t) => UNCHANGED <<events, passed>> /\ Pending
  <2> SUFFICES ASSUME NEW d \in Dispatchers, NEW t \in Tasks, Verify(d, t)
               PROVE  UNCHANGED <<events, passed>> /\ Pending
    OBVIOUS
  <2>1. \A e \in Dispatchers : e # d => job'[e] = job[e] /\ pc'[e] = pc[e] BY ChecksShow
  <2>2. pc'[d] = "events" /\ UNCHANGED <<events, passed>> BY <1>1 DEF Verify
  <2> QED BY <2>1, <2>2
<1>10. \A p \in Panes : Register(p) => UNCHANGED <<events, passed>> /\ Pending BY DEF Register
<1>11. \A d \in Dispatchers : Die(d) \/ ReadRecord(d) \/ CompareRecord(d) \/ ReplaceRecord(d)
                                => UNCHANGED <<events, passed>> /\ Pending
  BY <1>1 DEF Die, ReadRecord, CompareRecord, ReplaceRecord, Leaves, Moves
<1> HIDE DEF Pending
<1> QED BY <1>2, <1>3, <1>4, <1>5, <1>6, <1>7, <1>8, <1>9, <1>10, <1>11 DEF SpawnNext

\* With one dispatcher, audit is silent only about spawns that were verified.
LEMMA PassHolds == ASSUME OneDispatcher PROVE SpawnSpec => [](ShownInv /\ PassInv)
<1>1. SpawnInit => PassInv BY SpawnInitHolds
<1>2. ShownInv /\ PassInv /\ [SpawnNext]_spawnVars => PassInv'
  <2> SUFFICES ASSUME ShownInv, PassInv, [SpawnNext]_spawnVars PROVE PassInv' OBVIOUS
  <2>1. CASE SpawnNext BY <2>1, PassStays
  <2>2. CASE UNCHANGED spawnVars
    <3>1. \A t : /\ LatestPassed(t)' = LatestPassed(t)
                 /\ LatestEventAt("worker_spawned", t)' = LatestEventAt("worker_spawned", t)
                 /\ CoversCurrentSpawn(t)' = CoversCurrentSpawn(t)
      BY <2>2 DEF spawnVars, CoversCurrentSpawn, LatestPassed, LatestEventAt, Of
    <3> QED BY <2>2, <3>1 DEF spawnVars, PassInv
  <2> QED BY <2>1, <2>2
<1> QED BY <1>1, <1>2, SpawnShown, PTL DEF SpawnSpec

\* With one dispatcher, whose commands follow one another, the audit (tools/spawn_gate.py,
\* cmd_audit) is silent only on a spawn that was its task's latest when a verification passed.
THEOREM SpawnsAreAlwaysVerified ==
  ASSUME OneDispatcher
  PROVE  SpawnSpec => []SpawnsAreVerified
<1>1. PassInv => SilenceMeansVerified
  <2> SUFFICES ASSUME PassInv, NEW t \in Tasks, runs[t].status # "completed", ~Malformed(t),
                      LatestEventAt("worker_spawned", t) # 0,
                      events[LatestEventAt("worker_spawned", t)].pane \notin passed,
                      NEW cutoff \in LatestEventAt("worker_spawned", t)..Len(events),
                      NEW since \in 1..LatestEventAt("worker_spawned", t)
               PROVE  t \in Findings(cutoff, since)
    BY DEF SilenceMeansVerified
  <2>1. ~CoversCurrentSpawn(t) BY DEF PassInv, LatestPassed
  <2> HIDE DEF Malformed
  <2>2. LatestEventAt("worker_spawned", t) <= cutoff /\ LatestEventAt("worker_spawned", t) >= since
    OBVIOUS
  <2> QED BY <2>1, <2>2 DEF Findings, Reportable, Uncovered
<1>2. ShownInv => VerifiedWorkerIsUp
  BY DEF ShownInv, VerifiedWorkerIsUp, IsVerified, Shown
<1> QED BY <1>1, <1>2, PassHolds, PTL DEF SpawnsAreVerified

-----------------------------------------------------------------------------
(* SelfEditApproval                                                        *)

Lists == Seq(Nat)

\* u[i] is the first i lists in one.
Flattens(u, seqs, k) == /\ u[1] = seqs[1]
                        /\ \A i \in 2..k : u[i] = u[i - 1] \o seqs[i]

LEMMA FlattenIs ==
  ASSUME NEW seqs \in Seq(Lists), Len(seqs) # 0
  PROVE  \E u : Flattens(u, seqs, Len(seqs)) /\ FlattenSeq(seqs) = u[Len(seqs)]
<1> DEFINE Built(f, k) == f = [i \in 1..k |-> IF i = 1 THEN seqs[i] ELSE f[i - 1] \o seqs[i]]
           Missing == {k \in Nat : ~\E f : Built(f, k)}
<1>1. FlattenSeq(seqs) = (CHOOSE f : Built(f, Len(seqs)))[Len(seqs)] BY DEF FlattenSeq
<1>2. Missing = {}
  <2> SUFFICES ASSUME Missing # {} PROVE FALSE OBVIOUS
  <2>1. PICK k \in Missing : \A j \in Missing : k <= j
    <3>1. Missing \subseteq Nat OBVIOUS
    <3> HIDE DEF Missing
    <3> QED BY <3>1, LeastExists
  <2>2. CASE k = 0
    <3>1. Built([i \in 1..0 |-> << >>], 0) OBVIOUS
    <3> QED BY <2>1, <2>2, <3>1
  <2>3. CASE k # 0
    <3>1. k \in Nat /\ k - 1 \in Nat /\ ~(k <= k - 1) BY <2>1, <2>3
    <3>2. PICK f : Built(f, k - 1) BY <2>1, <3>1
    <3> DEFINE last == IF k = 1 THEN seqs[k] ELSE f[k - 1] \o seqs[k]
               g == [i \in 1..k |-> IF i < k THEN f[i] ELSE last]
    <3>3. ASSUME NEW i \in 1..k PROVE g[i] = IF i = 1 THEN seqs[i] ELSE g[i - 1] \o seqs[i]
      <4>1. CASE i < k
        <5>1. i \in 1..(k - 1) /\ g[i] = f[i] BY <3>1, <4>1
        <5>2. f[i] = IF i = 1 THEN seqs[i] ELSE f[i - 1] \o seqs[i] BY <3>2, <5>1
        <5>3. i # 1 => g[i - 1] = f[i - 1] BY <3>1, <4>1
        <5> QED BY <5>1, <5>2, <5>3
      <4>2. CASE i = k
        <5>1. g[k] = last BY <3>1
        <5>2. k # 1 => g[k - 1] = f[k - 1] BY <3>1
        <5> QED BY <4>2, <5>1, <5>2
      <4> QED BY <3>1, <4>1, <4>2
    <3>4. g = [i \in 1..k |-> g[i]] OBVIOUS
    <3> HIDE DEF g
    <3>5. Built(g, k) BY <3>3, <3>4
    <3> QED BY <2>1, <3>5
  <2> QED BY <2>2, <2>3
<1>3. Len(seqs) \in Nat OBVIOUS
<1>4. \E f : Built(f, Len(seqs)) BY <1>2, <1>3
<1> DEFINE u == CHOOSE f : Built(f, Len(seqs))
<1>5. Built(u, Len(seqs)) BY <1>4
<1> HIDE DEF u
<1>6. u[1] = seqs[1] BY <1>3, <1>5
<1>7. \A i \in 2..Len(seqs) : u[i] = u[i - 1] \o seqs[i]
  <2> SUFFICES ASSUME NEW i \in 2..Len(seqs) PROVE u[i] = u[i - 1] \o seqs[i] OBVIOUS
  <2>1. i \in 1..Len(seqs) /\ i # 1 BY <1>3
  <2> QED BY <1>5, <2>1
<1> QED BY <1>1, <1>6, <1>7 DEF u, Flattens

\* Lists that agree up to k flatten to the same up to there.
LEMMA FlattensAgree ==
  ASSUME NEW s, NEW t, NEW u, NEW v, NEW k \in Nat, k # 0, Flattens(u, s, k), Flattens(v, t, k),
         \A i \in 1..k : s[i] \in Lists /\ s[i] = t[i]
  PROVE  u[k] = v[k] /\ u[k] \in Lists
<1> DEFINE Wrong == {i \in 1..k : ~(u[i] = v[i] /\ u[i] \in Lists)}
<1>1. Wrong = {}
  <2> SUFFICES ASSUME Wrong # {} PROVE FALSE OBVIOUS
  <2>1. PICK i \in Wrong : \A j \in Wrong : i <= j
    <3>1. Wrong \subseteq Nat OBVIOUS
    <3> HIDE DEF Wrong
    <3> QED BY <3>1, LeastExists
  <2>2. CASE i = 1 BY <2>1, <2>2 DEF Flattens
  <2>3. CASE i # 1
    <3>1. i \in 2..k /\ i - 1 \in 1..k /\ ~(i <= i - 1) BY <2>1, <2>3
    <3>2. u[i - 1] = v[i - 1] /\ u[i - 1] \in Lists BY <2>1, <3>1
    <3>3. u[i] = u[i - 1] \o s[i] /\ v[i] = v[i - 1] \o t[i] BY <3>1 DEF Flattens
    <3>4. s[i] \in Lists /\ s[i] = t[i] BY <2>1
    <3>5. u[i - 1] \o s[i] \in Lists BY <3>2, <3>4 DEF Lists
    <3> QED BY <2>1, <3>2, <3>3, <3>4, <3>5
  <2> QED BY <2>2, <2>3
<1>2. k \in 1..k OBVIOUS
<1> QED BY <1>1, <1>2

LEMMA FlattenAppend ==
  ASSUME NEW seqs \in Seq(Lists), Len(seqs) # 0, NEW l \in Lists
  PROVE  FlattenSeq(Append(seqs, l)) = FlattenSeq(seqs) \o l /\ FlattenSeq(seqs) \in Lists
<1> DEFINE n == Len(seqs)
           more == Append(seqs, l)
<1>1. /\ n \in Nat /\ more \in Seq(Lists) /\ Len(more) = n + 1 /\ more[n + 1] = l
      /\ \A i \in 1..n : more[i] = seqs[i] /\ seqs[i] \in Lists
  OBVIOUS
<1> HIDE DEF more
<1>2. PICK u : Flattens(u, seqs, n) /\ FlattenSeq(seqs) = u[n] BY FlattenIs
<1>3. PICK v : Flattens(v, more, n + 1) /\ FlattenSeq(more) = v[n + 1]
  <2>1. Len(more) # 0 BY <1>1
  <2> QED BY <1>1, <2>1, FlattenIs
<1> HIDE DEF n
<1>4. n # 0 BY DEF n
<1>5. Flattens(v, more, n) /\ v[n + 1] = v[n] \o more[n + 1]
  <2>1. \A i \in 2..n : i \in 2..(n + 1) BY <1>1
  <2>2. n + 1 \in 2..(n + 1) BY <1>1, <1>4
  <2>3. v[1] = more[1] /\ \A i \in 2..(n + 1) : v[i] = v[i - 1] \o more[i] BY <1>3 DEF Flattens
  <2>4. v[n + 1] = v[n] \o more[n + 1]
    <3>1. PICK k \in 2..(n + 1) : k = n + 1 BY <2>2
    <3>2. v[k] = v[k - 1] \o more[k] BY <2>3
    <3>3. k - 1 = n BY <1>1, <3>1
    <3> QED BY <3>1, <3>2, <3>3
  <2>5. \A i \in 2..n : v[i] = v[i - 1] \o more[i] BY <2>1, <2>3
  <2> QED BY <2>3, <2>4, <2>5 DEF Flattens
<1>6. v[n + 1] = v[n] \o l BY <1>1, <1>5
<1>7. u[n] = v[n] /\ u[n] \in Lists BY <1>1, <1>2, <1>4, <1>5, FlattensAgree
<1> QED BY <1>2, <1>3, <1>6, <1>7 DEF more

\* The last list grows.
LEMMA FlattenGrow ==
  ASSUME NEW seqs \in Seq(Lists), Len(seqs) # 0, NEW f \in Nat
  PROVE  FlattenSeq([seqs EXCEPT ![Len(seqs)] = Append(seqs[Len(seqs)], f)]) = Append(FlattenSeq(seqs), f)
<1> DEFINE n == Len(seqs)
           last == seqs[n]
           more == [seqs EXCEPT ![n] = Append(last, f)]
<1>1. n \in 1..n /\ n \in Nat /\ last \in Lists /\ \A i \in 1..n : seqs[i] \in Lists OBVIOUS
<1>2. Append(last, f) \in Lists /\ Append(last, f) = last \o <<f>> /\ <<f>> \in Lists
  <2>1. last \in Seq(Nat) /\ f \in Nat BY <1>1 DEF Lists
  <2> HIDE DEF last
  <2> QED BY <2>1, AppendIsConcat DEF Lists
<1>3. more \in Seq(Lists) /\ Len(more) = n /\ more[n] = Append(last, f)
      /\ \A i \in 1..n : i # n => more[i] = seqs[i]
  BY <1>1, <1>2
<1> HIDE DEF more
<1>4. PICK u : Flattens(u, seqs, n) /\ FlattenSeq(seqs) = u[n] BY FlattenIs
<1>5. PICK v : Flattens(v, more, n) /\ FlattenSeq(more) = v[n] BY <1>3, FlattenIs
<1> HIDE DEF n
<1>6. n # 0 BY DEF n
<1>7. CASE n = 1
  <2>1. u[n] = last /\ v[n] = Append(last, f) BY <1>3, <1>4, <1>5, <1>7 DEF Flattens
  <2> QED BY <1>4, <1>5, <2>1 DEF n, more
<1>8. CASE n # 1
  <2>1. n - 1 \in Nat /\ n - 1 # 0 /\ n \in 2..n /\ \A i \in 1..(n - 1) : i \in 1..n /\ i # n BY <1>1, <1>6, <1>8
  <2>2. Flattens(u, seqs, n - 1) /\ Flattens(v, more, n - 1)
    <3>1. \A i \in 2..(n - 1) : i \in 2..n BY <2>1
    <3> QED BY <1>4, <1>5, <3>1 DEF Flattens
  <2>3. u[n - 1] = v[n - 1] /\ u[n - 1] \in Lists
    <3>1. \A i \in 1..(n - 1) : seqs[i] \in Lists /\ seqs[i] = more[i] BY <1>1, <1>3, <2>1
    <3> QED BY <2>1, <2>2, <3>1, FlattensAgree
  <2>4. u[n] = u[n - 1] \o last /\ v[n] = v[n - 1] \o Append(last, f) BY <1>3, <1>4, <1>5, <2>1 DEF Flattens
  <2>5. v[n] = u[n - 1] \o Append(last, f) BY <2>3, <2>4
  <2>6. u[n - 1] \o Append(last, f) = Append(u[n - 1] \o last, f)
    <3> DEFINE w == u[n - 1]
    <3>1. w \in Seq(Nat) /\ last \in Seq(Nat) /\ f \in Nat /\ <<f>> \in Seq(Nat) BY <1>1, <2>3 DEF Lists
    <3> HIDE DEF w, last
    <3>2. w \o (last \o <<f>>) = (w \o last) \o <<f>> BY <3>1, ConcatAssociative
    <3>3. w \o last \in Seq(Nat) BY <3>1
    <3>4. Append(last, f) = last \o <<f>> /\ Append(w \o last, f) = (w \o last) \o <<f>> BY <3>1, <3>3, AppendIsConcat
    <3> QED BY <3>2, <3>4 DEF w
  <2> QED BY <1>4, <1>5, <2>4, <2>5, <2>6 DEF n, more
<1> QED BY <1>7, <1>8

LEMMA FlattenOne ==
  ASSUME NEW l \in Lists
  PROVE  <<l>> \in Seq(Lists) /\ Len(<<l>>) = 1 /\ FlattenSeq(<<l>>) = l
<1> DEFINE s == <<l>>
<1>1. s \in Seq(Lists) /\ Len(s) = 1 /\ s[1] = l OBVIOUS
<1> HIDE DEF s
<1>0. Len(s) # 0 BY <1>1
<1>2. \E u : Flattens(u, s, Len(s)) /\ FlattenSeq(s) = u[Len(s)] BY ONLY <1>0, <1>1, FlattenIs
<1>3. PICK u : Flattens(u, s, Len(s)) /\ FlattenSeq(s) = u[Len(s)] BY <1>2
<1> QED BY <1>1, <1>3 DEF Flattens, s

\* The files go to the parts in their order, each to one.
LEMMA SplitsAreWhole ==
  ASSUME NEW s \in Splits
  PROVE  s \in Seq(Lists) /\ Len(s) # 0 /\ FlattenSeq(s) = Files
<1>1. PICK width \in Widths, height \in Heights : s = SplitFiles(Files, width, DefaultMaxRows(height))
  BY DEF Splits
<1>2. Files \in Seq(Nat) /\ Len(Files) \in Nat /\ Files # << >> BY ApprovalAssumption
<1> DEFINE budget == DefaultMaxRows(height) * Greatest(width - 4, 10)
           Add(groups, f) ==
             LET cur == groups[Len(groups)]
             IN IF cur # <<>> /\ TailCells(Append(cur, f), TRUE) > budget
                THEN Append(groups, <<f>>)
                ELSE [groups EXCEPT ![Len(groups)] = Append(cur, f)]
           Built(g, k) == g = [n \in 0..k |-> IF n = 0 THEN << <<>> >> ELSE Add(g[n - 1], Files[n])]
           all == CHOOSE g : Built(g, Len(Files))
<1>3. s = IF TailCells(Files, FALSE) <= budget THEN <<Files>> ELSE all[Len(Files)]
  BY <1>1 DEF SplitFiles
<1>4. << >> \in Lists /\ << << >> >> \in Seq(Lists) BY DEF Lists
<1>5. ASSUME NEW groups \in Seq(Lists), Len(groups) # 0, NEW f \in Nat
      PROVE  /\ Add(groups, f) \in Seq(Lists) /\ Len(Add(groups, f)) # 0
             /\ FlattenSeq(Add(groups, f)) = Append(FlattenSeq(groups), f)
  <2> DEFINE cur == groups[Len(groups)]
             full == cur # <<>> /\ TailCells(Append(cur, f), TRUE) > budget
  <2>1. cur \in Lists /\ Append(cur, f) \in Lists /\ <<f>> \in Lists /\ Len(groups) \in 1..Len(groups) BY <1>5 DEF Lists
  <2>2. full => Add(groups, f) = Append(groups, <<f>>) OBVIOUS
  <2>3. ~full => Add(groups, f) = [groups EXCEPT ![Len(groups)] = Append(cur, f)] OBVIOUS
  <2> HIDE DEF full, Add
  <2>4. CASE full
    <3>1. FlattenSeq(Append(groups, <<f>>)) = FlattenSeq(groups) \o <<f>> /\ FlattenSeq(groups) \in Seq(Nat)
      BY <1>5, <2>1, FlattenAppend DEF Lists
    <3>2. FlattenSeq(groups) \o <<f>> = Append(FlattenSeq(groups), f) BY <1>5, <3>1, AppendIsConcat
    <3>3. Append(groups, <<f>>) \in Seq(Lists) /\ Len(Append(groups, <<f>>)) # 0 BY <1>5, <2>1
    <3> QED BY <2>2, <2>4, <3>1, <3>2, <3>3
  <2>5. CASE ~full
    <3>1. FlattenSeq([groups EXCEPT ![Len(groups)] = Append(cur, f)]) = Append(FlattenSeq(groups), f)
      BY <1>5, FlattenGrow
    <3> DEFINE l == Append(cur, f)
    <3>2. l \in Lists BY <2>1
    <3> HIDE DEF l
    <3>3. /\ [groups EXCEPT ![Len(groups)] = l] \in Seq(Lists)
          /\ Len([groups EXCEPT ![Len(groups)] = l]) = Len(groups)
      BY <1>5, <2>1, <3>2
    <3>4. /\ [groups EXCEPT ![Len(groups)] = Append(cur, f)] \in Seq(Lists)
          /\ Len([groups EXCEPT ![Len(groups)] = Append(cur, f)]) = Len(groups)
      BY <3>3 DEF l
    <3> QED BY <1>5, <2>3, <2>5, <3>1, <3>4
  <2> QED BY <2>4, <2>5
<1>6. FlattenSeq(<<Files>>) = Files /\ <<Files>> \in Seq(Lists)
  <2>1. Files \in Lists BY <1>2 DEF Lists
  <2> QED BY <2>1, FlattenOne
<1> HIDE DEF Add
<1>7. \A k \in Nat : \E g : Built(g, k)
  <2> DEFINE Missing == {k \in Nat : ~\E g : Built(g, k)}
  <2> SUFFICES ASSUME Missing # {} PROVE FALSE OBVIOUS
  <2>1. PICK k \in Missing : \A j \in Missing : k <= j
    <3>1. Missing \subseteq Nat OBVIOUS
    <3> HIDE DEF Missing
    <3> QED BY <3>1, LeastExists
  <2>2. CASE k = 0
    <3>1. Built([n \in 0..0 |-> << <<>> >>], 0) OBVIOUS
    <3> QED BY <2>1, <2>2, <3>1
  <2>3. CASE k # 0
    <3>1. k \in Nat /\ k - 1 \in Nat /\ ~(k <= k - 1) BY <2>1, <2>3
    <3>2. PICK f : Built(f, k - 1) BY <2>1, <3>1
    <3> DEFINE last == Add(f[k - 1], Files[k])
               g == [n \in 0..k |-> IF n < k THEN f[n] ELSE last]
    <3>3. ASSUME NEW n \in 0..k PROVE g[n] = IF n = 0 THEN << <<>> >> ELSE Add(g[n - 1], Files[n])
      <4>1. CASE n < k
        <5>1. n \in 0..(k - 1) /\ g[n] = f[n] BY <3>1, <4>1
        <5>2. f[n] = IF n = 0 THEN << <<>> >> ELSE Add(f[n - 1], Files[n]) BY <3>2, <5>1
        <5>3. n # 0 => g[n - 1] = f[n - 1] BY <3>1, <4>1
        <5> QED BY <5>1, <5>2, <5>3
      <4>2. CASE n = k
        <5>1. g[k] = last BY <3>1
        <5>2. g[k - 1] = f[k - 1] BY <3>1
        <5> QED BY <2>3, <4>2, <5>1, <5>2
      <4> QED BY <3>1, <4>1, <4>2
    <3>4. g = [n \in 0..k |-> g[n]] OBVIOUS
    <3> HIDE DEF g
    <3>5. Built(g, k) BY <3>3, <3>4
    <3> QED BY <2>1, <3>5
  <2> QED BY <2>2, <2>3
<1>8. Built(all, Len(Files)) BY <1>2, <1>7
<1> HIDE DEF all
<1>9. all[0] = << <<>> >> BY <1>2, <1>8
<1>10. \A n \in 1..Len(Files) : all[n] = Add(all[n - 1], Files[n])
  <2> SUFFICES ASSUME NEW n \in 1..Len(Files) PROVE all[n] = Add(all[n - 1], Files[n]) OBVIOUS
  <2>1. n \in 0..Len(Files) /\ n # 0 BY <1>2
  <2> QED BY <1>8, <2>1
<1> DEFINE Good(n) == all[n] \in Seq(Lists) /\ Len(all[n]) # 0 /\ FlattenSeq(all[n]) = SubSeq(Files, 1, n)
           Wrong == {n \in 0..Len(Files) : ~Good(n)}
<1>11. Good(0)
  <2>1. Len(<< <<>> >>) = 1 /\ FlattenSeq(<< <<>> >>) = << >> BY <1>4, FlattenOne
  <2>4. SubSeq(Files, 1, 0) = << >> BY <1>2
  <2> QED BY <1>4, <1>9, <2>1, <2>4
<1>12. Wrong = {}
  <2> SUFFICES ASSUME Wrong # {} PROVE FALSE OBVIOUS
  <2> HIDE DEF Good
  <2>1. PICK n \in Wrong : \A j \in Wrong : n <= j
    <3>1. Wrong \subseteq Nat BY <1>2
    <3> HIDE DEF Wrong
    <3> QED BY <3>1, LeastExists
  <2>2. n # 0 BY <1>11, <2>1
  <2>3. n \in 1..Len(Files) /\ n - 1 \in 0..Len(Files) /\ ~(n <= n - 1) /\ n \in Nat BY <1>2, <2>1, <2>2
  <2>4. Good(n - 1) BY <2>1, <2>3
  <2> DEFINE before == all[n - 1]
             f == Files[n]
  <2>5. all[n] = Add(before, f) BY <1>10, <2>3
  <2>6. before \in Seq(Lists) /\ Len(before) # 0 /\ FlattenSeq(before) = SubSeq(Files, 1, n - 1) BY <2>4 DEF Good
  <2>7. f \in Nat BY <1>2, <2>3
  <2> HIDE DEF before, f
  <2>8. /\ all[n] \in Seq(Lists) /\ Len(all[n]) # 0
        /\ FlattenSeq(all[n]) = Append(SubSeq(Files, 1, n - 1), f)
    BY <1>5, <2>5, <2>6, <2>7
  <2>9. Append(SubSeq(Files, 1, n - 1), f) = SubSeq(Files, 1, n) BY <1>2, <2>3 DEF f
  <2>10. Good(n) BY <2>8, <2>9 DEF Good
  <2> QED BY <2>1, <2>10
<1>13. SubSeq(Files, 1, Len(Files)) = Files BY <1>2
<1>14. all[Len(Files)] \in Seq(Lists) /\ Len(all[Len(Files)]) # 0 /\ FlattenSeq(all[Len(Files)]) = Files
  <2>1. Len(Files) \in 0..Len(Files) BY <1>2
  <2> QED BY <1>12, <1>13, <2>1
<1>15. Len(<<Files>>) # 0 OBVIOUS
<1> QED BY <1>3, <1>6, <1>14, <1>15

-----------------------------------------------------------------------------
(* send                                                                    *)

\* Nothing else acts on a pane while the secretary sends into it.
NoDisturbance == Disturbances = {}

ApprovalEvent == [kind : {"delegate_sent"}, task : Tasks, dir : Dirs]
                 \union [kind : {"self_edit_approval_sent"}, task : Tasks]
PaneKeys == Texts \union {Scrap, Enter}
Drafts == Texts \union {Scrap}
PaneState == [keys : Seq(PaneKeys), draft : Seq(Drafts), tall : BOOLEAN, dialog : BOOLEAN,
              queued : BOOLEAN, inbox : SUBSET Texts]
SendPlaces == {"idle", "pre", "write", "landed", "enter", "gone", "record"}
SendState == [at : SendPlaces, task : Tasks, i : Nat, parts : Seq(Lists), runs : Nat]

\* What a run d of send types, and the parts before it that the worker has.
TextOf(d) == [part |-> d.i, parts |-> d.parts]
Given(s, p, n) == \A i \in DOMAIN s : i < n => [part |-> i, parts |-> s] \in p.inbox

\* Where the text of d is, by where d has come to.
Lies(p, d) ==
  /\ d.at \in {"pre", "write"} => p.keys = <<>>
  /\ d.at = "write" => p.dialog \/ p.draft = <<>>
  /\ d.at = "landed" => \/ p.dialog
                        \/ p.keys = <<TextOf(d)>> /\ p.draft = <<>>
                        \/ p.keys = <<>> /\ p.draft = <<TextOf(d)>>
  /\ d.at = "enter" => ~p.dialog /\ p.keys = <<>> /\ p.draft = <<TextOf(d)>>
  /\ d.at = "gone" => /\ ~p.dialog
                      /\ \/ p.keys = <<Enter>> /\ p.draft = <<TextOf(d)>>
                         \/ p.keys = <<>> /\ p.draft = <<TextOf(d)>>
                         \/ p.keys = <<>> /\ p.draft = <<>> /\ TextOf(d) \in p.inbox

SendGoesRight(p, d) ==
  d.at # "idle" => /\ d.parts \in Splits /\ d.i \in DOMAIN d.parts
                   /\ Given(d.parts, p, IF d.at = "record" THEN Len(d.parts) + 1 ELSE d.i)
                   /\ Lies(p, d)

\* The worker has all parts of one approval.
HasAll(p) == \E s \in Splits : \A i \in DOMAIN s : [part |-> i, parts |-> s] \in p.inbox

ApprovalTyped ==
  /\ runs \in [Tasks -> Run] /\ events \in Seq(ApprovalEvent)
  /\ pane \in [Tasks -> PaneState] /\ send \in SendState

ApprovalInv ==
  /\ ApprovalTyped
  /\ SendGoesRight(pane[send.task], send)
  /\ \A t \in Tasks : LatestEventAt("delegate_sent", t) # 0 /\ Approved(t) => HasAll(pane[t])

LEMMA TextIsText ==
  ASSUME NEW s \in Splits, NEW i \in DOMAIN s
  PROVE  /\ [part |-> i, parts |-> s] \in Texts
         /\ [part |-> i, parts |-> s] # Scrap /\ [part |-> i, parts |-> s] # Enter
<1>1. s \in Seq(Lists) BY SplitsAreWhole
<1>2. i # 0 BY <1>1
<1> QED BY <1>2 DEF Texts, Scrap, Enter

LEMMA TextsAreTexts ==
  ASSUME NEW t \in Texts
  PROVE  t # Scrap /\ t # Enter
<1>1. PICK s \in Splits : \E i \in DOMAIN s : t = [part |-> i, parts |-> s] BY DEF Texts
<1> QED BY <1>1, TextIsText

LEMMA ScrapIsNoEnter == Scrap # Enter
<1>1. <<>> # << <<>> >>
  <2>1. Len(<<>>) = 0 /\ Len(<< <<>> >>) = 1 OBVIOUS
  <2> QED BY <2>1
<1> QED BY <1>1 DEF Scrap, Enter

\* A pane that changes but keeps its messages.
LEMMA PaneMoves ==
  ASSUME ApprovalInv, NEW t \in Tasks, NEW x \in PaneState, pane' = [pane EXCEPT ![t] = x],
         pane[t].inbox \subseteq x.inbox, runs' = runs, events' = events,
         NEW d \in SendState, send' = d, SendGoesRight(IF d.task = t THEN x ELSE pane[d.task], d)
  PROVE  ApprovalInv'
<1>1. pane' \in [Tasks -> PaneState] BY DEF ApprovalInv, ApprovalTyped
<1>2. \A u \in Tasks : pane'[u] = IF u = t THEN x ELSE pane[u] BY DEF ApprovalInv, ApprovalTyped
<1>3. SendGoesRight(pane'[d.task], d) BY <1>2 DEF SendState
<1>4. \A u \in Tasks : pane[u].inbox \subseteq pane'[u].inbox BY <1>2
<1>5. \A u \in Tasks : HasAll(pane[u]) => HasAll(pane'[u]) BY <1>4 DEF HasAll
<1>6. \A u \in Tasks : LatestEventAt("delegate_sent", u)' = LatestEventAt("delegate_sent", u)
                       /\ Approved(u)' = Approved(u)
  BY DEF LatestEventAt, Approved, Of
<1>7. ApprovalTyped' BY <1>1 DEF ApprovalInv, ApprovalTyped
<1> QED BY <1>3, <1>5, <1>6, <1>7 DEF ApprovalInv

\* A step of send that types nothing.
LEMMA SendMoves ==
  ASSUME ApprovalInv, pane' = pane, runs' = runs, events' = events,
         NEW d \in SendState, send' = d, SendGoesRight(pane[d.task], d)
  PROVE  ApprovalInv'
<1>1. \A u \in Tasks : LatestEventAt("delegate_sent", u)' = LatestEventAt("delegate_sent", u)
                       /\ Approved(u)' = Approved(u)
  BY DEF LatestEventAt, Approved, Of
<1>2. SendGoesRight(pane'[d.task], d) BY DEF ApprovalInv
<1>3. \A u \in Tasks : HasAll(pane[u]) <=> HasAll(pane'[u]) BY DEF ApprovalInv
<1>4. ApprovalTyped' BY DEF ApprovalInv, ApprovalTyped
<1> QED BY <1>1, <1>2, <1>3, <1>4 DEF ApprovalInv

LEMMA IdleIsSound ==
  ASSUME ApprovalTyped
  PROVE  [Idle EXCEPT !.runs = send.runs] \in SendState /\ [Idle EXCEPT !.runs = send.runs].at = "idle"
<1>1. (CHOOSE t \in Tasks : TRUE) \in Tasks BY EventLogAssumption
<1>2. send.runs \in Nat BY DEF ApprovalTyped, SendState
<1>3. <<>> \in Seq(Lists) OBVIOUS
<1> QED BY <1>1, <1>2, <1>3 DEF Idle, SendState, SendPlaces

LEMMA ApprovalStarts == ApprovalInit => ApprovalInv
<1> SUFFICES ASSUME ApprovalInit PROVE ApprovalInv OBVIOUS
<1>1. runs \in [Tasks -> Run]
  BY DEF ApprovalInit, NoRuns, Run, Statuses
<1>2. events \in Seq(ApprovalEvent) BY DEF ApprovalInit
<1>3. NewPane \in PaneState BY DEF NewPane, PaneState
<1>4. pane \in [Tasks -> PaneState] BY <1>3 DEF ApprovalInit
<1>5. send \in SendState /\ send.at = "idle"
  <2>1. (CHOOSE t \in Tasks : TRUE) \in Tasks BY EventLogAssumption
  <2>2. <<>> \in Seq(Lists) OBVIOUS
  <2> QED BY <2>1, <2>2 DEF ApprovalInit, Idle, SendState, SendPlaces
<1>6. ASSUME NEW t \in Tasks PROVE LatestEventAt("delegate_sent", t) = 0
  <2>1. Of("delegate_sent", t) = {} BY DEF ApprovalInit, Of
  <2> QED BY <2>1 DEF LatestEventAt
<1> QED BY <1>1, <1>2, <1>4, <1>5, <1>6 DEF ApprovalInv, ApprovalTyped, SendGoesRight

\* What the worker was given it keeps.
LEMMA GivenStays ==
  ASSUME NEW p, NEW x, NEW d, SendGoesRight(p, d), p.inbox \subseteq x.inbox,
         d.at # "idle" => Lies(x, d)
  PROVE  SendGoesRight(x, d)
BY DEF SendGoesRight, Given

\* A pane that changes by itself.
LEMMA PaneChanges ==
  ASSUME ApprovalInv, NEW t \in Tasks, NEW x \in PaneState, pane' = [pane EXCEPT ![t] = x],
         pane[t].inbox \subseteq x.inbox, UNCHANGED <<runs, events, send>>,
         send.at # "idle" /\ send.task = t => Lies(x, send)
  PROVE  ApprovalInv'
<1>1. send \in SendState /\ SendGoesRight(pane[send.task], send) BY DEF ApprovalInv, ApprovalTyped
<1>2. SendGoesRight(IF send.task = t THEN x ELSE pane[send.task], send)
  <2>1. CASE send.task = t BY <1>1, <2>1, GivenStays
  <2>2. CASE send.task # t BY <1>1, <2>2
  <2> QED BY <2>1, <2>2
<1>3. send' = send BY DEF approvalVars
<1> DEFINE d == send
<1> HIDE DEF d
<1> QED BY <1>1, <1>2, <1>3, PaneMoves

LEMMA KeysAreTaken ==
  ASSUME NEW p \in PaneState, p.keys # <<>>
  PROVE  /\ Head(p.keys) \in PaneKeys /\ Tail(p.keys) \in Seq(PaneKeys)
         /\ \A k : p.keys = <<k>> => Head(p.keys) = k /\ Tail(p.keys) = <<>>
<1> DEFINE q == p.keys
<1>1. q \in Seq(PaneKeys) /\ q # <<>> BY DEF PaneState
<1> HIDE DEF q
<1>2. Head(q) \in PaneKeys /\ Tail(q) \in Seq(PaneKeys) BY <1>1
<1>3. ASSUME NEW k, q = <<k>> PROVE Head(q) = k /\ Tail(q) = <<>>
  <2>1. Head(<<k>>) = k /\ Tail(<<k>>) = <<>> OBVIOUS
  <2> QED BY <1>3, <2>1
<1> QED BY <1>2, <1>3 DEF q

LEMMA TakeKeyKeeps ==
  ASSUME ApprovalInv, NEW t \in Tasks, TakeKey(t)
  PROVE  ApprovalInv'
<1> DEFINE p == pane[t]
           key == Head(p.keys)
           rest == [p EXCEPT !.keys = Tail(@)]
<1>1. p \in PaneState /\ p.keys # <<>> /\ UNCHANGED <<runs, events, send>>
  BY DEF TakeKey, ApprovalInv, ApprovalTyped
<1>2. /\ key \in PaneKeys /\ Tail(p.keys) \in Seq(PaneKeys)
      /\ \A k : p.keys = <<k>> => key = k /\ Tail(p.keys) = <<>>
  BY <1>1, KeysAreTaken
<1>3. /\ rest \in PaneState /\ rest.keys = Tail(p.keys) /\ rest.inbox = p.inbox
      /\ rest.draft = p.draft /\ rest.dialog = p.dialog
  BY <1>1, <1>2 DEF PaneState
<1>4. send.at # "idle" /\ send.task = t =>
        /\ send.parts \in Splits /\ send.i \in DOMAIN send.parts /\ Lies(p, send)
        /\ TextOf(send) # Enter /\ TextOf(send) # Scrap
  BY TextIsText DEF ApprovalInv, SendGoesRight, TextOf
<1>5. CASE p.dialog /\ pane' = [pane EXCEPT ![t] = rest]
  <2>1. send.at # "idle" /\ send.task = t => Lies(rest, send)
    BY <1>1, <1>3, <1>4, <1>5 DEF Lies
  <2> HIDE DEF rest
  <2> QED BY <1>1, <1>3, <1>5, <2>1, PaneChanges
<1>6. CASE ~p.dialog /\ key # Enter /\ pane' = [pane EXCEPT ![t] = [rest EXCEPT !.draft = Append(@, key)]]
  <2> DEFINE more == Append(p.draft, key)
             x == [rest EXCEPT !.draft = more]
  <2>1. key \in Drafts BY <1>2, <1>6 DEF PaneKeys, Drafts
  <2>2. more \in Seq(Drafts) /\ (p.draft = <<>> => more = <<key>>)
    <3> DEFINE q == p.draft
    <3>1. q \in Seq(Drafts) BY <1>1 DEF PaneState
    <3> HIDE DEF key, q
    <3>2. Append(q, key) \in Seq(Drafts) BY <2>1, <3>1
    <3>3. q = <<>> => Append(q, key) = <<key>> OBVIOUS
    <3> QED BY <3>2, <3>3 DEF q
  <2>3. x = [rest EXCEPT !.draft = Append(@, key)] BY <1>3
  <2> HIDE DEF more
  <2>4. /\ x \in PaneState /\ x.keys = Tail(p.keys) /\ x.inbox = p.inbox /\ x.draft = more
        /\ x.dialog = p.dialog
    <3> HIDE DEF rest
    <3> QED BY <1>3, <2>2 DEF PaneState
  <2> HIDE DEF rest, x, key
  <2>5. send.at # "idle" /\ send.task = t => Lies(x, send)
    BY <1>1, <1>2, <1>4, <1>6, <2>2, <2>4 DEF Lies
  <2> QED BY <1>1, <1>6, <2>3, <2>4, <2>5, PaneChanges
<1>7. ASSUME ~p.dialog, key = Enter, NEW queued \in BOOLEAN, NEW swallowed \in BOOLEAN,
             pane' = [pane EXCEPT ![t] =
               IF swallowed \/ p.draft = <<>> THEN rest
               ELSE [rest EXCEPT !.draft = <<>>, !.queued = queued,
                                 !.inbox = @ \union (Range(p.draft) \ {Scrap})]]
      PROVE ApprovalInv'
  <2>1. CASE swallowed \/ p.draft = <<>>
    <3>1. pane' = [pane EXCEPT ![t] = rest] BY <1>7, <2>1
    <3> HIDE DEF rest, key
    <3>2. send.at # "idle" /\ send.task = t => Lies(rest, send)
      BY <1>1, <1>2, <1>3, <1>4, <1>7, <2>1 DEF Lies
    <3> QED BY <1>1, <1>3, <3>1, <3>2, PaneChanges
  <2>2. CASE ~(swallowed \/ p.draft = <<>>)
    <3> DEFINE got == p.inbox \union (Range(p.draft) \ {Scrap})
               x == [rest EXCEPT !.draft = <<>>, !.queued = queued, !.inbox = got]
    <3>1. pane' = [pane EXCEPT ![t] = x] BY <1>3, <1>7, <2>2
    <3>2. got \subseteq Texts /\ \A s : p.draft = <<s>> /\ s # Scrap => s \in got
      <4>1. p.draft \in Seq(Drafts) /\ p.inbox \subseteq Texts BY <1>1 DEF PaneState
      <4>2. Range(p.draft) \subseteq Drafts BY <4>1 DEF Range
      <4>3. \A s : p.draft = <<s>> => s \in Range(p.draft) BY DEF Range
      <4> QED BY <4>1, <4>2, <4>3 DEF Drafts
    <3>3. p.inbox \subseteq got OBVIOUS
    <3> HIDE DEF got
    <3>4. /\ x \in PaneState /\ x.keys = Tail(p.keys) /\ x.inbox = got /\ x.draft = <<>>
          /\ x.dialog = p.dialog
      <4> HIDE DEF rest
      <4>1. <<>> \in Seq(Drafts) /\ got \in SUBSET Texts BY <3>2
      <4> QED BY <1>3, <4>1 DEF PaneState
    <3> HIDE DEF x, rest, key
    <3>5. send.at # "idle" /\ send.task = t => Lies(x, send)
      BY <1>1, <1>2, <1>4, <1>7, <2>2, <3>2, <3>3, <3>4 DEF Lies
    <3> QED BY <1>1, <3>1, <3>3, <3>4, <3>5, PaneChanges
  <2> QED BY <2>1, <2>2
<1> QED BY <1>5, <1>6, <1>7 DEF TakeKey

LEMMA TurnEndsKeeps ==
  ASSUME ApprovalInv, NEW t \in Tasks, TurnEnds(t)
  PROVE  ApprovalInv'
<1> DEFINE x == [pane[t] EXCEPT !.queued = FALSE]
<1>1. pane[t] \in PaneState /\ pane' = [pane EXCEPT ![t] = x] /\ UNCHANGED <<runs, events, send>>
  BY DEF ApprovalInv, ApprovalTyped, TurnEnds
<1>2. /\ x \in PaneState /\ x.keys = pane[t].keys /\ x.draft = pane[t].draft
      /\ x.dialog = pane[t].dialog /\ x.inbox = pane[t].inbox
  BY <1>1 DEF PaneState
<1> HIDE DEF x
<1>3. send.at # "idle" /\ send.task = t => Lies(x, send)
  BY <1>2 DEF ApprovalInv, SendGoesRight, Lies
<1> QED BY <1>1, <1>2, <1>3, PaneChanges

LEMMA DialogKeeps ==
  ASSUME NoDisturbance, ApprovalInv, NEW t \in Tasks, Dialog(t)
  PROVE  ApprovalInv'
<1> DEFINE x == [pane[t] EXCEPT !.dialog = ~@]
<1>1. pane[t] \in PaneState /\ pane' = [pane EXCEPT ![t] = x] /\ UNCHANGED <<runs, events, send>>
  BY DEF ApprovalInv, ApprovalTyped, Dialog
<1>2. x \in PaneState /\ x.inbox = pane[t].inbox
  BY <1>1 DEF PaneState
<1> HIDE DEF x
<1>3. ~(send.at # "idle" /\ send.task = t) BY DEF Dialog, Undisturbed, NoDisturbance
<1> QED BY <1>1, <1>2, <1>3, PaneChanges

LEMMA OtherTypesKeeps ==
  ASSUME NoDisturbance, ApprovalInv, NEW t \in Tasks, OtherTypes(t)
  PROVE  ApprovalInv'
<1> DEFINE p == pane[t]
           got == p.inbox \union (Range(p.draft) \ {Scrap})
<1>1. p \in PaneState /\ UNCHANGED <<runs, events, send>>
  BY DEF ApprovalInv, ApprovalTyped, OtherTypes
<1>2. ~(send.at # "idle" /\ send.task = t) BY DEF OtherTypes, Undisturbed, NoDisturbance
<1>3. got \in SUBSET Texts /\ p.inbox \subseteq got
  <2>1. p.draft \in Seq(Drafts) /\ p.inbox \subseteq Texts BY <1>1 DEF PaneState
  <2>2. Range(p.draft) \subseteq Drafts BY <2>1 DEF Range
  <2> QED BY <2>1, <2>2 DEF Drafts
<1>4. <<Scrap>> \in Seq(Drafts) /\ <<>> \in Seq(Drafts) BY DEF Drafts
<1>5. \E draft \in {<<Scrap>>, <<>>} : \/ pane' = [pane EXCEPT ![t].draft = draft]
                                       \/ pane' = [pane EXCEPT ![t].draft = draft, ![t].inbox = got]
  BY DEF OtherTypes
<1> HIDE DEF got
<1>6. PICK draft \in {<<Scrap>>, <<>>} : \/ pane' = [pane EXCEPT ![t].draft = draft]
                                         \/ pane' = [pane EXCEPT ![t].draft = draft, ![t].inbox = got]
  BY <1>5
<1> DEFINE x == [p EXCEPT !.draft = draft]
           y == [p EXCEPT !.draft = draft, !.inbox = got]
<1>7. pane' = [pane EXCEPT ![t] = x] \/ pane' = [pane EXCEPT ![t] = y]
  BY <1>6 DEF ApprovalInv, ApprovalTyped
<1>8. x \in PaneState /\ x.inbox = p.inbox /\ y \in PaneState /\ y.inbox = got
  BY <1>1, <1>3, <1>4, <1>6 DEF PaneState
<1> HIDE DEF x, y
<1> QED BY <1>1, <1>2, <1>3, <1>7, <1>8, PaneChanges

LEMMA SendStartKeeps ==
  ASSUME NoDisturbance, ApprovalInv, NEW t \in Tasks, Start(t)
  PROVE  ApprovalInv'
<1>1. PICK s \in Splits : send' = [at |-> "pre", task |-> t, i |-> 1, parts |-> s, runs |-> send.runs + 1]
  BY DEF Start
<1> DEFINE d == [at |-> "pre", task |-> t, i |-> 1, parts |-> s, runs |-> send.runs + 1]
<1>2. s \in Seq(Lists) /\ 1 \in DOMAIN s
  <2>1. s \in Seq(Lists) /\ Len(s) # 0 BY SplitsAreWhole
  <2> QED BY <2>1
<1>3. d \in SendState BY <1>2 DEF SendState, SendPlaces, ApprovalInv, ApprovalTyped
<1>4. pane[t].keys = <<>> BY DEF Start, NoDisturbance
<1>5. \A i \in DOMAIN s : ~(i < 1) BY <1>2
<1>6. SendGoesRight(pane[d.task], d) BY <1>2, <1>4, <1>5 DEF SendGoesRight, Given, Lies
<1>7. UNCHANGED <<runs, events, pane>> BY DEF Start
<1> HIDE DEF d
<1>8. send' = d BY <1>1 DEF d
<1> QED BY <1>3, <1>6, <1>7, <1>8, SendMoves

LEMMA FailKeeps ==
  ASSUME ApprovalInv, Fail, UNCHANGED <<runs, events, pane>>
  PROVE  ApprovalInv'
<1> DEFINE d == [Idle EXCEPT !.runs = send.runs]
<1>1. d \in SendState /\ d.at = "idle" BY IdleIsSound DEF ApprovalInv
<1> HIDE DEF d
<1>2. send' = d BY DEF Fail, d
<1> QED BY <1>1, <1>2, SendMoves DEF SendGoesRight

\* send goes on to another place with the same part.
LEMMA GotoKeeps ==
  ASSUME ApprovalInv, send.at # "idle", send.at # "record", NEW next \in SendPlaces,
         next # "idle", next # "record", Goto(next),
         UNCHANGED <<runs, events, pane>>,
         Lies(pane[send.task], [send EXCEPT !.at = next])
  PROVE  ApprovalInv'
<1> DEFINE d == [send EXCEPT !.at = next]
<1>1. send \in SendState BY DEF ApprovalInv, ApprovalTyped
<1>2. /\ d \in SendState /\ d.at = next /\ d.task = send.task /\ d.i = send.i /\ d.parts = send.parts
  BY <1>1 DEF SendState
<1>3. Lies(pane[d.task], d) BY <1>2
<1> HIDE DEF d
<1>4. SendGoesRight(pane[d.task], d) BY <1>2, <1>3 DEF ApprovalInv, SendGoesRight
<1>5. send' = d BY DEF Goto, d
<1> QED BY <1>2, <1>4, <1>5, SendMoves

\* The composer shows something of whatever it holds, and all of one line.
LEMMA ComposerShows ==
  ASSUME NEW p \in PaneState
  PROVE  /\ Composer(p) = <<>> => p.draft = <<>>
         /\ \A s : p.draft = <<s>> => Composer(p) = <<s>>
         /\ p.draft = <<>> => Composer(p) = <<>>
<1> DEFINE q == p.draft
<1>1. q \in Seq(Drafts) BY DEF PaneState
<1>2. Composer(p) = IF p.dialog \/ p.tall \/ q = <<>> THEN q ELSE <<q[Len(q)]>> BY DEF Composer, Last
<1> HIDE DEF q
<1>3. ASSUME NEW s, q = <<s>> PROVE Composer(p) = <<s>>
  <2>1. Len(<<s>>) = 1 /\ <<s>>[1] = s OBVIOUS
  <2>2. q[Len(q)] = s BY <1>3, <2>1
  <2> QED BY <1>2, <1>3, <2>2
<1>4. <<q[Len(q)]>> # <<>>
  <2>1. Len(<<q[Len(q)]>>) = 1 /\ Len(<<>>) = 0 OBVIOUS
  <2> QED BY <2>1
<1> QED BY <1>2, <1>3, <1>4 DEF q

LEMMA SenderIsSound ==
  ASSUME ApprovalInv, send.at # "idle"
  PROVE  /\ send \in SendState /\ send.task \in Tasks /\ pane[send.task] \in PaneState
         /\ send.parts \in Splits /\ send.i \in DOMAIN send.parts /\ Text = TextOf(send)
         /\ Text \in Texts /\ Text # Scrap /\ Text # Enter /\ Lies(pane[send.task], send)
<1>1. send \in SendState /\ send.task \in Tasks /\ pane[send.task] \in PaneState
  BY DEF ApprovalInv, ApprovalTyped, SendState
<1>2. send.parts \in Splits /\ send.i \in DOMAIN send.parts /\ Lies(pane[send.task], send)
  BY DEF ApprovalInv, SendGoesRight
<1>3. Text = TextOf(send) BY DEF Text, TextOf
<1> QED BY <1>1, <1>2, <1>3, TextIsText DEF Text

LEMMA CheckComposerKeeps ==
  ASSUME ApprovalInv, CheckComposer
  PROVE  ApprovalInv'
<1> DEFINE p == pane[send.task]
<1>1. send.at = "pre" /\ UNCHANGED <<runs, events, pane>> BY DEF CheckComposer, At
<1>2. CASE Fail BY <1>1, <1>2, FailKeeps
<1>3. CASE ~(~p.dialog /\ Composer(p) # <<>>) /\ Goto("write")
  <2>1. p \in PaneState /\ p.keys = <<>> /\ send \in SendState
    BY <1>1, SenderIsSound DEF Lies
  <2>2. p.dialog \/ p.draft = <<>> BY <1>3, <2>1, ComposerShows
  <2>3. [send EXCEPT !.at = "write"].at = "write" BY <2>1 DEF SendState
  <2>4. Lies(p, [send EXCEPT !.at = "write"]) BY <2>1, <2>2, <2>3 DEF Lies
  <2> QED BY <1>1, <1>3, <2>4, GotoKeeps DEF SendPlaces
<1> QED BY <1>2, <1>3 DEF CheckComposer

\* send types some keys and goes on, or gives up.
LEMMA TypingKeeps ==
  ASSUME ApprovalInv, send.at # "idle", send.at # "record", UNCHANGED <<runs, events>>,
         NEW typed \in Seq(PaneKeys),
         pane' = [pane EXCEPT ![send.task].keys = @ \o typed],
         Fail \/ \E next \in SendPlaces \ {"idle", "record"} :
           /\ Goto(next)
           /\ \A x : /\ x.keys = pane[send.task].keys \o typed /\ x.draft = pane[send.task].draft
                     /\ x.dialog = pane[send.task].dialog
                     => Lies(x, [send EXCEPT !.at = next])
  PROVE  ApprovalInv'
<1> DEFINE t == send.task
           p == pane[t]
           more == p.keys \o typed
           x == [p EXCEPT !.keys = more]
<1>1. t \in Tasks /\ p \in PaneState /\ send \in SendState BY SenderIsSound
<1>2. pane' = [pane EXCEPT ![t] = x] BY <1>1 DEF ApprovalInv, ApprovalTyped
<1>3. more \in Seq(PaneKeys) BY <1>1 DEF PaneState
<1> HIDE DEF more
<1>4. /\ x \in PaneState /\ x.keys = more /\ x.draft = p.draft
      /\ x.dialog = p.dialog /\ x.inbox = p.inbox
  <2> HIDE DEF p
  <2> QED BY <1>1, <1>3 DEF PaneState
<1> HIDE DEF x
<1>5. CASE Fail
  <2> DEFINE d == [Idle EXCEPT !.runs = send.runs]
  <2>1. d \in SendState /\ d.at = "idle" BY IdleIsSound DEF ApprovalInv
  <2>2. send' = d BY <1>5 DEF Fail
  <2> HIDE DEF d
  <2>3. SendGoesRight(IF d.task = t THEN x ELSE pane[d.task], d) BY <2>1 DEF SendGoesRight
  <2> HIDE DEF t
  <2> QED BY <1>1, <1>2, <1>4, <2>1, <2>2, <2>3, PaneMoves
<1>6. ASSUME NEW next \in SendPlaces \ {"idle", "record"}, Goto(next),
             Lies(x, [send EXCEPT !.at = next])
      PROVE  ApprovalInv'
  <2> DEFINE d == [send EXCEPT !.at = next]
  <2>1. /\ d \in SendState /\ d.at = next /\ d.task = t /\ d.i = send.i /\ d.parts = send.parts
    BY <1>1 DEF SendState
  <2>2. send' = d BY <1>6 DEF Goto
  <2>3. Lies(x, d) BY <1>6
  <2> HIDE DEF d
  <2>4. SendGoesRight(x, d) BY <1>4, <2>1, <2>3 DEF ApprovalInv, SendGoesRight, Given
  <2> HIDE DEF t
  <2> QED BY <1>1, <1>2, <1>4, <2>1, <2>2, <2>4, PaneMoves
<1> QED BY <1>4, <1>5, <1>6 DEF more

LEMMA OneKeyAfterNone ==
  ASSUME NEW key \in PaneKeys, NEW keys \in Seq(PaneKeys)
  PROVE  /\ <<key>> \in Seq(PaneKeys) /\ Append(keys, key) = keys \o <<key>>
         /\ keys = <<>> => keys \o <<key>> = <<key>>
<1>1. <<key>> \in Seq(PaneKeys) OBVIOUS
<1>2. Append(keys, key) = keys \o <<key>> BY AppendIsConcat
<1>3. <<>> \o <<key>> = <<key>> BY <1>1, ConcatEmptySeq
<1> QED BY <1>1, <1>2, <1>3

LEMMA SendTextKeeps ==
  ASSUME ApprovalInv, SendText
  PROVE  ApprovalInv'
<1> DEFINE t == send.task
           p == pane[t]
<1>1. send.at = "write" /\ UNCHANGED <<runs, events>> BY DEF SendText, At
<1>2. /\ p \in PaneState /\ Text \in PaneKeys /\ Text = TextOf(send) /\ send \in SendState
      /\ p.keys = <<>> /\ (p.dialog \/ p.draft = <<>>)
  BY <1>1, SenderIsSound DEF Lies, PaneKeys
<1>3. Scrap \in PaneKeys /\ p.keys \in Seq(PaneKeys) BY <1>2 DEF PaneKeys, PaneState
<1>4. CASE Goto("landed") /\ pane' = [pane EXCEPT ![t].keys = Append(@, Text)]
  <2>1. /\ <<Text>> \in Seq(PaneKeys) /\ Append(p.keys, Text) = p.keys \o <<Text>>
        /\ p.keys \o <<Text>> = <<Text>>
    BY <1>2, <1>3, OneKeyAfterNone
  <2>2. pane' = [pane EXCEPT ![t].keys = @ \o <<Text>>] BY <1>4, <2>1
  <2>3. ASSUME NEW x, x.keys = p.keys \o <<Text>>, x.draft = p.draft, x.dialog = p.dialog
        PROVE  Lies(x, [send EXCEPT !.at = "landed"])
    <3> DEFINE d == [send EXCEPT !.at = "landed"]
    <3>1. d.at = "landed" /\ TextOf(d) = Text BY <1>2 DEF SendState, TextOf
    <3> HIDE DEF d
    <3>2. Lies(x, d) BY <1>2, <2>1, <2>3, <3>1 DEF Lies
    <3> QED BY <3>2 DEF d
  <2>4. "landed" \in SendPlaces \ {"idle", "record"} BY DEF SendPlaces
  <2>5. send.at # "idle" /\ send.at # "record" BY <1>1
  <2> QED BY <1>1, <1>4, <2>1, <2>2, <2>3, <2>4, <2>5, TypingKeeps
<1>5. ASSUME Fail, NEW typed \in {<<>>, <<Scrap>>, <<Text>>}, pane' = [pane EXCEPT ![t].keys = @ \o typed]
      PROVE  ApprovalInv'
  <2>1. typed \in Seq(PaneKeys)
    <3>1. <<>> \in Seq(PaneKeys) /\ <<Scrap>> \in Seq(PaneKeys) /\ <<Text>> \in Seq(PaneKeys)
      BY <1>2, <1>3, OneKeyAfterNone
    <3> QED BY <1>5, <3>1
  <2>2. send.at # "idle" /\ send.at # "record" BY <1>1
  <2> QED BY <1>1, <1>5, <2>1, <2>2, TypingKeeps
<1> QED BY <1>4, <1>5 DEF SendText

LEMMA CheckLandedKeeps ==
  ASSUME ApprovalInv, CheckLanded
  PROVE  ApprovalInv'
<1> DEFINE p == pane[send.task]
           d == [send EXCEPT !.at = "enter"]
<1>1. send.at = "landed" /\ UNCHANGED <<runs, events, pane>> /\ Goto("enter") BY DEF CheckLanded, At
<1>2. /\ p \in PaneState /\ Text = TextOf(send) /\ Lies(p, send) /\ send \in SendState
  BY <1>1, SenderIsSound
<1>3. ~p.dialog /\ Composer(p) = <<Text>> BY DEF CheckLanded, Shows
<1>4. p.draft # <<>>
  <2>1. <<Text>> # <<>>
    <3>1. Len(<<Text>>) = 1 /\ Len(<<>>) = 0 OBVIOUS
    <3> QED BY <3>1
  <2> QED BY <1>2, <1>3, <2>1, ComposerShows
<1>5. p.keys = <<>> /\ p.draft = <<Text>> BY <1>1, <1>2, <1>3, <1>4 DEF Lies
<1>6. d.at = "enter" /\ TextOf(d) = Text BY <1>2 DEF SendState, TextOf
<1> HIDE DEF d
<1>7. Lies(p, d) BY <1>3, <1>5, <1>6 DEF Lies
<1>8. Lies(p, [send EXCEPT !.at = "enter"]) BY <1>7 DEF d
<1> QED BY <1>1, <1>8, GotoKeeps DEF SendPlaces

LEMMA SendEnterKeeps ==
  ASSUME ApprovalInv, SendEnter
  PROVE  ApprovalInv'
<1> DEFINE t == send.task
           p == pane[t]
<1>1. send.at = "enter" /\ UNCHANGED <<runs, events>> BY DEF SendEnter, At
<1>2. /\ p \in PaneState /\ Text = TextOf(send) /\ send \in SendState
      /\ ~p.dialog /\ p.keys = <<>> /\ p.draft = <<Text>>
  BY <1>1, SenderIsSound DEF Lies
<1>3. Enter \in PaneKeys /\ p.keys \in Seq(PaneKeys) BY <1>2 DEF PaneKeys, PaneState
<1>4. CASE Goto("gone") /\ pane' = [pane EXCEPT ![t].keys = Append(@, Enter)]
  <2>1. /\ <<Enter>> \in Seq(PaneKeys) /\ Append(p.keys, Enter) = p.keys \o <<Enter>>
        /\ p.keys \o <<Enter>> = <<Enter>>
    BY <1>2, <1>3, OneKeyAfterNone
  <2>2. pane' = [pane EXCEPT ![t].keys = @ \o <<Enter>>] BY <1>4, <2>1
  <2>3. ASSUME NEW x, x.keys = p.keys \o <<Enter>>, x.draft = p.draft, x.dialog = p.dialog
        PROVE  Lies(x, [send EXCEPT !.at = "gone"])
    <3> DEFINE d == [send EXCEPT !.at = "gone"]
    <3>1. d.at = "gone" /\ TextOf(d) = Text BY <1>2 DEF SendState, TextOf
    <3> HIDE DEF d
    <3>2. Lies(x, d) BY <1>2, <2>1, <2>3, <3>1 DEF Lies
    <3> QED BY <3>2 DEF d
  <2>4. "gone" \in SendPlaces \ {"idle", "record"} BY DEF SendPlaces
  <2>5. send.at # "idle" /\ send.at # "record" BY <1>1
  <2> QED BY <1>1, <1>4, <2>1, <2>2, <2>3, <2>4, <2>5, TypingKeeps
<1>5. ASSUME Fail, NEW typed \in {<<>>, <<Enter>>}, pane' = [pane EXCEPT ![t].keys = @ \o typed]
      PROVE  ApprovalInv'
  <2>1. typed \in Seq(PaneKeys)
    <3>1. <<>> \in Seq(PaneKeys) /\ <<Enter>> \in Seq(PaneKeys) BY <1>3, OneKeyAfterNone
    <3> QED BY <1>5, <3>1
  <2>2. send.at # "idle" /\ send.at # "record" BY <1>1
  <2> QED BY <1>1, <1>5, <2>1, <2>2, TypingKeeps
<1> QED BY <1>4, <1>5 DEF SendEnter

LEMMA CheckSubmittedKeeps ==
  ASSUME ApprovalInv, CheckSubmitted
  PROVE  ApprovalInv'
<1> DEFINE p == pane[send.task]
           more == [send EXCEPT !.at = "pre", !.i = @ + 1]
           done == [send EXCEPT !.at = "record"]
           s == send.parts
<1>1. send.at = "gone" /\ UNCHANGED <<runs, events, pane>> BY DEF CheckSubmitted, At
<1>2. /\ p \in PaneState /\ Text = TextOf(send) /\ Lies(p, send) /\ send \in SendState
      /\ s \in Splits /\ send.i \in DOMAIN s
  BY <1>1, SenderIsSound
<1>3. Composer(p) # <<Text>> BY <1>1, <1>2 DEF CheckSubmitted, HoldsAnyOf, Lies
<1>4. p.keys = <<>> /\ Text \in p.inbox
  <2>1. p.draft # <<Text>> BY <1>2, <1>3, ComposerShows
  <2> QED BY <1>1, <1>2, <2>1 DEF Lies
<1>5. s \in Seq(Lists) /\ send.i \in 1..Len(s) /\ DOMAIN s = 1..Len(s)
  <2>1. s \in Seq(Lists) BY <1>2, SplitsAreWhole
  <2> HIDE DEF s
  <2> QED BY <1>2, <2>1
<1>6. \A i \in DOMAIN s : i < send.i \/ i = send.i => [part |-> i, parts |-> s] \in p.inbox
  BY <1>1, <1>4 DEF Text, ApprovalInv, SendGoesRight, Given
<1>7. CASE send.i < Len(s) /\ send' = more
  <2>1. /\ more \in SendState /\ more.at = "pre" /\ more.task = send.task
        /\ more.i = send.i + 1 /\ more.parts = s
    <3>1. send.i \in Nat /\ send.i + 1 \in Nat BY <1>2 DEF SendState
    <3> QED BY <1>2, <3>1 DEF SendState, SendPlaces
  <2> HIDE DEF more
  <2>2. \A i \in DOMAIN s : i < send.i + 1 => i < send.i \/ i = send.i BY <1>5
  <2>3. send.i + 1 \in DOMAIN s BY <1>5, <1>7
  <2>4. Given(s, p, send.i + 1) BY <1>6, <2>2 DEF Given
  <2>5. SendGoesRight(p, more) BY <1>2, <1>4, <2>1, <2>3, <2>4 DEF SendGoesRight, Lies
  <2> QED BY <1>1, <1>7, <2>1, <2>5, SendMoves
<1>8. CASE ~(send.i < Len(s)) /\ send' = done
  <2>1. /\ done \in SendState /\ done.at = "record" /\ done.task = send.task
        /\ done.i = send.i /\ done.parts = s
    BY <1>2 DEF SendState, SendPlaces
  <2> HIDE DEF done
  <2>2. \A i \in DOMAIN s : i < send.i \/ i = send.i BY <1>5, <1>8
  <2>3. Given(s, p, Len(s) + 1) BY <1>6, <2>2 DEF Given
  <2>4. SendGoesRight(p, done) BY <1>2, <2>1, <2>3 DEF SendGoesRight, Lies
  <2> QED BY <1>1, <1>8, <2>1, <2>4, SendMoves
<1> QED BY <1>7, <1>8 DEF CheckSubmitted

LEMMA RecordApprovalKeeps ==
  ASSUME ApprovalInv, RecordApproval
  PROVE  ApprovalInv'
<1> DEFINE e == [kind |-> "self_edit_approval_sent", task |-> send.task]
           s == send.parts
<1>1. send.at = "record" /\ UNCHANGED <<runs, pane>> /\ Fail BY DEF RecordApproval, At
<1>2. CASE events' = events BY <1>1, <1>2, FailKeeps
<1>3. CASE events' = Append(events, e)
  <2> DEFINE d == [Idle EXCEPT !.runs = send.runs]
  <2>1. d \in SendState /\ d.at = "idle" BY IdleIsSound DEF ApprovalInv
  <2>2. send' = d BY <1>1 DEF Fail
  <2> HIDE DEF d
  <2>3. e \in ApprovalEvent /\ e.kind = "self_edit_approval_sent" /\ e.task = send.task
        /\ events \in Seq(ApprovalEvent)
    BY <1>1, SenderIsSound DEF ApprovalEvent, ApprovalInv, ApprovalTyped
  <2> HIDE DEF e
  <2>4. HasAll(pane[send.task])
    <3>1. s \in Splits /\ Given(s, pane[send.task], Len(s) + 1)
      BY <1>1 DEF ApprovalInv, SendGoesRight
    <3>2. \A i \in DOMAIN s : i < Len(s) + 1
      <4>1. s \in Seq(Lists) BY <3>1, SplitsAreWhole
      <4> HIDE DEF s
      <4> QED BY <4>1
    <3> QED BY <3>1, <3>2 DEF Given, HasAll
  <2>5. ASSUME NEW t \in Tasks, LatestEventAt("delegate_sent", t)' # 0, Approved(t)'
        PROVE  HasAll(pane[t])
    <3>1. LatestEventAt("delegate_sent", t)' = LatestEventAt("delegate_sent", t)
      BY <1>3, <2>3, LatestStays
    <3>2. CASE t = send.task BY <2>4, <3>2
    <3>3. CASE t # send.task
      <4>1. LatestEventAt("self_edit_approval_sent", t)' = LatestEventAt("self_edit_approval_sent", t)
        BY <1>3, <2>3, <3>3, LatestStays
      <4> QED BY <2>5, <3>1, <4>1 DEF ApprovalInv, Approved
    <3> QED BY <3>2, <3>3
  <2>6. events' \in Seq(ApprovalEvent) BY <1>3, <2>3
  <2>7. ApprovalTyped' BY <1>1, <2>1, <2>2, <2>6 DEF ApprovalInv, ApprovalTyped
  <2>8. SendGoesRight(pane[send.task], send)' BY <2>1, <2>2 DEF SendGoesRight
  <2>9. \A t \in Tasks : LatestEventAt("delegate_sent", t)' # 0 /\ Approved(t)' => HasAll(pane'[t])
    BY <1>1, <2>5
  <2> QED BY <2>7, <2>8, <2>9 DEF ApprovalInv
<1> QED BY <1>2, <1>3 DEF RecordApproval

LEMMA ApprovalDispatchKeeps ==
  ASSUME ApprovalInv, NEW t \in Tasks, Dispatch(t)
  PROVE  ApprovalInv'
<1>1. send.at = "idle" /\ send' = send BY DEF Dispatch, At
<1>2. PICK dir \in Dirs, tall \in BOOLEAN :
        /\ runs' = [runs EXCEPT ![t] = [status |-> "in_use", dir |-> dir]]
        /\ events' = Append(events, DelegateSent(t, dir))
        /\ pane' = [pane EXCEPT ![t] = [NewPane EXCEPT !.tall = tall]]
  BY DEF Dispatch
<1> DEFINE e == DelegateSent(t, dir)
           x == [NewPane EXCEPT !.tall = tall]
<1>3. x \in PaneState
  <2>1. <<>> \in Seq(PaneKeys) /\ <<>> \in Seq(Drafts) /\ {} \in SUBSET Texts OBVIOUS
  <2>2. NewPane \in PaneState BY <2>1 DEF NewPane, PaneState
  <2> QED BY <2>2 DEF PaneState
<1>4. /\ e \in ApprovalEvent /\ e.kind = "delegate_sent" /\ e.task = t
      /\ events \in Seq(ApprovalEvent)
  BY DEF DelegateSent, ApprovalEvent, ApprovalInv, ApprovalTyped
<1>5. [status |-> "in_use", dir |-> dir] \in Run BY DEF Run, Statuses
<1> HIDE DEF e, x
<1>6. events' = Append(events, e) /\ pane' = [pane EXCEPT ![t] = x] BY <1>2 DEF e, x
<1>7. ApprovalTyped'
  <2>1. runs' \in [Tasks -> Run] BY <1>2, <1>5 DEF ApprovalInv, ApprovalTyped
  <2>2. events' \in Seq(ApprovalEvent) BY <1>4, <1>6
  <2>3. pane' \in [Tasks -> PaneState] BY <1>3, <1>6 DEF ApprovalInv, ApprovalTyped
  <2> QED BY <1>1, <2>1, <2>2, <2>3 DEF ApprovalInv, ApprovalTyped
<1>8. SendGoesRight(pane[send.task], send)' BY <1>1 DEF SendGoesRight
<1>9. ASSUME NEW u \in Tasks, LatestEventAt("delegate_sent", u)' # 0, Approved(u)'
      PROVE  HasAll(pane'[u])
  <2>1. LatestEventAt("self_edit_approval_sent", u)' = LatestEventAt("self_edit_approval_sent", u)
    BY <1>4, <1>6, LatestStays
  <2>2. CASE u = t
    <3>1. LatestEventAt("delegate_sent", t)' = Len(events) + 1 BY <1>4, <1>6, LatestStays
    <3>2. LatestEventAt("self_edit_approval_sent", t) \in 0..Len(events) /\ Len(events) \in Nat
      BY <1>4, LatestIsLatest
    <3>3. Approved(t)' <=> LatestEventAt("self_edit_approval_sent", t) >= Len(events) + 1
      BY <2>1, <2>2, <3>1 DEF Approved
    <3> QED BY <1>9, <2>2, <3>2, <3>3
  <2>3. CASE u # t
    <3>1. LatestEventAt("delegate_sent", u)' = LatestEventAt("delegate_sent", u)
      BY <1>4, <1>6, <2>3, LatestStays
    <3>2. pane'[u] = pane[u] BY <1>6, <2>3 DEF ApprovalInv, ApprovalTyped
    <3> QED BY <1>9, <2>1, <3>1, <3>2 DEF ApprovalInv, Approved
  <2> QED BY <2>2, <2>3
<1> QED BY <1>7, <1>8, <1>9 DEF ApprovalInv

LEMMA ApprovalFinishKeeps ==
  ASSUME ApprovalInv, NEW t \in Tasks, Finish(t)
  PROVE  ApprovalInv'
<1>1. /\ UNCHANGED <<events, pane, send>>
      /\ runs' = [runs EXCEPT ![t].status = "completed"]
  BY DEF Finish
<1> DEFINE x == [runs[t] EXCEPT !.status = "completed"]
<1>2. runs[t] \in Run BY DEF ApprovalInv, ApprovalTyped
<1>3. x \in Run BY <1>2 DEF Run, Statuses
<1>4. runs' = [runs EXCEPT ![t] = x] BY <1>1 DEF ApprovalInv, ApprovalTyped
<1> HIDE DEF x
<1>5. ApprovalTyped' BY <1>1, <1>3, <1>4 DEF ApprovalInv, ApprovalTyped
<1>6. \A u \in Tasks : LatestEventAt("delegate_sent", u)' = LatestEventAt("delegate_sent", u)
                       /\ Approved(u)' = Approved(u)
  BY <1>1 DEF LatestEventAt, Approved, Of
<1>7. SendGoesRight(pane[send.task], send)' BY <1>1 DEF ApprovalInv
<1>8. \A u \in Tasks : HasAll(pane[u]) <=> HasAll(pane'[u]) BY <1>1
<1> QED BY <1>5, <1>6, <1>7, <1>8 DEF ApprovalInv

LEMMA GiveUpKeeps ==
  ASSUME ApprovalInv, GiveUp
  PROVE  ApprovalInv'
BY FailKeeps DEF GiveUp

LEMMA ApprovalRests ==
  ASSUME ApprovalInv, UNCHANGED approvalVars
  PROVE  ApprovalInv'
<1>1. send \in SendState /\ SendGoesRight(pane[send.task], send) BY DEF ApprovalInv, ApprovalTyped
<1>2. UNCHANGED <<runs, events, pane, send>> BY DEF approvalVars
<1> DEFINE d == send
<1> HIDE DEF d
<1>3. d \in SendState /\ send' = d /\ SendGoesRight(pane[d.task], d) BY <1>1, <1>2 DEF d
<1> QED BY <1>2, <1>3, SendMoves

\* What is true of every approval that send makes, and of every one it records.
LEMMA ApprovalsHold ==
  ASSUME NoDisturbance
  PROVE  ApprovalSpec => []ApprovalInv
<1>1. ApprovalInv /\ [ApprovalNext]_approvalVars => ApprovalInv'
  <2> SUFFICES ASSUME ApprovalInv, [ApprovalNext]_approvalVars PROVE ApprovalInv' OBVIOUS
  <2>1. CASE \E t \in Tasks : Dispatch(t) \/ Finish(t) \/ Start(t)
    BY <2>1, ApprovalDispatchKeeps, ApprovalFinishKeeps, SendStartKeeps
  <2>2. CASE \E t \in Tasks : TakeKey(t) \/ TurnEnds(t) \/ Dialog(t) \/ OtherTypes(t)
    BY <2>2, TakeKeyKeeps, TurnEndsKeeps, DialogKeeps, OtherTypesKeeps
  <2>3. CASE CheckComposer \/ SendText \/ CheckLanded BY <2>3, CheckComposerKeeps, SendTextKeeps, CheckLandedKeeps
  <2>4. CASE SendEnter \/ CheckSubmitted BY <2>4, SendEnterKeeps, CheckSubmittedKeeps
  <2>5. CASE GiveUp \/ RecordApproval BY <2>5, GiveUpKeeps, RecordApprovalKeeps
  <2>6. CASE UNCHANGED approvalVars BY <2>6, ApprovalRests
  <2> QED BY <2>1, <2>2, <2>3, <2>4, <2>5, <2>6 DEF ApprovalNext
<1> QED BY <1>1, ApprovalStarts, PTL DEF ApprovalSpec

\* audit lets a live self-edit dispatch pass in silence only if its worker holds every
\* part of one approval of all the files: the parts were seen to land, to leave the
\* composer and to be the whole list, in their order.
THEOREM ApprovalsReachTheWorker ==
  ASSUME NoDisturbance
  PROVE  ApprovalSpec => []WorkerHasApproval
<1>1. ApprovalInv => WorkerHasApproval
  <2> SUFFICES ASSUME ApprovalInv, NEW t \in Tasks,
                      LatestEventAt("delegate_sent", t) # 0, IsSelfEdit(t), runs[t].status # "completed",
                      NEW cutoff \in LatestEventAt("delegate_sent", t)..Len(events),
                      NEW since \in 1..LatestEventAt("delegate_sent", t),
                      t \notin MissingApprovals(cutoff, since)
               PROVE  \E s \in Splits :
                        /\ FlattenSeq(s) = Files
                        /\ {[part |-> i, parts |-> s] : i \in DOMAIN s} \subseteq pane[t].inbox
    BY DEF WorkerHasApproval
  <2> DEFINE last == LatestEventAt("delegate_sent", t)
  <2>1. events \in Seq(ApprovalEvent) BY DEF ApprovalInv, ApprovalTyped
  <2>2. last \in 0..Len(events) /\ Len(events) \in Nat BY <2>1, LatestIsLatest
  <2> HIDE DEF last
  <2>3. last <= cutoff /\ last >= since BY <2>2 DEF last
  <2>4. Approved(t) BY <2>3 DEF MissingApprovals, last
  <2>5. PICK s \in Splits : \A i \in DOMAIN s : [part |-> i, parts |-> s] \in pane[t].inbox
    BY <2>4 DEF ApprovalInv, HasAll
  <2> QED BY <2>5, SplitsAreWhole
<1> QED BY <1>1, ApprovalsHold, PTL

\* A pane and a send keep their shape whatever disturbs them, and what send types is a
\* part of a split.
ApprovalShape ==
  /\ ApprovalTyped
  /\ send.at # "idle" => send.parts \in Splits /\ send.i \in DOMAIN send.parts

\* A step of the pane, a step of send, or a step of both.
LEMMA ShapeStays ==
  ASSUME ApprovalShape, runs' \in [Tasks -> Run], events' \in Seq(ApprovalEvent),
         NEW t \in Tasks, NEW x \in PaneState, pane' = [pane EXCEPT ![t] = x],
         \/ send' = send
         \/ send' \in SendState /\ (send'.at # "idle" => send'.parts \in Splits /\ send'.i \in DOMAIN send'.parts)
  PROVE  ApprovalShape'
<1>1. pane' \in [Tasks -> PaneState] BY DEF ApprovalShape, ApprovalTyped
<1>2. /\ send' \in SendState
      /\ send'.at # "idle" => send'.parts \in Splits /\ send'.i \in DOMAIN send'.parts
  BY DEF ApprovalShape, ApprovalTyped
<1> QED BY <1>1, <1>2 DEF ApprovalShape, ApprovalTyped

\* send stops, or goes on with the same part.
LEMMA SendKeepsShape ==
  ASSUME ApprovalShape
  PROVE  /\ Fail => send' \in SendState /\ send'.at = "idle"
         /\ \A next \in SendPlaces : Goto(next) /\ send.at # "idle" =>
              send' \in SendState /\ send'.parts \in Splits /\ send'.i \in DOMAIN send'.parts
         /\ send.at # "idle" => /\ send.task \in Tasks /\ pane[send.task] \in PaneState
                                /\ Text \in Texts
<1>1. send \in SendState /\ pane \in [Tasks -> PaneState] BY DEF ApprovalShape, ApprovalTyped
<1>2. Fail => send' \in SendState /\ send'.at = "idle"
  BY IdleIsSound DEF Fail, ApprovalShape
<1>3. ASSUME NEW next \in SendPlaces, Goto(next), send.at # "idle"
      PROVE  send' \in SendState /\ send'.parts \in Splits /\ send'.i \in DOMAIN send'.parts
  <2>1. send' \in SendState /\ send'.parts = send.parts /\ send'.i = send.i
    BY <1>1, <1>3 DEF Goto, SendState
  <2> QED BY <1>3, <2>1 DEF ApprovalShape
<1>4. send.at # "idle" => Text \in Texts BY TextIsText DEF ApprovalShape, Text
<1> QED BY <1>1, <1>2, <1>3, <1>4 DEF SendState

\* Keys that are typed into a pane.
LEMMA TypedKeys ==
  ASSUME NEW p \in PaneState, NEW typed \in Seq(PaneKeys)
  PROVE  [p EXCEPT !.keys = @ \o typed] \in PaneState
<1> DEFINE more == p.keys \o typed
<1>1. p.keys \in Seq(PaneKeys) BY DEF PaneState
<1>2. more \in Seq(PaneKeys) BY <1>1
<1> HIDE DEF more
<1>3. [p EXCEPT !.keys = more] \in PaneState BY <1>2 DEF PaneState
<1> QED BY <1>3 DEF more, PaneState

LEMMA TypingKeepsShape ==
  ASSUME ApprovalShape, send.at # "idle", runs' = runs, events' = events, NEW typed \in Seq(PaneKeys),
         pane' = [pane EXCEPT ![send.task].keys = @ \o typed],
         Fail \/ \E next \in SendPlaces : Goto(next)
  PROVE  ApprovalShape'
<1> DEFINE t == send.task
           x == [pane[t] EXCEPT !.keys = @ \o typed]
<1>1. t \in Tasks /\ x \in PaneState BY SendKeepsShape, TypedKeys
<1>2. pane' = [pane EXCEPT ![t] = x] BY <1>1 DEF ApprovalShape, ApprovalTyped
<1>3. send' \in SendState /\ (send'.at # "idle" => send'.parts \in Splits /\ send'.i \in DOMAIN send'.parts)
  BY SendKeepsShape
<1>4. runs' \in [Tasks -> Run] /\ events' \in Seq(ApprovalEvent) BY DEF ApprovalShape, ApprovalTyped
<1> HIDE DEF t, x
<1> QED BY <1>1, <1>2, <1>3, <1>4, ShapeStays

\* send moves on and the panes stay.
LEMMA MovingKeepsShape ==
  ASSUME ApprovalShape, runs' = runs, events' \in Seq(ApprovalEvent), pane' = pane, send' \in SendState,
         send'.at # "idle" => send'.parts \in Splits /\ send'.i \in DOMAIN send'.parts
  PROVE  ApprovalShape'
BY DEF ApprovalShape, ApprovalTyped

LEMMA PanesKeepShape ==
  ASSUME ApprovalShape, NEW t \in Tasks, TakeKey(t) \/ TurnEnds(t) \/ Dialog(t) \/ OtherTypes(t)
  PROVE  ApprovalShape'
<1> DEFINE p == pane[t]
           got == p.inbox \union (Range(p.draft) \ {Scrap})
           key == Head(p.keys)
           rest == [p EXCEPT !.keys = Tail(@)]
<1>1. p \in PaneState /\ runs' = runs /\ events' = events /\ send' = send
  BY DEF TakeKey, TurnEnds, Dialog, OtherTypes, ApprovalShape, ApprovalTyped
<1>2. runs' \in [Tasks -> Run] /\ events' \in Seq(ApprovalEvent) BY <1>1 DEF ApprovalShape, ApprovalTyped
<1>3. p.draft \in Seq(Drafts) /\ p.inbox \subseteq Texts BY <1>1 DEF PaneState
<1>4. got \in SUBSET Texts
  <2>1. Range(p.draft) \subseteq Drafts BY <1>3 DEF Range
  <2> QED BY <1>3, <2>1 DEF Drafts
<1>5. <<>> \in Seq(Drafts) /\ <<Scrap>> \in Seq(Drafts) BY DEF Drafts
<1>6. \A draft \in Seq(Drafts) : [p EXCEPT !.draft = draft] \in PaneState BY <1>1 DEF PaneState
<1>7. SUFFICES \E x \in PaneState : pane' = [pane EXCEPT ![t] = x] BY <1>1, <1>2, ShapeStays
<1>8. ASSUME NEW x \in PaneState, NEW queued \in BOOLEAN
      PROVE  [x EXCEPT !.draft = <<>>, !.queued = queued, !.inbox = got] \in PaneState
  <2> HIDE DEF p, got
  <2> QED BY <1>4, <1>5 DEF PaneState
<1>9. CASE TakeKey(t)
  <2>1. p.keys # <<>> BY <1>9 DEF TakeKey
  <2>2. key \in PaneKeys /\ Tail(p.keys) \in Seq(PaneKeys) BY <1>1, <2>1, KeysAreTaken
  <2>3. rest \in PaneState /\ rest.draft = p.draft /\ rest.inbox = p.inbox BY <1>1, <2>2 DEF PaneState
  <2>4. CASE p.dialog BY <1>9, <2>3, <2>4 DEF TakeKey
  <2>5. CASE ~p.dialog /\ key # Enter
    <3> DEFINE more == Append(rest.draft, key)
    <3>1. key \in Drafts BY <2>2, <2>5 DEF PaneKeys, Drafts
    <3>2. more \in Seq(Drafts)
      <4> DEFINE q == rest.draft
      <4>1. q \in Seq(Drafts) BY <1>3, <2>3
      <4> HIDE DEF q, key
      <4> QED BY <3>1, <4>1 DEF q
    <3>3. pane' = [pane EXCEPT ![t] = [rest EXCEPT !.draft = more]] BY <1>9, <2>5, <2>3 DEF TakeKey
    <3> HIDE DEF more, rest
    <3>4. [rest EXCEPT !.draft = more] \in PaneState BY <2>3, <3>2 DEF PaneState
    <3> QED BY <3>3, <3>4
  <2>6. CASE ~p.dialog /\ key = Enter
    <3>1. PICK queued \in BOOLEAN, swallowed \in BOOLEAN :
            pane' = [pane EXCEPT ![t] =
               IF swallowed \/ p.draft = <<>> THEN rest
               ELSE [rest EXCEPT !.draft = <<>>, !.queued = queued,
                                 !.inbox = @ \union (Range(p.draft) \ {Scrap})]]
      BY <1>9, <2>6 DEF TakeKey
    <3>2. CASE swallowed \/ p.draft = <<>> BY <2>3, <3>1, <3>2
    <3>3. CASE ~(swallowed \/ p.draft = <<>>)
      <4> DEFINE x == [rest EXCEPT !.draft = <<>>, !.queued = queued, !.inbox = got]
      <4>1. x \in PaneState BY <2>3, <1>8
      <4>2. pane' = [pane EXCEPT ![t] = x] BY <2>3, <3>1, <3>3
      <4> QED BY <4>1, <4>2
    <3> QED BY <3>2, <3>3
  <2> QED BY <1>1, <2>4, <2>5, <2>6 DEF PaneState
<1>10. CASE TurnEnds(t)
  <2> DEFINE x == [p EXCEPT !.queued = FALSE]
  <2>1. x \in PaneState BY <1>1 DEF PaneState
  <2>2. pane' = [pane EXCEPT ![t] = x] BY <1>10 DEF TurnEnds, ApprovalShape, ApprovalTyped
  <2> QED BY <2>1, <2>2
<1>11. CASE Dialog(t)
  <2> DEFINE x == [p EXCEPT !.dialog = ~@]
  <2>1. x \in PaneState BY <1>1 DEF PaneState
  <2>2. pane' = [pane EXCEPT ![t] = x] BY <1>11 DEF Dialog, ApprovalShape, ApprovalTyped
  <2> QED BY <2>1, <2>2
<1>12. CASE OtherTypes(t)
  <2>1. \E draft \in {<<Scrap>>, <<>>} : \/ pane' = [pane EXCEPT ![t].draft = draft]
                                         \/ pane' = [pane EXCEPT ![t].draft = draft, ![t].inbox = got]
    BY <1>12 DEF OtherTypes
  <2> HIDE DEF got
  <2>2. PICK draft \in {<<Scrap>>, <<>>} : \/ pane' = [pane EXCEPT ![t].draft = draft]
                                           \/ pane' = [pane EXCEPT ![t].draft = draft, ![t].inbox = got]
    BY <2>1
  <2> DEFINE x == [p EXCEPT !.draft = draft]
             y == [p EXCEPT !.draft = draft, !.inbox = got]
  <2>3. pane' = [pane EXCEPT ![t] = x] \/ pane' = [pane EXCEPT ![t] = y]
    BY <2>2 DEF ApprovalShape, ApprovalTyped
  <2>4. x \in PaneState /\ y \in PaneState BY <1>1, <1>4, <1>5, <2>2 DEF PaneState
  <2> QED BY <2>3, <2>4
<1> QED BY <1>9, <1>10, <1>11, <1>12

LEMMA ApprovalShapeStays ==
  ASSUME ApprovalShape, [ApprovalNext]_approvalVars
  PROVE  ApprovalShape'
<1> USE DEF SendPlaces
<1>0. runs \in [Tasks -> Run] /\ events \in Seq(ApprovalEvent) BY DEF ApprovalShape, ApprovalTyped
<1>1. ASSUME NEW t \in Tasks, Dispatch(t) PROVE ApprovalShape'
  <2>1. PICK dir \in Dirs, tall \in BOOLEAN :
          /\ runs' = [runs EXCEPT ![t] = [status |-> "in_use", dir |-> dir]]
          /\ events' = Append(events, DelegateSent(t, dir))
          /\ pane' = [pane EXCEPT ![t] = [NewPane EXCEPT !.tall = tall]]
    BY <1>1 DEF Dispatch
  <2> DEFINE x == [NewPane EXCEPT !.tall = tall]
             r == [status |-> "in_use", dir |-> dir]
             e == DelegateSent(t, dir)
  <2>2. x \in PaneState
    <3>1. NewPane \in PaneState BY DEF NewPane, PaneState
    <3> QED BY <3>1 DEF PaneState
  <2>3. r \in Run BY DEF Run, Statuses
  <2>4. e \in ApprovalEvent BY DEF DelegateSent, ApprovalEvent
  <2> HIDE DEF x, r, e
  <2>5. runs' \in [Tasks -> Run] BY <1>0, <2>1, <2>3 DEF r
  <2>6. Append(events, e) \in Seq(ApprovalEvent) BY <1>0, <2>4
  <2>7. events' \in Seq(ApprovalEvent) BY <2>1, <2>6 DEF e
  <2>8. pane' = [pane EXCEPT ![t] = x] /\ send' = send BY <1>1, <2>1 DEF Dispatch, x
  <2> QED BY <2>2, <2>5, <2>7, <2>8, ShapeStays
<1>2. ASSUME NEW t \in Tasks, Finish(t) PROVE ApprovalShape'
  <2> DEFINE x == [runs[t] EXCEPT !.status = "completed"]
  <2>1. x \in Run BY <1>0 DEF Run, Statuses
  <2>2. runs' = [runs EXCEPT ![t] = x] BY <1>0, <1>2 DEF Finish
  <2> HIDE DEF x
  <2>3. UNCHANGED <<events, pane, send>> BY <1>2 DEF Finish
  <2> QED BY <2>1, <2>2, <2>3 DEF ApprovalShape, ApprovalTyped
<1>3. ASSUME NEW t \in Tasks, Start(t) PROVE ApprovalShape'
  <2>1. PICK s \in Splits : send' = [at |-> "pre", task |-> t, i |-> 1, parts |-> s, runs |-> send.runs + 1]
    BY <1>3 DEF Start
  <2>2. s \in Seq(Lists) /\ 1 \in DOMAIN s
    <3>1. s \in Seq(Lists) /\ Len(s) # 0 BY SplitsAreWhole
    <3> QED BY <3>1
  <2>3. send' \in SendState BY <2>1, <2>2 DEF SendState, ApprovalShape, ApprovalTyped
  <2>4. UNCHANGED <<runs, events, pane>> BY <1>3 DEF Start
  <2> QED BY <1>0, <2>1, <2>2, <2>3, <2>4, MovingKeepsShape
<1>4. ASSUME Fail \/ \E next \in SendPlaces : Goto(next) /\ send.at # "idle",
             UNCHANGED <<runs, pane>>, events' \in Seq(ApprovalEvent)
      PROVE  ApprovalShape'
  BY <1>4, SendKeepsShape, MovingKeepsShape
<1>5. CASE CheckComposer BY <1>0, <1>4, <1>5 DEF CheckComposer, At
<1>6. CASE SendText \/ SendEnter
  <2>1. send.at # "idle" /\ UNCHANGED <<runs, events>> BY <1>6 DEF SendText, SendEnter, At
  <2>2. send.task \in Tasks /\ pane[send.task] \in PaneState /\ Text \in Texts BY <2>1, SendKeepsShape
  <2>3. {Text, Scrap, Enter} \subseteq PaneKeys /\ pane[send.task].keys \in Seq(PaneKeys)
    BY <2>2 DEF PaneKeys, PaneState
  <2>4. \A k \in {Text, Scrap, Enter} :
          <<k>> \in Seq(PaneKeys) /\ Append(pane[send.task].keys, k) = pane[send.task].keys \o <<k>>
    BY <2>3, OneKeyAfterNone
  <2>5. <<>> \in Seq(PaneKeys) OBVIOUS
  <2>6. \E typed \in {<<>>, <<Text>>, <<Scrap>>, <<Enter>>} :
          pane' = [pane EXCEPT ![send.task].keys = @ \o typed]
    BY <1>6, <2>4 DEF SendText, SendEnter
  <2>7. Fail \/ \E next \in SendPlaces : Goto(next) BY <1>6 DEF SendText, SendEnter
  <2> QED BY <2>1, <2>4, <2>5, <2>6, <2>7, TypingKeepsShape
<1>7. CASE CheckLanded BY <1>0, <1>4, <1>7 DEF CheckLanded, At
<1>8. CASE CheckSubmitted
  <2>1. /\ send.at # "idle" /\ send \in SendState /\ UNCHANGED <<runs, events, pane>>
        /\ send.parts \in Splits /\ send.i \in DOMAIN send.parts
    BY <1>8 DEF CheckSubmitted, At, ApprovalShape, ApprovalTyped
  <2>2. CASE send.i < Len(send.parts)
    <3>1. send' = [send EXCEPT !.at = "pre", !.i = @ + 1] BY <1>8, <2>2 DEF CheckSubmitted
    <3>2. send.parts \in Seq(Lists) BY <2>1, SplitsAreWhole
    <3>3. send.i + 1 \in DOMAIN send.parts /\ send.i + 1 \in Nat BY <2>1, <2>2, <3>2
    <3>4. send' \in SendState /\ send'.parts = send.parts /\ send'.i = send.i + 1
      BY <2>1, <3>1, <3>3 DEF SendState
    <3> QED BY <1>0, <2>1, <3>3, <3>4, MovingKeepsShape
  <2>3. CASE ~(send.i < Len(send.parts))
    <3>1. Goto("record") BY <1>8, <2>3 DEF CheckSubmitted, Goto
    <3> QED BY <1>0, <1>4, <2>1, <3>1
  <2> QED BY <2>2, <2>3
<1>9. CASE GiveUp BY <1>0, <1>4, <1>9 DEF GiveUp
<1>10. CASE RecordApproval
  <2> DEFINE e == [kind |-> "self_edit_approval_sent", task |-> send.task]
  <2>1. e \in ApprovalEvent BY <1>10, SendKeepsShape DEF RecordApproval, At, ApprovalEvent
  <2>2. events' \in {events, Append(events, e)} BY <1>10 DEF RecordApproval
  <2> HIDE DEF e
  <2>3. events' \in Seq(ApprovalEvent) BY <1>0, <2>1, <2>2
  <2> QED BY <1>4, <1>10, <2>3 DEF RecordApproval
<1>11. CASE UNCHANGED approvalVars BY <1>11 DEF approvalVars, ApprovalShape, ApprovalTyped
<1> QED BY <1>1, <1>2, <1>3, <1>5, <1>6, <1>7, <1>8, <1>9, <1>10, <1>11, PanesKeepShape DEF ApprovalNext

LEMMA ShapeIsTyped == ApprovalShape => ApprovalTypeOK
<1> SUFFICES ASSUME ApprovalShape PROVE ApprovalTypeOK OBVIOUS
<1>1. runs \in [Tasks -> Run] BY DEF ApprovalShape, ApprovalTyped
<1>2. \A i \in DOMAIN events : events[i].kind \in {"delegate_sent", "self_edit_approval_sent"}
  <2>1. events \in Seq(ApprovalEvent) BY DEF ApprovalShape, ApprovalTyped
  <2>2. \A i \in DOMAIN events : events[i] \in ApprovalEvent BY <2>1
  <2> QED BY <2>2 DEF ApprovalEvent
<1>3. ASSUME NEW t \in Tasks
      PROVE  /\ Range(pane[t].keys) \subseteq Texts \union {Scrap, Enter}
             /\ Range(pane[t].draft) \subseteq Texts \union {Scrap}
             /\ pane[t].inbox \subseteq Texts
  <2>1. pane[t] \in PaneState BY DEF ApprovalShape, ApprovalTyped
  <2>2. pane[t].keys \in Seq(PaneKeys) /\ pane[t].draft \in Seq(Drafts) /\ pane[t].inbox \subseteq Texts
    BY <2>1 DEF PaneState
  <2>3. Range(pane[t].keys) \subseteq PaneKeys BY <2>2 DEF Range
  <2>4. Range(pane[t].draft) \subseteq Drafts BY <2>2 DEF Range
  <2> QED BY <2>2, <2>3, <2>4 DEF PaneKeys, Drafts
<1>4. send.at \in SendPlaces BY DEF ApprovalShape, ApprovalTyped, SendState
<1>5. send.at # "idle" => Text \in Texts BY SendKeepsShape
<1> QED BY <1>1, <1>2, <1>3, <1>4, <1>5 DEF ApprovalTypeOK, SendPlaces

-----------------------------------------------------------------------------
(* RetroGate                                                               *)

RetroEvent == [kind : {"worker_spawn_verified"}, task : Tasks, pane : PaneIds, peer : {0},
               evidence : {"send_delivery"}, background : {FALSE}]
         \union [kind : {"retro_gate_acked", "retro_gate_confirmed_missing"}, task : Tasks]

\* The newest verification of a live, verified worker's pane is its own, and the log judges
\* no task after it that no gate was passed for.
OwnVerification(p, t) ==
  up[p].live /\ up[p].verified /\ up[p].task = t =>
    /\ VerifiedIn(p) # {} /\ events[NewestIn(p)].task = t
    /\ t \notin judged => \A i \in Judgements(t) : i < NewestIn(p)

RetroInv ==
  /\ RetroTypeOK /\ events \in Seq(RetroEvent) /\ wrong = {}
  /\ \A p \in PaneIds, t \in Tasks : OwnVerification(p, t)

\* The newest verification in a pane is one.
LEMMA NewestIsNewest ==
  ASSUME NEW E, events \in Seq(E), NEW p, VerifiedIn(p) # {}
  PROVE  /\ NewestIn(p) \in VerifiedIn(p) /\ NewestIn(p) \in DOMAIN events /\ NewestIn(p) \in Nat
         /\ \A i \in VerifiedIn(p) : i <= NewestIn(p)
<1>1. VerifiedIn(p) \in SUBSET (1..Len(events)) /\ Len(events) \in Nat BY DEF VerifiedIn
<1>2. \E i \in VerifiedIn(p) : \A j \in VerifiedIn(p) : j <= i BY <1>1, LatestExists
<1> QED BY <1>1, <1>2 DEF NewestIn

\* An append elsewhere leaves the newest verification in a pane.
LEMMA NewestStays ==
  ASSUME NEW E, events \in Seq(E), NEW e \in E, events' = Append(events, e), NEW p
  PROVE  /\ ~(e.kind = "worker_spawn_verified" /\ e.pane = p)
              => /\ VerifiedIn(p)' = VerifiedIn(p) /\ NewestIn(p)' = NewestIn(p)
                 /\ VerifiedIn(p) # {} => events'[NewestIn(p)].task = events[NewestIn(p)].task
         /\ e.kind = "worker_spawn_verified" /\ e.pane = p
              => /\ VerifiedIn(p)' # {} /\ NewestIn(p)' = Len(events) + 1
                 /\ events'[Len(events) + 1] = e
<1>1. /\ Len(events) \in Nat /\ DOMAIN events = 1..Len(events) /\ events' \in Seq(E)
      /\ Len(events') = Len(events) + 1 /\ DOMAIN events' = 1..(Len(events) + 1)
      /\ \A i \in DOMAIN events : events'[i] = events[i]
      /\ events'[Len(events) + 1] = e
  BY LogGrows
<1>2. CASE ~(e.kind = "worker_spawn_verified" /\ e.pane = p)
  <2>1. VerifiedIn(p)' = VerifiedIn(p) BY <1>1, <1>2 DEF VerifiedIn
  <2>2. NewestIn(p)' = NewestIn(p) BY <2>1 DEF NewestIn
  <2>3. VerifiedIn(p) # {} => NewestIn(p) \in DOMAIN events BY NewestIsNewest
  <2> QED BY <1>1, <1>2, <2>1, <2>2, <2>3
<1>3. CASE e.kind = "worker_spawn_verified" /\ e.pane = p
  <2> DEFINE then == VerifiedIn(p)'
             last == CHOOSE i \in then : \A j \in then : j <= i
  <2>1. Len(events) + 1 \in then BY <1>1, <1>3 DEF VerifiedIn
  <2>2. then \in SUBSET (1..(Len(events) + 1)) BY <1>1 DEF VerifiedIn
  <2>3. NewestIn(p)' = last BY DEF NewestIn
  <2> HIDE DEF then
  <2>6. \A j \in then : j <= Len(events) + 1 /\ j \in Nat BY <1>1, <2>2
  <2>4. last \in then /\ \A j \in then : j <= last BY <1>1, <2>1, <2>6
  <2> HIDE DEF last
  <2>5. last = Len(events) + 1 BY <1>1, <2>1, <2>2, <2>4
  <2> QED BY <1>1, <1>3, <2>1, <2>3, <2>5 DEF then
<1> QED BY <1>2, <1>3

\* What was judged by now.
LEMMA JudgementsGrow ==
  ASSUME NEW E, events \in Seq(E), NEW e \in E, events' = Append(events, e), NEW t
  PROVE  /\ Judgements(t)' \subseteq Judgements(t) \union {Len(events) + 1}
         /\ ~(e.kind \in {"retro_gate_acked", "retro_gate_confirmed_missing"} /\ e.task = t)
              => Judgements(t)' = Judgements(t)
<1>1. \A kind \in {"retro_gate_acked", "retro_gate_confirmed_missing"} :
        /\ e.kind = kind /\ e.task = t => Of(kind, t)' = Of(kind, t) \union {Len(events) + 1}
        /\ ~(e.kind = kind /\ e.task = t) => Of(kind, t)' = Of(kind, t)
  BY LogOf
<1> QED BY <1>1 DEF Judgements

LEMMA RetroInitHolds == RetroInit => RetroInv
<1> SUFFICES ASSUME RetroInit PROVE RetroInv OBVIOUS
<1>1. PICK t \in Tasks : t = CHOOSE u \in Tasks : TRUE BY EventLogAssumption
<1>2. NoRuns \in [Tasks -> Run] BY DEF NoRuns, Run, Statuses
<1>3. NoGate \in [task : Tasks, attempt : 0..MaxAttempts, last : Bodies \union {"none"},
                  verdict : {"none", "replied_no_ack"}]
  BY <1>1, RetroAssumption DEF NoGate
<1>4. Free \in [verified : BOOLEAN, task : Tasks, live : BOOLEAN] /\ ~Free.live BY <1>1 DEF Free
<1>5. RetroTypeOK BY <1>2, <1>3, <1>4 DEF RetroInit, RetroTypeOK
<1> QED BY <1>4, <1>5 DEF RetroInit, RetroInv, OwnVerification

\* The worker whose pane may be closed although its run is at work was judged.
LEMMA CloseIsJudged ==
  ASSUME RetroInv, NEW p \in PaneIds, ClosePane(p)
  PROVE  wrong' = {}
<1> DEFINE t == up[p].task
<1>1. SUFFICES ASSUME up[p].verified, t \notin judged, runs[t].status = "in_use" PROVE FALSE
  BY DEF ClosePane, RetroInv
<1>2. up[p].live /\ MayClose(p) BY DEF ClosePane
<1>3. /\ VerifiedIn(p) # {} /\ events[NewestIn(p)].task = t
      /\ \A i \in Judgements(t) : i < NewestIn(p)
  <2>1. t \in Tasks BY DEF RetroInv, RetroTypeOK
  <2> QED BY <1>1, <1>2, <2>1 DEF RetroInv, OwnVerification
<1>4. Acked(p) BY <1>1, <1>2, <1>3 DEF MayClose
<1>5. NewestIn(p) \in Nat BY <1>3, NewestIsNewest DEF RetroInv
<1>6. PICK i \in Judgements(t) : i > NewestIn(p) BY <1>3, <1>4 DEF Acked
<1>7. i \in Nat BY DEF Judgements, Of, RetroInv
<1> QED BY <1>3, <1>5, <1>6, <1>7

\* A step that records no verification, and judges only what a gate was passed for, keeps the
\* invariant.
LEMMA JudgingKeeps ==
  ASSUME RetroInv, RetroTypeOK', NEW t \in Tasks, UNCHANGED <<up, wrong>>,
         \/ UNCHANGED events /\ judged \subseteq judged'
         \/ /\ judged' = judged \union {t}
            /\ \E kind \in {"retro_gate_acked", "retro_gate_confirmed_missing"} :
                 events' = Append(events, [kind |-> kind, task |-> t])
  PROVE  RetroInv'
<1>1. events \in Seq(RetroEvent) BY DEF RetroInv
<1>2. CASE UNCHANGED events /\ judged \subseteq judged'
  <2>1. \A p : VerifiedIn(p)' = VerifiedIn(p) /\ NewestIn(p)' = NewestIn(p)
    BY <1>2 DEF VerifiedIn, NewestIn
  <2>2. \A u : Judgements(u)' = Judgements(u) BY <1>2 DEF Judgements, Of
  <2>3. \A p \in PaneIds, u \in Tasks : OwnVerification(p, u)'
    BY <1>2, <2>1, <2>2 DEF RetroInv, OwnVerification
  <2> QED BY <1>1, <1>2, <2>3 DEF RetroInv
<1>3. ASSUME NEW kind \in {"retro_gate_acked", "retro_gate_confirmed_missing"},
             events' = Append(events, [kind |-> kind, task |-> t]), judged' = judged \union {t}
      PROVE  RetroInv'
  <2> DEFINE e == [kind |-> kind, task |-> t]
  <2>1. e \in RetroEvent /\ e.kind # "worker_spawn_verified" /\ e.task = t BY DEF RetroEvent
  <2>2. events' = Append(events, e) BY <1>3
  <2> HIDE DEF e
  <2>3. events' \in Seq(RetroEvent) BY <1>1, <2>1, <2>2
  <2>4. \A p : /\ VerifiedIn(p)' = VerifiedIn(p) /\ NewestIn(p)' = NewestIn(p)
               /\ VerifiedIn(p) # {} => events'[NewestIn(p)].task = events[NewestIn(p)].task
    BY <1>1, <2>1, <2>2, NewestStays
  <2>5. \A u : u # t => Judgements(u)' = Judgements(u) BY <1>1, <2>1, <2>2, JudgementsGrow
  <2>6. ASSUME NEW p \in PaneIds, NEW u \in Tasks PROVE OwnVerification(p, u)'
    <3>1. OwnVerification(p, u) BY DEF RetroInv
    <3>2. u \notin judged' => u # t /\ u \notin judged BY <1>3
    <3> QED BY <2>4, <2>5, <3>1, <3>2 DEF OwnVerification
  <2> QED BY <2>3, <2>6 DEF RetroInv
<1> QED BY <1>2, <1>3

LEMMA SpawnWorkerKeeps ==
  ASSUME RetroInv, NEW p \in PaneIds, NEW t \in Tasks, SpawnWorker(p, t)
  PROVE  RetroInv'
<1> USE DEF RetroInv
<1>1. PICK ok \in BOOLEAN :
        /\ up' = [up EXCEPT ![p] = [verified |-> ok, task |-> t, live |-> TRUE]]
        /\ events' = IF ok THEN Append(events, SpawnVerified(t, p, 0, "send_delivery", FALSE))
                     ELSE events
        /\ judged' = IF ok THEN judged \ {t} ELSE judged
  BY DEF SpawnWorker
<1>2. /\ ~up[p].live /\ \A q \in PaneIds : up[q].live => up[q].task # t
      /\ runs' = [runs EXCEPT ![t].status = "in_use"] /\ wrong' = {}
      /\ UNCHANGED <<inbox, gate, reported>>
  BY DEF SpawnWorker
<1>3. RetroTypeOK'
  <2>1. runs' \in [Tasks -> Run] BY <1>2 DEF RetroTypeOK, Run, Statuses
  <2>2. up' \in [PaneIds -> [verified : BOOLEAN, task : Tasks, live : BOOLEAN]]
    BY <1>1 DEF RetroTypeOK
  <2> QED BY <1>1, <1>2, <2>1, <2>2 DEF RetroTypeOK
<1>4. /\ up'[p] = [verified |-> ok, task |-> t, live |-> TRUE]
      /\ \A q \in PaneIds : q # p => up'[q] = up[q]
  BY <1>1 DEF RetroTypeOK
<1>5. CASE ~ok
  <2>1. \A q : VerifiedIn(q)' = VerifiedIn(q) /\ NewestIn(q)' = NewestIn(q)
    BY <1>1, <1>5 DEF VerifiedIn, NewestIn
  <2>2. \A u : Judgements(u)' = Judgements(u) BY <1>1, <1>5 DEF Judgements, Of
  <2>3. UNCHANGED <<events, judged>> BY <1>1, <1>5
  <2>4. \A q \in PaneIds, u \in Tasks : OwnVerification(q, u)'
    BY <1>4, <1>5, <2>1, <2>2, <2>3 DEF OwnVerification
  <2> QED BY <1>2, <1>3, <2>3, <2>4
<1>6. CASE ok
  <2> DEFINE e == SpawnVerified(t, p, 0, "send_delivery", FALSE)
  <2>1. /\ e \in RetroEvent /\ e.kind = "worker_spawn_verified" /\ e.pane = p /\ e.task = t
    BY DEF SpawnVerified, RetroEvent
  <2>2. events' = Append(events, e) BY <1>1, <1>6
  <2> HIDE DEF e
  <2>3. events' \in Seq(RetroEvent) BY <2>1, <2>2
  <2>4. \A u : Judgements(u)' = Judgements(u) BY <2>1, <2>2, JudgementsGrow
  <2>5. VerifiedIn(p)' # {} /\ NewestIn(p)' = Len(events) + 1 /\ events'[Len(events) + 1] = e
    BY <2>1, <2>2, NewestStays
  <2>6. \A q : q # p =>
          /\ VerifiedIn(q)' = VerifiedIn(q) /\ NewestIn(q)' = NewestIn(q)
          /\ VerifiedIn(q) # {} => events'[NewestIn(q)].task = events[NewestIn(q)].task
    BY <2>1, <2>2, NewestStays, ZenonT(30)
  <2>7. \A i \in Judgements(t) : i < Len(events) + 1 BY DEF Judgements, Of
  <2>8. ASSUME NEW q \in PaneIds, NEW u \in Tasks PROVE OwnVerification(q, u)'
    <3>1. CASE q = p
      <4>1. up'[q].task = t BY <1>4, <3>1
      <4> QED BY <2>1, <2>4, <2>5, <2>7, <3>1, <4>1 DEF OwnVerification
    <3>2. CASE q # p
      <4>1. up'[q] = up[q] /\ (up[q].live => up[q].task # t) BY <1>2, <1>4, <3>2
      <4>2. u # t /\ u \notin judged' => u \notin judged BY <1>1, <1>6
      <4>3. OwnVerification(q, u) OBVIOUS
      <4> QED BY <2>4, <2>6, <3>2, <4>1, <4>2, <4>3 DEF OwnVerification
    <3> QED BY <3>1, <3>2
  <2> QED BY <1>2, <1>3, <2>3, <2>8
<1> QED BY <1>5, <1>6

LEMMA RetroTyped ==
  ASSUME RetroInv, RetroNext
  PROVE  RetroTypeOK'
<1> USE RetroAssumption DEF RetroInv
<1>1. NoGate \in [task : Tasks, attempt : 0..MaxAttempts, last : Bodies \union {"none"},
                  verdict : {"none", "replied_no_ack"}]
  <2>1. PICK t \in Tasks : t = CHOOSE u \in Tasks : TRUE BY EventLogAssumption
  <2> QED BY <2>1 DEF NoGate
<1>2. Free \in [verified : BOOLEAN, task : Tasks, live : BOOLEAN]
  <2>1. PICK t \in Tasks : t = CHOOSE u \in Tasks : TRUE BY EventLogAssumption
  <2> QED BY <2>1 DEF Free
<1>3. ASSUME NEW t \in Tasks, Report(t) \/ Reopen(t) \/ Complete(t) PROVE RetroTypeOK'
  <2>1. runs' \in [Tasks -> Run]
    BY <1>3, SMTT(30) DEF RetroTypeOK, Run, Statuses, Report, Reopen, Complete
  <2>2. reported' \in [Tasks -> BOOLEAN] BY <1>3 DEF RetroTypeOK, Report, Reopen, Complete
  <2> QED BY <1>3, <2>1, <2>2 DEF RetroTypeOK, Report, Reopen, Complete
<1>4. ASSUME NEW t \in Tasks, Ask(t) PROVE RetroTypeOK'
  <2>1. gate' \in [task : Tasks, attempt : 0..MaxAttempts, last : Bodies \union {"none"},
                   verdict : {"none", "replied_no_ack"}]
    <3>1. gate' = [[NoGate EXCEPT !.task = t] EXCEPT !.attempt = 1] /\ 1 \in 0..MaxAttempts
      BY <1>4 DEF Ask
    <3> QED BY <1>1, <3>1
  <2> QED BY <1>4, <2>1 DEF RetroTypeOK, Ask
<1>5. ASSUME Answer PROVE RetroTypeOK' BY <1>5 DEF Answer, RetroTypeOK
<1>6. ASSUME DaemonRestart PROVE RetroTypeOK' BY <1>2, <1>6 DEF DaemonRestart, RetroTypeOK
<1>7. ASSUME Attempt PROVE RetroTypeOK'
  <2>1. LastBody \in Bodies \union {"none"} BY DEF LastBody, RetroTypeOK
  <2>2. gate \in [task : Tasks, attempt : 0..MaxAttempts, last : Bodies \union {"none"},
                  verdict : {"none", "replied_no_ack"}]
    BY DEF RetroTypeOK
  <2> HIDE DEF LastBody, Acks
  <2>3. gate' \in [task : Tasks, attempt : 0..MaxAttempts, last : Bodies \union {"none"},
                   verdict : {"none", "replied_no_ack"}]
    <3>1. CASE gate' = NoGate BY <1>1, <3>1
    <3>2. CASE Again /\ gate' = [gate EXCEPT !.attempt = @ + 1, !.last = LastBody]
      <4>1. gate.attempt + 1 \in 0..MaxAttempts BY <2>2, <3>2 DEF Again
      <4> DEFINE g == [gate EXCEPT !.attempt = gate.attempt + 1]
      <4>2. gate' = [g EXCEPT !.last = LastBody] BY <3>2
      <4>3. g \in [task : Tasks, attempt : 0..MaxAttempts, last : Bodies \union {"none"},
                   verdict : {"none", "replied_no_ack"}]
        BY <2>2, <4>1
      <4> HIDE DEF g
      <4> QED BY <2>1, <4>2, <4>3
    <3>3. CASE LastBody # "none" /\ gate' = [gate EXCEPT !.last = LastBody, !.verdict = "replied_no_ack"]
      BY <2>1, <2>2, <3>3
    <3>4. \/ gate' = NoGate
          \/ Again /\ gate' = [gate EXCEPT !.attempt = @ + 1, !.last = LastBody]
          \/ LastBody # "none" /\ gate' = [gate EXCEPT !.last = LastBody, !.verdict = "replied_no_ack"]
      BY <1>7, Zenon DEF Attempt
    <3> QED BY <3>1, <3>2, <3>3, <3>4
  <2>4. judged' \subseteq Tasks /\ inbox' \in Seq(Bodies) /\ UNCHANGED <<runs, up, reported>>
    BY <1>7, <2>2 DEF Attempt, RetroTypeOK
  <2> QED BY <2>3, <2>4 DEF RetroTypeOK
<1>8. ASSUME ReadReply PROVE RetroTypeOK' BY <1>1, <1>8 DEF ReadReply, RetroTypeOK
<1>9. ASSUME DropGate PROVE RetroTypeOK' BY <1>1, <1>9 DEF DropGate, RetroTypeOK
<1>10. ASSUME NEW p \in PaneIds, ClosePane(p) PROVE RetroTypeOK'
  BY <1>2, <1>10 DEF ClosePane, RetroTypeOK
<1>11. ASSUME NEW p \in PaneIds, NEW t \in Tasks, SpawnWorker(p, t) PROVE RetroTypeOK'
  BY <1>11, SpawnWorkerKeeps
<1> QED BY <1>3, <1>4, <1>5, <1>6, <1>7, <1>8, <1>9, <1>10, <1>11 DEF RetroNext

LEMMA RetroKeeps ==
  ASSUME RetroInv, RetroNext
  PROVE  RetroInv'
<1>0. RetroTypeOK' /\ gate.task \in Tasks BY RetroTyped DEF RetroInv, RetroTypeOK
<1> DEFINE Quiet == UNCHANGED <<events, up, wrong, judged>>
<1>1. ASSUME Quiet PROVE RetroInv'
  <2>1. PICK t \in Tasks : TRUE BY EventLogAssumption
  <2> QED BY <1>0, <1>1, <2>1, JudgingKeeps
<1>2. \A t \in Tasks : Report(t) \/ Reopen(t) \/ Complete(t) \/ Ask(t) => Quiet
  BY DEF Report, Reopen, Complete, Ask
<1>3. Answer \/ DropGate => Quiet BY DEF Answer, DropGate
<1>4. ASSUME Attempt PROVE RetroInv'
  <2>1. \/ UNCHANGED events /\ judged \subseteq judged'
        \/ /\ judged' = judged \union {gate.task}
           /\ events' = Append(events, [kind |-> "retro_gate_acked", task |-> gate.task])
    BY <1>4 DEF Attempt
  <2>2. UNCHANGED <<up, wrong>> BY <1>4 DEF Attempt
  <2> QED BY <1>0, <2>1, <2>2, JudgingKeeps
<1>5. ASSUME ReadReply PROVE RetroInv'
  <2>1. \/ UNCHANGED events /\ judged \subseteq judged'
        \/ /\ judged' = judged \union {gate.task}
           /\ events' = Append(events, [kind |-> "retro_gate_confirmed_missing", task |-> gate.task])
    BY <1>5 DEF ReadReply
  <2>2. UNCHANGED <<up, wrong>> BY <1>5 DEF ReadReply
  <2> QED BY <1>0, <2>1, <2>2, JudgingKeeps
<1>6. ASSUME UNCHANGED <<events, judged>>, wrong' = {},
             \A p \in PaneIds : up'[p] = up[p] \/ ~up'[p].live
      PROVE  RetroInv'
  <2>1. \A p : VerifiedIn(p)' = VerifiedIn(p) /\ NewestIn(p)' = NewestIn(p)
    BY <1>6 DEF VerifiedIn, NewestIn
  <2>2. \A u : Judgements(u)' = Judgements(u) BY <1>6 DEF Judgements, Of
  <2>3. \A p \in PaneIds, t \in Tasks : OwnVerification(p, t)'
    BY <1>6, <2>1, <2>2 DEF RetroInv, OwnVerification
  <2> QED BY <1>0, <1>6, <2>3 DEF RetroInv
<1>7. ~Free.live BY DEF Free
<1>8. ASSUME DaemonRestart PROVE RetroInv' BY <1>6, <1>7, <1>8 DEF DaemonRestart, RetroInv
<1>9. ASSUME NEW p \in PaneIds, ClosePane(p) PROVE RetroInv'
  <2>1. wrong' = {} BY <1>9, CloseIsJudged
  <2>2. \A q \in PaneIds : up'[q] = up[q] \/ ~up'[q].live
    BY <1>7, <1>9 DEF ClosePane, RetroInv, RetroTypeOK
  <2> QED BY <1>6, <1>9, <2>1, <2>2 DEF ClosePane
<1>10. ASSUME NEW p \in PaneIds, NEW t \in Tasks, SpawnWorker(p, t) PROVE RetroInv'
  BY <1>10, SpawnWorkerKeeps
<1> HIDE DEF Quiet
<1> QED BY <1>1, <1>2, <1>3, <1>4, <1>5, <1>8, <1>9, <1>10 DEF RetroNext

LEMMA RetroInvariant == RetroSpec => []RetroInv
<1>1. RetroInit => RetroInv BY RetroInitHolds
<1>2. RetroInv /\ [RetroNext]_retroVars => RetroInv'
  <2> SUFFICES ASSUME RetroInv, [RetroNext]_retroVars PROVE RetroInv' OBVIOUS
  <2>1. CASE RetroNext BY <2>1, RetroKeeps
  <2>2. CASE UNCHANGED retroVars
    <3>1. PICK t \in Tasks : TRUE BY EventLogAssumption
    <3>2. RetroTypeOK' BY <2>2 DEF retroVars, RetroInv, RetroTypeOK
    <3> QED BY <2>2, <3>1, <3>2, JudgingKeeps DEF retroVars
  <2> QED BY <2>1, <2>2
<1> QED BY <1>1, <1>2, PTL DEF RetroSpec

\* The pane of a verified worker at work is closed only after a gate was passed for it
\* (.hooks/block-close-before-retro.py, tools/dispatcher_retro_gate.py), whatever workers,
\* restarts of the daemon and pane ids given out again lie in between.
THEOREM ClosesAreJudged == RetroSpec => []ClosedAfterItsRetro
<1>1. RetroInv => ClosedAfterItsRetro BY DEF RetroInv, ClosedAfterItsRetro
<1> QED BY <1>1, RetroInvariant, PTL

-----------------------------------------------------------------------------
(* CuratorArchive                                                          *)

Part(d) == [dir |-> d, whole |-> FALSE]
Working == {"move", "remove", "row", "forget"}
CuratorState == [pc : {"off", "next", "purge"} \union Working, todo : SUBSET WorkerDirs,
                 dir : WorkerDirs \union {"none"}]

\* Whether c's directory stands at the target and its row does not say so yet.
Holds(c) == curator[c].pc \in {"remove", "row"}

\* Whether c has taken d from its place and is still to write its row.
Takes(c, d) == curator[c].dir = d /\ curator[c].pc \in {"remove", "row", "forget"}

CuratorTyped ==
  /\ place \in [Places -> [dir : WorkerDirs \union {"none"}, whole : BOOLEAN]]
  /\ \A d \in WorkerDirs : place[d] \in {Whole(d), Vacant, Part(d)}
  /\ dirRow \in [WorkerDirs -> [path : Places \union {"none"},
                                life : {"active", "delete_pending", "archived", "purged"}]]
  /\ \A d \in WorkerDirs : dirRow[d].path \in {d, "target", "none"}
  /\ curator \in [Curators -> CuratorState]
  /\ \A c \in Curators : curator[c].pc \in Working => curator[c].dir \in WorkerDirs

\* The target belongs to at most one curator at a time.
TargetIsHeld ==
  /\ \A c \in Curators : Holds(c) => place["target"] = Whole(curator[c].dir)
  /\ \A c, e \in Curators : Holds(c) /\ Holds(e) => c = e

\* A directory is in pieces only beside a target that is blocked for good, and away from
\* its row's path only while a curator is to say so, or died.
SourcesAreKnown ==
  \A d \in WorkerDirs :
    /\ place[d] = Part(d) => There("target") /\ \A c \in Curators : ~Holds(c)
    /\ dirRow[d].path = d /\ d \notin adrift /\ place[d] # Whole(d)
         => \E c \in Curators : Takes(c, d)

\* What a row says is archived is at the target for good.
ArchivedIsThere ==
  \A d \in WorkerDirs :
    /\ dirRow[d].path = "target" => place["target"] = Whole(d) /\ \A c \in Curators : ~Holds(c)
    /\ dirRow[d].life = "archived" => dirRow[d].path = "target"

CuratorInv == CuratorTyped /\ TargetIsHeld /\ SourcesAreKnown /\ ArchivedIsThere

\* What may stand at a place.
LEMMA Contents ==
  ASSUME NEW d \in WorkerDirs
  PROVE  /\ {Whole(d), Vacant, Part(d)} \subseteq [dir : WorkerDirs \union {"none"}, whole : BOOLEAN]
         /\ Whole(d) # Part(d) /\ Whole(d) # Vacant /\ Vacant # Part(d)
<1>1. d # "none" BY CuratorAssumption
<1>2. Whole(d).whole = TRUE /\ Part(d).whole = FALSE BY DEF Whole, Part
<1>3. Whole(d).dir = d /\ Part(d).dir = d /\ Vacant.dir = "none" BY DEF Whole, Part, Vacant
<1>4. {Whole(d), Vacant, Part(d)} \subseteq [dir : WorkerDirs \union {"none"}, whole : BOOLEAN]
  BY DEF Whole, Vacant, Part
<1> QED BY <1>1, <1>2, <1>3, <1>4

LEMMA CuratorInitHolds == CuratorInit => CuratorInv
<1> SUFFICES ASSUME CuratorInit PROVE CuratorInv OBVIOUS
<1>1. \A d \in WorkerDirs : d # "target" /\ d # "none" /\ d \in Places
  BY CuratorAssumption DEF Places
<1>2. Vacant # Whole("target") BY DEF Vacant, Whole
<1>3. CuratorTyped
  BY <1>1 DEF CuratorInit, CuratorTyped, CuratorState, Off, Working, Whole, Vacant, Places
<1>4. \A d \in WorkerDirs : place[d] = Whole(d) /\ dirRow[d] = [path |-> d, life |-> "active"]
  BY <1>1 DEF CuratorInit
<1>5. \A c \in Curators : ~Holds(c) BY DEF CuratorInit, Holds, Off
<1>6. \A d \in WorkerDirs : place[d] # Part(d) BY <1>4, Contents
<1>7. \A d \in WorkerDirs : dirRow[d].path = d /\ dirRow[d].life = "active"
  BY <1>1 DEF CuratorInit
<1> HIDE DEF CuratorInit
<1> QED BY <1>1, <1>3, <1>4, <1>5, <1>6, <1>7
        DEF CuratorInv, TargetIsHeld, SourcesAreKnown, ArchivedIsThere

\* A curator that moves nothing, and takes up nothing, keeps the invariant; when it dies with
\* a directory it has taken, that is adrift.
LEMMA IdlingKeeps ==
  ASSUME CuratorInv, NEW c \in Curators, UNCHANGED <<place, dirRow>>, adrift \subseteq adrift',
         NEW r \in CuratorState, curator' = [curator EXCEPT ![c] = r],
         r.pc \in {"off", "next", "purge", "move"}, r.pc = "move" => r.dir \in WorkerDirs,
         \A d \in WorkerDirs : Takes(c, d) => d \in adrift'
  PROVE  CuratorInv'
<1> USE DEF CuratorInv
<1>1. CuratorTyped' BY DEF CuratorTyped, Working
<1>2. ~Holds(c)' /\ \A e \in Curators : e # c => Holds(e)' = Holds(e)
  BY DEF CuratorTyped, Holds
<1>3. TargetIsHeld'
  <2>1. \A e \in Curators : Holds(e)' => Holds(e) /\ curator'[e].dir = curator[e].dir
    BY <1>2 DEF CuratorTyped
  <2> QED BY <2>1 DEF TargetIsHeld
<1>4. SourcesAreKnown'
  <2>1. \A e \in Curators, d \in WorkerDirs : e # c => Takes(e, d)' = Takes(e, d)
    BY DEF CuratorTyped, Takes
  <2>2. There("target")' = There("target") BY DEF There
  <2> QED BY <1>2, <2>1, <2>2 DEF SourcesAreKnown
<1>5. ArchivedIsThere' BY <1>2 DEF ArchivedIsThere
<1> QED BY <1>1, <1>3, <1>4, <1>5

LEMMA MarkKeeps ==
  ASSUME CuratorInv, NEW d \in WorkerDirs, MarkForDeletion(d)
  PROVE  CuratorInv'
<1> USE DEF CuratorInv
<1>1. /\ dirRow[d].life \in {"active", "delete_pending"} /\ UNCHANGED <<place, device, curator, adrift>>
      /\ dirRow' = [dirRow EXCEPT ![d].life = IF @ = "active" THEN "delete_pending" ELSE "active"]
  BY DEF MarkForDeletion
<1>2. \A e \in WorkerDirs :
        /\ dirRow'[e].path = dirRow[e].path
        /\ dirRow'[e].life = "archived" => dirRow[e].life = "archived"
  BY <1>1 DEF CuratorTyped
<1>3. dirRow' \in [WorkerDirs -> [path : Places \union {"none"},
                                  life : {"active", "delete_pending", "archived", "purged"}]]
  BY <1>1 DEF CuratorTyped
<1>4. CuratorTyped' BY <1>1, <1>2, <1>3 DEF CuratorTyped
<1>5. /\ \A c \in Curators : Holds(c)' = Holds(c) /\ \A e \in WorkerDirs : Takes(c, e)' = Takes(c, e)
      /\ There("target")' = There("target")
  BY <1>1 DEF Holds, Takes, There
<1>6. TargetIsHeld' BY <1>1, <1>5 DEF TargetIsHeld
<1>7. SourcesAreKnown' BY <1>1, <1>2, <1>5 DEF SourcesAreKnown
<1>8. ArchivedIsThere' BY <1>1, <1>2, <1>5 DEF ArchivedIsThere
<1> QED BY <1>4, <1>6, <1>7, <1>8

\* Where nothing stands at the target, no curator holds it, no row says archived and no
\* directory is in pieces.
LEMMA FreeTarget ==
  ASSUME CuratorInv, ~There("target")
  PROVE  /\ \A c \in Curators : ~Holds(c)
         /\ \A d \in WorkerDirs : dirRow[d].path # "target" /\ place[d] # Part(d)
<1>1. \A d : Whole(d) # Vacant BY DEF Whole, Vacant
<1> QED BY <1>1 DEF CuratorInv, TargetIsHeld, ArchivedIsThere, SourcesAreKnown, There

LEMMA MoveKeeps ==
  ASSUME CuratorInv, NEW c \in Curators, Move(c)
  PROVE  CuratorInv'
<1> USE DEF CuratorInv
<1> DEFINE d == curator[c].dir
<1>1. /\ curator[c].pc = "move" /\ d \in WorkerDirs /\ UNCHANGED <<dirRow, device, adrift>>
      /\ curator[c] \in CuratorState /\ d # "target" /\ d \in Places /\ "target" \in Places
  BY CuratorAssumption DEF Move, CuratorTyped, Working, Places
<1>2. CASE ~CanMove(d)
  <2>1. Off \in CuratorState /\ Off.pc = "off" BY DEF Off, CuratorState
  <2>2. \A e \in WorkerDirs : ~Takes(c, e) BY <1>1 DEF Takes
  <2>3. curator' = [curator EXCEPT ![c] = Off] /\ UNCHANGED place BY <1>2 DEF Move
  <2> QED BY <1>1, <2>1, <2>2, <2>3, IdlingKeeps
<1>3. CASE CanMove(d)
  <2>1. There(d) /\ ~There("target") BY <1>3 DEF CanMove
  <2>2. /\ \A e \in Curators : ~Holds(e)
        /\ \A e \in WorkerDirs : dirRow[e].path # "target" /\ place[e] # Part(e)
    BY <2>1, FreeTarget
  <2>3. place[d] = Whole(d) BY <1>1, <2>1, <2>2 DEF CuratorTyped, There
  <2>4. PICK at \in {"remove", "row"} :
          /\ curator' = [curator EXCEPT ![c].pc = at]
          /\ place' \in {[place EXCEPT !["target"] = place[d]],
                         [place EXCEPT !["target"] = place[d], ![d] = Vacant]}
    BY <1>3 DEF Move, Step
  <2>5. /\ place'["target"] = Whole(d) /\ place'[d] \in {Whole(d), Vacant}
        /\ \A e \in WorkerDirs : e # d => place'[e] = place[e]
        /\ place' \in [Places -> [dir : WorkerDirs \union {"none"}, whole : BOOLEAN]]
    <3>1. {Whole(d), Vacant} \subseteq [dir : WorkerDirs \union {"none"}, whole : BOOLEAN]
      BY <1>1, Contents
    <3>2. \A e \in WorkerDirs : e # "target" /\ e \in Places BY CuratorAssumption DEF Places
    <3> QED BY <1>1, <2>3, <2>4, <3>1, <3>2 DEF CuratorTyped
  <2>6. /\ curator'[c].pc = at /\ curator'[c].dir = d /\ curator' \in [Curators -> CuratorState]
        /\ \A e \in Curators : e # c => curator'[e] = curator[e]
    BY <1>1, <2>4 DEF CuratorTyped, CuratorState, Working
  <2>7. CuratorTyped' BY <1>1, <2>5, <2>6 DEF CuratorTyped
  <2>8. \A e \in Curators : Holds(e)' <=> e = c BY <2>2, <2>6 DEF Holds
  <2>9. TargetIsHeld' BY <2>5, <2>6, <2>8 DEF TargetIsHeld
  <2>10. (\A f : f = d => Takes(c, f)') /\ \A e \in Curators, f \in WorkerDirs : Takes(e, f) => Takes(e, f)'
    BY <1>1, <2>6 DEF Takes
  <2>11. \A e \in WorkerDirs : place'[e] # Part(e)
    <3>1. place'[d] # Part(d) BY <1>1, <2>5, Contents
    <3> QED BY <2>2, <2>5, <3>1
  <2>12. SourcesAreKnown'
    <3>1. ASSUME NEW e \in WorkerDirs, dirRow'[e].path = e, e \notin adrift', place'[e] # Whole(e)
          PROVE  \E h \in Curators : Takes(h, e)'
      <4>1. CASE e = d BY <2>10, <4>1
      <4>2. CASE e # d
        <5>1. place[e] # Whole(e) /\ dirRow[e].path = e /\ e \notin adrift BY <1>1, <2>5, <3>1, <4>2
        <5>2. PICK h \in Curators : Takes(h, e) BY <5>1 DEF SourcesAreKnown
        <5> QED BY <2>10, <5>2
      <4> QED BY <4>1, <4>2
    <3> QED BY <2>11, <3>1 DEF SourcesAreKnown
  <2>13. ArchivedIsThere' BY <1>1, <2>2 DEF ArchivedIsThere
  <2> QED BY <2>7, <2>9, <2>12, <2>13
<1> QED BY <1>2, <1>3

LEMMA RemoveKeeps ==
  ASSUME CuratorInv, NEW c \in Curators, RemoveSource(c)
  PROVE  CuratorInv'
<1> USE DEF CuratorInv
<1> DEFINE d == curator[c].dir
<1>1. /\ curator[c].pc = "remove" /\ d \in WorkerDirs /\ UNCHANGED <<dirRow, device, adrift>>
      /\ d # "target" /\ d \in Places /\ "target" \in Places
      /\ place' = [place EXCEPT ![d] = Vacant] /\ curator' = [curator EXCEPT ![c].pc = "row"]
  BY CuratorAssumption DEF RemoveSource, CuratorTyped, Working, Places, Step
<1>2. /\ place'["target"] = place["target"] /\ place'[d] = Vacant
      /\ \A e \in WorkerDirs : e # d => place'[e] = place[e]
      /\ place' \in [Places -> [dir : WorkerDirs \union {"none"}, whole : BOOLEAN]]
  BY <1>1 DEF CuratorTyped, Vacant
<1>3. /\ curator'[c].pc = "row" /\ curator'[c].dir = d /\ curator' \in [Curators -> CuratorState]
      /\ \A e \in Curators : e # c => curator'[e] = curator[e]
  BY <1>1 DEF CuratorTyped, CuratorState, Working
<1>4. CuratorTyped' BY <1>1, <1>2, <1>3 DEF CuratorTyped
<1>5. \A e \in Curators : Holds(e)' = Holds(e) /\ curator'[e].dir = curator[e].dir
  BY <1>1, <1>3 DEF Holds
<1>6. TargetIsHeld' BY <1>2, <1>5 DEF TargetIsHeld
<1>7. (\A f : f = d => Takes(c, f)') /\ \A e \in Curators, f \in WorkerDirs : Takes(e, f) => Takes(e, f)'
  BY <1>1, <1>3 DEF Takes
<1>8. Vacant # Part(d) /\ There("target")' = There("target")
  BY <1>1, <1>2, CuratorAssumption DEF Vacant, Part, There
<1>9. SourcesAreKnown'
  <2>1. ASSUME NEW e \in WorkerDirs, place'[e] = Part(e)
        PROVE  There("target")' /\ \A h \in Curators : ~Holds(h)'
    BY <1>2, <1>5, <1>8, <2>1 DEF SourcesAreKnown
  <2>2. ASSUME NEW e \in WorkerDirs, dirRow'[e].path = e, e \notin adrift', place'[e] # Whole(e)
        PROVE  \E h \in Curators : Takes(h, e)'
    BY <1>1, <1>2, <1>7, <2>2 DEF SourcesAreKnown
  <2> QED BY <2>1, <2>2 DEF SourcesAreKnown
<1>10. ArchivedIsThere' BY <1>1, <1>2, <1>5 DEF ArchivedIsThere
<1> QED BY <1>4, <1>6, <1>9, <1>10

LEMMA UpdateRowKeeps ==
  ASSUME CuratorInv, NEW c \in Curators, UpdateRow(c)
  PROVE  CuratorInv'
<1> USE DEF CuratorInv
<1> DEFINE d == curator[c].dir
<1>1. /\ curator[c].pc = "row" /\ d \in WorkerDirs /\ UNCHANGED <<device, adrift>>
      /\ d # "target" /\ d # "none" /\ d \in Places /\ "target" \in Places
  BY CuratorAssumption DEF UpdateRow, CuratorTyped, Working, Places
<1>2. /\ Holds(c) /\ place["target"] = Whole(d)
      /\ \A e \in Curators : Holds(e) => e = c
      /\ \A e \in WorkerDirs : dirRow[e].path # "target" /\ place[e] # Part(e)
  <2>1. Holds(c) BY <1>1 DEF Holds
  <2> QED BY <2>1 DEF TargetIsHeld, ArchivedIsThere, SourcesAreKnown
<1>3. ASSUME NEW r \in CuratorState, curator' = [curator EXCEPT ![c] = r], r.pc \in {"next", "off"}
      PROVE  /\ curator' \in [Curators -> CuratorState]
             /\ \A e \in Curators : curator'[e].pc \in Working => curator'[e].dir \in WorkerDirs
             /\ \A e \in Curators : ~Holds(e)'
             /\ \A e \in Curators, f \in WorkerDirs : f # d /\ Takes(e, f) => Takes(e, f)'
  <2>1. /\ curator' \in [Curators -> CuratorState] /\ curator'[c] = r
        /\ \A e \in Curators : e # c => curator'[e] = curator[e]
    BY <1>3 DEF CuratorTyped
  <2> QED BY <1>2, <1>3, <2>1 DEF CuratorTyped, Holds, Takes, Working
<1>4. CASE /\ dirRow' = IF dirRow[d].path = d
                        THEN [dirRow EXCEPT ![d] = [path |-> "target", life |-> "archived"]] ELSE dirRow
           /\ TakeNext(c) /\ UNCHANGED place
  <2> DEFINE r == [curator[c] EXCEPT !.pc = "next", !.dir = "none"]
  <2>1. r \in CuratorState /\ r.pc = "next" /\ curator' = [curator EXCEPT ![c] = r]
    BY <1>4 DEF TakeNext, CuratorState, CuratorTyped
  <2> HIDE DEF r
  <2>2. /\ curator' \in [Curators -> CuratorState]
        /\ \A e \in Curators : curator'[e].pc \in Working => curator'[e].dir \in WorkerDirs
        /\ \A e \in Curators : ~Holds(e)'
        /\ \A e \in Curators, f \in WorkerDirs : f # d /\ Takes(e, f) => Takes(e, f)'
    BY <1>3, <2>1
  <2>3. /\ dirRow'[d].path # d
        /\ dirRow'[d].path = "target" => dirRow'[d].life = "archived"
        /\ dirRow'[d].life = "archived" => dirRow'[d].path = "target"
        /\ dirRow'[d].path \in {d, "target", "none"}
        /\ \A e \in WorkerDirs : e # d => dirRow'[e] = dirRow[e]
        /\ dirRow' \in [WorkerDirs -> [path : Places \union {"none"},
                                       life : {"active", "delete_pending", "archived", "purged"}]]
    <3>1. CASE dirRow[d].path = d
      <4>1. [path |-> "target", life |-> "archived"] \in
              [path : Places \union {"none"}, life : {"active", "delete_pending", "archived", "purged"}]
        BY <1>1
      <4> QED BY <1>1, <1>4, <3>1, <4>1 DEF CuratorTyped
    <3>2. CASE dirRow[d].path # d
      BY <1>1, <1>2, <1>4, <3>2 DEF CuratorTyped, ArchivedIsThere
    <3> QED BY <3>1, <3>2
  <2>4. CuratorTyped' BY <1>4, <2>2, <2>3 DEF CuratorTyped
  <2>5. TargetIsHeld' BY <2>2 DEF TargetIsHeld
  <2>6. SourcesAreKnown'
    <3>1. ASSUME NEW e \in WorkerDirs, dirRow'[e].path = e, e \notin adrift', place'[e] # Whole(e)
          PROVE  \E h \in Curators : Takes(h, e)'
      BY <1>1, <1>4, <2>2, <2>3, <3>1 DEF SourcesAreKnown
    <3> QED BY <1>2, <1>4, <3>1 DEF SourcesAreKnown
  <2>7. ArchivedIsThere' BY <1>2, <1>4, <2>2, <2>3 DEF ArchivedIsThere
  <2> QED BY <2>4, <2>5, <2>6, <2>7
<1>5. CASE /\ place' = [place EXCEPT !["target"] = Vacant, ![d] = place["target"]]
           /\ curator' = [curator EXCEPT ![c] = Off] /\ UNCHANGED dirRow
  <2>1. Off \in CuratorState /\ Off.pc = "off" BY DEF Off, CuratorState
  <2>2. /\ curator' \in [Curators -> CuratorState]
        /\ \A e \in Curators : curator'[e].pc \in Working => curator'[e].dir \in WorkerDirs
        /\ \A e \in Curators : ~Holds(e)'
        /\ \A e \in Curators, f \in WorkerDirs : f # d /\ Takes(e, f) => Takes(e, f)'
    BY <1>3, <1>5, <2>1
  <2>3. /\ place'[d] = Whole(d) /\ \A e \in WorkerDirs : e # d => place'[e] = place[e]
        /\ place' \in [Places -> [dir : WorkerDirs \union {"none"}, whole : BOOLEAN]]
    <3>1. Vacant \in [dir : WorkerDirs \union {"none"}, whole : BOOLEAN]
          /\ Whole(d) \in [dir : WorkerDirs \union {"none"}, whole : BOOLEAN]
      BY <1>1, Contents
    <3>2. \A e \in WorkerDirs : e # "target" /\ e \in Places BY CuratorAssumption DEF Places
    <3> QED BY <1>1, <1>2, <1>5, <3>1, <3>2 DEF CuratorTyped
  <2>4. CuratorTyped' BY <1>5, <2>2, <2>3 DEF CuratorTyped
  <2>5. TargetIsHeld' BY <2>2 DEF TargetIsHeld
  <2>6. \A e \in WorkerDirs : place'[e] # Part(e) 
    <3>1. place'[d] # Part(d) BY <1>1, <2>3, Contents
    <3> QED BY <1>2, <2>3, <3>1
  <2>7. SourcesAreKnown' BY <1>1, <1>5, <2>2, <2>3, <2>6 DEF SourcesAreKnown
  <2>8. ArchivedIsThere' BY <1>2, <1>5 DEF ArchivedIsThere
  <2> QED BY <2>4, <2>5, <2>7, <2>8
<1> QED BY <1>4, <1>5 DEF UpdateRow

LEMMA PurgeKeeps ==
  ASSUME CuratorInv, NEW c \in Curators, Purge(c)
  PROVE  CuratorInv'
<1> USE DEF CuratorInv
<1>1. /\ curator[c].pc = "purge" /\ curator[c] \in CuratorState /\ UNCHANGED <<dirRow, device, adrift>>
  BY DEF Purge, CuratorTyped
<1>2. CASE curator[c].todo = {}
  <2>1. Off \in CuratorState /\ Off.pc = "off" BY DEF Off, CuratorState
  <2>2. \A e \in WorkerDirs : ~Takes(c, e) BY <1>1 DEF Takes
  <2>3. curator' = [curator EXCEPT ![c] = Off] /\ UNCHANGED place BY <1>2 DEF Purge
  <2> QED BY <1>1, <2>1, <2>2, <2>3, IdlingKeeps
<1>3. CASE curator[c].todo # {}
  <2>1. PICK d \in curator[c].todo :
          /\ place' = [place EXCEPT ![d] = Vacant]
          /\ curator' = [curator EXCEPT ![c] = [pc |-> "forget", todo |-> @.todo \ {d}, dir |-> d]]
    BY <1>3 DEF Purge
  <2>2. d \in WorkerDirs /\ d # "target" /\ d \in Places /\ "target" \in Places
    BY <1>1, CuratorAssumption DEF CuratorState, Places
  <2>3. /\ place'["target"] = place["target"] /\ place'[d] = Vacant
        /\ \A e \in WorkerDirs : e # d => place'[e] = place[e]
        /\ place' \in [Places -> [dir : WorkerDirs \union {"none"}, whole : BOOLEAN]]
    BY <2>1, <2>2 DEF CuratorTyped, Vacant
  <2>4. [pc |-> "forget", todo |-> curator[c].todo \ {d}, dir |-> d] \in CuratorState
    BY <1>1, <2>2 DEF CuratorState, Working
  <2>5. /\ curator'[c].pc = "forget" /\ curator'[c].dir = d /\ curator' \in [Curators -> CuratorState]
        /\ \A e \in Curators : e # c => curator'[e] = curator[e]
    BY <2>1, <2>4 DEF CuratorTyped
  <2>6. CuratorTyped' BY <1>1, <2>2, <2>3, <2>5 DEF CuratorTyped
  <2>7. \A e \in Curators : Holds(e)' = Holds(e) /\ (Holds(e) => curator'[e].dir = curator[e].dir)
    BY <1>1, <2>5 DEF Holds
  <2>8. TargetIsHeld' BY <2>3, <2>7 DEF TargetIsHeld
  <2>9. Takes(c, d)' /\ \A e \in Curators, f \in WorkerDirs : Takes(e, f) => Takes(e, f)'
    BY <1>1, <2>5 DEF Takes
  <2>10. Vacant # Part(d) /\ There("target")' = There("target")
    BY <2>2, <2>3, CuratorAssumption DEF Vacant, Part, There
  <2>11. SourcesAreKnown' BY <1>1, <2>3, <2>7, <2>9, <2>10 DEF SourcesAreKnown
  <2>12. ArchivedIsThere' BY <1>1, <2>3, <2>7 DEF ArchivedIsThere
  <2> QED BY <2>6, <2>8, <2>11, <2>12
<1> QED BY <1>2, <1>3

LEMMA ForgetKeeps ==
  ASSUME CuratorInv, NEW c \in Curators, Forget(c)
  PROVE  CuratorInv'
<1> USE DEF CuratorInv
<1> DEFINE d == curator[c].dir
<1>1. /\ curator[c].pc = "forget" /\ d \in WorkerDirs /\ UNCHANGED <<place, device, adrift>>
      /\ d # "target" /\ d # "none" /\ d \in Places /\ curator' = [curator EXCEPT ![c].pc = "purge"]
      /\ dirRow' = IF dirRow[d].path = d THEN [dirRow EXCEPT ![d] = [path |-> "none", life |-> "purged"]]
                   ELSE dirRow
  BY CuratorAssumption DEF Forget, CuratorTyped, Working, Places, Step
<1>2. /\ dirRow'[d].path # d /\ (dirRow'[d].path = "target" => dirRow[d].path = "target")
      /\ dirRow'[d].life = "archived" => dirRow'[d].path = "target"
      /\ dirRow'[d].path \in {d, "target", "none"}
      /\ \A e \in WorkerDirs : e # d => dirRow'[e] = dirRow[e]
      /\ dirRow' \in [WorkerDirs -> [path : Places \union {"none"},
                                     life : {"active", "delete_pending", "archived", "purged"}]]
  <2>1. CASE dirRow[d].path = d BY <1>1, <2>1 DEF CuratorTyped
  <2>2. CASE dirRow[d].path # d BY <1>1, <2>2 DEF CuratorTyped, ArchivedIsThere
  <2> QED BY <2>1, <2>2
<1>3. /\ curator'[c].pc = "purge" /\ curator' \in [Curators -> CuratorState]
      /\ \A e \in Curators : e # c => curator'[e] = curator[e]
  BY <1>1 DEF CuratorTyped, CuratorState, Working
<1>4. CuratorTyped' BY <1>1, <1>2, <1>3 DEF CuratorTyped, Working
<1>5. \A e \in Curators : Holds(e)' = Holds(e) /\ (Holds(e) => curator'[e].dir = curator[e].dir)
  BY <1>1, <1>3 DEF Holds
<1>6. TargetIsHeld' BY <1>1, <1>5 DEF TargetIsHeld
<1>7. \A e \in Curators, f \in WorkerDirs : f # d /\ Takes(e, f) => Takes(e, f)'
  BY <1>1, <1>3 DEF Takes
<1>8. SourcesAreKnown'
  <2>1. ASSUME NEW e \in WorkerDirs, dirRow'[e].path = e, e \notin adrift', place'[e] # Whole(e)
        PROVE  \E h \in Curators : Takes(h, e)'
    BY <1>1, <1>2, <1>7, <2>1 DEF SourcesAreKnown
  <2>2. There("target")' = There("target") BY <1>1 DEF There
  <2> QED BY <1>1, <1>5, <2>1, <2>2 DEF SourcesAreKnown
<1>9. ArchivedIsThere' BY <1>1, <1>2, <1>5 DEF ArchivedIsThere
<1> QED BY <1>4, <1>6, <1>8, <1>9

LEMMA DiesKeeps ==
  ASSUME CuratorInv, NEW c \in Curators, Dies(c)
  PROVE  CuratorInv'
<1> USE DEF CuratorInv
<1> DEFINE d == curator[c].dir
<1>1. /\ UNCHANGED <<dirRow, device>> /\ curator' = [curator EXCEPT ![c] = Off]
      /\ adrift' = IF curator[c].pc \in Working THEN adrift \union {d} ELSE adrift
      /\ curator[c].pc \in Working => d \in WorkerDirs /\ d # "target" /\ d \in Places
      /\ "target" \in Places
  BY CuratorAssumption DEF Dies, CuratorTyped, Working, Places
<1>2. Off \in CuratorState /\ Off.pc = "off" BY DEF Off, CuratorState
<1>3. CASE UNCHANGED place
  <2>1. \A e \in WorkerDirs : Takes(c, e) => e \in adrift' BY <1>1 DEF Takes, Working
  <2> QED BY <1>1, <1>2, <1>3, <2>1, IdlingKeeps
<1>4. /\ curator' \in [Curators -> CuratorState] /\ curator'[c] = Off
      /\ \A e \in Curators : e # c => curator'[e] = curator[e]
  BY <1>1, <1>2 DEF CuratorTyped
<1>5. CASE /\ curator[c].pc = "move" /\ CanMove(d)
           /\ place' = [place EXCEPT !["target"] = [dir |-> d, whole |-> FALSE]]
  <2>1. /\ \A e \in Curators : ~Holds(e)
        /\ \A e \in WorkerDirs : dirRow[e].path # "target" /\ place[e] # Part(e)
    BY <1>5, FreeTarget DEF CanMove
  <2>2. /\ \A e \in WorkerDirs : place'[e] = place[e]
        /\ place' \in [Places -> [dir : WorkerDirs \union {"none"}, whole : BOOLEAN]]
    BY <1>1, <1>5, CuratorAssumption DEF CuratorTyped, Working, Places
  <2>3. CuratorTyped' BY <1>1, <1>2, <1>4, <2>2 DEF CuratorTyped, Working
  <2>4. \A e \in Curators : ~Holds(e)' BY <1>2, <1>4, <2>1 DEF Holds
  <2>5. \A e \in Curators, f \in WorkerDirs : Takes(e, f) => Takes(e, f)'
    BY <1>4, <1>5 DEF Takes
  <2>6. TargetIsHeld' BY <2>4 DEF TargetIsHeld
  <2>7. SourcesAreKnown' BY <1>1, <2>1, <2>2, <2>5 DEF SourcesAreKnown
  <2>8. ArchivedIsThere' BY <1>1, <2>1 DEF ArchivedIsThere
  <2> QED BY <2>3, <2>6, <2>7, <2>8
<1>6. CASE curator[c].pc = "remove" /\ place' = [place EXCEPT ![d] = [dir |-> d, whole |-> FALSE]]
  <2>1. /\ Holds(c) /\ place["target"] = Whole(d) /\ d \in WorkerDirs /\ d # "target" /\ d \in Places
        /\ \A e \in WorkerDirs : dirRow[e].path # "target" /\ place[e] # Part(e)
    <3>1. Holds(c) BY <1>6 DEF Holds
    <3> QED BY <1>1, <1>6, <3>1 DEF TargetIsHeld, ArchivedIsThere, SourcesAreKnown, Working
  <2>2. /\ place'[d] = Part(d) /\ \A e \in WorkerDirs : e # d => place'[e] = place[e]
        /\ place'["target"] = place["target"]
        /\ place' \in [Places -> [dir : WorkerDirs \union {"none"}, whole : BOOLEAN]]
    BY <1>1, <1>6, <2>1 DEF CuratorTyped, Part
  <2>3. CuratorTyped' BY <1>1, <1>2, <1>4, <2>2 DEF CuratorTyped, Working
  <2>4. \A e \in Curators : ~Holds(e)'
    <3>1. \A e \in Curators : Holds(e) => e = c BY <2>1 DEF TargetIsHeld
    <3> QED BY <1>2, <1>4, <3>1 DEF Holds
  <2>5. There("target")' BY <2>1, <2>2 DEF There, Whole, Vacant
  <2>6. \A e \in Curators, f \in WorkerDirs : f # d /\ Takes(e, f) => Takes(e, f)'
    BY <1>4 DEF Takes
  <2>7. TargetIsHeld' BY <2>4 DEF TargetIsHeld
  <2>8. SourcesAreKnown'
    <3>1. d \in adrift' BY <1>1, <1>6 DEF Working
    <3> QED BY <1>1, <2>2, <2>4, <2>5, <2>6, <3>1 DEF SourcesAreKnown
  <2>9. ArchivedIsThere' BY <1>1, <2>1 DEF ArchivedIsThere
  <2> QED BY <2>3, <2>7, <2>8, <2>9
<1> QED BY <1>3, <1>5, <1>6 DEF Dies

LEMMA CuratorKeeps ==
  ASSUME CuratorInv, CuratorNext
  PROVE  CuratorInv'
<1>1. ASSUME NEW c \in Curators, SelectArchiveCandidates(c) \/ Look(c) \/ SelectPurgeCandidates(c)
      PROVE  CuratorInv'
  <2>1. /\ curator[c].pc \in {"off", "next"} /\ curator[c] \in CuratorState
        /\ UNCHANGED <<place, dirRow, adrift>>
    BY <1>1 DEF SelectArchiveCandidates, Look, SelectPurgeCandidates, CuratorInv, CuratorTyped
  <2>2. Off \in CuratorState /\ Off.pc = "off" BY DEF Off, CuratorState
  <2>3. \E r \in CuratorState : /\ curator' = [curator EXCEPT ![c] = r]
                                /\ r.pc \in {"off", "next", "purge", "move"}
                                /\ r.pc = "move" => r.dir \in WorkerDirs
    <3>1. CASE SelectArchiveCandidates(c)
      <4>1. PICK old \in SUBSET WorkerDirs :
              curator' = [curator EXCEPT ![c] = [pc |-> "next", todo |-> old, dir |-> "none"]]
        BY <3>1 DEF SelectArchiveCandidates
      <4>2. [pc |-> "next", todo |-> old, dir |-> "none"] \in CuratorState BY DEF CuratorState
      <4> QED BY <4>1, <4>2
    <3>2. CASE Look(c)
      <4>1. CASE curator[c].todo = {} BY <2>2, <3>2, <4>1 DEF Look
      <4>2. CASE curator[c].todo # {}
        <5> DEFINE rest(d) == [curator[c] EXCEPT !.todo = curator[c].todo \ {d}]
                   after(d) == IF ~There(d) THEN rest(d) ELSE IF There("target") THEN Off
                               ELSE [pc |-> "move", todo |-> curator[c].todo \ {d}, dir |-> d]
        <5>1. PICK d \in curator[c].todo : curator' = [curator EXCEPT ![c] = after(d)]
          BY <3>2, <4>2 DEF Look
        <5>2. d \in WorkerDirs /\ curator[c].pc = "next" BY <2>1, <3>2 DEF CuratorState, Look
        <5>3. CASE ~There(d)
          <6>1. after(d) = rest(d) BY <5>3
          <6>2. rest(d) \in CuratorState /\ rest(d).pc = "next" BY <2>1, <5>2 DEF CuratorState
          <6> QED BY <5>1, <6>1, <6>2
        <5>4. CASE There(d) /\ There("target")
          <6>1. after(d) = Off BY <5>4
          <6> QED BY <2>2, <5>1, <6>1
        <5>5. CASE There(d) /\ ~There("target")
          <6> DEFINE r == [pc |-> "move", todo |-> curator[c].todo \ {d}, dir |-> d]
          <6>1. after(d) = r BY <5>5
          <6>2. r \in CuratorState /\ r.pc = "move" /\ r.dir \in WorkerDirs
            BY <2>1, <5>2 DEF CuratorState, Working
          <6> QED BY <5>1, <6>1, <6>2
        <5> QED BY <5>3, <5>4, <5>5
      <4> QED BY <4>1, <4>2
    <3>3. CASE SelectPurgeCandidates(c)
      <4> DEFINE r == [Off EXCEPT !.pc = "purge", !.todo = {d \in WorkerDirs : dirRow[d].life = "delete_pending"}]
      <4>1. r \in CuratorState /\ r.pc = "purge" BY DEF Off, CuratorState
      <4>2. curator' = [curator EXCEPT ![c] = r] BY <3>3 DEF SelectPurgeCandidates
      <4> QED BY <4>1, <4>2
    <3> QED BY <1>1, <3>1, <3>2, <3>3
  <2>4. \A e \in WorkerDirs : ~Takes(c, e) BY <2>1 DEF Takes
  <2> QED BY <2>1, <2>3, <2>4, IdlingKeeps
<1> QED BY <1>1, MarkKeeps, MoveKeeps, RemoveKeeps, UpdateRowKeeps, PurgeKeeps, ForgetKeeps, DiesKeeps
        DEF CuratorNext

LEMMA CuratorStays == CuratorInv /\ [CuratorNext]_curatorVars => CuratorInv'
<1>1. ASSUME CuratorInv, UNCHANGED curatorVars PROVE CuratorInv'
  BY <1>1 DEF curatorVars, CuratorInv, CuratorTyped, TargetIsHeld, SourcesAreKnown,
              ArchivedIsThere, Holds, Takes, There
<1> QED BY <1>1, CuratorKeeps

LEMMA CuratorInvariant == CuratorSpec => []CuratorInv
BY CuratorInitHolds, CuratorStays, PTL DEF CuratorSpec

\* However many curators (tools/curator_archive.py) overlap, die between a move and its row
\* and move back, a row finds its own directory where it says, unless a death set it adrift,
\* and what is archived is somewhere, whole.
THEOREM ArchivesAreSafe == CuratorSpec => []ArchiveIsSafe
<1>1. CuratorInv => ArchiveIsSafe
  <2> SUFFICES ASSUME CuratorInv PROVE ArchiveIsSafe OBVIOUS
  <2>1. \A d \in WorkerDirs : d # "none" /\ d # "target" /\ d \in Places /\ "target" \in Places /\ "none" \notin Places
    BY CuratorAssumption DEF Places
  <2>2. RowsFindTheirDirs
    <3> SUFFICES ASSUME NEW d \in WorkerDirs \ adrift, dirRow[d].path \in Places, ~Moving(d)
                 PROVE  place[dirRow[d].path] = Whole(d)
      BY DEF RowsFindTheirDirs
    <3>1. CASE dirRow[d].path = "target" BY <3>1 DEF CuratorInv, ArchivedIsThere
    <3>2. CASE dirRow[d].path = d BY <3>2 DEF CuratorInv, SourcesAreKnown, Moving, Takes
    <3> QED BY <2>1, <3>1, <3>2 DEF CuratorInv, CuratorTyped
  <2>3. NothingIsLost BY <2>1 DEF CuratorInv, ArchivedIsThere, NothingIsLost
  <2> QED BY <2>2, <2>3 DEF ArchiveIsSafe
<1> QED BY <1>1, CuratorInvariant, PTL


-----------------------------------------------------------------------------
(* The cap on rounds                                                       *)

RoundEvent == [kind : {"delegate_sent"}, task : Tasks, dir : Dirs]
         \union [kind : {"codex_round_started"}, task : Tasks, mode : Modes, round : Nat]
         \union [kind : {"codex_round_denied"}, task : Tasks, mode : Modes, used : Nat]
         \union [kind : {"codex_round_cap_changed"}, task : Tasks, allowed : Allowances]
HookState == [at : {"idle", "lookup", "begin", "count", "write", "run"},
         dir : Dirs \union {NoDir}, mode : Modes, task : Tasks, used : Nat]
InTransaction == {"count", "write"}

\* The write transaction is that of the one hook between its BEGIN and its commit, and what
\* it counted stays so.
Counted(h, t, mode) ==
  hook[h].at = "write" /\ hook[h].task = t /\ hook[h].mode = mode => hook[h].used = Count(t, mode)

LockHeld ==
  \A h \in Hooks : /\ hook[h].at \in InTransaction => lock = h
                   /\ \A t \in Tasks, mode \in Modes : Counted(h, t, mode)

\* Hooks that were granted a round and have not run it yet.
Pending(t, mode) == {h \in Hooks : /\ hook[h].at = "run"
                                   /\ hook[h].task = t /\ hook[h].mode = mode}

\* A round is used once: by a review, or by a hook that may still run one.
RoundsCover(t, mode) == reviews[t][mode] + Cardinality(Pending(t, mode)) <= Count(t, mode)

\* RoundEvent i granted the next round, within the allowance of that moment.
GrantedAt(t, mode, i) ==
  LET before == Cardinality({j \in Started(t, mode) : j < i})
  IN /\ events[i].round = before + 1
     /\ Under(before, IF mode = "design" THEN 1 ELSE AllowedAt(t, i))

CapInv ==
  /\ CapTypeOK /\ LockHeld
  /\ \A t \in Tasks, mode \in Modes :
       RoundsCover(t, mode) /\ \A i \in Started(t, mode) : GrantedAt(t, mode, i)

-----------------------------------------------------------------------------
(* Helpers                                                                 *)

\* Counts are numbers.
LEMMA CountsAreFinite ==
  ASSUME CapTypeOK, NEW t \in Tasks, NEW mode \in Modes
  PROVE  /\ IsFiniteSet(Started(t, mode)) /\ Count(t, mode) \in Nat
         /\ IsFiniteSet(Pending(t, mode)) /\ Cardinality(Pending(t, mode)) \in Nat
<1>1. Started(t, mode) \in SUBSET (1..Len(events)) /\ Len(events) \in Nat
  BY DEF CapTypeOK, Started, Of
<1>2. IsFiniteSet(1..Len(events)) BY <1>1, FS_Interval
<1>3. IsFiniteSet(Started(t, mode)) BY ONLY <1>1, <1>2, FS_Subset
<1>4. Pending(t, mode) \in SUBSET Hooks BY DEF Pending
<1>5. IsFiniteSet(Pending(t, mode)) BY ONLY <1>4, CapAssumption, FS_Subset
<1> QED BY <1>3, <1>5, FS_CardinalityType DEF Count

\* What an appended event leaves, and what it adds.
LEMMA Appended ==
  ASSUME CapTypeOK, NEW e \in RoundEvent, events' = Append(events, e)
  PROVE  /\ Len(events) \in Nat /\ DOMAIN events = 1..Len(events) /\ events' \in Seq(RoundEvent)
         /\ Len(events') = Len(events) + 1 /\ DOMAIN events' = 1..(Len(events) + 1)
         /\ \A i \in DOMAIN events : events'[i] = events[i]
         /\ events'[Len(events) + 1] = e
BY DEF CapTypeOK, RoundEvent

LEMMA AppendedOf ==
  ASSUME CapTypeOK, NEW e \in RoundEvent, events' = Append(events, e), NEW t, NEW kind
  PROVE  Of(kind, t)' = Of(kind, t) \union (IF e.kind = kind /\ e.task = t
                                            THEN {Len(events) + 1} ELSE {})
BY Appended DEF Of

LEMMA AppendedStarted ==
  ASSUME CapTypeOK, NEW e \in RoundEvent, events' = Append(events, e),
         NEW t \in Tasks, NEW mode \in Modes
  PROVE  Started(t, mode)' =
           Started(t, mode) \union (IF e.kind = "codex_round_started" /\ e.task = t /\ e.mode = mode
                                    THEN {Len(events) + 1} ELSE {})
BY Appended, AppendedOf DEF Started, Of

\* The allowance of a moment does not depend on what follows.
LEMMA AllowanceStays ==
  ASSUME CapTypeOK, NEW e \in RoundEvent, events' = Append(events, e), NEW t \in Tasks,
         NEW n \in Nat, NEW m \in Nat,
         {i \in Of("codex_round_cap_changed", t)' : i <= n}
           = {i \in Of("codex_round_cap_changed", t) : i <= m}
  PROVE  AllowedAt(t, n)' = AllowedAt(t, m)
<1> DEFINE changes == {i \in Of("codex_round_cap_changed", t) : i <= m}
           latest == CHOOSE i \in changes : \A j \in changes : j <= i
<1>1. AllowedAt(t, m) = IF changes = {} THEN DefaultAllowed ELSE events[latest].allowed
  BY DEF AllowedAt
<1>2. AllowedAt(t, n)' = IF changes = {} THEN DefaultAllowed ELSE events'[latest].allowed
  <2> DEFINE then == {i \in Of("codex_round_cap_changed", t)' : i <= n}
  <2>1. AllowedAt(t, n)' = IF then = {} THEN DefaultAllowed
                           ELSE events'[CHOOSE i \in then : \A j \in then : j <= i].allowed
    BY DEF AllowedAt
  <2>2. then = changes OBVIOUS
  <2> HIDE DEF then, changes
  <2> QED BY <2>1, <2>2
<1>3. CASE changes = {} BY <1>1, <1>2, <1>3
<1>4. CASE changes # {}
  <2>1. changes \in SUBSET (1..Len(events)) BY Appended DEF Of
  <2> HIDE DEF changes
  <2>2. \E i \in changes : \A j \in changes : j <= i BY <1>4, <2>1, Appended, LatestExists
  <2>3. latest \in DOMAIN events BY <2>1, <2>2, Appended
  <2> HIDE DEF latest
  <2> QED BY <1>1, <1>2, <2>3, Appended
<1> QED BY <1>3, <1>4

\* An append outside of any transaction, or the one that ends it, keeps what was granted.
LEMMA AppendKeeps ==
  ASSUME CapInv, NEW e \in RoundEvent, events' = Append(events, e),
         NEW t \in Tasks, NEW mode \in Modes, NEW i \in Started(t, mode)
  PROVE  GrantedAt(t, mode, i)'
<1>1. CapTypeOK /\ GrantedAt(t, mode, i) BY DEF CapInv
<1>2. i \in 1..Len(events) /\ i \in Nat /\ events'[i] = events[i] BY <1>1, Appended DEF Started, Of
<1>3. {j \in Started(t, mode)' : j < i} = {j \in Started(t, mode) : j < i}
  BY <1>1, <1>2, Appended, AppendedStarted
<1>4. {j \in Of("codex_round_cap_changed", t)' : j <= i}
        = {j \in Of("codex_round_cap_changed", t) : j <= i}
  BY <1>1, <1>2, Appended, AppendedOf
<1>5. AllowedAt(t, i)' = AllowedAt(t, i) BY <1>1, <1>2, <1>4, AllowanceStays
<1> DEFINE before == Cardinality({j \in Started(t, mode) : j < i})
<1>6. /\ GrantedAt(t, mode, i)
           <=> /\ events[i].round = before + 1
               /\ Under(before, IF mode = "design" THEN 1 ELSE AllowedAt(t, i))
      /\ GrantedAt(t, mode, i)'
           <=> /\ events'[i].round = before + 1
               /\ Under(before, IF mode = "design" THEN 1 ELSE AllowedAt(t, i)')
  BY <1>3 DEF GrantedAt, Under
<1> HIDE DEF before
<1> QED BY <1>1, <1>2, <1>5, <1>6

\* What does not touch the log keeps what was granted.
LEMMA QuietKeeps ==
  ASSUME CapInv, UNCHANGED events
  PROVE  \A t \in Tasks, mode \in Modes :
           /\ Started(t, mode)' = Started(t, mode) /\ Count(t, mode)' = Count(t, mode)
           /\ \A i \in Started(t, mode)' : GrantedAt(t, mode, i)'
<1>1. \A t \in Tasks, mode \in Modes : Started(t, mode)' = Started(t, mode) BY DEF Started, Of
<1> SUFFICES ASSUME NEW t \in Tasks, NEW mode \in Modes, NEW i \in Started(t, mode)
             PROVE  GrantedAt(t, mode, i)'
  BY <1>1 DEF Count
<1>2. GrantedAt(t, mode, i) BY DEF CapInv
<1>3. AllowedAt(t, i)' = AllowedAt(t, i) BY DEF AllowedAt, Of
<1> QED BY <1>1, <1>2, <1>3 DEF GrantedAt, Under

-----------------------------------------------------------------------------
(* The steps                                                               *)

LEMMA CapHoldsAtFirst == CapInit => CapInv
<1> SUFFICES ASSUME CapInit PROVE CapInv OBVIOUS
<1>1. Resting \in HookState BY EventLogAssumption DEF Resting, HookState, Modes
<1>2. CapTypeOK BY <1>1 DEF CapInit, CapTypeOK, HookState, RoundEvent, Nobody
<1>3. LockHeld BY DEF CapInit, LockHeld, Counted, Resting, InTransaction
<1>4. ASSUME NEW t \in Tasks, NEW mode \in Modes
      PROVE  RoundsCover(t, mode) /\ Started(t, mode) = {}
  <2>1. Started(t, mode) = {} BY DEF CapInit, Started, Of
  <2>2. Pending(t, mode) = {} BY DEF CapInit, Pending, Resting
  <2>3. reviews[t][mode] = 0 BY DEF CapInit
  <2> QED BY <2>1, <2>2, <2>3, FS_EmptySet DEF RoundsCover, Count
<1> QED BY <1>2, <1>3, <1>4 DEF CapInv

\* A hook that moves without a word to the log, and neither gets nor runs a round.
LEMMA HookMoves ==
  ASSUME CapInv, NEW h \in Hooks, NEW x \in HookState, hook' = [hook EXCEPT ![h] = x],
         hook[h].at # "run", x.at # "run", UNCHANGED <<events, reviews>>,
         lock' \in Hooks \union {Nobody}, LockHeld'
  PROVE  CapInv'
<1>1. CapTypeOK' BY DEF CapInv, CapTypeOK, HookState
<1>2. ASSUME NEW t \in Tasks, NEW mode \in Modes PROVE RoundsCover(t, mode)'
  <2>1. Pending(t, mode)' = Pending(t, mode) BY DEF Pending, CapInv, CapTypeOK
  <2>2. RoundsCover(t, mode) BY DEF CapInv
  <2> QED BY <2>1, <2>2, QuietKeeps DEF RoundsCover
<1> QED BY <1>1, <1>2, QuietKeeps DEF CapInv

\* Without a word to the log, what a hook counted stays so.
LEMMA QuietLock ==
  ASSUME CapInv, UNCHANGED events, NEW h \in Hooks, NEW x \in HookState, hook' = [hook EXCEPT ![h] = x],
         x.at = "write" => x.used = Count(x.task, x.mode),
         x.at \in InTransaction => lock' = h,
         \A k \in Hooks \ {h} : lock = k => lock' = k
  PROVE  LockHeld'
<1>1. \A k \in Hooks : hook[k] \in HookState /\ hook'[k] = IF k = h THEN x ELSE hook[k]
  BY DEF CapInv, CapTypeOK, HookState
<1>2. \A t \in Tasks, mode \in Modes : Count(t, mode)' = Count(t, mode) BY QuietKeeps
<1> SUFFICES ASSUME NEW k \in Hooks
             PROVE  /\ hook'[k].at \in InTransaction => lock' = k
                    /\ \A t \in Tasks, mode \in Modes : Counted(k, t, mode)'
  BY DEF LockHeld
<1>3. CASE k = h BY <1>1, <1>2, <1>3 DEF Counted
<1>4. CASE k # h
  <2>1. /\ hook[k].at \in InTransaction => lock = k
        /\ \A t \in Tasks, mode \in Modes : Counted(k, t, mode)
    BY DEF CapInv, LockHeld
  <2>2. hook'[k] = hook[k] BY <1>1, <1>4
  <2> QED BY <1>2, <1>4, <2>1, <2>2 DEF Counted
<1> QED BY <1>3, <1>4

LEMMA QuietStepsKeep ==
  ASSUME CapInv, NEW h \in Hooks,
         Call(h) \/ LookUpTask(h) \/ Begin(h) \/ CountRounds(h) \/ Deny(h)
  PROVE  CapInv'
<1>1. hook[h] \in HookState /\ lock \in Hooks \union {Nobody} BY DEF CapInv, CapTypeOK, HookState
<1>2. Resting \in HookState /\ Resting.at = "idle" BY EventLogAssumption DEF Resting, HookState, Modes
<1>3. CASE Call(h)
  <2>1. PICK mode \in Modes, dir \in Dirs :
          hook' = [hook EXCEPT ![h] = [Resting EXCEPT !.at = "lookup", !.dir = dir, !.mode = mode]]
    BY <1>3 DEF Call
  <2> DEFINE x == [Resting EXCEPT !.at = "lookup", !.dir = dir, !.mode = mode]
  <2>2. x \in HookState /\ x.at = "lookup" BY <1>2 DEF HookState
  <2>3. hook[h].at # "run" /\ UNCHANGED <<events, lock, reviews>> BY <1>3 DEF Call
  <2> HIDE DEF x
  <2>4. LockHeld' BY <2>1, <2>2, <2>3, QuietLock DEF InTransaction, x
  <2> QED BY <1>1, <2>1, <2>2, <2>3, <2>4, HookMoves DEF x
<1>4. CASE LookUpTask(h)
  <2>1. hook[h].at # "run" /\ UNCHANGED <<events, lock, reviews>> BY <1>4 DEF LookUpTask
  <2>2. ASSUME NEW t \in TaskForWorkerDir(hook[h].dir) PROVE t \in Tasks
    <3> DEFINE S == Sent(hook[h].dir)
    <3>1. S \in SUBSET (1..Len(events)) /\ Len(events) \in Nat /\ S # {}
      BY <2>2, SMTT(30) DEF Sent, TaskForWorkerDir, CapInv, CapTypeOK
    <3>2. t = events[CHOOSE i \in S : \A j \in S : j <= i].task
      BY <2>2 DEF TaskForWorkerDir
    <3> HIDE DEF S
    <3>3. \E i \in S : \A j \in S : j <= i BY <3>1, LatestExists
    <3>4. PICK k \in S : t = events[k].task BY <3>2, <3>3
    <3>5. events[k] \in RoundEvent BY <3>1, <3>4 DEF CapInv, CapTypeOK, RoundEvent
    <3> QED BY <3>4, <3>5 DEF RoundEvent
  <2>3. PICK x \in HookState : hook' = [hook EXCEPT ![h] = x] /\ x.at \in {"idle", "begin"}
    <3>1. CASE hook' = [hook EXCEPT ![h] = Resting] BY <1>2, <3>1
    <3>2. CASE \E t \in TaskForWorkerDir(hook[h].dir) :
                 hook' = [hook EXCEPT ![h].at = "begin", ![h].task = t, ![h].dir = NoDir]
      <4>1. PICK t \in TaskForWorkerDir(hook[h].dir) :
              hook' = [hook EXCEPT ![h].at = "begin", ![h].task = t, ![h].dir = NoDir]
        BY <3>2
      <4> DEFINE x == [hook[h] EXCEPT !.at = "begin", !.task = t, !.dir = NoDir]
      <4>2. t \in Tasks BY <2>2, <4>1
      <4>3. x \in HookState /\ x.at = "begin" BY <1>1, <4>2 DEF HookState
      <4>4. hook' = [hook EXCEPT ![h] = x] BY <1>1, <4>1 DEF CapInv, CapTypeOK
      <4> QED BY <4>3, <4>4
    <3> QED BY <1>4, <3>1, <3>2 DEF LookUpTask
  <2>4. LockHeld' BY <2>1, <2>3, QuietLock DEF InTransaction
  <2> QED BY <1>1, <2>1, <2>3, <2>4, HookMoves
<1>5. CASE Begin(h)
  <2> DEFINE x == [hook[h] EXCEPT !.at = "count"]
  <2>1. /\ x \in HookState /\ x.at = "count" /\ hook' = [hook EXCEPT ![h] = x] /\ hook[h].at # "run"
        /\ lock = Nobody /\ lock' = h /\ UNCHANGED <<events, reviews>>
    BY <1>1, <1>5 DEF Begin, HookState, CapInv, CapTypeOK
  <2> HIDE DEF x
  <2>2. LockHeld' BY <2>1, QuietLock, CapAssumption DEF InTransaction
  <2> QED BY <2>1, <2>2, HookMoves
<1>6. CASE CountRounds(h)
  <2> DEFINE n == Count(hook[h].task, hook[h].mode)
             x == [hook[h] EXCEPT !.at = "write", !.used = n]
  <2>1. hook[h].task \in Tasks /\ hook[h].mode \in Modes BY <1>1 DEF HookState
  <2>2. n \in Nat BY <2>1, CountsAreFinite DEF CapInv
  <2>3. /\ hook[h].at = "count" /\ UNCHANGED <<events, lock, reviews>>
        /\ hook' = [hook EXCEPT ![h].at = "write", ![h].used = n]
    BY <1>6 DEF CountRounds
  <2> HIDE DEF n
  <2>4. /\ x \in HookState /\ x.at = "write" /\ x.used = n /\ x.task = hook[h].task
        /\ x.mode = hook[h].mode /\ hook' = [hook EXCEPT ![h] = x]
    BY <1>1, <2>2, <2>3 DEF HookState, CapInv, CapTypeOK
  <2>5. lock = h BY <2>3 DEF CapInv, LockHeld, InTransaction
  <2> HIDE DEF x
  <2>6. LockHeld' BY <2>3, <2>4, <2>5, QuietLock DEF n
  <2> QED BY <1>1, <2>3, <2>4, <2>6, HookMoves
<1>7. CASE Deny(h)
  <2>1. /\ hook' = [hook EXCEPT ![h] = Resting] /\ hook[h].at # "run"
        /\ UNCHANGED <<events, reviews>> /\ lock' = IF lock = h THEN Nobody ELSE lock
    BY <1>7 DEF Deny
  <2>2. LockHeld' BY <1>2, <2>1, QuietLock DEF InTransaction
  <2> QED BY <1>1, <1>2, <2>1, <2>2, HookMoves
<1> QED BY <1>3, <1>4, <1>5, <1>6, <1>7

\* The secretary's words count only outside of a transaction, and are no rounds.
LEMMA SecretaryKeeps ==
  ASSUME CapInv, NEW t \in Tasks, SetAllowed(t) \/ Send(t)
  PROVE  CapInv'
<1>1. PICK e \in RoundEvent : /\ events' = Append(events, e)
                         /\ e.kind \in {"delegate_sent", "codex_round_cap_changed"}
  <2>1. CASE SetAllowed(t)
    <3>1. PICK n \in Allowances :
            events' = Append(events, [kind |-> "codex_round_cap_changed", task |-> t,
                                      allowed |-> n])
      BY <2>1 DEF SetAllowed
    <3> QED BY <3>1 DEF RoundEvent
  <2>2. CASE Send(t)
    <3>1. PICK dir \in Dirs : events' = Append(events, DelegateSent(t, dir)) BY <2>2 DEF Send
    <3> QED BY <3>1 DEF RoundEvent, DelegateSent
  <2> QED BY <2>1, <2>2
<1>2. UNCHANGED <<hook, lock, reviews>> /\ CapTypeOK BY DEF SetAllowed, Send, CapInv
<1>3. \A u \in Tasks, mode \in Modes : /\ Started(u, mode)' = Started(u, mode)
                                      /\ Count(u, mode)' = Count(u, mode)
  <2> SUFFICES ASSUME NEW u \in Tasks, NEW mode \in Modes
               PROVE  Started(u, mode)' = Started(u, mode)
    BY DEF Count
  <2>1. e.kind # "codex_round_started" BY <1>1
  <2>2. Started(u, mode)' = Started(u, mode) \union {} BY <1>1, <1>2, <2>1, AppendedStarted
  <2> QED BY <2>2
<1>4. CapTypeOK' BY <1>1, <1>2, Appended DEF CapTypeOK, RoundEvent
<1>5. LockHeld' BY <1>2, <1>3 DEF CapInv, LockHeld, Counted
<1>6. \A u \in Tasks, mode \in Modes : RoundsCover(u, mode)'
  BY <1>2, <1>3 DEF CapInv, RoundsCover, Pending
<1>7. \A u \in Tasks, mode \in Modes : \A i \in Started(u, mode)' : GrantedAt(u, mode, i)'
  BY <1>1, <1>3, AppendKeeps
<1> QED BY <1>4, <1>5, <1>6, <1>7 DEF CapInv

LEMMA RunKeeps ==
  ASSUME CapInv, NEW h \in Hooks, RunGate(h)
  PROVE  CapInv'
<1> DEFINE u == hook[h].task
           m == hook[h].mode
<1>1. /\ CapTypeOK /\ hook[h] \in HookState /\ hook[h].at = "run" /\ u \in Tasks /\ m \in Modes
      /\ hook' = [hook EXCEPT ![h] = Resting] /\ UNCHANGED <<runs, events, lock>>
  BY DEF RunGate, CapInv, CapTypeOK, HookState
<1>2. Resting \in HookState /\ Resting.at = "idle" BY EventLogAssumption DEF Resting, HookState, Modes
<1>3. PICK n \in {reviews[u][m], reviews[u][m] + 1} : reviews' = [reviews EXCEPT ![u][m] = n]
  BY <1>1 DEF RunGate, CapTypeOK
<1>4. reviews[u][m] \in Nat /\ n \in Nat BY <1>1, <1>3 DEF CapTypeOK
<1>5. reviews' \in [Tasks -> [Modes -> Nat]] BY <1>1, <1>3, <1>4 DEF CapTypeOK
<1>6. CapTypeOK' BY <1>1, <1>2, <1>5 DEF CapTypeOK, HookState
<1>7. LockHeld' BY <1>1, <1>2, QuietLock DEF InTransaction
<1>8. ASSUME NEW t \in Tasks, NEW mode \in Modes PROVE RoundsCover(t, mode)'
  <2>1. RoundsCover(t, mode) /\ Count(t, mode)' = Count(t, mode) BY <1>1, QuietKeeps DEF CapInv
  <2>2. /\ IsFiniteSet(Pending(t, mode)) /\ Cardinality(Pending(t, mode)) \in Nat
        /\ Count(t, mode) \in Nat /\ reviews[t][mode] \in Nat
    BY <1>1, CountsAreFinite DEF CapTypeOK
  <2>3. Pending(t, mode)' = Pending(t, mode) \ {h}
    BY <1>1, <1>2 DEF Pending, CapTypeOK
  <2>4. CASE t = u /\ mode = m
    <3>1. h \in Pending(t, mode) BY <1>1, <2>4 DEF Pending
    <3>2. Cardinality(Pending(t, mode)') = Cardinality(Pending(t, mode)) - 1
      BY <2>2, <2>3, <3>1, FS_RemoveElement
    <3>3. reviews'[t][mode] = n BY <1>1, <1>3, <2>4 DEF CapTypeOK
    <3> QED BY <1>3, <2>1, <2>2, <2>4, <3>2, <3>3 DEF RoundsCover
  <2>5. CASE ~(t = u /\ mode = m)
    <3>1. h \notin Pending(t, mode) BY <2>5 DEF Pending
    <3>2. Pending(t, mode)' = Pending(t, mode) BY <2>3, <3>1
    <3>3. reviews'[t][mode] = reviews[t][mode] BY <1>1, <1>3, <2>5 DEF CapTypeOK
    <3> QED BY <2>1, <3>2, <3>3 DEF RoundsCover
  <2> QED BY <2>4, <2>5
<1> QED BY <1>1, <1>6, <1>7, <1>8, QuietKeeps DEF CapInv

\* The round that a hook is granted is the next one, and within the allowance: nobody has
\* written since it counted.
LEMMA GrantKeeps ==
  ASSUME CapInv, NEW h \in Hooks, Grant(h)
  PROVE  CapInv'
<1> DEFINE u == hook[h].task
           m == hook[h].mode
           used == hook[h].used
           ok == Under(used, Allowance(u, m))
           e == IF ok THEN [kind |-> "codex_round_started", task |-> u, mode |-> m,
                            round |-> used + 1]
                ELSE [kind |-> "codex_round_denied", task |-> u, mode |-> m, used |-> used]
           x == IF ok THEN [hook[h] EXCEPT !.at = "run", !.used = 0] ELSE Resting
<1>1. /\ CapTypeOK /\ hook[h] \in HookState /\ hook[h].at = "write" /\ u \in Tasks /\ m \in Modes
      /\ used \in Nat /\ lock = h /\ lock' = Nobody /\ UNCHANGED <<runs, reviews>>
  BY DEF Grant, CapInv, CapTypeOK, HookState, LockHeld, InTransaction
<1>2. used = Count(u, m) BY <1>1 DEF CapInv, LockHeld, Counted
<1>3. Resting \in HookState /\ Resting.at = "idle" BY EventLogAssumption DEF Resting, HookState, Modes
<1>4. events' = Append(events, e) BY DEF Grant
<1>5. hook' = [hook EXCEPT ![h] = x] BY <1>1 DEF Grant, CapTypeOK
<1>6. e \in RoundEvent BY <1>1 DEF RoundEvent
<1>7. x \in HookState /\ x.at = (IF ok THEN "run" ELSE "idle") /\ (ok => x.task = u /\ x.mode = m)
  BY <1>1, <1>3 DEF HookState
<1>8. (e.kind = "codex_round_started" <=> ok) /\ e.task = u /\ e.mode = m
      /\ (ok => e.round = used + 1) /\ e.kind # "codex_round_cap_changed"
  OBVIOUS
<1> HIDE DEF e, x, ok
<1>9. CapTypeOK' BY <1>1, <1>4, <1>5, <1>6, <1>7, Appended DEF CapTypeOK, RoundEvent, HookState
<1>10. \A k \in Hooks : hook'[k] = IF k = h THEN x ELSE hook[k] BY <1>1, <1>5 DEF CapTypeOK
<1>11. LockHeld'
  <2> SUFFICES ASSUME NEW k \in Hooks PROVE hook'[k].at \notin InTransaction
    BY DEF LockHeld, Counted, InTransaction
  <2>1. hook[k].at \in InTransaction => lock = k BY DEF CapInv, LockHeld
  <2> QED BY <1>1, <1>7, <1>10, <2>1 DEF InTransaction
<1>12. ASSUME NEW t \in Tasks, NEW mode \in Modes
       PROVE  RoundsCover(t, mode)' /\ \A i \in Started(t, mode)' : GrantedAt(t, mode, i)'
  <2>1. RoundsCover(t, mode) BY DEF CapInv
  <2>2. /\ IsFiniteSet(Pending(t, mode)) /\ Cardinality(Pending(t, mode)) \in Nat
        /\ IsFiniteSet(Started(t, mode)) /\ Count(t, mode) \in Nat /\ reviews[t][mode] \in Nat
    BY <1>1, CountsAreFinite DEF CapTypeOK
  <2>3. h \notin Pending(t, mode) BY <1>1 DEF Pending
  <2>4. \A i \in Started(t, mode) : GrantedAt(t, mode, i)' BY <1>4, <1>6, AppendKeeps
  <2>5. CASE ok /\ t = u /\ mode = m
    <3>1. Pending(t, mode)' = Pending(t, mode) \union {h}
      BY <1>7, <1>10, <2>5 DEF Pending
    <3>2. Cardinality(Pending(t, mode)') = Cardinality(Pending(t, mode)) + 1
      BY <2>2, <2>3, <3>1, FS_AddElement
    <3>3. PICK n \in Nat : n = Len(events) + 1 /\ n \notin Started(t, mode)
      BY <1>1, <1>4, <1>6, Appended DEF Started, Of
    <3>4. Started(t, mode)' = Started(t, mode) \union {n}
      BY <1>1, <1>4, <1>6, <1>8, <2>5, <3>3, AppendedStarted
    <3>5. Count(t, mode)' = Count(t, mode) + 1
      BY <2>2, <3>3, <3>4, FS_AddElement DEF Count
    <3>6. RoundsCover(t, mode)'
      <4>1. reviews'[t][mode] = reviews[t][mode] BY <1>1
      <4> QED BY <2>1, <2>2, <3>2, <3>5, <4>1 DEF RoundsCover
    <3>7. GrantedAt(t, mode, n)'
      <4>1. {j \in Started(t, mode)' : j < n} = Started(t, mode)
        BY <1>1, <1>4, <1>6, <3>3, <3>4, Appended DEF Started, Of
      <4>2. PICK k \in Nat : k = Len(events) BY <1>1 DEF CapTypeOK
      <4>3. {i \in Of("codex_round_cap_changed", t)' : i <= n}
              = {i \in Of("codex_round_cap_changed", t) : i <= k}
        BY <1>1, <1>4, <1>6, <1>8, <3>3, <4>2, Appended, AppendedOf DEF Of
      <4>4. AllowedAt(t, n)' = AllowedAt(t, k) BY <1>1, <1>4, <1>6, <4>3, AllowanceStays
      <4>5. Under(Count(t, mode), IF mode = "design" THEN 1 ELSE AllowedAt(t, n)')
        BY <1>2, <2>5, <4>2, <4>4 DEF ok, Allowance
      <4>6. events'[n].round = Count(t, mode) + 1
        BY <1>1, <1>2, <1>4, <1>6, <1>8, <2>5, <3>3, Appended
      <4> DEFINE before == Cardinality({j \in Started(t, mode) : j < n})
      <4>7. before' = Count(t, mode) BY <4>1 DEF Count
      <4>8. GrantedAt(t, mode, n)'
              <=> /\ events'[n].round = before' + 1
                  /\ Under(before', IF mode = "design" THEN 1 ELSE AllowedAt(t, n)')
        BY DEF GrantedAt, Under
      <4> HIDE DEF before
      <4> QED BY <4>5, <4>6, <4>7, <4>8
    <3> QED BY <2>4, <3>4, <3>6, <3>7
  <2>6. CASE ~(ok /\ t = u /\ mode = m)
    <3>1. Pending(t, mode)' = Pending(t, mode) BY <1>7, <1>10, <2>3, <2>6 DEF Pending
    <3>2. Started(t, mode)' = Started(t, mode)
      <4>1. ~(e.kind = "codex_round_started" /\ e.task = t /\ e.mode = mode) BY <1>8, <2>6
      <4>2. Started(t, mode)' = Started(t, mode) \union {}
        BY <1>1, <1>4, <1>6, <4>1, AppendedStarted, ZenonT(30)
      <4> QED BY <4>2
    <3> QED BY <1>1, <2>1, <2>4, <3>1, <3>2 DEF RoundsCover, Count
  <2> QED BY <2>5, <2>6
<1> QED BY <1>9, <1>11, <1>12 DEF CapInv

-----------------------------------------------------------------------------
LEMMA CapInvariant == CapSpec => []CapInv
<1>1. CapInv /\ [CapNext]_capVars => CapInv'
  <2> SUFFICES ASSUME CapInv, [CapNext]_capVars PROVE CapInv' OBVIOUS
  <2>1. CASE UNCHANGED capVars
    <3>1. UNCHANGED events /\ UNCHANGED <<hook, lock, reviews>> BY <2>1 DEF capVars
    <3>2. CapTypeOK' BY <3>1 DEF CapInv, CapTypeOK
    <3>3. LockHeld' BY <3>1, QuietKeeps DEF CapInv, LockHeld, Counted
    <3>4. \A t \in Tasks, mode \in Modes : RoundsCover(t, mode)'
      BY <3>1, QuietKeeps DEF CapInv, RoundsCover, Pending
    <3> QED BY <3>1, <3>2, <3>3, <3>4, QuietKeeps DEF CapInv
  <2> QED BY <2>1, SecretaryKeeps, QuietStepsKeep, GrantKeeps, RunKeeps DEF CapNext
<1> QED BY <1>1, CapHoldsAtFirst, PTL DEF CapSpec

\* However many hooks run at once, and whatever the secretary sets in between, a task is not
\* reviewed more often than rounds were granted, and no round goes over the allowance of
\* that moment (tools/codex_round_cap.py, one write transaction per grant).
THEOREM ReviewsAreGranted == CapSpec => []ReviewsWithinAllowance
<1>1. CapInv => ReviewsWithinAllowance
  <2> SUFFICES ASSUME CapInv, NEW t \in Tasks, NEW mode \in Modes
               PROVE  /\ reviews[t][mode] <= Count(t, mode)
                      /\ \A i \in Started(t, mode) : GrantedAt(t, mode, i)
    BY DEF ReviewsWithinAllowance, GrantedAt
  <2>1. reviews[t][mode] \in Nat BY DEF CapInv, CapTypeOK
  <2> QED BY <2>1, CountsAreFinite DEF CapInv, RoundsCover
<1> QED BY <1>1, CapInvariant, PTL


-----------------------------------------------------------------------------
(* The acceptance gate                                                     *)

Shas == [fork : 0..1, commits : Seq(Commits)]
Jobs == {"none", "failure", "success"}
Workflows == [sha : Shas, base : 0..1, conclusion : Jobs]
Reading == {"test_runs", "test_jobs", "head_runs", "head_jobs"}
Checks == [pc : Reading \union {"idle", "done"}, head : Shas,
           picked : [{"test", "head"} -> Nat], job : Jobs,
           result : {"none", "passed", "rejected", "no-manifest"}]

AcceptTyped ==
  /\ base \in 0..1 /\ branch \in Shas /\ workflows \in Seq(Workflows)
  /\ pin \in {"none"} \union Tests /\ check \in Checks

\* CI says of a commit what its tests do on the base it was merged with.
RunsAreTrue ==
  \A n \in DOMAIN workflows :
    workflows[n].conclusion \in {"none", Outcome(workflows[n].sha, workflows[n].base)}

\* A head that a gate takes: one declaration, ahead of everything, as pinned, and the
\* protected entries as it left them.
Taken(head) ==
  /\ Declaring(head) = {1} /\ Protected(head) /\ pin \in {"none", Digest(head)}

\* What a gate that still reads has found: a head it takes, a run of each commit, and a
\* failure that CI does not take back.
RunsFound ==
  /\ check.pc \in Reading => Taken(check.head)
  /\ check.pc \in {"test_jobs", "head_runs", "head_jobs"}
       => check.picked["test"] \in DOMAIN workflows
  /\ check.pc = "head_jobs"
       => /\ check.picked["head"] \in DOMAIN workflows
          /\ workflows[check.picked["head"]].sha = check.head
  /\ check.pc \in {"head_runs", "head_jobs"} /\ check.job = "failure"
       => workflows[check.picked["test"]].conclusion = "failure"

AcceptInv == AcceptTyped /\ RunsAreTrue /\ RunsFound /\ PassedMeansFixed

-----------------------------------------------------------------------------
(* Helpers                                                                 *)

\* The greatest of some numbers is one of them.
LEMMA MaxIsOne ==
  ASSUME NEW n \in Nat, NEW S \in SUBSET (1..n), S # {}
  PROVE  Max(S) \in S
<1>1. PICK k \in S : \A m \in S : m <= k BY LatestExists
<1>2. \A m \in S : k >= m
  <2> SUFFICES ASSUME NEW m \in S PROVE k >= m OBVIOUS
  <2>1. m <= k /\ m \in Nat /\ k \in Nat BY <1>1
  <2> QED BY <2>1
<1> QED BY <1>2 DEF Max

\* One declaration, at the first commit.
LEMMA OneManifest ==
  ASSUME NEW head \in Shas
  PROVE  /\ Cardinality(Declaring(head)) = 1 => Digest(head) \in Tests
         /\ Cardinality(Declaring(head)) = 1 /\ First(head) => Declaring(head) = {1}
         /\ Declaring(head) = {1} => /\ ManifestAt(head) = 1 /\ 1 \in DOMAIN head.commits
                                     /\ Digest(head) \in Tests
<1>1. head.commits \in Seq(Commits) BY DEF Shas
<1>2. IsFiniteSet(Declaring(head))
  <2>1. Declaring(head) \in SUBSET (1..Len(head.commits)) BY <1>1 DEF Declaring
  <2> QED BY <1>1, <2>1, FS_Interval, FS_Subset
<1>3. ASSUME Cardinality(Declaring(head)) = 1 PROVE Digest(head) \in Tests
  <2>1. PICK x : Declaring(head) = {x} BY <1>2, <1>3, FS_Singleton
  <2>2. ManifestAt(head) \in Declaring(head) BY <2>1 DEF ManifestAt
  <2> QED BY <2>2 DEF Declaring, Digest
<1>4. ASSUME Cardinality(Declaring(head)) = 1, First(head) PROVE Declaring(head) = {1}
  <2>1. PICK x : Declaring(head) = {x} BY <1>2, <1>4, FS_Singleton
  <2> QED BY <1>4, <2>1 DEF First, ManifestAt
<1>5. ASSUME Declaring(head) = {1}
      PROVE  ManifestAt(head) = 1 /\ 1 \in DOMAIN head.commits /\ Digest(head) \in Tests
  <2>1. ManifestAt(head) = 1 BY <1>5 DEF ManifestAt
  <2> QED BY <1>5, <2>1 DEF Digest, Declaring
<1> QED BY <1>3, <1>4, <1>5

\* The actions on GitHub leave the gate and its pin alone.
LEMMA GateUntouched ==
  ASSUME AcceptInv, AcceptTyped', RunsAreTrue', UNCHANGED <<pin, check>>,
         \A n \in DOMAIN workflows :
           /\ n \in DOMAIN workflows' /\ workflows'[n].sha = workflows[n].sha
           /\ workflows[n].conclusion = "failure" => workflows'[n].conclusion = "failure"
  PROVE  AcceptInv'
<1>1. RunsFound' /\ PassedMeansFixed'
  BY DEF AcceptInv, AcceptTyped, RunsFound, Taken, PassedMeansFixed, Checks, Reading
<1> QED BY <1>1 DEF AcceptInv

\* A gate that ends rejects, or passes what it took for its reasons.
LEMMA GateEnds ==
  ASSUME AcceptInv, NEW result \in {"passed", "rejected", "no-manifest"},
         NEW digest \in {"none"} \union Tests, NEW g \in Checks, Ends(result, digest, g),
         UNCHANGED <<base, branch, workflows>>,
         result = "passed" =>
           /\ Taken(g.head) /\ digest = Digest(g.head)
           /\ \E k \in DOMAIN g.head.commits : g.head.commits[k] = "fix"
  PROVE  AcceptInv'
<1>1. NoCheck \in Checks
  BY DEF NoCheck, Checks, Shas, Jobs
<1>2. check'.pc = "done" /\ check' \in Checks /\ pin' \in {"none"} \union Tests
  BY <1>1 DEF Ends, AcceptInv, AcceptTyped, Checks, NoCheck
<1>3. check'.result = "passed" =>
        result = "passed" /\ check'.head = g.head /\ pin' = IF pin = "none" THEN digest ELSE pin
  BY <1>1 DEF Ends, Checks, NoCheck
<1>4. PassedMeansFixed' BY <1>3 DEF PassedMeansFixed, Taken
<1>5. AcceptTyped' /\ RunsAreTrue' /\ RunsFound'
  BY <1>2 DEF AcceptInv, AcceptTyped, RunsAreTrue, RunsFound, Reading
<1> QED BY <1>4, <1>5 DEF AcceptInv

-----------------------------------------------------------------------------
(* The steps                                                               *)

LEMMA AcceptHoldsAtFirst == AcceptanceInit => AcceptInv
  BY DEF AcceptanceInit, AcceptInv, AcceptTyped, RunsAreTrue, RunsFound, PassedMeansFixed, NoCheck, Checks,
         Shas, Jobs, Reading

LEMMA GitHubKeeps ==
  ASSUME AcceptInv,
         Push \/ BaseMoves \/ \E n \in DOMAIN workflows : RunCompletes(n)
  PROVE  AcceptInv'
<1>1. CASE Push
  <2>1. branch' \in Shas
    BY <1>1, GateAssumption DEF Push, AcceptInv, AcceptTyped, Shas
  <2>2. [sha |-> branch', base |-> base, conclusion |-> "none"] \in Workflows
    BY <2>1 DEF AcceptInv, AcceptTyped, Workflows, Jobs
  <2>3. /\ workflows' \in Seq(Workflows)
        /\ DOMAIN workflows' = 1..(Len(workflows) + 1)
        /\ DOMAIN workflows = 1..Len(workflows) /\ Len(workflows) \in Nat
        /\ \A n \in DOMAIN workflows : workflows'[n] = workflows[n]
        /\ workflows'[Len(workflows) + 1].conclusion = "none"
    BY <1>1, <2>2 DEF Push, AcceptInv, AcceptTyped
  <2>4. AcceptTyped' BY <1>1, <2>1, <2>3 DEF Push, AcceptInv, AcceptTyped
  <2>5. RunsAreTrue'
    <3> SUFFICES ASSUME NEW n \in DOMAIN workflows'
                 PROVE  workflows'[n].conclusion
                          \in {"none", Outcome(workflows'[n].sha, workflows'[n].base)}
      BY DEF RunsAreTrue, Outcome
    <3>1. CASE n \in DOMAIN workflows BY <2>3, <3>1 DEF AcceptInv, RunsAreTrue, Outcome
    <3>2. CASE n = Len(workflows) + 1 BY <2>3, <3>2
    <3> QED BY <2>3, <3>1, <3>2
  <2> QED BY <1>1, <2>3, <2>4, <2>5, GateUntouched DEF Push
<1>2. CASE BaseMoves
  <2>1. AcceptTyped' /\ RunsAreTrue'
    BY <1>2 DEF BaseMoves, AcceptInv, AcceptTyped, RunsAreTrue, Outcome
  <2> QED BY <1>2, <2>1, GateUntouched DEF BaseMoves
<1>3. CASE \E n \in DOMAIN workflows : RunCompletes(n)
  <2>1. PICK n \in DOMAIN workflows : RunCompletes(n) BY <1>3
  <2> DEFINE said == Outcome(workflows[n].sha, workflows[n].base)
  <2>2. said \in Jobs BY DEF Outcome, Jobs
  <2>3. workflows \in Seq(Workflows) /\ workflows[n] \in Workflows
    BY <2>1 DEF AcceptInv, AcceptTyped
  <2>4. workflows' = [workflows EXCEPT ![n].conclusion = said] BY <2>1 DEF RunCompletes
  <2> HIDE DEF said
  <2>5. /\ workflows' \in Seq(Workflows) /\ DOMAIN workflows' = DOMAIN workflows
        /\ workflows'[n] = [workflows[n] EXCEPT !.conclusion = said]
        /\ \A m \in DOMAIN workflows \ {n} : workflows'[m] = workflows[m]
    BY <2>1, <2>2, <2>3, <2>4 DEF Workflows
  <2>6. /\ workflows'[n].sha = workflows[n].sha /\ workflows'[n].base = workflows[n].base
        /\ workflows'[n].conclusion = said
    BY <2>3, <2>5 DEF Workflows
  <2>7. AcceptTyped' BY <2>1, <2>5 DEF RunCompletes, AcceptInv, AcceptTyped
  <2>8. RunsAreTrue'
    <3> SUFFICES ASSUME NEW m \in DOMAIN workflows
                 PROVE  workflows'[m].conclusion
                          \in {"none", Outcome(workflows'[m].sha, workflows'[m].base)}
      BY <2>5 DEF RunsAreTrue, Outcome
    <3>1. CASE m = n BY <2>6, <3>1 DEF said, Outcome
    <3>2. CASE m # n BY <2>5, <3>2 DEF AcceptInv, RunsAreTrue, Outcome
    <3> QED BY <3>1, <3>2
  <2>9. workflows[n].conclusion = "none" BY <2>1 DEF RunCompletes
  <2>10. UNCHANGED <<pin, check>> BY <2>1 DEF RunCompletes
  <2>11. \A m \in DOMAIN workflows :
           /\ m \in DOMAIN workflows' /\ workflows'[m].sha = workflows[m].sha
           /\ workflows[m].conclusion = "failure" => workflows'[m].conclusion = "failure"
    BY <2>5, <2>6, <2>9
  <2> QED BY <2>7, <2>8, <2>10, <2>11, GateUntouched
<1> QED BY <1>1, <1>2, <1>3

LEMMA StartKeeps ==
  ASSUME AcceptInv, StartCheck
  PROVE  AcceptInv'
<1> DEFINE g == [NoCheck EXCEPT !.pc = "test_runs", !.head = branch]
<1>1. branch \in Shas /\ g \in Checks /\ g.head = branch /\ g.pc = "test_runs"
      /\ g.result = "none" /\ UNCHANGED <<base, branch, workflows>>
  BY DEF StartCheck, NoCheck, Checks, Shas, Jobs, Reading, AcceptInv, AcceptTyped
<1>2. CASE Cardinality(Declaring(branch)) # 1
  <2>1. PICK result \in {"no-manifest", "rejected"} : Ends(result, "none", g)
    BY <1>2 DEF StartCheck
  <2> QED BY <1>1, <2>1, GateEnds
<1>3. CASE Cardinality(Declaring(branch)) = 1 /\ check' = g /\ UNCHANGED pin
           /\ pin \in {"none", Digest(branch)} /\ Protected(branch) /\ First(branch)
  <2>1. Declaring(branch) = {1} BY <1>1, <1>3, OneManifest
  <2>2. Taken(branch) BY <1>3, <2>1 DEF Taken
  <2>3. AcceptTyped' /\ RunsAreTrue'
    BY <1>1, <1>3 DEF AcceptInv, AcceptTyped, RunsAreTrue, Outcome
  <2>4. RunsFound' /\ PassedMeansFixed'
    BY <1>1, <1>3, <2>2 DEF RunsFound, Taken, PassedMeansFixed
  <2> QED BY <2>3, <2>4 DEF AcceptInv
<1>4. CASE Cardinality(Declaring(branch)) = 1 /\ Ends("rejected", Digest(branch), g)
  <2>1. Digest(branch) \in Tests BY <1>1, <1>4, OneManifest
  <2> QED BY <1>1, <1>4, <2>1, GateEnds
<1> QED BY <1>2, <1>3, <1>4 DEF StartCheck

LEMMA PrRunsKeep ==
  ASSUME AcceptInv,
         PrRuns("test", "test_runs", "test_jobs") \/ PrRuns("head", "head_runs", "head_jobs")
  PROVE  AcceptInv'
<1>1. /\ check \in Checks /\ workflows \in Seq(Workflows) /\ DOMAIN workflows = 1..Len(workflows)
      /\ Len(workflows) \in Nat /\ UNCHANGED <<base, branch, workflows>>
  BY DEF PrRuns, AcceptInv, AcceptTyped
<1>2. check.head \in Shas /\ Taken(check.head) /\ check.pc \in Reading
  BY DEF PrRuns, AcceptInv, RunsFound, AcceptTyped, Reading, Checks
<1>3. Digest(check.head) \in Tests BY <1>2, OneManifest DEF Taken
<1> DEFINE RunsOf(at) == {n \in DOMAIN workflows : workflows[n].sha = Sha(at)}
<1>4. ASSUME NEW at \in {"test", "head"}, RunsOf(at) # {} PROVE Max(RunsOf(at)) \in RunsOf(at)
  <2>1. RunsOf(at) \in SUBSET (1..Len(workflows)) BY <1>1
  <2> HIDE DEF RunsOf
  <2> QED BY <1>1, <1>4, <2>1, MaxIsOne
<1>5. CASE Ends("rejected", Digest(check.head), check)
  BY <1>1, <1>3, <1>5, GateEnds
<1>6. CASE /\ check.pc = "test_runs" /\ RunsOf("test") # {} /\ UNCHANGED pin
           /\ check' = [check EXCEPT !.pc = "test_jobs", !.picked["test"] = Max(RunsOf("test"))]
  <2>1. Max(RunsOf("test")) \in RunsOf("test") BY <1>4, <1>6
  <2>2. Max(RunsOf("test")) \in DOMAIN workflows /\ Max(RunsOf("test")) \in Nat BY <1>1, <2>1
  <2> HIDE DEF RunsOf
  <2>3. /\ check' \in Checks /\ check'.pc = "test_jobs" /\ check'.head = check.head
        /\ check'.picked["test"] \in DOMAIN workflows /\ check'.result = check.result
    BY <1>1, <1>6, <2>2 DEF Checks, Reading
  <2>4. AcceptTyped' /\ RunsAreTrue' /\ RunsFound' /\ PassedMeansFixed'
    BY <1>1, <1>2, <1>6, <2>3 DEF AcceptInv, AcceptTyped, RunsAreTrue, RunsFound, Taken, PassedMeansFixed,
                                  Outcome
  <2> QED BY <2>4 DEF AcceptInv
<1>7. CASE /\ check.pc = "head_runs" /\ RunsOf("head") # {} /\ UNCHANGED pin
           /\ check' = [check EXCEPT !.pc = "head_jobs", !.picked["head"] = Max(RunsOf("head"))]
  <2>1. Max(RunsOf("head")) \in RunsOf("head") BY <1>4, <1>7
  <2>2. /\ Max(RunsOf("head")) \in DOMAIN workflows /\ Max(RunsOf("head")) \in Nat
        /\ workflows[Max(RunsOf("head"))].sha = check.head
    BY <1>1, <2>1 DEF Sha
  <2> HIDE DEF RunsOf
  <2>3. /\ check' \in Checks /\ check'.pc = "head_jobs" /\ check'.head = check.head
        /\ check'.picked["head"] = Max(RunsOf("head")) /\ check'.picked["test"] = check.picked["test"]
        /\ check'.result = check.result /\ check'.job = check.job
    BY <1>1, <1>7, <2>2 DEF Checks, Reading
  <2>4. AcceptTyped' /\ RunsAreTrue' /\ RunsFound' /\ PassedMeansFixed'
    BY <1>1, <1>2, <1>7, <2>2, <2>3
    DEF AcceptInv, AcceptTyped, RunsAreTrue, RunsFound, Taken, PassedMeansFixed, Outcome
  <2> QED BY <2>4 DEF AcceptInv
<1> QED BY <1>5, <1>6, <1>7 DEF PrRuns

LEMMA TestJobKeeps ==
  ASSUME AcceptInv, CheckRunsAtTest
  PROVE  AcceptInv'
<1>1. /\ check \in Checks /\ Taken(check.head) /\ check.picked["test"] \in DOMAIN workflows
      /\ workflows \in Seq(Workflows) /\ UNCHANGED <<base, branch, workflows, pin>>
  BY DEF CheckRunsAtTest, AcceptInv, AcceptTyped, RunsFound, Reading
<1>2. JobAt("test") \in Jobs /\ JobAt("test") = workflows[check.picked["test"]].conclusion
  <2>1. workflows[check.picked["test"]] \in Workflows BY <1>1
  <2> QED BY <2>1 DEF JobAt, Workflows
<1>3. /\ check' \in Checks /\ check'.pc = "head_runs" /\ check'.head = check.head
      /\ check'.picked = check.picked /\ check'.result = check.result
      /\ check'.job = workflows[check.picked["test"]].conclusion
  BY <1>1, <1>2 DEF CheckRunsAtTest, Checks, Reading
<1> QED
  BY <1>1, <1>3 DEF AcceptInv, AcceptTyped, RunsAreTrue, RunsFound, Taken, PassedMeansFixed, Outcome

\* The comparison: the same base has the bug, so what made the head pass is in the head.
LEMMA HeadJobKeeps ==
  ASSUME AcceptInv, CheckRunsAtHead
  PROVE  AcceptInv'
<1> DEFINE head == check.head
           t == check.picked["test"]
           h == check.picked["head"]
           good == /\ check.job = "failure" /\ JobAt("head") = "success"
                   /\ workflows[t].base = workflows[h].base
<1>1. /\ check \in Checks /\ head \in Shas /\ Taken(head) /\ UNCHANGED <<base, branch, workflows>>
      /\ {t, h} \subseteq DOMAIN workflows /\ workflows[h].sha = head
      /\ check.job = "failure" => workflows[t].conclusion = "failure"
      /\ \A n \in DOMAIN workflows :
           workflows[n].conclusion \in {"none", Outcome(workflows[n].sha, workflows[n].base)}
  BY DEF CheckRunsAtHead, AcceptInv, AcceptTyped, RunsFound, Reading, Checks, RunsAreTrue
<1>2. Digest(head) \in Tests /\ 1 \in DOMAIN head.commits /\ ManifestAt(head) = 1
  BY <1>1, OneManifest DEF Taken
<1>3. ASSUME good PROVE \E k \in DOMAIN head.commits : head.commits[k] = "fix"
  <2>1. workflows[t].base = 0 BY <1>1, <1>3 DEF Outcome
  <2>2. Outcome(head, 0) = "success" BY <1>1, <1>3, <2>1 DEF JobAt
  <2>3. \E k \in DOMAIN head.commits : head.commits[k] \in Tests BY <1>2 DEF Digest
  <2>4. PICK k \in DOMAIN head.commits : head.commits[k] \in {"fix", "tamper"}
    BY <2>2, <2>3 DEF Outcome
  <2>5. head.commits[k] # "tamper"
    <3>1. k \in 1..Len(head.commits) BY <1>1 DEF Shas
    <3> QED BY <1>1, <1>2, <3>1 DEF Taken, Protected
  <2> QED BY <2>4, <2>5
<1>4. Ends(IF good THEN "passed" ELSE "rejected", Digest(head), check)
  BY DEF CheckRunsAtHead
<1> HIDE DEF good
<1> QED BY <1>1, <1>2, <1>3, <1>4, GateEnds

LEMMA AcceptInvariant == AcceptInv /\ [AcceptanceNext]_acceptanceVars => AcceptInv'
<1> SUFFICES ASSUME AcceptInv, [AcceptanceNext]_acceptanceVars PROVE AcceptInv' OBVIOUS
<1>1. CASE UNCHANGED acceptanceVars
  BY <1>1 DEF acceptanceVars, AcceptInv, AcceptTyped, RunsAreTrue, RunsFound, Taken, PassedMeansFixed,
              Outcome
<1> QED BY <1>1, GitHubKeeps, StartKeeps, PrRunsKeep, TestJobKeeps, HeadJobKeeps DEF AcceptanceNext

-----------------------------------------------------------------------------
\* The gate (tools/acceptance_gate.py) passes only a head that fixes the bug by itself, after
\* the test it was pinned to and with the protected paths as that test left them, however
\* often the branch is pushed, the base moves and CI runs while the gate reads.
THEOREM PassesAreFixed == AcceptanceSpec => []PassedMeansFixed
<1>1. AcceptInv => PassedMeansFixed BY DEF AcceptInv
<1> QED BY <1>1, AcceptInvariant, AcceptHoldsAtFirst, PTL DEF AcceptanceSpec

-----------------------------------------------------------------------------
(* The migration                                                           *)

MigStep == [src : Paths, dst : Paths]
MigEntry == [op : MigStep, compat : BOOLEAN, state : {"in_progress", "completed"}]
Content == {Absent} \union {Dir(d) : d \in {"ja", "en", "run"}} \union {Link(q) : q \in Paths}
Applying == {"announce", "rename", "junction", "complete"}

\* A command that runs is at a step of its plan, or at an entry of the manifest.
MigTyped ==
  /\ tree \in [Paths -> Content]
  /\ executed \in Seq(MigEntry)
  /\ commands \in 0..MaxCommands
  /\ tool \in [at : Applying \union {"idle", "applied", "probe", "undo", "restored", "failed"},
               plan : Seq(MigStep), k : Nat, compat : BOOLEAN]
  /\ tool.at \in Applying => tool.k \in 1..Len(tool.plan)
  /\ tool.at \in Applying \ {"announce"} => executed # << >>
  /\ tool.at \in {"probe", "undo"} => tool.k \in 1..Len(executed)

LEMMA PlanIsTyped == BuildPlan \in Seq(MigStep)
<1>1. \A p, q \in Paths : Op(p, q) \in MigStep BY DEF Op, MigStep
<1>2. Swap \in Seq(MigStep)
  <2> DEFINE x == Op("claude-org", "swap-tmp")
             y == Op("claude-org-en", "claude-org")
             z == Op("swap-tmp", "claude-org-ja")
  <2>1. x \in MigStep /\ y \in MigStep /\ z \in MigStep BY <1>1 DEF Paths
  <2> HIDE DEF x, y, z
  <2>2. <<x, y, z>> \in Seq(MigStep) BY <2>1
  <2> QED BY <2>2 DEF Swap, x, y, z
<1>3. <<Op("run", "_runs/run")>> \in Seq(MigStep)
  <2> DEFINE x == Op("run", "_runs/run")
  <2>1. x \in MigStep BY <1>1 DEF Paths
  <2> HIDE DEF x
  <2>2. <<x>> \in Seq(MigStep) BY <2>1
  <2> QED BY <2>2 DEF x
<1>4. << >> \in Seq(MigStep) OBVIOUS
<1> HIDE DEF Swap
<1> DEFINE e == IF SwapAlreadyDone THEN << >> ELSE Swap
           f == IF Moved THEN << >> ELSE <<Op("run", "_runs/run")>>
<1>5. e \in Seq(MigStep) /\ f \in Seq(MigStep) BY <1>2, <1>3, <1>4
<1> HIDE DEF e, f
<1>6. e \o f \in Seq(MigStep) BY <1>5
<1> QED BY <1>6 DEF BuildPlan, e, f

LEMMA ToolIsTyped ==
  ASSUME NEW p \in Paths, NEW c \in Content, tree \in [Paths -> Content]
  PROVE  [tree EXCEPT ![p] = c] \in [Paths -> Content]
OBVIOUS

LEMMA RenamedIsTyped ==
  ASSUME NEW p \in Paths, NEW q \in Paths, tree \in [Paths -> Content]
  PROVE  Renamed(p, q) \in [Paths -> Content]
<1>1. Absent \in Content BY DEF Content
<1> QED BY <1>1 DEF Renamed

LEMMA MigrationStarts == MigrationInit => MigTyped
<1> SUFFICES ASSUME MigrationInit PROVE MigTyped OBVIOUS
<1>1. tree \in [Paths -> Content]
  <2>1. Absent \in Content /\ \A d \in {"ja", "en", "run"} : Dir(d) \in Content BY DEF Content
  <2> QED BY <2>1 DEF MigrationInit
<1>2. << >> \in Seq(MigEntry) /\ << >> \in Seq(MigStep) OBVIOUS
<1>3. 0 \in 0..MaxCommands BY MigrationAssumption
<1> QED BY <1>1, <1>2, <1>3 DEF MigTyped, MigrationInit, NoTool, Applying

LEMMA MigrationTypeStays == MigTyped /\ [MigrationNext]_migrationVars => MigTyped'
<1> SUFFICES ASSUME MigTyped, [MigrationNext]_migrationVars PROVE MigTyped' OBVIOUS
<1> USE DEF Applying
<1>n. NoTool \in [at : {"idle"}, plan : Seq(MigStep), k : Nat, compat : BOOLEAN] BY DEF NoTool
<1>a. \A at \in {"idle", "applied", "probe", "undo", "restored", "failed"} :
        /\ [NoTool EXCEPT !.at = at] \in [at : {at}, plan : Seq(MigStep), k : Nat, compat : BOOLEAN]
      BY <1>n
<1>1. CASE StartApply
  <2>1. commands' \in 0..MaxCommands BY <1>1, MigrationAssumption DEF StartApply, Ready, MigTyped
  <2>2. << >> \in Seq(MigEntry) OBVIOUS
  <2>3. BuildPlan \in Seq(MigStep) BY PlanIsTyped
  <2>4. BuildPlan # << >> => 1 \in 1..Len(BuildPlan) BY <2>3
  <2>5. CASE BuildPlan = << >>
    <3>1. tool' = [NoTool EXCEPT !.at = "applied"] BY <1>1, <2>5 DEF StartApply
    <3> QED BY <1>1, <2>1, <2>2, <3>1, <1>a DEF StartApply, MigTyped
  <2>6. CASE BuildPlan # << >>
    <3>1. PICK compat \in BOOLEAN :
            tool' = [at |-> "announce", plan |-> BuildPlan, k |-> 1, compat |-> compat]
          BY <1>1, <2>6 DEF StartApply
    <3> QED BY <1>1, <2>1, <2>2, <2>3, <2>4, <2>6, <3>1 DEF StartApply, MigTyped
  <2> QED BY <2>5, <2>6
<1>2. CASE Announce
  <2> DEFINE x == [op |-> Current, compat |-> tool.compat, state |-> "in_progress"]
  <2>1. Current \in MigStep BY <1>2 DEF Announce, MigTyped, Current
  <2>2. x \in MigEntry BY <2>1, <1>2 DEF Announce, MigTyped, MigEntry
  <2>3. executed' = Append(executed, x) BY <1>2 DEF Announce
  <2> HIDE DEF x
  <2>4. executed' \in Seq(MigEntry) /\ executed' # << >> BY <2>2, <2>3 DEF MigTyped
  <2> QED BY <1>2, <2>4 DEF Announce, MigTyped, StepTo
<1>3. CASE Rename
  <2>1. Current \in MigStep BY <1>3 DEF Rename, MigTyped, Current
  <2>2. tree' \in [Paths -> Content] BY <1>3, <2>1, RenamedIsTyped DEF Rename, MigTyped, MigStep
  <2> QED BY <1>3, <2>2 DEF Rename, MigTyped, StepTo
<1>4. CASE MakeJunction
  <2>1. Current \in MigStep BY <1>4 DEF MakeJunction, MigTyped, Current
  <2>2. Link(Current.dst) \in Content BY <2>1 DEF MigStep, Content
  <2>3. tree' \in [Paths -> Content] BY <1>4, <2>1, <2>2 DEF MakeJunction, MigTyped, MigStep
  <2> QED BY <1>4, <2>3 DEF MakeJunction, MigTyped, StepTo
<1>5. CASE MarkCompleted
  <2> DEFINE n == Len(executed)
             x == [executed[n] EXCEPT !.state = "completed"]
  <2>1. n \in DOMAIN executed /\ executed[n] \in MigEntry BY <1>5 DEF MarkCompleted, MigTyped
  <2>2. x \in MigEntry BY <2>1 DEF MigEntry
  <2>3. executed' = [executed EXCEPT ![n] = x] BY <1>5 DEF MarkCompleted
  <2> HIDE DEF x
  <2>4. executed' \in Seq(MigEntry) BY <2>1, <2>2, <2>3 DEF MigTyped
  <2>5. executed' # << >> BY <2>3, <1>5 DEF MarkCompleted, MigTyped
  <2>6. CASE tool.k = Len(tool.plan)
    <3>1. tool' = [NoTool EXCEPT !.at = "applied"] BY <1>5, <2>6 DEF MarkCompleted, Onward
    <3> QED BY <1>5, <2>4, <2>5, <3>1, <1>a DEF MarkCompleted, MigTyped
  <2>7. CASE tool.k # Len(tool.plan)
    <3>1. tool' = [tool EXCEPT !.at = "announce", !.k = @ + 1] BY <1>5, <2>7 DEF MarkCompleted, Onward
    <3>2. tool.k \in 1..Len(tool.plan) /\ Len(tool.plan) \in Nat BY <1>5 DEF MarkCompleted, MigTyped
    <3>3. tool.k + 1 \in Nat /\ tool.k + 1 \in 1..Len(tool.plan) BY <2>7, <3>2
    <3>4. tool' \in [at : {"announce"}, plan : Seq(MigStep), k : Nat, compat : BOOLEAN]
          BY <3>1, <3>3 DEF MigTyped
    <3>5. tool'.at = "announce" /\ tool'.k = tool.k + 1 /\ tool'.plan = tool.plan
          BY <3>1 DEF MigTyped
    <3>6. tree' = tree /\ commands' = commands BY <1>5 DEF MarkCompleted
    <3> QED BY <2>4, <3>3, <3>4, <3>5, <3>6 DEF MigTyped
  <2> QED BY <2>6, <2>7
<1>6. CASE StopApply BY <1>6, <1>n DEF StopApply, MigTyped
<1>7. CASE StartRollback
  <2>1. commands' \in 0..MaxCommands BY <1>7, MigrationAssumption DEF StartRollback, MigTyped
  <2>2. CASE executed = << >>
    <3>1. tool' = [NoTool EXCEPT !.at = "restored"] BY <1>7, <2>2 DEF StartRollback
    <3>2. tool' \in [at : {"restored"}, plan : Seq(MigStep), k : Nat, compat : BOOLEAN] BY <3>1, <1>a
    <3>3. tool'.at = "restored" BY <3>2
    <3>4. tree' = tree /\ executed' = executed BY <1>7 DEF StartRollback
    <3>5. tool' \in [at : Applying \union {"idle", "applied", "probe", "undo", "restored", "failed"},
                     plan : Seq(MigStep), k : Nat, compat : BOOLEAN]
          BY <3>2
    <3> QED BY <2>1, <3>3, <3>4, <3>5 DEF MigTyped
  <2>3. CASE executed # << >>
    <3>1. tool' = [NoTool EXCEPT !.at = "probe", !.k = Len(executed)] BY <1>7, <2>3 DEF StartRollback
    <3>2. Len(executed) \in 1..Len(executed) /\ Len(executed) \in Nat BY <2>3 DEF MigTyped
    <3>3. tool' \in [at : {"probe"}, plan : Seq(MigStep), k : Nat, compat : BOOLEAN]
          BY <3>1, <3>2, <1>n
    <3>4. tool'.at = "probe" /\ tool'.k = Len(executed) BY <3>1, <1>n
    <3> QED BY <1>7, <2>1, <3>2, <3>3, <3>4 DEF StartRollback, MigTyped
  <2> QED BY <2>2, <2>3
<1>u. tool.at \in {"probe", "undo"} =>
        /\ Undone \in [at : {"restored", "probe"}, plan : Seq(MigStep), k : Nat, compat : BOOLEAN]
        /\ Undone.at = "probe" => Undone.k \in 1..Len(executed)
  <2> SUFFICES ASSUME tool.at \in {"probe", "undo"}
               PROVE  /\ Undone \in [at : {"restored", "probe"}, plan : Seq(MigStep), k : Nat, compat : BOOLEAN]
                      /\ Undone.at = "probe" => Undone.k \in 1..Len(executed)
      OBVIOUS
  <2>1. CASE tool.k = 1 BY <2>1, <1>a DEF Undone
  <2>2. CASE tool.k # 1
    <3>1. Undone = [tool EXCEPT !.at = "probe", !.k = @ - 1] BY <2>2 DEF Undone
    <3>2. tool.k \in 1..Len(executed) /\ Len(executed) \in Nat BY DEF MigTyped
    <3>3. tool.k - 1 \in Nat /\ tool.k - 1 \in 1..Len(executed) BY <2>2, <3>2
    <3>4. tool \in [at : {tool.at}, plan : Seq(MigStep), k : Nat, compat : BOOLEAN] BY DEF MigTyped
    <3> HIDE DEF MigTyped
    <3> QED BY <3>1, <3>3, <3>4
  <2> QED BY <2>1, <2>2
<1>e. tool.at \in {"probe", "undo"} => ManifestEntry.op \in MigStep
  <2> SUFFICES ASSUME tool.at \in {"probe", "undo"} PROVE ManifestEntry.op \in MigStep OBVIOUS
  <2>1. executed \in Seq(MigEntry) /\ tool.k \in 1..Len(executed) BY DEF MigTyped
  <2>2. executed[tool.k] \in MigEntry BY <2>1
  <2> QED BY <2>2 DEF ManifestEntry, MigEntry
<1>8. CASE Probe
  <2>1. Absent \in Content BY DEF Content
  <2>2. tree' \in [Paths -> Content] BY <1>8, <2>1, <1>e DEF Probe, MigTyped, MigStep
  <2>3. CASE NotDone BY <1>8, <2>2, <2>3, <1>u DEF Probe, MigTyped
  <2>4. CASE ~NotDone
    <3>1. tool' = [tool EXCEPT !.at = "undo"] BY <1>8, <2>4 DEF Probe
    <3> QED BY <1>8, <2>2, <3>1 DEF Probe, MigTyped
  <2> QED BY <2>3, <2>4
<1>9. CASE Undo
  <2>1. CASE CanRename(ManifestEntry.op.dst, ManifestEntry.op.src)
    <3>1. tree' \in [Paths -> Content] BY <1>9, <2>1, <1>e, RenamedIsTyped DEF Undo, MigTyped, MigStep
    <3> QED BY <1>9, <2>1, <3>1, <1>u DEF Undo, MigTyped
  <2>2. CASE ~CanRename(ManifestEntry.op.dst, ManifestEntry.op.src)
    <3>1. tool' = [NoTool EXCEPT !.at = "failed"] /\ UNCHANGED <<tree, executed, commands>>
          BY <1>9, <2>2 DEF Undo
    <3> QED BY <3>1, <1>a DEF MigTyped
  <2> QED BY <2>1, <2>2
<1>10. CASE StopRollback BY <1>10, <1>n DEF StopRollback, MigTyped
<1>11. CASE UNCHANGED migrationVars BY <1>11 DEF migrationVars, MigTyped
<1> QED BY <1>1, <1>2, <1>3, <1>4, <1>5, <1>6, <1>7, <1>8, <1>9, <1>10, <1>11 DEF MigrationNext

LEMMA MigrationIsTyped == MigTyped => MigrationTypeOK
<1> SUFFICES ASSUME MigTyped PROVE MigrationTypeOK OBVIOUS
<1>1. \A k \in DOMAIN executed : executed[k] \in MigEntry BY DEF MigTyped
<1>2. \A k \in DOMAIN executed : executed[k].state \in {"in_progress", "completed"}
      BY <1>1 DEF MigEntry
<1>3. DOMAIN tree = Paths /\ \A p \in Paths : tree[p] \in Content BY DEF MigTyped
<1> QED BY <1>2, <1>3 DEF MigTyped, MigrationTypeOK, Content
-----------------------------------------------------------------------------
(* What a migration has done, and what its rollback undoes. A directory is  *)
(* at one of its places; after d operations of a plan the tree is the one   *)
(* the first d make of the tree before it; the manifest names the first     *)
(* operations of the plan, and only of its last entry may it be in doubt    *)
(* whether the rename happened.                                             *)

Links == {Link(q) : q \in Paths}
RunOp == Op("run", "_runs/run")
Plans == {Swap, Swap \o <<RunOp>>, <<RunOp>>}

\* Each directory is at one of its places, and a link is nowhere a directory is looked for.
Placed ==
  /\ tree["claude-org"] \in {Absent, Dir("ja"), Dir("en")} \union Links
  /\ tree["swap-tmp"] \in {Absent, Dir("ja")} \union Links
  /\ tree["claude-org-ja"] \in {Absent, Dir("ja")}
  /\ tree["claude-org-en"] \in {Absent, Dir("en")} \union Links
  /\ tree["run"] \in {Absent, Dir("run")} \union Links
  /\ tree["_runs/run"] \in {Absent, Dir("run")}
  /\ Dir("ja") \in {tree["claude-org"], tree["swap-tmp"], tree["claude-org-ja"]}
  /\ tree["claude-org-ja"] = Dir("ja") => Dir("ja") \notin {tree["claude-org"], tree["swap-tmp"]}
  /\ tree["swap-tmp"] = Dir("ja") => tree["claude-org"] # Dir("ja")
  /\ tree["claude-org"] = Dir("en") <=> tree["claude-org-en"] # Dir("en")
  /\ tree["run"] = Dir("run") <=> tree["_runs/run"] = Absent
  /\ tree["swap-tmp"] \in Links => tree["claude-org-ja"] = Dir("ja")

\* What stands where a directory was moved from.
Left(compat, dst) == IF compat THEN {Absent, Link(dst)} ELSE {Absent}

SwapStage(compat, d) ==
  /\ past.tree["claude-org"] = Dir("ja") /\ past.tree["claude-org-en"] = Dir("en")
  /\ past.tree["swap-tmp"] = Absent /\ past.tree["claude-org-ja"] = Absent
  /\ tree["claude-org"] \in IF d = 0 THEN {Dir("ja")}
                            ELSE IF d = 1 THEN Left(compat, "swap-tmp") ELSE {Dir("en")}
  /\ tree["claude-org-en"] \in IF d < 2 THEN {Dir("en")} ELSE Left(compat, "claude-org")
  /\ tree["swap-tmp"] \in IF d = 0 THEN {Absent}
                          ELSE IF d < 3 THEN {Dir("ja")} ELSE Left(compat, "claude-org-ja")
  /\ tree["claude-org-ja"] = IF d < 3 THEN Absent ELSE Dir("ja")

Unswapped ==
  /\ \A p \in {"claude-org", "claude-org-en", "swap-tmp", "claude-org-ja"} : tree[p] = past.tree[p]
  /\ tree["claude-org"] = Dir("en") /\ tree["claude-org-ja"] = Dir("ja")

RunStage(compat, moved) ==
  /\ past.tree["run"] = Dir("run") /\ past.tree["_runs/run"] = Absent
  /\ tree["run"] \in IF moved THEN Left(compat, "_runs/run") ELSE {Dir("run")}
  /\ tree["_runs/run"] = IF moved THEN Dir("run") ELSE Absent

Unmoved ==
  /\ \A p \in {"run", "_runs/run"} : tree[p] = past.tree[p]
  /\ tree["_runs/run"] = Dir("run")

\* The tree when the first d operations of a plan are done.
Stage(plan, compat, d) ==
  /\ IF Len(plan) = 1 THEN Unswapped ELSE SwapStage(compat, d)
  /\ IF Len(plan) = 3 THEN Unmoved ELSE RunStage(compat, d = Len(plan))

\* The manifest names the operations of a plan, and all but the last are completed.
Manifest(plan, compat) ==
  /\ plan \in Plans /\ Len(executed) <= Len(plan)
  /\ \A j \in DOMAIN executed : executed[j].op = plan[j] /\ executed[j].compat = compat
  /\ \A j \in DOMAIN executed : j < Len(executed) => executed[j].state = "completed"

Bare(op) == tree[op.src] = Absent
InDoubt(n) == n > 0 /\ executed[n].state = "in_progress"

\* What the manifest says is done, unless the last operation was only announced; a link is
\* made of what is completed only.
Told(plan, compat, n) ==
  \/ /\ Stage(plan, compat, n)
     /\ n = Len(executed) /\ InDoubt(n) => Bare(plan[n])
  \/ n = Len(executed) /\ InDoubt(n) /\ Stage(plan, compat, n - 1)

ApplyGoesRight ==
  tool.at \in {"announce", "rename", "junction", "complete"} =>
    /\ past.rollbacks = 0 /\ ~past.torn
    /\ Manifest(tool.plan, tool.compat)
    /\ Len(executed) = IF tool.at = "announce" THEN tool.k - 1 ELSE tool.k
    /\ InDoubt(Len(executed)) <=> tool.at # "announce"
    /\ Stage(tool.plan, tool.compat, IF tool.at \in {"announce", "rename"} THEN tool.k - 1 ELSE tool.k)
    /\ tool.at = "junction" => tool.compat /\ Bare(Current)

RollbackGoesRight ==
  ~past.torn =>
    /\ Stopped /\ past.rollbacks = 0 =>
         IF executed = << >> THEN tree = past.tree
         ELSE \E plan \in Plans, compat \in BOOLEAN :
                Manifest(plan, compat) /\ Told(plan, compat, Len(executed))
    /\ tool.at \in {"probe", "undo"} /\ past.rollbacks = 1 =>
         \E plan \in Plans, compat \in BOOLEAN :
           /\ Manifest(plan, compat)
           /\ IF tool.at = "probe" THEN Told(plan, compat, tool.k)
              ELSE Stage(plan, compat, tool.k) /\ Bare(plan[tool.k])
    /\ past.rollbacks = 1 => /\ tool.at = "restored" => tree = past.tree
                             /\ tool.at # "failed"

AppliedIsPlaced ==
  tool.at = "applied" => /\ tree["claude-org"] = Dir("en") /\ tree["claude-org-ja"] = Dir("ja")
                         /\ tree["_runs/run"] = Dir("run")

Ops == {Op("claude-org", "swap-tmp"), Op("claude-org-en", "claude-org"), Op("swap-tmp", "claude-org-ja"), RunOp}
OpsArePlanned == \A j \in DOMAIN executed : executed[j].op \in Ops
AtRunning == tool.at \in {"probe", "undo"} => past.rollbacks > 0
PastTyped == past \in [tree : [Paths -> Content], torn : BOOLEAN, rollbacks : Nat]

MigInv == MigTyped /\ Placed /\ ApplyGoesRight /\ RollbackGoesRight /\ AppliedIsPlaced
          /\ OpsArePlanned /\ AtRunning /\ PastTyped

\* A directory, a link and nothing are told apart.
LEMMA ContentsDiffer ==
  /\ Absent[1] = "none" /\ Absent \notin Links
  /\ \A d : Dir(d)[1] = "dir" /\ Dir(d)[2] = d /\ Dir(d) # Absent /\ Dir(d) \notin Links
  /\ \A q : Link(q)[1] = "link" /\ Link(q)[2] = q /\ Link(q) # Absent
  /\ \A q \in Paths : Link(q) \in Links
  /\ \A c \in Links : c[1] = "link" /\ c # Absent
<1>1. Absent[1] = "none" BY DEF Absent
<1>2. \A d : Dir(d)[1] = "dir" /\ Dir(d)[2] = d BY DEF Dir
<1>3. \A q : Link(q)[1] = "link" /\ Link(q)[2] = q BY DEF Link
<1>4. \A c \in Links : c[1] = "link" BY <1>3 DEF Links
<1>5. \A q \in Paths : Link(q) \in Links BY DEF Links
<1> HIDE DEF Absent, Dir, Link, Links
<1> QED BY <1>1, <1>2, <1>3, <1>4, <1>5

LEMMA PlansAre ==
  ASSUME NEW plan \in Plans
  PROVE  /\ plan \in Seq(MigStep) /\ Len(plan) \in {1, 3, 4} /\ DOMAIN plan = 1..Len(plan)
         /\ Len(plan) = 1 => plan[1] = RunOp
         /\ Len(plan) # 1 => /\ plan[1] = Op("claude-org", "swap-tmp")
                             /\ plan[2] = Op("claude-org-en", "claude-org")
                             /\ plan[3] = Op("swap-tmp", "claude-org-ja")
         /\ Len(plan) = 4 => plan[4] = RunOp
<1>1. \A p, q \in Paths : Op(p, q) \in MigStep BY DEF Op, MigStep
<1> DEFINE x == Op("claude-org", "swap-tmp")
           y == Op("claude-org-en", "claude-org")
           z == Op("swap-tmp", "claude-org-ja")
<1>2. x \in MigStep /\ y \in MigStep /\ z \in MigStep /\ RunOp \in MigStep BY <1>1 DEF Paths, RunOp
<1>3. Swap = <<x, y, z>> BY DEF Swap
<1> HIDE DEF x, y, z
<1>4. Swap \in Seq(MigStep) /\ Len(Swap) = 3 /\ Swap[1] = x /\ Swap[2] = y /\ Swap[3] = z
  BY <1>2, <1>3
<1> DEFINE w == <<RunOp>>
<1>5. w \in Seq(MigStep) /\ Len(w) = 1 /\ w[1] = RunOp BY <1>2
<1> DEFINE s == Swap
<1>a. s \in Seq(MigStep) /\ Len(s) = 3 /\ s[1] = x /\ s[2] = y /\ s[3] = z BY <1>4
<1> HIDE DEF w, s
<1> DEFINE f == s \o w
<1>6. f \in Seq(MigStep) /\ Len(f) = 4 /\ f[1] = x /\ f[2] = y /\ f[3] = z /\ f[4] = RunOp
  <2>1. f \in Seq(MigStep) BY <1>5, <1>a
  <2>2. /\ Len(f) = Len(s) + Len(w)
        /\ \A i \in 1..Len(s) + Len(w) : f[i] = IF i <= Len(s) THEN s[i] ELSE w[i - Len(s)]
    BY <1>5, <1>a, ConcatProperties
  <2> HIDE DEF f
  <2>3. \A i \in 1..3 : f[i] = s[i] BY <1>a, <2>2
  <2>4. f[4] = w[1]
    <3>1. 4 \in 1..Len(s) + Len(w) /\ ~(4 <= Len(s)) /\ 4 - Len(s) = 1 BY <1>5, <1>a
    <3>2. f[4] = w[4 - Len(s)] BY <2>2, <3>1
    <3> QED BY <3>1, <3>2
  <2> QED BY <2>1, <2>2, <2>3, <2>4, <1>5, <1>a
<1> HIDE DEF f
<1>7. plan \in {s, f, w} BY DEF Plans, f, s, w
<1> QED BY <1>5, <1>6, <1>7, <1>a DEF x, y, z

LEMMA OpIs == \A p, q : Op(p, q).src = p /\ Op(p, q).dst = q BY DEF Op

\* Before anything of a plan is done, everything is where it was.
LEMMA StageZero ==
  ASSUME NEW plan \in Plans, NEW compat \in BOOLEAN, Stage(plan, compat, 0),
         tree \in [Paths -> Content], past.tree \in [Paths -> Content]
  PROVE  tree = past.tree
<1>1. Len(plan) \in {1, 3, 4} BY PlansAre
<1>2. \A p \in {"claude-org", "claude-org-en", "swap-tmp", "claude-org-ja"} : tree[p] = past.tree[p]
  BY DEF Stage, Unswapped, SwapStage
<1>3. \A p \in {"run", "_runs/run"} : tree[p] = past.tree[p]
  <2>1. CASE Len(plan) = 3 BY <2>1 DEF Stage, Unmoved
  <2>2. CASE Len(plan) # 3
    <3>1. RunStage(compat, FALSE) BY <1>1, <2>2, 0 # Len(plan) DEF Stage
    <3> QED BY <3>1 DEF RunStage
  <2> QED BY <2>1, <2>2
<1>4. \A p \in Paths : tree[p] = past.tree[p] BY <1>2, <1>3 DEF Paths
<1> QED BY <1>4

LEMMA StageZeroThen ==
  ASSUME NEW plan \in Plans, NEW compat \in BOOLEAN, Stage(plan, compat, 0)',
         tree' \in [Paths -> Content], past'.tree \in [Paths -> Content]
  PROVE  tree' = past'.tree
<1>1. Len(plan) \in {1, 3, 4} BY PlansAre
<1>2. \A p \in {"claude-org", "claude-org-en", "swap-tmp", "claude-org-ja"} : tree'[p] = past'.tree[p]
  BY DEF Stage, Unswapped, SwapStage
<1>3. \A p \in {"run", "_runs/run"} : tree'[p] = past'.tree[p]
  <2>1. CASE Len(plan) = 3 BY <2>1 DEF Stage, Unmoved
  <2>2. CASE Len(plan) # 3
    <3>0. (0 = Len(plan)) = FALSE
      <4>1. \A n \in {1, 3, 4} : 0 # n OBVIOUS
      <4>2. 0 # Len(plan) BY ONLY <1>1, <4>1
      <4> QED BY ONLY <4>2, Zenon
    <3>1. RunStage(compat, 0 = Len(plan))' BY <2>2 DEF Stage
    <3>2. RunStage(compat, FALSE)' BY <3>0, <3>1 DEF RunStage
    <3> QED BY <3>2 DEF RunStage
  <2> QED BY <2>1, <2>2
<1>4. \A p \in Paths : tree'[p] = past'.tree[p] BY <1>2, <1>3 DEF Paths
<1> QED BY <1>4

\* What an operation needs is there, and what it makes is not.
LEMMA StageNext ==
  ASSUME NEW plan \in Plans, NEW compat \in BOOLEAN, NEW d \in 0..Len(plan) - 1,
         Stage(plan, compat, d), tree \in [Paths -> Content]
  PROVE  /\ tree[plan[d + 1].src] # Absent /\ tree[plan[d + 1].src] \notin Links
         /\ Exists(plan[d + 1].src) /\ plan[d + 1].src # plan[d + 1].dst
<1>1. /\ Len(plan) \in {1, 3, 4} BY PlansAre
<1> HIDE DEF Absent, Dir, Link, Links
<1>2. CASE Len(plan) = 1
  <2>1. d = 0 /\ plan[1] = RunOp BY <1>2, PlansAre
  <2>2. tree["run"] = Dir("run") BY <1>2, <2>1 DEF Stage, RunStage
  <2> QED BY <2>1, <2>2, OpIs, ContentsDiffer DEF RunOp, Exists
<1>3. CASE Len(plan) # 1 /\ d < 3
  <2>1. d \in {0, 1, 2} /\ plan[d + 1] = IF d = 0 THEN Op("claude-org", "swap-tmp")
                      ELSE IF d = 1 THEN Op("claude-org-en", "claude-org")
                      ELSE Op("swap-tmp", "claude-org-ja")
    BY <1>1, <1>3, PlansAre
  <2>2. SwapStage(compat, d) BY <1>3 DEF Stage
  <2>3. tree[plan[d + 1].src] \in {Dir("ja"), Dir("en")} BY <2>1, <2>2, OpIs DEF SwapStage
  <2> QED BY <2>1, <2>3, OpIs, ContentsDiffer DEF Exists
<1>4. CASE Len(plan) # 1 /\ d >= 3
  <2>1. d = 3 /\ Len(plan) = 4
    <3> DEFINE n == Len(plan)
    <3>1. n \in {1, 3, 4} /\ n # 1 /\ d >= 3 /\ d \in 0..n - 1 BY <1>1, <1>4
    <3> HIDE DEF n
    <3>2. d = 3 /\ n = 4 BY <3>1
    <3> QED BY <3>2 DEF n
  <2>3. plan[4] = RunOp BY <2>1, PlansAre
  <2>2. tree["run"] = Dir("run") BY <2>1 DEF Stage, RunStage
  <2> QED BY <2>1, <2>2, <2>3, OpIs, ContentsDiffer DEF RunOp, Exists
<1> QED BY <1>2, <1>3, <1>4

\* The operations of a plan, one by one.
LEMMA OpsOfPlan ==
  ASSUME NEW plan \in Plans, NEW d \in 1..Len(plan)
  PROVE  \/ /\ d = Len(plan) /\ Len(plan) # 3 /\ plan[d] = RunOp
            /\ Len(plan) = 1 \/ d = 4
         \/ Len(plan) # 1 /\ d = 1 /\ plan[d] = Op("claude-org", "swap-tmp")
         \/ Len(plan) # 1 /\ d = 2 /\ plan[d] = Op("claude-org-en", "claude-org")
         \/ Len(plan) # 1 /\ d = 3 /\ plan[d] = Op("swap-tmp", "claude-org-ja")
<1> DEFINE n == Len(plan)
<1>1. n \in {1, 3, 4} /\ d \in 1..n BY PlansAre
<1> HIDE DEF n
<1>2. \/ n = 1 /\ d = 1
      \/ n = 4 /\ d = 4
      \/ n # 1 /\ d \in {1, 2, 3}
  BY <1>1
<1>3. CASE n = 1 /\ d = 1 BY <1>3, PlansAre DEF n
<1>4. CASE n = 4 /\ d = 4 BY <1>4, PlansAre DEF n
<1>5. CASE n # 1 /\ d = 1 BY <1>5, PlansAre DEF n
<1>6. CASE n # 1 /\ d = 2 BY <1>6, PlansAre DEF n
<1>7. CASE n # 1 /\ d = 3 BY <1>7, PlansAre DEF n
<1> QED BY <1>2, <1>3, <1>4, <1>5, <1>6, <1>7

\* What is done so far does not count the run directory before the last operation.
LEMMA StageParts ==
  ASSUME NEW plan \in Plans, NEW compat \in BOOLEAN, NEW d \in 0..Len(plan)
  PROVE  Stage(plan, compat, d) <=>
           /\ Len(plan) = 1 => Unswapped
           /\ Len(plan) # 1 => SwapStage(compat, d)
           /\ Len(plan) = 3 => Unmoved
           /\ Len(plan) # 3 /\ d = Len(plan) => RunStage(compat, TRUE)
           /\ Len(plan) # 3 /\ d # Len(plan) => RunStage(compat, FALSE)
<1>1. CASE d = Len(plan)
  <2>1. (d = Len(plan)) = TRUE BY <1>1
  <2> QED BY <1>1, <2>1 DEF Stage
<1>2. CASE d # Len(plan)
  <2>1. (d = Len(plan)) = FALSE BY <1>2
  <2> QED BY <1>2, <2>1 DEF Stage
<1> QED BY <1>1, <1>2

LEMMA RenamedIs ==
  ASSUME NEW p \in Paths, NEW q \in Paths, p # q, tree \in [Paths -> Content], tree' = Renamed(p, q)
  PROVE  \A r \in Paths : tree'[r] = IF r = p THEN Absent ELSE IF r = q THEN tree[p] ELSE tree[r]
BY DEF Renamed

\* An operation that is done.
LEMMA StageDone ==
  ASSUME NEW plan \in Plans, NEW compat \in BOOLEAN, NEW d \in 1..Len(plan),
         Stage(plan, compat, d - 1), tree \in [Paths -> Content],
         tree' = Renamed(plan[d].src, plan[d].dst), past' = past
  PROVE  Stage(plan, compat, d)' /\ Bare(plan[d])'
<1> HIDE DEF Absent, Dir, Link
<1>0. /\ d \in Nat /\ d - 1 \in 0..Len(plan) /\ d \in 0..Len(plan) /\ d - 1 # Len(plan)
      /\ Len(plan) \in {1, 3, 4}
  BY PlansAre
<1>1. /\ Len(plan) = 1 => Unswapped
      /\ Len(plan) # 1 => SwapStage(compat, d - 1)
      /\ Len(plan) = 3 => Unmoved
      /\ Len(plan) # 3 => RunStage(compat, FALSE)
  BY <1>0, StageParts
<1> DEFINE Goal == /\ (Len(plan) = 1 => Unswapped)'
                   /\ (Len(plan) # 1 => SwapStage(compat, d))'
                   /\ (Len(plan) = 3 => Unmoved)'
                   /\ (Len(plan) # 3 /\ d = Len(plan) => RunStage(compat, TRUE))'
                   /\ (Len(plan) # 3 /\ d # Len(plan) => RunStage(compat, FALSE))'
                   /\ Bare(plan[d])'
<1>2. SUFFICES Goal
  <2>1. CASE d = Len(plan)
    <3>1. (d = Len(plan)) = TRUE BY <2>1
    <3> QED BY <1>0, <2>1, <3>1 DEF Stage
  <2>2. CASE d # Len(plan)
    <3>1. (d = Len(plan)) = FALSE BY <2>2
    <3> QED BY <1>0, <2>2, <3>1 DEF Stage
  <2> QED BY <2>1, <2>2
<1>3. CASE d = Len(plan) /\ Len(plan) # 3 /\ plan[d] = RunOp /\ (Len(plan) = 1 \/ d = 4)
  <2>1. \A r \in Paths : tree'[r] = IF r = "run" THEN Absent
                                    ELSE IF r = "_runs/run" THEN tree["run"] ELSE tree[r]
    <3>1. tree' = Renamed("run", "_runs/run") BY <1>3, OpIs DEF RunOp
    <3> QED BY <3>1, RenamedIs DEF Paths
  <2>2. RunStage(compat, FALSE) BY <1>1, <1>3
  <2>3. RunStage(compat, TRUE)' BY <2>1, <2>2 DEF RunStage, Left, Paths
  <2>4. Unswapped => Unswapped' BY <2>1 DEF Unswapped, Paths
  <2>5. d = 4 /\ SwapStage(compat, d - 1) => SwapStage(compat, d)' BY <2>1 DEF SwapStage, Paths
  <2>6. Bare(plan[d])' BY <1>3, <2>1, OpIs DEF Bare, RunOp, Paths
  <2> QED BY <1>0, <1>1, <1>3, <2>3, <2>4, <2>5, <2>6
<1>4. ASSUME NEW p \in Paths \ {"run", "_runs/run"}, NEW q \in Paths \ {"run", "_runs/run"},
             Len(plan) # 1, d \in {1, 2, 3}, plan[d] = Op(p, q), p # q, SwapStage(compat, d)'
      PROVE  Goal
  <2>1. tree' = Renamed(p, q) BY <1>4, OpIs
  <2>2. \A r \in Paths : tree'[r] = IF r = p THEN Absent ELSE IF r = q THEN tree[p] ELSE tree[r]
    BY <1>4, <2>1, RenamedIs
  <2>3. Unmoved => Unmoved' BY <2>2, <1>4 DEF Unmoved, Paths
  <2>4. RunStage(compat, FALSE) => RunStage(compat, FALSE)' BY <2>2, <1>4 DEF RunStage, Paths
  <2>5. Bare(plan[d])' BY <1>4, <2>2, OpIs DEF Bare
  <2>6. Len(plan) = 3 \/ d # Len(plan)
    <3> DEFINE n == Len(plan)
    <3>1. n \in {1, 3, 4} /\ n # 1 /\ d \in {1, 2, 3} BY <1>0, <1>4
    <3> HIDE DEF n
    <3>2. n = 3 \/ d # n BY <3>1
    <3> QED BY <3>2 DEF n
  <2> QED BY <1>1, <1>4, <2>3, <2>4, <2>5, <2>6
<1> HIDE DEF Goal
<1>5. CASE Len(plan) # 1 /\ d = 1 /\ plan[d] = Op("claude-org", "swap-tmp")
  <2>1. \A r \in Paths : tree'[r] = IF r = "claude-org" THEN Absent
                                    ELSE IF r = "swap-tmp" THEN tree["claude-org"] ELSE tree[r]
    <3>1. tree' = Renamed("claude-org", "swap-tmp") BY <1>5, OpIs
    <3> QED BY <3>1, RenamedIs DEF Paths
  <2>2. SwapStage(compat, 0) BY <1>1, <1>5
  <2>3. SwapStage(compat, 1)' BY <2>1, <2>2 DEF SwapStage, Left, Paths
  <2> QED BY <1>4, <1>5, <2>3 DEF Paths
<1>6. CASE Len(plan) # 1 /\ d = 2 /\ plan[d] = Op("claude-org-en", "claude-org")
  <2>1. \A r \in Paths : tree'[r] = IF r = "claude-org-en" THEN Absent
                                    ELSE IF r = "claude-org" THEN tree["claude-org-en"] ELSE tree[r]
    <3>1. tree' = Renamed("claude-org-en", "claude-org") BY <1>6, OpIs
    <3> QED BY <3>1, RenamedIs DEF Paths
  <2>2. SwapStage(compat, 1) BY <1>1, <1>6
  <2>3. SwapStage(compat, 2)' BY <2>1, <2>2 DEF SwapStage, Left, Paths
  <2> QED BY <1>4, <1>6, <2>3 DEF Paths
<1>7. CASE Len(plan) # 1 /\ d = 3 /\ plan[d] = Op("swap-tmp", "claude-org-ja")
  <2>1. \A r \in Paths : tree'[r] = IF r = "swap-tmp" THEN Absent
                                    ELSE IF r = "claude-org-ja" THEN tree["swap-tmp"] ELSE tree[r]
    <3>1. tree' = Renamed("swap-tmp", "claude-org-ja") BY <1>7, OpIs
    <3> QED BY <3>1, RenamedIs DEF Paths
  <2>2. SwapStage(compat, 2) BY <1>1, <1>7
  <2>3. SwapStage(compat, 3)' BY <2>1, <2>2 DEF SwapStage, Left, Paths
  <2> QED BY <1>4, <1>7, <2>3 DEF Paths
<1> QED BY <1>3, <1>5, <1>6, <1>7, OpsOfPlan

\* What the last operation done left and made.
LEMMA StageLast ==
  ASSUME NEW plan \in Plans, NEW compat \in BOOLEAN, NEW d \in 1..Len(plan),
         Stage(plan, compat, d), tree \in [Paths -> Content]
  PROVE  /\ tree[plan[d].src] \in Left(compat, plan[d].dst)
         /\ tree[plan[d].dst] # Absent /\ Exists(plan[d].dst)
         /\ plan[d].src \in Paths /\ plan[d].dst \in Paths /\ plan[d].src # plan[d].dst
<1> HIDE DEF Absent, Dir, Link
<1>1. d \in 0..Len(plan) /\ Len(plan) \in {1, 3, 4} BY PlansAre
<1>2. /\ Len(plan) # 1 => SwapStage(compat, d)
      /\ Len(plan) # 3 /\ d = Len(plan) => RunStage(compat, TRUE)
  BY <1>1, StageParts
<1>3. CASE d = Len(plan) /\ Len(plan) # 3 /\ plan[d] = RunOp /\ (Len(plan) = 1 \/ d = 4)
  <2>1. tree["run"] \in Left(compat, "_runs/run") /\ tree["_runs/run"] = Dir("run")
    BY <1>2, <1>3 DEF RunStage
  <2> QED BY <1>3, <2>1, OpIs, ContentsDiffer DEF RunOp, Exists, Paths
<1>4. CASE Len(plan) # 1 /\ d = 1 /\ plan[d] = Op("claude-org", "swap-tmp")
  <2>1. tree["claude-org"] \in Left(compat, "swap-tmp") /\ tree["swap-tmp"] = Dir("ja")
    BY <1>2, <1>4 DEF SwapStage
  <2> QED BY <1>4, <2>1, OpIs, ContentsDiffer DEF Exists, Paths
<1>5. CASE Len(plan) # 1 /\ d = 2 /\ plan[d] = Op("claude-org-en", "claude-org")
  <2>1. tree["claude-org-en"] \in Left(compat, "claude-org") /\ tree["claude-org"] = Dir("en")
    BY <1>2, <1>5 DEF SwapStage
  <2> QED BY <1>5, <2>1, OpIs, ContentsDiffer DEF Exists, Paths
<1>6. CASE Len(plan) # 1 /\ d = 3 /\ plan[d] = Op("swap-tmp", "claude-org-ja")
  <2>1. tree["swap-tmp"] \in Left(compat, "claude-org-ja") /\ tree["claude-org-ja"] = Dir("ja")
    BY <1>2, <1>6 DEF SwapStage
  <2> QED BY <1>6, <2>1, OpIs, ContentsDiffer DEF Exists, Paths
<1> QED BY <1>3, <1>4, <1>5, <1>6, OpsOfPlan

\* A link that is made or removed.
LEMMA StageLinks ==
  ASSUME NEW plan \in Plans, NEW compat \in BOOLEAN, NEW d \in 1..Len(plan),
         Stage(plan, compat, d), tree \in [Paths -> Content], past' = past,
         NEW c \in Left(compat, plan[d].dst), tree' = [tree EXCEPT ![plan[d].src] = c]
  PROVE  Stage(plan, compat, d)'
<1> HIDE DEF Absent, Dir, Link
<1>1. d \in 0..Len(plan) /\ Len(plan) \in {1, 3, 4} /\ d \in Nat BY PlansAre
<1>2. /\ Len(plan) = 1 => Unswapped
      /\ Len(plan) # 1 => SwapStage(compat, d)
      /\ Len(plan) = 3 => Unmoved
      /\ Len(plan) # 3 /\ d = Len(plan) => RunStage(compat, TRUE)
      /\ Len(plan) # 3 /\ d # Len(plan) => RunStage(compat, FALSE)
  BY <1>1, StageParts
<1> DEFINE Goal == /\ (Len(plan) = 1 => Unswapped)'
                   /\ (Len(plan) # 1 => SwapStage(compat, d))'
                   /\ (Len(plan) = 3 => Unmoved)'
                   /\ (Len(plan) # 3 /\ d = Len(plan) => RunStage(compat, TRUE))'
                   /\ (Len(plan) # 3 /\ d # Len(plan) => RunStage(compat, FALSE))'
<1>3. SUFFICES Goal
  <2>1. CASE d = Len(plan)
    <3>1. (d = Len(plan)) = TRUE BY <2>1
    <3> QED BY <1>1, <2>1, <3>1 DEF Stage
  <2>2. CASE d # Len(plan)
    <3>1. (d = Len(plan)) = FALSE BY <2>2
    <3> QED BY <1>1, <2>2, <3>1 DEF Stage
  <2> QED BY <2>1, <2>2
<1>4. ASSUME NEW p \in Paths, plan[d].src = p
      PROVE  \A r \in Paths : tree'[r] = IF r = p THEN c ELSE tree[r]
  BY <1>4
<1>5. CASE d = Len(plan) /\ Len(plan) # 3 /\ plan[d] = RunOp /\ (Len(plan) = 1 \/ d = 4)
  <2>1. \A r \in Paths : tree'[r] = IF r = "run" THEN c ELSE tree[r] BY <1>4, <1>5, OpIs DEF RunOp, Paths
  <2>2. c \in Left(compat, "_runs/run") BY <1>5, OpIs DEF RunOp
  <2>3. RunStage(compat, TRUE)' BY <1>2, <1>5, <2>1, <2>2 DEF RunStage, Left, Paths
  <2>4. Unswapped => Unswapped' BY <2>1 DEF Unswapped, Paths
  <2>5. SwapStage(compat, d) => SwapStage(compat, d)' BY <2>1 DEF SwapStage, Paths
  <2> QED BY <1>2, <1>5, <2>3, <2>4, <2>5
<1>6. ASSUME Len(plan) # 1, SwapStage(compat, d)', tree'["run"] = tree["run"],
             tree'["_runs/run"] = tree["_runs/run"]
      PROVE  Goal
  <2>1. Unmoved => Unmoved' BY <1>6 DEF Unmoved
  <2>2. \A moved \in BOOLEAN : RunStage(compat, moved) => RunStage(compat, moved)' BY <1>6 DEF RunStage
  <2> QED BY <1>2, <1>6, <2>1, <2>2
<1> HIDE DEF Goal
<1>7. CASE Len(plan) # 1 /\ d = 1 /\ plan[d] = Op("claude-org", "swap-tmp")
  <2>1. \A r \in Paths : tree'[r] = IF r = "claude-org" THEN c ELSE tree[r] BY <1>4, <1>7, OpIs DEF Paths
  <2>2. c \in Left(compat, "swap-tmp") BY <1>7, OpIs
  <2>3. SwapStage(compat, 1)' BY <1>2, <1>7, <2>1, <2>2 DEF SwapStage, Left, Paths
  <2> QED BY <1>6, <1>7, <2>1, <2>3 DEF Paths
<1>8. CASE Len(plan) # 1 /\ d = 2 /\ plan[d] = Op("claude-org-en", "claude-org")
  <2>1. \A r \in Paths : tree'[r] = IF r = "claude-org-en" THEN c ELSE tree[r] BY <1>4, <1>8, OpIs DEF Paths
  <2>2. c \in Left(compat, "claude-org") BY <1>8, OpIs
  <2>3. SwapStage(compat, 2)' BY <1>2, <1>8, <2>1, <2>2 DEF SwapStage, Left, Paths
  <2> QED BY <1>6, <1>8, <2>1, <2>3 DEF Paths
<1>9. CASE Len(plan) # 1 /\ d = 3 /\ plan[d] = Op("swap-tmp", "claude-org-ja")
  <2>1. \A r \in Paths : tree'[r] = IF r = "swap-tmp" THEN c ELSE tree[r] BY <1>4, <1>9, OpIs DEF Paths
  <2>2. c \in Left(compat, "claude-org-ja") BY <1>9, OpIs
  <2>3. SwapStage(compat, 3)' BY <1>2, <1>9, <2>1, <2>2 DEF SwapStage, Left, Paths
  <2> QED BY <1>6, <1>9, <2>1, <2>3 DEF Paths
<1> QED BY <1>5, <1>7, <1>8, <1>9, OpsOfPlan

\* An operation that is undone.
LEMMA StageUndone ==
  ASSUME NEW plan \in Plans, NEW compat \in BOOLEAN, NEW d \in 1..Len(plan),
         Stage(plan, compat, d), Bare(plan[d]), tree \in [Paths -> Content],
         tree' = Renamed(plan[d].dst, plan[d].src), past' = past
  PROVE  Stage(plan, compat, d - 1)'
<1> HIDE DEF Absent, Dir, Link
<1>0. /\ d \in Nat /\ d - 1 \in 0..Len(plan) /\ d \in 0..Len(plan) /\ d - 1 # Len(plan)
      /\ Len(plan) \in {1, 3, 4}
  BY PlansAre
<1>1. /\ Len(plan) = 1 => Unswapped
      /\ Len(plan) # 1 => SwapStage(compat, d)
      /\ Len(plan) = 3 => Unmoved
      /\ Len(plan) # 3 /\ d = Len(plan) => RunStage(compat, TRUE)
      /\ Len(plan) # 3 /\ d # Len(plan) => RunStage(compat, FALSE)
  BY <1>0, StageParts
<1> DEFINE Goal == /\ (Len(plan) = 1 => Unswapped)'
                   /\ (Len(plan) # 1 => SwapStage(compat, d - 1))'
                   /\ (Len(plan) = 3 => Unmoved)'
                   /\ (Len(plan) # 3 => RunStage(compat, FALSE))'
<1>2. SUFFICES Goal
  <2>1. (d - 1 = Len(plan)) = FALSE BY <1>0
  <2> QED BY <1>0, <2>1 DEF Stage
<1>3. CASE d = Len(plan) /\ Len(plan) # 3 /\ plan[d] = RunOp /\ (Len(plan) = 1 \/ d = 4)
  <2>1. \A r \in Paths : tree'[r] = IF r = "_runs/run" THEN Absent
                                    ELSE IF r = "run" THEN tree["_runs/run"] ELSE tree[r]
    <3>1. tree' = Renamed("_runs/run", "run") BY <1>3, OpIs DEF RunOp
    <3> QED BY <3>1, RenamedIs DEF Paths
  <2>2. RunStage(compat, FALSE)' BY <1>1, <1>3, <2>1 DEF RunStage, Left, Paths
  <2>3. Unswapped => Unswapped' BY <2>1 DEF Unswapped, Paths
  <2>4. d = 4 /\ SwapStage(compat, d) => SwapStage(compat, d - 1)' BY <2>1 DEF SwapStage, Paths
  <2> QED BY <1>0, <1>1, <1>3, <2>2, <2>3, <2>4
<1>4. ASSUME Len(plan) # 1, d \in {1, 2, 3}, SwapStage(compat, d - 1)', tree'["run"] = tree["run"],
             tree'["_runs/run"] = tree["_runs/run"]
      PROVE  Goal
  <2>1. Unmoved => Unmoved' BY <1>4 DEF Unmoved
  <2>2. RunStage(compat, FALSE) => RunStage(compat, FALSE)' BY <1>4 DEF RunStage
  <2>3. Len(plan) = 3 \/ d # Len(plan)
    <3> DEFINE n == Len(plan)
    <3>1. n \in {1, 3, 4} /\ n # 1 /\ d \in {1, 2, 3} BY <1>0, <1>4
    <3> HIDE DEF n
    <3>2. n = 3 \/ d # n BY <3>1
    <3> QED BY <3>2 DEF n
  <2> QED BY <1>1, <1>4, <2>1, <2>2, <2>3
<1> HIDE DEF Goal
<1>5. CASE Len(plan) # 1 /\ d = 1 /\ plan[d] = Op("claude-org", "swap-tmp")
  <2>1. \A r \in Paths : tree'[r] = IF r = "swap-tmp" THEN Absent
                                    ELSE IF r = "claude-org" THEN tree["swap-tmp"] ELSE tree[r]
    <3>1. tree' = Renamed("swap-tmp", "claude-org") BY <1>5, OpIs
    <3> QED BY <3>1, RenamedIs DEF Paths
  <2>2. SwapStage(compat, 1) BY <1>1, <1>5
  <2>3. SwapStage(compat, 0)' BY <2>1, <2>2 DEF SwapStage, Left, Paths
  <2> QED BY <1>4, <1>5, <2>1, <2>3 DEF Paths
<1>6. CASE Len(plan) # 1 /\ d = 2 /\ plan[d] = Op("claude-org-en", "claude-org")
  <2>1. \A r \in Paths : tree'[r] = IF r = "claude-org" THEN Absent
                                    ELSE IF r = "claude-org-en" THEN tree["claude-org"] ELSE tree[r]
    <3>1. tree' = Renamed("claude-org", "claude-org-en") BY <1>6, OpIs
    <3> QED BY <3>1, RenamedIs DEF Paths
  <2>2. SwapStage(compat, 2) /\ tree["claude-org-en"] = Absent BY <1>1, <1>6, OpIs DEF Bare
  <2>3. SwapStage(compat, 1)' BY <2>1, <2>2 DEF SwapStage, Left, Paths
  <2> QED BY <1>4, <1>6, <2>1, <2>3 DEF Paths
<1>7. CASE Len(plan) # 1 /\ d = 3 /\ plan[d] = Op("swap-tmp", "claude-org-ja")
  <2>1. \A r \in Paths : tree'[r] = IF r = "claude-org-ja" THEN Absent
                                    ELSE IF r = "swap-tmp" THEN tree["claude-org-ja"] ELSE tree[r]
    <3>1. tree' = Renamed("claude-org-ja", "swap-tmp") BY <1>7, OpIs
    <3> QED BY <3>1, RenamedIs DEF Paths
  <2>2. SwapStage(compat, 3) BY <1>1, <1>7
  <2>3. SwapStage(compat, 2)' BY <2>1, <2>2 DEF SwapStage, Left, Paths
  <2> QED BY <1>4, <1>7, <2>1, <2>3 DEF Paths
<1> QED BY <1>3, <1>5, <1>6, <1>7, OpsOfPlan

\* Which plans there are.
LEMMA BuiltPlan ==
  \/ SwapAlreadyDone /\ Moved /\ BuildPlan = << >>
  \/ BuildPlan \in Plans /\ (SwapAlreadyDone <=> Len(BuildPlan) = 1) /\ (Moved <=> Len(BuildPlan) = 3)
<1> DEFINE w == <<RunOp>>
           s == Swap
           e == << >>
<1>1. RunOp \in MigStep BY DEF RunOp, Op, MigStep, Paths
<1>2. s \in Seq(MigStep) /\ Len(s) = 3
  <2>1. s \in Plans BY DEF Plans
  <2>2. Len(s) = 3 BY DEF Swap
  <2> QED BY <2>1, <2>2, PlansAre
<1>3. w \in Seq(MigStep) /\ Len(w) = 1 /\ e \in Seq(MigStep) /\ Len(e) = 0 BY <1>1
<1>4. BuildPlan = (IF SwapAlreadyDone THEN e ELSE s) \o (IF Moved THEN e ELSE w)
  BY DEF BuildPlan, RunOp
<1>5. e \o e = e /\ e \o w = w /\ s \o e = s BY <1>2, <1>3, ConcatEmptySeq
<1>6. Len(s \o w) = 4
  <2>1. Len(s \o w) = Len(s) + Len(w) BY <1>2, <1>3, ConcatProperties
  <2> QED BY <1>2, <1>3, <2>1
<1>7. s \in Plans /\ s \o w \in Plans /\ w \in Plans BY DEF Plans
<1> HIDE DEF s, w, e
<1>8. CASE SwapAlreadyDone /\ Moved BY <1>4, <1>5, <1>8 DEF e
<1>9. CASE SwapAlreadyDone /\ ~Moved BY <1>3, <1>4, <1>5, <1>7, <1>9
<1>10. CASE ~SwapAlreadyDone /\ Moved 
  <2>1. BuildPlan = s BY <1>4, <1>5, <1>10
  <2>2. Len(BuildPlan) = 3 BY <1>2, <2>1
  <2> QED BY <1>7, <1>10, <2>1, <2>2
<1>11. CASE ~SwapAlreadyDone /\ ~Moved 
  <2>1. BuildPlan = s \o w BY <1>4, <1>11
  <2>2. Len(BuildPlan) = 4 BY <1>6, <2>1
  <2> QED BY <1>7, <1>11, <2>1, <2>2
<1> QED BY <1>8, <1>9, <1>10, <1>11

\* The preflight asks the file system for what no earlier operation touches.
LEMMA Untouched ==
  ASSUME NEW plan \in Plans, Preflight(plan)
  PROVE  /\ Len(plan) # 1 => /\ Exists("claude-org") /\ ~Exists("swap-tmp")
                             /\ Exists("claude-org-en") /\ ~Exists("claude-org-ja")
         /\ Len(plan) # 3 => Exists("run") /\ ~Exists("_runs/run")
<1> HIDE DEF Exists
<1>1. /\ DOMAIN plan = 1..Len(plan) /\ Len(plan) \in {1, 3, 4} BY PlansAre
<1>2. \A k \in DOMAIN plan : \A p : Touching(plan, k, p) = {} => Present(plan, k, p) = Exists(p)
  BY DEF Present
<1>3. \A k \in DOMAIN plan : /\ Touching(plan, k, plan[k].src) = {} => Exists(plan[k].src)
                             /\ Touching(plan, k, plan[k].dst) = {} => ~Exists(plan[k].dst)
  BY <1>2 DEF Preflight
<1>4. ASSUME NEW k \in DOMAIN plan, NEW p, \A j \in 1..k - 1 : p \notin {plan[j].src, plan[j].dst}
      PROVE  Touching(plan, k, p) = {}
  BY <1>4 DEF Touching
<1>5. ASSUME Len(plan) # 1
      PROVE  /\ Exists("claude-org") /\ ~Exists("swap-tmp")
             /\ Exists("claude-org-en") /\ ~Exists("claude-org-ja")
  <2>1. {1, 2, 3} \subseteq DOMAIN plan BY <1>1, <1>5
  <2>2. /\ plan[1].src = "claude-org" /\ plan[1].dst = "swap-tmp"
        /\ plan[2].src = "claude-org-en" /\ plan[2].dst = "claude-org"
        /\ plan[3].src = "swap-tmp" /\ plan[3].dst = "claude-org-ja"
    BY <1>5, PlansAre, OpIs
  <2>3. \A p : Touching(plan, 1, p) = {} BY <1>4, <2>1
  <2>4. Touching(plan, 2, "claude-org-en") = {}
    <3>1. \A j \in 1..2 - 1 : j = 1 OBVIOUS
    <3> QED BY <1>4, <2>1, <2>2, <3>1
  <2>5. Touching(plan, 3, "claude-org-ja") = {}
    <3>1. \A j \in 1..3 - 1 : j = 1 \/ j = 2 OBVIOUS
    <3> QED BY <1>4, <2>1, <2>2, <3>1
  <2> QED BY <1>3, <2>1, <2>2, <2>3, <2>4, <2>5
<1>6. ASSUME Len(plan) # 3
      PROVE  Exists("run") /\ ~Exists("_runs/run")
  <2>1. CASE Len(plan) = 1
    <3>1. 1 \in DOMAIN plan /\ plan[1].src = "run" /\ plan[1].dst = "_runs/run"
      BY <1>1, <2>1, PlansAre, OpIs DEF RunOp
    <3>2. \A p : Touching(plan, 1, p) = {} BY <1>4, <3>1
    <3> QED BY <1>3, <3>1, <3>2
  <2>2. CASE Len(plan) = 4
    <3>1. 4 \in DOMAIN plan /\ plan[4].src = "run" /\ plan[4].dst = "_runs/run"
      BY <1>1, <2>2, PlansAre, OpIs DEF RunOp
    <3>2. \A j \in {1, 2, 3} : {plan[j].src, plan[j].dst} \subseteq
                                 {"claude-org", "claude-org-en", "claude-org-ja", "swap-tmp"}
      BY <2>2, PlansAre, OpIs
    <3>3. \A j \in 1..4 - 1 : j \in {1, 2, 3} OBVIOUS
    <3>4. \A p \in {"run", "_runs/run"} : Touching(plan, 4, p) = {} BY <1>4, <3>1, <3>2, <3>3
    <3> QED BY <1>3, <3>1, <3>4
  <2> QED BY <1>1, <1>6, <2>1, <2>2
<1> QED BY <1>5, <1>6

\* What the preflight lets pass is as the plan takes it to be.
LEMMA StageStarts ==
  ASSUME Placed, NEW plan \in Plans, plan = BuildPlan, Preflight(plan), NEW compat \in BOOLEAN,
         tree' = tree, past'.tree = tree
  PROVE  Stage(plan, compat, 0)'
<1> HIDE DEF Absent, Dir, Link, Links
<1>1. Len(plan) \in {1, 3, 4} /\ (0 = Len(plan)) = FALSE BY PlansAre
<1>2. (SwapAlreadyDone <=> Len(plan) = 1) /\ (Moved <=> Len(plan) = 3)
  <2>1. plan # << >> BY <1>1
  <2> QED BY <2>1, BuiltPlan
<1>3. \A p : /\ tree[p] = Absent => ~Exists(p)
             /\ \A d : tree[p] = Dir(d) => Exists(p)
  BY ContentsDiffer DEF Exists
<1>4. Len(plan) # 1 => SwapStage(compat, 0)'
  <2> SUFFICES ASSUME Len(plan) # 1 PROVE SwapStage(compat, 0)' OBVIOUS
  <2>1. Exists("claude-org") /\ ~Exists("swap-tmp") /\ Exists("claude-org-en") /\ ~Exists("claude-org-ja")
    BY Untouched
  <2>2. tree["claude-org-ja"] = Absent BY <1>3, <2>1 DEF Placed
  <2>3. tree["swap-tmp"] = Absent BY <1>3, <2>1, <2>2, ContentsDiffer DEF Placed
  <2>4. tree["claude-org"] = Dir("ja") BY <2>2, <2>3, ContentsDiffer DEF Placed
  <2>5. tree["claude-org-en"] = Dir("en") BY <2>4, ContentsDiffer DEF Placed
  <2> QED BY <2>2, <2>3, <2>4, <2>5 DEF SwapStage
<1>5. Len(plan) = 1 => Unswapped'
  <2> SUFFICES ASSUME Len(plan) = 1 PROVE Unswapped' OBVIOUS
  <2>1. ~Exists("claude-org-en") /\ Exists("claude-org-ja") BY <1>2 DEF SwapAlreadyDone
  <2>2. tree["claude-org-ja"] = Dir("ja") /\ tree["claude-org"] = Dir("en") BY <1>3, <2>1 DEF Placed
  <2> QED BY <2>2 DEF Unswapped
<1>6. Len(plan) = 3 => Unmoved'
  <2> SUFFICES ASSUME Len(plan) = 3 PROVE Unmoved' OBVIOUS
  <2>1. Exists("_runs/run") BY <1>2 DEF Moved
  <2>2. tree["_runs/run"] = Dir("run") BY <1>3, <2>1 DEF Placed
  <2> QED BY <2>2 DEF Unmoved
<1>7. Len(plan) # 3 => RunStage(compat, FALSE)'
  <2> SUFFICES ASSUME Len(plan) # 3 PROVE RunStage(compat, FALSE)' OBVIOUS
  <2>1. ~Exists("_runs/run") BY Untouched
  <2>2. tree["_runs/run"] = Absent /\ tree["run"] = Dir("run") BY <1>3, <2>1 DEF Placed
  <2> QED BY <2>2 DEF RunStage
<1> QED BY <1>1, <1>4, <1>5, <1>6, <1>7 DEF Stage

\* With nothing left to move, everything is in its new place.
LEMMA NothingToMove ==
  ASSUME Placed, SwapAlreadyDone, Moved
  PROVE  /\ tree["claude-org"] = Dir("en") /\ tree["claude-org-ja"] = Dir("ja")
         /\ tree["_runs/run"] = Dir("run")
<1> HIDE DEF Absent, Dir, Link, Links
<1>1. \A p : /\ tree[p] = Absent => ~Exists(p)
             /\ \A d : tree[p] = Dir(d) => Exists(p)
  BY ContentsDiffer DEF Exists
<1>2. ~Exists("claude-org-en") /\ Exists("claude-org-ja") /\ Exists("_runs/run")
  BY DEF SwapAlreadyDone, Moved
<1> QED BY <1>1, <1>2 DEF Placed

LEMMA PlacedAtFirst == MigrationInit => Placed
<1> SUFFICES ASSUME MigrationInit PROVE Placed OBVIOUS
<1>1. /\ tree["claude-org"] = Dir("ja") /\ tree["claude-org-en"] = Dir("en") /\ tree["run"] = Dir("run")
      /\ \A p \in {"claude-org-ja", "swap-tmp", "_runs/run"} : tree[p] = Absent
  BY DEF MigrationInit, Paths
<1>2. Dir("ja") # Dir("en")
  <2>1. Dir("ja")[2] # Dir("en")[2] BY ContentsDiffer
  <2> QED BY <2>1
<1> HIDE DEF Absent, Dir, Link, Links
<1> QED BY <1>1, <1>2, ContentsDiffer DEF Placed

LEMMA PlanOps == \A plan \in Plans : \A i \in DOMAIN plan : plan[i] \in Ops
<1> SUFFICES ASSUME NEW plan \in Plans, NEW i \in DOMAIN plan PROVE plan[i] \in Ops OBVIOUS
<1>1. i \in 1..Len(plan) BY PlansAre
<1> QED BY <1>1, OpsOfPlan DEF Ops

LEMMA OpsMove ==
  ASSUME NEW op \in Ops
  PROVE  op.src \in Paths /\ op.dst \in Paths /\ op.src # op.dst
BY OpIs DEF Ops, RunOp, Paths

LEMMA JaIsNotEn == Dir("ja") # Dir("en")
<1>1. Dir("ja")[2] # Dir("en")[2] BY ContentsDiffer
<1> QED BY <1>1

\* An operation moves a directory, and nothing else.
LEMMA PlacedDone ==
  ASSUME Placed, tree \in [Paths -> Content], NEW op \in Ops, CanRename(op.src, op.dst),
         tree' = Renamed(op.src, op.dst), tree[op.src] \notin Links,
         op.src = "claude-org" => tree["claude-org"] = Dir("ja")
  PROVE  Placed'
<1> HIDE DEF Absent, Dir, Link, Links
<1>1. \A r \in Paths : tree'[r] = IF r = op.src THEN Absent ELSE IF r = op.dst THEN tree[op.src] ELSE tree[r]
  BY OpsMove, RenamedIs
<1>2. CASE op = Op("claude-org", "swap-tmp")
  <2>1. op.src = "claude-org" /\ op.dst = "swap-tmp" BY <1>2, OpIs
  <2> QED BY <1>1, <2>1, ContentsDiffer, JaIsNotEn DEF Placed, CanRename, Paths
<1>3. CASE op = Op("claude-org-en", "claude-org")
  <2>1. op.src = "claude-org-en" /\ op.dst = "claude-org" BY <1>3, OpIs
  <2> QED BY <1>1, <2>1, ContentsDiffer, JaIsNotEn DEF Placed, CanRename, Paths
<1>4. CASE op = Op("swap-tmp", "claude-org-ja")
  <2>1. op.src = "swap-tmp" /\ op.dst = "claude-org-ja" BY <1>4, OpIs
  <2> QED BY <1>1, <2>1, ContentsDiffer, JaIsNotEn DEF Placed, CanRename, Paths
<1>5. CASE op = RunOp
  <2>1. op.src = "run" /\ op.dst = "_runs/run" BY <1>5, OpIs DEF RunOp
  <2> QED BY <1>1, <2>1, ContentsDiffer, JaIsNotEn DEF Placed, CanRename, Paths
<1> QED BY <1>2, <1>3, <1>4, <1>5 DEF Ops

LEMMA PlacedUndone ==
  ASSUME Placed, tree \in [Paths -> Content], NEW op \in Ops, CanRename(op.dst, op.src),
         tree' = Renamed(op.dst, op.src)
  PROVE  Placed'
<1> HIDE DEF Absent, Dir, Link, Links
<1>1. \A r \in Paths : tree'[r] = IF r = op.dst THEN Absent ELSE IF r = op.src THEN tree[op.dst] ELSE tree[r]
  BY OpsMove, RenamedIs
<1>2. CASE op = Op("claude-org", "swap-tmp")
  <2>1. op.src = "claude-org" /\ op.dst = "swap-tmp" BY <1>2, OpIs
  <2> QED BY <1>1, <2>1, ContentsDiffer, JaIsNotEn DEF Placed, CanRename, Paths
<1>3. CASE op = Op("claude-org-en", "claude-org")
  <2>1. op.src = "claude-org-en" /\ op.dst = "claude-org" BY <1>3, OpIs
  <2> QED BY <1>1, <2>1, ContentsDiffer, JaIsNotEn DEF Placed, CanRename, Paths
<1>4. CASE op = Op("swap-tmp", "claude-org-ja")
  <2>1. op.src = "swap-tmp" /\ op.dst = "claude-org-ja" BY <1>4, OpIs
  <2> QED BY <1>1, <2>1, ContentsDiffer, JaIsNotEn DEF Placed, CanRename, Paths
<1>5. CASE op = RunOp
  <2>1. op.src = "run" /\ op.dst = "_runs/run" BY <1>5, OpIs DEF RunOp
  <2> QED BY <1>1, <2>1, ContentsDiffer, JaIsNotEn DEF Placed, CanRename, Paths
<1> QED BY <1>2, <1>3, <1>4, <1>5 DEF Ops

\* A link is made where nothing stands, to what does, and removed without a trace.
LEMMA PlacedLinked ==
  ASSUME Placed, tree \in [Paths -> Content], NEW op \in Ops,
         \/ tree[op.src] = Absent /\ tree[op.dst] # Absent /\ tree' = [tree EXCEPT ![op.src] = Link(op.dst)]
         \/ tree[op.src][1] = "link" /\ tree' = [tree EXCEPT ![op.src] = Absent]
  PROVE  Placed'
<1> HIDE DEF Absent, Dir, Link, Links
<1>1. PICK c \in {Absent, Link(op.dst)} :
        /\ \A r \in Paths : tree'[r] = IF r = op.src THEN c ELSE tree[r]
        /\ c = Link(op.dst) => tree[op.src] = Absent /\ tree[op.dst] # Absent
        /\ c = Absent => tree[op.src][1] = "link"
  <2>1. op.src \in Paths BY OpsMove
  <2>2. CASE tree[op.src] = Absent /\ tree[op.dst] # Absent /\ tree' = [tree EXCEPT ![op.src] = Link(op.dst)]
    BY <2>1, <2>2, ContentsDiffer
  <2>3. CASE tree[op.src][1] = "link" /\ tree' = [tree EXCEPT ![op.src] = Absent]
    BY <2>1, <2>3, ContentsDiffer
  <2> QED BY <2>2, <2>3
<1>2. c \in {Absent} \union Links BY OpsMove, ContentsDiffer
<1>3. tree[op.src] \notin {Dir("ja"), Dir("en"), Dir("run")}
  BY <1>1, ContentsDiffer
<1>4. CASE op = Op("claude-org", "swap-tmp")
  <2>1. op.src = "claude-org" BY <1>4, OpIs
  <2> QED BY <1>1, <1>2, <1>3, <2>1, ContentsDiffer DEF Placed, Paths
<1>5. CASE op = Op("claude-org-en", "claude-org")
  <2>1. op.src = "claude-org-en" BY <1>5, OpIs
  <2> QED BY <1>1, <1>2, <1>3, <2>1, ContentsDiffer DEF Placed, Paths
<1>6. CASE op = Op("swap-tmp", "claude-org-ja")
  <2>1. op.src = "swap-tmp" /\ op.dst = "claude-org-ja" BY <1>6, OpIs
  <2>2. c \in Links => tree["claude-org-ja"] = Dir("ja") BY <1>1, <2>1, ContentsDiffer DEF Placed
  <2> QED BY <1>1, <1>2, <1>3, <2>1, <2>2, ContentsDiffer DEF Placed, Paths
<1>7. CASE op = RunOp
  <2>1. op.src = "run" BY <1>7, OpIs DEF RunOp
  <2> QED BY <1>1, <1>2, <1>3, <2>1, ContentsDiffer DEF Placed, Paths
<1> QED BY <1>4, <1>5, <1>6, <1>7 DEF Ops

LEMMA StageStays ==
  ASSUME tree' = tree, past'.tree = past.tree, NEW plan, NEW compat, NEW d
  PROVE  Stage(plan, compat, d)' <=> Stage(plan, compat, d)
BY DEF Stage, SwapStage, Unswapped, RunStage, Unmoved

\* Where an apply is.
LEMMA ApplyIs ==
  ASSUME MigInv, tool.at \in Applying
  PROVE  /\ tool.plan \in Plans /\ tool.compat \in BOOLEAN /\ tool.k \in 1..Len(tool.plan)
         /\ Current = tool.plan[tool.k] /\ Current \in Ops /\ tool.k \in Nat
         /\ Len(executed) \in Nat /\ DOMAIN executed = 1..Len(executed)
         /\ tree \in [Paths -> Content] /\ executed \in Seq(MigEntry)
<1>1. tool.plan \in Plans BY DEF MigInv, ApplyGoesRight, Manifest, Applying
<1>2. tool.k \in 1..Len(tool.plan) BY DEF MigInv, MigTyped
<1>3. DOMAIN tool.plan = 1..Len(tool.plan) BY <1>1, PlansAre
<1>4. Current \in Ops BY <1>1, <1>2, <1>3, PlanOps DEF Current
<1> QED BY <1>1, <1>2, <1>4 DEF MigInv, MigTyped, Current

LEMMA StartApplyGoesRight ==
  ASSUME MigInv, StartApply
  PROVE  Placed' /\ ApplyGoesRight' /\ RollbackGoesRight' /\ AppliedIsPlaced' /\ OpsArePlanned'
         /\ AtRunning' /\ PastTyped'
<1>1. /\ tree' = tree /\ executed' = << >> /\ past' = [tree |-> tree, torn |-> FALSE, rollbacks |-> 0]
      /\ Preflight(BuildPlan)
  BY DEF StartApply, Ready
<1>2. past'.tree = tree /\ past'.torn = FALSE /\ past'.rollbacks = 0 BY <1>1
<1>3. Placed' BY <1>1 DEF MigInv, Placed
<1>4. OpsArePlanned' /\ PastTyped' BY <1>1 DEF MigInv, MigTyped, OpsArePlanned, PastTyped
<1>5. CASE BuildPlan = << >>
  <2>1. tool' = [NoTool EXCEPT !.at = "applied"] BY <1>5 DEF StartApply
  <2>2. tool'.at = "applied" BY <2>1 DEF NoTool
  <2>3. SwapAlreadyDone /\ Moved
    <3>1. BuildPlan \notin Plans
      <4>1. \A plan \in Plans : Len(plan) # 0 BY PlansAre
      <4> QED BY <4>1, <1>5
    <3> QED BY <3>1, BuiltPlan
  <2>4. AppliedIsPlaced' BY <1>1, <2>3, NothingToMove DEF MigInv, AppliedIsPlaced
  <2>5. ApplyGoesRight' /\ AtRunning' BY <2>2 DEF ApplyGoesRight, AtRunning
  <2>6. RollbackGoesRight' BY <1>1, <1>2, <2>2 DEF RollbackGoesRight
  <2> QED BY <1>3, <1>4, <2>4, <2>5, <2>6
<1>6. CASE BuildPlan # << >>
  <2>1. PICK compat \in BOOLEAN :
          tool' = [at |-> "announce", plan |-> BuildPlan, k |-> 1, compat |-> compat]
    BY <1>6 DEF StartApply
  <2> DEFINE plan == BuildPlan
  <2>2. plan \in Plans BY <1>6, BuiltPlan
  <2>3. PICK q : q = plan OBVIOUS
  <2>4. /\ tool'.at = "announce" /\ tool'.plan = q /\ tool'.k = 1 /\ tool'.compat = compat
    BY <2>1, <2>3
  <2>5. Stage(q, compat, 0)' BY <1>1, <1>2, <2>2, <2>3, StageStarts DEF MigInv
  <2>6. Manifest(q, compat)'
    <3>1. Len(executed') = 0 /\ DOMAIN executed' = {} BY <1>1
    <3>2. Len(q) \in {1, 3, 4} BY <2>2, <2>3, PlansAre
    <3> QED BY <2>2, <2>3, <3>1, <3>2 DEF Manifest
  <2>7. ApplyGoesRight'
    <3>1. Len(executed') = 0 /\ 1 - 1 = 0 BY <1>1
    <3> QED BY <1>2, <2>4, <2>5, <2>6, <3>1 DEF ApplyGoesRight, InDoubt
  <2>8. RollbackGoesRight' /\ AppliedIsPlaced' /\ AtRunning'
    BY <1>2, <2>4 DEF RollbackGoesRight, AppliedIsPlaced, AtRunning, Stopped
  <2> QED BY <1>3, <1>4, <2>7, <2>8
<1> QED BY <1>5, <1>6

\* What a step of an apply says nothing about.
LEMMA ApplyGoesOn ==
  ASSUME MigInv, tool.at \in Applying, tool'.at \in Applying, past' = past
  PROVE  RollbackGoesRight' /\ AppliedIsPlaced' /\ AtRunning' /\ PastTyped'
         /\ past'.rollbacks = 0 /\ past'.torn = FALSE
<1>1. past.rollbacks = 0 /\ past.torn = FALSE
  BY DEF MigInv, ApplyGoesRight, Applying, PastTyped
<1>2. PastTyped' BY DEF MigInv, PastTyped
<1> QED BY <1>1, <1>2 DEF RollbackGoesRight, AppliedIsPlaced, AtRunning, Stopped, Applying

LEMMA AnnounceGoesRight ==
  ASSUME MigInv, Announce
  PROVE  Placed' /\ ApplyGoesRight' /\ RollbackGoesRight' /\ AppliedIsPlaced' /\ OpsArePlanned'
         /\ AtRunning' /\ PastTyped'
<1>p. PICK p, c, k : p = tool.plan /\ c = tool.compat /\ k = tool.k OBVIOUS
<1> DEFINE e == [op |-> Current, compat |-> c, state |-> "in_progress"]
<1>0. tool.at = "announce" /\ tool.at \in Applying BY DEF Announce, Applying
<1>1. /\ p \in Plans /\ c \in BOOLEAN /\ k \in 1..Len(p) /\ k \in Nat /\ Current = p[k] /\ Current \in Ops
      /\ Len(executed) \in Nat /\ DOMAIN executed = 1..Len(executed) /\ executed \in Seq(MigEntry)
  BY <1>0, <1>p, ApplyIs
<1>2. /\ executed' = Append(executed, e) /\ tree' = tree /\ past' = past
      /\ tool' = [tool EXCEPT !.at = "rename"]
  BY <1>p DEF Announce, StepTo
<1>3. tool'.at = "rename" /\ tool'.plan = p /\ tool'.k = k /\ tool'.compat = c
  BY <1>2, <1>p DEF MigInv, MigTyped
<1>4. Manifest(p, c) /\ Len(executed) = k - 1 /\ ~InDoubt(Len(executed)) /\ Stage(p, c, k - 1)
  BY <1>0, <1>p DEF MigInv, ApplyGoesRight
<1>5. e \in MigEntry /\ e.op = p[k] /\ e.compat = c /\ e.state = "in_progress"
  <2>1. Current \in MigStep BY <1>1, OpsMove, OpIs DEF Ops, RunOp, Op, MigStep, Paths
  <2> QED BY <1>1, <2>1 DEF MigEntry
<1> HIDE DEF e
<1>6. /\ Len(executed') = k /\ DOMAIN executed' = 1..k /\ executed'[k] = e
      /\ \A j \in 1..k - 1 : j \in DOMAIN executed /\ executed'[j] = executed[j]
  BY <1>1, <1>2, <1>4, <1>5
<1>7. Manifest(p, c)'
  <2>1. \A j \in 1..k : j = k \/ j \in 1..k - 1 BY <1>1
  <2>2. k <= Len(p)
    <3>1. Len(p) \in Nat BY <1>1, PlansAre
    <3> QED BY <1>1, <3>1
  <2>3. \A j \in DOMAIN executed' : executed'[j].op = p[j] /\ executed'[j].compat = c
    BY <1>4, <1>5, <1>6, <2>1 DEF Manifest
  <2>4. \A j \in 1..k - 1 : executed[j].state = "completed"
    <3> SUFFICES ASSUME NEW j \in 1..k - 1 PROVE executed[j].state = "completed" OBVIOUS
    <3>1. j \in DOMAIN executed BY <1>6
    <3>2. executed[j] \in MigEntry BY <1>1, <3>1
    <3>3. CASE j < Len(executed) BY <1>4, <3>1, <3>3 DEF Manifest
    <3>4. CASE j = Len(executed) BY <1>1, <1>4, <3>1, <3>2, <3>4 DEF InDoubt, MigEntry
    <3> QED BY <1>1, <1>4, <3>3, <3>4
  <2>5. \A j \in DOMAIN executed' : j < k => executed'[j].state = "completed"
    BY <1>1, <1>6, <2>1, <2>4
  <2> QED BY <1>1, <1>6, <2>2, <2>3, <2>5 DEF Manifest
<1>8. InDoubt(k)' BY <1>1, <1>5, <1>6 DEF InDoubt
<1>9. Stage(p, c, k - 1)' BY <1>2, <1>4, StageStays
<1>10. tool'.at \in Applying BY <1>3 DEF Applying
<1>11. ApplyGoesRight'
  BY <1>0, <1>2, <1>3, <1>6, <1>7, <1>8, <1>9, <1>10, ApplyGoesOn DEF ApplyGoesRight
<1>12. Placed' BY <1>2 DEF MigInv, Placed
<1>13. OpsArePlanned'
  <2>1. \A j \in 1..k : j = k \/ j \in 1..k - 1 BY <1>1
  <2> QED BY <1>1, <1>5, <1>6, <2>1 DEF MigInv, OpsArePlanned
<1> QED BY <1>0, <1>2, <1>10, <1>11, <1>12, <1>13, ApplyGoesOn

LEMMA RenameGoesRight ==
  ASSUME MigInv, Rename
  PROVE  Placed' /\ ApplyGoesRight' /\ RollbackGoesRight' /\ AppliedIsPlaced' /\ OpsArePlanned'
         /\ AtRunning' /\ PastTyped'
<1>p. PICK p, c, k : p = tool.plan /\ c = tool.compat /\ k = tool.k OBVIOUS
<1>0. tool.at = "rename" /\ tool.at \in Applying BY DEF Rename, Applying
<1>1. /\ p \in Plans /\ c \in BOOLEAN /\ k \in 1..Len(p) /\ k \in Nat /\ Current = p[k] /\ Current \in Ops
      /\ tree \in [Paths -> Content]
  BY <1>0, <1>p, ApplyIs
<1>2. /\ executed' = executed /\ past' = past /\ CanRename(p[k].src, p[k].dst)
      /\ tree' = Renamed(p[k].src, p[k].dst)
      /\ tool' = [tool EXCEPT !.at = IF c THEN "junction" ELSE "complete"]
  BY <1>1, <1>p DEF Rename, StepTo
<1>3. /\ tool'.at \in {"junction", "complete"} /\ tool'.plan = p /\ tool'.k = k /\ tool'.compat = c
      /\ tool'.at = "junction" => c
  BY <1>1, <1>2, <1>p DEF MigInv, MigTyped
<1>4. Manifest(p, c) /\ Len(executed) = k /\ InDoubt(k) /\ Stage(p, c, k - 1)
  BY <1>0, <1>p DEF MigInv, ApplyGoesRight
<1>5. Stage(p, c, k)' /\ Bare(p[k])' BY <1>1, <1>2, <1>4, StageDone
<1>6. Manifest(p, c)' /\ InDoubt(k)' /\ Len(executed') = k BY <1>2, <1>4 DEF Manifest, InDoubt
<1>7. Bare(Current)' BY <1>3, <1>5 DEF Current
<1>8. ApplyGoesRight'
  BY <1>0, <1>2, <1>3, <1>5, <1>6, <1>7, ApplyGoesOn DEF ApplyGoesRight, Applying
<1>9. Placed'
  <2>1. k - 1 \in 0..Len(p) - 1 /\ (k - 1) + 1 = k
    <3>1. Len(p) \in Nat BY <1>1, PlansAre
    <3> QED BY <1>1, <3>1
  <2>2. tree[p[k].src] \notin Links BY <1>1, <1>4, <2>1, StageNext
  <2>3. p[k].src = "claude-org" => tree["claude-org"] = Dir("ja")
    <3> SUFFICES ASSUME p[k].src = "claude-org" PROVE tree["claude-org"] = Dir("ja") OBVIOUS
    <3>1. Len(p) # 1 /\ k = 1 BY <1>1, OpsOfPlan, OpIs DEF RunOp
    <3> QED BY <1>4, <3>1 DEF Stage, SwapStage
  <2> QED BY <1>1, <1>2, <2>2, <2>3, PlacedDone DEF MigInv
<1>10. OpsArePlanned' BY <1>2 DEF MigInv, OpsArePlanned
<1> QED BY <1>0, <1>2, <1>3, <1>8, <1>9, <1>10, ApplyGoesOn DEF Applying

LEMMA JunctionGoesRight ==
  ASSUME MigInv, MakeJunction
  PROVE  Placed' /\ ApplyGoesRight' /\ RollbackGoesRight' /\ AppliedIsPlaced' /\ OpsArePlanned'
         /\ AtRunning' /\ PastTyped'
<1>p. PICK p, c, k : p = tool.plan /\ c = tool.compat /\ k = tool.k OBVIOUS
<1>0. tool.at = "junction" /\ tool.at \in Applying BY DEF MakeJunction, Applying
<1>1. /\ p \in Plans /\ c \in BOOLEAN /\ k \in 1..Len(p) /\ k \in Nat /\ Current = p[k] /\ Current \in Ops
      /\ tree \in [Paths -> Content]
  BY <1>0, <1>p, ApplyIs
<1>2. /\ executed' = executed /\ past' = past
      /\ tree' \in {tree, [tree EXCEPT ![p[k].src] = Link(p[k].dst)]}
      /\ tool' = [tool EXCEPT !.at = "complete"]
  BY <1>1, <1>p DEF MakeJunction, StepTo
<1>3. tool'.at = "complete" /\ tool'.plan = p /\ tool'.k = k /\ tool'.compat = c
  BY <1>2, <1>p DEF MigInv, MigTyped
<1>4. Manifest(p, c) /\ Len(executed) = k /\ InDoubt(k) /\ Stage(p, c, k) /\ Bare(p[k]) /\ c = TRUE
  <2>1. /\ Manifest(p, c) /\ Len(executed) = k /\ InDoubt(Len(executed)) /\ Stage(p, c, k)
        /\ Bare(Current) /\ tool.compat
    BY <1>0, <1>p DEF MigInv, ApplyGoesRight
  <2> QED BY <1>1, <1>p, <2>1
<1>5. CASE tree' = tree
  <2>1. Stage(p, c, k)' BY <1>2, <1>4, <1>5, StageStays
  <2>2. Placed' BY <1>5 DEF MigInv, Placed
  <2>3. Manifest(p, c)' /\ InDoubt(k)' /\ Len(executed') = k BY <1>2, <1>4 DEF Manifest, InDoubt
  <2>4. ApplyGoesRight'
    BY <1>0, <1>2, <1>3, <2>1, <2>3, ApplyGoesOn DEF ApplyGoesRight, Applying
  <2>5. OpsArePlanned' BY <1>2 DEF MigInv, OpsArePlanned
  <2> QED BY <1>0, <1>2, <1>3, <2>2, <2>4, <2>5, ApplyGoesOn DEF Applying
<1>6. CASE tree' = [tree EXCEPT ![p[k].src] = Link(p[k].dst)]
  <2>1. Link(p[k].dst) \in Left(c, p[k].dst) BY <1>4 DEF Left
  <2>2. Stage(p, c, k)' BY <1>1, <1>2, <1>4, <1>6, <2>1, StageLinks
  <2>3. tree[p[k].dst] # Absent BY <1>1, <1>4, StageLast
  <2>4. Placed' BY <1>1, <1>4, <1>6, <2>3, PlacedLinked DEF MigInv, Bare
  <2>5. Manifest(p, c)' /\ InDoubt(k)' /\ Len(executed') = k BY <1>2, <1>4 DEF Manifest, InDoubt
  <2>6. ApplyGoesRight'
    BY <1>0, <1>2, <1>3, <2>2, <2>5, ApplyGoesOn DEF ApplyGoesRight, Applying
  <2>7. OpsArePlanned' BY <1>2 DEF MigInv, OpsArePlanned
  <2> QED BY <1>0, <1>2, <1>3, <2>4, <2>6, <2>7, ApplyGoesOn DEF Applying
<1> QED BY <1>2, <1>5, <1>6

LEMMA CompleteGoesRight ==
  ASSUME MigInv, MarkCompleted
  PROVE  Placed' /\ ApplyGoesRight' /\ RollbackGoesRight' /\ AppliedIsPlaced' /\ OpsArePlanned'
         /\ AtRunning' /\ PastTyped'
<1>p. PICK p, c, k : p = tool.plan /\ c = tool.compat /\ k = tool.k OBVIOUS
<1>0. tool.at = "complete" /\ tool.at \in Applying BY DEF MarkCompleted, Applying
<1>1. /\ p \in Plans /\ c \in BOOLEAN /\ k \in 1..Len(p) /\ k \in Nat /\ Current = p[k] /\ Current \in Ops
      /\ tree \in [Paths -> Content] /\ executed \in Seq(MigEntry) /\ DOMAIN executed = 1..Len(executed)
      /\ Len(p) \in {1, 3, 4}
  BY <1>0, <1>p, ApplyIs, PlansAre
<1>4. /\ Manifest(p, c) /\ Len(executed) = k /\ Stage(p, c, k)
      /\ past.rollbacks = 0 /\ past.torn = FALSE
  BY <1>0, <1>p DEF MigInv, ApplyGoesRight, PastTyped
<1>2. /\ executed' = [executed EXCEPT ![k].state = "completed"] /\ past' = past /\ tree' = tree
      /\ tool' = IF k = Len(p) THEN [NoTool EXCEPT !.at = "applied"]
                 ELSE [tool EXCEPT !.at = "announce", !.k = k + 1]
  BY <1>p, <1>4 DEF MarkCompleted, Onward
<1>3. /\ Len(executed') = k /\ DOMAIN executed' = 1..k
      /\ \A j \in 1..k : executed'[j].op = executed[j].op /\ executed'[j].compat = executed[j].compat
      /\ \A j \in 1..k : j # k => executed'[j] = executed[j]
      /\ executed'[k].state = "completed"
  <2> DEFINE e == [executed[k] EXCEPT !.state = "completed"]
  <2>1. executed[k] \in MigEntry /\ k \in DOMAIN executed BY <1>1, <1>4
  <2>2. e \in MigEntry /\ e.op = executed[k].op /\ e.compat = executed[k].compat /\ e.state = "completed"
    BY <2>1 DEF MigEntry
  <2>3. executed' = [executed EXCEPT ![k] = e] BY <1>2
  <2> HIDE DEF e
  <2> QED BY <1>1, <1>4, <2>1, <2>2, <2>3
<1>5. Manifest(p, c)'
  <2>1. Len(executed') <= Len(p) BY <1>3, <1>4 DEF Manifest
  <2>2. \A j \in DOMAIN executed' : executed'[j].op = p[j] /\ executed'[j].compat = c
    BY <1>1, <1>3, <1>4 DEF Manifest
  <2>3. \A j \in DOMAIN executed' : j < k => executed'[j].state = "completed"
    BY <1>1, <1>3, <1>4 DEF Manifest
  <2> QED BY <1>1, <1>3, <2>1, <2>2, <2>3 DEF Manifest
<1>6. ~InDoubt(k)' BY <1>3 DEF InDoubt
<1>7. Stage(p, c, k)' BY <1>2, <1>4, StageStays
<1>8. Placed' BY <1>2 DEF MigInv, Placed
<1>9. OpsArePlanned' BY <1>1, <1>3, <1>4 DEF MigInv, OpsArePlanned
<1>10. CASE k # Len(p)
  <2>1. tool'.at = "announce" /\ tool'.plan = p /\ tool'.k = k + 1 /\ tool'.compat = c
    <3>1. tool' = [tool EXCEPT !.at = "announce", !.k = k + 1] BY <1>2, <1>10
    <3> QED BY <1>p, <3>1 DEF MigInv, MigTyped
  <2>2. (k + 1) - 1 = k BY <1>1
  <2>3. ApplyGoesRight'
    BY <1>0, <1>2, <1>3, <1>5, <1>6, <1>7, <2>1, <2>2, ApplyGoesOn DEF ApplyGoesRight, Applying
  <2> QED BY <1>0, <1>2, <1>8, <1>9, <2>1, <2>3, ApplyGoesOn DEF Applying
<1>11. CASE k = Len(p)
  <2>1. tool'.at = "applied"
    <3>1. tool' = [NoTool EXCEPT !.at = "applied"] BY <1>2, <1>11
    <3> QED BY <3>1 DEF NoTool
  <2>2. ApplyGoesRight' /\ AtRunning' BY <2>1 DEF ApplyGoesRight, AtRunning
  <2>3. RollbackGoesRight'
    <3>1. Told(p, c, k)' BY <1>3, <1>6, <1>7 DEF Told
    <3>2. executed' # << >> BY <1>1, <1>3
    <3> QED BY <1>1, <1>2, <1>3, <1>4, <1>5, <2>1, <3>1, <3>2 DEF RollbackGoesRight
  <2>4. AppliedIsPlaced'
    <3>1. k \in {1, 3, 4} BY <1>1, <1>11
    <3>2. tree["claude-org"] = Dir("en") /\ tree["claude-org-ja"] = Dir("ja")
      <4>1. CASE Len(p) = 1 BY <1>4, <4>1 DEF Stage, Unswapped
      <4>2. CASE Len(p) # 1
        <5>1. k \in {3, 4} BY <1>11, <3>1, <4>2
        <5> QED BY <1>4, <4>2, <5>1 DEF Stage, SwapStage
      <4> QED BY <4>1, <4>2
    <3>3. tree["_runs/run"] = Dir("run")
      <4>1. CASE Len(p) = 3 BY <1>4, <4>1 DEF Stage, Unmoved
      <4>2. CASE Len(p) # 3
        <5>1. RunStage(c, TRUE) BY <1>4, <1>11, <4>2, k = Len(p) DEF Stage
        <5> QED BY <5>1 DEF RunStage
      <4> QED BY <4>1, <4>2
    <3> QED BY <1>2, <3>2, <3>3 DEF AppliedIsPlaced
  <2>5. PastTyped' BY <1>2 DEF MigInv, PastTyped
  <2> QED BY <1>8, <1>9, <2>2, <2>3, <2>4, <2>5
<1> QED BY <1>10, <1>11

LEMMA StopApplyGoesRight ==
  ASSUME MigInv, StopApply
  PROVE  Placed' /\ ApplyGoesRight' /\ RollbackGoesRight' /\ AppliedIsPlaced' /\ OpsArePlanned'
         /\ AtRunning' /\ PastTyped'
<1>p. PICK p, c, k : p = tool.plan /\ c = tool.compat /\ k = tool.k OBVIOUS
<1>0. tool.at \in Applying BY DEF StopApply, Applying
<1>1. /\ p \in Plans /\ c \in BOOLEAN /\ k \in 1..Len(p) /\ k \in Nat /\ Current = p[k] /\ Current \in Ops
      /\ tree \in [Paths -> Content] /\ executed \in Seq(MigEntry) /\ DOMAIN executed = 1..Len(executed)
      /\ Len(executed) \in Nat
  BY <1>0, <1>p, ApplyIs
<1>2. /\ UNCHANGED <<tree, executed>> /\ tool'.at = "idle"
      /\ past'.tree = past.tree /\ past'.rollbacks = past.rollbacks /\ PastTyped'
      /\ past'.torn = (tool.at = "complete" /\ tree[p[k].src] # Absent)
  BY <1>1 DEF StopApply, NoTool, MigInv, PastTyped
<1>3. /\ Manifest(p, c)
      /\ Len(executed) = IF tool.at = "announce" THEN k - 1 ELSE k
      /\ InDoubt(Len(executed)) <=> tool.at # "announce"
      /\ Stage(p, c, IF tool.at \in {"announce", "rename"} THEN k - 1 ELSE k)
      /\ tool.at = "junction" => Bare(p[k])
  BY <1>0, <1>1, <1>p DEF MigInv, ApplyGoesRight, Applying
<1>4. ASSUME ~past'.torn, executed # << >> PROVE Told(p, c, Len(executed))
  <2>1. CASE tool.at = "announce" BY <1>3, <2>1 DEF Told
  <2>2. CASE tool.at = "rename" BY <1>3, <2>2 DEF Told
  <2>3. CASE tool.at = "junction" BY <1>3, <2>3 DEF Told
  <2>4. CASE tool.at = "complete" BY <1>2, <1>3, <1>4, <2>4 DEF Told, Bare
  <2> QED BY <1>0, <2>1, <2>2, <2>3, <2>4 DEF Applying
<1>5. Manifest(p, c)' BY <1>2, <1>3 DEF Manifest
<1>6. Told(p, c, Len(executed))' <=> Told(p, c, Len(executed))
  BY <1>2, StageStays DEF Told, InDoubt, Bare
<1>7. ASSUME executed = << >> PROVE tree = past.tree
  <2>1. Len(executed) = 0 /\ k >= 1 BY <1>1, <1>7
  <2>2. tool.at = "announce" /\ k - 1 = 0 BY <1>1, <1>3, <2>1
  <2>3. Stage(p, c, 0) BY <1>3, <2>2
  <2> QED BY <1>1, <2>3, StageZero DEF MigInv, PastTyped
<1>8. RollbackGoesRight'
  <2>1. past'.rollbacks = 0 BY <1>0, <1>2 DEF MigInv, ApplyGoesRight, Applying
  <2> QED BY <1>1, <1>2, <1>4, <1>5, <1>6, <1>7, <2>1 DEF RollbackGoesRight
<1>9. ApplyGoesRight' /\ AtRunning' /\ AppliedIsPlaced' BY <1>2 DEF ApplyGoesRight, AtRunning, AppliedIsPlaced
<1>10. Placed' /\ OpsArePlanned' BY <1>2 DEF MigInv, Placed, OpsArePlanned
<1> QED BY <1>2, <1>8, <1>9, <1>10

\* Where a rollback is.
LEMMA RollbackIs ==
  ASSUME MigInv, tool.at \in {"probe", "undo"}
  PROVE  /\ tool.k \in 1..Len(executed) /\ tool.k \in Nat /\ ManifestEntry = executed[tool.k]
         /\ ManifestEntry \in MigEntry /\ ManifestEntry.op \in Ops /\ past.rollbacks \in Nat \ {0}
         /\ tree \in [Paths -> Content] /\ Len(executed) \in Nat /\ DOMAIN executed = 1..Len(executed)
         /\ tool.k = 1 => Undone.at = "restored"
         /\ tool.k # 1 => Undone.at = "probe" /\ Undone.k = tool.k - 1
<1>1. /\ tool.k \in 1..Len(executed) /\ executed \in Seq(MigEntry) BY DEF MigInv, MigTyped
<1>2. executed[tool.k] \in MigEntry BY <1>1
<1>3. executed[tool.k].op \in Ops BY <1>1 DEF MigInv, OpsArePlanned
<1>4. past.rollbacks \in Nat \ {0} BY DEF MigInv, AtRunning, PastTyped
<1>5. tool.k = 1 => Undone.at = "restored" BY DEF Undone, NoTool
<1>6. tool.k # 1 => Undone.at = "probe" /\ Undone.k = tool.k - 1 BY DEF Undone, MigInv, MigTyped
<1> QED BY <1>1, <1>2, <1>3, <1>4, <1>5, <1>6 DEF ManifestEntry, MigInv, MigTyped

\* A rollback that is not the first, or after a torn apply, promises nothing.
LEMMA LaterRollback ==
  ASSUME past'.rollbacks # 0, past'.rollbacks # 1 \/ past'.torn
  PROVE  RollbackGoesRight'
BY DEF RollbackGoesRight

LEMMA StartRollbackGoesRight ==
  ASSUME MigInv, StartRollback
  PROVE  Placed' /\ ApplyGoesRight' /\ RollbackGoesRight' /\ AppliedIsPlaced' /\ OpsArePlanned'
         /\ AtRunning' /\ PastTyped'
<1>1. /\ UNCHANGED <<tree, executed>> /\ past'.tree = past.tree /\ past'.torn = past.torn
      /\ past'.rollbacks = past.rollbacks + 1 /\ past.rollbacks \in Nat /\ PastTyped' /\ Stopped
  BY DEF StartRollback, MigInv, PastTyped
<1>2. /\ executed = << >> => tool'.at = "restored"
      /\ executed # << >> => tool'.at = "probe" /\ tool'.k = Len(executed)
  <2>1. CASE executed = << >>
    <3>1. tool' = [NoTool EXCEPT !.at = "restored"] BY <2>1 DEF StartRollback
    <3> QED BY <2>1, <3>1 DEF NoTool
  <2>2. CASE executed # << >>
    <3>1. tool' = [NoTool EXCEPT !.at = "probe", !.k = Len(executed)] BY <2>2 DEF StartRollback
    <3> QED BY <2>2, <3>1 DEF NoTool
  <2> QED BY <2>1, <2>2
<1>3. tool'.at \in {"restored", "probe"} BY <1>2
<1>4. ApplyGoesRight' /\ AppliedIsPlaced' BY <1>3 DEF ApplyGoesRight, AppliedIsPlaced
<1>5. AtRunning' BY <1>1 DEF AtRunning
<1>6. Placed' /\ OpsArePlanned' BY <1>1 DEF MigInv, Placed, OpsArePlanned
<1>7. \A plan, compat : \A d : /\ Manifest(plan, compat)' <=> Manifest(plan, compat)
                               /\ Told(plan, compat, d)' <=> Told(plan, compat, d)
  BY <1>1, StageStays DEF Manifest, Told, InDoubt, Bare
<1>8. RollbackGoesRight'
  <2>1. CASE past.rollbacks = 0 /\ ~past.torn
    <3>1. IF executed = << >> THEN tree = past.tree
          ELSE \E plan \in Plans, compat \in BOOLEAN :
                 Manifest(plan, compat) /\ Told(plan, compat, Len(executed))
      BY <1>1, <2>1 DEF MigInv, RollbackGoesRight
    <3>2. CASE executed = << >> BY <1>1, <1>2, <2>1, <3>1, <3>2 DEF RollbackGoesRight
    <3>3. CASE executed # << >>
      <4>1. PICK plan \in Plans, compat \in BOOLEAN :
              Manifest(plan, compat) /\ Told(plan, compat, Len(executed))
        BY <3>1, <3>3
      <4>2. PICK n : n = Len(executed) OBVIOUS
      <4>3. Manifest(plan, compat)' /\ Told(plan, compat, n)' /\ tool'.k = n /\ tool'.at = "probe"
        BY <1>2, <1>7, <3>3, <4>1, <4>2
      <4>4. past'.rollbacks = 1 BY <1>1, <2>1
      <4> QED BY <4>3, <4>4 DEF RollbackGoesRight
    <3> QED BY <3>2, <3>3
  <2>2. CASE past.rollbacks # 0 \/ past.torn BY <1>1, <2>2, LaterRollback
  <2> QED BY <2>1, <2>2
<1> QED BY <1>1, <1>4, <1>5, <1>6, <1>8

LEMMA ProbeGoesRight ==
  ASSUME MigInv, Probe
  PROVE  Placed' /\ ApplyGoesRight' /\ RollbackGoesRight' /\ AppliedIsPlaced' /\ OpsArePlanned'
         /\ AtRunning' /\ PastTyped'
<1>k. PICK k : k = tool.k OBVIOUS
<1>0. tool.at = "probe" BY DEF Probe
<1>1. /\ k \in 1..Len(executed) /\ k \in Nat /\ ManifestEntry = executed[k]
      /\ ManifestEntry \in MigEntry /\ ManifestEntry.op \in Ops /\ past.rollbacks \in Nat \ {0}
      /\ tree \in [Paths -> Content] /\ Len(executed) \in Nat /\ DOMAIN executed = 1..Len(executed)
      /\ k = 1 => Undone.at = "restored"
      /\ k # 1 => Undone.at = "probe" /\ Undone.k = k - 1
  BY <1>0, <1>k, RollbackIs
<1>2. executed' = executed /\ past' = past BY DEF Probe
<1>3. /\ NotDone => tool' = Undone /\ tree' = tree
      /\ ~NotDone => tool'.at = "undo" /\ tool'.k = k
      /\ ~NotDone => tree' = IF executed[k].compat /\ tree[executed[k].op.src][1] = "link"
                             THEN [tree EXCEPT ![executed[k].op.src] = Absent] ELSE tree
  <2>1. NotDone => tool' = Undone /\ tree' = tree BY DEF Probe
  <2>2. ~NotDone => tool' = [tool EXCEPT !.at = "undo"]
                    /\ tree' = IF executed[k].compat /\ tree[executed[k].op.src][1] = "link"
                               THEN [tree EXCEPT ![executed[k].op.src] = Absent] ELSE tree
    BY <1>1 DEF Probe
  <2>3. ~NotDone => tool'.at = "undo" /\ tool'.k = k BY <2>2, <1>k DEF MigInv, MigTyped
  <2> QED BY <2>1, <2>2, <2>3
<1>4. tool'.at \in {"restored", "probe", "undo"}
  <2>1. Undone.at \in {"restored", "probe"} BY <1>1
  <2> QED BY <1>3, <2>1
<1>5. ApplyGoesRight' /\ AppliedIsPlaced' BY <1>4 DEF ApplyGoesRight, AppliedIsPlaced
<1>6. AtRunning' /\ PastTyped' /\ OpsArePlanned'
  BY <1>1, <1>2 DEF AtRunning, PastTyped, OpsArePlanned, MigInv
<1>7. Placed'
  <2>1. CASE tree' = tree BY <2>1 DEF MigInv, Placed
  <2>2. CASE tree[executed[k].op.src][1] = "link" /\ tree' = [tree EXCEPT ![executed[k].op.src] = Absent]
    BY <1>1, <2>2, PlacedLinked DEF MigInv
  <2> QED BY <1>3, <2>1, <2>2
<1>8. RollbackGoesRight'
  <2>1. CASE past.rollbacks # 1 \/ past.torn BY <1>1, <1>2, <2>1, LaterRollback
  <2>2. CASE past.rollbacks = 1 /\ ~past.torn
    <3>1. PICK p \in Plans, c \in BOOLEAN : Manifest(p, c) /\ Told(p, c, k)
      BY <1>0, <1>k, <2>2 DEF MigInv, RollbackGoesRight
    <3>2. /\ executed[k].op = p[k] /\ executed[k].compat = c /\ k \in 1..Len(p)
          /\ k < Len(executed) => executed[k].state = "completed"
          /\ Manifest(p, c)'
      <4>1. Len(executed) <= Len(p) /\ k \in DOMAIN executed BY <1>1, <3>1 DEF Manifest
      <4>2. Len(p) \in Nat BY PlansAre
      <4>3. k \in 1..Len(p) BY <1>1, <4>1, <4>2
      <4>4. Manifest(p, c)' BY <1>2, <3>1 DEF Manifest
      <4> QED BY <3>1, <4>1, <4>3, <4>4 DEF Manifest
    <3>3. CASE Stage(p, c, k) /\ (k = Len(executed) /\ InDoubt(k) => Bare(p[k]))
      <4>1. tree[p[k].src] \in Left(c, p[k].dst) /\ Exists(p[k].dst) BY <1>1, <3>2, <3>3, StageLast
      <4>2. Bare(p[k]) => ~Exists(p[k].src) BY ContentsDiffer DEF Bare, Exists
      <4>3. executed[k].state = "in_progress" => Bare(p[k])
        <5>1. CASE k < Len(executed) BY <3>2, <5>1
        <5>2. CASE k = Len(executed)
          <6>1. k > 0 BY <1>1
          <6> QED BY <3>3, <5>2, <6>1 DEF InDoubt
        <5>3. k < Len(executed) \/ k = Len(executed)
          <6>1. k \in 1..Len(executed) /\ Len(executed) \in Nat BY <1>1
          <6> QED BY ONLY <6>1
        <5> QED BY ONLY <5>1, <5>2, <5>3
      <4>4. ~NotDone
        <5>1. NotDone <=> executed[k].state = "in_progress" /\ (Exists(p[k].src) \/ ~Exists(p[k].dst))
          BY <1>1, <3>2 DEF NotDone
        <5> QED BY <4>1, <4>2, <4>3, <5>1
      <4>5. Stage(p, c, k)' /\ Bare(p[k])'
        <5>1. CASE tree[p[k].src][1] = "link"
          <6>1. c = TRUE BY <4>1, <5>1, ContentsDiffer DEF Left
          <6>2. tree' = [tree EXCEPT ![p[k].src] = Absent] BY <1>3, <3>2, <4>4, <5>1, <6>1
          <6>3. Absent \in Left(c, p[k].dst) BY DEF Left
          <6>4. Stage(p, c, k)' BY <1>1, <1>2, <3>2, <3>3, <6>2, <6>3, StageLinks
          <6>5. p[k].src \in Paths BY <1>1, <3>2, OpsMove
          <6> QED BY <1>1, <6>2, <6>4, <6>5 DEF Bare
        <5>2. CASE tree[p[k].src][1] # "link"
          <6>1. tree' = tree BY <1>3, <3>2, <4>4, <5>2
          <6>2. Bare(p[k]) BY <4>1, <5>2, ContentsDiffer DEF Left, Bare
          <6>3. Stage(p, c, k)' BY <1>2, <3>3, <6>1, StageStays
          <6> QED BY <6>1, <6>2, <6>3 DEF Bare
        <5> QED BY <5>1, <5>2
      <4>6. tool'.at = "undo" /\ tool'.k = k BY <1>3, <4>4
      <4> QED BY <1>1, <1>2, <3>2, <4>5, <4>6 DEF RollbackGoesRight, Stopped
    <3>4. CASE k = Len(executed) /\ InDoubt(k) /\ Stage(p, c, k - 1)
      <4>1. k - 1 \in 0..Len(p) - 1 /\ (k - 1) + 1 = k
        <5>1. Len(p) \in Nat BY PlansAre
        <5> QED BY <1>1, <3>2, <5>1
      <4>2. Exists(p[k].src) BY <1>1, <3>4, <4>1, StageNext
      <4>3. NotDone BY <1>1, <3>2, <3>4, <4>2 DEF NotDone, InDoubt
      <4>4. tool' = Undone /\ tree' = tree BY <1>3, <4>3
      <4>5. CASE k = 1
        <5>1. Stage(p, c, 0) BY <3>4, <4>5
        <5>2. tree = past.tree BY <1>1, <5>1, StageZero DEF MigInv, PastTyped
        <5>3. tool'.at = "restored" BY <1>1, <4>4, <4>5
        <5> QED BY <1>2, <2>2, <4>4, <5>2, <5>3 DEF RollbackGoesRight
      <4>6. CASE k # 1
        <5>1. PICK d : d = k - 1 OBVIOUS
        <5>2. tool'.at = "probe" /\ tool'.k = d BY <1>1, <4>4, <4>6, <5>1
        <5>3. Stage(p, c, d)' BY <1>2, <3>4, <4>4, <5>1, StageStays
        <5>4. d # Len(executed')
          <6>1. PICK n : n = Len(executed) OBVIOUS
          <6>2. n \in Nat /\ n = k BY <1>1, <3>4, <6>1
          <6>3. d # n BY <5>1, <6>2
          <6>4. Len(executed') = n BY <1>2, <6>1
          <6> QED BY <6>3, <6>4
        <5>5. Told(p, c, d)' BY <5>3, <5>4 DEF Told
        <5> QED BY <1>2, <2>2, <3>2, <5>2, <5>5 DEF RollbackGoesRight, Stopped
      <4> QED BY <4>5, <4>6
    <3> QED BY <3>1, <3>3, <3>4 DEF Told
  <2> QED BY <2>1, <2>2
<1> QED BY <1>5, <1>6, <1>7, <1>8

LEMMA UndoGoesRight ==
  ASSUME MigInv, Undo
  PROVE  Placed' /\ ApplyGoesRight' /\ RollbackGoesRight' /\ AppliedIsPlaced' /\ OpsArePlanned'
         /\ AtRunning' /\ PastTyped'
<1>k. PICK k : k = tool.k OBVIOUS
<1>0. tool.at = "undo" BY DEF Undo
<1>1. /\ k \in 1..Len(executed) /\ k \in Nat /\ ManifestEntry = executed[k]
      /\ ManifestEntry \in MigEntry /\ ManifestEntry.op \in Ops /\ past.rollbacks \in Nat \ {0}
      /\ tree \in [Paths -> Content] /\ Len(executed) \in Nat /\ DOMAIN executed = 1..Len(executed)
      /\ k = 1 => Undone.at = "restored"
      /\ k # 1 => Undone.at = "probe" /\ Undone.k = k - 1
  BY <1>0, <1>k, RollbackIs
<1>2. executed' = executed /\ past' = past BY DEF Undo
<1>3. /\ CanRename(executed[k].op.dst, executed[k].op.src)
           => tree' = Renamed(executed[k].op.dst, executed[k].op.src) /\ tool' = Undone
      /\ ~CanRename(executed[k].op.dst, executed[k].op.src) => tree' = tree /\ tool'.at = "failed"
  <2>1. CASE CanRename(executed[k].op.dst, executed[k].op.src) BY <1>1, <2>1 DEF Undo
  <2>2. CASE ~CanRename(executed[k].op.dst, executed[k].op.src)
    <3>1. tree' = tree /\ tool' = [NoTool EXCEPT !.at = "failed"] BY <1>1, <2>2 DEF Undo
    <3> QED BY <2>2, <3>1 DEF NoTool
  <2> QED BY <2>1, <2>2
<1>4. tool'.at \in {"restored", "probe", "failed"}
  <2>1. Undone.at \in {"restored", "probe"} BY <1>1
  <2> QED BY <1>3, <2>1
<1>5. ApplyGoesRight' /\ AppliedIsPlaced' BY <1>4 DEF ApplyGoesRight, AppliedIsPlaced
<1>6. AtRunning' /\ PastTyped' /\ OpsArePlanned'
  BY <1>1, <1>2 DEF AtRunning, PastTyped, OpsArePlanned, MigInv
<1>7. Placed'
  <2>1. CASE CanRename(executed[k].op.dst, executed[k].op.src)
    BY <1>1, <1>3, <2>1, PlacedUndone DEF MigInv
  <2>2. CASE ~CanRename(executed[k].op.dst, executed[k].op.src) BY <1>3, <2>2 DEF MigInv, Placed
  <2> QED BY <2>1, <2>2
<1>8. RollbackGoesRight'
  <2>1. CASE past.rollbacks # 1 \/ past.torn BY <1>1, <1>2, <2>1, LaterRollback
  <2>2. CASE past.rollbacks = 1 /\ ~past.torn
    <3>1. PICK p \in Plans, c \in BOOLEAN : Manifest(p, c) /\ Stage(p, c, k) /\ Bare(p[k])
      BY <1>0, <1>k, <2>2 DEF MigInv, RollbackGoesRight
    <3>2. executed[k].op = p[k] /\ k \in 1..Len(p) /\ Manifest(p, c)'
      <4>1. Len(executed) <= Len(p) /\ k \in DOMAIN executed BY <1>1, <3>1 DEF Manifest
      <4>2. Len(p) \in Nat BY PlansAre
      <4>3. k \in 1..Len(p) BY <1>1, <4>1, <4>2
      <4>4. Manifest(p, c)' BY <1>2, <3>1 DEF Manifest
      <4> QED BY <3>1, <4>1, <4>3, <4>4 DEF Manifest
    <3>3. CanRename(p[k].dst, p[k].src)
      <4>1. tree[p[k].dst] # Absent BY <1>1, <3>1, <3>2, StageLast
      <4> QED BY <3>1, <4>1 DEF CanRename, Bare
    <3>4. tree' = Renamed(p[k].dst, p[k].src) /\ tool' = Undone BY <1>3, <3>2, <3>3
    <3>5. Stage(p, c, k - 1)' BY <1>1, <1>2, <3>1, <3>2, <3>4, StageUndone
    <3>6. CASE k = 1
      <4>1. Stage(p, c, 0)' BY <3>5, <3>6
      <4>2. tool'.at = "restored" BY <1>1, <3>4, <3>6
      <4>3. tree' = past'.tree
        <5>1. tree' \in [Paths -> Content] /\ past'.tree \in [Paths -> Content]
          <6>1. p[k].src \in Paths /\ p[k].dst \in Paths BY <1>1, <3>2, OpsMove
          <6>2. tree' \in [Paths -> Content] BY <1>1, <3>4, <6>1, RenamedIsTyped
          <6> QED BY <1>6, <6>2 DEF PastTyped
        <5> QED BY <4>1, <5>1, StageZeroThen
      <4> QED BY <1>2, <2>2, <4>2, <4>3 DEF RollbackGoesRight
    <3>7. CASE k # 1
      <4>1. PICK d : d = k - 1 OBVIOUS
      <4>2. tool'.at = "probe" /\ tool'.k = d BY <1>1, <3>4, <3>7, <4>1
      <4>3. Stage(p, c, d)' BY <3>5, <4>1
      <4>4. d # Len(executed') BY <1>1, <1>2, <4>1
      <4>5. Told(p, c, d)' BY <4>3, <4>4 DEF Told
      <4> QED BY <1>2, <2>2, <3>2, <4>2, <4>5 DEF RollbackGoesRight, Stopped
    <3> QED BY <3>6, <3>7
  <2> QED BY <2>1, <2>2
<1> QED BY <1>5, <1>6, <1>7, <1>8

LEMMA StopRollbackGoesRight ==
  ASSUME MigInv, StopRollback
  PROVE  Placed' /\ ApplyGoesRight' /\ RollbackGoesRight' /\ AppliedIsPlaced' /\ OpsArePlanned'
         /\ AtRunning' /\ PastTyped'
<1>1. UNCHANGED <<tree, executed, past>> /\ tool'.at = "idle" /\ past.rollbacks \in Nat \ {0}
  BY RollbackIs DEF StopRollback, NoTool
<1>2. ApplyGoesRight' /\ AppliedIsPlaced' /\ AtRunning' BY <1>1 DEF ApplyGoesRight, AppliedIsPlaced, AtRunning
<1>3. RollbackGoesRight' BY <1>1 DEF RollbackGoesRight
<1>4. Placed' /\ OpsArePlanned' /\ PastTyped' BY <1>1 DEF MigInv, Placed, OpsArePlanned, PastTyped
<1> QED BY <1>2, <1>3, <1>4

LEMMA MigrationInvariant == MigrationSpec => []MigInv
<1>1. MigrationInit => MigInv
  <2> SUFFICES ASSUME MigrationInit PROVE MigInv OBVIOUS
  <2>1. MigTyped /\ Placed BY MigrationStarts, PlacedAtFirst
  <2>2. /\ tool.at = "idle" /\ executed = << >> /\ past.rollbacks = 0 /\ past.tree = tree
    BY DEF MigrationInit, NoTool
  <2>3. PastTyped BY <2>1 DEF MigrationInit, MigTyped, PastTyped
  <2>4. OpsArePlanned BY <2>2 DEF OpsArePlanned
  <2>5. ApplyGoesRight /\ RollbackGoesRight /\ AppliedIsPlaced /\ AtRunning
    BY <2>2 DEF ApplyGoesRight, RollbackGoesRight, AppliedIsPlaced, AtRunning
  <2> QED BY <2>1, <2>3, <2>4, <2>5 DEF MigInv
<1>2. MigInv /\ [MigrationNext]_migrationVars => MigInv'
  <2> SUFFICES ASSUME MigInv, [MigrationNext]_migrationVars PROVE MigInv' OBVIOUS
  <2>1. MigTyped' BY MigrationTypeStays DEF MigInv
  <2>2. CASE MigrationNext
    <3>1. Placed' /\ ApplyGoesRight' /\ RollbackGoesRight' /\ AppliedIsPlaced' /\ OpsArePlanned'
          /\ AtRunning' /\ PastTyped'
      BY <2>2, StartApplyGoesRight, AnnounceGoesRight, RenameGoesRight, JunctionGoesRight,
         CompleteGoesRight, StopApplyGoesRight, StartRollbackGoesRight, ProbeGoesRight, UndoGoesRight,
         StopRollbackGoesRight DEF MigrationNext
    <3> QED BY <2>1, <3>1 DEF MigInv
  <2>3. CASE UNCHANGED migrationVars
    <3>1. UNCHANGED <<tree, executed, tool, past>> BY <2>3 DEF migrationVars
    <3>2. Placed' /\ OpsArePlanned' /\ AppliedIsPlaced' /\ AtRunning' /\ PastTyped'
      BY <3>1 DEF MigInv, Placed, OpsArePlanned, AppliedIsPlaced, AtRunning, PastTyped
    <3>3. ApplyGoesRight'
      BY <3>1 DEF MigInv, ApplyGoesRight, Manifest, InDoubt, Bare, Current, Stage, SwapStage, Unswapped,
                  RunStage, Unmoved
    <3>4. RollbackGoesRight'
      BY <3>1 DEF MigInv, RollbackGoesRight, Stopped, Manifest, Told, InDoubt, Bare, Stage, SwapStage,
                  Unswapped, RunStage, Unmoved
    <3> QED BY <2>1, <3>2, <3>3, <3>4 DEF MigInv
  <2> QED BY <2>2, <2>3
<1> QED BY <1>1, <1>2, PTL DEF MigrationSpec

\* Wherever a migration of the worker directories (tools/migrate_workers.py) or its rollback
\* dies and whichever is begun again, the first rollback gives every directory back, unless
\* the apply had died between a link and its record, and no name is ever of the other
\* project: for any number of commands.
THEOREM MigrationsAreSafe == MigrationSpec => []MigrationIsSafe
<1>1. MigInv => MigrationIsSafe
  <2> SUFFICES ASSUME MigInv PROVE MigrationIsSafe OBVIOUS
  <2>1. RollbackRestores BY DEF MigInv, RollbackGoesRight, RollbackRestores
  <2>2. NamesMatchProjects BY DEF MigInv, Placed, AppliedIsPlaced, NamesMatchProjects
  <2> QED BY <2>1, <2>2 DEF MigrationIsSafe
<1> QED BY <1>1, MigrationInvariant, PTL
-----------------------------------------------------------------------------
(* Each part keeps its type, whichever of them runs                        *)

AcceptBounded ==
  /\ AcceptInv /\ checks \in 0..MaxChecks
  /\ branch.commits \in Branches \union {<< >>} /\ Len(workflows) \in 0..MaxPushes

LEMMA AcceptanceStarts == AcceptanceInit => AcceptBounded
BY AcceptHoldsAtFirst, GateAssumption DEF AcceptanceInit, AcceptBounded

LEMMA AcceptanceStays == AcceptBounded /\ [AcceptanceNext]_acceptanceVars => AcceptBounded'
<1> SUFFICES ASSUME AcceptBounded, [AcceptanceNext]_acceptanceVars PROVE AcceptBounded' OBVIOUS
<1>1. AcceptInv' BY AcceptInvariant DEF AcceptBounded
<1>2. /\ MaxPushes \in Nat /\ MaxChecks \in Nat /\ branch \in Shas /\ workflows \in Seq(Workflows)
  BY GateAssumption DEF AcceptBounded, AcceptInv, AcceptTyped
<1>3. CASE Push
  <2>1. branch'.commits \in Branches /\ checks' = checks BY <1>3 DEF Push
  <2>2. Len(workflows') = Len(workflows) + 1 /\ Len(workflows) < MaxPushes BY <1>2, <1>3 DEF Push
  <2>3. Len(workflows) \in Nat BY <1>2
  <2> QED BY <1>1, <1>2, <2>1, <2>2, <2>3 DEF AcceptBounded
<1>4. CASE StartCheck
  <2>1. checks' = checks + 1 /\ checks < MaxChecks /\ UNCHANGED <<branch, workflows>>
    BY <1>4 DEF StartCheck
  <2> QED BY <1>1, <1>2, <2>1 DEF AcceptBounded
<1>5. ASSUME NEW n \in DOMAIN workflows, RunCompletes(n) PROVE AcceptBounded'
  <2>1. Len(workflows') = Len(workflows) BY <1>2, <1>5 DEF RunCompletes
  <2> QED BY <1>1, <1>5, <2>1 DEF RunCompletes, AcceptBounded
<1>6. CASE UNCHANGED <<branch, workflows, checks>> BY <1>1, <1>6 DEF AcceptBounded
<1>7. BaseMoves \/ PrRuns("test", "test_runs", "test_jobs") \/ CheckRunsAtTest
      \/ PrRuns("head", "head_runs", "head_jobs") \/ CheckRunsAtHead \/ UNCHANGED acceptanceVars
        => UNCHANGED <<branch, workflows, checks>>
  BY DEF BaseMoves, PrRuns, CheckRunsAtTest, CheckRunsAtHead, acceptanceVars
<1> QED BY <1>3, <1>4, <1>5, <1>6, <1>7 DEF AcceptanceNext

LEMMA AcceptanceIsTyped == AcceptBounded => AcceptanceTypeOK
BY DEF AcceptBounded, AcceptInv, AcceptTyped, AcceptanceTypeOK, Checks

LEMMA CuratorIsTyped == CuratorInv => CuratorTypeOK
<1> SUFFICES ASSUME CuratorInv PROVE CuratorTypeOK OBVIOUS
<1>1. \A p \in Places : place[p] \in [dir : WorkerDirs \union {"none"}, whole : BOOLEAN]
  BY DEF CuratorInv, CuratorTyped
<1>2. \A c \in Curators : curator[c] \in CuratorState BY DEF CuratorInv, CuratorTyped
<1>3. \A p \in Places : place[p].dir \in WorkerDirs \union {"none"} BY <1>1
<1>4. \A c \in Curators : curator[c].todo \subseteq WorkerDirs BY <1>2 DEF CuratorState
<1> QED BY <1>3, <1>4 DEF CuratorInv, CuratorTyped, CuratorTypeOK

LEMMA ApprovalKeepsShape == ApprovalSpec => []ApprovalShape
<1>1. ApprovalInit => ApprovalShape
  <2> SUFFICES ASSUME ApprovalInit PROVE ApprovalShape OBVIOUS
  <2>1. ApprovalTyped BY ApprovalStarts DEF ApprovalInv
  <2>2. send.at = "idle" BY DEF ApprovalInit, Idle
  <2> QED BY <2>1, <2>2 DEF ApprovalShape
<1>2. ApprovalShape /\ [ApprovalNext]_approvalVars => ApprovalShape' BY ApprovalShapeStays
<1> QED BY <1>1, <1>2, PTL DEF ApprovalSpec

\* A step of the gates is a step of the part they run, and of what every part shares a state
\* with.
LEMMA StepsOfParts ==
  ASSUME [GatesNext]_gatesVars
  PROVE  /\ part' = part
         /\ part = "spawn" => [SpawnNext]_spawnVars
         /\ part = "approval" => [ApprovalNext]_approvalVars
         /\ part = "cap" => [CapNext]_capVars
         /\ part = "retro" => [RetroNext]_retroVars
         /\ [AcceptanceNext]_acceptanceVars
         /\ [CuratorNext]_curatorVars
         /\ [MigrationNext]_migrationVars
BY DEF GatesNext, OnEvents, OnOthers, gatesVars, eventVars, spawnRest, approvalRest, capRest, retroRest,
       spawnVars, approvalVars, capVars, retroVars, acceptanceVars, curatorVars, migrationVars

\* However the gates' steps follow each other and wherever one of them dies, each part's
\* state keeps its type: the rows and the events on state.db, the panes and what is typed
\* into them, the hooks' rounds, the retro gate, the CI records, the directories that are
\* archived and those that are moved.
THEOREM GatesTyped == GatesSpec => []GatesTypeOK
<1>1. GatesInit => /\ SpawnInit /\ ApprovalInit /\ CapInit /\ RetroInit
                   /\ AcceptBounded /\ CuratorInv /\ MigTyped
  BY AcceptanceStarts, CuratorInitHolds, MigrationStarts DEF GatesInit
<1>2. [GatesNext]_gatesVars => /\ part' = part
                               /\ part = "spawn" => [SpawnNext]_spawnVars
                               /\ part = "approval" => [ApprovalNext]_approvalVars
                               /\ part = "cap" => [CapNext]_capVars
                               /\ part = "retro" => [RetroNext]_retroVars
  BY StepsOfParts
<1>3. GatesSpec => [](part = "spawn" => SpawnTypeOK)
  <2>1. [GatesNext]_gatesVars => /\ part = "spawn" => (part = "spawn")' /\ [SpawnNext]_spawnVars
                                 /\ ~(part = "spawn") => ~(part = "spawn")'
    BY <1>2
  <2> QED BY <1>1, <2>1, SpawnsTyped, PTL DEF GatesSpec, SpawnSpec
<1>4. GatesSpec => [](part = "approval" => ApprovalTypeOK)
  <2>1. [GatesNext]_gatesVars => /\ part = "approval" => (part = "approval")' /\ [ApprovalNext]_approvalVars
                                 /\ ~(part = "approval") => ~(part = "approval")'
    BY <1>2
  <2> QED BY <1>1, <2>1, ApprovalKeepsShape, ShapeIsTyped, PTL DEF GatesSpec, ApprovalSpec
<1>5. GatesSpec => [](part = "cap" => CapTypeOK)
  <2>1. [GatesNext]_gatesVars => /\ part = "cap" => (part = "cap")' /\ [CapNext]_capVars
                                 /\ ~(part = "cap") => ~(part = "cap")'
    BY <1>2
  <2>2. CapInv => CapTypeOK BY DEF CapInv
  <2> QED BY <1>1, <2>1, <2>2, CapInvariant, PTL DEF GatesSpec, CapSpec
<1>6. GatesSpec => [](part = "retro" => RetroTypeOK)
  <2>1. [GatesNext]_gatesVars => /\ part = "retro" => (part = "retro")' /\ [RetroNext]_retroVars
                                 /\ ~(part = "retro") => ~(part = "retro")'
    BY <1>2
  <2>2. RetroInv => RetroTypeOK BY DEF RetroInv
  <2> QED BY <1>1, <2>1, <2>2, RetroInvariant, PTL DEF GatesSpec, RetroSpec
<1>7. GatesSpec => [](AcceptanceTypeOK /\ CuratorTypeOK /\ MigrationTypeOK)
  <2>1. [GatesNext]_gatesVars => /\ [AcceptanceNext]_acceptanceVars /\ [CuratorNext]_curatorVars
                                 /\ [MigrationNext]_migrationVars
    BY StepsOfParts
  <2> QED BY <1>1, <2>1, AcceptanceStays, AcceptanceIsTyped, CuratorStays, CuratorIsTyped,
             MigrationTypeStays, MigrationIsTyped, PTL DEF GatesSpec
<1>8. (/\ part = "spawn" => SpawnTypeOK
       /\ part = "approval" => ApprovalTypeOK
       /\ part = "cap" => CapTypeOK
       /\ part = "retro" => RetroTypeOK
       /\ AcceptanceTypeOK /\ CuratorTypeOK /\ MigrationTypeOK) => GatesTypeOK
  BY DEF GatesTypeOK
<1> QED BY <1>3, <1>4, <1>5, <1>6, <1>7, <1>8, PTL
=============================================================================
