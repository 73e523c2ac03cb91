------------------------------ MODULE EventLog ------------------------------
(***************************************************************************)
(* What the gates share: the rows and the append-only events of state.db.  *)
(* occurred_at is the place of an event in the log.                        *)
(***************************************************************************)
EXTENDS Naturals, Sequences, FiniteSets

CONSTANTS Tasks,      \* task ids that are delegated, or only misspelt
          Dirs, NoDir \* worker directories, and none

ASSUME EventLogAssumption == NoDir \notin Dirs /\ Tasks # {}

VARIABLES runs,   \* runs[t]: the row of task t
          events  \* the events table

Statuses == {"none", "queued", "in_use", "review", "completed"}
Run == [status : Statuses, dir : Dirs \union {NoDir}]

NoRuns == [t \in Tasks |-> [status |-> "none", dir |-> NoDir]]

Of(kind, t) == {i \in DOMAIN events : events[i].kind = kind /\ events[i].task = t}

\* The newest event of a kind and a task; 0 is None.
LatestEventAt(kind, t) ==
  LET of == Of(kind, t) IN IF of = {} THEN 0 ELSE CHOOSE i \in of : \A j \in of : j <= i

DelegateSent(t, dir) == [kind |-> "delegate_sent", task |-> t, dir |-> dir]
SpawnVerified(t, pane, peer, evidence, background) ==
  [kind |-> "worker_spawn_verified", task |-> t, pane |-> pane, peer |-> peer,
   evidence |-> evidence, background |-> background]
=============================================================================
