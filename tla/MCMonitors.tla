----------------------------- MODULE MCMonitors -----------------------------
(***************************************************************************)
(* What watches over work under way, on instances that TLC checks: the     *)
(* parts share no state, so each behaviour follows the one it starts with. *)
(***************************************************************************)
EXTENDS WatcherRestartGuard, WatchPane, QueueWatcher, QueueSidecar, PendingDecisions

CONSTANTS t1, a, b

VARIABLE part

\* The tab of the secretary, the dispatcher and one worker.
SecretaryTab ==
  {[id |-> 1, role |-> "secretary", pr |-> 0, tab |-> "own",
    x |-> 0, y |-> 0, width |-> 240, height |-> 60],
   [id |-> 2, role |-> "dispatcher", pr |-> 0, tab |-> "own",
    x |-> 240, y |-> 0, width |-> 150, height |-> 60],
   [id |-> 3, role |-> "worker", pr |-> 0, tab |-> "own",
    x |-> 390, y |-> 0, width |-> 60, height |-> 60]}
WholeTab == [width |-> 450, height |-> 60]

Symmetry == Permutations(Callers)

monitorsVars == <<guardVars, paneVars, queueVars, sidecarVars, registerVars, part>>

MonitorsInit ==
  /\ GuardInit /\ PaneInit /\ QueueInit /\ SidecarInit /\ RegisterInit
  /\ part \in {"guard", "pane", "queue", "sidecar", "register"}

MonitorsNext ==
  /\ UNCHANGED part
  /\ \/ part = "guard" /\ GuardNext /\ UNCHANGED <<paneVars, queueVars, sidecarVars, registerVars>>
     \/ part = "pane" /\ PaneNext /\ UNCHANGED <<guardVars, queueVars, sidecarVars, registerVars>>
     \/ part = "queue" /\ QueueNext /\ UNCHANGED <<guardVars, paneVars, sidecarVars, registerVars>>
     \/ part = "sidecar" /\ SidecarNext /\ UNCHANGED <<guardVars, paneVars, queueVars, registerVars>>
     \/ part = "register" /\ RegisterNext /\ UNCHANGED <<guardVars, paneVars, queueVars, sidecarVars>>

MonitorsSpec == MonitorsInit /\ [][MonitorsNext]_monitorsVars

\* Each part's state keeps its type.
MonitorsTypeOK ==
  /\ part = "guard" => GuardTypeOK
  /\ part = "pane" => PaneTypeOK
  /\ part = "queue" => QueueTypeOK
  /\ part = "sidecar" => SidecarTypeOK
  /\ part = "register" => RegisterTypeOK
=============================================================================
