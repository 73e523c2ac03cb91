---------------------------- MODULE QueueSidecar ----------------------------
(***************************************************************************)
(* The sidecar file of tools/secretary_queue_watcher.py and its --stop:    *)
(* a watcher leaves its pid and its broker in one file of the working      *)
(* directory, removes it when it ends in good order, and is stopped        *)
(* through it.  A pid may be given out again after a crash.                *)
(***************************************************************************)
EXTENDS Naturals, FiniteSets

CONSTANTS Pids, NoPid, \* process ids, and none
          Brokers      \* ORG_BROKER_STATE_DIR of the organisations of one directory

ASSUME SidecarAssumption == NoPid \notin Pids /\ Brokers # {}

VARIABLES proc,    \* proc[p]: what runs under pid p: the script or not, of which broker
          sidecar, \* the file
          stopper, \* the --stop run
          killed   \* ghost: what the last SIGTERM hit

sidecarVars == <<proc, sidecar, stopper, killed>>

Nothing == [script |-> FALSE, broker |-> CHOOSE b \in Brokers : TRUE, live |-> FALSE]
NoFile == [pid |-> NoPid, broker |-> CHOOSE b \in Brokers : TRUE]
Idle == [pc |-> "idle", broker |-> CHOOSE b \in Brokers : TRUE, read |-> NoFile]

-----------------------------------------------------------------------------
(* Processes                                                               *)

\* A pid is not given out again between the check of --stop and its signal.
FreePid(p) == ~proc[p].live /\ (stopper.pc = "kill" => stopper.read.pid # p)

\* write_pid_file: the newest watcher has the file.
StartWatcher(p, b) ==
  /\ FreePid(p)
  /\ proc' = [proc EXCEPT ![p] = [script |-> TRUE, broker |-> b, live |-> TRUE]]
  /\ sidecar' = [pid |-> p, broker |-> b]
  /\ UNCHANGED <<stopper, killed>>

StartOther(p) ==
  /\ FreePid(p)
  /\ proc' = [proc EXCEPT ![p] = [Nothing EXCEPT !.live = TRUE]]
  /\ UNCHANGED <<sidecar, stopper, killed>>

\* remove_pid_file: only while the file is still its own.
Removed(pid) == IF sidecar.pid = pid THEN NoFile ELSE sidecar

\* It found what it waited for, or got the signal: the file goes with it.
EndInOrder(p) ==
  /\ proc[p].live /\ proc[p].script
  /\ proc' = [proc EXCEPT ![p] = Nothing]
  /\ sidecar' = Removed(p)
  /\ UNCHANGED <<stopper, killed>>

\* A crash leaves the file; so does the end of another program, which has none.
Vanish(p) ==
  /\ proc[p].live
  /\ proc' = [proc EXCEPT ![p] = Nothing]
  /\ UNCHANGED <<sidecar, stopper, killed>>

-----------------------------------------------------------------------------
(* --stop                                                                  *)

Then(pc) == stopper' = [stopper EXCEPT !.pc = pc]

StopBegins(b) ==
  /\ stopper.pc = "idle" /\ sidecar # NoFile
  /\ stopper' = [pc |-> "check", broker |-> b, read |-> sidecar]
  /\ UNCHANGED <<proc, sidecar, killed>>

Owned == stopper.read.broker = stopper.broker

\* Mutant: a process under that pid is taken for the watcher.
AliveAtAll(p) == proc[p].live

Identified(p) == proc[p].live /\ proc[p].script

\* Another broker's, or nothing that runs this script: no signal, and the file is stale.
StopRefuses ==
  /\ stopper.pc = "check" /\ ~(Owned /\ Identified(stopper.read.pid))
  /\ sidecar' = NoFile
  /\ Then("idle")
  /\ UNCHANGED <<proc, killed>>

\* Its command line cannot be read, or it may not be signalled: the file stays.
StopGivesUp == /\ stopper.pc = "check" /\ Owned /\ proc[stopper.read.pid].live
               /\ Then("idle")
               /\ UNCHANGED <<proc, sidecar, killed>>

StopChecks ==
  /\ stopper.pc = "check" /\ Owned /\ Identified(stopper.read.pid)
  /\ Then("kill")
  /\ UNCHANGED <<proc, sidecar, killed>>

\* SIGTERM ends the watcher in order, and its file is removed if it is still its own.
StopKills ==
  LET p == stopper.read.pid IN
  /\ stopper.pc = "kill" /\ proc[p].live
  /\ killed' = proc[p]
  /\ proc' = [proc EXCEPT ![p] = Nothing]
  /\ sidecar' = Removed(p)
  /\ Then("idle")

\* It was gone before the signal: the file goes, whoever has written it since.
StopComesLate ==
  /\ stopper.pc = "kill" /\ ~proc[stopper.read.pid].live
  /\ sidecar' = NoFile
  /\ Then("idle")
  /\ UNCHANGED <<proc, killed>>

-----------------------------------------------------------------------------
SidecarInit == /\ proc = [p \in Pids |-> Nothing] /\ sidecar = NoFile
               /\ stopper = Idle /\ killed = [Nothing EXCEPT !.script = TRUE]

SidecarNext ==
  \/ \E p \in Pids : StartOther(p) \/ EndInOrder(p) \/ Vanish(p)
                     \/ (\E b \in Brokers : StartWatcher(p, b))
  \/ \E b \in Brokers : StopBegins(b)
  \/ StopRefuses \/ StopGivesUp \/ StopChecks \/ StopKills \/ StopComesLate

SidecarSpec == SidecarInit /\ [][SidecarNext]_sidecarVars

SidecarTypeOK ==
  /\ proc \in [Pids -> [script : BOOLEAN, broker : Brokers, live : BOOLEAN]]
  /\ sidecar \in [pid : Pids \union {NoPid}, broker : Brokers]
  /\ stopper \in [pc : {"idle", "check", "kill"}, broker : Brokers,
                  read : [pid : Pids \union {NoPid}, broker : Brokers]]

\* Whatever crashed and whoever got its pid since, --stop signals a queue watcher or nothing.
StopSparesOthers == killed.script
=============================================================================
