------------------------------ MODULE MCGates -------------------------------
(***************************************************************************)
(* The gates that stand between two steps of a task's life, and the moves  *)
(* of worker directories, on instances that TLC checks: at most state.db   *)
(* is shared, so each behaviour follows the one it starts with.            *)
(***************************************************************************)
EXTENDS SpawnGate, SelfEditApproval, CodexRoundCap, RetroGate,
        AcceptanceGate, CuratorArchive, WorkersMigration

CONSTANTS t1, a, b, h1, h2, d1, d2

VARIABLE part

\* The files to approve, the cells their paths take.
ThreeFiles == <<20, 30, 25>>

\* What a pull request may look like: the test first, missing, rewritten or twice, with
\* and without the fix, before it and after it, or with a change of what is protected.
Histories == {<< >>, <<"test1">>, <<"fix">>, <<"test1", "fix">>, <<"test2", "fix">>,
              <<"test1", "tamper">>, <<"fix", "test1">>, <<"test1", "test2">>}

\* The same two names stand for the hooks and the curators.
Symmetry == Permutations({h1, h2})

\* The gates on state.db share its rows and events.
spawnRest == <<record, panes, pc, job, seen, passed>>
approvalRest == <<pane, send>>
capRest == <<hook, lock, reviews>>
retroRest == <<up, inbox, gate, reported, sent, judged, wrong>>
eventVars == <<runs, events>>

gatesVars == <<eventVars, spawnRest, approvalRest, capRest, retroRest, acceptanceVars, curatorVars,
               migrationVars, part>>

GatesInit ==
  /\ SpawnInit /\ ApprovalInit /\ CapInit /\ RetroInit
  /\ AcceptanceInit /\ CuratorInit /\ MigrationInit
  /\ part \in {"spawn", "approval", "cap", "retro", "acceptance", "curator", "migration"}
  /\ part # "curator" => ~device \* what the others do not tell apart

OnEvents ==
  /\ \/ part = "spawn" /\ SpawnNext /\ UNCHANGED <<approvalRest, capRest, retroRest>>
     \/ part = "approval" /\ ApprovalNext /\ UNCHANGED <<spawnRest, capRest, retroRest>>
     \/ part = "cap" /\ CapNext /\ UNCHANGED <<spawnRest, approvalRest, retroRest>>
     \/ part = "retro" /\ RetroNext /\ UNCHANGED <<spawnRest, approvalRest, capRest>>
  /\ UNCHANGED <<acceptanceVars, curatorVars, migrationVars>>

OnOthers ==
  /\ \/ part = "acceptance" /\ AcceptanceNext /\ UNCHANGED <<curatorVars, migrationVars>>
     \/ part = "curator" /\ CuratorNext /\ UNCHANGED <<acceptanceVars, migrationVars>>
     \/ part = "migration" /\ MigrationNext /\ UNCHANGED <<acceptanceVars, curatorVars>>
  /\ UNCHANGED <<eventVars, spawnRest, approvalRest, capRest, retroRest>>

GatesNext == UNCHANGED part /\ (OnEvents \/ OnOthers)

GatesSpec == GatesInit /\ [][GatesNext]_gatesVars

\* Each part's state keeps its type.
GatesTypeOK ==
  /\ part = "spawn" => SpawnTypeOK
  /\ part = "approval" => ApprovalTypeOK
  /\ part = "cap" => CapTypeOK
  /\ part = "retro" => RetroTypeOK
  /\ AcceptanceTypeOK /\ CuratorTypeOK /\ MigrationTypeOK
=============================================================================
