-------------------------- MODULE WorkersMigration --------------------------
(***************************************************************************)
(* The move of the worker directories to their new layout,                 *)
(* tools/state_db/migrate_workers.py: a plan of renames, one of which      *)
(* swaps two projects through an intermediate name, a manifest that is     *)
(* written before and after every rename, and a rollback that undoes what  *)
(* a manifest says was done.  Either may die anywhere.                     *)
(***************************************************************************)
EXTENDS Naturals, Sequences, SequencesExt

CONSTANTS MaxCommands \* bound: applies and rollbacks

ASSUME MigrationAssumption == MaxCommands \in Nat

VARIABLES tree,     \* tree[p]: what is at path p
          executed, \* the latest manifest: its entries, in order
          tool,     \* the command that runs
          commands, \* how many were started
          past      \* the tree before the latest apply, how it ended, and its rollbacks

migrationVars == <<tree, executed, tool, commands, past>>

Paths == {"claude-org", "claude-org-en", "claude-org-ja", "swap-tmp", "run", "_runs/run"}
Absent == <<"none", "">>
Dir(project) == <<"dir", project>>
Link(path) == <<"link", path>>
NoTool == [at |-> "idle", plan |-> << >>, k |-> 0, compat |-> FALSE]

\* Path.exists follows a link.
Exists(p) == \/ tree[p][1] = "dir"
             \/ tree[p][1] = "link" /\ tree[tree[p][2]][1] = "dir"

Op(src, dst) == [src |-> src, dst |-> dst]

\* --------------------------------------------------------------------------
(* The plan                                                                 *)

Swap == <<Op("claude-org", "swap-tmp"), Op("claude-org-en", "claude-org"),
          Op("swap-tmp", "claude-org-ja")>>

SwapAlreadyDone == ~Exists("claude-org-en") /\ Exists("claude-org-ja")
Moved == ~Exists("run") /\ Exists("_runs/run")

BuildPlan == (IF SwapAlreadyDone THEN << >> ELSE Swap)
             \o (IF Moved THEN << >> ELSE <<Op("run", "_runs/run")>>)

Touching(plan, k, p) == {j \in 1..k - 1 : p \in {plan[j].src, plan[j].dst}}

\* Whether p is there when operation k begins, after the ones before it.
Present(plan, k, p) ==
  IF Touching(plan, k, p) = {} THEN Exists(p) ELSE plan[Max(Touching(plan, k, p))].dst = p

Preflight(plan) == \A k \in DOMAIN plan : /\ Present(plan, k, plan[k].src)
                                          /\ ~Present(plan, k, plan[k].dst)

\* os.rename: what is moved has to be there, and a directory replaces nothing here.
CanRename(src, dst) == tree[src] # Absent /\ tree[dst] = Absent
Renamed(src, dst) == [tree EXCEPT ![dst] = tree[src], ![src] = Absent]

\* --------------------------------------------------------------------------
(* apply_plan                                                               *)

Current == tool.plan[tool.k]
StepTo(at) == tool' = [tool EXCEPT !.at = at]
Onward == IF tool.k = Len(tool.plan) THEN tool' = [NoTool EXCEPT !.at = "applied"]
         ELSE tool' = [tool EXCEPT !.at = "announce", !.k = @ + 1]

Stopped == tool.at \in {"idle", "applied", "restored", "failed"}

\* --apply --inventory with --confirm: the plan is made anew, and nothing is moved if it may not be.
Ready == commands < MaxCommands /\ Preflight(BuildPlan)

\* A plan that has nothing to move still leaves a manifest, which is then the latest one.
StartApply ==
  /\ Stopped /\ Ready
  /\ \E compat \in BOOLEAN :
       tool' = IF BuildPlan = << >> THEN [NoTool EXCEPT !.at = "applied"]
               ELSE [at |-> "announce", plan |-> BuildPlan, k |-> 1, compat |-> compat]
  /\ executed' = << >> /\ commands' = commands + 1
  /\ past' = [tree |-> tree, torn |-> FALSE, rollbacks |-> 0]
  /\ UNCHANGED tree

\* The manifest says what is about to be done before it is done.
Announce ==
  /\ tool.at = "announce"
  /\ executed' = Append(executed, [op |-> Current, compat |-> tool.compat, state |-> "in_progress"])
  /\ StepTo("rename")
  /\ UNCHANGED <<tree, commands, past>>

Rename ==
  /\ tool.at = "rename" /\ CanRename(Current.src, Current.dst)
  /\ tree' = Renamed(Current.src, Current.dst)
  /\ StepTo(IF tool.compat THEN "junction" ELSE "complete")
  /\ UNCHANGED <<executed, commands, past>>

\* A link that cannot be made is passed over.
MakeJunction ==
  /\ tool.at = "junction"
  /\ tree' \in {tree, [tree EXCEPT ![Current.src] = Link(Current.dst)]}
  /\ StepTo("complete")
  /\ UNCHANGED <<executed, commands, past>>

MarkCompleted ==
  /\ tool.at = "complete"
  /\ executed' = [executed EXCEPT ![Len(executed)].state = "completed"]
  /\ Onward
  /\ UNCHANGED <<tree, commands, past>>

\* An error or a death: what the manifest says stays.
StopApply ==
  /\ tool.at \in {"announce", "rename", "junction", "complete"}
  /\ tool' = NoTool
  /\ past' = [past EXCEPT !.torn = tool.at = "complete" /\ tree[Current.src] # Absent]
  /\ UNCHANGED <<tree, executed, commands>>

\* --------------------------------------------------------------------------
(* rollback                                                                 *)

ManifestEntry == executed[tool.k]
Undone == IF tool.k = 1 THEN [NoTool EXCEPT !.at = "restored"]
          ELSE [tool EXCEPT !.at = "probe", !.k = @ - 1]

StartRollback ==
  /\ Stopped /\ 0 < commands /\ commands < MaxCommands
  /\ tool' = IF executed = << >> THEN [NoTool EXCEPT !.at = "restored"]
             ELSE [NoTool EXCEPT !.at = "probe", !.k = Len(executed)]
  /\ commands' = commands + 1
  /\ past' = [past EXCEPT !.rollbacks = @ + 1]
  /\ UNCHANGED <<tree, executed>>

\* Mutant: what was not completed was not done.
NotDoneUnlessCompleted == ManifestEntry.state = "in_progress"

\* A rename that was announced may have been done or not: the paths tell.
NotDone == ManifestEntry.state = "in_progress" /\ (Exists(ManifestEntry.op.src) \/ ~Exists(ManifestEntry.op.dst))

Probe ==
  /\ tool.at = "probe"
  /\ tool' = IF NotDone THEN Undone ELSE [tool EXCEPT !.at = "undo"]
  /\ tree' = IF ~NotDone /\ ManifestEntry.compat /\ tree[ManifestEntry.op.src][1] = "link"
             THEN [tree EXCEPT ![ManifestEntry.op.src] = Absent] ELSE tree
  /\ UNCHANGED <<executed, commands, past>>

Undo ==
  /\ tool.at = "undo"
  /\ IF CanRename(ManifestEntry.op.dst, ManifestEntry.op.src)
     THEN tree' = Renamed(ManifestEntry.op.dst, ManifestEntry.op.src) /\ tool' = Undone
     ELSE UNCHANGED tree /\ tool' = [NoTool EXCEPT !.at = "failed"]
  /\ UNCHANGED <<executed, commands, past>>

\* The manifest is not touched by a rollback, so that the next one begins anew.
StopRollback ==
  /\ tool.at \in {"probe", "undo"}
  /\ tool' = NoTool
  /\ UNCHANGED <<tree, executed, commands, past>>

\* --------------------------------------------------------------------------
MigrationInit ==
  /\ tree = [p \in Paths |-> CASE p = "claude-org" -> Dir("ja")
                               [] p = "claude-org-en" -> Dir("en")
                               [] p = "run" -> Dir("run")
                               [] OTHER -> Absent]
  /\ executed = << >> /\ tool = NoTool /\ commands = 0
  /\ past = [tree |-> tree, torn |-> FALSE, rollbacks |-> 0]

MigrationNext ==
  \/ StartApply \/ Announce \/ Rename \/ MakeJunction \/ MarkCompleted \/ StopApply
  \/ StartRollback \/ Probe \/ Undo \/ StopRollback

MigrationSpec == MigrationInit /\ [][MigrationNext]_migrationVars

MigrationTypeOK ==
  /\ DOMAIN tree = Paths /\ commands \in 0..MaxCommands
  /\ \A p \in Paths : tree[p] \in {Absent} \union {Dir(d) : d \in {"ja", "en", "run"}}
                                           \union {Link(q) : q \in Paths}
  /\ \A k \in DOMAIN executed : executed[k].state \in {"in_progress", "completed"}

\* The first rollback of an apply does not fail, and when it reports to be complete every
\* directory is where it was before the apply, wherever that had died: unless it died after
\* a link and before it had recorded the rename.
RollbackRestores ==
  past.rollbacks = 1 /\ ~past.torn => /\ tool.at = "restored" => tree = past.tree
                                     /\ tool.at # "failed"

\* The rollback's docstring and the runbook promise it without an exception.
RollbackAlwaysRestores == past.rollbacks = 1 /\ tool.at = "restored" => tree = past.tree

\* However often a migration died and was begun again, no name ever holds the other
\* project, and an apply that completes has every directory at its new place.
NamesMatchProjects ==
  /\ tree["claude-org-ja"] \in {Absent, Dir("ja")} \union {Link(q) : q \in Paths}
  /\ tool.at = "applied" => /\ tree["claude-org"] = Dir("en") /\ tree["claude-org-ja"] = Dir("ja")
                            /\ tree["_runs/run"] = Dir("run")

\* What the two promise: a rollback gives every directory back, and no name is ever of the
\* wrong project, wherever the migration or its rollback had died.
MigrationIsSafe == RollbackRestores /\ NamesMatchProjects
=============================================================================
