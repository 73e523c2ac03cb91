----------------------------- MODULE Delegation -----------------------------
(***************************************************************************)
(* From a task to a worker, in one project: gen_delegate_payload apply     *)
(* (tools/gen_delegate_payload.py) with the layout decision of             *)
(* tools/resolve_worker_layout.py, the DELEGATE message, its dispatch and  *)
(* the close.                                                              *)
(*                                                                         *)
(* An apply is a process that decides where the worker goes (pattern A: no *)
(* other run of the project is active; pattern B: one is), makes a git     *)
(* worktree, writes the brief and send_plan.json into the worker's         *)
(* directory, and last of all reserves the run together with its           *)
(* delegate_sent event.  It can be refused or killed at every step, and is *)
(* then run again, perhaps with another base branch.  The transaction of   *)
(* the reservation is one step here; module StateWriter opens it up.       *)
(***************************************************************************)
EXTENDS Naturals

CONSTANTS Appliers,    \* processes of gen_delegate_payload apply
          Tasks,       \* task ids, each also naming its own worktree directory
          root,        \* the directory workers/<slug> shared by all tasks
          Bases,       \* base branches
          none,        \* no directory, task or base
          MaxApplies,  \* bound: applies that may be started
          MaxFaults    \* bound: crashes, failed reads, failed commands

ASSUME DelegationAssumption == /\ root \notin Tasks
                               /\ none \notin Tasks \union Bases \union {root}
                               /\ MaxApplies \in Nat /\ MaxFaults \in Nat

VARIABLES registry,   \* what the registry says: a clone URL, a local repository, or a
                      \* local one whose tasks never share (self-edit, mirror_of)
          cloned,     \* is there a base clone in workers/<slug>
          runs,       \* runs[t]: status, pattern and worker_dir of the run
          gate,       \* gate[t]: base_ref in the delegate_sent event of t
          tree,       \* tree[t]: the worktree of t, its cut point, the recorded one
          brief,      \* brief[d]: whose brief is in directory d, for which base
          manifest,   \* manifest[d]: the same of d's send_plan.json
          mail,       \* mail[t]: where the DELEGATE message of t is
          pc,         \* where each apply is
          plan,       \* the DelegatePlan of each apply
          applies,    \* applies started so far
          faults      \* faults so far

dirVars == <<tree, brief, manifest>>
vars == <<registry, cloned, runs, gate, tree, brief, manifest, mail, pc, plan,
          applies, faults>>

Dirs == Tasks \union {root}
Status == {"none", "queued", "in_use", "review", "completed", "abandoned"}
Pattern == {"A", "B"}
Run == [status : Status, pattern : Pattern, dir : Dirs \union {none}]
Tree == [there : BOOLEAN, cut : Bases \union {none}, recorded : Bases \union {none}]
Note == [task : Tasks \union {none}, base : Bases \union {none}]
Plan == [task : Tasks, base : Bases, pattern : Pattern, dir : Dirs,
         repo : BOOLEAN, clone : BOOLEAN, blocked : BOOLEAN]

Steps == {"idle", "preflight", "clone", "tree", "record", "cite", "brief",
          "send_plan", "reserve"}

NoRun == [status |-> "none", pattern |-> "A", dir |-> none]
NoTree == [there |-> FALSE, cut |-> none, recorded |-> none]
NoNote == [task |-> none, base |-> none]

TypeOK ==
  /\ registry \in {"url", "local", "mirror"} /\ cloned \in BOOLEAN
  /\ runs \in [Tasks -> Run]
  /\ gate \in [Tasks -> Bases \union {none}]
  /\ tree \in [Tasks -> Tree]
  /\ brief \in [Dirs -> Note] /\ manifest \in [Dirs -> Note]
  /\ mail \in [Tasks -> {"none", "sent", "refused", "taken"}]
  /\ pc \in [Appliers -> Steps]
  /\ plan \in [Appliers -> Plan]
  /\ applies \in 0..MaxApplies /\ faults \in 0..MaxFaults

Init == /\ registry \in {"url", "local", "mirror"}
        /\ cloned \in BOOLEAN /\ (registry # "url" => ~cloned)
        /\ runs = [t \in Tasks |-> NoRun]
        /\ gate = [t \in Tasks |-> none]
        /\ tree = [t \in Tasks |-> NoTree]
        /\ brief = [d \in Dirs |-> NoNote]
        /\ manifest = [d \in Dirs |-> NoNote]
        /\ mail = [t \in Tasks |-> "none"]
        /\ pc = [p \in Appliers |-> "idle"]
        /\ \E t \in Tasks, b \in Bases :
             plan = [p \in Appliers |-> [task |-> t, base |-> b, pattern |-> "A",
                       dir |-> t, repo |-> FALSE, clone |-> FALSE, blocked |-> FALSE]]
        /\ applies = 0 /\ faults = 0

-----------------------------------------------------------------------------
(* Decisions                                                               *)

Active == {"queued", "in_use", "review"}

\* project_has_active_run
HasActiveRun == \E t \in Tasks : runs[t].status \in Active /\ runs[t].dir # none

\* Plausible bug: the registry row is missed and the task taken for an
\* ephemeral one (pattern C).
PatternMissed(active) == IF active \/ registry = "mirror" THEN "B" ELSE "C"

\* resolve: force_b
PatternFor(active) == IF active \/ registry = "mirror" THEN "B" ELSE "A"

\* Cut from a clone, every task has its own worktree; pattern A of a local
\* repository works in the shared directory.
DirFor(t, pattern) == IF registry = "local" /\ pattern = "A" THEN root ELSE t

\* A first task of a project that has a URL and no clone yet plans the clone.
PlansClone(pattern) == registry = "url" /\ ~cloned /\ pattern = "A"

\* base_repo: is there, or will there be, a repository to cut a worktree from?
HasRepo(pattern) == CASE registry = "url"    -> cloned \/ pattern = "A"
                      [] registry = "local"  -> pattern = "B"
                      [] registry = "mirror" -> TRUE

\* Plausible bug: what an earlier pattern A run left there is overwritten.
ResidueIgnored(hasRepo) == FALSE

\* _compute_layout_warnings: the brief of an earlier pattern A run is in
\* workers/<slug>, and there is no repository for a worktree.
Residue(hasRepo) == ~hasRepo /\ brief[root] # NoNote

\* build_delegate_plan
Resolved(t, b, active) ==
  LET pattern == PatternFor(active)
  IN [task |-> t, base |-> b, pattern |-> pattern, dir |-> DirFor(t, pattern),
      repo |-> HasRepo(pattern), clone |-> PlansClone(pattern),
      blocked |-> Residue(HasRepo(pattern))]

\* Plausible bug: only the status of the earlier reservation is looked at.
AnyIdentity(run, q) == TRUE

\* The reservation of a task may be repeated, not pointed somewhere else.
SameIdentity(run, q) == run.pattern = q.pattern /\ (run.dir # none => run.dir = q.dir)

\* _assert_reappliable
Reappliable(q) == LET run == runs[q.task]
                  IN \/ run.status = "none"
                     \/ run.status = "queued" /\ SameIdentity(run, q)

\* Plausible bug: the recorded review base is not compared.
BaseMayChange(q) == TRUE

\* _assert_review_base_unchanged
BaseUnchanged(q) == gate[q.task] \in {none, q.base}

\* Plausible bug: a worktree on the planned branch is good enough.
ReusableAlways(q) == TRUE

\* _assert_reused_worktree_base: refused if a recorded cut point disagrees,
\* and only then.
Reusable(q) == tree[q.task].recorded \in {none, q.base}

\* Plausible bug: the reservation first, the files after it.
ReserveFirst(step) == CASE step = "cite"      -> "reserve"
                        [] step = "reserve"   -> "brief"
                        [] step = "brief"     -> "send_plan"
                        [] step = "send_plan" -> "idle"

\* apply_delegate_plan: every step that may fail runs before the reservation.
Follows(step) == CASE step = "cite"      -> "brief"
                   [] step = "brief"     -> "send_plan"
                   [] step = "send_plan" -> "reserve"
                   [] step = "reserve"   -> "idle"

-----------------------------------------------------------------------------
(* The steps of an apply                                                   *)

Goto(p, step) == pc' = [pc EXCEPT ![p] = step]

Fault == faults < MaxFaults /\ faults' = faults + 1

\* build_delegate_plan.  When state.db cannot be read the project counts as
\* having no active run.
Resolve(p, t, b) ==
  /\ pc[p] = "idle" /\ applies < MaxApplies
  /\ applies' = applies + 1
  /\ \/ plan' = [plan EXCEPT ![p] = Resolved(t, b, HasActiveRun)] /\ UNCHANGED faults
     \/ plan' = [plan EXCEPT ![p] = Resolved(t, b, FALSE)] /\ Fault
  /\ Goto(p, "preflight")
  /\ UNCHANGED <<registry, cloned, runs, gate, dirVars, mail>>

Preflight(p) ==
  /\ pc[p] = "preflight"
  /\ Goto(p, IF Reappliable(plan[p]) /\ ~plan[p].blocked THEN "clone" ELSE "idle")
  /\ UNCHANGED <<registry, cloned, runs, gate, dirVars, mail, plan, applies, faults>>

\* _ensure_base_clone: a clone that appeared in the meantime is used.
EnsureClone(p) ==
  /\ pc[p] = "clone"
  /\ cloned' = (cloned \/ plan[p].clone)
  /\ Goto(p, "tree")
  /\ UNCHANGED <<registry, runs, gate, dirVars, mail, plan, applies, faults>>

\* _ensure_worktree without a repository: pattern A has nothing to create,
\* pattern B is refused.
NoTreeNeeded(p) ==
  /\ pc[p] = "tree" /\ ~plan[p].repo
  /\ Goto(p, IF plan[p].pattern = "B" THEN "idle" ELSE "cite")
  /\ UNCHANGED <<registry, cloned, runs, gate, dirVars, mail, plan, applies, faults>>

\* _ensure_worktree when the worktree is there: it is used again, or refused.
ReuseTree(p) ==
  /\ pc[p] = "tree" /\ plan[p].repo /\ tree[plan[p].task].there
  /\ Goto(p, IF Reusable(plan[p]) THEN "cite" ELSE "idle")
  /\ UNCHANGED <<registry, cloned, runs, gate, dirVars, mail, plan, applies, faults>>

\* git worktree add ...
AddTree(p) ==
  LET q == plan[p]
  IN /\ pc[p] = "tree" /\ q.repo /\ ~tree[q.task].there
     /\ tree' = [tree EXCEPT ![q.task] =
                   [there |-> TRUE, cut |-> q.base, recorded |-> none]]
     /\ Goto(p, "record")
     /\ UNCHANGED <<registry, cloned, runs, gate, brief, manifest, mail, plan,
                    applies, faults>>

\* ... and git config branch.<b>.claudeOrgBase, best-effort.
RecordBase(p) ==
  LET q == plan[p]
  IN /\ pc[p] = "record"
     /\ \/ tree' = [tree EXCEPT ![q.task].recorded = q.base] /\ UNCHANGED faults
        \/ Fault /\ UNCHANGED tree
     /\ Goto(p, "cite")
     /\ UNCHANGED <<registry, cloned, runs, gate, brief, manifest, mail, plan, applies>>

\* check_assumption_citations may refuse; then the review base is compared.
Cite(p) ==
  /\ pc[p] = "cite"
  /\ \/ BaseUnchanged(plan[p]) /\ Goto(p, Follows("cite"))
     \/ Goto(p, "idle")
  /\ UNCHANGED <<registry, cloned, runs, gate, dirVars, mail, plan, applies, faults>>

NoteOf(q) == [task |-> q.task, base |-> q.base]

WriteBrief(p) ==
  /\ pc[p] = "brief"
  /\ brief' = [brief EXCEPT ![plan[p].dir] = NoteOf(plan[p])]
  /\ Goto(p, Follows("brief"))
  /\ UNCHANGED <<registry, cloned, runs, gate, tree, manifest, mail, plan, applies, faults>>

\* The settings, then send_plan.json.
WriteSendPlan(p) ==
  /\ pc[p] = "send_plan"
  /\ manifest' = [manifest EXCEPT ![plan[p].dir] = NoteOf(plan[p])]
  /\ Goto(p, Follows("send_plan"))
  /\ UNCHANGED <<registry, cloned, runs, gate, tree, brief, mail, plan, applies, faults>>

\* _reserve_in_db: the guards again, the row, and the event if there is none.
Reserve(p) ==
  LET q == plan[p]
  IN /\ pc[p] = "reserve"
     /\ Reappliable(q) /\ BaseUnchanged(q)
     /\ runs' = [runs EXCEPT ![q.task] =
                   [status |-> "queued", pattern |-> q.pattern, dir |-> q.dir]]
     /\ gate' = [gate EXCEPT ![q.task] = IF @ = none THEN q.base ELSE @]
     /\ Goto(p, Follows("reserve"))
     /\ UNCHANGED <<registry, cloned, dirVars, mail, plan, applies, faults>>

\* The transaction refuses: the files are left behind.
ReserveRefused(p) ==
  /\ pc[p] = "reserve"
  /\ ~(Reappliable(plan[p]) /\ BaseUnchanged(plan[p]))
  /\ Goto(p, "idle")
  /\ UNCHANGED <<registry, cloned, runs, gate, dirVars, mail, plan, applies, faults>>

\* The process dies, or a command it runs fails.
Abort(p) ==
  /\ pc[p] # "idle"
  /\ Fault
  /\ Goto(p, "idle")
  /\ UNCHANGED <<registry, cloned, runs, gate, dirVars, mail, plan, applies>>

-----------------------------------------------------------------------------
(* After the apply                                                         *)

\* The secretary sends the DELEGATE of send_plan.json.
Send(t) ==
  /\ runs[t].status = "queued" /\ mail[t] \in {"none", "refused"}
  /\ mail' = [mail EXCEPT ![t] = "sent"]
  /\ UNCHANGED <<registry, cloned, runs, gate, dirVars, pc, plan, applies, faults>>

\* The dispatcher spawns the worker and upserts the run (T2) ...
Dispatch(t) ==
  /\ mail[t] = "sent"
  /\ mail' = [mail EXCEPT ![t] = "taken"]
  /\ runs' = [runs EXCEPT ![t].status = "in_use"]
  /\ UNCHANGED <<registry, cloned, gate, dirVars, pc, plan, applies, faults>>

\* ... or has no room for it (SPLIT_CAPACITY_EXCEEDED).
NoRoom(t) ==
  /\ mail[t] = "sent"
  /\ mail' = [mail EXCEPT ![t] = "refused"]
  /\ UNCHANGED <<registry, cloned, runs, gate, dirVars, pc, plan, applies, faults>>

\* T8: the secretary gives the reservation up.
Abandon(t) ==
  /\ mail[t] = "refused" /\ runs[t].status = "queued"
  /\ runs' = [runs EXCEPT ![t].status = "abandoned"]
  /\ UNCHANGED <<registry, cloned, gate, dirVars, mail, pc, plan, applies, faults>>

\* T4, T6.
Review(t) ==
  /\ runs[t].status \in {"in_use", "review"}
  /\ runs' = [runs EXCEPT ![t].status = IF @ = "in_use" THEN "review" ELSE "in_use"]
  /\ UNCHANGED <<registry, cloned, gate, dirVars, mail, pc, plan, applies, faults>>

\* T5: the run is completed; a worktree goes, with its branch and its row in
\* worker_dirs, the shared directory stays as it is.
Close(t) ==
  LET d == runs[t].dir
      emptied(notes) == IF d = root THEN notes ELSE [notes EXCEPT ![d] = NoNote]
  IN /\ runs[t].status = "review"
     /\ runs' = [runs EXCEPT ![t].status = "completed",
                             ![t].dir = IF d = root THEN root ELSE none]
     /\ tree' = [tree EXCEPT ![t] = NoTree]
     /\ brief' = emptied(brief) /\ manifest' = emptied(manifest)
     /\ UNCHANGED <<registry, cloned, gate, mail, pc, plan, applies, faults>>

\* The operator cleans the shared directory, as the refusal asks.
CleanResidue ==
  /\ brief[root] # NoNote
  /\ \A p \in Appliers : pc[p] = "idle"
  /\ \A t \in Tasks : runs[t].status \in Active => runs[t].dir # root
  /\ brief' = [brief EXCEPT ![root] = NoNote]
  /\ manifest' = [manifest EXCEPT ![root] = NoNote]
  /\ UNCHANGED <<registry, cloned, runs, gate, tree, mail, pc, plan, applies, faults>>

Next == \/ \E p \in Appliers :
             \/ \E t \in Tasks, b \in Bases : Resolve(p, t, b)
             \/ Preflight(p) \/ EnsureClone(p)
             \/ NoTreeNeeded(p) \/ ReuseTree(p) \/ AddTree(p) \/ RecordBase(p) \/ Cite(p)
             \/ WriteBrief(p) \/ WriteSendPlan(p)
             \/ Reserve(p) \/ ReserveRefused(p) \/ Abort(p)
        \/ \E t \in Tasks : \/ Send(t) \/ Dispatch(t) \/ NoRoom(t) \/ Abandon(t)
                            \/ Review(t) \/ Close(t)
        \/ CleanResidue

Spec == Init /\ [][Next]_vars

-----------------------------------------------------------------------------
(* Properties                                                              *)

\* "A committed delegate_sent always has a sendable payload behind it"
\* (_reserve_in_db): a reservation that was not dispatched yet finds its own
\* brief, its own send_plan.json and its worktree in its directory, whatever
\* other applies and retries did since.
ReservedIsSendable ==
  \A t \in Tasks : runs[t].status = "queued" =>
    LET d == runs[t].dir
    IN /\ d \in Dirs /\ brief[d].task = t /\ manifest[d].task = t
       /\ d # root => tree[t].there

\* Two active runs never share a directory, even when the layout decision was
\* made without reading state.db.
SeparateDirs ==
  \A t, u \in Tasks : /\ runs[t].status \in Active /\ runs[u].status \in Active
                      /\ t # u
                      => runs[t].dir # runs[u].dir

\* The brief and send_plan.json of an active run name the base that the Codex
\* gate reads from its delegate_sent event, through re-applies with other bases.
FilesMatchGate ==
  \A t \in Tasks : runs[t].status \in Active =>
    /\ brief[runs[t].dir].base = gate[t]
    /\ manifest[runs[t].dir].base = gate[t]

\* The branch of a reserved run was cut from the base it is reviewed against,
\* unless the cut point could not be recorded.
BranchMatchesGate ==
  \A t \in Tasks :
    runs[t].status \in Active /\ runs[t].dir = t
      => tree[t].cut = gate[t] \/ tree[t].recorded = none

\* Files, branch and Codex gate of every active run are on one base.
BasesMatch == FilesMatchGate /\ BranchMatchesGate

\* Once a delegation is recorded, no re-apply points the run at another
\* directory or pattern, or changes the recorded base.
NeverRepointed ==
  [][\A t \in Tasks : gate[t] # none =>
       /\ gate'[t] = gate[t]
       /\ runs'[t].pattern = runs[t].pattern
       /\ runs'[t].dir \in {runs[t].dir, none}]_vars

\* Contract I2: "For Pattern A delegations, at most one run row per project
\* may have status IN ('queued','in_use','review')".
OneActivePatternA ==
  \A t, u \in Tasks :
    /\ runs[t].status \in Active /\ runs[t].pattern = "A"
    /\ runs[u].status \in Active /\ runs[u].pattern = "A"
    => t = u

\* apply_delegate_plan: "a failure before the transaction leaves no run row
\* and no event, so the same task_id can simply be re-applied".
FailedApplyCanBeRepeated ==
  \A t \in Tasks, b \in Bases :
    /\ \A p \in Appliers : pc[p] = "idle"
    /\ brief[root].task = t /\ runs[t].status = "none" /\ ~HasActiveRun
    => ~Resolved(t, b, FALSE).blocked
=============================================================================
