-------------------------- MODULE DelegationProofs --------------------------
(***************************************************************************)
(* Theorems about Delegation, for any tasks, bases, number of applies and  *)
(* faults.  Type correctness and NeverRepointed hold for any number of     *)
(* overlapping applies; what a worker finds in its directory is proved for *)
(* one apply at a time, as the secretary runs them.                        *)
(***************************************************************************)
EXTENDS Delegation, TLAPS

-----------------------------------------------------------------------------
(* The inductive invariants                                                *)

\* What the registry and the plan say of a directory goes together.
PlanFits ==
  \A p \in Appliers : pc[p] # "idle" =>
    LET q == plan[p]
    IN /\ q.dir \in {q.task, root}
       /\ q.dir = root => ~q.repo
       /\ q.pattern = "A" /\ ~q.repo => q.dir = root

\* A run and its delegate_sent event come together, a run has a directory until
\* it is closed, and only a reserved run has an undecided DELEGATE.
RowsFit ==
  \A t \in Tasks :
    /\ gate[t] = none <=> runs[t].status = "none"
    /\ runs[t].dir \in {t, root, none}
    /\ runs[t].status \in Active \union {"abandoned"} => runs[t].dir # none
    /\ mail[t] = "sent" => runs[t].status = "queued"

RowInv == TypeOK /\ PlanFits /\ RowsFit

\* The note that the files of a run must hold.
Promised(t) == [task |-> t, base |-> gate[t]]

\* Everything in the directory of an active run is that run's own.
Owned ==
  \A t \in Tasks : runs[t].status \in Active =>
    LET d == runs[t].dir
    IN /\ brief[d] = Promised(t) /\ manifest[d] = Promised(t)
       /\ d # root => tree[t].there /\ tree[t].recorded \in {none, gate[t]}

\* A recorded cut point is the true one.
CutRecorded == \A t \in Tasks : tree[t].recorded \in {none, tree[t].cut}

Past(step) ==
  CASE step = "preflight" -> Steps \ {"idle", "preflight"}
    [] step = "tree"      -> {"cite", "brief", "send_plan", "reserve"}
    [] step = "cite"      -> {"brief", "send_plan", "reserve"}
    [] step = "brief"     -> {"send_plan", "reserve"}
    [] step = "send_plan" -> {"reserve"}

\* Can the task still be reserved?
Reservable(t) == runs[t].status \in {"none", "queued"}

\* What an apply has established before each step, and nobody takes away while
\* its task can still be reserved: the residue it looked for ...
ResidueSeen(p) ==
  pc[p] = "preflight" /\ plan[p].dir = root /\ ~plan[p].blocked => brief[root] = NoNote

\* ... a directory that no other active run works in ...
DirFree(p) ==
  pc[p] \in Past("preflight") =>
    /\ plan[p].dir = root => \A u \in Tasks : runs[u].status \in Active => runs[u].dir # root
    /\ runs[plan[p].task].status \in Active => runs[plan[p].task].dir = plan[p].dir

\* ... a worktree that it cut, and no run works in ...
BranchCut(p) ==
  pc[p] = "record" =>
    /\ runs[plan[p].task].status \notin Active
    /\ tree[plan[p].task] = [there |-> TRUE, cut |-> plan[p].base, recorded |-> none]

\* ... a worktree it may use ...
TreeReady(p) ==
  pc[p] \in Past("tree") /\ plan[p].dir # root /\ Reservable(plan[p].task) =>
    tree[plan[p].task].there /\ tree[plan[p].task].recorded \in {none, plan[p].base}

\* ... a base that agrees with the delegate_sent event ...
BaseAgreed(p) == pc[p] \in Past("cite") => gate[plan[p].task] \in {none, plan[p].base}

\* ... and the two files.
BriefReady(p) ==
  pc[p] \in Past("brief") /\ Reservable(plan[p].task) => brief[plan[p].dir] = NoteOf(plan[p])

ManifestReady(p) ==
  pc[p] \in Past("send_plan") /\ Reservable(plan[p].task)
    => manifest[plan[p].dir] = NoteOf(plan[p])

InFlightOf(p) == /\ ResidueSeen(p) /\ DirFree(p) /\ BranchCut(p) /\ TreeReady(p)
                 /\ BaseAgreed(p) /\ BriefReady(p) /\ ManifestReady(p)

InFlight == \A p \in Appliers : InFlightOf(p)

FileInv == RowInv /\ Owned /\ CutRecorded /\ InFlight

\* One secretary session, which applies one plan at a time.
OneApply == \A p, q \in Appliers : p = q

-----------------------------------------------------------------------------
(* Type correctness                                                        *)

\* The steps, one case each: every proof about Next splits along it.
LEMMA NextCases ==
  ASSUME Next
  PROVE  \/ \E p \in Appliers, t \in Tasks, b \in Bases : Resolve(p, t, b)
         \/ \E p \in Appliers :
              \/ Preflight(p) \/ EnsureClone(p)
              \/ NoTreeNeeded(p) \/ ReuseTree(p) \/ AddTree(p) \/ RecordBase(p)
              \/ Cite(p) \/ WriteBrief(p) \/ WriteSendPlan(p)
              \/ Reserve(p) \/ ReserveRefused(p) \/ Abort(p)
         \/ \E t \in Tasks : \/ Send(t) \/ Dispatch(t) \/ NoRoom(t) \/ Abandon(t)
                             \/ Review(t) \/ Close(t)
         \/ CleanResidue
BY DEF Next

\* What a resolved plan is, whatever the registry, the clone and the other runs.
LEMMA ResolvedIsPlan ==
  ASSUME TypeOK, NEW t \in Tasks, NEW b \in Bases, NEW active \in BOOLEAN
  PROVE  LET q == Resolved(t, b, active)
         IN /\ q \in Plan
            /\ q.task = t /\ q.base = b
            /\ q.dir \in {t, root}
            /\ q.dir = root => ~q.repo /\ q.blocked = (brief[root] # NoNote)
            /\ q.pattern = "A" /\ ~q.repo => q.dir = root
<1>1. PatternFor(active) \in Pattern
  BY DEF PatternFor, Pattern
<1>2. HasRepo(PatternFor(active)) \in BOOLEAN
  BY DEF HasRepo, PatternFor, TypeOK
<1>3. DirFor(t, PatternFor(active)) \in {t, root}
  BY DEF DirFor
<1>4. DirFor(t, PatternFor(active)) = root
        => t = root \/ (registry = "local" /\ PatternFor(active) = "A")
  BY DEF DirFor
<1>5. t # root
  BY DelegationAssumption
<1>6. PatternFor(active) = "A" /\ ~HasRepo(PatternFor(active))
        => DirFor(t, PatternFor(active)) = root
  BY DEF DirFor, HasRepo, PatternFor, TypeOK
<1>7. registry = "local" /\ PatternFor(active) = "A" => ~HasRepo(PatternFor(active))
  BY DEF HasRepo
<1> QED
  BY <1>1, <1>2, <1>3, <1>4, <1>5, <1>6, <1>7
  DEF Resolved, Plan, Dirs, PlansClone, Residue, TypeOK

\* The run that Reserve writes.
LEMMA ReservedIsRun ==
  ASSUME NEW q \in Plan
  PROVE  [status |-> "queued", pattern |-> q.pattern, dir |-> q.dir] \in Run
BY DEF Plan, Run, Status

\* The initial state is well typed.
LEMMA InitTypeOK == Init => TypeOK
BY DelegationAssumption
DEF Init, TypeOK, NoRun, NoTree, NoNote, Run, Status, Pattern, Tree, Note, Plan, Dirs, Steps

\* A record with one field replaced, field by field.
LEMMA RunWith ==
  ASSUME NEW r \in Run, NEW s \in Status, NEW d \in Dirs \union {none}
  PROVE  /\ [r EXCEPT !.status = s] = [status |-> s, pattern |-> r.pattern, dir |-> r.dir]
         /\ [r EXCEPT !.dir = d] = [status |-> r.status, pattern |-> r.pattern, dir |-> d]
         /\ [r EXCEPT !.status = s] \in Run /\ [r EXCEPT !.dir = d] \in Run
BY DEF Run

\* A worktree record with its recorded cut point replaced.
LEMMA TreeWith ==
  ASSUME NEW r \in Tree, NEW b \in Bases \union {none}
  PROVE  /\ [r EXCEPT !.recorded = b] = [there |-> r.there, cut |-> r.cut, recorded |-> b]
         /\ [r EXCEPT !.recorded = b] \in Tree
BY DEF Tree

\* The two bounds of the model are kept.
LEMMA Tallied ==
  ASSUME NEW n \in Nat, NEW k \in 0..n, k < n
  PROVE  k + 1 \in 0..n
OBVIOUS

\* No fault is counted beyond the bound.
LEMMA FaultCounted ==
  ASSUME faults \in 0..MaxFaults, Fault
  PROVE  faults' \in 0..MaxFaults
BY DelegationAssumption, Tallied DEF Fault

\* Type correctness is inductive by itself.
LEMMA NextTypeOK == TypeOK /\ [Next]_vars => TypeOK'
<1> SUFFICES ASSUME TypeOK, [Next]_vars PROVE TypeOK'
  OBVIOUS
<1> USE DEF TypeOK, dirVars, Goto, Steps
<1>0. CASE UNCHANGED vars
  BY <1>0 DEF vars
<1>1. ASSUME NEW p \in Appliers, NEW t \in Tasks, NEW b \in Bases, Resolve(p, t, b)
      PROVE  TypeOK'
  <2>1. Resolved(t, b, HasActiveRun) \in Plan /\ Resolved(t, b, FALSE) \in Plan
    BY ResolvedIsPlan DEF HasActiveRun
  <2>2. applies' \in 0..MaxApplies /\ faults' \in 0..MaxFaults
    <3>1. applies < MaxApplies /\ applies' = applies + 1 /\ (faults' = faults \/ Fault)
      BY <1>1 DEF Resolve
    <3>2. applies \in 0..MaxApplies /\ faults \in 0..MaxFaults
      OBVIOUS
    <3> HIDE DEF TypeOK
    <3>3. applies' \in 0..MaxApplies
      BY <3>1, <3>2, Tallied, DelegationAssumption
    <3>4. faults' \in 0..MaxFaults
      BY <3>1, <3>2, FaultCounted
    <3> QED
      BY <3>3, <3>4
  <2>3. plan' \in [Appliers -> Plan] /\ pc' \in [Appliers -> Steps]
    BY <1>1, <2>1 DEF Resolve
  <2> QED
    BY <1>1, <2>2, <2>3 DEF Resolve
<1>2. ASSUME NEW p \in Appliers,
             Preflight(p) \/ EnsureClone(p) \/ NoTreeNeeded(p) \/ ReuseTree(p)
      PROVE  TypeOK'
  BY <1>2 DEF Preflight, EnsureClone, NoTreeNeeded, ReuseTree
<1>3. ASSUME NEW p \in Appliers, AddTree(p) PROVE TypeOK'
  <2>1. [there |-> TRUE, cut |-> plan[p].base, recorded |-> none] \in Tree
    BY DEF Tree, Plan
  <2>2. tree' \in [Tasks -> Tree]
    BY <1>3, <2>1 DEF AddTree
  <2> QED
    BY <1>3, <2>2 DEF AddTree
<1>4. ASSUME NEW p \in Appliers, RecordBase(p) PROVE TypeOK'
  <2>1. tree' \in [Tasks -> Tree]
    <3>1. plan[p].task \in Tasks /\ plan[p].base \in Bases
      BY DEF Plan
    <3>2. tree' = tree \/ tree' = [tree EXCEPT ![plan[p].task] =
                                   [@ EXCEPT !.recorded = plan[p].base]]
      BY <1>4 DEF RecordBase
    <3>3. [tree[plan[p].task] EXCEPT !.recorded = plan[p].base] \in Tree
      <4>1. tree[plan[p].task] \in Tree
        BY <3>1
      <4> HIDE DEF TypeOK
      <4> QED
        BY <3>1, <4>1, TreeWith
    <3>4. tree \in [Tasks -> Tree]
      OBVIOUS
    <3> HIDE DEF TypeOK
    <3> QED
      BY <3>2, <3>3, <3>4
  <2>2. faults' \in 0..MaxFaults
    <3>1. faults' = faults \/ Fault
      BY <1>4 DEF RecordBase
    <3> QED
      BY <3>1, FaultCounted
  <2> QED
    BY <1>4, <2>1, <2>2 DEF RecordBase
<1>5. ASSUME NEW p \in Appliers, Cite(p) PROVE TypeOK'
  BY <1>5 DEF Cite, Follows
<1>6. ASSUME NEW p \in Appliers, WriteBrief(p) \/ WriteSendPlan(p) PROVE TypeOK'
  <2>1. plan[p].dir \in Dirs /\ NoteOf(plan[p]) \in Note
    BY DEF Plan, Note, NoteOf
  <2> QED
    BY <1>6, <2>1 DEF WriteBrief, WriteSendPlan, Follows
<1>7. ASSUME NEW p \in Appliers, Reserve(p) PROVE TypeOK'
  <2>1. runs' \in [Tasks -> Run]
    BY <1>7, ReservedIsRun DEF Reserve
  <2>2. gate' \in [Tasks -> Bases \union {none}]
    BY <1>7 DEF Reserve, Plan
  <2> QED
    BY <1>7, <2>1, <2>2 DEF Reserve, Follows
<1>8. ASSUME NEW p \in Appliers, ReserveRefused(p) PROVE TypeOK'
  BY <1>8 DEF ReserveRefused
<1>9. ASSUME NEW p \in Appliers, Abort(p) PROVE TypeOK'
  BY <1>9, FaultCounted DEF Abort
<1>10. ASSUME NEW t \in Tasks, Send(t) \/ NoRoom(t) PROVE TypeOK'
  BY <1>10 DEF Send, NoRoom
<1>11. ASSUME NEW t \in Tasks, Dispatch(t) \/ Abandon(t) \/ Review(t) PROVE TypeOK'
  <2>1. runs' \in [Tasks -> Run]
    BY <1>11 DEF Dispatch, Abandon, Review, Run, Status
  <2> QED
    BY <1>11, <2>1 DEF Dispatch, Abandon, Review
<1>12. ASSUME NEW t \in Tasks, Close(t) PROVE TypeOK'
  <2>1. runs' \in [Tasks -> Run]
    <3>1. PICK d \in {root, none} :
             runs' = [runs EXCEPT ![t] = [[@ EXCEPT !.status = "completed"] EXCEPT !.dir = d]]
      BY <1>12 DEF Close
    <3>2. [[runs[t] EXCEPT !.status = "completed"] EXCEPT !.dir = d] \in Run
      <4>1. "completed" \in Status /\ d \in Dirs \union {none} /\ runs[t] \in Run
        BY DEF Status, Dirs
      <4>2. [runs[t] EXCEPT !.status = "completed"] \in Run
        BY <4>1, RunWith
      <4>3. "queued" \in Status
        BY DEF Status
      <4> HIDE DEF TypeOK
      <4> QED
        BY <4>1, <4>2, <4>3, RunWith
    <3>3. runs \in [Tasks -> Run]
      OBVIOUS
    <3> HIDE DEF TypeOK
    <3> QED
      BY <3>1, <3>2, <3>3
  <2>2. tree' \in [Tasks -> Tree] /\ brief' \in [Dirs -> Note]
        /\ manifest' \in [Dirs -> Note]
    BY <1>12 DEF Close, NoTree, NoNote, Tree, Note
  <2> QED
    BY <1>12, <2>1, <2>2 DEF Close
<1>13. ASSUME CleanResidue PROVE TypeOK'
  BY <1>13 DEF CleanResidue, NoNote, Note
<1> QED
  BY <1>0, <1>1, <1>2, <1>3, <1>4, <1>5, <1>6, <1>7, <1>8, <1>9, <1>10, <1>11, <1>12,
     <1>13, NextCases

\* Type correctness, for any number of overlapping applies: every plan, run,
\* note and worktree keeps its shape, and every apply knows its next step.
THEOREM DelegationTyped == Spec => []TypeOK
BY InitTypeOK, NextTypeOK, PTL DEF Spec

-----------------------------------------------------------------------------
(* Runs, their directories and their events                                *)

\* What a change of status leaves alone.
LEMMA StatusMoves ==
  ASSUME TypeOK, NEW t \in Tasks, NEW s \in Status,
         runs' = [runs EXCEPT ![t].status = s]
  PROVE  \A u \in Tasks :
           /\ runs'[u].status = IF u = t THEN s ELSE runs[u].status
           /\ runs'[u].pattern = runs[u].pattern
           /\ runs'[u].dir = runs[u].dir
<1>1. runs \in [Tasks -> Run]
  BY DEF TypeOK
<1>2. \A u \in Tasks : runs'[u] = IF u = t THEN [runs[t] EXCEPT !.status = s] ELSE runs[u]
  BY <1>1
<1>3. [runs[t] EXCEPT !.status = s] =
        [status |-> s, pattern |-> runs[t].pattern, dir |-> runs[t].dir]
  BY <1>1, RunWith DEF Run
<1> QED
  BY <1>2, <1>3

\* Only these six actions change the table of runs; each is one line of it.
LEMMA RunsAfter ==
  ASSUME TypeOK, NEW t \in Tasks
  PROVE  /\ Dispatch(t) => \A u \in Tasks :
              /\ runs'[u].status = IF u = t THEN "in_use" ELSE runs[u].status
              /\ runs'[u].pattern = runs[u].pattern /\ runs'[u].dir = runs[u].dir
         /\ Abandon(t) => \A u \in Tasks :
              /\ runs'[u].status = IF u = t THEN "abandoned" ELSE runs[u].status
              /\ runs'[u].pattern = runs[u].pattern /\ runs'[u].dir = runs[u].dir
         /\ Review(t) => \A u \in Tasks :
              /\ u # t => runs'[u].status = runs[u].status
              /\ runs[t].status \in {"in_use", "review"}
              /\ runs'[t].status \in {"in_use", "review"}
              /\ runs'[u].pattern = runs[u].pattern /\ runs'[u].dir = runs[u].dir
         /\ Close(t) => \A u \in Tasks :
              /\ runs'[u].status = IF u = t THEN "completed" ELSE runs[u].status
              /\ runs'[u].pattern = runs[u].pattern
              /\ runs'[u].dir = IF u = t /\ runs[t].dir # root THEN none ELSE runs[u].dir
<1> USE DEF Status
<1>1. ASSUME Dispatch(t) \/ Abandon(t) PROVE
        \E s \in {"in_use", "abandoned"} :
          /\ Dispatch(t) => s = "in_use"
          /\ Abandon(t) => s = "abandoned"
          /\ runs' = [runs EXCEPT ![t].status = s]
  <2>1. ~(Dispatch(t) /\ Abandon(t))
    BY DEF Dispatch, Abandon
  <2> QED
    BY <1>1, <2>1 DEF Dispatch, Abandon
<1>2. Review(t) => /\ runs[t].status \in {"in_use", "review"}
                   /\ \E s \in {"in_use", "review"} : runs' = [runs EXCEPT ![t].status = s]
  BY DEF Review
<1>3. ASSUME Close(t) PROVE
        \A u \in Tasks :
          /\ runs'[u].status = IF u = t THEN "completed" ELSE runs[u].status
          /\ runs'[u].pattern = runs[u].pattern
          /\ runs'[u].dir = IF u = t /\ runs[t].dir # root THEN none ELSE runs[u].dir
  <2>1. runs \in [Tasks -> Run]
    BY DEF TypeOK
  <2> DEFINE d == IF runs[t].dir = root THEN root ELSE none
             half == [runs[t] EXCEPT !.status = "completed"]
  <2>2. half = [status |-> "completed", pattern |-> runs[t].pattern, dir |-> runs[t].dir]
        /\ half \in Run
    <3>1. runs[t] \in Run /\ "completed" \in Status /\ none \in Dirs \union {none}
      BY <2>1
    <3> QED
      BY <3>1, RunWith
  <2>3. [half EXCEPT !.dir = d] =
          [status |-> "completed", pattern |-> runs[t].pattern, dir |-> d]
    BY <2>2, RunWith DEF Dirs
  <2>4. runs' = [runs EXCEPT ![t] = [half EXCEPT !.dir = d]]
    BY <1>3 DEF Close
  <2> QED
    BY <2>1, <2>3, <2>4
<1> QED
  BY <1>1, <1>2, <1>3, StatusMoves

\* What Reserve writes, and what its guards knew before.
LEMMA ReserveAfter ==
  ASSUME TypeOK, NEW p \in Appliers, Reserve(p)
  PROVE  LET q == plan[p]
         IN /\ runs[q.task].status \in {"none", "queued"}
            /\ runs[q.task].status = "queued" => SameIdentity(runs[q.task], q)
            /\ gate[q.task] \in {none, q.base}
            /\ \A u \in Tasks :
                 /\ u # q.task => runs'[u] = runs[u] /\ gate'[u] = gate[u]
                 /\ u = q.task => /\ runs'[u].status = "queued"
                                  /\ runs'[u].pattern = q.pattern
                                  /\ runs'[u].dir = q.dir
                                  /\ gate'[u] = q.base
<1> DEFINE q == plan[p]
           row == [status |-> "queued", pattern |-> q.pattern, dir |-> q.dir]
<1>1. /\ q.task \in Tasks /\ q.base \in Bases
      /\ DOMAIN runs = Tasks /\ DOMAIN gate = Tasks
  BY DEF TypeOK, Plan
<1>2. /\ runs[q.task].status \in {"none", "queued"}
      /\ runs[q.task].status = "queued" => SameIdentity(runs[q.task], q)
      /\ gate[q.task] \in {none, q.base}
      /\ runs' = [runs EXCEPT ![q.task] = row]
      /\ gate' = [gate EXCEPT ![q.task] = IF @ = none THEN q.base ELSE @]
  BY DEF Reserve, Reappliable, BaseUnchanged
<1>3. \A u \in Tasks :
        /\ u # q.task => runs'[u] = runs[u] /\ gate'[u] = gate[u]
        /\ u = q.task => runs'[u] = row /\ gate'[u] = q.base
  <2>1. /\ runs \in [Tasks -> Run] /\ gate \in [Tasks -> Bases \union {none}]
    BY DEF TypeOK
  <2> HIDE DEF q, row
  <2> QED
    BY <2>1, <1>1, <1>2
<1> QED
  BY <1>2, <1>3

\* Before any apply there is no plan and no run.
LEMMA InitRowInv == Init => RowInv
<1> SUFFICES ASSUME Init PROVE PlanFits /\ RowsFit
  BY InitTypeOK DEF RowInv
<1>1. PlanFits
  <2>1. pc = [p \in Appliers |-> "idle"]
    BY DEF Init
  <2> QED
    BY <2>1 DEF PlanFits
<1>2. RowsFit
  <2>1. /\ runs = [t \in Tasks |-> NoRun] /\ gate = [t \in Tasks |-> none]
        /\ mail = [t \in Tasks |-> "none"]
    BY DEF Init
  <2> QED
    BY <2>1 DEF RowsFit, NoRun, Active
<1> QED
  BY <1>1, <1>2

\* A plan is made by Resolve alone, and kept.
LEMMA NextPlanFits == TypeOK /\ PlanFits /\ [Next]_vars => PlanFits'
<1> SUFFICES ASSUME TypeOK, PlanFits, [Next]_vars, NEW x \in Appliers, pc'[x] # "idle"
             PROVE  LET q == plan'[x]
                    IN /\ q.dir \in {q.task, root}
                       /\ q.dir = root => ~q.repo
                       /\ q.pattern = "A" /\ ~q.repo => q.dir = root
  BY DEF PlanFits
<1>1. ASSUME plan'[x] = plan[x], pc[x] # "idle"
      PROVE  LET q == plan'[x]
             IN /\ q.dir \in {q.task, root}
                /\ q.dir = root => ~q.repo
                /\ q.pattern = "A" /\ ~q.repo => q.dir = root
  BY <1>1 DEF PlanFits
<1>0. CASE UNCHANGED vars
  BY <1>0, <1>1 DEF vars
<1>2. ASSUME NEW p \in Appliers, NEW t \in Tasks, NEW b \in Bases, Resolve(p, t, b)
      PROVE  LET q == plan'[x]
             IN /\ q.dir \in {q.task, root}
                /\ q.dir = root => ~q.repo
                /\ q.pattern = "A" /\ ~q.repo => q.dir = root
  <2>1. CASE x = p
    <3>1. PICK active \in BOOLEAN : plan' = [plan EXCEPT ![p] = Resolved(t, b, active)]
      BY <1>2 DEF Resolve, HasActiveRun
    <3>2. plan'[x] = Resolved(t, b, active)
      BY <2>1, <3>1 DEF TypeOK
    <3> QED
      BY <3>2, ResolvedIsPlan
  <2>2. CASE x # p
    BY <1>2, <2>2, <1>1 DEF Resolve, Goto, TypeOK
  <2> QED
    BY <2>1, <2>2
<1>3. ASSUME NEW p \in Appliers,
             \/ Preflight(p) \/ EnsureClone(p)
             \/ NoTreeNeeded(p) \/ ReuseTree(p) \/ AddTree(p) \/ RecordBase(p)
             \/ Cite(p) \/ WriteBrief(p) \/ WriteSendPlan(p)
             \/ Reserve(p) \/ ReserveRefused(p) \/ Abort(p)
      PROVE  plan'[x] = plan[x] /\ pc[x] # "idle"
  <2>1. plan' = plan /\ pc[p] # "idle" /\ \E step : pc' = [pc EXCEPT ![p] = step]
    BY <1>3 DEF Preflight, EnsureClone, NoTreeNeeded, ReuseTree, AddTree, RecordBase, Cite,
                WriteBrief, WriteSendPlan, Reserve, ReserveRefused, Abort, Goto
  <2> QED
    BY <2>1 DEF TypeOK
<1>4. ASSUME CleanResidue \/ \E t \in Tasks : Send(t) \/ Dispatch(t) \/ NoRoom(t)
                                    \/ Abandon(t) \/ Review(t) \/ Close(t)
      PROVE  plan'[x] = plan[x] /\ pc[x] # "idle"
  BY <1>4 DEF Send, Dispatch, NoRoom, Abandon, Review, Close, CleanResidue
<1> QED
  BY <1>0, <1>1, <1>2, <1>3, <1>4, NextCases

\* A run, its event and its DELEGATE move together.
LEMMA NextRowsFit == RowInv /\ [Next]_vars => RowsFit'
<1> SUFFICES ASSUME RowInv, [Next]_vars, NEW u \in Tasks
             PROVE  /\ gate'[u] = none <=> runs'[u].status = "none"
                    /\ runs'[u].dir \in {u, root, none}
                    /\ runs'[u].status \in Active \union {"abandoned"} => runs'[u].dir # none
                    /\ mail'[u] = "sent" => runs'[u].status = "queued"
  BY DEF RowsFit
<1> DEFINE Fits == /\ gate'[u] = none <=> runs'[u].status = "none"
                   /\ runs'[u].dir \in {u, root, none}
                   /\ runs'[u].status \in Active \union {"abandoned"} => runs'[u].dir # none
                   /\ mail'[u] = "sent" => runs'[u].status = "queued"
<1> USE DEF RowInv, Active
<1>a. /\ gate[u] = none <=> runs[u].status = "none"
      /\ runs[u].dir \in {u, root, none}
      /\ runs[u].status \in Active \union {"abandoned"} => runs[u].dir # none
      /\ mail[u] = "sent" => runs[u].status = "queued"
  BY DEF RowsFit
<1>0. ASSUME UNCHANGED <<runs, gate, mail>> PROVE Fits
  BY <1>0, <1>a
<1>1. ASSUME NEW p \in Appliers, Reserve(p) PROVE Fits
  <2>1. plan[p].dir \in {plan[p].task, root} /\ plan[p].base # none /\ plan[p].dir # none
    BY <1>1, DelegationAssumption DEF PlanFits, Reserve, TypeOK, Plan
  <2>2. mail' = mail
    BY <1>1 DEF Reserve
  <2>3. CASE u = plan[p].task
    BY <1>1, <2>1, <2>3, ReserveAfter
  <2>4. CASE u # plan[p].task
    BY <1>1, <1>a, <2>2, <2>4, ReserveAfter
  <2> QED
    BY <2>3, <2>4
<1>2. ASSUME NEW t \in Tasks, Send(t) \/ NoRoom(t) PROVE Fits
  BY <1>2, <1>a DEF Send, NoRoom, TypeOK
<1>3. ASSUME NEW t \in Tasks, Dispatch(t) PROVE Fits
  <2>1. runs[t].status = "queued"
    BY <1>3 DEF Dispatch, RowsFit
  <2>2. mail' = [mail EXCEPT ![t] = "taken"] /\ gate' = gate
    BY <1>3 DEF Dispatch
  <2> QED
    BY <1>3, <1>a, <2>1, <2>2, RunsAfter DEF TypeOK
<1>4. ASSUME NEW t \in Tasks, Abandon(t) \/ Review(t) \/ Close(t) PROVE Fits
  <2>1. /\ mail' = mail /\ gate' = gate
        /\ runs[t].status \in {"queued", "in_use", "review"}
        /\ runs[t].status = "queued" => mail[t] = "refused"
    BY <1>4 DEF Abandon, Review, Close
  <2> QED
    BY <1>4, <1>a, <2>1, RunsAfter
<1> QED
  <2>1. \/ UNCHANGED <<runs, gate, mail>>
        \/ \E p \in Appliers : Reserve(p)
        \/ \E t \in Tasks : \/ Send(t) \/ NoRoom(t) \/ Dispatch(t)
                            \/ Abandon(t) \/ Review(t) \/ Close(t)
    BY NextCases DEF vars, Resolve, Preflight, EnsureClone, NoTreeNeeded, ReuseTree,
       AddTree, RecordBase, Cite, WriteBrief, WriteSendPlan, ReserveRefused, Abort,
       CleanResidue
  <2> QED
    BY <1>0, <1>1, <1>2, <1>3, <1>4, <2>1

\* RowInv is inductive for any number of overlapping applies.
LEMMA NextRowInv == RowInv /\ [Next]_vars => RowInv'
BY NextTypeOK, NextPlanFits, NextRowsFit DEF RowInv

\* One step never repoints a recorded delegation: Reserve compares the identity
\* and the base again, and nothing else writes them.
LEMMA NextNeverRepointed ==
  ASSUME RowInv, Next, NEW u \in Tasks, gate[u] # none
  PROVE  /\ gate'[u] = gate[u]
         /\ runs'[u].pattern = runs[u].pattern
         /\ runs'[u].dir \in {runs[u].dir, none}
<1> USE DEF RowInv
<1>a. runs[u].status # "none" /\ (runs[u].status = "queued" => runs[u].dir # none)
  BY DEF RowsFit, Active
<1>1. ASSUME NEW p \in Appliers, Reserve(p)
      PROVE  /\ gate'[u] = gate[u]
             /\ runs'[u].pattern = runs[u].pattern
             /\ runs'[u].dir \in {runs[u].dir, none}
  BY <1>1, <1>a, ReserveAfter DEF SameIdentity
<1>2. ASSUME NEW t \in Tasks, Dispatch(t) \/ Abandon(t) \/ Review(t) \/ Close(t)
      PROVE  /\ gate'[u] = gate[u]
             /\ runs'[u].pattern = runs[u].pattern
             /\ runs'[u].dir \in {runs[u].dir, none}
  <2>1. gate' = gate
    BY <1>2 DEF Dispatch, Abandon, Review, Close
  <2> QED
    BY <1>2, <2>1, RunsAfter
<1> QED
  <2>1. \/ UNCHANGED <<runs, gate>>
        \/ \E p \in Appliers : Reserve(p)
        \/ \E t \in Tasks : Dispatch(t) \/ Abandon(t) \/ Review(t) \/ Close(t)
    BY NextCases DEF Resolve, Preflight, EnsureClone, NoTreeNeeded, ReuseTree,
       AddTree, RecordBase, Cite, WriteBrief, WriteSendPlan, ReserveRefused, Abort,
       CleanResidue, Send, NoRoom
  <2> QED
    BY <1>1, <1>2, <2>1

\* However many applies of a task are repeated, overlap, fail or race with the
\* dispatcher, the pattern, the directory and the review base that were first
\* recorded for it stay.
THEOREM DelegationKept == Spec => NeverRepointed
<1>1. RowInv /\ [Next]_vars =>
        [\A t \in Tasks : gate[t] # none =>
           /\ gate'[t] = gate[t]
           /\ runs'[t].pattern = runs[t].pattern
           /\ runs'[t].dir \in {runs[t].dir, none}]_vars
  BY NextNeverRepointed
<1> QED
  BY <1>1, InitRowInv, NextRowInv, PTL DEF Spec, NeverRepointed

-----------------------------------------------------------------------------
(* What is in the directory of a run                                       *)

\* The notes of an active run, field by field.
LEMMA OwnedNotes ==
  ASSUME Owned, NEW u \in Tasks, runs[u].status \in Active
  PROVE  LET d == runs[u].dir
         IN /\ brief[d].task = u /\ brief[d].base = gate[u]
            /\ manifest[d].task = u /\ manifest[d].base = gate[u]
<1>1. brief[runs[u].dir] = Promised(u) /\ manifest[runs[u].dir] = Promised(u)
  BY DEF Owned
<1>2. Promised(u).task = u /\ Promised(u).base = gate[u]
  BY DEF Promised
<1> QED
  BY <1>1, <1>2

\* Before any apply nothing is in any directory.
LEMMA InitFileInv == Init => FileInv
<1> SUFFICES ASSUME Init PROVE Owned /\ CutRecorded /\ InFlight
  BY InitRowInv DEF FileInv
<1>1. Owned
  <2>1. runs = [t \in Tasks |-> NoRun]
    BY DEF Init
  <2> QED
    BY <2>1 DEF Owned, NoRun, Active
<1>2. CutRecorded
  <2>1. tree = [t \in Tasks |-> NoTree]
    BY DEF Init
  <2> QED
    BY <2>1 DEF CutRecorded, NoTree
<1>3. InFlight
  <2>1. pc = [p \in Appliers |-> "idle"]
    BY DEF Init
  <2> QED
    BY <2>1 DEF InFlight, InFlightOf, Past, Steps, ResidueSeen, DirFree, BranchCut,
                TreeReady, BaseAgreed, BriefReady, ManifestReady
<1> QED
  BY <1>1, <1>2, <1>3

\* Recording the cut point changes one field of one worktree, or nothing.
LEMMA RecordAfter ==
  ASSUME TypeOK, NEW p \in Appliers, RecordBase(p)
  PROVE  LET q == plan[p]
         IN /\ \A u \in Tasks : u # q.task => tree'[u] = tree[u]
            /\ \/ tree' = tree
               \/ tree'[q.task] = [there |-> tree[q.task].there, cut |-> tree[q.task].cut,
                                   recorded |-> q.base]
<1> DEFINE q == plan[p]
           changed == [tree[q.task] EXCEPT !.recorded = q.base]
<1>1. tree \in [Tasks -> Tree] /\ q.task \in Tasks /\ q.base \in Bases
  BY DEF TypeOK, Plan
<1>2. tree' = tree \/ tree' = [tree EXCEPT ![q.task] = changed]
  BY DEF RecordBase
<1>3. changed = [there |-> tree[q.task].there, cut |-> tree[q.task].cut, recorded |-> q.base]
  BY <1>1, TreeWith
<1> HIDE DEF q, changed
<1>4. \/ tree' = tree
      \/ /\ \A u \in Tasks : u # q.task => tree'[u] = tree[u]
         /\ tree'[q.task] = changed
  BY <1>1, <1>2
<1> QED
  BY <1>3, <1>4 DEF q

\* A recorded cut point is written by the apply that has just cut the branch.
LEMMA NextCutRecorded == FileInv /\ [Next]_vars => CutRecorded'
<1> SUFFICES ASSUME FileInv, [Next]_vars, NEW u \in Tasks
             PROVE  tree'[u].recorded \in {none, tree'[u].cut}
  BY DEF CutRecorded
<1> USE DEF FileInv, RowInv
<1>a. tree[u].recorded \in {none, tree[u].cut} /\ tree \in [Tasks -> Tree]
  BY DEF CutRecorded, TypeOK
<1>0. ASSUME UNCHANGED tree PROVE tree'[u].recorded \in {none, tree'[u].cut}
  BY <1>0, <1>a
<1>1. ASSUME NEW p \in Appliers, AddTree(p)
      PROVE  tree'[u].recorded \in {none, tree'[u].cut}
  <2> DEFINE fresh == [there |-> TRUE, cut |-> plan[p].base, recorded |-> none]
  <2>1. tree' = [tree EXCEPT ![plan[p].task] = fresh]
    BY <1>1 DEF AddTree
  <2>2. tree'[u] = fresh \/ tree'[u] = tree[u]
    <3> HIDE DEF fresh, FileInv
    <3> QED
      BY <1>a, <2>1
  <2> QED
    BY <1>a, <2>2
<1>2. ASSUME NEW p \in Appliers, RecordBase(p)
      PROVE  tree'[u].recorded \in {none, tree'[u].cut}
  <2>1. tree[plan[p].task].cut = plan[p].base
    <3>1. pc[p] = "record" /\ InFlightOf(p)
      BY <1>2 DEF RecordBase, InFlight
    <3>2. tree[plan[p].task] = [there |-> TRUE, cut |-> plan[p].base, recorded |-> none]
      <4> HIDE DEF FileInv
      <4> QED
        BY <3>1 DEF InFlightOf, BranchCut
    <3> HIDE DEF FileInv
    <3> QED
      BY <3>2
  <2>2. \/ tree'[u] = tree[u]
        \/ /\ u = plan[p].task
           /\ tree'[u] = [there |-> tree[u].there, cut |-> tree[u].cut,
                          recorded |-> plan[p].base]
    BY <1>2, RecordAfter
  <2> QED
    BY <1>a, <2>1, <2>2
<1>3. ASSUME NEW t \in Tasks, Close(t)
      PROVE  tree'[u].recorded \in {none, tree'[u].cut}
  <2>1. tree'[u] = NoTree \/ tree'[u] = tree[u]
    BY <1>3, <1>a DEF Close
  <2> QED
    BY <1>a, <2>1 DEF NoTree
<1> QED
  <2>1. \/ UNCHANGED tree
        \/ \E p \in Appliers : AddTree(p) \/ RecordBase(p)
        \/ \E t \in Tasks : Close(t)
    BY NextCases DEF vars, dirVars, Resolve, Preflight, EnsureClone, NoTreeNeeded, ReuseTree,
       Cite, WriteBrief, WriteSendPlan, Reserve, ReserveRefused, Abort, CleanResidue, Send,
       NoRoom, Dispatch, Abandon, Review
  <2> QED
    BY <1>0, <1>1, <1>2, <1>3, <2>1

\* The step that takes a plan to the brief was allowed by what is established:
\* nobody else's active run is in the directory that is about to be written.
LEMMA WritesOwnDir ==
  ASSUME RowInv, Owned, NEW p \in Appliers, InFlightOf(p),
         pc[p] \in Past("cite"), NEW u \in Tasks,
         runs[u].status \in Active, runs[u].dir = plan[p].dir
  PROVE  u = plan[p].task /\ NoteOf(plan[p]) = Promised(u)
<1> DEFINE q == plan[p]
<1>1. pc[p] \in Past("preflight") /\ pc[p] # "idle"
  BY DEF Past, Steps
<1>2. q.dir # root
  BY <1>1 DEF InFlightOf, DirFree
<1>3. q.dir = q.task /\ q.task \in Tasks
  BY <1>1, <1>2 DEF RowInv, PlanFits, TypeOK, Plan
<1>4. runs[u].dir \in {u, root}
  BY DEF RowInv, RowsFit
<1>5. u = q.task
  BY <1>2, <1>3, <1>4
<1>6. gate[u] # none
  BY DEF RowInv, RowsFit, Active
<1>7. gate[u] = q.base
  BY <1>5, <1>6 DEF InFlightOf, BaseAgreed
<1> QED
  BY <1>5, <1>7 DEF NoteOf, Promised

\* The directory of an active run stays its own through every step.
LEMMA NextOwned == FileInv /\ [Next]_vars => Owned'
<1> DEFINE Mine(u) == LET d == runs[u].dir
                      IN /\ brief[d] = Promised(u) /\ manifest[d] = Promised(u)
                         /\ d # root => /\ tree[u].there
                                        /\ tree[u].recorded \in {none, gate[u]}
<1> SUFFICES ASSUME FileInv, [Next]_vars, NEW u \in Tasks, runs'[u].status \in Active
             PROVE  Mine(u)'
  BY DEF Owned
<1>t. TypeOK /\ RowInv /\ Owned /\ PlanFits /\ RowsFit /\ InFlight
  BY DEF FileInv, RowInv
<1> HIDE DEF FileInv
<1>a. ASSUME runs[u].status \in Active
      PROVE  Mine(u) /\ runs[u].dir \in {u, root}
  BY <1>a, <1>t DEF Owned, RowsFit
<1>b. brief \in [Dirs -> Note] /\ manifest \in [Dirs -> Note] /\ tree \in [Tasks -> Tree]
      /\ u \in Dirs /\ root \in Dirs
  BY <1>t DEF TypeOK, Dirs
<1>0. ASSUME UNCHANGED <<runs, gate, tree, brief, manifest>> PROVE Mine(u)'
  BY <1>0, <1>a DEF Promised
<1>1. ASSUME NEW p \in Appliers, AddTree(p) PROVE Mine(u)'
  <2>1. UNCHANGED <<runs, gate, brief, manifest>> /\ ~tree[plan[p].task].there
    BY <1>1 DEF AddTree
  <2>2. u # plan[p].task => tree'[u] = tree[u]
    BY <1>1, <1>b DEF AddTree
  <2> QED
    BY <2>1, <2>2, <1>a DEF Promised
<1>2. ASSUME NEW p \in Appliers, RecordBase(p) PROVE Mine(u)'
  <2>1. UNCHANGED <<runs, gate, brief, manifest>>
    BY <1>2 DEF RecordBase
  <2>2. runs[plan[p].task].status \notin Active
    BY <1>2, <1>t DEF RecordBase, InFlight, InFlightOf, BranchCut
  <2>3. u # plan[p].task
    BY <2>1, <2>2
  <2>4. tree'[u] = tree[u]
    BY <1>2, <1>t, <2>3, RecordAfter
  <2> QED
    BY <2>1, <2>4, <1>a DEF Promised
<1>3. ASSUME NEW p \in Appliers, WriteBrief(p) PROVE Mine(u)'
  <2> DEFINE d == runs[u].dir
  <2>1. /\ pc[p] \in Past("cite") /\ InFlightOf(p)
        /\ brief' = [brief EXCEPT ![plan[p].dir] = NoteOf(plan[p])]
        /\ UNCHANGED <<runs, gate, tree, manifest>>
    BY <1>3, <1>t DEF WriteBrief, Past, InFlight
  <2>2. brief'[d] = brief[d] \/ (d = plan[p].dir /\ brief'[d] = NoteOf(plan[p]))
    <3>1. d \in Dirs
      BY <2>1, <1>a, <1>b
    <3> HIDE DEF d
    <3> QED
      BY <2>1, <3>1, <1>b
  <2>3. d = plan[p].dir => NoteOf(plan[p]) = Promised(u)
    BY <2>1, <1>t, WritesOwnDir
  <2> QED
    BY <2>1, <2>2, <2>3, <1>a DEF Promised
<1>4. ASSUME NEW p \in Appliers, WriteSendPlan(p) PROVE Mine(u)'
  <2> DEFINE d == runs[u].dir
  <2>1. /\ pc[p] \in Past("cite") /\ InFlightOf(p)
        /\ manifest' = [manifest EXCEPT ![plan[p].dir] = NoteOf(plan[p])]
        /\ UNCHANGED <<runs, gate, tree, brief>>
    BY <1>4, <1>t DEF WriteSendPlan, Past, InFlight
  <2>2. manifest'[d] = manifest[d] \/ (d = plan[p].dir /\ manifest'[d] = NoteOf(plan[p]))
    <3>1. d \in Dirs
      BY <2>1, <1>a, <1>b
    <3> HIDE DEF d
    <3> QED
      BY <2>1, <3>1, <1>b
  <2>3. d = plan[p].dir => NoteOf(plan[p]) = Promised(u)
    BY <2>1, <1>t, WritesOwnDir
  <2> QED
    BY <2>1, <2>2, <2>3, <1>a DEF Promised
<1>5. ASSUME NEW p \in Appliers, Reserve(p) PROVE Mine(u)'
  <2> DEFINE q == plan[p]
  <2>1. UNCHANGED <<tree, brief, manifest>> /\ InFlightOf(p) /\ pc[p] = "reserve"
    BY <1>5, <1>t DEF Reserve, dirVars, InFlight
  <2>2. CASE u = q.task
    <3>1. runs'[u].dir = q.dir /\ gate'[u] = q.base /\ Reservable(u)
      BY <1>5, <1>t, <2>2, ReserveAfter DEF Reservable
    <3>2. /\ brief[q.dir] = NoteOf(q) /\ manifest[q.dir] = NoteOf(q)
          /\ q.dir # root => tree[u].there /\ tree[u].recorded \in {none, q.base}
      BY <2>1, <2>2, <3>1 DEF InFlightOf, TreeReady, BriefReady, ManifestReady, Past
    <3> QED
      BY <2>1, <2>2, <3>1, <3>2 DEF NoteOf, Promised
  <2>3. CASE u # q.task
    <3>1. runs'[u] = runs[u] /\ gate'[u] = gate[u]
      BY <1>5, <1>t, <2>3, ReserveAfter
    <3> QED
      BY <2>1, <3>1, <1>a DEF Promised
  <2> QED
    BY <2>2, <2>3
<1>6. ASSUME NEW t \in Tasks, Dispatch(t) \/ Abandon(t) \/ Review(t) PROVE Mine(u)'
  <2>1. UNCHANGED <<gate, tree, brief, manifest>>
    BY <1>6 DEF Dispatch, Abandon, Review, dirVars
  <2>2. Dispatch(t) => runs[t].status = "queued"
    BY <1>t DEF Dispatch, RowsFit
  <2>3. runs[u].status \in Active /\ runs'[u].dir = runs[u].dir
    BY <1>6, <1>t, <2>2, RunsAfter DEF Active
  <2> QED
    BY <2>1, <2>3, <1>a DEF Promised
<1>7. ASSUME NEW t \in Tasks, Close(t) PROVE Mine(u)'
  <2>1. u # t /\ runs[u].status \in Active /\ runs'[u].dir = runs[u].dir
    BY <1>7, <1>t, RunsAfter DEF Active
  <2>2. runs[t].dir \in {t, root}
    BY <1>7, <1>t DEF Close, RowsFit, Active
  <2>3. tree'[u] = tree[u] /\ gate' = gate
    BY <1>7, <1>b, <2>1 DEF Close
  <2>4. /\ brief' = brief \/ brief' = [brief EXCEPT ![t] = NoNote]
        /\ manifest' = manifest \/ manifest' = [manifest EXCEPT ![t] = NoNote]
    BY <1>7, <2>2 DEF Close
  <2>5. runs[u].dir # t /\ runs[u].dir \in Dirs
    BY <2>1, <1>a, <1>b, DelegationAssumption
  <2>6. brief'[runs[u].dir] = brief[runs[u].dir] /\ manifest'[runs[u].dir] = manifest[runs[u].dir]
    BY <2>4, <2>5, <1>b
  <2> QED
    BY <2>1, <2>3, <2>6, <1>a DEF Promised
<1>8. ASSUME CleanResidue PROVE Mine(u)'
  <2>1. /\ UNCHANGED <<runs, gate, tree>> /\ runs[u].dir # root
        /\ brief' = [brief EXCEPT ![root] = NoNote]
        /\ manifest' = [manifest EXCEPT ![root] = NoNote]
    BY <1>8 DEF CleanResidue
  <2>2. brief'[runs[u].dir] = brief[runs[u].dir] /\ manifest'[runs[u].dir] = manifest[runs[u].dir]
    BY <2>1, <1>a, <1>b
  <2> QED
    BY <2>1, <2>2, <1>a DEF Promised
<1> HIDE DEF Mine
<1> QED
  <2>1. \/ UNCHANGED <<runs, gate, tree, brief, manifest>>
        \/ \E p \in Appliers : \/ AddTree(p) \/ RecordBase(p) \/ WriteBrief(p)
                               \/ WriteSendPlan(p) \/ Reserve(p)
        \/ \E t \in Tasks : Dispatch(t) \/ Abandon(t) \/ Review(t) \/ Close(t)
        \/ CleanResidue
    BY NextCases DEF vars, dirVars, Resolve, Preflight, EnsureClone, NoTreeNeeded, ReuseTree,
       Cite, ReserveRefused, Abort, Send, NoRoom
  <2> QED
    BY <1>0, <1>1, <1>2, <1>3, <1>4, <1>5, <1>6, <1>7, <1>8, <2>1

\* What the secretary, the dispatcher and the close may do while an apply runs:
\* take the task beyond reservation, but not touch what the apply made for it.
LEMMA OthersKeepInFlight ==
  ASSUME FileInv, NEW p \in Appliers, NEW t \in Tasks,
         Send(t) \/ NoRoom(t) \/ Dispatch(t) \/ Abandon(t) \/ Review(t) \/ Close(t)
  PROVE  InFlightOf(p)'
<1> DEFINE q == plan[p]
<1>t. TypeOK /\ RowInv /\ Owned /\ PlanFits /\ RowsFit /\ InFlightOf(p)
  BY DEF FileInv, RowInv, InFlight
<1> HIDE DEF FileInv
<1>b. /\ brief \in [Dirs -> Note] /\ manifest \in [Dirs -> Note] /\ tree \in [Tasks -> Tree]
      /\ q.task \in Tasks
  BY <1>t DEF TypeOK, Plan
<1>1. UNCHANGED <<pc, plan, gate>>
  BY DEF Send, NoRoom, Dispatch, Abandon, Review, Close
<1>2. \A u \in Tasks :
        /\ runs'[u].status \in Active
             => runs[u].status \in Active /\ runs'[u].dir = runs[u].dir
        /\ runs'[u].status \in {"none", "queued"} => runs[u].status \in {"none", "queued"}
  <2>1. Send(t) \/ NoRoom(t) => runs' = runs
    BY DEF Send, NoRoom
  <2>2. Dispatch(t) => runs[t].status = "queued"
    BY <1>t DEF Dispatch, RowsFit
  <2> QED
    BY <1>t, <2>1, <2>2, RunsAfter DEF Active
<1>3. \/ UNCHANGED <<tree, brief, manifest>>
      \/ /\ Close(t) /\ runs[t].status = "review" /\ runs'[t].status = "completed"
         /\ tree' = [tree EXCEPT ![t] = NoTree]
         /\ brief' = brief \/ brief' = [brief EXCEPT ![t] = NoNote]
         /\ manifest' = manifest \/ manifest' = [manifest EXCEPT ![t] = NoNote]
  <2>1. Close(t) => runs[t].dir \in {t, root} /\ runs'[t].status = "completed"
    BY <1>t, RunsAfter DEF Close, RowsFit, Active
  <2> QED
    BY <2>1 DEF Send, NoRoom, Dispatch, Abandon, Review, Close, dirVars
<1>4. /\ brief[root] = NoNote => brief'[root] = NoNote
      /\ runs[q.task].status \notin Active => tree'[q.task] = tree[q.task]
  <2>1. t # root /\ root \in Dirs
    BY DelegationAssumption DEF Dirs
  <2> QED
    BY <1>3, <1>b, <2>1 DEF Active
<1>5. Reservable(q.task)' =>
        /\ Reservable(q.task) /\ tree'[q.task] = tree[q.task]
        /\ q.dir \in {q.task, root} =>
             brief'[q.dir] = brief[q.dir] /\ manifest'[q.dir] = manifest[q.dir]
  <2> SUFFICES ASSUME runs'[q.task].status \in {"none", "queued"}
               PROVE  /\ runs[q.task].status \in {"none", "queued"}
                      /\ tree'[q.task] = tree[q.task]
                      /\ q.dir \in {q.task, root} =>
                           brief'[q.dir] = brief[q.dir] /\ manifest'[q.dir] = manifest[q.dir]
    BY <1>1 DEF Reservable
  <2>1. UNCHANGED <<tree, brief, manifest>> \/ q.task # t
    BY <1>3
  <2>2. t # root /\ root \in Dirs /\ q.task \in Dirs
    BY <1>b, DelegationAssumption DEF Dirs
  <2>3. runs[q.task].status \in {"none", "queued"}
    BY <1>2, <1>b
  <2>4. tree'[q.task] = tree[q.task]
    BY <2>1, <1>3, <1>b
  <2>5. q.dir \in {q.task, root} =>
           brief'[q.dir] = brief[q.dir] /\ manifest'[q.dir] = manifest[q.dir]
    BY <2>1, <2>2, <1>3, <1>b
  <2> QED
    BY <2>3, <2>4, <2>5
<1>6. pc[p] \in Past("brief") \union Past("send_plan") => q.dir \in {q.task, root}
  BY <1>t DEF Past, PlanFits
<1>7. NoteOf(q)' = NoteOf(q) /\ plan'[p] = q /\ pc'[p] = pc[p]
  BY <1>1 DEF NoteOf
<1>8. runs'[q.task].status \in Active => runs[q.task].status \in Active
                                         /\ runs'[q.task].dir = runs[q.task].dir
  BY <1>2, <1>b
<1>9. pc[p] = "record" => runs[q.task].status \notin Active
  BY <1>t DEF InFlightOf, BranchCut
<1>10. /\ ResidueSeen(p) /\ DirFree(p) /\ BranchCut(p) /\ TreeReady(p)
       /\ BaseAgreed(p) /\ BriefReady(p) /\ ManifestReady(p)
  BY <1>t DEF InFlightOf
<1>11. ResidueSeen(p)'
  BY <1>1, <1>4, <1>10 DEF ResidueSeen
<1>12. DirFree(p)'
  BY <1>1, <1>2, <1>8, <1>10 DEF DirFree, Past
<1>13. BranchCut(p)'
  BY <1>1, <1>4, <1>8, <1>10 DEF BranchCut
<1>14. TreeReady(p)'
  BY <1>1, <1>5, <1>10 DEF TreeReady, Past
<1>15. BaseAgreed(p)'
  BY <1>1, <1>10 DEF BaseAgreed, Past
<1>16. BriefReady(p)' /\ ManifestReady(p)'
  BY <1>1, <1>5, <1>6, <1>7, <1>10 DEF BriefReady, ManifestReady, Past
<1> QED
  BY <1>11, <1>12, <1>13, <1>14, <1>15, <1>16 DEF InFlightOf

\* An apply establishes, step by step, what its next step relies on.
LEMMA OwnStepInFlight ==
  ASSUME FileInv, NEW p \in Appliers,
         \/ \E t \in Tasks, b \in Bases : Resolve(p, t, b)
         \/ Preflight(p) \/ EnsureClone(p)
         \/ NoTreeNeeded(p) \/ ReuseTree(p) \/ AddTree(p) \/ RecordBase(p)
         \/ Cite(p) \/ WriteBrief(p) \/ WriteSendPlan(p)
         \/ Reserve(p) \/ ReserveRefused(p) \/ Abort(p)
  PROVE  InFlightOf(p)'
<1> DEFINE q == plan[p]
<1>t. TypeOK /\ RowInv /\ Owned /\ PlanFits /\ RowsFit /\ InFlightOf(p)
  BY DEF FileInv, RowInv, InFlight
<1> HIDE DEF FileInv
<1>b. /\ brief \in [Dirs -> Note] /\ manifest \in [Dirs -> Note] /\ tree \in [Tasks -> Tree]
      /\ pc \in [Appliers -> Steps] /\ plan \in [Appliers -> Plan]
      /\ q.task \in Tasks /\ q.dir \in Dirs /\ q.pattern \in {"A", "B"}
  BY <1>t DEF TypeOK, Plan, Pattern
<1>c. /\ ResidueSeen(p) /\ DirFree(p) /\ BranchCut(p) /\ TreeReady(p)
      /\ BaseAgreed(p) /\ BriefReady(p) /\ ManifestReady(p)
  BY <1>t DEF InFlightOf
<1> USE DEF Goto
<1>0. ASSUME pc'[p] = "idle" PROVE InFlightOf(p)'
  BY <1>0 DEF InFlightOf, ResidueSeen, DirFree, BranchCut, TreeReady, BaseAgreed, BriefReady,
              ManifestReady, Past, Steps
<1>1. ASSUME NEW t \in Tasks, NEW b \in Bases, Resolve(p, t, b) PROVE InFlightOf(p)'
  <2>1. PICK active \in BOOLEAN : plan' = [plan EXCEPT ![p] = Resolved(t, b, active)]
    BY <1>1 DEF Resolve, HasActiveRun
  <2>2. plan'[p] = Resolved(t, b, active) /\ pc'[p] = "preflight" /\ brief' = brief
    BY <1>1, <1>b, <2>1 DEF Resolve, dirVars
  <2>3. plan'[p].dir = root => plan'[p].blocked = (brief[root] # NoNote)
    BY <1>t, <2>2, ResolvedIsPlan
  <2> QED
    BY <2>2, <2>3 DEF InFlightOf, ResidueSeen, DirFree, BranchCut, TreeReady, BaseAgreed,
       BriefReady, ManifestReady, Past
<1>2. ASSUME Preflight(p), pc'[p] = "clone" PROVE InFlightOf(p)'
  <2>1. /\ UNCHANGED <<runs, plan>> /\ pc[p] = "preflight"
        /\ Reappliable(q) /\ ~q.blocked
    BY <1>2, <1>b DEF Preflight
  <2>2. runs[q.task].status \in Active => runs[q.task].dir = q.dir
    <3>1. runs[q.task].status \in Active
            => SameIdentity(runs[q.task], q) /\ runs[q.task].dir # none
      BY <2>1, <1>b, <1>t DEF Reappliable, RowsFit, Active
    <3> QED
      BY <3>1 DEF SameIdentity
  <2>3. ASSUME q.dir = root, NEW u \in Tasks, runs[u].status \in Active,
               runs[u].dir = root
        PROVE  FALSE
    <3>1. brief[root].task = u
      BY <1>t, <2>3, OwnedNotes
    <3>2. brief[root].task = none
      BY <1>c, <2>1, <2>3 DEF ResidueSeen, NoNote
    <3> QED
      BY <3>1, <3>2, DelegationAssumption
  <2> QED
    BY <1>2, <2>1, <2>2, <2>3 DEF InFlightOf, ResidueSeen, DirFree, BranchCut, TreeReady,
       BaseAgreed, BriefReady, ManifestReady, Past, Steps
<1>3. ASSUME EnsureClone(p) PROVE InFlightOf(p)'
  <2>1. UNCHANGED <<runs, plan>> /\ pc[p] = "clone" /\ pc'[p] = "tree"
    BY <1>3, <1>b DEF EnsureClone
  <2> QED
    BY <2>1, <1>c DEF InFlightOf, ResidueSeen, DirFree, BranchCut, TreeReady, BaseAgreed,
       BriefReady, ManifestReady, Past, Steps
<1>4. ASSUME NoTreeNeeded(p) \/ ReuseTree(p), pc'[p] = "cite" PROVE InFlightOf(p)'
  <2>1. UNCHANGED <<runs, tree, plan>> /\ pc[p] = "tree"
    BY <1>4 DEF NoTreeNeeded, ReuseTree, dirVars
  <2>2. q.dir # root => tree[q.task].there /\ tree[q.task].recorded \in {none, q.base}
    <3>1. NoTreeNeeded(p) => q.dir = root
      BY <1>4, <1>b, <1>t DEF NoTreeNeeded, PlanFits
    <3>2. ReuseTree(p) => tree[q.task].there /\ tree[q.task].recorded \in {none, q.base}
      BY <1>4, <1>b DEF ReuseTree, Reusable
    <3> QED
      BY <1>4, <3>1, <3>2
  <2>3. DirFree(p)' /\ TreeReady(p)'
    BY <1>4, <2>1, <2>2, <1>c DEF DirFree, TreeReady, Past, Steps
  <2> QED
    BY <1>4, <2>3 DEF InFlightOf, ResidueSeen, BranchCut, BaseAgreed, BriefReady,
       ManifestReady, Past
<1>5. ASSUME AddTree(p) PROVE InFlightOf(p)'
  <2>1. /\ UNCHANGED <<runs, plan>> /\ pc[p] = "tree" /\ pc'[p] = "record"
        /\ q.repo /\ ~tree[q.task].there
        /\ tree' = [tree EXCEPT ![q.task] =
                      [there |-> TRUE, cut |-> q.base, recorded |-> none]]
    BY <1>5, <1>b DEF AddTree
  <2>2. q.dir # root
    BY <2>1, <1>t DEF PlanFits
  <2>3. runs[q.task].status \notin Active
    BY <2>1, <2>2, <1>b, <1>c, <1>t DEF DirFree, Owned, Past, Steps
  <2>4. tree'[q.task] = [there |-> TRUE, cut |-> q.base, recorded |-> none]
    BY <2>1, <1>b
  <2>5. DirFree(p)' /\ BranchCut(p)'
    BY <2>1, <2>2, <2>3, <2>4 DEF DirFree, BranchCut
  <2> QED
    BY <2>1, <2>5 DEF InFlightOf, ResidueSeen, TreeReady, BaseAgreed, BriefReady,
       ManifestReady, Past
<1>6. ASSUME RecordBase(p) PROVE InFlightOf(p)'
  <2>1. UNCHANGED <<runs, plan>> /\ pc[p] = "record" /\ pc'[p] = "cite"
    BY <1>6, <1>b DEF RecordBase
  <2>2. tree[q.task] = [there |-> TRUE, cut |-> q.base, recorded |-> none]
    BY <2>1, <1>c DEF BranchCut
  <2>3. tree'[q.task].there /\ tree'[q.task].recorded \in {none, q.base}
    <3>1. \/ tree'[q.task] = tree[q.task]
          \/ tree'[q.task] = [there |-> tree[q.task].there, cut |-> tree[q.task].cut,
                              recorded |-> q.base]
      BY <1>6, <1>t, RecordAfter
    <3> HIDE DEF q
    <3> QED
      BY <2>2, <3>1
  <2>4. DirFree(p)' /\ TreeReady(p)'
    BY <2>1, <2>3, <1>c DEF DirFree, TreeReady, Past, Steps
  <2> QED
    BY <2>1, <2>4 DEF InFlightOf, ResidueSeen, BranchCut, BaseAgreed, BriefReady,
       ManifestReady, Past
<1>7. ASSUME Cite(p), pc'[p] = "brief" PROVE InFlightOf(p)'
  <2>1. UNCHANGED <<runs, tree, gate, plan>> /\ pc[p] = "cite" /\ BaseUnchanged(q)
    BY <1>7, <1>b DEF Cite, dirVars
  <2>2. DirFree(p)' /\ TreeReady(p)' /\ BaseAgreed(p)'
    BY <1>7, <2>1, <1>c DEF DirFree, TreeReady, BaseAgreed, BaseUnchanged, Past, Steps,
       Reservable
  <2> QED
    BY <1>7, <2>2 DEF InFlightOf, ResidueSeen, BranchCut, BriefReady, ManifestReady, Past
<1>8. ASSUME WriteBrief(p) PROVE InFlightOf(p)'
  <2>1. /\ UNCHANGED <<runs, tree, gate, plan>> /\ pc[p] = "brief" /\ pc'[p] = "send_plan"
        /\ brief' = [brief EXCEPT ![q.dir] = NoteOf(q)]
    BY <1>8, <1>b DEF WriteBrief, Follows
  <2>2. brief'[q.dir] = NoteOf(q)
    BY <2>1, <1>b
  <2>3. DirFree(p)' /\ TreeReady(p)' /\ BaseAgreed(p)' /\ BriefReady(p)'
    BY <2>1, <2>2, <1>c DEF DirFree, TreeReady, BaseAgreed, BriefReady, Past, Steps,
       Reservable, NoteOf
  <2> QED
    BY <2>1, <2>3 DEF InFlightOf, ResidueSeen, BranchCut, ManifestReady, Past
<1>9. ASSUME WriteSendPlan(p) PROVE InFlightOf(p)'
  <2>1. /\ UNCHANGED <<runs, tree, gate, brief, plan>>
        /\ pc[p] = "send_plan" /\ pc'[p] = "reserve"
        /\ manifest' = [manifest EXCEPT ![q.dir] = NoteOf(q)]
    BY <1>9, <1>b DEF WriteSendPlan, Follows
  <2>2. manifest'[q.dir] = NoteOf(q)
    BY <2>1, <1>b
  <2>3. DirFree(p)' /\ TreeReady(p)' /\ BaseAgreed(p)' /\ BriefReady(p)' /\ ManifestReady(p)'
    BY <2>1, <2>2, <1>c DEF DirFree, TreeReady, BaseAgreed, BriefReady, ManifestReady, Past,
       Steps, Reservable, NoteOf
  <2> QED
    BY <2>1, <2>3 DEF InFlightOf, ResidueSeen, BranchCut
<1>10. ASSUME Reserve(p) \/ ReserveRefused(p) \/ Abort(p) PROVE pc'[p] = "idle"
  BY <1>10, <1>b DEF Reserve, ReserveRefused, Abort, Follows
<1>11. /\ Preflight(p) => pc'[p] \in {"clone", "idle"}
       /\ NoTreeNeeded(p) \/ ReuseTree(p) => pc'[p] \in {"cite", "idle"}
       /\ Cite(p) => pc'[p] \in {"brief", "idle"}
  BY <1>b DEF Preflight, NoTreeNeeded, ReuseTree, Cite, Follows
<1> QED
  BY <1>0, <1>1, <1>2, <1>3, <1>4, <1>5, <1>6, <1>7, <1>8, <1>9, <1>10, <1>11

\* With one apply at a time these are all the steps.
LEMMA NextInFlight == OneApply /\ FileInv /\ [Next]_vars => InFlight'
<1> SUFFICES ASSUME OneApply, FileInv, [Next]_vars, NEW p \in Appliers
             PROVE  InFlightOf(p)'
  BY DEF InFlight
<1>1. CASE UNCHANGED vars
  <2>1. InFlightOf(p)
    BY DEF FileInv, InFlight
  <2> QED
    BY <1>1, <2>1 DEF vars, InFlightOf, ResidueSeen, DirFree, BranchCut, TreeReady, BaseAgreed,
       BriefReady, ManifestReady, Past, Reservable, NoteOf
<1>2. CASE CleanResidue
  <2>1. pc'[p] = "idle"
    BY <1>2 DEF CleanResidue
  <2> QED
    BY <2>1 DEF InFlightOf, ResidueSeen, DirFree, BranchCut, TreeReady, BaseAgreed, BriefReady,
       ManifestReady, Past, Steps
<1>3. ASSUME NEW x \in Appliers, x # p PROVE FALSE
  BY <1>3 DEF OneApply
<1> QED
  BY <1>1, <1>2, <1>3, NextCases, OwnStepInFlight, OthersKeepInFlight

\* FileInv is inductive for one apply at a time.
LEMMA NextFileInv == OneApply /\ FileInv /\ [Next]_vars => FileInv'
BY NextRowInv, NextOwned, NextCutRecorded, NextInFlight DEF FileInv

\* When the secretary applies one plan at a time, a reservation that was not
\* dispatched yet always finds its own brief, send_plan.json and worktree, after
\* any number of refused, killed and repeated applies of any tasks.
THEOREM ReservationsSendable == ASSUME OneApply PROVE Spec => []ReservedIsSendable
<1>1. FileInv => ReservedIsSendable
  <2> SUFFICES ASSUME FileInv, NEW t \in Tasks, runs[t].status = "queued"
               PROVE  LET d == runs[t].dir
                      IN /\ d \in Dirs /\ brief[d].task = t /\ manifest[d].task = t
                         /\ d # root => tree[t].there
    BY DEF ReservedIsSendable
  <2>1. runs[t].status \in Active
    BY DEF Active
  <2>2. runs[t].dir \in Dirs
    BY <2>1 DEF FileInv, RowInv, RowsFit, Dirs
  <2>3. runs[t].dir # root => tree[t].there
    BY <2>1 DEF FileInv, Owned
  <2> QED
    BY <2>1, <2>2, <2>3, OwnedNotes DEF FileInv
<1> QED
  BY <1>1, InitFileInv, NextFileInv, PTL DEF Spec

\* Then no two active runs share a directory either: the shared one is refused
\* while the brief of an earlier run is in it, whatever state.db was read to say.
THEOREM DirectoriesSeparate == ASSUME OneApply PROVE Spec => []SeparateDirs
<1>1. FileInv => SeparateDirs
  <2> SUFFICES ASSUME FileInv, NEW t \in Tasks, NEW u \in Tasks,
                      runs[t].status \in Active, runs[u].status \in Active,
                      runs[t].dir = runs[u].dir
               PROVE  t = u
    BY DEF SeparateDirs
  <2>1. brief[runs[t].dir].task = t /\ brief[runs[u].dir].task = u
    BY OwnedNotes DEF FileInv
  <2> QED
    BY <2>1
<1> QED
  BY <1>1, InitFileInv, NextFileInv, PTL DEF Spec

\* Brief, send_plan.json and the base that the Codex gate reads agree for every
\* active run, and the branch was cut from that base unless its cut point was
\* never recorded.
THEOREM BasesAgree == ASSUME OneApply PROVE Spec => []BasesMatch
<1>1. FileInv => FilesMatchGate
  BY OwnedNotes DEF FileInv, FilesMatchGate
<1>2. FileInv => BranchMatchesGate
  <2> SUFFICES ASSUME FileInv, NEW t \in Tasks, runs[t].status \in Active,
                      runs[t].dir = t
               PROVE  tree[t].cut = gate[t] \/ tree[t].recorded = none
    BY DEF BranchMatchesGate
  <2>1. tree[t].recorded \in {none, gate[t]}
    BY DelegationAssumption DEF FileInv, Owned
  <2>2. tree[t].recorded \in {none, tree[t].cut}
    BY DEF FileInv, CutRecorded
  <2> QED
    BY <2>1, <2>2
<1>3. FileInv => BasesMatch
  BY <1>1, <1>2 DEF BasesMatch
<1> QED
  BY <1>3, InitFileInv, NextFileInv, PTL DEF Spec
=============================================================================
