-------------------------- MODULE AssignmentProofs ---------------------------
(***************************************************************************)
(* What finding work, ranking and judging it and cutting its branch        *)
(* promise, for any tasks, branches, issues, scans and budgets.            *)
(***************************************************************************)
EXTENDS MCAssignment, DelegationProofs, FiniteSetTheorems, SequenceTheorems, WellFoundedInduction, TLAPS

-----------------------------------------------------------------------------
(* The base of a branch                                                    *)

\* The places where an apply has found its ref, before it cuts and after.
Adding == {"add_clear", "add_unlink", "add"}
Recording == {"record_clear", "record_unlink", "record"}

\* What an apply that runs knows of the origin: the tip of now is one it may use; a base
\* that was fetched is at such a tip; so is each branch that a fetch without a base covers,
\* unless it was missing.
Fresh(t) ==
  clone.origin =>
    /\ attempt[t].pc \notin Ended => \A b \in Branches : <<b, remote[b]>> \in tips[t]
    /\ attempt[t].pc \in Adding /\ attempt[t].base # unset
         => <<attempt[t].base, clone.track[attempt[t].base]>> \in tips[t]
    /\ attempt[t].pc \in Adding \union {"head"} /\ attempt[t].base = unset
         => \A b \in clone.refspec : <<b, clone.track[b]>> \in tips[t] \/ <<b, 0>> \in tips[t]
    /\ JustCut(t) => \/ <<topic[t].from, topic[t].at>> \in tips[t]
                     \/ attempt[t].base = unset /\ <<topic[t].from, 0>> \in tips[t]

\* The ref is the configured base, or a branch that the fetch covers; the branch is cut from
\* the ref, and only that is recorded; only the record is tried twice.
Named(t) ==
  /\ attempt[t].pc \in Adding \union Recording
       => /\ attempt[t].ref # unset
          /\ attempt[t].base # unset => attempt[t].ref = attempt[t].base
  /\ attempt[t].pc \in Adding /\ attempt[t].base = unset => attempt[t].ref \in clone.refspec
  /\ JustCut(t) => topic[t].from = attempt[t].ref
  /\ topic[t].record \in {unset, topic[t].from}
  /\ attempt[t].pc = "done" /\ attempt[t].base # unset
       => topic[t].record \in {unset, attempt[t].base}
  /\ attempt[t].pc \in {"fetch_one", "ask"} => attempt[t].base # unset
  /\ attempt[t].pc \in {"fetch", "head"} => attempt[t].base = unset
  /\ attempt[t].again => JustCut(t)

CutsInv ==
  /\ BaseBranchTypeOK
  /\ clone.head \in clone.refspec \union {unset}
  /\ \A t \in Topics : Fresh(t) /\ Named(t)

\* A fetch brings a ref to the tip of now, or leaves it.
LEMMA FetchedRef ==
  ASSUME BaseBranchTypeOK, NEW some \in SUBSET Branches, clone' = Fetched(some)
  PROVE  /\ clone'.origin = clone.origin /\ clone'.refspec = clone.refspec
         /\ clone'.head = clone.head
         /\ \A b \in Branches : clone'.track[b] \in {clone.track[b], remote[b]}
         /\ \A b \in some : remote[b] # 0 => clone'.track[b] = remote[b]
         /\ clone' \in [origin : BOOLEAN, refspec : SUBSET Branches, track : [Branches -> Nat],
                        head : BranchOrNot]
BY DEF BaseBranchTypeOK, Fetched, BranchOrNot

USE DEF BranchOrNot

Attempts == [pc : Pcs, base : BranchOrNot, ref : BranchOrNot, again : BOOLEAN]
TaskBranches == [from : BranchOrNot, at : Nat, record : BranchOrNot, tree : BOOLEAN]

\* A task that takes no step is not disturbed, not even by a fetch.
LEMMA Bystander ==
  ASSUME CutsInv, NEW t \in Topics,
         attempt'[t] = attempt[t], topic'[t] = topic[t], tips'[t] = tips[t], remote' = remote,
         clone' = clone \/ \E some \in SUBSET Branches : clone' = Fetched(some)
  PROVE  Fresh(t)' /\ Named(t)'
<1>1. Fresh(t) /\ Named(t) /\ attempt[t] \in Attempts /\ clone.refspec \subseteq Branches
  BY DEF CutsInv, BaseBranchTypeOK, Attempts
<1>2. CASE clone' = clone
  BY <1>1, <1>2 DEF Fresh, Named, JustCut
<1>3. CASE \E some \in SUBSET Branches : clone' = Fetched(some)
  <2>1. PICK some \in SUBSET Branches : clone' = Fetched(some) BY <1>3
  <2>2. /\ clone'.origin = clone.origin /\ clone'.refspec = clone.refspec
        /\ \A b \in Branches : clone'.track[b] \in {clone.track[b], remote[b]}
    BY <2>1, FetchedRef DEF CutsInv
  <2>3. Fresh(t)'
    <3>1. SUFFICES ASSUME clone.origin PROVE Fresh(t)' BY <2>2 DEF Fresh
    <3>2. attempt[t].pc \in Adding \union {"head"} => attempt[t].pc \notin Ended
      BY DEF Adding, Ended
    <3>3. attempt[t].pc \in Adding /\ attempt[t].base # unset
            => <<attempt[t].base, clone'.track[attempt[t].base]>> \in tips[t]
      <4> SUFFICES ASSUME attempt[t].pc \in Adding, attempt[t].base # unset
                   PROVE  <<attempt[t].base, clone'.track[attempt[t].base]>> \in tips[t]
        OBVIOUS
      <4>1. attempt[t].base \in Branches BY <1>1 DEF Attempts
      <4> QED BY <1>1, <2>2, <3>1, <3>2, <4>1 DEF Fresh
    <3>4. attempt[t].pc \in Adding \union {"head"} /\ attempt[t].base = unset
            => \A b \in clone.refspec : <<b, clone'.track[b]>> \in tips[t] \/ <<b, 0>> \in tips[t]
      BY <1>1, <2>2, <3>1, <3>2 DEF Fresh
    <3> QED BY <1>1, <2>2, <3>3, <3>4 DEF Fresh, JustCut
  <2> QED BY <1>1, <2>2, <2>3 DEF Named, JustCut
<1> QED BY <1>2, <1>3

\* What the step of a task has to show: the types, and its own part.
LEMMA OneTask ==
  ASSUME CutsInv, BaseBranchTypeOK', NEW t \in Topics, Fresh(t)', Named(t)', remote' = remote,
         clone' = clone \/ \E some \in SUBSET Branches : clone' = Fetched(some),
         \A u \in Topics \ {t} : /\ attempt'[u] = attempt[u] /\ topic'[u] = topic[u]
                                 /\ tips'[u] = tips[u]
  PROVE  CutsInv'
<1>1. ASSUME NEW u \in Topics PROVE Fresh(u)' /\ Named(u)'
  <2>1. CASE u = t BY <2>1
  <2>2. CASE u # t BY <2>2, Bystander
  <2> QED BY <2>1, <2>2
<1>2. clone'.head \in clone'.refspec \union {unset}
  BY FetchedRef DEF CutsInv
<1> QED BY <1>1, <1>2 DEF CutsInv

\* An apply that ends holds nothing any more.
LEMMA EndsKeeps ==
  ASSUME CutsInv, NEW t \in Topics, NEW how \in {"done", "refused"}, Ends(t, how),
         {tries', mishaps'} \subseteq Nat, topic' \in [Topics -> TaskBranches],
         \A u \in Topics \ {t} : topic'[u] = topic[u],
         topic'[t].record \in {unset, topic'[t].from},
         how = "done" /\ attempt[t].base # unset => topic'[t].record \in {unset, attempt[t].base}
  PROVE  CutsInv'
<1>1. attempt[t] \in Attempts BY DEF CutsInv, BaseBranchTypeOK, Attempts
<1>2. attempt'[t] = [attempt[t] EXCEPT !.pc = how, !.ref = unset, !.again = FALSE]
      /\ attempt' \in [Topics -> Attempts]
      /\ \A u \in Topics \ {t} : attempt'[u] = attempt[u] /\ tips'[u] = tips[u]
  BY <1>1 DEF Ends, CutsInv, BaseBranchTypeOK, Attempts, Pcs
<1>3. BaseBranchTypeOK'
  BY <1>2 DEF Ends, CutsInv, BaseBranchTypeOK, Attempts, TaskBranches
<1>4. attempt'[t].pc = how /\ attempt'[t].base = attempt[t].base /\ ~attempt'[t].again
  BY <1>1, <1>2 DEF Attempts
<1>5. Fresh(t)' /\ Named(t)'
  BY <1>4 DEF Fresh, Named, JustCut, Adding, Recording, Ended
<1>6. remote' = remote /\ clone' = clone BY DEF Ends
<1> QED BY <1>2, <1>3, <1>5, <1>6, OneTask

\* A step that moves the apply of a task, and perhaps fetches, and nothing else of the task.
LEMMA Moves ==
  ASSUME CutsInv, NEW t \in Topics, NEW a \in Attempts,
         attempt' = [attempt EXCEPT ![t] = a], UNCHANGED <<remote, pushed, topic, tips>>,
         {tries', mishaps'} \subseteq Nat, lock' \in {"none", "placeholder", "git"},
         clone' = clone \/ \E some \in SUBSET Branches : clone' = Fetched(some),
         Fresh(t)', Named(t)'
  PROVE  CutsInv'
<1>1. attempt' \in [Topics -> Attempts] /\ \A u \in Topics \ {t} : attempt'[u] = attempt[u]
  BY DEF CutsInv, BaseBranchTypeOK, Attempts
<1>2. clone' \in [origin : BOOLEAN, refspec : SUBSET Branches, track : [Branches -> Nat],
                  head : BranchOrNot]
  BY FetchedRef DEF CutsInv, BaseBranchTypeOK
<1>3. BaseBranchTypeOK'
  BY <1>1, <1>2 DEF CutsInv, BaseBranchTypeOK, Attempts
<1> QED BY <1>1, <1>3, OneTask

\* A task's step that only goes on keeps all if the place it goes to asks for nothing new.
LEMMA GoesOn ==
  ASSUME CutsInv, NEW t \in Topics, NEW place \in Pcs,
         attempt' = [attempt EXCEPT ![t].pc = place],
         UNCHANGED <<remote, pushed, tries, mishaps, clone, topic, tips>>,
         lock' \in {"none", "placeholder", "git"},
         \/ place \in Adding /\ attempt[t].pc \in Adding
         \/ place \in Recording /\ attempt[t].pc \in Recording
         \/ place = "head" /\ attempt[t].pc = "fetch" /\ ~clone.origin
         \/ place = "fetch_one" /\ attempt[t].pc = "ask"
  PROVE  CutsInv'
<1> DEFINE a == [attempt[t] EXCEPT !.pc = place]
<1>1. attempt[t] \in Attempts /\ Fresh(t) /\ Named(t) BY DEF CutsInv, BaseBranchTypeOK, Attempts
<1>2. /\ a \in Attempts /\ a.pc = place /\ a.base = attempt[t].base
      /\ a.ref = attempt[t].ref /\ a.again = attempt[t].again
  BY <1>1 DEF Attempts
<1>3. attempt' = [attempt EXCEPT ![t] = a] /\ attempt'[t] = a
  BY <1>1 DEF CutsInv, BaseBranchTypeOK
<1> HIDE DEF a
<1>4. Fresh(t)'
  BY <1>1, <1>2, <1>3 DEF Fresh, Adding, Recording, Ended, JustCut
<1>5. Named(t)'
  BY <1>1, <1>2, <1>3 DEF Named, Adding, Recording, Ended, JustCut
<1>6. {tries', mishaps'} \subseteq Nat BY DEF CutsInv, BaseBranchTypeOK
<1> QED BY <1>2, <1>3, <1>4, <1>5, <1>6, Moves

\* A refusal, or a git that fails, leaves the branch as it is.
LEMMA RefusalKeeps ==
  ASSUME CutsInv, NEW t \in Topics, Refuse(t) \/ FailGit(t), UNCHANGED tries
  PROVE  CutsInv'
<1>1. Ends(t, "refused") /\ topic' = topic /\ {tries', mishaps'} \subseteq Nat
  BY DEF Refuse, FailGit, Mishap, CutsInv, BaseBranchTypeOK
<1>2. topic \in [Topics -> TaskBranches] /\ Named(t)
  BY DEF CutsInv, BaseBranchTypeOK, TaskBranches
<1>3. topic[t].record \in {unset, topic[t].from} BY <1>2 DEF Named
<1> QED BY <1>1, <1>2, <1>3, EndsKeeps

\* An apply that begins may use the tips of now.
LEMMA ApplyBeginKeeps ==
  ASSUME CutsInv, BaseBranchAssumption, NEW t \in Topics, NEW base \in BranchOrNot, Begin(t, base)
  PROVE  CutsInv'
<1> DEFINE place == IF base # unset THEN "ask" ELSE IF topic[t].tree THEN "compare" ELSE "fetch"
           a == [pc |-> place, base |-> base, ref |-> unset, again |-> FALSE]
<1>1. a \in Attempts /\ a.base = base /\ a.pc = place /\ ~a.again BY DEF Attempts, Pcs
<1>2. attempt' = [attempt EXCEPT ![t] = a] /\ tips' = [tips EXCEPT ![t] = Tips(remote)]
  BY DEF Begin
<1>3. Tips(remote) \subseteq Branches \X Nat /\ \A b \in Branches : <<b, remote[b]>> \in Tips(remote)
  BY DEF Tips, CutsInv, BaseBranchTypeOK
<1> HIDE DEF a
<1>4. attempt'[t] = a /\ tips'[t] = Tips(remote)
      /\ \A u \in Topics \ {t} : attempt'[u] = attempt[u] /\ tips'[u] = tips[u]
  BY <1>2 DEF CutsInv, BaseBranchTypeOK
<1>5. BaseBranchTypeOK'
  BY <1>1, <1>2, <1>3, BaseBranchAssumption DEF Begin, CutsInv, BaseBranchTypeOK, Attempts
<1>6. UNCHANGED <<remote, clone, topic>> BY DEF Begin
<1>7. Fresh(t)'
  BY <1>1, <1>3, <1>4, <1>6 DEF Fresh, Adding, JustCut
<1>8. Named(t) BY DEF CutsInv
<1>9. Named(t)'
  BY <1>1, <1>4, <1>6, <1>8 DEF Named, Adding, Recording, JustCut
<1> QED BY <1>4, <1>5, <1>6, <1>7, <1>9, OneTask

\* A fetch without a base leaves no ref that it covers behind the origin, if it has the branch.
LEMMA FetchBaseOriginKeeps ==
  ASSUME CutsInv, NEW t \in Topics, FetchBaseOrigin(t), UNCHANGED tries
  PROVE  CutsInv'
<1>1. attempt[t] \in Attempts /\ Fresh(t) /\ Named(t) /\ attempt[t].pc = "fetch"
  BY DEF CutsInv, BaseBranchTypeOK, Attempts, FetchBaseOrigin, At
<1>2. CASE FailGit(t) BY <1>2, RefusalKeeps
<1>3. CASE Fetch(t, clone.refspec, "head") /\ clone.origin
  <2> DEFINE a == [attempt[t] EXCEPT !.pc = "head", !.ref = attempt[t].base]
  <2>1. a \in Attempts /\ a.pc = "head" /\ a.base = attempt[t].base /\ a.again = attempt[t].again
    BY <1>1 DEF Attempts, Pcs
  <2>2. attempt' = [attempt EXCEPT ![t] = a] /\ attempt'[t] = a
    BY <1>1, <1>3 DEF Fetch, CutsInv, BaseBranchTypeOK
  <2> HIDE DEF a
  <2>3. clone.refspec \in SUBSET Branches BY DEF CutsInv, BaseBranchTypeOK
  <2>4. /\ clone' = Fetched(clone.refspec) /\ clone'.refspec = clone.refspec
        /\ \A b \in Branches : clone'.track[b] \in {clone.track[b], remote[b]}
        /\ \A b \in clone.refspec : remote[b] # 0 => clone'.track[b] = remote[b]
    BY <1>3, <2>3, FetchedRef DEF Fetch, CutsInv
  <2>5. remote' = remote /\ topic' = topic /\ tips' = tips BY <1>3 DEF Fetch
  <2>6. \A b \in Branches : <<b, remote[b]>> \in tips[t] BY <1>1, <1>3 DEF Fresh, Ended
  <2>7. \A b \in clone.refspec : <<b, clone'.track[b]>> \in tips[t] \/ <<b, 0>> \in tips[t]
    BY <2>3, <2>4, <2>6
  <2>8. Fresh(t)'
    BY <2>1, <2>2, <2>4, <2>5, <2>6, <2>7 DEF Fresh, Adding, JustCut
  <2>9. Named(t)'
    BY <1>1, <2>1, <2>2, <2>5 DEF Named, Adding, Recording, JustCut
  <2>10. {tries', mishaps'} \subseteq Nat /\ lock' \in {"none", "placeholder", "git"}
         /\ UNCHANGED <<remote, pushed, topic, tips>>
    BY <1>3 DEF Fetch, CutsInv, BaseBranchTypeOK
  <2> QED BY <2>1, <2>2, <2>3, <2>4, <2>8, <2>9, <2>10, Moves
<1>4. CASE Proceed(t, "head") /\ ~clone.origin
  BY <1>1, <1>4, GoesOn DEF Proceed, StepTo, Reads, Pcs, CutsInv, BaseBranchTypeOK
<1> QED BY <1>2, <1>3, <1>4 DEF FetchBaseOrigin

\* The clone's HEAD is a branch that its fetch covers.
LEMMA OriginHeadKeeps ==
  ASSUME CutsInv, NEW t \in Topics, OriginHead(t), UNCHANGED tries
  PROVE  CutsInv'
<1>1. attempt[t] \in Attempts /\ Fresh(t) /\ Named(t) /\ attempt[t].pc = "head"
  BY DEF CutsInv, BaseBranchTypeOK, Attempts, OriginHead, At
<1>2. CASE Refuse(t) BY <1>2, RefusalKeeps
<1>3. CASE CutFrom(t, clone.head) /\ clone.head # unset
  <2> DEFINE a == [attempt[t] EXCEPT !.pc = "add_clear", !.ref = clone.head]
  <2>1. clone.head \in clone.refspec /\ clone.head \in BranchOrNot
    BY <1>3 DEF CutsInv, BaseBranchTypeOK
  <2>2. /\ a \in Attempts /\ a.pc = "add_clear" /\ a.base = attempt[t].base
        /\ a.ref = clone.head /\ a.again = attempt[t].again
    BY <1>1, <2>1 DEF Attempts, Pcs
  <2>3. attempt' = [attempt EXCEPT ![t] = a] /\ attempt'[t] = a
    BY <1>1, <1>3 DEF CutFrom, CutsInv, BaseBranchTypeOK
  <2> HIDE DEF a
  <2>4. UNCHANGED <<remote, pushed, mishaps, clone, lock, topic, tips>> BY <1>3 DEF CutFrom, Reads
  <2>5. Fresh(t)'
    BY <1>1, <2>2, <2>3, <2>4 DEF Fresh, Named, Adding, Ended, JustCut
  <2>6. Named(t)'
    BY <1>1, <1>3, <2>1, <2>2, <2>3, <2>4 DEF Named, Adding, Recording, JustCut
  <2>7. {tries', mishaps'} \subseteq Nat /\ lock' \in {"none", "placeholder", "git"}
    BY <2>4 DEF CutsInv, BaseBranchTypeOK
  <2> QED BY <2>2, <2>3, <2>4, <2>5, <2>6, <2>7, Moves
<1> QED BY <1>2, <1>3 DEF OriginHead

\* Where a configured base is found: an old worktree is looked at, or the branch is cut.
LEMMA FoundKeeps ==
  ASSUME CutsInv, NEW t \in Topics, attempt[t].base # unset,
         attempt' = [attempt EXCEPT ![t].pc = Found(t), ![t].ref = attempt[t].base],
         UNCHANGED <<remote, pushed, tries, mishaps, lock, topic, tips>>,
         clone' = clone \/ \E some \in SUBSET Branches : clone' = Fetched(some),
         clone'.origin => <<attempt[t].base, clone'.track[attempt[t].base]>> \in tips[t],
         attempt[t].pc \notin Ended \union Recording
  PROVE  CutsInv'
<1> DEFINE a == [attempt[t] EXCEPT !.pc = Found(t), !.ref = attempt[t].base]
<1>1. attempt[t] \in Attempts /\ Fresh(t) /\ Named(t) BY DEF CutsInv, BaseBranchTypeOK, Attempts
<1>2. Found(t) \in {"compare", "add_clear"} BY DEF Found
<1>3. /\ a \in Attempts /\ a.pc = Found(t) /\ a.base = attempt[t].base
      /\ a.ref = attempt[t].base /\ a.again = attempt[t].again
  BY <1>1, <1>2 DEF Attempts, Pcs
<1>4. attempt' = [attempt EXCEPT ![t] = a] /\ attempt'[t] = a
  BY <1>1 DEF CutsInv, BaseBranchTypeOK
<1> HIDE DEF a
<1>5. clone'.origin => clone.origin BY FetchedRef DEF CutsInv
<1>6. Fresh(t)'
  BY <1>1, <1>2, <1>3, <1>4, <1>5 DEF Fresh, Adding, JustCut
<1>7. Named(t)'
  BY <1>1, <1>2, <1>3, <1>4 DEF Named, Adding, Recording, JustCut
<1>8. {tries', mishaps'} \subseteq Nat /\ lock' \in {"none", "placeholder", "git"}
  BY DEF CutsInv, BaseBranchTypeOK
<1> QED BY <1>3, <1>4, <1>6, <1>7, <1>8, Moves

\* The origin is asked for the base, or without one the local ref.
LEMMA LsRemoteKeeps ==
  ASSUME CutsInv, NEW t \in Topics, LsRemote(t), UNCHANGED tries
  PROVE  CutsInv'
<1>1. Named(t) /\ attempt[t].pc = "ask" BY DEF CutsInv, LsRemote, At
<1>2. CASE Refuse(t) \/ FailGit(t) BY <1>2, RefusalKeeps
<1>3. CASE Proceed(t, "fetch_one")
  BY <1>1, <1>3, GoesOn DEF Proceed, StepTo, Reads, Pcs, CutsInv, BaseBranchTypeOK
<1>4. CASE /\ ~clone.origin /\ Reads /\ UNCHANGED mishaps
           /\ attempt' = [attempt EXCEPT ![t].pc = Found(t), ![t].ref = attempt[t].base]
  BY <1>1, <1>4, FoundKeeps DEF Reads, Named, Ended, Recording
<1> QED BY <1>2, <1>3, <1>4 DEF LsRemote

\* A base that was fetched by its own name is at the tip of now.
LEMMA FetchBranchKeeps ==
  ASSUME CutsInv, NEW t \in Topics, FetchBranch(t), UNCHANGED tries
  PROVE  CutsInv'
<1> DEFINE b == attempt[t].base
<1>1. Fresh(t) /\ Named(t) /\ attempt[t] \in Attempts /\ attempt[t].pc = "fetch_one"
  BY DEF CutsInv, BaseBranchTypeOK, Attempts, FetchBranch, At
<1>2. b \in Branches BY <1>1 DEF Named, Attempts
<1>3. CASE Refuse(t) \/ FailGit(t) BY <1>3, RefusalKeeps
<1>4. CASE remote[b] # 0 /\ Fetch(t, {b}, Found(t))
  <2>1. clone' = Fetched({b}) /\ {b} \in SUBSET Branches BY <1>2, <1>4 DEF Fetch
  <2>2. clone'.origin = clone.origin /\ clone'.track[b] = remote[b]
    BY <1>4, <2>1, FetchedRef DEF CutsInv
  <2>3. clone.origin => <<b, remote[b]>> \in tips[t] BY <1>1, <1>2 DEF Fresh, Ended
  <2> QED BY <1>1, <1>2, <1>4, <2>1, <2>2, <2>3, FoundKeeps DEF Fetch, Named, Ended, Recording
<1> QED BY <1>3, <1>4 DEF FetchBranch

\* A worktree is used again only if its record, if there is one, names the configured base.
LEMMA CompareKeeps ==
  ASSUME CutsInv, BaseBranchAssumption, NEW t \in Topics, Compare(t), UNCHANGED tries
  PROVE  CutsInv'
<1>1. CASE Refuse(t) BY <1>1, RefusalKeeps
<1>2. CASE /\ topic[t].record \in {unset, Expected(t)} \/ Expected(t) = unset
           /\ Ends(t, "done") /\ UNCHANGED <<mishaps, topic>>
  <2>1. attempt[t].base # unset => topic[t].record \in {unset, attempt[t].base}
    BY <1>2 DEF Expected
  <2>2. topic \in [Topics -> TaskBranches] /\ {tries', mishaps'} \subseteq Nat /\ Named(t)
    BY <1>2 DEF CutsInv, BaseBranchTypeOK, TaskBranches
  <2> QED BY <1>2, <2>1, <2>2, EndsKeeps DEF Named
<1> QED BY <1>1, <1>2 DEF Compare

\* Nothing more is tried: what was recorded before names the base, too.
LEMMA RecordingEnds ==
  ASSUME CutsInv, NEW t \in Topics, attempt[t].pc \in Recording, Ends(t, "done"),
         UNCHANGED <<tries, mishaps, topic>>
  PROVE  CutsInv'
<1>1. topic \in [Topics -> TaskBranches] /\ {tries', mishaps'} \subseteq Nat /\ Named(t)
  BY DEF CutsInv, BaseBranchTypeOK, TaskBranches
<1>2. topic[t].record \in {unset, topic[t].from}
      /\ (attempt[t].base # unset => topic[t].from = attempt[t].base)
  BY <1>1 DEF Named, JustCut, Recording
<1> QED BY <1>1, <1>2, EndsKeeps

\* The lock of .git/config changes nothing that the cut hangs on.
LEMMA LockKeeps ==
  ASSUME CutsInv, NEW t \in Topics, UNCHANGED tries,
         NEW places \in {Adding, Recording}, NEW place \in places, NEW unlink \in places,
         NEW next \in places,
         LookAtLock(t, place, unlink, next) \/ Unlink(t, place, next)
  PROVE  CutsInv'
<1>1. attempt[t].pc = place /\ place \in Pcs /\ unlink \in Pcs /\ next \in Pcs
  BY DEF LookAtLock, Unlink, At, Adding, Recording, Pcs
<1>2. CASE Proceed(t, unlink) \/ Proceed(t, next)
  BY <1>1, <1>2, GoesOn DEF Proceed, StepTo, Reads, CutsInv, BaseBranchTypeOK
<1>3. CASE attempt[t].again /\ Ends(t, "done") /\ UNCHANGED <<mishaps, topic>>
  BY <1>3, RecordingEnds DEF CutsInv, Named, JustCut, Recording
<1>4. CASE /\ StepTo(t, next) /\ lock' = "none"
           /\ UNCHANGED <<remote, pushed, mishaps, clone, topic, tips>>
  BY <1>1, <1>4, GoesOn DEF StepTo
<1> QED BY <1>2, <1>3, <1>4 DEF LookAtLock, Unlink

\* The branch is cut from the ref the apply has found, at the commit it tracks.
LEMMA AddWorktreeKeeps ==
  ASSUME CutsInv, BaseBranchAssumption, NEW t \in Topics, AddWorktree(t), UNCHANGED tries
  PROVE  CutsInv'
<1> DEFINE ref == attempt[t].ref
           cut == [from |-> ref, at |-> clone.track[ref], record |-> unset, tree |-> lock = "none"]
<1>1. attempt[t] \in Attempts /\ Fresh(t) /\ Named(t) /\ attempt[t].pc = "add"
  BY DEF CutsInv, BaseBranchTypeOK, Attempts, AddWorktree, At
<1>2. ref \in Branches BY <1>1 DEF Attempts, Named, Adding
<1>3. CASE Refuse(t) BY <1>3, RefusalKeeps
<1>4. CASE /\ topic' = [topic EXCEPT ![t] = cut] /\ UNCHANGED mishaps
           /\ \/ Ends(t, "refused")
              \/ StepTo(t, "record_clear") /\ UNCHANGED <<remote, pushed, clone, lock, tips>>
  <2>1. cut \in TaskBranches /\ cut.from = ref /\ cut.at = clone.track[ref] /\ cut.record = unset
    BY <1>2 DEF TaskBranches, CutsInv, BaseBranchTypeOK
  <2> HIDE DEF cut
  <2>2. /\ topic' \in [Topics -> TaskBranches] /\ topic'[t] = cut
        /\ \A u \in Topics \ {t} : topic'[u] = topic[u]
    BY <1>4, <2>1 DEF CutsInv, BaseBranchTypeOK, TaskBranches
  <2>3. CASE Ends(t, "refused")
    <3>1. {tries', mishaps'} \subseteq Nat BY <1>4 DEF CutsInv, BaseBranchTypeOK
    <3> QED BY <2>1, <2>2, <2>3, <3>1, EndsKeeps
  <2>4. CASE StepTo(t, "record_clear") /\ UNCHANGED <<remote, pushed, clone, lock, tips>>
    <3> DEFINE a == [attempt[t] EXCEPT !.pc = "record_clear"]
    <3>1. /\ a \in Attempts /\ a.pc = "record_clear" /\ a.base = attempt[t].base
          /\ a.ref = ref
      BY <1>1 DEF Attempts, Pcs
    <3>2. attempt' = [attempt EXCEPT ![t] = a] /\ attempt'[t] = a
          /\ \A u \in Topics \ {t} : attempt'[u] = attempt[u]
      BY <1>1, <2>4 DEF StepTo, CutsInv, BaseBranchTypeOK
    <3> HIDE DEF a
    <3>3. BaseBranchTypeOK'
      BY <1>4, <2>2, <2>4, <3>1, <3>2 DEF CutsInv, BaseBranchTypeOK, Attempts, TaskBranches
    <3>4. clone.origin /\ attempt[t].base # unset => <<ref, clone.track[ref]>> \in tips[t]
      BY <1>1 DEF Fresh, Named, Adding
    <3>5. clone.origin /\ attempt[t].base = unset
            => <<ref, clone.track[ref]>> \in tips[t] \/ <<ref, 0>> \in tips[t]
      BY <1>1 DEF Fresh, Named, Adding
    <3>6. Fresh(t)'
      BY <1>1, <2>1, <2>2, <2>4, <3>1, <3>2, <3>4, <3>5 DEF Fresh, Adding, Ended, JustCut
    <3>7. Named(t)'
      BY <1>1, <2>1, <2>2, <2>4, <3>1, <3>2 DEF Named, Adding, Recording, JustCut
    <3> QED BY <2>2, <2>4, <3>2, <3>3, <3>6, <3>7, OneTask
  <2> QED BY <1>4, <2>3, <2>4
<1> QED BY <1>3, <1>4 DEF AddWorktree

\* What is recorded is the ref that the branch was cut from.
LEMMA RecordCutKeeps ==
  ASSUME CutsInv, NEW t \in Topics, RecordCut(t), UNCHANGED tries
  PROVE  CutsInv'
<1>1. attempt[t] \in Attempts /\ Fresh(t) /\ Named(t) /\ attempt[t].pc = "record"
      /\ topic[t] \in TaskBranches
  BY DEF CutsInv, BaseBranchTypeOK, Attempts, TaskBranches, RecordCut, At
<1>2. CASE Ends(t, "done") /\ topic' = [topic EXCEPT ![t].record = attempt[t].ref]
           /\ UNCHANGED mishaps
  <2>1. topic' \in [Topics -> TaskBranches] /\ \A u \in Topics \ {t} : topic'[u] = topic[u]
    BY <1>1, <1>2 DEF CutsInv, BaseBranchTypeOK, TaskBranches, Attempts
  <2>2. topic'[t].record = attempt[t].ref /\ topic'[t].from = topic[t].from
    BY <1>1, <1>2 DEF CutsInv, BaseBranchTypeOK, TaskBranches
  <2>3. topic[t].from = attempt[t].ref /\ (attempt[t].base # unset => attempt[t].ref = attempt[t].base)
    BY <1>1 DEF Named, JustCut, Recording
  <2>4. {tries', mishaps'} \subseteq Nat BY <1>2 DEF CutsInv, BaseBranchTypeOK
  <2> QED BY <1>2, <2>1, <2>2, <2>3, <2>4, EndsKeeps
<1>3. CASE Ends(t, "done") /\ UNCHANGED topic /\ UNCHANGED mishaps
  BY <1>1, <1>3, RecordingEnds DEF Recording
<1>4. CASE /\ attempt' = [attempt EXCEPT ![t].pc = "record_clear", ![t].again = TRUE]
           /\ Reads /\ UNCHANGED mishaps
  <2> DEFINE a == [attempt[t] EXCEPT !.pc = "record_clear", !.again = TRUE]
  <2>1. /\ a \in Attempts /\ a.pc = "record_clear" /\ a.base = attempt[t].base
        /\ a.ref = attempt[t].ref
    BY <1>1 DEF Attempts, Pcs
  <2>2. attempt' = [attempt EXCEPT ![t] = a] /\ attempt'[t] = a
    BY <1>1, <1>4 DEF CutsInv, BaseBranchTypeOK
  <2> HIDE DEF a
  <2>3. UNCHANGED <<remote, pushed, mishaps, clone, lock, topic, tips>> BY <1>4 DEF Reads
  <2>4. Fresh(t)'
    BY <1>1, <2>1, <2>2, <2>3 DEF Fresh, Adding, Ended, JustCut
  <2>5. Named(t)'
    BY <1>1, <2>1, <2>2, <2>3 DEF Named, Adding, Recording, JustCut
  <2>6. {tries', mishaps'} \subseteq Nat /\ lock' \in {"none", "placeholder", "git"}
    BY <2>3 DEF CutsInv, BaseBranchTypeOK
  <2> QED BY <2>1, <2>2, <2>3, <2>4, <2>5, <2>6, Moves
<1> QED BY <1>2, <1>3, <1>4 DEF RecordCut

\* A branch that is removed is no longer there to be wrong.
LEMMA RemoveBranchKeeps ==
  ASSUME CutsInv, BaseBranchAssumption, NEW t \in Topics, RemoveBranch(t), UNCHANGED tries
  PROVE  CutsInv'
<1>1. NoBranch \in TaskBranches /\ NoBranch.record = unset BY DEF NoBranch, TaskBranches
<1>2. /\ topic' = [topic EXCEPT ![t] = NoBranch] /\ attempt[t].pc = "refused"
      /\ UNCHANGED <<remote, pushed, mishaps, clone, lock, attempt, tips>>
  BY DEF RemoveBranch
<1>3. /\ topic' \in [Topics -> TaskBranches] /\ topic'[t] = NoBranch
      /\ \A u \in Topics \ {t} : topic'[u] = topic[u]
  BY <1>1, <1>2 DEF CutsInv, BaseBranchTypeOK, TaskBranches
<1>4. BaseBranchTypeOK' BY <1>2, <1>3 DEF CutsInv, BaseBranchTypeOK, TaskBranches
<1>5. Fresh(t) /\ Named(t) BY DEF CutsInv
<1>6. Fresh(t)' /\ Named(t)'
  BY <1>1, <1>2, <1>3, <1>5 DEF Fresh, Named, JustCut, Adding, Recording, Ended
<1> QED BY <1>2, <1>3, <1>4, <1>6, OneTask

\* A new tip at the origin is one that every apply that runs may use from now on.
LEMMA RemoteKeeps ==
  ASSUME CutsInv, NEW b \in Branches, NEW tip \in Nat, RemoteChanges(b, tip),
         UNCHANGED tries, pushed' \in Nat
  PROVE  CutsInv'
<1>1. remote' \in [Branches -> Nat] BY DEF RemoteChanges, CutsInv, BaseBranchTypeOK
<1>2. UNCHANGED <<mishaps, clone, lock, topic, attempt>> BY DEF RemoteChanges
<1>3. Tips(remote') \subseteq Branches \X Nat
      /\ \A c \in Branches : <<c, remote'[c]>> \in Tips(remote')
  BY <1>1 DEF Tips
<1>4. tips' \in [Topics -> SUBSET (Branches \X Nat)]
  BY <1>3 DEF RemoteChanges, CutsInv, BaseBranchTypeOK
<1>5. BaseBranchTypeOK' BY <1>1, <1>2, <1>4 DEF CutsInv, BaseBranchTypeOK
<1>6. ASSUME NEW t \in Topics PROVE Fresh(t)' /\ Named(t)'
  <2>1. Fresh(t) /\ Named(t) BY DEF CutsInv
  <2>2. Named(t)' BY <1>2, <2>1 DEF Named, JustCut
  <2>3. CASE attempt[t].pc \in Ended
    <3>1. ~JustCut(t)' /\ attempt[t].pc \notin Adding \union {"head"}
      BY <1>2, <2>3 DEF Ended, Adding, JustCut
    <3> QED BY <1>2, <2>2, <2>3, <3>1 DEF Fresh
  <2>4. CASE attempt[t].pc \notin Ended
    <3>1. tips'[t] = tips[t] \union Tips(remote') BY <2>4 DEF RemoteChanges
    <3>2. tips[t] \subseteq tips'[t] /\ \A c \in Branches : <<c, remote'[c]>> \in tips'[t]
      BY <1>3, <3>1
    <3>3. JustCut(t)' <=> JustCut(t) BY <1>2 DEF JustCut
    <3> QED BY <1>2, <2>1, <2>2, <3>2, <3>3 DEF Fresh
  <2> QED BY <2>2, <2>3, <2>4
<1> QED BY <1>2, <1>5, <1>6 DEF CutsInv

\* None of the others disturbs what the applies know.
LEMMA OthersKeep ==
  ASSUME CutsInv, Others, UNCHANGED tries
  PROVE  CutsInv'
<1> USE DEF CutsInv
<1>1. ASSUME NEW b \in Branches, Push(b) PROVE CutsInv'
  <2>1. pushed' \in Nat BY <1>1 DEF Push, BaseBranchTypeOK
  <2> QED BY <1>1, <2>1, RemoteKeeps DEF Push
<1>2. ASSUME NEW b \in Branches, DeleteBranch(b) PROVE CutsInv'
  <2>1. pushed' \in Nat BY <1>2 DEF DeleteBranch, BaseBranchTypeOK
  <2> QED BY <1>2, <2>1, RemoteKeeps DEF DeleteBranch
<1>3. ASSUME NEW b \in Branches, FetchElsewhere(b) PROVE CutsInv'
  <2>1. /\ {b} \in SUBSET Branches /\ clone' = Fetched({b})
        /\ UNCHANGED <<remote, pushed, mishaps, lock, topic, attempt, tips>>
    BY <1>3 DEF FetchElsewhere
  <2>2. BaseBranchTypeOK' BY <2>1, FetchedRef DEF BaseBranchTypeOK
  <2>3. \A t \in Topics : Fresh(t)' /\ Named(t)' BY <2>1, Bystander
  <2>4. clone'.head \in clone'.refspec \union {unset} BY <2>1, FetchedRef
  <2> QED BY <2>2, <2>3, <2>4
<1>4. CASE LeavePlaceholder \/ TakeLock \/ GiveLockBack
  <2>1. UNCHANGED <<remote, pushed, clone, topic, attempt, tips>>
        /\ lock' \in {"none", "placeholder", "git"} /\ mishaps' \in Nat
    BY <1>4 DEF LeavePlaceholder, TakeLock, GiveLockBack, LockMoves, Mishap, BaseBranchTypeOK
  <2>2. BaseBranchTypeOK' BY <2>1 DEF BaseBranchTypeOK
  <2>3. \A t \in Topics : Fresh(t)' /\ Named(t)' BY <2>1, Bystander
  <2> QED BY <2>1, <2>2, <2>3
<1> QED BY <1>1, <1>2, <1>3, <1>4 DEF Others

\* Before the first apply nothing is cut.
LEMMA CutsInvInit ==
  ASSUME BaseBranchAssumption, BaseBranchInit
  PROVE  CutsInv
<1>1. BaseBranchTypeOK
  <2>1. remote \in [Branches -> Nat] BY DEF BaseBranchInit
  <2>2. clone \in [origin : BOOLEAN, refspec : SUBSET Branches, track : [Branches -> Nat],
                   head : BranchOrNot]
    BY DEF BaseBranchInit
  <2>3. topic \in [Topics -> TaskBranches] BY DEF BaseBranchInit, NoBranch, TaskBranches
  <2>4. attempt \in [Topics -> Attempts] BY DEF BaseBranchInit, Attempts, Pcs
  <2>5. tips \in [Topics -> SUBSET (Branches \X Nat)] /\ {pushed, tries, mishaps} \subseteq Nat
        /\ lock \in {"none", "placeholder", "git"}
    BY DEF BaseBranchInit
  <2> QED BY <2>1, <2>2, <2>3, <2>4, <2>5 DEF BaseBranchTypeOK, Attempts, TaskBranches
<1>2. clone.head \in clone.refspec \union {unset} BY DEF BaseBranchInit
<1>3. ASSUME NEW t \in Topics PROVE Fresh(t) /\ Named(t)
  BY DEF BaseBranchInit, Fresh, Named, Adding, Recording, Ended, JustCut, NoBranch
<1> QED BY <1>1, <1>2, <1>3 DEF CutsInv

\* Every step of an apply keeps the invariant.
LEMMA StepKeeps ==
  ASSUME CutsInv, BaseBranchAssumption, NEW t \in Topics, Step(t), UNCHANGED tries
  PROVE  CutsInv'
<1>1. CASE FetchBaseOrigin(t) BY <1>1, FetchBaseOriginKeeps
<1>2. CASE OriginHead(t) BY <1>2, OriginHeadKeeps
<1>3. CASE LsRemote(t) BY <1>3, LsRemoteKeeps
<1>4. CASE FetchBranch(t) BY <1>4, FetchBranchKeeps
<1>5. CASE Compare(t) BY <1>5, CompareKeeps
<1>6. CASE LookAtLock(t, "add_clear", "add_unlink", "add") \/ Unlink(t, "add_unlink", "add")
  <2>1. "add_clear" \in Adding /\ "add_unlink" \in Adding /\ "add" \in Adding BY DEF Adding
  <2> QED BY <1>6, <2>1, LockKeeps
<1>7. CASE \/ LookAtLock(t, "record_clear", "record_unlink", "record")
           \/ Unlink(t, "record_unlink", "record")
  <2>1. "record_clear" \in Recording /\ "record_unlink" \in Recording /\ "record" \in Recording
    BY DEF Recording
  <2> QED BY <1>7, <2>1, LockKeeps
<1>8. CASE AddWorktree(t) BY <1>8, AddWorktreeKeeps
<1>9. CASE RecordCut(t) BY <1>9, RecordCutKeeps
<1>10. CASE Die(t) BY <1>10, RefusalKeeps DEF Die
<1>11. CASE RemoveBranch(t) BY <1>11, RemoveBranchKeeps
<1> QED BY <1>1, <1>2, <1>3, <1>4, <1>5, <1>6, <1>7, <1>8, <1>9, <1>10, <1>11 DEF Step

LEMMA CutsInvStep ==
  ASSUME CutsInv, BaseBranchAssumption, [BaseBranchNext]_gitVars
  PROVE  CutsInv'
<1>1. CASE Others /\ UNCHANGED tries BY <1>1, OthersKeep
<1>2. CASE (\E t \in Topics : Step(t)) /\ UNCHANGED tries BY <1>2, StepKeeps
<1>3. CASE \E t \in Topics, base \in BranchOrNot : Begin(t, base) BY <1>3, ApplyBeginKeeps
<1>4. CASE UNCHANGED gitVars
  <2>1. UNCHANGED <<remote, pushed, tries, mishaps, clone, lock, topic, attempt, tips>>
    BY <1>4 DEF gitVars
  <2>2. BaseBranchTypeOK' BY <2>1 DEF CutsInv, BaseBranchTypeOK
  <2>3. \A t \in Topics : Fresh(t)' /\ Named(t)' BY <2>1, Bystander
  <2> QED BY <2>1, <2>2, <2>3 DEF CutsInv
<1> QED BY <1>1, <1>2, <1>3, <1>4 DEF BaseBranchNext

\* A task's branch is cut from a commit that the configured base, or the default branch, had
\* at the origin since the apply began, and what is recorded is what it was cut from
\* (tools/gen_delegate_payload.py, Issue #480 and #808): in every state, for all constants.
THEOREM CutsSound ==
  ASSUME BaseBranchAssumption
  PROVE  BaseBranchSpec => []CutsAreSound
<1>1. BaseBranchInit => CutsInv BY CutsInvInit
<1>2. CutsInv /\ [BaseBranchNext]_gitVars => CutsInv' BY CutsInvStep
<1>3. CutsInv => CutsAreSound BY DEF CutsInv, CutsAreSound, Fresh, Named, At
<1> QED BY <1>1, <1>2, <1>3, PTL DEF BaseBranchSpec

-----------------------------------------------------------------------------
(* GoalJudge                                                               *)

ScanState == [pc : {"idle", "check", "budget", "begin", "call", "spend", "record"}, now : Nat,
              batch : SUBSET Keys, outcome : Envelopes \union {"none"}, cost : 0..Cap]
Ghost == [real : [Days -> Nat], calls : Nat, lost : Nat, raced : BOOLEAN, unaware : SUBSET Scans]

JudgeTyped ==
  /\ JudgeTypeOK
  /\ spending \in [Days -> Nat]
  /\ scan \in [Scans -> ScanState]
  /\ ghost \in Ghost
  /\ \A s \in Scans : scan[s].pc # "idle" => scan[s].now \in {hour, hour - 1}

Calling(s) == scan[s].pc \in {"call", "spend", "record"}
Announced(s) == failure = [scope |-> "in_progress", batch |-> scan[s].batch, at |-> scan[s].now]

\* While a call is made, every other scan was there before it or is still to see it.
OneCall ==
  \A s \in Scans : Calling(s) =>
    /\ Announced(s)
    /\ \A o \in Scans : o # s /\ scan[o].pc # "idle" /\ o \notin ghost.unaware =>
         scan[o].pc = "check" /\ scan[o].now >= scan[s].now

\* The budget of a day bears one more call, or what was spent on one may be missing from it.
Budgeted ==
  /\ \A s \in Scans, d \in Days :
       DayOf(scan[s].now) = d /\ s \notin ghost.unaware /\ scan[s].pc \in {"begin", "call", "spend"}
         => spending[d] + Cap <= Daily
  /\ \A d \in Days :
       /\ spending[d] <= Daily
       /\ (\A s \in Scans : ~(scan[s].pc = "spend" /\ DayOf(scan[s].now) = d))
            => ghost.real[d] <= spending[d] + Cap * ghost.lost
       /\ \A s \in Scans : scan[s].pc = "spend" /\ DayOf(scan[s].now) = d
            => ghost.real[d] <= spending[d] + Cap * ghost.lost + scan[s].cost

\* Nobody calls unaware of another call.
NobodyRaced ==
  \A s \in Scans : Calling(s) => s \notin ghost.unaware

\* A command that was not found has cost nothing.
FreeCalls == \A s \in Scans : scan[s].outcome = "spawn_failed" => scan[s].cost = 0

JudgeInv == JudgeTyped /\ FreeCalls /\ (~ghost.raced => OneCall /\ NobodyRaced /\ Budgeted)

\* One scan moves on.
LEMMA OneMoves ==
  ASSUME JudgeTyped, NEW s \in Scans, NEW r \in ScanState, scan' = [scan EXCEPT ![s] = r]
  PROVE  /\ scan' \in [Scans -> ScanState] /\ scan'[s] = r
         /\ \A o \in Scans : o # s => scan'[o] = scan[o]
BY DEF JudgeTyped

LEMMA NoScanTyped == NoScan \in ScanState /\ NoScan.pc = "idle"
BY JudgeAssumption DEF NoScan, ScanState

\* What a scan begins with: questions about the texts there are.
LEMMA BatchTyped ==
  ASSUME JudgeTypeOK
  PROVE  Batch({CacheKey(i) : i \in Judged} \ kept) \subseteq Keys
BY JudgeAssumption DEF JudgeTypeOK, Batch, Judged, CacheKey, Keys, Texts

\* The ghost's fields, one at a time.
LEMMA GhostMoves ==
  ASSUME NEW g \in Ghost
  PROVE  /\ \A x \in [Days -> Nat] : [g EXCEPT !.real = x] \in Ghost
         /\ \A n \in Nat : [g EXCEPT !.calls = n] \in Ghost /\ [g EXCEPT !.lost = n] \in Ghost
         /\ \A q \in BOOLEAN : [g EXCEPT !.raced = q] \in Ghost
         /\ \A u \in SUBSET Scans : [g EXCEPT !.unaware = u] \in Ghost
         /\ g.real \in [Days -> Nat] /\ g.calls \in Nat /\ g.lost \in Nat /\ g.unaware \in SUBSET Scans
BY DEF Ghost

\* A sum that one day grows by.
LEMMA SumGrows ==
  ASSUME NEW f \in [Days -> Nat], NEW day, NEW n \in Nat
  PROVE  /\ [f EXCEPT ![day] = f[day] + n] \in [Days -> Nat]
         /\ \A d \in Days : [f EXCEPT ![day] = f[day] + n][d] = IF d = day THEN f[d] + n ELSE f[d]
<1>1. \A d \in Days : [f EXCEPT ![day] = f[day] + n][d] = IF d = day THEN f[d] + n ELSE f[d] OBVIOUS
<1>2. \A d \in Days : f[d] \in Nat /\ f[d] + n \in Nat OBVIOUS
<1>3. CASE day \in Days BY <1>1, <1>2, <1>3
<1>4. CASE day \notin Days
  <2>1. [f EXCEPT ![day] = f[day] + n] = f BY <1>4
  <2> QED BY <1>1, <2>1
<1> QED BY <1>3, <1>4

LEMMA JudgeTypes ==
  ASSUME JudgeTyped, JudgeNext
  PROVE  JudgeTyped'
<1> USE JudgeAssumption
<1>1. /\ hour \in Nat /\ spending \in [Days -> Nat] /\ scan \in [Scans -> ScanState] /\ ghost \in Ghost
      /\ kept \subseteq Keys /\ issue \in [Issues -> 0..MaxTexts] /\ hour \in 0..MaxHour
  BY DEF JudgeTyped, JudgeTypeOK
<1>2. ASSUME NEW i \in Issues, Edit(i) \/ AppendPutAside(i) PROVE JudgeTyped'
  <2>1. issue' \in [Issues -> 0..MaxTexts] BY <1>1, <1>2 DEF Edit, AppendPutAside, Texts
  <2> QED BY <1>2, <2>1 DEF Edit, AppendPutAside, JudgeTyped, JudgeTypeOK
<1>3. ASSUME PassHour PROVE JudgeTyped' BY <1>1, <1>3 DEF PassHour, JudgeTyped, JudgeTypeOK
\* A scan that moves on in its hour.
<1>4. ASSUME NEW s \in Scans, NEW r \in ScanState, scan' = [scan EXCEPT ![s] = r], UNCHANGED <<issue, hour>>,
             r.pc # "idle" => r.now \in {hour, hour - 1},
             spending' \in [Days -> Nat], ghost' \in Ghost, kept' \subseteq Keys
      PROVE  JudgeTyped'
  <2>1. /\ scan' \in [Scans -> ScanState] /\ scan'[s] = r
        /\ \A o \in Scans : o # s => scan'[o] = scan[o]
    BY <1>4, OneMoves
  <2> QED BY <1>1, <1>4, <2>1 DEF JudgeTyped, JudgeTypeOK
<1>5. \A s \in Scans : scan[s] \in ScanState /\ (scan[s].pc # "idle" => scan[s].now \in {hour, hour - 1})
  BY <1>1 DEF JudgeTyped
<1>6. \A s \in Scans, pc2 \in {"check", "budget", "begin", "call", "spend", "record"} :
        /\ [scan[s] EXCEPT !.pc = pc2] \in ScanState
        /\ [scan[s] EXCEPT !.pc = pc2].now = scan[s].now
  BY <1>5 DEF ScanState
<1>7. ASSUME NEW s \in Scans, StartScan(s) PROVE JudgeTyped'
  <2> DEFINE batch == Batch({CacheKey(i) : i \in Judged} \ kept)
             r == [NoScan EXCEPT !.pc = "check", !.now = hour, !.batch = batch]
  <2>1. scan' = [scan EXCEPT ![s] = r] /\ UNCHANGED <<issue, kept, spending, hour>>
        /\ ghost' = [ghost EXCEPT !.unaware = @ \ {s}]
    BY <1>7 DEF StartScan
  <2>2. batch \subseteq Keys BY BatchTyped DEF JudgeTyped
  <2> HIDE DEF batch
  <2>3. r \in ScanState /\ r.now = hour BY <1>1, <2>2, NoScanTyped DEF ScanState
  <2>4. ghost' \in Ghost BY <1>1, <2>1 DEF Ghost
  <2> HIDE DEF r
  <2> QED BY <1>1, <1>4, <2>1, <2>3, <2>4
<1>8. ASSUME NEW s \in Scans, CheckCooldown(s) \/ SpentToday(s) PROVE JudgeTyped'
  <2>1. UNCHANGED <<issue, kept, spending, hour, ghost>> BY <1>8 DEF CheckCooldown, SpentToday
  <2>2. CASE scan' = [scan EXCEPT ![s] = NoScan] BY <1>1, <1>4, <2>1, <2>2, NoScanTyped
  <2>3. ASSUME NEW pc2 \in {"budget", "begin"}, scan' = [scan EXCEPT ![s].pc = pc2], scan[s].pc # "idle"
        PROVE  JudgeTyped'
    <3>1. scan' = [scan EXCEPT ![s] = [scan[s] EXCEPT !.pc = pc2]] BY <2>3
    <3> QED BY <1>1, <1>4, <1>5, <1>6, <2>1, <2>3, <3>1, ZenonT(30)
  <2> QED BY <1>8, <2>2, <2>3 DEF CheckCooldown, SpentToday, Fail, GoOn, Stands
<1>9. ASSUME NEW s \in Scans, BeginCall(s) PROVE JudgeTyped'
  <2>1. /\ scan' = [scan EXCEPT ![s] = [scan[s] EXCEPT !.pc = "call"]] /\ scan[s].pc # "idle"
        /\ UNCHANGED <<issue, kept, spending, hour>>
    BY <1>9 DEF BeginCall, GoOn, Stands
  <2>2. ghost' \in Ghost
    <3> DEFINE q == ghost.raced \/ s \in ghost.unaware \/ failure' # FailureOf(s, "in_progress")
               g1 == [ghost EXCEPT !.calls = ghost.calls + 1]
               g2 == [g1 EXCEPT !.unaware = ghost.unaware \union (Scans \ {s})]
               g3 == [g2 EXCEPT !.raced = q]
    <3>1. q \in BOOLEAN BY Zenon
    <3>2. ghost' = [ghost EXCEPT !.calls = ghost.calls + 1, !.unaware = ghost.unaware \union (Scans \ {s}),
                      !.raced = q]
      BY <1>9 DEF BeginCall
    <3> HIDE DEF q
    <3>3. ghost' = g3 BY <1>1, <3>2 DEF Ghost
    <3>4. g1 \in Ghost /\ ghost.unaware \union (Scans \ {s}) \in SUBSET Scans
      <4>1. ghost.calls + 1 \in Nat /\ ghost.unaware \in SUBSET Scans BY <1>1, GhostMoves
      <4> QED BY <1>1, <4>1, GhostMoves
    <3> HIDE DEF g1
    <3>5. g2 \in Ghost BY <3>4, GhostMoves
    <3> HIDE DEF g2
    <3> QED BY <3>1, <3>3, <3>5, GhostMoves
  <2> QED BY <1>1, <1>4, <1>5, <1>6, <2>1, <2>2
<1>10. \A s \in Scans, cost \in 0..Cap : Spent(s, cost) \in [Days -> Nat]
  <2>1. ghost.real \in [Days -> Nat] BY <1>1, GhostMoves
  <2>2. 0..Cap \subseteq Nat BY <1>1
  <2> QED BY <2>1, <2>2, SumGrows DEF Spent
<1>11. ASSUME NEW s \in Scans, CallEnds(s) PROVE JudgeTyped'
  <2>1. PICK outcome \in Envelopes, cost \in 0..Cap :
          /\ scan' = [scan EXCEPT ![s].pc = "spend", ![s].outcome = outcome, ![s].cost = cost]
          /\ ghost' = [ghost EXCEPT !.real = Spent(s, cost)]
    BY <1>11 DEF CallEnds
  <2> DEFINE r == [scan[s] EXCEPT !.pc = "spend", !.outcome = outcome, !.cost = cost]
  <2>2. /\ scan[s].pc # "idle" /\ UNCHANGED <<issue, kept, failure, spending, hour>>
    BY <1>11 DEF CallEnds, Stands
  <2>3. r \in ScanState /\ r.now = scan[s].now BY <1>5 DEF ScanState
  <2>4. scan' = [scan EXCEPT ![s] = r] BY <1>1, <2>1
  <2>5. ghost' \in Ghost BY <1>1, <1>10, <2>1, GhostMoves
  <2> HIDE DEF r
  <2> QED BY <1>1, <1>4, <1>5, <2>2, <2>3, <2>4, <2>5
<1>12. ASSUME NEW s \in Scans, AppendSpend(s) PROVE JudgeTyped'
  <2>1. PICK cost \in Counted(s) \union {0} :
          /\ spending' = [spending EXCEPT ![DayOf(scan[s].now)] = @ + cost]
          /\ ghost' = IF cost \in Counted(s) THEN ghost ELSE [ghost EXCEPT !.lost = @ + 1]
    BY <1>12 DEF AppendSpend
  <2>2. cost \in 0..Cap
    <3>1. scan[s].cost \in 0..Cap BY <1>5 DEF ScanState
    <3> QED BY <3>1 DEF Counted
  <2>3. spending' \in [Days -> Nat] /\ ghost' \in Ghost
    <3>0. cost \in Nat BY <1>1, <2>2
    <3>1. spending' \in [Days -> Nat] BY <1>1, <2>1, <3>0, SumGrows
    <3>2. ghost.lost + 1 \in Nat BY <1>1, GhostMoves
    <3>3. [ghost EXCEPT !.lost = ghost.lost + 1] \in Ghost BY <1>1, <3>2, GhostMoves
    <3> QED BY <1>1, <2>1, <3>1, <3>3
  <2>4. /\ scan' = [scan EXCEPT ![s] = [scan[s] EXCEPT !.pc = "record"]] /\ scan[s].pc # "idle"
        /\ UNCHANGED <<issue, kept, hour>>
    BY <1>12 DEF AppendSpend, GoOn, Stands
  <2> QED BY <1>1, <1>4, <1>5, <1>6, <2>3, <2>4
<1>13. ASSUME NEW s \in Scans, Succeed(s) \/ JudgeFails(s) PROVE JudgeTyped'
  <2>1. scan[s].batch \subseteq Keys BY <1>5 DEF ScanState
  <2>2. kept' \subseteq Keys BY <1>1, <1>13, <2>1 DEF Succeed, JudgeFails
  <2>3. scan' = [scan EXCEPT ![s] = NoScan] /\ UNCHANGED <<issue, spending, hour, ghost>>
    BY <1>13 DEF Succeed, JudgeFails, Fail
  <2> QED BY <1>1, <1>4, <2>2, <2>3, NoScanTyped
<1>14. ASSUME NEW s \in Scans, KillScan(s) PROVE JudgeTyped'
  <2>0. 0 \in 0..Cap BY <1>1
  <2>1. PICK cost \in 0..Cap :
          ghost' = [ghost EXCEPT !.real = Spent(s, cost),
                              !.lost = ghost.lost + IF scan[s].pc \in {"call", "spend"} THEN 1 ELSE 0]
    BY <1>14, <2>0 DEF KillScan
  <2>2. ghost' \in Ghost
    <3> DEFINE n == ghost.lost + IF scan[s].pc \in {"call", "spend"} THEN 1 ELSE 0
               g1 == [ghost EXCEPT !.real = Spent(s, cost)]
    <3>1. n \in Nat BY <1>1, GhostMoves
    <3>2. g1 \in Ghost BY <1>1, <1>10, GhostMoves
    <3>3. ghost' = [ghost EXCEPT !.real = Spent(s, cost), !.lost = n] BY <2>1
    <3> HIDE DEF n
    <3>4. ghost' = [g1 EXCEPT !.lost = n] BY <1>1, <3>3 DEF Ghost
    <3> HIDE DEF g1
    <3> QED BY <3>1, <3>2, <3>4, GhostMoves
  <2>3. scan' = [scan EXCEPT ![s] = NoScan] /\ UNCHANGED <<issue, kept, spending, hour>>
    BY <1>14 DEF KillScan, Fail
  <2> QED BY <1>1, <1>4, <2>2, <2>3, NoScanTyped
<1> QED BY <1>2, <1>3, <1>7, <1>8, <1>9, <1>11, <1>12, <1>13, <1>14 DEF JudgeNext

\* No other scan that knows of the call is past its check.
LEMMA Alone ==
  ASSUME JudgeInv, ~ghost.raced, NEW s \in Scans, Calling(s), NEW o \in Scans, o # s,
         o \notin ghost.unaware
  PROVE  scan[o].pc \in {"idle", "check"} /\ ~Calling(o)
BY DEF JudgeInv, OneCall, Calling

\* A scan that makes no call, and ends no call, changes nothing that the budget rests on.
LEMMA LookingKeeps ==
  ASSUME JudgeInv, JudgeTyped', ~ghost.raced, NEW s \in Scans, NEW r \in ScanState,
         scan' = [scan EXCEPT ![s] = r], UNCHANGED <<failure, spending>>,
         ghost'.real = ghost.real, ghost'.lost = ghost.lost,
         ghost.unaware \subseteq ghost'.unaware \union {s}, ghost'.unaware \subseteq ghost.unaware,
         ~Calling(s), r.pc \in {"idle", "check", "budget", "begin"},
         r.pc # "idle" /\ s \notin ghost'.unaware => \A o \in Scans : o # s /\ Calling(o) =>
           r.pc = "check" /\ r.now >= scan[o].now,
         r.pc = "begin" /\ s \notin ghost'.unaware => \A d \in Days : DayOf(r.now) = d => spending[d] + Cap <= Daily
  PROVE  OneCall' /\ NobodyRaced' /\ Budgeted'
<1>1. JudgeTyped /\ OneCall /\ NobodyRaced /\ Budgeted BY DEF JudgeInv
<1>2. scan'[s] = r /\ \A o \in Scans : o # s => scan'[o] = scan[o] BY <1>1, OneMoves
<1>3. ~Calling(s)' /\ \A o \in Scans : o # s => Calling(o)' = Calling(o) BY <1>2 DEF Calling
<1>4. NobodyRaced' BY <1>1, <1>3 DEF NobodyRaced
<1>5. OneCall'
  <2>1. ASSUME NEW o \in Scans, Calling(o)' PROVE Announced(o)'
    BY <1>1, <1>2, <1>3, <2>1 DEF OneCall, Announced
  <2>2. ASSUME NEW o \in Scans, Calling(o)', NEW x \in Scans, x # o, scan'[x].pc # "idle", x \notin ghost'.unaware
        PROVE  scan'[x].pc = "check" /\ scan'[x].now >= scan'[o].now
    <3>1. o # s /\ Calling(o) /\ scan'[o] = scan[o] BY <1>2, <1>3, <2>2
    <3>2. CASE x = s BY <1>2, <2>2, <3>1, <3>2
    <3>3. CASE x # s BY <1>1, <1>2, <2>2, <3>1, <3>3 DEF OneCall
    <3> QED BY <3>2, <3>3
  <2> QED BY <2>1, <2>2 DEF OneCall
<1>6. Budgeted'
  <2>1. ASSUME NEW x \in Scans, NEW d \in Days, DayOf(scan'[x].now) = d, x \notin ghost'.unaware,
               scan'[x].pc \in {"begin", "call", "spend"}
        PROVE  spending'[d] + Cap <= Daily
    <3>1. CASE x = s BY <1>2, <2>1, <3>1
    <3>2. CASE x # s BY <1>1, <1>2, <2>1, <3>2 DEF Budgeted
    <3> QED BY <3>1, <3>2
  <2>2. \A x \in Scans : /\ (scan'[x].pc = "spend") <=> (scan[x].pc = "spend")
                         /\ scan[x].pc = "spend" => scan'[x] = scan[x]
    BY <1>2 DEF Calling
  <2>3. ASSUME NEW d \in Days
        PROVE  /\ spending'[d] <= Daily
               /\ (\A x \in Scans : ~(scan'[x].pc = "spend" /\ DayOf(scan'[x].now) = d))
                    => ghost'.real[d] <= spending'[d] + Cap * ghost'.lost
               /\ \A x \in Scans : scan'[x].pc = "spend" /\ DayOf(scan'[x].now) = d
                    => ghost'.real[d] <= spending'[d] + Cap * ghost'.lost + scan'[x].cost
    BY <1>1, <2>2 DEF Budgeted
  <2> QED BY <2>1, <2>3 DEF Budgeted
<1> QED BY <1>4, <1>5, <1>6

\* A scan that can see the call under way finds it cooling.
LEMMA SeesTheCall ==
  ASSUME JudgeInv, ~ghost.raced, NEW s \in Scans, Calling(s), NEW o \in Scans, o # s,
         o \notin ghost.unaware, scan[o].pc = "check"
  PROVE  Cooling(o)
<1>1. Announced(s) /\ scan[o].now >= scan[s].now BY DEF JudgeInv, OneCall
<1>2. /\ scan[s].now \in {hour, hour - 1} /\ scan[o].now \in {hour, hour - 1}
      /\ scan[s].now \in Nat /\ scan[o].now \in Nat /\ hour \in Nat
  BY DEF JudgeInv, JudgeTyped, JudgeTypeOK, ScanState, Calling
<1>3. failure.scope = "in_progress" /\ failure.at = scan[s].now BY <1>1 DEF Announced
<1>4. scan[o].now - failure.at \in 0..1 BY <1>1, <1>2, <1>3
<1>5. Cooldown \in Nat /\ Cooldown > 1 BY JudgeAssumption
<1>6. scan[o].now - failure.at \in 0..Cooldown - 1 BY <1>4, <1>5
<1> QED BY <1>3, <1>6 DEF Cooling

LEMMA LookStepsKeep ==
  ASSUME JudgeInv, JudgeTyped', ~ghost'.raced, NEW s \in Scans,
         StartScan(s) \/ CheckCooldown(s) \/ SpentToday(s)
  PROVE  OneCall' /\ NobodyRaced' /\ Budgeted'
<1>1. JudgeTyped /\ scan[s] \in ScanState /\ ghost \in Ghost BY DEF JudgeInv, JudgeTyped
<1>2. CASE StartScan(s)
  <2> DEFINE batch == Batch({CacheKey(i) : i \in Judged} \ kept)
             r == [NoScan EXCEPT !.pc = "check", !.now = hour, !.batch = batch]
  <2>1. /\ scan[s].pc = "idle" /\ scan' = [scan EXCEPT ![s] = r] /\ UNCHANGED <<failure, spending, hour>>
        /\ ghost' = [ghost EXCEPT !.unaware = @ \ {s}]
    BY <1>2 DEF StartScan, Stands
  <2>2. batch \subseteq Keys BY <1>1, BatchTyped DEF JudgeTyped
  <2> HIDE DEF batch
  <2>3. r \in ScanState /\ r.now = hour /\ r.pc = "check"
    <3>1. hour \in Nat BY <1>1, JudgeAssumption DEF JudgeTyped, JudgeTypeOK
    <3> QED BY <2>2, <3>1, NoScanTyped DEF ScanState
  <2> HIDE DEF r
  <2>4. /\ ghost'.real = ghost.real /\ ghost'.lost = ghost.lost /\ ghost'.raced = ghost.raced
        /\ ghost'.unaware = ghost.unaware \ {s}
    BY <1>1, <2>1 DEF Ghost
  <2>5. ~Calling(s) BY <2>1 DEF Calling
  <2>6. \A o \in Scans : Calling(o) => hour >= scan[o].now
    BY <1>1 DEF JudgeTyped, JudgeTypeOK, Calling
  <2> QED BY <2>1, <2>3, <2>4, <2>5, <2>6, LookingKeeps
<1>3. ASSUME UNCHANGED <<failure, spending, ghost>>, ~Calling(s), scan' = [scan EXCEPT ![s] = NoScan]
      PROVE  OneCall' /\ NobodyRaced' /\ Budgeted'
  BY <1>3, NoScanTyped, LookingKeeps
<1>4. CASE CheckCooldown(s)
  <2>1. scan[s].pc = "check" /\ ~Calling(s) /\ UNCHANGED <<failure, spending, ghost>>
    BY <1>4 DEF CheckCooldown, Stands, Calling
  <2>2. CASE Cooling(s) BY <1>3, <1>4, <2>1, <2>2 DEF CheckCooldown, Fail
  <2>3. CASE ~Cooling(s)
    <3> DEFINE r == [scan[s] EXCEPT !.pc = "budget"]
    <3>1. scan' = [scan EXCEPT ![s] = r] BY <1>4, <2>3 DEF CheckCooldown, GoOn
    <3>2. r \in ScanState /\ r.pc = "budget" BY <1>1 DEF ScanState
    <3>3. s \notin ghost.unaware => \A o \in Scans : ~(o # s /\ Calling(o)) BY <2>1, <2>3, SeesTheCall
    <3> HIDE DEF r
    <3> QED BY <2>1, <3>1, <3>2, <3>3, LookingKeeps
  <2> QED BY <2>2, <2>3
<1>5. CASE SpentToday(s)
  <2>1. scan[s].pc = "budget" /\ ~Calling(s) /\ UNCHANGED <<failure, spending, ghost>>
    BY <1>5 DEF SpentToday, Stands, Calling
  <2> DEFINE today == DayOf(scan[s].now)
  <2>2. CASE spending[today] + Cap > Daily BY <1>3, <1>5, <2>1, <2>2 DEF SpentToday, Exhausted, Fail
  <2>3. CASE ~(spending[today] + Cap > Daily)
    <3> DEFINE r == [scan[s] EXCEPT !.pc = "begin"]
    <3>1. scan' = [scan EXCEPT ![s] = r] BY <1>5, <2>3 DEF SpentToday, Exhausted, GoOn
    <3>2. r \in ScanState /\ r.pc = "begin" /\ r.now = scan[s].now BY <1>1 DEF ScanState
    <3>3. s \notin ghost.unaware => \A o \in Scans : ~(o # s /\ Calling(o)) BY <2>1, Alone
    <3> HIDE DEF r
    <3>4. \A d \in Days : DayOf(r.now) = d => spending[d] + Cap <= Daily
      BY <1>1, <2>3, <3>2, JudgeAssumption DEF JudgeTyped
    <3> QED BY <2>1, <3>1, <3>2, <3>3, <3>4, LookingKeeps
  <2> QED BY <2>2, <2>3
<1> QED BY <1>2, <1>4, <1>5

LEMMA BeginKeeps ==
  ASSUME JudgeInv, JudgeTyped', ~ghost'.raced, NEW s \in Scans, BeginCall(s)
  PROVE  OneCall' /\ NobodyRaced' /\ Budgeted'
<1>1. JudgeTyped /\ scan \in [Scans -> ScanState] /\ ghost \in Ghost BY DEF JudgeInv, JudgeTyped
<1>2. /\ scan[s].pc = "begin" /\ scan' = [scan EXCEPT ![s].pc = "call"] /\ UNCHANGED spending
      /\ ghost' = [ghost EXCEPT !.calls = @ + 1, !.unaware = @ \union (Scans \ {s}),
                     !.raced = @ \/ s \in ghost.unaware \/ failure' # FailureOf(s, "in_progress")]
  BY DEF BeginCall, Stands, GoOn
<1>3. /\ ghost'.real = ghost.real /\ ghost'.lost = ghost.lost
      /\ ghost'.unaware = ghost.unaware \union (Scans \ {s})
      /\ ~ghost.raced /\ s \notin ghost.unaware /\ failure' = FailureOf(s, "in_progress")
  BY <1>1, <1>2 DEF Ghost
<1>4. /\ scan'[s].pc = "call" /\ scan'[s].now = scan[s].now /\ scan'[s].batch = scan[s].batch
      /\ \A o \in Scans : o # s => scan'[o] = scan[o]
  BY <1>1, <1>2 DEF ScanState
<1>5. \A o \in Scans : o # s => ~Calling(o)
  <2> SUFFICES ASSUME NEW o \in Scans, o # s, Calling(o) PROVE FALSE OBVIOUS
  <2> QED BY <1>2, <1>3, Alone
<1>6. OneCall /\ NobodyRaced /\ Budgeted BY <1>3 DEF JudgeInv
<1>7. \A o \in Scans : Calling(o)' => o = s BY <1>4, <1>5 DEF Calling
<1>8. Announced(s)' BY <1>3, <1>4 DEF Announced, FailureOf
<1>9. OneCall' BY <1>3, <1>7, <1>8 DEF OneCall
<1>10. NobodyRaced' BY <1>3, <1>7 DEF NobodyRaced
<1>11. Budgeted'
  <2>1. ASSUME NEW x \in Scans, NEW d \in Days, DayOf(scan'[x].now) = d, x \notin ghost'.unaware
        PROVE  spending'[d] + Cap <= Daily
    <3>1. x = s BY <1>3, <2>1
    <3> QED BY <1>2, <1>3, <1>4, <1>6, <2>1, <3>1 DEF Budgeted
  <2>2. \A x \in Scans : scan'[x].pc # "spend" /\ scan[x].pc # "spend"
    BY <1>2, <1>4, <1>5 DEF Calling
  <2>3. \A d \in Days : spending'[d] <= Daily /\ ghost'.real[d] <= spending'[d] + Cap * ghost'.lost
    BY <1>2, <1>3, <1>6, <2>2 DEF Budgeted
  <2> QED BY <2>1, <2>2, <2>3 DEF Budgeted
<1> QED BY <1>9, <1>10, <1>11

LEMMA FreeCallsStay ==
  ASSUME JudgeTyped, FreeCalls, JudgeNext
  PROVE  FreeCalls'
<1>1. scan \in [Scans -> ScanState] BY DEF JudgeTyped
<1>2. CASE UNCHANGED scan BY <1>2 DEF FreeCalls
<1>3. ASSUME NEW s \in Scans, NEW r, scan' = [scan EXCEPT ![s] = r], r.outcome = "spawn_failed" => r.cost = 0
      PROVE  FreeCalls'
  BY <1>1, <1>3 DEF FreeCalls
<1>4. ASSUME NEW s \in Scans, Fail(s) PROVE FreeCalls'
  <2>1. NoScan.outcome # "spawn_failed" BY DEF NoScan
  <2> QED BY <1>3, <1>4, <2>1 DEF Fail
<1>5. ASSUME NEW s \in Scans, NEW pc2, GoOn(s, pc2) PROVE FreeCalls'
  <2> DEFINE r == [scan[s] EXCEPT !.pc = pc2]
  <2>1. r.outcome = scan[s].outcome /\ r.cost = scan[s].cost BY <1>1 DEF ScanState
  <2>2. scan' = [scan EXCEPT ![s] = r] BY <1>5 DEF GoOn
  <2> HIDE DEF r
  <2> QED BY <1>3, <2>1, <2>2 DEF FreeCalls
<1>6. ASSUME NEW s \in Scans, StartScan(s) PROVE FreeCalls'
  <2> DEFINE batch == Batch({CacheKey(i) : i \in Judged} \ kept)
             r == [NoScan EXCEPT !.pc = "check", !.now = hour, !.batch = batch]
  <2>1. scan' = [scan EXCEPT ![s] = r] BY <1>6 DEF StartScan
  <2>2. r.outcome # "spawn_failed" BY DEF NoScan
  <2> HIDE DEF r
  <2> QED BY <1>3, <2>1, <2>2
<1>7. ASSUME NEW s \in Scans, CallEnds(s) PROVE FreeCalls'
  <2>1. PICK outcome \in Envelopes, cost \in 0..Cap :
          /\ outcome = "spawn_failed" => cost = 0
          /\ scan' = [scan EXCEPT ![s].pc = "spend", ![s].outcome = outcome, ![s].cost = cost]
    BY <1>7 DEF CallEnds
  <2> DEFINE r == [scan[s] EXCEPT !.pc = "spend", !.outcome = outcome, !.cost = cost]
  <2>2. scan' = [scan EXCEPT ![s] = r] BY <1>1, <2>1
  <2>3. r.outcome = outcome /\ r.cost = cost BY <1>1 DEF ScanState
  <2> HIDE DEF r
  <2> QED BY <1>3, <2>1, <2>2, <2>3
<1> QED
  BY <1>2, <1>4, <1>5, <1>6, <1>7 DEF JudgeNext, PassHour, Edit, AppendPutAside, CheckCooldown, SpentToday,
     BeginCall, AppendSpend, Succeed, JudgeFails, KillScan

\* A scan that calls is the only one.
LEMMA OnlyCaller ==
  ASSUME JudgeInv, ~ghost.raced, NEW s \in Scans, Calling(s), NEW o \in Scans, o # s
  PROVE  /\ ~Calling(o)
         /\ o \notin ghost.unaware => scan[o].pc \in {"idle", "check"}
<1>1. o \in ghost.unaware => ~Calling(o) BY DEF JudgeInv, NobodyRaced
<1> QED BY <1>1, Alone

\* The numbers of a state.
LEMMA JudgeNumbers ==
  ASSUME JudgeTyped
  PROVE  /\ \A d \in Days : ghost.real[d] \in Nat /\ spending[d] \in Nat
         /\ ghost.lost \in Nat /\ Cap \in Nat /\ Daily \in Nat /\ Cap * ghost.lost \in Nat
         /\ \A s \in Scans : scan[s].cost \in 0..Cap
BY JudgeAssumption DEF JudgeTyped, Ghost, ScanState

\* The end of the only call.
LEMMA EndKeeps ==
  ASSUME JudgeInv, JudgeTyped', ~ghost.raced, NEW s \in Scans, Calling(s), scan' = [scan EXCEPT ![s] = NoScan],
         UNCHANGED spending, ghost'.unaware = ghost.unaware,
         \A d \in Days : ghost'.real[d] <= spending[d] + Cap * ghost'.lost
  PROVE  OneCall' /\ NobodyRaced' /\ Budgeted'
<1>1. JudgeTyped /\ Budgeted BY DEF JudgeInv
<1>2. scan'[s] = NoScan /\ \A o \in Scans : o # s => scan'[o] = scan[o] BY <1>1, NoScanTyped, OneMoves
<1>3. NoScan.pc = "idle" BY NoScanTyped
<1>4. \A o \in Scans : ~Calling(o)' BY <1>2, <1>3, OnlyCaller DEF Calling
<1>5. OneCall' /\ NobodyRaced' BY <1>4 DEF OneCall, NobodyRaced
<1>6. \A o \in Scans : scan'[o].pc # "spend" BY <1>4 DEF Calling
<1>7. \A o \in Scans, d \in Days :
        DayOf(scan'[o].now) = d /\ o \notin ghost'.unaware /\ scan'[o].pc \in {"begin", "call", "spend"}
          => spending'[d] + Cap <= Daily
  <2> SUFFICES ASSUME NEW o \in Scans, o \notin ghost'.unaware, scan'[o].pc \in {"begin", "call", "spend"}
               PROVE  FALSE
    OBVIOUS
  <2>1. o # s BY <1>2, <1>3
  <2> QED BY <1>2, <2>1, OnlyCaller
<1>8. Budgeted' BY <1>1, <1>6, <1>7 DEF Budgeted
<1> QED BY <1>5, <1>8

LEMMA CallEndsKeeps ==
  ASSUME JudgeInv, JudgeTyped', ~ghost'.raced, NEW s \in Scans, CallEnds(s)
  PROVE  OneCall' /\ NobodyRaced' /\ Budgeted'
<1>1. JudgeTyped /\ scan \in [Scans -> ScanState] /\ ghost \in Ghost BY DEF JudgeInv, JudgeTyped
<1> DEFINE today == DayOf(scan[s].now)
<1>2. PICK outcome \in Envelopes, cost \in 0..Cap :
        /\ scan' = [scan EXCEPT ![s].pc = "spend", ![s].outcome = outcome, ![s].cost = cost]
        /\ ghost' = [ghost EXCEPT !.real = Spent(s, cost)]
  BY DEF CallEnds
<1>3. scan[s].pc = "call" /\ UNCHANGED <<failure, spending>> /\ Calling(s) BY DEF CallEnds, Stands, Calling
<1>4. /\ ghost'.real = Spent(s, cost) /\ ghost'.lost = ghost.lost /\ ghost'.unaware = ghost.unaware
      /\ ghost'.raced = ghost.raced
  BY <1>1, <1>2 DEF Ghost
<1>5. OneCall /\ NobodyRaced /\ Budgeted /\ ~ghost.raced BY <1>4 DEF JudgeInv
<1>6. /\ scan'[s].pc = "spend" /\ scan'[s].cost = cost /\ scan'[s].now = scan[s].now
      /\ scan'[s].batch = scan[s].batch /\ \A o \in Scans : o # s => scan'[o] = scan[o]
  BY <1>1, <1>2 DEF ScanState
<1>7. \A o \in Scans : Calling(o)' <=> o = s BY <1>5, <1>6, <1>3, OnlyCaller DEF Calling
<1>8. OneCall'
  <2>1. Announced(s)' BY <1>3, <1>5, <1>6 DEF OneCall, Announced
  <2>2. \A x \in Scans : x # s /\ scan'[x].pc # "idle" /\ x \notin ghost'.unaware =>
          scan'[x].pc = "check" /\ scan'[x].now >= scan'[s].now
    BY <1>3, <1>4, <1>5, <1>6 DEF OneCall
  <2> QED BY <1>7, <2>1, <2>2 DEF OneCall
<1>9. NobodyRaced' BY <1>3, <1>4, <1>5, <1>7 DEF NobodyRaced
<1>10. \A d \in Days : ghost'.real[d] = IF d = today THEN ghost.real[d] + cost ELSE ghost.real[d]
  <2>1. ghost.real \in [Days -> Nat] BY <1>1, GhostMoves
  <2>2. cost \in Nat BY JudgeAssumption
  <2> QED BY <1>4, <2>1, <2>2, SumGrows DEF Spent
<1>11. \A x \in Scans : scan[x].pc # "spend" BY <1>3, <1>5, OnlyCaller DEF Calling
<1>12. Budgeted'
  <2>1. ASSUME NEW x \in Scans, NEW d \in Days, DayOf(scan'[x].now) = d, x \notin ghost'.unaware,
               scan'[x].pc \in {"begin", "call", "spend"}
        PROVE  spending'[d] + Cap <= Daily
    <3>1. CASE x = s BY <1>3, <1>4, <1>5, <1>6, <2>1, <3>1 DEF Budgeted
    <3>2. CASE x # s BY <1>3, <1>4, <1>5, <1>6, <2>1, <3>2 DEF Budgeted
    <3> QED BY <3>1, <3>2
  <2>2. ASSUME NEW d \in Days
        PROVE  /\ spending'[d] <= Daily
               /\ (\A x \in Scans : ~(scan'[x].pc = "spend" /\ DayOf(scan'[x].now) = d))
                    => ghost'.real[d] <= spending'[d] + Cap * ghost'.lost
               /\ \A x \in Scans : scan'[x].pc = "spend" /\ DayOf(scan'[x].now) = d
                    => ghost'.real[d] <= spending'[d] + Cap * ghost'.lost + scan'[x].cost
    <3> DEFINE bound == spending[d] + Cap * ghost.lost
    <3>1. spending[d] <= Daily /\ ghost.real[d] <= bound BY <1>5, <1>11 DEF Budgeted
    <3>2. ghost.real[d] \in Nat /\ bound \in Nat /\ cost \in Nat BY <1>1, JudgeNumbers
    <3>3. spending'[d] = spending[d] /\ bound = spending'[d] + Cap * ghost'.lost BY <1>3, <1>4
    <3>4. \A x \in Scans : scan'[x].pc = "spend" => x = s BY <1>7 DEF Calling
    <3> HIDE DEF bound
    <3>5. CASE d = today BY <1>6, <1>10, <3>1, <3>2, <3>3, <3>4, <3>5
    <3>6. CASE d # today BY <1>6, <1>10, <3>1, <3>2, <3>3, <3>4, <3>6
    <3> QED BY <3>5, <3>6
  <2> QED BY <2>1, <2>2 DEF Budgeted
<1> QED BY <1>8, <1>9, <1>12

LEMMA AppendSpendKeeps ==
  ASSUME JudgeInv, JudgeTyped', ~ghost'.raced, NEW s \in Scans, AppendSpend(s)
  PROVE  OneCall' /\ NobodyRaced' /\ Budgeted'
<1>1. JudgeTyped /\ scan \in [Scans -> ScanState] /\ ghost \in Ghost /\ FreeCalls BY DEF JudgeInv, JudgeTyped
<1> DEFINE today == DayOf(scan[s].now)
<1>2. PICK c \in Counted(s) \union {0} :
        /\ spending' = [spending EXCEPT ![today] = spending[today] + c]
        /\ ghost' = IF c \in Counted(s) THEN ghost ELSE [ghost EXCEPT !.lost = ghost.lost + 1]
  BY DEF AppendSpend
<1>3. /\ scan[s].pc = "spend" /\ UNCHANGED failure /\ Calling(s)
      /\ scan' = [scan EXCEPT ![s].pc = "record"]
  BY DEF AppendSpend, GoOn, Stands, Calling
<1>4. /\ ghost'.real = ghost.real /\ ghost'.unaware = ghost.unaware /\ ghost'.raced = ghost.raced
      /\ ghost'.lost = IF c \in Counted(s) THEN ghost.lost ELSE ghost.lost + 1
  BY <1>1, <1>2 DEF Ghost
<1>5. OneCall /\ NobodyRaced /\ Budgeted /\ ~ghost.raced BY <1>4 DEF JudgeInv
<1>6. /\ scan'[s].pc = "record" /\ scan'[s].now = scan[s].now
      /\ scan'[s].batch = scan[s].batch /\ \A o \in Scans : o # s => scan'[o] = scan[o]
  BY <1>1, <1>3 DEF ScanState
<1>7. \A o \in Scans : Calling(o)' <=> o = s BY <1>5, <1>6, <1>3, OnlyCaller DEF Calling
<1>8. OneCall'
  <2>1. Announced(s)' BY <1>3, <1>5, <1>6 DEF OneCall, Announced
  <2>2. \A x \in Scans : x # s /\ scan'[x].pc # "idle" /\ x \notin ghost'.unaware =>
          scan'[x].pc = "check" /\ scan'[x].now >= scan'[s].now
    BY <1>3, <1>4, <1>5, <1>6 DEF OneCall
  <2> QED BY <1>7, <2>1, <2>2 DEF OneCall
<1>9. s \notin ghost.unaware /\ NobodyRaced' BY <1>3, <1>4, <1>5, <1>7 DEF NobodyRaced
<1>10. c \in 0..Cap /\ (c \in Counted(s) => c >= scan[s].cost)
  <2>1. /\ scan[s].cost \in 0..Cap /\ Cap \in Nat
        /\ scan[s].outcome = "spawn_failed" => scan[s].cost = 0
    BY <1>1, JudgeNumbers DEF FreeCalls
  <2>2. CASE scan[s].outcome = "spawn_failed" BY <1>2, <2>1, <2>2 DEF Counted
  <2>3. CASE scan[s].outcome = "global" BY <1>2, <2>1, <2>3 DEF Counted
  <2>4. CASE scan[s].outcome \notin {"spawn_failed", "global"} BY <1>2, <2>1, <2>4 DEF Counted
  <2> QED BY <2>2, <2>3, <2>4
<1>11. \A d \in Days : spending'[d] = IF d = today THEN spending[d] + c ELSE spending[d]
  <2>1. spending \in [Days -> Nat] BY <1>1 DEF JudgeTyped
  <2>2. c \in Nat BY <1>10, JudgeAssumption
  <2> QED BY <1>2, <2>1, <2>2, SumGrows
<1>12. \A x \in Scans : (scan[x].pc = "spend" => x = s) /\ scan'[x].pc # "spend"
  BY <1>3, <1>5, <1>6, OnlyCaller DEF Calling
<1>13. Budgeted'
  <2>1. ASSUME NEW x \in Scans, NEW d \in Days, DayOf(scan'[x].now) = d, x \notin ghost'.unaware,
               scan'[x].pc \in {"begin", "call", "spend"}
        PROVE  FALSE
    <3>1. x # s BY <1>6, <2>1
    <3> QED BY <1>3, <1>4, <1>5, <1>6, <2>1, <3>1, OnlyCaller
  <2>2. ASSUME NEW d \in Days
        PROVE  spending'[d] <= Daily /\ ghost'.real[d] <= spending'[d] + Cap * ghost'.lost
    <3> DEFINE bound == Cap * ghost.lost
    <3>1. /\ ghost.real[d] \in Nat /\ bound \in Nat /\ c \in Nat /\ spending[d] \in Nat /\ Cap \in Nat
          /\ Daily \in Nat /\ scan[s].cost \in 0..Cap /\ ghost.lost \in Nat
      BY <1>1, <1>10, JudgeNumbers
    <3>2. Cap * ghost'.lost = IF c \in Counted(s) THEN bound ELSE bound + Cap
      <4>1. Cap * (ghost.lost + 1) = Cap * ghost.lost + Cap BY <3>1
      <4> QED BY <1>4, <4>1
    <3>3. spending[d] <= Daily BY <1>5 DEF Budgeted
    <3>4. CASE d = today
      <4>1. spending[d] + Cap <= Daily BY <1>3, <1>5, <1>9, <3>4 DEF Budgeted
      <4>2. ghost.real[d] <= spending[d] + bound + scan[s].cost BY <1>3, <1>5, <3>4 DEF Budgeted
      <4>3. spending'[d] = spending[d] + c BY <1>11, <3>4
      <4> HIDE DEF bound
      <4>4. CASE c \in Counted(s) BY <1>4, <1>10, <3>1, <3>2, <4>1, <4>2, <4>3, <4>4
      <4>5. CASE c \notin Counted(s) BY <1>4, <1>10, <3>1, <3>2, <4>1, <4>2, <4>3, <4>5
      <4> QED BY <4>4, <4>5
    <3>5. CASE d # today
      <4>1. \A x \in Scans : ~(scan[x].pc = "spend" /\ DayOf(scan[x].now) = d) BY <1>12, <3>5
      <4>2. ghost.real[d] <= spending[d] + bound BY <1>5, <4>1 DEF Budgeted
      <4>3. spending'[d] = spending[d] BY <1>11, <3>5
      <4> HIDE DEF bound
      <4> QED BY <1>4, <3>1, <3>2, <3>3, <4>2, <4>3
    <3> QED BY <3>4, <3>5
  <2> QED BY <1>12, <2>1, <2>2 DEF Budgeted
<1> QED BY <1>8, <1>9, <1>13

LEMMA RecordKeeps ==
  ASSUME JudgeInv, JudgeTyped', ~ghost'.raced, NEW s \in Scans, Succeed(s) \/ JudgeFails(s)
  PROVE  OneCall' /\ NobodyRaced' /\ Budgeted'
<1>1. /\ scan[s].pc = "record" /\ Calling(s) /\ scan' = [scan EXCEPT ![s] = NoScan]
      /\ UNCHANGED <<spending, ghost>>
  BY DEF Succeed, JudgeFails, Stands, Calling, Fail
<1>2. \A x \in Scans : scan[x].pc # "spend" BY <1>1, OnlyCaller DEF Calling
<1>3. Budgeted BY <1>1 DEF JudgeInv
<1>4. \A d \in Days : ghost'.real[d] <= spending[d] + Cap * ghost'.lost BY <1>1, <1>2, <1>3 DEF Budgeted
<1> QED BY <1>1, <1>4, EndKeeps

LEMMA KillKeeps ==
  ASSUME JudgeInv, JudgeTyped', ~ghost'.raced, NEW s \in Scans, KillScan(s)
  PROVE  OneCall' /\ NobodyRaced' /\ Budgeted'
<1>1. JudgeTyped /\ ghost \in Ghost BY DEF JudgeInv, JudgeTyped
<1> DEFINE today == DayOf(scan[s].now)
           counts == scan[s].pc \in {"call", "spend"}
<1>2. PICK cost \in IF Stands(s, "call") THEN 0..Cap ELSE {0} :
        ghost' = [ghost EXCEPT !.real = Spent(s, cost), !.lost = ghost.lost + IF counts THEN 1 ELSE 0]
  BY DEF KillScan
<1>3. /\ scan[s].pc # "idle" /\ scan' = [scan EXCEPT ![s] = NoScan] /\ UNCHANGED <<failure, spending>>
  BY DEF KillScan, Fail
<1>4. /\ ghost'.real = Spent(s, cost) /\ ghost'.unaware = ghost.unaware /\ ghost'.raced = ghost.raced
      /\ ghost'.lost = ghost.lost + IF counts THEN 1 ELSE 0
  BY <1>1, <1>2 DEF Ghost
<1>5. cost \in 0..Cap /\ cost \in Nat /\ (scan[s].pc # "call" => cost = 0) BY <1>2, JudgeAssumption DEF Stands
<1>6. ghost.real \in [Days -> Nat] BY <1>1, GhostMoves
<1>7. /\ ghost'.real \in [Days -> Nat]
      /\ \A d \in Days : ghost'.real[d] = IF d = today THEN ghost.real[d] + cost ELSE ghost.real[d]
  <2>1. Spent(s, cost) = [ghost.real EXCEPT ![today] = ghost.real[today] + cost] BY DEF Spent
  <2>2. ghost'.real = [ghost.real EXCEPT ![today] = ghost.real[today] + cost] BY <1>4, <2>1
  <2>3. cost \in Nat BY <1>5
  <2> HIDE DEF today
  <2>4. /\ [ghost.real EXCEPT ![today] = ghost.real[today] + cost] \in [Days -> Nat]
        /\ \A d \in Days : [ghost.real EXCEPT ![today] = ghost.real[today] + cost][d]
                            = IF d = today THEN ghost.real[d] + cost ELSE ghost.real[d]
    BY ONLY <1>6, <2>3, SumGrows
  <2> QED BY ONLY <2>2, <2>4
<1>8. CASE Calling(s)
  <2>1. ~ghost.raced /\ Budgeted BY <1>4 DEF JudgeInv
  <2>2. \A x \in Scans : scan[x].pc = "spend" => x = s BY <1>8, <2>1, OnlyCaller DEF Calling
  <2>3. ASSUME NEW d \in Days PROVE ghost'.real[d] <= spending[d] + Cap * ghost'.lost
    <3> DEFINE bound == Cap * ghost.lost
    <3>1. /\ ghost.real[d] \in Nat /\ bound \in Nat /\ spending[d] \in Nat /\ Cap \in Nat
          /\ scan[s].cost \in 0..Cap /\ ghost.lost \in Nat
      BY <1>1, JudgeNumbers
    <3>2. Cap * ghost'.lost = IF counts THEN bound + Cap ELSE bound
      <4>1. Cap * (ghost.lost + 1) = Cap * ghost.lost + Cap /\ Cap * (ghost.lost + 0) = Cap * ghost.lost BY <3>1
      <4> QED BY <1>4, <4>1
    <3>3. ghost.real[d] <= spending[d] + bound + (IF scan[s].pc = "spend" /\ d = today THEN scan[s].cost ELSE 0)
      <4>1. CASE scan[s].pc = "spend" /\ d = today BY <2>1, <4>1 DEF Budgeted
      <4>2. CASE ~(scan[s].pc = "spend" /\ d = today)
        <5>1. \A x \in Scans : ~(scan[x].pc = "spend" /\ DayOf(scan[x].now) = d) BY <2>2, <4>2
        <5>2. ghost.real[d] <= spending[d] + bound BY <2>1, <5>1 DEF Budgeted
        <5> HIDE DEF bound
        <5> QED BY <3>1, <4>2, <5>2
      <4> QED BY <4>1, <4>2
    <3> HIDE DEF bound
    <3>4. CASE scan[s].pc = "call" BY <1>5, <1>7, <3>1, <3>2, <3>3, <3>4
    <3>5. CASE scan[s].pc = "spend" BY <1>5, <1>7, <3>1, <3>2, <3>3, <3>5
    <3>6. CASE scan[s].pc = "record" BY <1>5, <1>7, <3>1, <3>2, <3>3, <3>6
    <3> QED BY <1>8, <3>4, <3>5, <3>6 DEF Calling
  <2> QED BY <1>3, <1>4, <1>8, <2>1, <2>3, EndKeeps
<1>9. CASE ~Calling(s)
  <2>1. cost = 0 /\ ~counts BY <1>5, <1>9 DEF Calling
  <2>2. \A d \in Days : ghost'.real[d] = ghost.real[d] BY <1>6, <1>7, <2>1
  <2>3. ghost'.real = ghost.real BY <1>6, <1>7, <2>2
  <2>4. ghost'.lost = ghost.lost BY <1>1, <1>4, <2>1, JudgeNumbers
  <2> QED BY <1>3, <1>4, <1>9, <2>3, <2>4, NoScanTyped, LookingKeeps
<1> QED BY <1>8, <1>9

\* What the properties rest on survives every step.
LEMMA JudgeKeeps ==
  ASSUME JudgeInv, [JudgeNext]_judgeVars
  PROVE  JudgeInv'
<1>1. CASE UNCHANGED judgeVars
  BY <1>1 DEF judgeVars, JudgeInv, JudgeTyped, JudgeTypeOK, FreeCalls, OneCall, NobodyRaced, Budgeted,
     Calling, Announced
<1>2. CASE JudgeNext
  <2>1. JudgeTyped' /\ FreeCalls' BY <1>2, JudgeTypes, FreeCallsStay DEF JudgeInv
  <2>2. ASSUME ~ghost'.raced PROVE OneCall' /\ NobodyRaced' /\ Budgeted'
    <3>1. ASSUME UNCHANGED <<failure, spending, scan, ghost>> PROVE OneCall' /\ NobodyRaced' /\ Budgeted'
      BY <2>2, <3>1 DEF JudgeInv, OneCall, NobodyRaced, Budgeted, Calling, Announced
    <3> QED
      BY <1>2, <2>1, <2>2, <3>1, LookStepsKeep, BeginKeeps, CallEndsKeeps, AppendSpendKeeps, RecordKeeps,
         KillKeeps DEF JudgeNext, PassHour, Edit, AppendPutAside
  <2> QED BY <2>1, <2>2 DEF JudgeInv
<1> QED BY <1>1, <1>2

LEMMA JudgeInitHolds ==
  ASSUME JudgeInit
  PROVE  JudgeInv
<1> USE JudgeAssumption
<1>1. /\ issue \in [Issues -> 0..MaxTexts] /\ kept \subseteq Keys /\ hour \in 0..MaxHour
      /\ spending \in [Days -> Nat] /\ spending = [d \in Days |-> 0]
  BY DEF JudgeInit
<1>2. scan \in [Scans -> ScanState] /\ \A s \in Scans : scan[s] = NoScan BY NoScanTyped DEF JudgeInit
<1>3. /\ ghost.real = [d \in Days |-> 0] /\ ghost.lost = 0 /\ ghost.unaware = {} /\ ghost \in Ghost
  BY DEF JudgeInit, Ghost
<1>4. \A s \in Scans : scan[s].pc = "idle" BY <1>2, NoScanTyped
<1>5. JudgeTyped BY <1>1, <1>2, <1>3, <1>4 DEF JudgeTyped, JudgeTypeOK
<1>6. FreeCalls /\ OneCall /\ NobodyRaced BY <1>2, <1>4 DEF FreeCalls, OneCall, NobodyRaced, Calling, NoScan
<1>7. Budgeted
  <2>1. \A d \in Days : spending[d] = 0 /\ ghost.real[d] = 0 BY <1>1, <1>3
  <2>2. Cap * ghost.lost = 0 BY <1>3
  <2> QED BY <1>4, <2>1, <2>2 DEF Budgeted
<1> QED BY <1>5, <1>6, <1>7 DEF JudgeInv

\* A day costs no more than its budget and one call for each line that could not be written
\* (tools/work_discovery_goals.py), for any scans, deaths, days and budgets, as long as no
\* scan begins a call when another one began since it started.
THEOREM SpendingStaysBounded == JudgeSpec => []SpendingIsBounded
<1>1. JudgeInv => SpendingIsBounded
  <2> SUFFICES ASSUME JudgeInv, ~ghost.raced, NEW d \in Days
               PROVE  ghost.real[d] <= Daily + Cap * ghost.lost
    BY DEF SpendingIsBounded
  <2>1. JudgeTyped /\ Budgeted /\ OneCall BY DEF JudgeInv
  <2> DEFINE bound == Cap * ghost.lost
  <2>2. /\ ghost.real[d] \in Nat /\ bound \in Nat /\ spending[d] \in Nat /\ Cap \in Nat /\ Daily \in Nat
        /\ \A s \in Scans : scan[s].cost \in 0..Cap
    BY <2>1, JudgeNumbers
  <2>3. spending[d] <= Daily BY <2>1 DEF Budgeted
  <2>4. CASE \A x \in Scans : ~(scan[x].pc = "spend" /\ DayOf(scan[x].now) = d)
    <3>1. ghost.real[d] <= spending[d] + bound BY <2>1, <2>4 DEF Budgeted
    <3> HIDE DEF bound
    <3>2. ghost.real[d] <= Daily + bound BY <2>2, <2>3, <3>1
    <3> QED BY <3>2 DEF bound
  <2>5. ASSUME NEW x \in Scans, scan[x].pc = "spend", DayOf(scan[x].now) = d
        PROVE  ghost.real[d] <= Daily + bound
    <3>1. x \notin ghost.unaware BY <2>5 DEF JudgeInv, NobodyRaced, Calling
    <3>2. spending[d] + Cap <= Daily BY <2>1, <2>5, <3>1 DEF Budgeted
    <3>3. ghost.real[d] <= spending[d] + bound + scan[x].cost BY <2>1, <2>5 DEF Budgeted
    <3> HIDE DEF bound
    <3> QED BY <2>2, <3>2, <3>3
  <2> QED BY <2>4, <2>5
<1> QED BY <1>1, JudgeInitHolds, JudgeKeeps, PTL DEF JudgeSpec

-----------------------------------------------------------------------------
(* WorkDiscovery                                                           *)

TicketType == [open : BOOLEAN, created : 0..MaxNow + 1, blockers : SUBSET Refs]
PullType == [state : {"open", "merged"}, at : 0..MaxNow, closes : SUBSET Tickets]
Issue == [ref : Tickets, created : 0..MaxNow, blockers : SUBSET Refs]
Search == [pc : {"idle", "home_issues", "home_pulls", "home_merges", "other_issues", "rank", "done"},
           issues : SUBSET Issue, open : SUBSET Refs, merges : SUBSET BasePulls, truncated : BOOLEAN,
           proposed : SUBSET Issue, blocked : SUBSET Issue, merged : SUBSET Issue]
Seen == [steady : SUBSET Refs, once : SUBSET Refs, finished : SUBSET Tickets]

\* An it is open only once it was created, and never created in the time to come.
DiscoveryTyped ==
  /\ ticket \in [Tickets -> TicketType] /\ pull \in [Pulls -> PullType]
  /\ now \in 0..MaxNow /\ changes \in 0..MaxChanges
  /\ search \in Search /\ seen \in Seen
  /\ \A i \in Tickets : /\ ticket[i].created <= now \/ ticket[i].created = MaxNow + 1
                        /\ ticket[i].open => ticket[i].created <= now

\* The merge p closes i: a merge into the base branch that is not older than i.
Finishes(p, i) == pull[p].state = "merged" /\ i \in pull[p].closes /\ ticket[i].created <= pull[p].at

\* What the scan has read is true, and as complete as its place says, unless a list was cut short.
Reading ==
  /\ search.pc # "idle" => OpenRefs \subseteq seen.once /\ seen.steady \subseteq OpenRefs
  /\ search.open \subseteq seen.once
  /\ \A it \in search.issues : it.created = ticket[it.ref].created
  /\ \A p \in search.merges : pull[p].state = "merged"
  /\ \A i \in seen.finished : \E p \in BasePulls : Finishes(p, i)

Complete ==
  /\ search.pc \notin {"idle", "home_issues"} => seen.steady \intersect Home \subseteq search.open
  /\ search.pc \notin {"idle", "home_issues", "home_pulls"} => seen.steady \intersect Pulls \subseteq search.open
  /\ search.pc \in {"rank", "done"} => seen.steady \intersect Other \subseteq search.open
  /\ search.pc \in {"other_issues", "rank", "done"} =>
       \A i \in seen.finished : \E p \in search.merges : Finishes(p, i)

\* Nothing is answered before the lists are there.
Answered ==
  search.pc # "done" => search.proposed = {} /\ search.blocked = {} /\ search.merged = {}

DiscoveryInv ==
  DiscoveryTyped /\ Reading /\ (~search.truncated => Complete) /\ Answered /\ ProposalsAreSound

\* The greatest of some numbers.
LEMMA MaxIsGreatest ==
  ASSUME NEW n \in Nat, NEW S \in SUBSET (0..n), S # {}
  PROVE  Max(S) \in S /\ \A m \in S : m <= Max(S)
<1> DEFINE R == OpToRel(<, Nat)
           Bounds == {limit \in Nat : \A m \in S : m <= limit}
<1>1. IsWellFoundedOn(R, Nat) BY NatLessThanWellFounded
<1>2. \A x, y \in Nat : y < x => <<y, x>> \in R BY DEF OpToRel
<1> HIDE DEF R
<1>3. n \in Bounds OBVIOUS
<1>4. PICK k \in Bounds : \A y \in Bounds : <<y, k>> \notin R BY <1>1, <1>3, WFMin
<1>5. k \in S
  <2> SUFFICES ASSUME k \notin S PROVE FALSE OBVIOUS
  <2>1. k # 0
    <3>1. PICK m \in S : TRUE OBVIOUS
    <3> QED BY <3>1
  <2>2. k - 1 \in Bounds
    <3>1. ASSUME NEW m \in S PROVE m <= k - 1
      <4>1. m <= k /\ m # k /\ m \in Nat OBVIOUS
      <4> QED BY <4>1
    <3> QED BY <2>1, <3>1
  <2>3. k \in Nat /\ k - 1 \in Nat /\ k - 1 < k BY <2>2
  <2> QED BY <1>2, <1>4, <2>2, <2>3
<1>6. \A m \in S : m <= k /\ k \in Nat /\ m \in Nat OBVIOUS
<1>7. k \in S /\ \A m \in S : k >= m BY <1>5, <1>6
<1> QED BY <1>7, <1>6 DEF Max

\* A list that is shorter than its limit is whole.
LEMMA ShortListIsWhole ==
  ASSUME NEW S, IsFiniteSet(S), NEW limit \in Nat, NEW l \in SUBSET S,
         Cardinality(l) = Min({limit, Cardinality(S)}), ~(Cardinality(l) >= limit)
  PROVE  l = S
<1>1. Cardinality(S) \in Nat BY FS_CardinalityType
<1>2. Min({limit, Cardinality(S)}) \in {limit, Cardinality(S)}
  <2> DEFINE n == Cardinality(S)
  <2>1. n \in Nat BY <1>1
  <2> HIDE DEF n
  <2>2. \E x \in {limit, n} : \A y \in {limit, n} : x <= y
    <3>1. CASE limit <= n BY <2>1, <3>1
    <3>2. CASE n <= limit BY <2>1, <3>2
    <3> QED BY <2>1, <3>1, <3>2
  <2>3. Min({limit, n}) \in {limit, n} BY <2>2 DEF Min
  <2> QED BY <2>3 DEF n
<1>3. Cardinality(l) = Cardinality(S) BY <1>1, <1>2
<1> QED BY <1>3, FS_Subset

LEMMA DiscoveryFinite ==
  /\ IsFiniteSet(Home) /\ IsFiniteSet(Other) /\ IsFiniteSet(Pulls) /\ IsFiniteSet(BasePulls)
  /\ OpenLimit \in Nat /\ MergeLimit \in Nat /\ MaxNow \in Nat /\ MaxChanges \in Nat
  /\ Home \subseteq Tickets /\ Other \subseteq Tickets /\ BasePulls \subseteq Pulls
  /\ Tickets \subseteq Refs /\ Pulls \subseteq Refs /\ Refs = Tickets \union Pulls /\ Tickets \intersect Pulls = {}
<1>1. /\ Home \in SUBSET Refs /\ Other \in SUBSET Refs /\ Pulls \in SUBSET Refs /\ BasePulls \in SUBSET Refs
  BY DEF Refs, Tickets, Pulls
<1>2. IsFiniteSet(Refs) BY DiscoveryAssumption
<1> QED BY <1>1, <1>2, FS_Subset, DiscoveryAssumption DEF Refs, Tickets, Pulls

LEMMA DiscoveryInitHolds ==
  ASSUME DiscoveryInit
  PROVE  DiscoveryInv
<1> USE DiscoveryFinite
<1>1. ticket \in [Tickets -> TicketType]
  <2>1. [open : BOOLEAN, created : {0, MaxNow + 1}, blockers : {{}}] \subseteq TicketType BY DEF TicketType
  <2> QED BY <2>1 DEF DiscoveryInit
<1>2. pull \in [Pulls -> PullType] BY DEF DiscoveryInit, PullType
<1>3. search = NoSearch /\ search \in Search BY DEF DiscoveryInit, NoSearch, Search
<1>4. seen \in Seen /\ seen.finished = {} /\ seen.once = {} BY DEF DiscoveryInit, Seen
<1>5. \A i \in Tickets : ticket[i].created \in {0, MaxNow + 1} /\ (ticket[i].created > 0 => ~ticket[i].open)
  BY DEF DiscoveryInit
<1>6. now \in 0..MaxNow /\ changes \in 0..MaxChanges /\ now = 0 BY DEF DiscoveryInit
<1>7. DiscoveryTyped
  <2>1. \A i \in Tickets : /\ ticket[i].created <= now \/ ticket[i].created = MaxNow + 1
                           /\ ticket[i].open => ticket[i].created <= now
    BY <1>5, <1>6
  <2> QED BY <1>1, <1>2, <1>3, <1>4, <1>6, <2>1 DEF DiscoveryTyped
<1>8. /\ search.pc = "idle" /\ search.open = {} /\ search.issues = {} /\ search.merges = {}
      /\ search.proposed = {} /\ search.blocked = {} /\ search.merged = {}
  BY <1>3 DEF NoSearch
<1>9. Reading /\ Complete /\ Answered /\ ProposalsAreSound
  BY <1>4, <1>8 DEF Reading, Complete, Answered, ProposalsAreSound
<1> QED BY <1>7, <1>9 DEF DiscoveryInv

\* --------------------------------------------------------------------------
(* GitHub goes on                                                           *)

LEMMA GithubTyped ==
  ASSUME DiscoveryTyped, Github
  PROVE  /\ DiscoveryTyped'
         /\ \A p \in Pulls, i \in Tickets : Finishes(p, i) => Finishes(p, i)'
         /\ \A i \in Tickets : ticket[i].created <= now => ticket'[i].created = ticket[i].created
         /\ \A p \in Pulls : pull[p].state = "merged" => pull'[p] = pull[p]
         /\ search' = search
         /\ seen'.steady = seen.steady \intersect OpenRefs' /\ seen'.once = seen.once \union OpenRefs'
         /\ seen'.finished = seen.finished
<1> USE DiscoveryFinite
<1>1. /\ ticket \in [Tickets -> TicketType] /\ pull \in [Pulls -> PullType] /\ now \in 0..MaxNow
      /\ changes \in 0..MaxChanges /\ search \in Search /\ seen \in Seen
      /\ \A i \in Tickets : ticket[i] \in TicketType /\ ticket[i].created \in Nat
      /\ \A p \in Pulls : pull[p] \in PullType /\ pull[p].at \in 0..MaxNow
  BY DEF DiscoveryTyped, TicketType, PullType
<1>2. /\ changes' = changes + 1 /\ changes < MaxChanges /\ now' = now /\ search' = search
      /\ seen' = [seen EXCEPT !.steady = seen.steady \intersect OpenRefs', !.once = seen.once \union OpenRefs']
  BY DEF Github, Change
<1>3. /\ seen'.steady = seen.steady \intersect OpenRefs' /\ seen'.once = seen.once \union OpenRefs'
      /\ seen'.finished = seen.finished /\ seen' \in Seen
  <2> DEFINE o == OpenRefs'
  <2>1. o \subseteq Refs BY DEF OpenRefs
  <2> HIDE DEF o
  <2>2. seen' = [seen EXCEPT !.steady = seen.steady \intersect o, !.once = seen.once \union o] BY <1>2 DEF o
  <2>3. /\ seen'.steady = seen.steady \intersect o /\ seen'.once = seen.once \union o
        /\ seen'.finished = seen.finished /\ seen' \in Seen
    BY <1>1, <2>1, <2>2 DEF Seen
  <2> QED BY <2>3 DEF o
<1>4. changes' \in 0..MaxChanges BY <1>1, <1>2
\* One it changes.
<1>5. ASSUME NEW i \in Tickets, NEW x \in TicketType, ticket' = [ticket EXCEPT ![i] = x],
             x.created <= now \/ x.created = MaxNow + 1, x.open => x.created <= now,
             ticket[i].created <= now => x.created = ticket[i].created
      PROVE  /\ ticket' \in [Tickets -> TicketType]
             /\ \A j \in Tickets : /\ ticket'[j].created <= now' \/ ticket'[j].created = MaxNow + 1
                                   /\ ticket'[j].open => ticket'[j].created <= now'
             /\ \A j \in Tickets : ticket[j].created <= now => ticket'[j].created = ticket[j].created
  <2>1. ticket' \in [Tickets -> TicketType] /\ ticket'[i] = x /\ \A j \in Tickets : j # i => ticket'[j] = ticket[j]
    BY <1>1, <1>5
  <2>2. \A j \in Tickets : /\ ticket[j].created <= now \/ ticket[j].created = MaxNow + 1
                           /\ ticket[j].open => ticket[j].created <= now
    BY DEF DiscoveryTyped
  <2> QED BY <1>2, <1>5, <2>1, <2>2
<1> DEFINE Moved == /\ ticket' \in [Tickets -> TicketType]
                    /\ \A j \in Tickets : /\ ticket'[j].created <= now' \/ ticket'[j].created = MaxNow + 1
                                          /\ ticket'[j].open => ticket'[j].created <= now'
                    /\ \A j \in Tickets : ticket[j].created <= now => ticket'[j].created = ticket[j].created
           Merges == /\ pull' \in [Pulls -> PullType]
                     /\ \A p \in Pulls : pull[p].state = "merged" => pull'[p] = pull[p]
<1>6. ASSUME NEW i \in Tickets, Create(i) PROVE Moved /\ Merges
  <2> DEFINE x == [ticket[i] EXCEPT !.open = TRUE, !.created = now]
  <2>1. x \in TicketType /\ x.created = now
    <3>1. now \in 0..MaxNow + 1 BY <1>1
    <3> QED BY <1>1, <3>1 DEF TicketType
  <2>2. ticket' = [ticket EXCEPT ![i] = x] /\ pull' = pull /\ ticket[i].created = MaxNow + 1
    BY <1>1, <1>6 DEF Create
  <2> HIDE DEF x
  <2>3. ~(ticket[i].created <= now) /\ x.created <= now BY <1>1, <2>1, <2>2
  <2> QED BY <1>1, <1>5, <2>1, <2>2, <2>3
<1>7. ASSUME NEW i \in Tickets, CloseOrReopen(i) PROVE Moved /\ Merges
  <2> DEFINE x == [ticket[i] EXCEPT !.open = ~ticket[i].open]
  <2>1. (~ticket[i].open) \in BOOLEAN BY Zenon
  <2>2. x \in TicketType /\ x.created = ticket[i].created BY <1>1, <2>1 DEF TicketType
  <2>3. ticket' = [ticket EXCEPT ![i] = x] /\ pull' = pull /\ ticket[i].created <= now
    BY <1>1, <1>7 DEF CloseOrReopen
  <2> HIDE DEF x
  <2> QED BY <1>1, <1>5, <2>2, <2>3
<1>8. ASSUME NEW i \in Tickets, EditText(i) PROVE Moved /\ Merges
  <2>1. PICK r \in Refs : ticket' = [ticket EXCEPT ![i].blockers = ticket[i].blockers \union {r}]
    BY <1>8 DEF EditText
  <2> DEFINE x == [ticket[i] EXCEPT !.blockers = ticket[i].blockers \union {r}]
  <2>2. x \in TicketType /\ x.created = ticket[i].created /\ x.open = ticket[i].open BY <1>1 DEF TicketType
  <2>3. ticket' = [ticket EXCEPT ![i] = x] /\ pull' = pull BY <1>1, <1>8, <2>1 DEF EditText
  <2> HIDE DEF x
  <2> QED BY <1>1, <1>5, <2>2, <2>3 DEF DiscoveryTyped
<1>9. ASSUME NEW p \in Pulls, MergePull(p) PROVE Moved /\ Merges
  <2>1. PICK i \in Tickets :
          /\ pull' = [pull EXCEPT ![p] = [state |-> "merged", at |-> now, closes |-> {i}]]
          /\ ticket' = IF p \in MainPulls THEN [ticket EXCEPT ![i].open = FALSE] ELSE ticket
    BY <1>9 DEF MergePull
  <2>2. pull[p].state = "open" BY <1>9 DEF MergePull
  <2>3. Merges
    <3>1. [state |-> "merged", at |-> now, closes |-> {i}] \in PullType BY <1>1 DEF PullType
    <3> QED BY <1>1, <2>1, <2>2, <3>1
  <2> DEFINE x == [ticket[i] EXCEPT !.open = FALSE]
  <2>4. x \in TicketType /\ x.created = ticket[i].created /\ ~x.open BY <1>1 DEF TicketType
  <2>5. CASE p \in MainPulls
    <3>1. ticket' = [ticket EXCEPT ![i] = x] BY <1>1, <2>1, <2>5
    <3> HIDE DEF x
    <3> QED BY <1>1, <1>5, <2>3, <2>4, <3>1 DEF DiscoveryTyped
  <2>6. CASE p \notin MainPulls BY <1>2, <2>1, <2>3, <2>6 DEF DiscoveryTyped
  <2> QED BY <2>5, <2>6
<1>10. Moved /\ Merges BY <1>6, <1>7, <1>8, <1>9 DEF Github
<1>11. \A p \in Pulls, i \in Tickets : Finishes(p, i) => Finishes(p, i)'
  <2> SUFFICES ASSUME NEW p \in Pulls, NEW i \in Tickets, Finishes(p, i) PROVE Finishes(p, i)' OBVIOUS
  <2>1. pull'[p] = pull[p] BY <1>10 DEF Finishes
  <2>2. ticket[i].created <= pull[p].at /\ pull[p].at <= MaxNow BY <1>1 DEF Finishes
  <2>3. ticket[i].created <= now
    <3>1. ticket[i].created # MaxNow + 1 BY <1>1, <2>2
    <3> QED BY <3>1 DEF DiscoveryTyped
  <2>4. ticket'[i].created = ticket[i].created BY <1>10, <2>3
  <2> QED BY <2>1, <2>4 DEF Finishes
<1> QED BY <1>1, <1>2, <1>3, <1>4, <1>10, <1>11 DEF DiscoveryTyped

\* What only GitHub or the clock has done leaves the scan's answers as sound as they were.
LEMMA WorldKeeps ==
  ASSUME DiscoveryInv, Github \/ PassTime
  PROVE  DiscoveryInv'
<1> USE DiscoveryFinite
<1>0. DiscoveryTyped BY DEF DiscoveryInv
<1>1. /\ search' = search /\ DiscoveryTyped'
      /\ \A p \in Pulls, i \in Tickets : Finishes(p, i) => Finishes(p, i)'
      /\ \A i \in Tickets : ticket[i].created <= now => ticket'[i].created = ticket[i].created
      /\ \A p \in Pulls : pull[p].state = "merged" => pull'[p] = pull[p]
      /\ seen'.steady \subseteq seen.steady /\ seen.once \subseteq seen'.once /\ seen'.finished = seen.finished
      /\ (search.pc # "idle" => OpenRefs' \subseteq seen'.once /\ seen'.steady \subseteq OpenRefs')
  <2>1. CASE Github BY <1>0, <2>1, GithubTyped
  <2>2. CASE PassTime
    <3>1. /\ UNCHANGED <<ticket, pull, changes, search, seen>> /\ now' = now + 1 /\ now < MaxNow
      BY <2>2 DEF PassTime
    <3>2. now' \in 0..MaxNow /\ now \in Nat BY <1>0, <3>1 DEF DiscoveryTyped
    <3>3. \A i \in Tickets : ticket[i].created \in Nat BY <1>0 DEF DiscoveryTyped, TicketType
    <3>4. \A i \in Tickets : /\ ticket'[i].created <= now' \/ ticket'[i].created = MaxNow + 1
                             /\ ticket'[i].open => ticket'[i].created <= now'
      BY <1>0, <3>1, <3>2, <3>3 DEF DiscoveryTyped
    <3>5. DiscoveryTyped' BY <1>0, <3>1, <3>2, <3>4 DEF DiscoveryTyped
    <3>6. OpenRefs' = OpenRefs BY <3>1 DEF OpenRefs, IsOpen
    <3>7. search.pc # "idle" => OpenRefs \subseteq seen.once /\ seen.steady \subseteq OpenRefs
      BY DEF DiscoveryInv, Reading
    <3>8. \A p, i : Finishes(p, i)' = Finishes(p, i) BY <3>1 DEF Finishes
    <3> QED BY <3>1, <3>5, <3>6, <3>7, <3>8
  <2> QED BY <2>1, <2>2
<1>2. search \in Search /\ seen \in Seen BY <1>0 DEF DiscoveryTyped
<1>3. \A it \in search.issues : it.ref \in Tickets /\ it.created \in 0..MaxNow BY <1>2 DEF Search, Issue
<1>4. Reading'
  <2>1. \A it \in search.issues : it.created = ticket'[it.ref].created
    <3> SUFFICES ASSUME NEW it \in search.issues PROVE it.created = ticket'[it.ref].created OBVIOUS
    <3>1. it.created = ticket[it.ref].created BY DEF DiscoveryInv, Reading
    <3>2. ticket[it.ref].created <= now
      <4>1. ticket[it.ref].created # MaxNow + 1 BY <1>3, <3>1
      <4> QED BY <1>0, <1>3, <4>1 DEF DiscoveryTyped
    <3> QED BY <1>1, <1>3, <3>1, <3>2
  <2>2. \A p \in search.merges : pull'[p].state = "merged"
    <3>1. search.merges \subseteq Pulls BY <1>2 DEF Search
    <3> QED BY <1>1, <3>1 DEF DiscoveryInv, Reading
  <2>3. \A i \in seen.finished : \E p \in BasePulls : Finishes(p, i)'
    <3>1. seen.finished \subseteq Tickets BY <1>2 DEF Seen
    <3> QED BY <1>1, <3>1 DEF DiscoveryInv, Reading
  <2>4. search.open \subseteq seen.once BY DEF DiscoveryInv, Reading
  <2> QED BY <1>1, <2>1, <2>2, <2>3, <2>4 DEF Reading
<1>5. ~search.truncated => Complete'
  <2> SUFFICES ASSUME ~search.truncated, Complete PROVE Complete' BY DEF DiscoveryInv
  <2>1. search.merges \subseteq Pulls /\ seen.finished \subseteq Tickets BY <1>2 DEF Search, Seen
  <2>2. search.pc \in {"other_issues", "rank", "done"} =>
          \A i \in seen.finished : \E p \in search.merges : Finishes(p, i)'
    BY <1>1, <2>1 DEF Complete
  <2> QED BY <1>1, <2>2 DEF Complete
<1>6. \A i \in Tickets : Closers(i) # {} => Closers(i)' # {}
  <2> SUFFICES ASSUME NEW i \in Tickets, NEW p \in Closers(i) PROVE p \in Closers(i)' OBVIOUS
  <2>1. p \in BasePulls /\ Finishes(p, i) BY DEF Closers, Finishes
  <2>2. Finishes(p, i)' BY <1>1, <2>1
  <2> QED BY <2>1, <2>2 DEF Closers, Finishes
<1>7. ProposalsAreSound'
  <2>1. /\ search.proposed \subseteq Issue /\ search.blocked \subseteq Issue /\ search.merged \subseteq Issue
    BY <1>2 DEF Search
  <2>2. ProposalsAreSound BY DEF DiscoveryInv
  <2>3. \A it \in search.merged : Closers(it.ref)' # {} BY <1>6, <2>1, <2>2 DEF ProposalsAreSound, Issue
  <2>4. \A it \in search.blocked : it.blockers \intersect seen'.once # {}
    BY <1>1, <2>2 DEF ProposalsAreSound
  <2>5. ASSUME ~search.truncated, NEW it \in search.proposed
        PROVE  /\ it.ref \notin seen'.finished
               /\ \A r \in it.blockers \intersect seen'.steady : r \in Tickets /\ Closers(r)' # {}
    BY <1>1, <1>6, <2>2, <2>5 DEF ProposalsAreSound
  <2> QED BY <1>1, <2>3, <2>4, <2>5 DEF ProposalsAreSound
<1> QED BY <1>1, <1>4, <1>5, <1>7 DEF DiscoveryInv, Answered

\* --------------------------------------------------------------------------
(* The scan                                                                 *)

\* A step of the scan that changes nothing on GitHub and nothing of what was seen since.
LEMMA ScanKeeps ==
  ASSUME DiscoveryInv, UNCHANGED <<ticket, pull, now, changes, seen>>, search' \in Search,
         search.pc # "idle",
         search'.open \subseteq seen.once,
         \A it \in search'.issues : it.created = ticket[it.ref].created,
         \A p \in search'.merges : pull[p].state = "merged"
  PROVE  DiscoveryTyped' /\ Reading'
<1>1. DiscoveryTyped' BY DEF DiscoveryInv, DiscoveryTyped
<1>2. OpenRefs' = OpenRefs /\ \A p, i : Finishes(p, i)' = Finishes(p, i) BY DEF OpenRefs, IsOpen, Finishes
<1>3. Reading' BY <1>2 DEF DiscoveryInv, Reading
<1> QED BY <1>1, <1>3

LEMMA StartSearchKeeps ==
  ASSUME DiscoveryInv, StartSearch
  PROVE  DiscoveryInv'
<1> USE DiscoveryFinite
<1>1. /\ search' = [NoSearch EXCEPT !.pc = "home_issues"] /\ UNCHANGED <<ticket, pull, now, changes>>
      /\ seen' = [steady |-> OpenRefs, once |-> OpenRefs, finished |-> {i \in Tickets : Closers(i) # {}}]
  BY DEF StartSearch
<1>2. /\ search' \in Search /\ search'.pc = "home_issues" /\ search'.open = {} /\ search'.issues = {}
      /\ search'.merges = {} /\ search'.proposed = {} /\ search'.blocked = {} /\ search'.merged = {}
  BY <1>1 DEF NoSearch, Search
<1>3. seen' \in Seen BY <1>1 DEF Seen, OpenRefs
<1>4. OpenRefs' = OpenRefs BY <1>1 DEF OpenRefs, IsOpen
<1>5. \A i \in seen'.finished : \E p \in BasePulls : Finishes(p, i)' BY <1>1 DEF Closers, Finishes
<1>6. DiscoveryTyped' BY <1>1, <1>2, <1>3 DEF DiscoveryInv, DiscoveryTyped
<1>7. seen'.steady = OpenRefs /\ seen'.once = OpenRefs BY <1>1
<1>8. Reading' BY <1>1, <1>2, <1>4, <1>5, <1>7 DEF Reading
<1>9. Complete' /\ Answered' /\ ProposalsAreSound' BY <1>2 DEF Complete, Answered, ProposalsAreSound
<1> QED BY <1>6, <1>8, <1>9 DEF DiscoveryInv

LEMMA FetchIssuesKeeps ==
  ASSUME DiscoveryInv, NEW issues, NEW pc2, NEW next, FetchOpenIssues(issues, pc2, next),
         \/ issues = Home /\ pc2 = "home_issues" /\ next = "home_pulls"
         \/ issues = Other /\ pc2 = "other_issues" /\ next = "rank"
  PROVE  DiscoveryInv'
<1> USE DiscoveryFinite
<1> DEFINE open == {i \in issues : ticket[i].open}
<1>1. PICK l \in SUBSET open :
        /\ Cardinality(l) = Min({OpenLimit, Cardinality(open)})
        /\ search' = [search EXCEPT !.pc = next,
                       !.issues = search.issues \union {[ref |-> i, created |-> ticket[i].created,
                                             blockers |-> ticket[i].blockers] : i \in l},
                       !.open = search.open \union l,
                       !.truncated = search.truncated \/ Cardinality(l) >= OpenLimit]
  BY DEF FetchOpenIssues
<1>2. search.pc = pc2 /\ UNCHANGED <<ticket, pull, now, changes, seen>> BY DEF FetchOpenIssues
<1>3. /\ ticket \in [Tickets -> TicketType] /\ now \in 0..MaxNow /\ search \in Search /\ seen \in Seen
      /\ \A i \in Tickets : ticket[i].open => ticket[i].created <= now
  BY DEF DiscoveryInv, DiscoveryTyped
<1>4. open \subseteq Tickets /\ open \subseteq Refs /\ IsFiniteSet(open)
  <2>1. issues \subseteq Tickets /\ IsFiniteSet(issues) OBVIOUS
  <2> QED BY <2>1, FS_Subset
<1>5. open \subseteq OpenRefs BY <1>4 DEF OpenRefs, IsOpen
<1> DEFINE found == {[ref |-> i, created |-> ticket[i].created, blockers |-> ticket[i].blockers] : i \in l}
           q == search.truncated \/ Cardinality(l) >= OpenLimit
<1>6. found \subseteq Issue
  <2> SUFFICES ASSUME NEW i \in l
               PROVE  [ref |-> i, created |-> ticket[i].created, blockers |-> ticket[i].blockers] \in Issue
    OBVIOUS
  <2>1. i \in Tickets /\ ticket[i].open BY <1>4
  <2>2. ticket[i].created \in 0..MaxNow /\ ticket[i].blockers \in SUBSET Refs BY <1>3, <2>1 DEF TicketType
  <2> QED BY <2>1, <2>2 DEF Issue
<1>7. q \in BOOLEAN BY Zenon
<1>8. \A it \in found : it.created = ticket[it.ref].created OBVIOUS
<1>9. l \subseteq OpenRefs /\ l \subseteq Refs BY <1>4, <1>5
<1>10. search' = [search EXCEPT !.pc = next, !.issues = search.issues \union found,
                    !.open = search.open \union l, !.truncated = q]
  BY <1>1
<1>11. ~q => ~search.truncated /\ l = open
  <2> SUFFICES ASSUME ~q PROVE l = open OBVIOUS
  <2>1. ~(Cardinality(l) >= OpenLimit) OBVIOUS
  <2> HIDE DEF q, open
  <2> QED BY <1>1, <1>4, <2>1, ShortListIsWhole
<1>12. issues \intersect OpenRefs \subseteq open BY DEF OpenRefs, IsOpen
<1> HIDE DEF open, found, q
<1>13. /\ search' \in Search /\ search'.pc = next /\ search'.issues = search.issues \union found
       /\ search'.open = search.open \union l /\ search'.merges = search.merges /\ search'.truncated = q
       /\ search'.proposed = search.proposed /\ search'.blocked = search.blocked /\ search'.merged = search.merged
  BY <1>3, <1>6, <1>7, <1>9, <1>10 DEF Search
<1>14. Reading /\ Answered /\ search.pc \notin {"idle", "done"} BY <1>2 DEF DiscoveryInv
<1>15. DiscoveryTyped' /\ Reading'
  <2>1. search'.open \subseteq seen.once BY <1>9, <1>13, <1>14 DEF Reading
  <2>2. \A it \in search'.issues : it.created = ticket[it.ref].created
    BY <1>8, <1>13, <1>14 DEF Reading
  <2>3. \A p \in search'.merges : pull[p].state = "merged" BY <1>13, <1>14 DEF Reading
  <2> QED BY <1>2, <1>13, <1>14, <2>1, <2>2, <2>3, ScanKeeps
<1>16. ~search'.truncated => Complete'
  <2> SUFFICES ASSUME ~q PROVE Complete' BY <1>13
  <2>1. l = open /\ Complete BY <1>11 DEF DiscoveryInv
  <2>2. seen.steady \intersect issues \subseteq l
    BY <1>12, <1>14, <2>1 DEF Reading
  <2>3. \A p, i : Finishes(p, i)' = Finishes(p, i) BY <1>2 DEF Finishes
  <2>4. CASE issues = Home /\ pc2 = "home_issues" /\ next = "home_pulls"
    BY <1>2, <1>13, <2>1, <2>2, <2>3, <2>4 DEF Complete
  <2>5. CASE issues = Other /\ pc2 = "other_issues" /\ next = "rank"
    BY <1>2, <1>13, <2>1, <2>2, <2>3, <2>5 DEF Complete
  <2> QED BY <2>4, <2>5
<1>17. Answered' /\ ProposalsAreSound'
  BY <1>13, <1>14 DEF Answered, ProposalsAreSound
<1> QED BY <1>15, <1>16, <1>17 DEF DiscoveryInv

LEMMA FetchPullsKeeps ==
  ASSUME DiscoveryInv, FetchOpenPrNumbers
  PROVE  DiscoveryInv'
<1> USE DiscoveryFinite
<1> DEFINE open == {p \in Pulls : pull[p].state = "open"}
<1>1. PICK l \in SUBSET open :
        /\ Cardinality(l) = Min({OpenLimit, Cardinality(open)})
        /\ search' = [search EXCEPT !.pc = "home_merges", !.open = search.open \union l,
                       !.truncated = search.truncated \/ Cardinality(l) >= OpenLimit]
  BY DEF FetchOpenPrNumbers
<1>2. search.pc = "home_pulls" /\ UNCHANGED <<ticket, pull, now, changes, seen>> BY DEF FetchOpenPrNumbers
<1>3. search \in Search /\ seen \in Seen BY DEF DiscoveryInv, DiscoveryTyped
<1>4. open \subseteq Refs /\ IsFiniteSet(open) BY FS_Subset
<1>5. open \subseteq OpenRefs BY <1>4 DEF OpenRefs, IsOpen
<1> DEFINE q == search.truncated \/ Cardinality(l) >= OpenLimit
<1>7. q \in BOOLEAN BY Zenon
<1>9. l \subseteq OpenRefs /\ l \subseteq Refs BY <1>4, <1>5
<1>10. search' = [search EXCEPT !.pc = "home_merges", !.open = search.open \union l, !.truncated = q]
  BY <1>1
<1>11. ~q => ~search.truncated /\ l = open
  <2> SUFFICES ASSUME ~q PROVE l = open OBVIOUS
  <2>1. ~(Cardinality(l) >= OpenLimit) OBVIOUS
  <2> HIDE DEF q, open
  <2> QED BY <1>1, <1>4, <2>1, ShortListIsWhole
<1>12. Pulls \intersect OpenRefs \subseteq open BY DEF OpenRefs, IsOpen
<1> HIDE DEF open, q
<1>13. /\ search' \in Search /\ search'.pc = "home_merges" /\ search'.issues = search.issues
       /\ search'.open = search.open \union l /\ search'.merges = search.merges /\ search'.truncated = q
       /\ search'.proposed = search.proposed /\ search'.blocked = search.blocked /\ search'.merged = search.merged
  BY <1>3, <1>7, <1>9, <1>10 DEF Search
<1>14. Reading /\ Answered /\ search.pc \notin {"idle", "done"} BY <1>2 DEF DiscoveryInv
<1>15. DiscoveryTyped' /\ Reading'
  <2>1. search'.open \subseteq seen.once BY <1>9, <1>13, <1>14 DEF Reading
  <2>2. \A it \in search'.issues : it.created = ticket[it.ref].created
    BY <1>13, <1>14 DEF Reading
  <2>3. \A p \in search'.merges : pull[p].state = "merged" BY <1>13, <1>14 DEF Reading
  <2> QED BY <1>2, <1>13, <1>14, <2>1, <2>2, <2>3, ScanKeeps
<1>16. ~search'.truncated => Complete'
  <2> SUFFICES ASSUME ~q PROVE Complete' BY <1>13
  <2>1. l = open /\ Complete BY <1>11 DEF DiscoveryInv
  <2>2. seen.steady \intersect Pulls \subseteq l BY <1>12, <1>14, <2>1 DEF Reading
  <2> QED BY <1>2, <1>13, <2>1, <2>2 DEF Complete
<1>17. Answered' /\ ProposalsAreSound' BY <1>13, <1>14 DEF Answered, ProposalsAreSound
<1> QED BY <1>15, <1>16, <1>17 DEF DiscoveryInv

LEMMA FetchMergesKeeps ==
  ASSUME DiscoveryInv, FetchBaseBranchMerges
  PROVE  DiscoveryInv'
<1> USE DiscoveryFinite
<1> DEFINE all == {p \in BasePulls : pull[p].state = "merged"}
<1>1. PICK l \in SUBSET all :
        /\ Cardinality(l) = Min({MergeLimit, Cardinality(all)})
        /\ search' = [search EXCEPT !.pc = "other_issues", !.merges = l,
                       !.truncated = search.truncated \/ Cardinality(l) >= MergeLimit]
  BY DEF FetchBaseBranchMerges
<1>2. search.pc = "home_merges" /\ UNCHANGED <<ticket, pull, now, changes, seen>> BY DEF FetchBaseBranchMerges
<1>3. search \in Search /\ seen \in Seen BY DEF DiscoveryInv, DiscoveryTyped
<1>4. IsFiniteSet(all) BY FS_Subset
<1> DEFINE q == search.truncated \/ Cardinality(l) >= MergeLimit
<1>7. q \in BOOLEAN BY Zenon
<1>9. l \subseteq BasePulls /\ \A p \in l : pull[p].state = "merged" OBVIOUS
<1>10. search' = [search EXCEPT !.pc = "other_issues", !.merges = l, !.truncated = q]
  BY <1>1
<1>11. ~q => ~search.truncated /\ l = all
  <2> SUFFICES ASSUME ~q PROVE l = all OBVIOUS
  <2>1. ~(Cardinality(l) >= MergeLimit) OBVIOUS
  <2> HIDE DEF q, all
  <2> QED BY <1>1, <1>4, <2>1, ShortListIsWhole
<1>12. \A p \in BasePulls, i \in Tickets : Finishes(p, i) => p \in all BY DEF Finishes
<1> HIDE DEF all, q
<1>13. /\ search' \in Search /\ search'.pc = "other_issues" /\ search'.issues = search.issues
       /\ search'.open = search.open /\ search'.merges = l /\ search'.truncated = q
       /\ search'.proposed = search.proposed /\ search'.blocked = search.blocked /\ search'.merged = search.merged
  BY <1>3, <1>7, <1>9, <1>10 DEF Search
<1>14. Reading /\ Answered /\ search.pc \notin {"idle", "done"} BY <1>2 DEF DiscoveryInv
<1>15. DiscoveryTyped' /\ Reading'
  <2>1. search'.open \subseteq seen.once BY <1>13, <1>14 DEF Reading
  <2>2. \A it \in search'.issues : it.created = ticket[it.ref].created
    BY <1>13, <1>14 DEF Reading
  <2>3. \A p \in search'.merges : pull[p].state = "merged" BY <1>9, <1>13
  <2> QED BY <1>2, <1>13, <1>14, <2>1, <2>2, <2>3, ScanKeeps
<1>16. ~search'.truncated => Complete'
  <2> SUFFICES ASSUME ~q PROVE Complete' BY <1>13
  <2>1. l = all /\ Complete BY <1>11 DEF DiscoveryInv
  <2>2. \A p, i : Finishes(p, i)' = Finishes(p, i) BY <1>2 DEF Finishes
  <2>3. seen.finished \subseteq Tickets BY <1>3 DEF Seen
  <2>4. \A i \in seen.finished : \E p \in l : Finishes(p, i) BY <1>12, <1>14, <2>1, <2>3 DEF Reading
  <2> QED BY <1>2, <1>13, <2>1, <2>2, <2>4 DEF Complete
<1>17. Answered' /\ ProposalsAreSound' BY <1>13, <1>14 DEF Answered, ProposalsAreSound
<1> QED BY <1>15, <1>16, <1>17 DEF DiscoveryInv

\* An it is left out as finished exactly when a merge that was read finishes it.
LEMMA ClosedIsFinished ==
  ASSUME DiscoveryInv, NEW it \in search.issues
  PROVE  ClosedByBaseMerge(it) <=> \E p \in search.merges : Finishes(p, it.ref)
<1> USE DiscoveryFinite
<1> DEFINE closing == {p \in search.merges : it.ref \in pull[p].closes}
           times == {pull[p].at : p \in closing}
<1>1. /\ search \in Search /\ pull \in [Pulls -> PullType] BY DEF DiscoveryInv, DiscoveryTyped
<1>2. closing \subseteq Pulls BY <1>1 DEF Search
<1>3. times \in SUBSET (0..MaxNow) BY <1>1, <1>2 DEF PullType
<1>4. /\ it.created = ticket[it.ref].created /\ \A p \in closing : pull[p].state = "merged"
  BY DEF DiscoveryInv, Reading
<1>5. it.created \in Nat /\ MaxNow \in Nat BY <1>1 DEF Search, Issue
<1>6. ClosedByBaseMerge(it) <=> closing # {} /\ it.created <= Max(times) BY DEF ClosedByBaseMerge
<1>7. closing # {} => Max(times) \in times /\ \A m \in times : m <= Max(times)
  <2>1. closing # {} => times # {} OBVIOUS
  <2> HIDE DEF times, closing
  <2> QED BY <1>3, <1>5, <2>1, MaxIsGreatest
<1>8. ASSUME ClosedByBaseMerge(it) PROVE \E p \in search.merges : Finishes(p, it.ref)
  <2>1. PICK p \in closing : pull[p].at = Max(times) BY <1>6, <1>7, <1>8
  <2> HIDE DEF times
  <2>2. it.created <= pull[p].at BY <1>6, <1>8, <2>1
  <2> QED BY <1>4, <2>2 DEF Finishes
<1>9. ASSUME NEW p \in search.merges, Finishes(p, it.ref) PROVE ClosedByBaseMerge(it)
  <2>1. p \in closing /\ it.created <= pull[p].at BY <1>4, <1>9 DEF Finishes
  <2>2. pull[p].at \in times BY <2>1
  <2>3. pull[p].at <= Max(times) /\ pull[p].at \in Nat /\ Max(times) \in Nat BY <1>3, <1>7, <2>1, <2>2
  <2> HIDE DEF times
  <2> QED BY <1>5, <1>6, <2>1, <2>3
<1> QED BY <1>8, <1>9

LEMMA RankKeeps ==
  ASSUME DiscoveryInv, ScanRepos
  PROVE  DiscoveryInv'
<1> USE DiscoveryFinite
<1> DEFINE done == {it \in search.issues : ClosedByBaseMerge(it)}
           open == search.open \ {it.ref : it \in done}
           blocked == {it \in search.issues \ done : it.blockers \intersect open # {}}
<1>1. /\ search.pc = "rank" /\ UNCHANGED <<ticket, pull, now, changes, seen>>
      /\ search' = [search EXCEPT !.pc = "done", !.merged = done, !.blocked = blocked,
                                 !.proposed = search.issues \ (done \union blocked)]
  BY DEF ScanRepos
<1>2. search \in Search /\ seen \in Seen BY DEF DiscoveryInv, DiscoveryTyped
<1>3. done \subseteq search.issues /\ blocked \subseteq search.issues OBVIOUS
<1>4. search.issues \subseteq Issue /\ search.merges \subseteq BasePulls BY <1>2 DEF Search
<1>5. \A it \in done : it.ref \in Tickets /\ Closers(it.ref) # {}
  <2> SUFFICES ASSUME NEW it \in done PROVE it.ref \in Tickets /\ Closers(it.ref) # {} OBVIOUS
  <2>1. PICK p \in search.merges : Finishes(p, it.ref) BY ClosedIsFinished
  <2> QED BY <1>4, <2>1 DEF Closers, Finishes, Issue
<1>6. \A it \in blocked : it.blockers \intersect seen.once # {} BY DEF DiscoveryInv, Reading
<1>7. ASSUME ~search.truncated, NEW it \in search.issues \ (done \union blocked)
      PROVE  /\ it.ref \notin seen.finished
             /\ \A r \in it.blockers \intersect seen.steady : r \in Tickets /\ Closers(r) # {}
  <2>1. Complete BY <1>7 DEF DiscoveryInv
  <2>2. it.ref \notin seen.finished
    <3> SUFFICES ASSUME it.ref \in seen.finished PROVE FALSE OBVIOUS
    <3>1. \E p \in search.merges : Finishes(p, it.ref) BY <1>1, <2>1 DEF Complete
    <3>2. ClosedByBaseMerge(it) BY <3>1, ClosedIsFinished
    <3> QED BY <1>7, <3>2
  <2>3. ASSUME NEW r \in it.blockers \intersect seen.steady PROVE r \in Tickets /\ Closers(r) # {}
    <3>1. r \in search.open
      <4>1. r \in Home \/ r \in Other \/ r \in Pulls BY <1>2 DEF Seen, Refs, Tickets
      <4> QED BY <1>1, <2>1, <4>1 DEF Complete
    <3>2. r \notin open BY <1>7
    <3>3. PICK other \in done : r = other.ref BY <3>1, <3>2
    <3> QED BY <1>5, <3>3
  <2> QED BY <2>2, <2>3
<1> HIDE DEF done, open, blocked
<1>8. /\ search' \in Search /\ search'.pc = "done" /\ search'.issues = search.issues
      /\ search'.open = search.open /\ search'.merges = search.merges /\ search'.truncated = search.truncated
      /\ search'.proposed = search.issues \ (done \union blocked) /\ search'.blocked = blocked
      /\ search'.merged = done
  BY <1>1, <1>2, <1>3, <1>4 DEF Search
<1>9. DiscoveryTyped' /\ Reading' BY <1>1, <1>8, ScanKeeps DEF DiscoveryInv, Reading
<1>10. ~search.truncated => Complete'
  <2>1. \A p, i : Finishes(p, i)' = Finishes(p, i) BY <1>1 DEF Finishes
  <2> QED BY <1>1, <1>8, <2>1 DEF DiscoveryInv, Complete
<1>11. Answered' BY <1>8 DEF Answered
<1>12. ProposalsAreSound'
  <2>1. \A i : Closers(i)' = Closers(i) BY <1>1 DEF Closers
  <2> QED BY <1>1, <1>5, <1>6, <1>7, <1>8, <2>1 DEF ProposalsAreSound
<1> QED BY <1>8, <1>9, <1>10, <1>11, <1>12 DEF DiscoveryInv

LEMMA DiscoveryKeeps == DiscoveryInv /\ [DiscoveryNext]_discoveryVars => DiscoveryInv'
<1> SUFFICES ASSUME DiscoveryInv, [DiscoveryNext]_discoveryVars PROVE DiscoveryInv' OBVIOUS
<1>1. CASE UNCHANGED discoveryVars
  <2>1. OpenRefs' = OpenRefs BY <1>1 DEF OpenRefs, IsOpen, discoveryVars
  <2>2. \A p, i : Finishes(p, i)' = Finishes(p, i) BY <1>1 DEF Finishes, discoveryVars
  <2>3. \A i : Closers(i)' = Closers(i) BY <1>1 DEF Closers, discoveryVars
  <2> QED BY <1>1, <2>1, <2>2, <2>3
    DEF discoveryVars, DiscoveryInv, DiscoveryTyped, Reading, Complete, Answered, ProposalsAreSound
<1>2. CASE DiscoveryNext
  BY <1>2, WorldKeeps, StartSearchKeeps, FetchIssuesKeeps, FetchPullsKeeps, FetchMergesKeeps, RankKeeps
     DEF DiscoveryNext
<1> QED BY <1>1, <1>2

\* A scan whose lists were not cut short (tools/work_discovery_scan.py) proposes nothing that
\* stayed blocked throughout it or was finished before it, and leaves nothing out for what was
\* open at no moment of it: for any issues, repositories, merges and failures.
THEOREM ProposalsStaySound == DiscoverySpec => []ProposalsAreSound
<1>1. DiscoveryInv => ProposalsAreSound BY DEF DiscoveryInv
<1> QED BY <1>1, DiscoveryInitHolds, DiscoveryKeeps, PTL DEF DiscoverySpec

-----------------------------------------------------------------------------
(* CandidateRanking                                                        *)

\* Every set of numbers has a least one, and CHOOSE finds it.
LEMMA LeastExists ==
  ASSUME NEW S, S \subseteq Nat, S # {}
  PROVE  \E k \in S : \A m \in S : k <= m
<1> DEFINE R == OpToRel(<, Nat)
<1>1. IsWellFoundedOn(R, Nat) BY NatLessThanWellFounded
<1>2. \A x, y \in Nat : y < x => <<y, x>> \in R BY DEF OpToRel
<1> HIDE DEF R
<1>3. PICK k \in S : \A y \in S : <<y, k>> \notin R BY <1>1, WFMin
<1>4. ASSUME NEW m \in S PROVE k <= m
  <2>1. k \in Nat /\ m \in Nat OBVIOUS
  <2>2. ~(m < k) BY <1>2, <1>3, <2>1
  <2> QED BY <2>1, <2>2
<1> QED BY <1>4

LEMMA MinIsLeast ==
  ASSUME NEW S, S \subseteq Nat, S # {}
  PROVE  Min(S) \in S /\ Min(S) \in Nat /\ \A m \in S : Min(S) <= m
<1>1. \E k \in S : \A m \in S : k <= m BY LeastExists
<1>2. Min(S) \in S /\ \A m \in S : Min(S) <= m BY <1>1 DEF Min
<1> QED BY <1>2

\* Keys of one length are compared by the first place in which they differ.
LEMMA LessIsAnOrder ==
  ASSUME NEW n \in Nat
  PROVE  /\ \A f \in [1..n -> Int] : ~Less(f, f)
         /\ \A f, g, h \in [1..n -> Int] : Less(f, g) /\ Less(g, h) => Less(f, h)
         /\ \A f, g \in [1..n -> Int] : f # g => Less(f, g) \/ Less(g, f)
<1>1. \A f \in [1..n -> Int] : ~Less(f, f) BY DEF Less
<1>2. ASSUME NEW f \in [1..n -> Int], NEW g \in [1..n -> Int], NEW h \in [1..n -> Int],
             Less(f, g), Less(g, h)
      PROVE  Less(f, h)
  <2>1. PICK k \in 1..n : f[k] < g[k] /\ \A j \in 1..(k - 1) : f[j] = g[j] BY <1>2 DEF Less
  <2>2. PICK l \in 1..n : g[l] < h[l] /\ \A j \in 1..(l - 1) : g[j] = h[j] BY <1>2 DEF Less
  <2>3. CASE k < l
    <3>1. f[k] < h[k] BY <2>1, <2>2, <2>3
    <3>2. \A j \in 1..(k - 1) : f[j] = h[j] BY <2>1, <2>2, <2>3
    <3> QED BY <3>1, <3>2 DEF Less
  <2>4. CASE l < k
    <3>1. f[l] < h[l] BY <2>1, <2>2, <2>4
    <3>2. \A j \in 1..(l - 1) : f[j] = h[j] BY <2>1, <2>2, <2>4
    <3> QED BY <3>1, <3>2 DEF Less
  <2>5. CASE l = k
    <3>1. f[k] < h[k]
      <4>1. f[k] \in Int /\ g[k] \in Int /\ h[k] \in Int OBVIOUS
      <4>2. f[k] < g[k] /\ g[k] < h[k] BY <2>1, <2>2, <2>5
      <4> QED BY <4>1, <4>2
    <3>2. \A j \in 1..(k - 1) : f[j] = h[j] BY <2>1, <2>2, <2>5
    <3> QED BY <3>1, <3>2 DEF Less
  <2> QED BY <2>3, <2>4, <2>5
<1>3. ASSUME NEW f \in [1..n -> Int], NEW g \in [1..n -> Int], f # g
      PROVE  Less(f, g) \/ Less(g, f)
  <2> DEFINE differ == {k \in 1..n : f[k] # g[k]}
  <2>1. differ # {} /\ differ \subseteq Nat BY <1>3
  <2>2. PICK k \in differ : \A m \in differ : k <= m BY <2>1, LeastExists
  <2>3. k \in 1..n /\ f[k] # g[k] /\ f[k] \in Int /\ g[k] \in Int BY <2>2
  <2>4. \A j \in 1..(k - 1) : f[j] = g[j]
    <3> SUFFICES ASSUME NEW j \in 1..(k - 1), f[j] # g[j] PROVE FALSE OBVIOUS
    <3>1. j \in 1..n /\ j < k BY <2>3
    <3>2. j \in differ BY <3>1
    <3>3. k <= j BY <2>2, <3>2
    <3> QED BY <2>3, <3>1, <3>3
  <2>5. \A j \in 1..(k - 1) : g[j] = f[j] BY <2>4
  <2>6. CASE f[k] < g[k] BY <2>3, <2>4, <2>6 DEF Less
  <2>7. CASE g[k] < f[k] BY <2>3, <2>5, <2>7 DEF Less
  <2> QED BY <2>3, <2>6, <2>7
<1> QED BY <1>1, <1>2, <1>3

\* Elements with keys of one length, no two alike.
Keyed(S, n, key) ==
  /\ IsFiniteSet(S) /\ n \in Nat /\ key \in [S -> [1..n -> Int]]
  /\ \A x, y \in S : key[x] = key[y] => x = y

\* There is an order of them: each at the place of the number of those before it.
LEMMA OrderExists ==
  ASSUME NEW S, NEW n, NEW key, Keyed(S, n, key)
  PROVE  \E s \in [1..Cardinality(S) -> S] :
           \A k, l \in DOMAIN s : k < l => Less(key[s[k]], key[s[l]])
<1> DEFINE size == Cardinality(S)
           before(x) == {y \in S : Less(key[y], key[x])}
           place == [x \in S |-> Cardinality(before(x)) + 1]
<1>1. /\ IsFiniteSet(S) /\ n \in Nat /\ key \in [S -> [1..n -> Int]]
      /\ \A x, y \in S : key[x] = key[y] => x = y
  BY DEF Keyed
<1>2. size \in Nat BY <1>1, FS_CardinalityType
<1>3. ASSUME NEW x \in S
      PROVE  /\ IsFiniteSet(before(x)) /\ Cardinality(before(x)) \in Nat
             /\ Cardinality(before(x)) + 1 \in 1..size
  <2>1. x \notin before(x) BY <1>1, LessIsAnOrder
  <2>2. before(x) \in SUBSET (S \ {x}) BY <2>1
  <2>3. IsFiniteSet(S \ {x}) /\ Cardinality(S \ {x}) = size - 1 BY <1>1, FS_RemoveElement
  <2> HIDE DEF before, size
  <2>4. IsFiniteSet(before(x)) /\ Cardinality(before(x)) <= size - 1 BY <2>2, <2>3, FS_Subset
  <2>5. Cardinality(before(x)) \in Nat BY <2>4, FS_CardinalityType
  <2> QED BY <1>2, <2>4, <2>5
<1>4. ASSUME NEW x \in S, NEW y \in S, Less(key[x], key[y])
      PROVE  Cardinality(before(x)) < Cardinality(before(y))
  <2>1. key[x] \in [1..n -> Int] /\ key[y] \in [1..n -> Int] BY <1>1
  <2>2. before(x) \in SUBSET before(y)
    <3> SUFFICES ASSUME NEW z \in S, Less(key[z], key[x]) PROVE Less(key[z], key[y]) OBVIOUS
    <3>1. key[z] \in [1..n -> Int] BY <1>1
    <3> QED BY <1>1, <1>4, <2>1, <3>1, LessIsAnOrder
  <2>3. x \in before(y) /\ x \notin before(x) BY <1>1, <1>4, <2>1, LessIsAnOrder
  <2>4. IsFiniteSet(before(y)) /\ Cardinality(before(x)) \in Nat /\ Cardinality(before(y)) \in Nat
    BY <1>3
  <2> DEFINE P == before(x)
             Q == before(y)
  <2>5. IsFiniteSet(Q) /\ P \in SUBSET Q /\ P # Q /\ Cardinality(P) \in Nat /\ Cardinality(Q) \in Nat
    BY <2>2, <2>3, <2>4
  <2> HIDE DEF P, Q
  <2>6. Cardinality(P) <= Cardinality(Q) /\ Cardinality(P) # Cardinality(Q) BY <2>5, FS_Subset
  <2>7. Cardinality(P) < Cardinality(Q) BY <2>5, <2>6
  <2> QED BY <2>7 DEF P, Q
<1> HIDE DEF before, size
<1>5. place \in [S -> 1..size] BY <1>3
<1>6. \A x, y \in S : Less(key[x], key[y]) => place[x] < place[y] BY <1>3, <1>4
<1> HIDE DEF place
<1>7. \A x, y \in S : x # y => place[x] # place[y]
  <2> SUFFICES ASSUME NEW x \in S, NEW y \in S, x # y PROVE place[x] # place[y] OBVIOUS
  <2>1. key[x] \in [1..n -> Int] /\ key[y] \in [1..n -> Int] /\ key[x] # key[y] BY <1>1
  <2>2. Less(key[x], key[y]) \/ Less(key[y], key[x]) BY <1>1, <2>1, LessIsAnOrder
  <2>3. place[x] \in 1..size /\ place[y] \in 1..size BY <1>5
  <2> QED BY <1>2, <1>6, <2>2, <2>3
<1>8. place \in Surjection(S, 1..size)
  <2>1. place \in Injection(S, 1..size) BY <1>5, <1>7 DEF Injection, IsInjective
  <2>2. IsFiniteSet(1..size) /\ Cardinality(1..size) = size
    <3>1. 1 \in Int /\ size \in Int BY <1>2
    <3>2. IsFiniteSet(1..size) /\ Cardinality(1..size) = IF 1 > size THEN 0 ELSE size - 1 + 1
      BY <3>1, FS_Interval
    <3> QED BY <1>2, <3>2
  <2> QED BY <2>1, <2>2, FS_Injection DEF size
<1> DEFINE s == [k \in 1..size |-> CHOOSE x \in S : place[x] = k]
<1>9. \A k \in 1..size : s[k] \in S /\ place[s[k]] = k BY <1>8 DEF Surjection
<1>10. s \in [1..size -> S] BY <1>9
<1> HIDE DEF s
<1>11. ASSUME NEW k \in 1..size, NEW l \in 1..size, k < l PROVE Less(key[s[k]], key[s[l]])
  <2>1. s[k] \in S /\ s[l] \in S /\ place[s[k]] = k /\ place[s[l]] = l BY <1>9
  <2>2. k \in Nat /\ l \in Nat /\ s[k] # s[l] BY <1>11, <2>1
  <2>3. key[s[k]] \in [1..n -> Int] /\ key[s[l]] \in [1..n -> Int] /\ key[s[k]] # key[s[l]]
    BY <1>1, <2>1, <2>2
  <2>4. Less(key[s[k]], key[s[l]]) \/ Less(key[s[l]], key[s[k]]) BY <1>1, <2>3, LessIsAnOrder
  <2>5. ~Less(key[s[l]], key[s[k]]) BY <1>6, <1>11, <2>1, <2>2
  <2> QED BY <2>4, <2>5
<1> QED BY <1>10, <1>11 DEF size

LEMMA InOrderIs ==
  ASSUME NEW S, NEW n, NEW key, Keyed(S, n, key)
  PROVE  /\ InOrder(S, key) \in [1..Cardinality(S) -> S] /\ Cardinality(S) \in Nat
         /\ \A k, l \in 1..Cardinality(S) :
              k < l => Less(key[InOrder(S, key)[k]], key[InOrder(S, key)[l]])
         /\ IsInjective(InOrder(S, key)) /\ ToSet(InOrder(S, key)) = S
<1> DEFINE size == Cardinality(S)
           s == InOrder(S, key)
<1>1. IsFiniteSet(S) /\ n \in Nat /\ key \in [S -> [1..n -> Int]] BY DEF Keyed
<1>2. size \in Nat BY <1>1, FS_CardinalityType
<1>3. s \in [1..size -> S] /\ \A k, l \in DOMAIN s : k < l => Less(key[s[k]], key[s[l]])
  BY OrderExists DEF InOrder
<1> HIDE DEF size, s
<1>4. \A k, l \in 1..size : k < l => Less(key[s[k]], key[s[l]]) BY <1>3
<1>5. \A k, l \in 1..size : k < l => s[k] # s[l]
  <2> SUFFICES ASSUME NEW k \in 1..size, NEW l \in 1..size, k < l, s[k] = s[l] PROVE FALSE OBVIOUS
  <2>1. key[s[k]] \in [1..n -> Int] BY <1>1, <1>3
  <2>2. Less(key[s[k]], key[s[k]]) BY <1>4
  <2> QED BY <1>1, <2>1, <2>2, LessIsAnOrder
<1>6. \A k, l \in 1..size : s[k] = s[l] => k = l
  <2> SUFFICES ASSUME NEW k \in 1..size, NEW l \in 1..size, k # l PROVE s[k] # s[l] OBVIOUS
  <2>1. k < l \/ l < k BY <1>2
  <2> QED BY <1>5, <2>1
<1>7. IsInjective(s) BY <1>3, <1>6 DEF IsInjective
<1>8. ToSet(s) = S
  <2>1. s \in Injection(1..size, S) BY <1>3, <1>7 DEF Injection
  <2>2. Cardinality(1..size) = size
    <3>1. 1 \in Int /\ size \in Int BY <1>2
    <3>2. Cardinality(1..size) = IF 1 > size THEN 0 ELSE size - 1 + 1 BY <3>1, FS_Interval
    <3> QED BY <1>2, <3>2
  <2>3. s \in Surjection(1..size, S) BY <1>1, <2>1, <2>2, FS_Injection DEF size
  <2> QED BY <1>3, <2>3 DEF Surjection, ToSet
<1> QED BY <1>2, <1>3, <1>4, <1>7, <1>8 DEF size, s

\* Where an element of a sequence without repetitions stands.
LEMMA PlaceIs ==
  ASSUME NEW S, NEW size \in Nat, NEW s \in [1..size -> S], IsInjective(s), NEW p \in 1..size
  PROVE  PlaceOf(s, s[p]) = p
<1> DEFINE I == {i \in 1..Len(s) : s[i] = s[p]}
<1>1. Len(s) = size
  <2>1. s \in Seq(S) BY SeqDef
  <2> QED BY <2>1, LenProperties
<1>2. I = {p} BY <1>1 DEF IsInjective
<1>3. Min(I) = p
  <2>1. p \in Nat BY <1>1
  <2>2. \A x \in {p} : x = p OBVIOUS
  <2>3. {p} \subseteq Nat /\ {p} # {} BY <2>1
  <2>4. Min({p}) \in {p} BY <2>3, MinIsLeast
  <2> QED BY <1>2, <2>2, <2>4
<1>4. I # {} BY <1>2
<1> QED BY <1>3, <1>4 DEF PlaceOf, SelectInSeq

\* To be ahead in an ordered report is to have the smaller key.
LEMMA AheadIsLess ==
  ASSUME NEW S, NEW n, NEW key, Keyed(S, n, key), NEW r, r.ordered = InOrder(S, key), NEW i, NEW j,
         Ahead(r, i, j)
  PROVE  i \in S /\ j \in S /\ Less(key[i], key[j])
<1> DEFINE size == Cardinality(S)
           s == InOrder(S, key)
<1>1. /\ size \in Nat /\ s \in [1..size -> S] /\ IsInjective(s) /\ ToSet(s) = S
      /\ \A k, l \in 1..size : k < l => Less(key[s[k]], key[s[l]])
  BY InOrderIs
<1>2. r.ordered = s OBVIOUS
<1> HIDE DEF size, s
<1>3. i \in S /\ j \in S BY <1>1, <1>2 DEF Ahead
<1>4. PICK k \in 1..size, l \in 1..size : s[k] = i /\ s[l] = j BY <1>1, <1>3 DEF ToSet
<1>5. PlaceOf(s, i) = k BY <1>1, <1>4, PlaceIs
<1>6. PlaceOf(s, j) = l BY <1>1, <1>4, PlaceIs
<1>7. PlaceOf(s, i) < PlaceOf(s, j) BY <1>2 DEF Ahead
<1>8. k < l BY <1>5, <1>6, <1>7
<1> QED BY <1>1, <1>3, <1>4, <1>8

LabelNames == {"p0", "p1", "p2", "backlog", "XL", "XS", "M", "on-hold"}

EntryRecord == [open : BOOLEAN, labels : LabelLists, body : {"S", "M"}, milestone : BOOLEAN,
          blockers : SUBSET (Listed \union Patches), updated : Nat]

\* The first label of a kind is one of the labels, and of the kind.
LEMMA FirstIs ==
  ASSUME NEW labels \in Seq(LabelNames), NEW meaning
  PROVE  \/ FirstOf(labels, meaning) = 0
         \/ /\ FirstOf(labels, meaning) \in DOMAIN labels /\ FirstOf(labels, meaning) > 0
            /\ labels[FirstOf(labels, meaning)] \in DOMAIN meaning
<1> DEFINE I == {k \in 1..Len(labels) : labels[k] \in DOMAIN meaning}
<1>1. FirstOf(labels, meaning) = IF I # {} THEN Min(I) ELSE 0 BY DEF FirstOf, SelectInSeq
<1>2. CASE I = {} BY <1>1, <1>2
<1>3. CASE I # {}
  <2>1. I \subseteq Nat OBVIOUS
  <2>2. Min(I) \in I BY <1>3, <2>1, MinIsLeast
  <2>3. Min(I) \in 1..Len(labels) /\ labels[Min(I)] \in DOMAIN meaning BY <2>2
  <2> QED BY <1>1, <1>3, <2>3
<1> QED BY <1>2, <1>3

LEMMA LabelsListed == LabelLists \subseteq Seq(LabelNames)
<1>1. ASSUME NEW T, NEW x \in T, NEW y \in T, NEW z \in T
      PROVE  << >> \in Seq(T) /\ <<x>> \in Seq(T) /\ <<x, y, z>> \in Seq(T)
  OBVIOUS
<1>2. "p0" \in LabelNames /\ "p1" \in LabelNames /\ "backlog" \in LabelNames
      /\ "XL" \in LabelNames /\ "on-hold" \in LabelNames
  BY DEF LabelNames
<1> HIDE DEF LabelNames
<1>3. << >> \in Seq(LabelNames) /\ <<"p0">> \in Seq(LabelNames) /\ <<"backlog">> \in Seq(LabelNames)
  BY <1>1, <1>2, Zenon
<1>4. <<"backlog", "p1", "p0">> \in Seq(LabelNames) BY <1>1, <1>2, Zenon
<1>5. <<"XL">> \in Seq(LabelNames) /\ <<"on-hold">> \in Seq(LabelNames) BY <1>1, <1>2, Zenon
<1> QED BY <1>3, <1>4, <1>5 DEF LabelLists

LEMMA AxesTyped ==
  ASSUME NEW i \in Listed, entry[i] \in EntryRecord
  PROVE  /\ PriorityRank[ComputePriority(i)] \in Int /\ EffortRank[EstimateEffort(i)] \in Int
<1>1. entry[i].labels \in Seq(LabelNames) /\ entry[i].body \in {"S", "M"} BY LabelsListed DEF EntryRecord
<1> DEFINE labels == entry[i].labels
           k == FirstOf(labels, PriorityLabel)
           l == FirstOf(labels, SizeLabel)
<1>2. k = 0 \/ (k > 0 /\ labels[k] \in {"p0", "p1", "p2"}) BY <1>1, FirstIs DEF PriorityLabel
<1>3. l = 0 \/ (l > 0 /\ labels[l] \in {"XS", "M", "XL"}) BY <1>1, FirstIs DEF SizeLabel
<1>4. /\ ComputePriority(i) = CASE k > 0 -> PriorityLabel[labels[k]]
                                [] k = 0 /\ Contains(labels, "backlog") -> "low"
                                [] OTHER -> "medium"
      /\ EstimateEffort(i) = IF l > 0 THEN SizeLabel[labels[l]] ELSE entry[i].body
  BY DEF ComputePriority, EstimateEffort
<1> HIDE DEF k, l, labels
<1>5. \A x \in {"p0", "p1", "p2"} : PriorityLabel[x] \in {"high", "medium", "low"} BY DEF PriorityLabel
<1>6. \A x \in {"XS", "M", "XL"} : SizeLabel[x] \in {"S", "M", "L"} BY DEF SizeLabel
<1>7. ComputePriority(i) \in {"high", "medium", "low"}
  <2>1. CASE k = 0
    <3>1. ~(k > 0) BY <2>1
    <3>2. CASE Contains(labels, "backlog") BY <1>4, <2>1, <3>1, <3>2
    <3>3. CASE ~Contains(labels, "backlog") BY <1>4, <2>1, <3>1, <3>3
    <3> QED BY <3>2, <3>3
  <2>2. CASE k > 0 /\ labels[k] \in {"p0", "p1", "p2"}
    <3>1. k # 0 BY <2>2
    <3>2. ComputePriority(i) = PriorityLabel[labels[k]] BY <1>4, <2>2, <3>1
    <3> QED BY <1>5, <2>2, <3>2
  <2> QED BY <1>2, <2>1, <2>2
<1>8. EstimateEffort(i) \in {"S", "M", "L"}
  <2>1. CASE l = 0 BY <1>1, <1>4, <2>1
  <2>2. CASE l > 0 /\ labels[l] \in {"XS", "M", "XL"} BY <1>4, <1>6, <2>2
  <2> QED BY <1>3, <2>1, <2>2
<1>9. \A x \in {"high", "medium", "low"} : PriorityRank[x] \in Int BY DEF PriorityRank
<1>10. \A x \in {"S", "M", "L"} : EffortRank[x] \in Int BY DEF EffortRank
<1> QED BY <1>7, <1>8, <1>9, <1>10

LEMMA ListedAre ==
  /\ \A i \in Listed : i[1] \in Nat /\ i[2] \in Nat
  /\ \A i, j \in Listed : i[1] = j[1] /\ i[2] = j[2] => i = j
  /\ IsFiniteSet(Listed) /\ TopN \in Nat /\ BatchSize \in Nat /\ MaxEvents \in Nat
<1>1. Listed \subseteq Nat \X Nat BY RankingAssumption
<1> QED BY <1>1, RankingAssumption

\* The key of an issue.
LEMMA KeyTyped ==
  ASSUME NEW i \in Listed, entry[i] \in EntryRecord, NEW free \in Nat
  PROVE  /\ SortKey(i, free) \in [1..8 -> Int]
         /\ SortKey(i, free)[1] = -PriorityRank[ComputePriority(i)]
         /\ SortKey(i, free)[2] = -Is(Unblocked(i, Window))
         /\ SortKey(i, free)[3] = -Is(OpenBlocking(i) = {} /\ free > 0)
         /\ SortKey(i, free)[4] = EffortRank[EstimateEffort(i)]
         /\ SortKey(i, free)[5] = -Is(entry[i].milestone)
         /\ SortKey(i, free)[6] = -entry[i].updated
         /\ SortKey(i, free)[7] = i[1] /\ SortKey(i, free)[8] = i[2]
<1>1. \A x : Is(x) \in Int BY DEF Is
<1> DEFINE k1 == -PriorityRank[ComputePriority(i)]
           k2 == -Is(Unblocked(i, Window))
           k3 == -Is(OpenBlocking(i) = {} /\ free > 0)
           k4 == EffortRank[EstimateEffort(i)]
           k5 == -Is(entry[i].milestone)
           k6 == -entry[i].updated
<1>2. k1 \in Int /\ k4 \in Int BY AxesTyped
<1>3. k2 \in Int /\ k3 \in Int /\ k5 \in Int BY <1>1
<1>4. k6 \in Int BY DEF EntryRecord
<1>5. i[1] \in Int /\ i[2] \in Int BY ListedAre
<1>6. SortKey(i, free) = <<k1, k2, k3, k4, k5, k6, i[1], i[2]>> BY DEF SortKey
<1> HIDE DEF k1, k2, k3, k4, k5, k6
<1>7. <<k1, k2, k3, k4, k5, k6, i[1], i[2]>> \in [1..8 -> Int] BY <1>2, <1>3, <1>4, <1>5
<1> QED BY <1>6, <1>7 DEF k1, k2, k3, k4, k5, k6

LEMMA SixthRemoved ==
  ASSUME NEW T, NEW s \in [1..8 -> T]
  PROVE  /\ RemoveAt(s, 6) \in [1..7 -> T]
         /\ \A k \in 1..5 : RemoveAt(s, 6)[k] = s[k]
         /\ RemoveAt(s, 6)[6] = s[7] /\ RemoveAt(s, 6)[7] = s[8]
<1>1. s \in Seq(T) /\ Len(s) = 8
  <2>1. 8 \in Nat /\ DOMAIN s = 1..8 OBVIOUS
  <2>2. s \in Seq(T) BY <2>1, SeqDef
  <2> QED BY <2>1, <2>2, LenProperties
<1> DEFINE u == SubSeq(s, 1, 5)
           v == SubSeq(s, 7, 8)
<1>2. u \in Seq(T) /\ Len(u) = 5 /\ \A k \in 1..5 : u[k] = s[k] BY <1>1
<1>3. v \in Seq(T) /\ Len(v) = 2 /\ v[1] = s[7] /\ v[2] = s[8] BY <1>1
<1>4. RemoveAt(s, 6) = u \o v BY <1>1 DEF RemoveAt
<1> HIDE DEF u, v
<1> DEFINE w == u \o v
<1>5. /\ w \in Seq(T) /\ Len(w) = Len(u) + Len(v)
      /\ \A i \in 1..Len(u) + Len(v) : w[i] = IF i <= Len(u) THEN u[i] ELSE v[i - Len(u)]
  BY <1>2, <1>3, ConcatProperties
<1> HIDE DEF w
<1>6. Len(w) = 7 /\ \A i \in 1..7 : w[i] = IF i <= 5 THEN u[i] ELSE v[i - 5] BY <1>2, <1>3, <1>5
<1>7. \A k \in 1..5 : w[k] = u[k] BY <1>6
<1>8. w[6] = v[1] /\ w[7] = v[2] BY <1>6
<1>9. w \in [1..7 -> T]
  <2>1. w \in [1..Len(w) -> T] BY <1>5, LenProperties
  <2> QED BY <1>6, <2>1
<1> QED BY <1>2, <1>3, <1>4, <1>7, <1>8, <1>9 DEF w

LEMMA SixthForgotten ==
  ASSUME NEW x1, NEW x2, NEW x3, NEW x4, NEW x5, NEW x6, NEW x7, NEW x8, NEW y6
  PROVE  RemoveAt(<<x1, x2, x3, x4, x5, x6, x7, x8>>, 6)
           = RemoveAt(<<x1, x2, x3, x4, x5, y6, x7, x8>>, 6)
<1> DEFINE T == {x1, x2, x3, x4, x5, x6, x7, x8, y6}
           a == <<x1, x2, x3, x4, x5, x6, x7, x8>>
           b == <<x1, x2, x3, x4, x5, y6, x7, x8>>
<1>1. a \in [1..8 -> T] /\ b \in [1..8 -> T]
  <2>1. /\ x1 \in T /\ x2 \in T /\ x3 \in T /\ x4 \in T /\ x5 \in T /\ x6 \in T /\ x7 \in T /\ x8 \in T
        /\ y6 \in T
    OBVIOUS
  <2> HIDE DEF T
  <2> QED BY <2>1
<1>2. \A k \in {1, 2, 3, 4, 5, 7, 8} : a[k] = b[k] OBVIOUS
<1> HIDE DEF T, a, b
<1> DEFINE c == RemoveAt(a, 6)
           d == RemoveAt(b, 6)
<1>3. c \in [1..7 -> T] /\ d \in [1..7 -> T] BY <1>1, SixthRemoved
<1>4. /\ \A k \in 1..5 : c[k] = a[k] /\ d[k] = b[k]
      /\ c[6] = a[7] /\ c[7] = a[8] /\ d[6] = b[7] /\ d[7] = b[8]
  BY <1>1, SixthRemoved
<1>5. \A k \in 1..7 : c[k] = d[k] BY <1>2, <1>4
<1> HIDE DEF c, d
<1>6. c = d BY <1>3, <1>5
<1> QED BY <1>6 DEF a, b, c, d

EntriesTyped == entry \in [Listed -> EntryRecord] /\ panes \in Nat

LEMMA CandidatesKeyed ==
  ASSUME EntriesTyped
  PROVE  /\ Candidates \subseteq Listed
         /\ Keyed(Candidates, 8, [i \in Candidates |-> SortKey(i, panes)])
         /\ Keyed(Candidates, 7, [i \in Candidates |-> CapKey(i)])
<1>1. Candidates \subseteq Listed BY DEF Candidates, OpenEntries
<1>2. IsFiniteSet(Candidates) BY <1>1, ListedAre, FS_Subset
<1> DEFINE key == [i \in Candidates |-> SortKey(i, panes)]
           cap == [i \in Candidates |-> CapKey(i)]
<1>3. ASSUME NEW i \in Candidates, NEW free \in Nat
      PROVE  /\ SortKey(i, free) \in [1..8 -> Int]
             /\ SortKey(i, free)[7] = i[1] /\ SortKey(i, free)[8] = i[2]
  <2>1. i \in Listed BY <1>1
  <2>2. entry[i] \in EntryRecord BY <2>1 DEF EntriesTyped
  <2> QED BY <2>1, <2>2, KeyTyped
<1>4. ASSUME NEW i \in Candidates
      PROVE  CapKey(i) \in [1..7 -> Int] /\ CapKey(i)[6] = i[1] /\ CapKey(i)[7] = i[2]
  <2>1. /\ SortKey(i, 0) \in [1..8 -> Int]
        /\ SortKey(i, 0)[7] = i[1] /\ SortKey(i, 0)[8] = i[2]
    BY <1>3
  <2> QED BY <2>1, SixthRemoved DEF CapKey
<1>5. panes \in Nat BY DEF EntriesTyped
<1>6. Keyed(Candidates, 8, key)
  <2>1. key \in [Candidates -> [1..8 -> Int]] BY <1>3, <1>5
  <2>2. \A x, y \in Candidates : key[x] = key[y] => x = y
    <3> SUFFICES ASSUME NEW x \in Candidates, NEW y \in Candidates, key[x] = key[y] PROVE x = y OBVIOUS
    <3>1. SortKey(x, panes) = SortKey(y, panes) OBVIOUS
    <3>2. x[1] = y[1] /\ x[2] = y[2] BY <1>3, <1>5, <3>1
    <3> QED BY <1>1, <3>2, ListedAre
  <2> HIDE DEF key
  <2> QED BY <1>2, <2>1, <2>2 DEF Keyed
<1>7. Keyed(Candidates, 7, cap)
  <2>1. cap \in [Candidates -> [1..7 -> Int]] BY <1>4
  <2>2. \A x, y \in Candidates : cap[x] = cap[y] => x = y
    <3> SUFFICES ASSUME NEW x \in Candidates, NEW y \in Candidates, cap[x] = cap[y] PROVE x = y OBVIOUS
    <3>1. CapKey(x) = CapKey(y) OBVIOUS
    <3>2. x[1] = y[1] /\ x[2] = y[2] BY <1>4, <3>1
    <3> QED BY <1>1, <3>2, ListedAre
  <2> HIDE DEF cap
  <2> QED BY <1>2, <2>1, <2>2 DEF Keyed
<1> QED BY <1>1, <1>6, <1>7

\* What the first entries of an order hold.
LEMMA FirstNOf ==
  ASSUME NEW S, NEW size \in Nat, NEW s \in [1..size -> S], NEW n \in Nat
  PROVE  Len(FirstN(s, n)) <= n /\ ToSet(FirstN(s, n)) \subseteq ToSet(s)
<1>1. s \in Seq(S) /\ Len(s) = size
  <2>1. s \in Seq(S) BY SeqDef
  <2> QED BY <2>1, LenProperties
<1> DEFINE m == IF Len(s) < n THEN Len(s) ELSE n
<1>2. m \in Nat /\ m <= size /\ m <= n BY <1>1
<1> HIDE DEF m
<1> DEFINE f == SubSeq(s, 1, m)
<1>3. \A k \in 1..m : s[k] \in S BY <1>2
<1>4. /\ f \in Seq(S) /\ Len(f) = (IF 1 <= m THEN m - 1 + 1 ELSE 0)
      /\ \A k \in 1..(m - 1 + 1) : f[k] = s[1 + k - 1]
  BY <1>2, <1>3, SubSeqProperties
<1>5. FirstN(s, n) = f BY DEF FirstN, m
<1> HIDE DEF f
<1>6. Len(f) = m BY <1>2, <1>4
<1>7. DOMAIN f = 1..m BY <1>4, <1>6, LenProperties
<1>8. \A k \in 1..m : f[k] = s[k] BY <1>2, <1>4
<1>9. ToSet(f) \subseteq ToSet(s)
  <2> SUFFICES ASSUME NEW k \in 1..m PROVE f[k] \in ToSet(s) BY <1>7 DEF ToSet
  <2>1. k \in 1..size BY <1>2
  <2> QED BY <1>8, <2>1 DEF ToSet
<1> QED BY <1>2, <1>5, <1>6, <1>9

\* What a scan answers.
LEMMA ScanAnswers ==
  ASSUME EntriesTyped
  PROVE  /\ IsInjective(RankCandidates) /\ ToSet(RankCandidates) = Candidates
         /\ Len(FirstN(RankCandidates, TopN)) <= TopN
         /\ ToSet(FirstN(Batched, BatchSize)) \subseteq Candidates
<1> DEFINE key == [i \in Candidates |-> SortKey(i, panes)]
           cap == [i \in Candidates |-> CapKey(i)]
           S == Candidates
<1>1. Keyed(S, 8, key) /\ Keyed(S, 7, cap) BY CandidatesKeyed
<1>2. RankCandidates = InOrder(S, key) /\ Batched = InOrder(S, cap) BY DEF RankCandidates, Batched
<1> HIDE DEF key, cap, S
<1>3. /\ RankCandidates \in [1..Cardinality(S) -> S] /\ Cardinality(S) \in Nat
      /\ IsInjective(RankCandidates) /\ ToSet(RankCandidates) = S
  BY <1>1, <1>2, InOrderIs
<1>4. Batched \in [1..Cardinality(S) -> S] /\ ToSet(Batched) = S BY <1>1, <1>2, InOrderIs
<1>5. Len(FirstN(RankCandidates, TopN)) <= TopN BY <1>3, ListedAre, FirstNOf
<1>6. ToSet(FirstN(Batched, BatchSize)) \subseteq S BY <1>3, <1>4, ListedAre, FirstNOf
<1> QED BY <1>3, <1>5, <1>6 DEF S

\* The type of the ranking's state.
SinceRecord == [edited : SUBSET Listed, merged : BOOLEAN, commented : SUBSET Listed]

RankTypes ==
  /\ entry \in [Listed -> EntryRecord] /\ events \in 0..MaxEvents /\ panes \in 0..1
  /\ \A i \in Listed : entry[i].updated <= events
  /\ since \in SinceRecord
  /\ report.blocked \subseteq Listed /\ report.batch \subseteq ToSet(report.ordered)
  /\ Len(report.top) <= TopN /\ IsInjective(report.ordered)

LEMMA RankTypesSuffice == RankTypes => RankingTypeOK
<1> SUFFICES ASSUME RankTypes PROVE RankingTypeOK OBVIOUS
<1>1. DOMAIN entry = Listed BY DEF RankTypes
<1>2. \A i \in Listed : entry[i].updated \in 0..events
  <2> SUFFICES ASSUME NEW i \in Listed PROVE entry[i].updated \in 0..events OBVIOUS
  <2>1. entry[i] \in EntryRecord BY DEF RankTypes
  <2>2. entry[i].updated \in Nat BY <2>1 DEF EntryRecord
  <2>3. entry[i].updated <= events /\ events \in Nat BY ListedAre DEF RankTypes
  <2> QED BY <2>2, <2>3
<1>3. since.edited \subseteq Listed /\ since.commented \subseteq Listed BY DEF RankTypes, SinceRecord
<1> QED BY <1>1, <1>2, <1>3 DEF RankTypes, RankingTypeOK

LEMMA RankTypesInit == RankingInit => RankTypes
<1> SUFFICES ASSUME RankingInit PROVE RankTypes OBVIOUS
<1> DEFINE fresh == [open |-> TRUE, labels |-> <<>>, body |-> "M", milestone |-> FALSE,
                     blockers |-> {}, updated |-> 0]
<1>1. entry = [i \in Listed |-> fresh] BY DEF RankingInit
<1>2. fresh \in EntryRecord BY DEF EntryRecord, LabelLists
<1>3. fresh.updated = 0 OBVIOUS
<1> HIDE DEF fresh
<1>4. entry \in [Listed -> EntryRecord] BY <1>1, <1>2
<1>5. events \in 0..MaxEvents /\ panes \in 0..1 BY ListedAre DEF RankingInit
<1>6. \A i \in Listed : entry[i].updated <= events BY <1>1, <1>3 DEF RankingInit
<1>7. since \in SinceRecord BY DEF RankingInit, SinceRecord
<1>8. report.blocked \subseteq Listed /\ report.batch \subseteq ToSet(report.ordered) BY DEF RankingInit
<1>9. Len(report.top) <= TopN
  <2>1. report.top = << >> BY DEF RankingInit
  <2>2. Len(<< >>) = 0 BY EmptySeq
  <2> QED BY <2>1, <2>2, ListedAre
<1>10. IsInjective(report.ordered) BY DEF RankingInit, IsInjective
<1> QED BY <1>4, <1>5, <1>6, <1>7, <1>8, <1>9, <1>10 DEF RankTypes

\* An issue that is commented on or edited is newer than all the others.
LEMMA UpdateTyped ==
  ASSUME RankTypes, Event, NEW i \in Listed, NEW e \in EntryRecord, e.updated = events',
         entry' = [entry EXCEPT ![i] = e]
  PROVE  /\ entry' \in [Listed -> EntryRecord] /\ events' \in 0..MaxEvents /\ events' = events + 1
         /\ \A j \in Listed : entry'[j].updated <= events'
         /\ entry'[i] = e /\ \A j \in Listed \ {i} : entry'[j] = entry[j]
<1>1. entry' \in [Listed -> EntryRecord] /\ entry'[i] = e /\ \A j \in Listed \ {i} : entry'[j] = entry[j]
  BY DEF RankTypes
<1>2. events \in Nat /\ events' = events + 1 /\ events' \in 0..MaxEvents
  BY ListedAre DEF RankTypes, Event
<1>3. ASSUME NEW j \in Listed PROVE entry'[j].updated <= events'
  <2>1. CASE j = i BY <1>1, <1>2, <2>1
  <2>2. CASE j # i
    <3>1. entry[j] \in EntryRecord /\ entry[j].updated <= events BY DEF RankTypes
    <3>2. entry[j].updated \in Nat BY <3>1 DEF EntryRecord
    <3> QED BY <1>1, <1>2, <2>2, <3>1, <3>2
  <2> QED BY <2>1, <2>2
<1> QED BY <1>1, <1>2, <1>3

LEMMA CommentUpdates ==
  ASSUME RankTypes, NEW i \in Listed, CommentOn(i)
  PROVE  \E e \in EntryRecord :
           /\ entry' = [entry EXCEPT ![i] = e] /\ e.updated = events' /\ Event
           /\ e.open = entry[i].open /\ e.labels = entry[i].labels /\ e.body = entry[i].body
           /\ e.milestone = entry[i].milestone /\ e.blockers = entry[i].blockers
<1> DEFINE e == [entry[i] EXCEPT !.updated = events']
<1>1. entry[i] \in EntryRecord /\ events' \in Nat /\ Event BY ListedAre DEF RankTypes, CommentOn, Event
<1>2. /\ e \in EntryRecord /\ e.updated = events'
      /\ e.open = entry[i].open /\ e.labels = entry[i].labels /\ e.body = entry[i].body
      /\ e.milestone = entry[i].milestone /\ e.blockers = entry[i].blockers
  BY <1>1 DEF EntryRecord
<1>3. entry' = [entry EXCEPT ![i] = e] BY DEF CommentOn
<1> HIDE DEF e
<1> QED BY <1>1, <1>2, <1>3

LEMMA EditUpdates ==
  ASSUME RankTypes, NEW i \in Listed, EditEntry(i)
  PROVE  \E e \in EntryRecord : entry' = [entry EXCEPT ![i] = e] /\ e.updated = events' /\ Event
<1>1. entry[i] \in EntryRecord /\ events' \in Nat /\ Event /\ entry \in [Listed -> EntryRecord]
  <2>1. Event BY DEF EditEntry
  <2> QED BY <2>1, ListedAre DEF RankTypes, Event
<1>2. CASE \E labels \in LabelLists :
             entry' = [entry EXCEPT ![i].labels = labels, ![i].updated = events']
  <2>1. PICK labels \in LabelLists :
             entry' = [entry EXCEPT ![i].labels = labels, ![i].updated = events']
    BY <1>2
  <2> DEFINE e == [entry[i] EXCEPT !.labels = labels, !.updated = events']
  <2>2. e \in EntryRecord /\ e.updated = events' BY <1>1 DEF EntryRecord
  <2>3. entry' = [entry EXCEPT ![i] = e] BY <1>1, <2>1
  <2> HIDE DEF e
  <2> QED BY <1>1, <2>2, <2>3
<1>3. CASE \E body \in {"S", "M"}, milestone \in BOOLEAN,
              blockers \in {{}} \union {{r} : r \in (Listed \union Patches) \ {i}} :
             entry' = [entry EXCEPT ![i].body = body, ![i].milestone = milestone,
                                    ![i].blockers = blockers, ![i].updated = events']
  <2>1. PICK body \in {"S", "M"}, milestone \in BOOLEAN,
             blockers \in {{}} \union {{r} : r \in (Listed \union Patches) \ {i}} :
             entry' = [entry EXCEPT ![i].body = body, ![i].milestone = milestone,
                                    ![i].blockers = blockers, ![i].updated = events']
    BY <1>3
  <2> DEFINE e == [entry[i] EXCEPT !.body = body, !.milestone = milestone, !.blockers = blockers,
                                   !.updated = events']
  <2>2. blockers \in SUBSET (Listed \union Patches) OBVIOUS
  <2>3. e \in EntryRecord /\ e.updated = events' BY <1>1, <2>2 DEF EntryRecord
  <2>4. entry' = [entry EXCEPT ![i] = e] BY <1>1, <2>1
  <2> HIDE DEF e
  <2> QED BY <1>1, <2>3, <2>4
<1> QED BY <1>2, <1>3 DEF EditEntry

LEMMA MergeUpdates ==
  ASSUME RankTypes, NEW p \in Patches, MergePatch(p)
  PROVE  /\ entry' \in [Listed -> EntryRecord] /\ Event
         /\ \A i \in Listed :
              /\ entry'[i].labels = entry[i].labels /\ entry'[i].body = entry[i].body
              /\ entry'[i].milestone = entry[i].milestone /\ entry'[i].blockers = entry[i].blockers
              /\ entry'[i].updated = entry[i].updated
<1>1. PICK closes : entry' = [j \in Listed |-> [entry[j] EXCEPT !.open = @ /\ j \notin closes]]
  BY DEF MergePatch
<1>2. ASSUME NEW i \in Listed
      PROVE  /\ entry'[i] \in EntryRecord
             /\ entry'[i].labels = entry[i].labels /\ entry'[i].body = entry[i].body
             /\ entry'[i].milestone = entry[i].milestone /\ entry'[i].blockers = entry[i].blockers
             /\ entry'[i].updated = entry[i].updated
  <2>1. entry[i] \in EntryRecord BY DEF RankTypes
  <2>2. entry'[i] = [entry[i] EXCEPT !.open = entry[i].open /\ i \notin closes] BY <1>1
  <2>3. entry[i].open \in BOOLEAN BY <2>1 DEF EntryRecord
  <2> DEFINE o == entry[i].open /\ i \notin closes
  <2>4. o \in BOOLEAN BY <2>3
  <2>5. entry'[i] = [entry[i] EXCEPT !.open = o] BY <2>2
  <2> HIDE DEF o
  <2> QED BY <2>1, <2>4, <2>5 DEF EntryRecord
<1>3. entry' \in [Listed -> EntryRecord] BY <1>1, <1>2
<1> QED BY <1>2, <1>3 DEF MergePatch

LEMMA RankTypesStep == RankTypes /\ [RankingNext]_rankingVars => RankTypes'
<1> SUFFICES ASSUME RankTypes, [RankingNext]_rankingVars PROVE RankTypes' OBVIOUS
<1> USE ListedAre
<1>1. CASE ScanRepositories
  <2>1. EntriesTyped BY DEF RankTypes, EntriesTyped
  <2>2. /\ IsInjective(RankCandidates) /\ ToSet(RankCandidates) = Candidates
        /\ Len(FirstN(RankCandidates, TopN)) <= TopN
        /\ ToSet(FirstN(Batched, BatchSize)) \subseteq Candidates
    BY <2>1, ScanAnswers
  <2>3. /\ report'.ordered = RankCandidates /\ report'.top = FirstN(RankCandidates, TopN)
        /\ report'.blocked = OpenEntries \ Candidates
        /\ report'.batch = ToSet(FirstN(Batched, BatchSize))
    BY <1>1 DEF ScanRepositories
  <2>4. report'.blocked \subseteq Listed BY <2>3 DEF OpenEntries
  <2>5. since' \in SinceRecord BY <1>1 DEF ScanRepositories, SinceRecord
  <2>6. UNCHANGED <<entry, panes, events>> BY <1>1 DEF ScanRepositories
  <2> QED BY <2>2, <2>3, <2>4, <2>5, <2>6 DEF RankTypes
<1>2. ASSUME NEW i \in Listed, CommentOn(i) PROVE RankTypes'
  <2>1. PICK e \in EntryRecord : entry' = [entry EXCEPT ![i] = e] /\ e.updated = events' /\ Event
    BY <1>2, CommentUpdates
  <2>2. /\ entry' \in [Listed -> EntryRecord] /\ events' \in 0..MaxEvents
        /\ \A j \in Listed : entry'[j].updated <= events'
    BY <2>1, UpdateTyped
  <2>3. since' \in SinceRecord BY <1>2 DEF CommentOn, RankTypes, SinceRecord
  <2>4. UNCHANGED <<panes, report>> BY <1>2 DEF CommentOn
  <2> QED BY <2>2, <2>3, <2>4 DEF RankTypes
<1>3. ASSUME NEW i \in Listed, EditEntry(i) PROVE RankTypes'
  <2>1. PICK e \in EntryRecord : entry' = [entry EXCEPT ![i] = e] /\ e.updated = events' /\ Event
    BY <1>3, EditUpdates
  <2>2. /\ entry' \in [Listed -> EntryRecord] /\ events' \in 0..MaxEvents
        /\ \A j \in Listed : entry'[j].updated <= events'
    BY <2>1, UpdateTyped
  <2>3. since' \in SinceRecord
    <3>1. since' = [since EXCEPT !.edited = @ \union {i}, !.commented = @ \union {i}]
      BY <1>3 DEF EditEntry
    <3>2. since \in SinceRecord BY DEF RankTypes
    <3> QED BY <3>1, <3>2 DEF SinceRecord
  <2>4. UNCHANGED <<panes, report>> BY <1>3 DEF EditEntry
  <2> QED BY <2>2, <2>3, <2>4 DEF RankTypes
<1>4. ASSUME NEW p \in Patches, MergePatch(p) PROVE RankTypes'
  <2>1. /\ entry' \in [Listed -> EntryRecord] /\ Event
        /\ \A i \in Listed : entry'[i].updated = entry[i].updated
    BY <1>4, MergeUpdates
  <2>2. events' \in 0..MaxEvents /\ events' = events + 1 /\ events \in Nat BY <2>1 DEF Event, RankTypes
  <2>3. \A i \in Listed : entry'[i].updated <= events'
    <3> SUFFICES ASSUME NEW i \in Listed PROVE entry'[i].updated <= events' OBVIOUS
    <3>1. entry[i] \in EntryRecord /\ entry[i].updated <= events BY DEF RankTypes
    <3>2. entry[i].updated \in Nat BY <3>1 DEF EntryRecord
    <3> QED BY <2>1, <2>2, <3>1, <3>2
  <2>4. since' \in SinceRecord BY <1>4 DEF MergePatch, RankTypes, SinceRecord
  <2>5. UNCHANGED <<panes, report>> BY <1>4 DEF MergePatch
  <2> QED BY <2>1, <2>2, <2>3, <2>4, <2>5 DEF RankTypes
<1>5. CASE FreeOrFillSlot
  <2>1. UNCHANGED <<entry, report, since>> BY <1>5 DEF FreeOrFillSlot
  <2>2. panes' \in 0..1 BY <1>5 DEF FreeOrFillSlot, RankTypes
  <2>3. events' \in 0..MaxEvents /\ events' = events + 1 /\ events \in Nat
    BY <1>5 DEF FreeOrFillSlot, Event, RankTypes
  <2>4. \A i \in Listed : entry[i].updated <= events'
    <3> SUFFICES ASSUME NEW i \in Listed PROVE entry[i].updated <= events' OBVIOUS
    <3>1. entry[i] \in EntryRecord /\ entry[i].updated <= events BY DEF RankTypes
    <3>2. entry[i].updated \in Nat BY <3>1 DEF EntryRecord
    <3> QED BY <2>3, <3>1, <3>2
  <2> QED BY <2>1, <2>2, <2>3, <2>4 DEF RankTypes
<1>6. CASE UNCHANGED rankingVars BY <1>6 DEF rankingVars, RankTypes
<1> QED BY <1>1, <1>2, <1>3, <1>4, <1>5, <1>6 DEF RankingNext

\* Two keys by their entries.
LEMMA LessBySeven ==
  ASSUME NEW f \in [1..7 -> Int], NEW g \in [1..7 -> Int]
  PROVE  Less(f, g) <=>
           \/ f[1] < g[1]
           \/ f[1] = g[1] /\ f[2] < g[2]
           \/ f[1] = g[1] /\ f[2] = g[2] /\ f[3] < g[3]
           \/ f[1] = g[1] /\ f[2] = g[2] /\ f[3] = g[3] /\ f[4] < g[4]
           \/ f[1] = g[1] /\ f[2] = g[2] /\ f[3] = g[3] /\ f[4] = g[4] /\ f[5] < g[5]
           \/ /\ f[1] = g[1] /\ f[2] = g[2] /\ f[3] = g[3] /\ f[4] = g[4] /\ f[5] = g[5]
              /\ f[6] < g[6]
           \/ /\ f[1] = g[1] /\ f[2] = g[2] /\ f[3] = g[3] /\ f[4] = g[4] /\ f[5] = g[5]
              /\ f[6] = g[6] /\ f[7] < g[7]
<1>1. \A k \in DOMAIN f : k = 1 \/ k = 2 \/ k = 3 \/ k = 4 \/ k = 5 \/ k = 6 \/ k = 7 OBVIOUS
<1>2. /\ 1..(1 - 1) = {} /\ 1..(2 - 1) = {1} /\ 1..(3 - 1) = {1, 2} /\ 1..(4 - 1) = {1, 2, 3}
      /\ 1..(5 - 1) = {1, 2, 3, 4} /\ 1..(6 - 1) = {1, 2, 3, 4, 5}
      /\ 1..(7 - 1) = {1, 2, 3, 4, 5, 6}
  OBVIOUS
<1>3. {1, 2, 3, 4, 5, 6, 7} = DOMAIN f OBVIOUS
<1> QED BY <1>1, <1>2, <1>3 DEF Less

\* The key of an issue without the worker slots: what it was at a scan that found the issues
\* last touched at past, and went by the merges of window.
PastKey(i, past, window) ==
  <<-PriorityRank[ComputePriority(i)], -Is(Unblocked(i, window)), EffortRank[EstimateEffort(i)],
    -Is(entry[i].milestone), -past[i], i[1], i[2]>>

LEMMA PastKeyTyped ==
  ASSUME NEW i \in Listed, entry[i] \in EntryRecord, NEW past \in [Listed -> Nat], NEW window
  PROVE  /\ PastKey(i, past, window) \in [1..7 -> Int]
         /\ PastKey(i, past, window)[1] = -PriorityRank[ComputePriority(i)]
         /\ PastKey(i, past, window)[2] = -Is(Unblocked(i, window))
         /\ PastKey(i, past, window)[3] = EffortRank[EstimateEffort(i)]
         /\ PastKey(i, past, window)[4] = -Is(entry[i].milestone)
         /\ PastKey(i, past, window)[5] = -past[i]
         /\ PastKey(i, past, window)[6] = i[1] /\ PastKey(i, past, window)[7] = i[2]
<1>1. \A x : Is(x) \in Int BY DEF Is
<1> DEFINE k1 == -PriorityRank[ComputePriority(i)]
           k2 == -Is(Unblocked(i, window))
           k3 == EffortRank[EstimateEffort(i)]
           k4 == -Is(entry[i].milestone)
           k5 == -past[i]
<1>2. k1 \in Int /\ k3 \in Int BY AxesTyped
<1>3. k2 \in Int /\ k4 \in Int BY <1>1
<1>4. k5 \in Int OBVIOUS
<1>5. i[1] \in Int /\ i[2] \in Int BY ListedAre
<1>6. PastKey(i, past, window) = <<k1, k2, k3, k4, k5, i[1], i[2]>> BY DEF PastKey
<1> HIDE DEF k1, k2, k3, k4, k5
<1>7. <<k1, k2, k3, k4, k5, i[1], i[2]>> \in [1..7 -> Int] BY <1>2, <1>3, <1>4, <1>5
<1> QED BY <1>6, <1>7 DEF k1, k2, k3, k4, k5

\* All candidates are free of blockers, so they share the entry for the worker slots.
LEMMA WithoutSlots ==
  ASSUME EntriesTyped, NEW i \in Candidates, NEW j \in Candidates, NEW past \in [Listed -> Nat],
         \A l \in Listed : past[l] = entry[l].updated
  PROVE  Less(SortKey(i, panes), SortKey(j, panes))
           => Less(PastKey(i, past, Window), PastKey(j, past, Window))
<1> DEFINE a == SortKey(i, panes)
           b == SortKey(j, panes)
           c == PastKey(i, past, Window)
           d == PastKey(j, past, Window)
<1>1. i \in Listed /\ j \in Listed BY DEF Candidates, OpenEntries
<1>2. entry[i] \in EntryRecord /\ entry[j] \in EntryRecord /\ panes \in Nat BY <1>1 DEF EntriesTyped
<1>3. a \in [1..8 -> Int] /\ c \in [1..7 -> Int] BY <1>1, <1>2, KeyTyped, PastKeyTyped
<1>4. b \in [1..8 -> Int] /\ d \in [1..7 -> Int] BY <1>1, <1>2, KeyTyped, PastKeyTyped
<1>5. /\ a[1] = c[1] /\ a[2] = c[2] /\ a[4] = c[3] /\ a[5] = c[4] /\ a[6] = c[5] /\ a[7] = c[6]
      /\ a[8] = c[7]
  BY <1>1, <1>2, KeyTyped, PastKeyTyped
<1>6. /\ b[1] = d[1] /\ b[2] = d[2] /\ b[4] = d[3] /\ b[5] = d[4] /\ b[6] = d[5] /\ b[7] = d[6]
      /\ b[8] = d[7]
  BY <1>1, <1>2, KeyTyped, PastKeyTyped
<1>7. a[3] = b[3]
  <2>1. OpenBlocking(i) = {} /\ OpenBlocking(j) = {} BY DEF Candidates, Blocked
  <2>2. a[3] = -Is(OpenBlocking(i) = {} /\ panes > 0) BY <1>1, <1>2, KeyTyped
  <2>3. b[3] = -Is(OpenBlocking(j) = {} /\ panes > 0) BY <1>1, <1>2, KeyTyped
  <2> QED BY <2>1, <2>2, <2>3
<1> HIDE DEF a, b, c, d
<1>8. ASSUME Less(a, b) PROVE Less(c, d)
  <2>1. PICK k \in 1..8 : a[k] < b[k] /\ \A m \in 1..(k - 1) : a[m] = b[m] BY <1>3, <1>8 DEF Less
  <2>2. k # 3
    <3> SUFFICES ASSUME k = 3 PROVE FALSE OBVIOUS
    <3>1. a[3] < b[3] /\ a[3] \in Int /\ b[3] \in Int BY <1>3, <1>4, <2>1
    <3> QED BY <1>7, <3>1
  <2>3. CASE k < 3
    <3>1. c[k] = a[k] /\ d[k] = b[k] /\ \A m \in 1..(k - 1) : c[m] = a[m] /\ d[m] = b[m]
      BY <1>5, <1>6, <2>3
    <3>2. k \in DOMAIN c BY <1>3, <2>3
    <3> QED BY <2>1, <3>1, <3>2 DEF Less
  <2>4. CASE k > 3
    <3>1. c[k - 1] = a[k] /\ d[k - 1] = b[k] BY <1>5, <1>6, <2>4
    <3>2. \A m \in 1..((k - 1) - 1) : c[m] = d[m]
      <4> SUFFICES ASSUME NEW m \in 1..((k - 1) - 1) PROVE c[m] = d[m] OBVIOUS
      <4>1. CASE m < 3
        <5>1. a[m] = b[m] /\ a[m] = c[m] /\ b[m] = d[m] BY <1>5, <1>6, <2>1, <4>1
        <5> QED BY <5>1
      <4>2. CASE m >= 3
        <5>1. m + 1 \in 1..(k - 1) BY <4>2
        <5>2. a[m + 1] = b[m + 1] BY <2>1, <5>1
        <5>3. a[m + 1] = c[m] /\ b[m + 1] = d[m] BY <1>5, <1>6, <4>2, <5>1
        <5> QED BY <5>2, <5>3
      <4> QED BY <4>1, <4>2
    <3>3. k - 1 \in DOMAIN c BY <1>3, <2>4
    <3> QED BY <2>1, <3>1, <3>2, <3>3 DEF Less
  <2> QED BY <2>2, <2>3, <2>4
<1> QED BY <1>8 DEF a, b, c, d

\* The last scan as the present remembers it, past[i] being when i had last been touched then:
\* a comment has made an issue newer than all of them; those that were not edited stand in the
\* order of the keys they had; and as long as nothing was edited or merged, the judge's batch
\* and the blocked are those of today.
Remembers(past) ==
  /\ \A i \in Listed : past[i] <= entry[i].updated
  /\ \A i \in Listed \ since.commented : past[i] = entry[i].updated
  /\ \A i \in since.commented, j \in Listed : past[j] < entry[i].updated
  /\ \A i, j \in Listed \ since.edited :
       Ahead(report, i, j) => Less(PastKey(i, past, report.window), PastKey(j, past, report.window))

ReportStands ==
  since.edited = {} /\ ~since.merged
    => report.batch = ToSet(FirstN(Batched, BatchSize)) /\ report.blocked = OpenEntries \ Candidates

RankInv == RankTypes /\ ReportStands /\ \E past \in [Listed -> Nat] : Remembers(past)

LEMMA RankInvInit == RankingInit => RankInv
<1> SUFFICES ASSUME RankingInit PROVE RankInv OBVIOUS
<1>1. RankTypes BY RankTypesInit
<1>2. ReportStands BY DEF RankingInit, ReportStands
<1> DEFINE past == [i \in Listed |-> 0]
<1>3. past \in [Listed -> Nat] OBVIOUS
<1>4. \A i \in Listed : entry[i].updated = 0 BY DEF RankingInit
<1>5. since.commented = {} /\ since.edited = Listed BY DEF RankingInit
<1>6. Remembers(past) BY <1>4, <1>5 DEF Remembers
<1> QED BY <1>1, <1>2, <1>3, <1>6 DEF RankInv

\* What the key of an issue is made of, but for the time of its update.
LEMMA SameAxes ==
  ASSUME NEW i, entry'[i].labels = entry[i].labels, entry'[i].body = entry[i].body,
         entry'[i].milestone = entry[i].milestone, entry'[i].blockers = entry[i].blockers
  PROVE  /\ ComputePriority(i)' = ComputePriority(i) /\ EstimateEffort(i)' = EstimateEffort(i)
         /\ \A w : Unblocked(i, w)' = Unblocked(i, w)
         /\ \A past, w : PastKey(i, past, w)' = PastKey(i, past, w)
<1>1. ComputePriority(i)' = ComputePriority(i) BY DEF ComputePriority
<1>2. EstimateEffort(i)' = EstimateEffort(i) BY DEF EstimateEffort
<1>3. ASSUME NEW w PROVE Unblocked(i, w)' = Unblocked(i, w) BY DEF Unblocked
<1>4. ASSUME NEW past, NEW w PROVE PastKey(i, past, w)' = PastKey(i, past, w)
  <2>1. Unblocked(i, w)' = Unblocked(i, w) BY <1>3
  <2> QED BY <1>1, <1>2, <2>1 DEF PastKey
<1> QED BY <1>1, <1>2, <1>3, <1>4

\* An issue that is touched, and is one of those commented on from then on.
LEMMA TouchKeeps ==
  ASSUME RankTypes, NEW past \in [Listed -> Nat], Remembers(past), Event,
         NEW i \in Listed, NEW e \in EntryRecord, e.updated = events',
         entry' = [entry EXCEPT ![i] = e], report' = report,
         since'.commented = since.commented \union {i},
         \/ since'.edited = since.edited \union {i}
         \/ /\ since'.edited = since.edited
            /\ e.labels = entry[i].labels /\ e.body = entry[i].body
            /\ e.milestone = entry[i].milestone /\ e.blockers = entry[i].blockers
  PROVE  Remembers(past)'
<1>1. /\ events' = events + 1 /\ entry'[i] = e /\ \A j \in Listed \ {i} : entry'[j] = entry[j]
  BY UpdateTyped
<1>2. \A j \in Listed : past[j] \in Nat /\ entry[j].updated \in Nat /\ past[j] <= events
  <2> SUFFICES ASSUME NEW j \in Listed
               PROVE  past[j] \in Nat /\ entry[j].updated \in Nat /\ past[j] <= events
    OBVIOUS
  <2>1. entry[j] \in EntryRecord /\ entry[j].updated <= events /\ events \in Nat
    BY ListedAre DEF RankTypes
  <2>2. entry[j].updated \in Nat BY <2>1 DEF EntryRecord
  <2>3. past[j] <= entry[j].updated BY DEF Remembers
  <2> QED BY <2>1, <2>2, <2>3
<1>3. events \in Nat BY ListedAre DEF RankTypes
<1>4. entry'[i].updated = events + 1 /\ \A j \in Listed : past[j] < entry'[i].updated
  BY <1>1, <1>2, <1>3
<1>5. \A j \in Listed : past[j] <= entry'[j].updated
  <2> SUFFICES ASSUME NEW j \in Listed PROVE past[j] <= entry'[j].updated OBVIOUS
  <2>1. CASE j = i BY <1>1, <1>2, <1>3, <2>1
  <2>2. CASE j # i BY <1>1, <2>2 DEF Remembers
  <2> QED BY <2>1, <2>2
<1>6. \A j \in Listed \ since'.commented : past[j] = entry'[j].updated BY <1>1 DEF Remembers
<1>7. ASSUME NEW j \in since'.commented, NEW l \in Listed PROVE past[l] < entry'[j].updated
  <2>1. CASE j = i BY <1>4, <2>1
  <2>2. CASE j # i
    <3>1. j \in since.commented /\ j \in Listed BY <2>2 DEF RankTypes, SinceRecord
    <3> QED BY <1>1, <2>2, <3>1 DEF Remembers
  <2> QED BY <2>1, <2>2
<1>8. ASSUME NEW j \in Listed \ since'.edited
      PROVE  /\ j \in Listed \ since.edited
             /\ \A w : PastKey(j, past, w)' = PastKey(j, past, w)
  <2>1. j \in Listed \ since.edited OBVIOUS
  <2>2. /\ entry'[j].labels = entry[j].labels /\ entry'[j].body = entry[j].body
        /\ entry'[j].milestone = entry[j].milestone /\ entry'[j].blockers = entry[j].blockers
    BY <1>1
  <2> QED BY <2>1, <2>2, SameAxes
<1>9. ASSUME NEW j \in Listed \ since'.edited, NEW l \in Listed \ since'.edited, Ahead(report', j, l)
      PROVE  Less(PastKey(j, past, report.window)', PastKey(l, past, report.window)')
  <2>1. j \in Listed \ since.edited /\ l \in Listed \ since.edited /\ Ahead(report, j, l) BY <1>8, <1>9
  <2>2. Less(PastKey(j, past, report.window), PastKey(l, past, report.window))
    BY <2>1 DEF Remembers
  <2>3. /\ PastKey(j, past, report.window)' = PastKey(j, past, report.window)
        /\ PastKey(l, past, report.window)' = PastKey(l, past, report.window)
    BY <1>8
  <2> QED BY <2>2, <2>3
<1> QED BY <1>5, <1>6, <1>7, <1>9 DEF Remembers

\* A scan finds the present.
LEMMA ScanRemembers ==
  ASSUME RankTypes, ScanRepositories
  PROVE  \E past \in [Listed -> Nat] : Remembers(past)'
<1>1. PICK past \in [Listed -> Nat] : past = [i \in Listed |-> entry[i].updated]
  BY DEF RankTypes, EntryRecord
<1>2. /\ report'.ordered = RankCandidates /\ report'.window = Window
      /\ since'.edited = {} /\ since'.commented = {} /\ entry' = entry
  BY DEF ScanRepositories
<1>3. EntriesTyped BY DEF RankTypes, EntriesTyped
<1>4. \A i \in Listed : past[i] = entry[i].updated /\ entry[i].updated \in Nat
  BY <1>1 DEF RankTypes, EntryRecord
<1>5. ASSUME NEW i, NEW w PROVE PastKey(i, past, w)' = PastKey(i, past, w)
  <2>1. /\ entry'[i].labels = entry[i].labels /\ entry'[i].body = entry[i].body
        /\ entry'[i].milestone = entry[i].milestone /\ entry'[i].blockers = entry[i].blockers
    BY <1>2
  <2> QED BY <2>1, SameAxes
<1>6. ASSUME NEW i \in Listed, NEW j \in Listed, Ahead(report', i, j)
      PROVE  Less(PastKey(i, past, Window), PastKey(j, past, Window))
  <2> DEFINE key == [k \in Candidates |-> SortKey(k, panes)]
  <2>1. Keyed(Candidates, 8, key) BY <1>3, CandidatesKeyed
  <2>2. report'.ordered = InOrder(Candidates, key) BY <1>2 DEF RankCandidates
  <2> HIDE DEF key
  <2>3. i \in Candidates /\ j \in Candidates /\ Less(key[i], key[j]) BY <1>6, <2>1, <2>2, AheadIsLess
  <2>4. Less(SortKey(i, panes), SortKey(j, panes)) BY <2>3 DEF key
  <2> QED BY <1>1, <1>3, <1>4, <2>3, <2>4, WithoutSlots
<1>7. ASSUME NEW i \in Listed, NEW j \in Listed, Ahead(report', i, j)
      PROVE  Less(PastKey(i, past, report.window)', PastKey(j, past, report.window)')
  <2>1. \A k : PastKey(k, past, report.window)' = PastKey(k, past, Window)
    <3> SUFFICES ASSUME NEW k PROVE PastKey(k, past, report.window)' = PastKey(k, past, Window) OBVIOUS
    <3>1. PICK w : w = Window OBVIOUS
    <3>2. report.window' = w BY <1>2, <3>1
    <3>3. PastKey(k, past, w)' = PastKey(k, past, w) BY <1>5
    <3>4. PastKey(k, past, report.window)' = PastKey(k, past, w)' BY <3>2 DEF PastKey, Unblocked
    <3> QED BY <3>1, <3>3, <3>4
  <2> QED BY <1>6, <1>7, <2>1
<1>8. \A i \in Listed : past[i] <= entry'[i].updated /\ past[i] = entry'[i].updated BY <1>2, <1>4
<1>9. Remembers(past)' BY <1>2, <1>7, <1>8 DEF Remembers
<1> QED BY <1>9

\* The order of the judge's batch does not know the time of an update, nor the worker slots.
LEMMA BatchStays ==
  ASSUME landed' = landed,
         \A j \in Listed : /\ entry'[j].open = entry[j].open /\ entry'[j].labels = entry[j].labels
                           /\ entry'[j].body = entry[j].body
                           /\ entry'[j].milestone = entry[j].milestone
                           /\ entry'[j].blockers = entry[j].blockers
  PROVE  Batched' = Batched /\ Candidates' = Candidates /\ OpenEntries' = OpenEntries
<1>1. OpenEntries' = OpenEntries /\ OpenPatches' = OpenPatches BY DEF OpenEntries, OpenPatches
<1>2. \A j \in Listed : OpenBlocking(j)' = OpenBlocking(j) BY <1>1 DEF OpenBlocking
<1>3. \A j \in Listed : Blocked(j)' <=> Blocked(j) BY <1>2 DEF Blocked
<1>4. OpenEntries \subseteq Listed BY DEF OpenEntries
<1>5. Candidates' = Candidates BY <1>1, <1>3, <1>4 DEF Candidates
<1>6. Window' = Window BY DEF Window
<1>7. ASSUME NEW j \in Listed PROVE CapKey(j)' = CapKey(j)
  <2>1. /\ ComputePriority(j)' = ComputePriority(j) /\ EstimateEffort(j)' = EstimateEffort(j)
        /\ \A w : Unblocked(j, w)' = Unblocked(j, w)
    BY SameAxes
  <2>2. Unblocked(j, Window)' <=> Unblocked(j, Window) BY <1>6 DEF Unblocked
  <2> DEFINE k1 == -PriorityRank[ComputePriority(j)]
             k2 == -Is(Unblocked(j, Window))
             k3 == -Is(OpenBlocking(j) = {} /\ 0 > 0)
             k4 == EffortRank[EstimateEffort(j)]
             k5 == -Is(entry[j].milestone)
  <2>3. k1' = k1 /\ k4' = k4 BY <2>1
  <2>4. k2' = k2 BY <2>2 DEF Is
  <2>5. k3' = k3 BY <1>2
  <2>6. k5' = k5 OBVIOUS
  <2>7. CapKey(j) = RemoveAt(<<k1, k2, k3, k4, k5, -entry[j].updated, j[1], j[2]>>, 6)
    BY DEF CapKey, SortKey
  <2>8. CapKey(j)' = RemoveAt(<<k1', k2', k3', k4', k5', -entry'[j].updated, j[1], j[2]>>, 6)
    BY DEF CapKey, SortKey
  <2> HIDE DEF k1, k2, k3, k4, k5
  <2>9. CapKey(j)' = RemoveAt(<<k1, k2, k3, k4, k5, -entry'[j].updated, j[1], j[2]>>, 6)
    BY <2>3, <2>4, <2>5, <2>6, <2>8
  <2> QED BY <2>7, <2>9, SixthForgotten
<1>8. [j \in Candidates |-> CapKey(j)]' = [j \in Candidates |-> CapKey(j)]
  <2>1. \A j \in Candidates : CapKey(j)' = CapKey(j) BY <1>4, <1>7 DEF Candidates
  <2> QED BY <1>5, <2>1
<1> QED BY <1>1, <1>5, <1>8 DEF Batched

LEMMA RankInvStep == RankInv /\ [RankingNext]_rankingVars => RankInv'
<1> SUFFICES ASSUME RankInv, [RankingNext]_rankingVars PROVE RankInv' OBVIOUS
<1>1. RankTypes /\ ReportStands BY DEF RankInv
<1>2. PICK past \in [Listed -> Nat] : Remembers(past) BY DEF RankInv
<1>3. RankTypes' BY <1>1, RankTypesStep
<1>4. CASE ScanRepositories
  <2>1. \E p \in [Listed -> Nat] : Remembers(p)' BY <1>1, <1>4, ScanRemembers
  <2>2. ReportStands'
    <3>1. report'.batch = ToSet(FirstN(Batched, BatchSize)) /\ report'.blocked = OpenEntries \ Candidates
      BY <1>4 DEF ScanRepositories
    <3>2. UNCHANGED <<entry, landed>> BY <1>4 DEF ScanRepositories
    <3>3. Batched' = Batched /\ Candidates' = Candidates /\ OpenEntries' = OpenEntries
      BY <3>2, BatchStays
    <3> QED BY <3>1, <3>3 DEF ReportStands
  <2> QED BY <1>3, <2>1, <2>2 DEF RankInv
<1>5. ASSUME NEW i \in Listed, CommentOn(i) PROVE RankInv'
  <2>1. PICK e \in EntryRecord :
          /\ entry' = [entry EXCEPT ![i] = e] /\ e.updated = events' /\ Event
          /\ e.open = entry[i].open /\ e.labels = entry[i].labels /\ e.body = entry[i].body
          /\ e.milestone = entry[i].milestone /\ e.blockers = entry[i].blockers
    BY <1>1, <1>5, CommentUpdates
  <2>2. /\ report' = report /\ since'.commented = since.commented \union {i}
        /\ since'.edited = since.edited /\ since'.merged = since.merged
    BY <1>1, <1>5 DEF CommentOn, RankTypes, SinceRecord
  <2>3. Remembers(past)' BY <1>1, <1>2, <2>1, <2>2, TouchKeeps
  <2>4. ReportStands'
    <3>1. \A j \in Listed : /\ entry'[j].open = entry[j].open /\ entry'[j].labels = entry[j].labels
                            /\ entry'[j].body = entry[j].body
                            /\ entry'[j].milestone = entry[j].milestone
                            /\ entry'[j].blockers = entry[j].blockers
      BY <1>1, <2>1 DEF RankTypes
    <3>2. landed' = landed BY <1>5 DEF CommentOn
    <3>3. Batched' = Batched /\ Candidates' = Candidates /\ OpenEntries' = OpenEntries
      BY <3>1, <3>2, BatchStays
    <3> QED BY <1>1, <2>2, <3>3 DEF ReportStands
  <2> QED BY <1>3, <2>3, <2>4 DEF RankInv
<1>6. ASSUME NEW i \in Listed, EditEntry(i) PROVE RankInv'
  <2>1. PICK e \in EntryRecord : entry' = [entry EXCEPT ![i] = e] /\ e.updated = events' /\ Event
    BY <1>1, <1>6, EditUpdates
  <2>2. /\ report' = report /\ since'.commented = since.commented \union {i}
        /\ since'.edited = since.edited \union {i}
    <3>1. since' = [since EXCEPT !.edited = @ \union {i}, !.commented = @ \union {i}]
          /\ report' = report
      BY <1>6 DEF EditEntry
    <3>2. since \in SinceRecord BY <1>1 DEF RankTypes
    <3> QED BY <3>1, <3>2 DEF SinceRecord
  <2>3. Remembers(past)' BY <1>1, <1>2, <2>1, <2>2, TouchKeeps
  <2>4. ReportStands' BY <2>2 DEF ReportStands
  <2> QED BY <1>3, <2>3, <2>4 DEF RankInv
<1>7. ASSUME NEW p \in Patches, MergePatch(p) PROVE RankInv'
  <2>1. \A i \in Listed :
          /\ entry'[i].labels = entry[i].labels /\ entry'[i].body = entry[i].body
          /\ entry'[i].milestone = entry[i].milestone /\ entry'[i].blockers = entry[i].blockers
          /\ entry'[i].updated = entry[i].updated
    BY <1>1, <1>7, MergeUpdates
  <2>2. /\ report' = report /\ since'.commented = since.commented
        /\ since'.edited = since.edited /\ since'.merged = TRUE
    BY <1>1, <1>7 DEF MergePatch, RankTypes, SinceRecord
  <2>3. \A i \in Listed : \A w : PastKey(i, past, w)' = PastKey(i, past, w) BY <2>1, SameAxes
  <2>4. Remembers(past)'
    <3>1. \A i, j \in Listed \ since.edited :
            Ahead(report, i, j)
              => Less(PastKey(i, past, report.window)', PastKey(j, past, report.window)')
      BY <1>2, <2>2, <2>3 DEF Remembers
    <3>2. since.commented \subseteq Listed BY <1>1 DEF RankTypes, SinceRecord
    <3> QED BY <1>2, <2>1, <2>2, <3>1, <3>2 DEF Remembers
  <2>5. ReportStands' BY <2>2 DEF ReportStands
  <2> QED BY <1>3, <2>4, <2>5 DEF RankInv
<1>8. CASE UNCHANGED <<entry, landed, report, since>>
  <2>1. \A i, w : PastKey(i, past, w)' = PastKey(i, past, w)
    <3> SUFFICES ASSUME NEW i, NEW w PROVE PastKey(i, past, w)' = PastKey(i, past, w) OBVIOUS
    <3>1. /\ entry'[i].labels = entry[i].labels /\ entry'[i].body = entry[i].body
          /\ entry'[i].milestone = entry[i].milestone /\ entry'[i].blockers = entry[i].blockers
      BY <1>8
    <3> QED BY <3>1, SameAxes
  <2>2. Remembers(past)'
    <3>1. \A i, j \in Listed \ since.edited :
            Ahead(report, i, j)
              => Less(PastKey(i, past, report.window)', PastKey(j, past, report.window)')
      BY <1>2, <1>8, <2>1 DEF Remembers
    <3> QED BY <1>2, <1>8, <3>1 DEF Remembers
  <2>3. ReportStands'
    <3>1. Batched' = Batched /\ Candidates' = Candidates /\ OpenEntries' = OpenEntries
      BY <1>8, BatchStays
    <3> QED BY <1>1, <1>8, <3>1 DEF ReportStands
  <2> QED BY <1>3, <2>2, <2>3 DEF RankInv
<1>9. CASE FreeOrFillSlot BY <1>8, <1>9 DEF FreeOrFillSlot
<1>10. CASE UNCHANGED rankingVars BY <1>8, <1>10 DEF rankingVars
<1> QED BY <1>4, <1>5, <1>6, <1>7, <1>9, <1>10 DEF RankingNext

\* Two keys that change their order: with the label, the effort and the milestone as they were,
\* the second not touched and the first no older, a merge must have spoken for one of them, or
\* one that had spoken must have left the window.
LEMMA OrderTurns ==
  ASSUME NEW a \in [1..7 -> Int], NEW b \in [1..7 -> Int], NEW c \in [1..7 -> Int],
         NEW d \in [1..7 -> Int],
         Less(a, b), Less(d, c),
         \A k \in {1, 3, 4, 6, 7} : a[k] = c[k] /\ b[k] = d[k],
         c[2] <= a[2], b[2] <= d[2], c[5] <= a[5], b[5] <= d[5]
  PROVE  FALSE
<1>1. \A k \in 1..7 : a[k] \in Int /\ b[k] \in Int /\ c[k] \in Int /\ d[k] \in Int OBVIOUS
<1>2. /\ a[1] = c[1] /\ b[1] = d[1] /\ a[3] = c[3] /\ b[3] = d[3] /\ a[4] = c[4] /\ b[4] = d[4]
      /\ a[6] = c[6] /\ b[6] = d[6] /\ a[7] = c[7] /\ b[7] = d[7]
  OBVIOUS
<1>3. \/ a[1] < b[1]
      \/ a[1] = b[1] /\ a[2] < b[2]
      \/ a[1] = b[1] /\ a[2] = b[2] /\ a[3] < b[3]
      \/ a[1] = b[1] /\ a[2] = b[2] /\ a[3] = b[3] /\ a[4] < b[4]
      \/ a[1] = b[1] /\ a[2] = b[2] /\ a[3] = b[3] /\ a[4] = b[4] /\ a[5] < b[5]
      \/ /\ a[1] = b[1] /\ a[2] = b[2] /\ a[3] = b[3] /\ a[4] = b[4] /\ a[5] = b[5]
         /\ a[6] < b[6]
      \/ /\ a[1] = b[1] /\ a[2] = b[2] /\ a[3] = b[3] /\ a[4] = b[4] /\ a[5] = b[5]
         /\ a[6] = b[6] /\ a[7] < b[7]
  BY LessBySeven
<1>4. \/ d[1] < c[1]
      \/ d[1] = c[1] /\ d[2] < c[2]
      \/ d[1] = c[1] /\ d[2] = c[2] /\ d[3] < c[3]
      \/ d[1] = c[1] /\ d[2] = c[2] /\ d[3] = c[3] /\ d[4] < c[4]
      \/ d[1] = c[1] /\ d[2] = c[2] /\ d[3] = c[3] /\ d[4] = c[4] /\ d[5] < c[5]
      \/ /\ d[1] = c[1] /\ d[2] = c[2] /\ d[3] = c[3] /\ d[4] = c[4] /\ d[5] = c[5]
         /\ d[6] < c[6]
      \/ /\ d[1] = c[1] /\ d[2] = c[2] /\ d[3] = c[3] /\ d[4] = c[4] /\ d[5] = c[5]
         /\ d[6] = c[6] /\ d[7] < c[7]
  BY LessBySeven
<1>5. c[2] <= a[2] /\ b[2] <= d[2] /\ c[5] <= a[5] /\ b[5] <= d[5] OBVIOUS
<1>6. 1 \in 1..7 /\ 2 \in 1..7 /\ 3 \in 1..7 /\ 4 \in 1..7 /\ 5 \in 1..7 /\ 6 \in 1..7 /\ 7 \in 1..7
  OBVIOUS
<1> QED BY ONLY <1>1, <1>2, <1>3, <1>4, <1>5, <1>6

LEMMA ScanIsSteady == RankInv /\ ScanRepositories => SteadyReport
<1> SUFFICES ASSUME RankInv, ScanRepositories PROVE SteadyReport OBVIOUS
<1>1. RankTypes /\ ReportStands BY DEF RankInv
<1>2. PICK past \in [Listed -> Nat] : Remembers(past) BY DEF RankInv
<1>3. /\ report'.ordered = RankCandidates /\ report'.window = Window /\ entry' = entry
      /\ report'.batch = ToSet(FirstN(Batched, BatchSize)) /\ report'.blocked = OpenEntries \ Candidates
  BY DEF ScanRepositories
<1>4. since.edited = {} /\ ~since.merged
        => report'.batch = report.batch /\ report'.blocked = report.blocked
  BY <1>1, <1>3 DEF ReportStands
<1>5. ASSUME NEW i \in Listed \ since.edited, NEW j \in Listed \ since.edited,
             Ahead(report, i, j), Ahead(report', j, i),
             ~(j \in since.commented /\ i \notin since.commented),
             ~(i \in since.commented /\ j \in since.commented),
             ~(FollowsUp(report', j) /\ ~FollowsUp(report, j)),
             ~(FollowsUp(report, i) /\ ~FollowsUp(report', i))
      PROVE  FALSE
  <2>1. PICK recent \in [Listed -> Nat] : \A l \in Listed : recent[l] = entry[l].updated
    <3> DEFINE n == [l \in Listed |-> entry[l].updated]
    <3>1. n \in [Listed -> Nat] /\ \A l \in Listed : n[l] = entry[l].updated
      BY <1>1 DEF RankTypes, EntryRecord
    <3> HIDE DEF n
    <3> QED BY <3>1
  <2> DEFINE a == PastKey(i, past, report.window)
             b == PastKey(j, past, report.window)
             c == PastKey(i, recent, Window)
             d == PastKey(j, recent, Window)
  <2>2. Less(a, b) BY <1>2, <1>5 DEF Remembers
  <2>3. Less(d, c)
    <3> DEFINE key == [k \in Candidates |-> SortKey(k, panes)]
    <3>1. EntriesTyped BY <1>1 DEF RankTypes, EntriesTyped
    <3>2. Keyed(Candidates, 8, key) BY <3>1, CandidatesKeyed
    <3>3. report'.ordered = InOrder(Candidates, key) BY <1>3 DEF RankCandidates
    <3> HIDE DEF key
    <3>4. i \in Candidates /\ j \in Candidates /\ Less(key[j], key[i]) BY <1>5, <3>2, <3>3, AheadIsLess
    <3>5. Less(SortKey(j, panes), SortKey(i, panes)) BY <3>4 DEF key
    <3> QED BY <2>1, <3>1, <3>4, <3>5, WithoutSlots
  <2>4. entry[i] \in EntryRecord /\ entry[j] \in EntryRecord /\ i \in Listed /\ j \in Listed
    BY <1>1 DEF RankTypes
  <2>5. /\ a \in [1..7 -> Int]
        /\ a[1] = -PriorityRank[ComputePriority(i)] /\ a[2] = -Is(Unblocked(i, report.window))
        /\ a[3] = EffortRank[EstimateEffort(i)] /\ a[4] = -Is(entry[i].milestone)
        /\ a[5] = -past[i] /\ a[6] = i[1] /\ a[7] = i[2]
    BY <2>4, PastKeyTyped
  <2>6. /\ b \in [1..7 -> Int]
        /\ b[1] = -PriorityRank[ComputePriority(j)] /\ b[2] = -Is(Unblocked(j, report.window))
        /\ b[3] = EffortRank[EstimateEffort(j)] /\ b[4] = -Is(entry[j].milestone)
        /\ b[5] = -past[j] /\ b[6] = j[1] /\ b[7] = j[2]
    BY <2>4, PastKeyTyped
  <2>7. /\ c \in [1..7 -> Int]
        /\ c[1] = -PriorityRank[ComputePriority(i)] /\ c[2] = -Is(Unblocked(i, Window))
        /\ c[3] = EffortRank[EstimateEffort(i)] /\ c[4] = -Is(entry[i].milestone)
        /\ c[5] = -recent[i] /\ c[6] = i[1] /\ c[7] = i[2]
    BY <2>4, PastKeyTyped
  <2>8. /\ d \in [1..7 -> Int]
        /\ d[1] = -PriorityRank[ComputePriority(j)] /\ d[2] = -Is(Unblocked(j, Window))
        /\ d[3] = EffortRank[EstimateEffort(j)] /\ d[4] = -Is(entry[j].milestone)
        /\ d[5] = -recent[j] /\ d[6] = j[1] /\ d[7] = j[2]
    BY <2>4, PastKeyTyped
  <2> HIDE DEF a, b, c, d
  <2>9. \A k \in {1, 3, 4, 6, 7} : a[k] = c[k] /\ b[k] = d[k] BY <2>5, <2>6, <2>7, <2>8
  <2>10. b[2] <= d[2]
    <3>1. Unblocked(j, Window) => Unblocked(j, report.window) BY <1>3, <1>5 DEF FollowsUp, Unblocked
    <3> QED BY <2>6, <2>8, <3>1 DEF Is
  <2>11. c[2] <= a[2]
    <3>1. Unblocked(i, report.window) => Unblocked(i, Window) BY <1>3, <1>5 DEF FollowsUp, Unblocked
    <3> QED BY <2>5, <2>7, <3>1 DEF Is
  <2>12. past[i] <= recent[i] /\ past[i] \in Nat /\ recent[i] \in Nat BY <1>2, <2>1, <2>4 DEF Remembers
  <2>13. c[5] <= a[5] BY <2>5, <2>7, <2>12
  <2>14. j \notin since.commented BY <1>5
  <2>15. past[j] = recent[j] /\ past[j] \in Nat BY <1>2, <2>1, <2>4, <2>14 DEF Remembers
  <2>16. b[5] <= d[5] BY <2>6, <2>8, <2>15
  <2> QED BY <2>2, <2>3, <2>5, <2>6, <2>7, <2>8, <2>9, <2>10, <2>11, <2>13, <2>16, OrderTurns
<1> QED BY <1>4, <1>5 DEF SteadyReport

LEMMA RankStepIsSteady ==
  RankInv /\ [RankingNext]_rankingVars => [report' # report => SteadyReport]_rankingVars
<1> SUFFICES ASSUME RankInv, RankingNext, report' # report PROVE SteadyReport OBVIOUS
<1>1. CASE ScanRepositories BY <1>1, ScanIsSteady
<1>2. ASSUME NEW i \in Listed, CommentOn(i) PROVE FALSE BY <1>2 DEF CommentOn
<1>3. ASSUME NEW i \in Listed, EditEntry(i) PROVE FALSE BY <1>3 DEF EditEntry
<1>4. ASSUME NEW p \in Patches, MergePatch(p) PROVE FALSE BY <1>4 DEF MergePatch
<1>5. CASE FreeOrFillSlot BY <1>5 DEF FreeOrFillSlot
<1> QED BY <1>1, <1>2, <1>3, <1>4, <1>5 DEF RankingNext

\* Comments and worker slots alone change neither the judge's batch nor what is blocked
\* (tools/work_discovery_scan.py, the docstring of _cap_key), a comment moves no issue back, and
\* an issue falls behind another that was not touched only by an edit of its own or by what has
\* been merged: for any issues, labels, windows, batches and events.
THEOREM RankingStaysSteady == RankingSpec => RankingIsSteady
<1> QED BY RankInvInit, RankInvStep, RankStepIsSteady, PTL DEF RankingSpec, RankingIsSteady

-----------------------------------------------------------------------------
(* Each part keeps its type, whichever of them runs                        *)

\* A step is a step of the part that runs, and leaves the others alone.
LEMMA StepsOfAssignment ==
  ASSUME [AssignmentNext]_assignmentVars
  PROVE  /\ part' = part
         /\ [Next]_vars /\ [BaseBranchNext]_gitVars /\ [JudgeNext]_judgeVars
         /\ [DiscoveryNext]_discoveryVars /\ [RankingNext]_rankingVars
BY DEF AssignmentNext, assignmentVars

PartsTyped ==
  /\ part = "delegation" => TypeOK
  /\ CutsInv /\ JudgeInv /\ DiscoveryInv /\ RankInv

LEMMA PartsStart == AssignmentInit => PartsTyped
<1> SUFFICES ASSUME AssignmentInit PROVE PartsTyped OBVIOUS
<1>1. part = "delegation" => Init BY DEF AssignmentInit
<1>2. BaseBranchInit /\ JudgeInit /\ DiscoveryInit /\ RankingInit BY DEF AssignmentInit
<1> QED BY <1>1, <1>2, InitTypeOK, CutsInvInit, JudgeInitHolds, DiscoveryInitHolds, RankInvInit,
           BaseBranchAssumption DEF PartsTyped

LEMMA PartsStay == PartsTyped /\ [AssignmentNext]_assignmentVars => PartsTyped'
<1> SUFFICES ASSUME PartsTyped, [AssignmentNext]_assignmentVars PROVE PartsTyped' OBVIOUS
<1>1. /\ part' = part
      /\ [Next]_vars /\ [BaseBranchNext]_gitVars /\ [JudgeNext]_judgeVars
      /\ [DiscoveryNext]_discoveryVars /\ [RankingNext]_rankingVars
  BY StepsOfAssignment
<1>2. part' = "delegation" => TypeOK' BY <1>1, NextTypeOK DEF PartsTyped
<1>3. CutsInv' BY <1>1, CutsInvStep, BaseBranchAssumption DEF PartsTyped
<1>4. JudgeInv' BY <1>1, JudgeKeeps DEF PartsTyped
<1>5. DiscoveryInv' BY <1>1, DiscoveryKeeps DEF PartsTyped
<1>6. RankInv' BY <1>1, RankInvStep DEF PartsTyped
<1> QED BY <1>2, <1>3, <1>4, <1>5, <1>6 DEF PartsTyped

LEMMA DiscoveryIsTyped == DiscoveryTyped => DiscoveryTypeOK
<1> SUFFICES ASSUME DiscoveryTyped PROVE DiscoveryTypeOK OBVIOUS
<1>1. search \in Search BY DEF DiscoveryTyped
<1>2. \A e \in search.issues : e.ref \in Tickets /\ e.blockers \subseteq Refs
  BY <1>1 DEF Search, Issue
<1>3. search.open \subseteq Refs /\ search.merges \subseteq BasePulls BY <1>1 DEF Search
<1>4. DOMAIN ticket = Tickets /\ DOMAIN pull = Pulls BY DEF DiscoveryTyped
<1> QED BY <1>2, <1>3, <1>4 DEF DiscoveryTyped, DiscoveryTypeOK

\* However work is found, ranked, judged and delegated and its branch cut, each part's state
\* keeps its type: the runs, gates, directories and letters of a delegation, the clone and the
\* origin, the judge's ledger, the scan's lists, and what it ordered and capped.
THEOREM AssignmentTyped == AssignmentSpec => []AssignmentTypeOK
<1>1. PartsTyped => AssignmentTypeOK
  BY RankTypesSuffice, DiscoveryIsTyped DEF PartsTyped, CutsInv, JudgeInv, JudgeTyped, DiscoveryInv,
                          RankInv, AssignmentTypeOK
<1> QED BY <1>1, PartsStart, PartsStay, PTL DEF AssignmentSpec
=============================================================================
