----------------------------- MODULE BaseBranch -----------------------------
(***************************************************************************)
(* What an apply does in git (tools/gen_delegate_payload.py): it brings    *)
(* the base clone up to date, finds the commit to cut a task's branch      *)
(* from, adds the worktree and records the base in .git/config, or finds   *)
(* that a worktree of an earlier apply may be used again.  Meanwhile       *)
(* others push, delete branches and run git, and a sandbox leaves its      *)
(* placeholder behind where the lock of .git/config would be.              *)
(***************************************************************************)
EXTENDS Naturals

CONSTANTS Branches, Topics, unset,
          MaxCommits,  \* bound: commits at the origin, the first one included
          MaxTries,    \* bound: applies
          MaxMishaps   \* bound: git commands that fail, applies that die, locks of others

ASSUME BaseBranchAssumption == unset \notin Branches /\ {MaxCommits, MaxTries, MaxMishaps} \subseteq Nat

VARIABLES remote,  \* the origin: the tip of each branch, 0 if there is none
          pushed, tries, mishaps,
          clone,   \* the base clone: is there an origin; the branches its fetch covers;
                   \* refs/remotes/origin/*, 0 if missing; refs/remotes/origin/HEAD
          lock,    \* .git/config.lock: of nobody, a placeholder, or of a running git
          topic,   \* topic[t]: the task's branch: the base it was cut from, the commit,
                   \* the recorded claudeOrgBase; tree: has it a worktree
          attempt, \* attempt[t]: the last apply of the task
          tips     \* ghost: tips[t]: tips the origin's branches had since that apply began

gitVars == <<remote, pushed, tries, mishaps, clone, lock, topic, attempt, tips>>

BranchOrNot == Branches \union {unset}

NoBranch == [from |-> unset, at |-> 0, record |-> unset, tree |-> FALSE]

Tips(r) == {<<b, r[b]>> : b \in Branches}

Ended == {"idle", "done", "refused"}

\* --------------------------------------------------------------------------
(* The others                                                              *)

RemoteChanges(b, tip) ==
  /\ remote' = [remote EXCEPT ![b] = tip]
  /\ tips' = [t \in Topics |-> IF attempt[t].pc \in Ended THEN {} ELSE tips[t] \union Tips(remote')]
  /\ UNCHANGED <<mishaps, clone, lock, topic, attempt>>

Push(b) == pushed < MaxCommits /\ pushed' = pushed + 1 /\ RemoteChanges(b, pushed')

\* Also the default branch, when another one has taken its place.
DeleteBranch(b) == remote[b] # 0 /\ RemoteChanges(b, 0) /\ UNCHANGED pushed

Mishap == mishaps < MaxMishaps /\ mishaps' = mishaps + 1

\* The sandbox of a worker leaves an empty file; another git takes the lock, and gives it back.
LockMoves(new) == /\ lock' = new
                  /\ UNCHANGED <<remote, pushed, clone, topic, attempt, tips>>
LeavePlaceholder == lock = "none" /\ Mishap /\ LockMoves("placeholder")
TakeLock == lock = "none" /\ Mishap /\ LockMoves("git")
GiveLockBack == lock = "git" /\ UNCHANGED mishaps /\ LockMoves("none")

\* Mutant: what is tracked already is not fetched again.
FetchedIfMissing(some) ==
  [clone EXCEPT !.track = [b \in Branches |->
     IF b \in some /\ clone.track[b] = 0 THEN remote[b] ELSE clone.track[b]]]

\* The clone after a fetch of some branches: one that is gone at the origin keeps its old
\* ref, for nothing is pruned.
Fetched(some) ==
  [clone EXCEPT !.track = [b \in Branches |->
     IF b \in some /\ remote[b] # 0 THEN remote[b] ELSE clone.track[b]]]

\* A worker fetches in its worktree, which shares the clone's refs.
FetchElsewhere(b) ==
  /\ clone.origin /\ clone' = Fetched({b})
  /\ UNCHANGED <<remote, pushed, mishaps, lock, topic, attempt, tips>>

\* --------------------------------------------------------------------------
(* Steps of an apply                                                       *)

At(t, pc) == attempt[t].pc = pc
StepTo(t, pc) == attempt' = [attempt EXCEPT ![t].pc = pc]
Reads == UNCHANGED <<remote, pushed, clone, lock, topic, tips>>
Proceed(t, pc) == StepTo(t, pc) /\ Reads /\ UNCHANGED mishaps

Ends(t, how) == /\ attempt' = [attempt EXCEPT ![t] = [@ EXCEPT !.pc = how, !.ref = unset, !.again = FALSE]]
                /\ tips' = [tips EXCEPT ![t] = {}]
                /\ UNCHANGED <<remote, pushed, clone, lock>>

Refuse(t) == Ends(t, "refused") /\ UNCHANGED <<mishaps, topic>>
FailGit(t) == Mishap /\ Ends(t, "refused") /\ UNCHANGED topic

CutFrom(t, b) == /\ attempt' = [attempt EXCEPT ![t].pc = "add_clear", ![t].ref = b]
                 /\ Reads /\ UNCHANGED mishaps

\* A configured base must exist at the origin before an old worktree is used again, too.
Begin(t, base) ==
  /\ attempt[t].pc \in Ended
  /\ tries < MaxTries /\ tries' = tries + 1
  /\ attempt' = [attempt EXCEPT ![t] = [pc |-> IF base # unset THEN "ask"
                                           ELSE IF topic[t].tree THEN "compare" ELSE "fetch",
                                    base |-> base, ref |-> unset, again |-> FALSE]]
  /\ tips' = [tips EXCEPT ![t] = Tips(remote)]
  /\ UNCHANGED <<remote, pushed, mishaps, clone, lock, topic>>

Fetch(t, some, pc) ==
  /\ clone' = Fetched(some)
  /\ attempt' = [attempt EXCEPT ![t].pc = pc, ![t].ref = attempt[t].base]
  /\ UNCHANGED <<remote, pushed, mishaps, lock, topic, tips>>

FetchBaseOrigin(t) ==
  /\ At(t, "fetch")
  /\ IF clone.origin THEN Fetch(t, clone.refspec, "head") \/ FailGit(t) ELSE Proceed(t, "head")

OriginHead(t) ==
  /\ At(t, "head")
  /\ IF clone.head = unset THEN Refuse(t) ELSE CutFrom(t, clone.head)

\* After the branch is known to be there: cut from it, or use the old worktree.
Found(t) == IF topic[t].tree THEN "compare" ELSE "add_clear"

\* ls-remote; without an origin there is only the local ref to ask.
LsRemote(t) ==
  LET b == attempt[t].base IN
  /\ At(t, "ask")
  /\ IF clone.origin
     THEN \/ remote[b] # 0 /\ Proceed(t, "fetch_one")
          \/ remote[b] = 0 /\ Refuse(t)
          \/ FailGit(t)
     ELSE IF clone.track[b] = 0 THEN Refuse(t)
     ELSE /\ attempt' = [attempt EXCEPT ![t].pc = Found(t), ![t].ref = b]
          /\ Reads /\ UNCHANGED mishaps

\* The exact refspec: also for a clone that fetches other branches only.
FetchBranch(t) ==
  /\ At(t, "fetch_one")
  /\ \/ remote[attempt[t].base] # 0 /\ Fetch(t, {attempt[t].base}, Found(t))
     \/ remote[attempt[t].base] = 0 /\ Refuse(t)
     \/ FailGit(t)

\* An old worktree counts if its record names the base, or there is nothing to compare.
Expected(t) == IF attempt[t].base # unset THEN attempt[t].base ELSE clone.head

Compare(t) ==
  /\ At(t, "compare")
  /\ IF topic[t].record \in {unset, Expected(t)} \/ Expected(t) = unset
     THEN Ends(t, "done") /\ UNCHANGED <<mishaps, topic>> ELSE Refuse(t)

\* The look at the lock and its removal are two steps: an empty file, and no git runs
\* (an empty file stays if any git does). A second try waits for the removal.
LookAtLock(t, pc, unlink, next) ==
  /\ At(t, pc)
  /\ \/ lock = "placeholder" /\ Proceed(t, unlink)
     \/ ~attempt[t].again /\ Proceed(t, next)
     \/ attempt[t].again /\ Ends(t, "done") /\ UNCHANGED <<mishaps, topic>>

Unlink(t, pc, next) ==
  /\ At(t, pc)
  /\ IF lock = "none" /\ attempt[t].again
     THEN Ends(t, "done") /\ UNCHANGED <<mishaps, topic>>
     ELSE /\ StepTo(t, next) /\ lock' = "none"
          /\ UNCHANGED <<remote, pushed, mishaps, clone, topic, tips>>

\* git worktree add -b makes the branch before it needs the lock, and is not tried again.
AddWorktree(t) ==
  LET ref == attempt[t].ref IN
  /\ At(t, "add")
  /\ IF topic[t].at # 0 \/ clone.track[ref] = 0
     THEN Refuse(t)
     ELSE /\ topic' = [topic EXCEPT ![t] = [from |-> ref, at |-> clone.track[ref],
                                              record |-> unset, tree |-> lock = "none"]]
          /\ UNCHANGED mishaps
          /\ IF lock = "none"
             THEN StepTo(t, "record_clear") /\ UNCHANGED <<remote, pushed, clone, lock, tips>>
             ELSE Ends(t, "refused")

\* Best effort: a placeholder that came back is cleared once more, and a failure is no refusal.
RecordCut(t) ==
  /\ At(t, "record") /\ UNCHANGED mishaps
  /\ \/ /\ lock = "none" /\ Ends(t, "done")
        /\ topic' = [topic EXCEPT ![t].record = attempt[t].ref]
     \/ /\ lock = "git" \/ (lock = "placeholder" /\ attempt[t].again)
        /\ Ends(t, "done") /\ UNCHANGED topic
     \/ /\ lock = "placeholder" /\ ~attempt[t].again
        /\ attempt' = [attempt EXCEPT ![t].pc = "record_clear", ![t].again = TRUE] /\ Reads

Die(t) == attempt[t].pc \notin Ended /\ FailGit(t)

\* The operator removes worktree and branch, as the refusal says.
RemoveBranch(t) ==
  /\ attempt[t].pc = "refused" /\ topic[t].at # 0
  /\ topic' = [topic EXCEPT ![t] = NoBranch]
  /\ UNCHANGED <<remote, pushed, mishaps, clone, lock, attempt, tips>>

\* --------------------------------------------------------------------------
\* The clone may be old, may track branches that are gone, and may fetch only some of them.
\* Its HEAD, if set, is a branch it fetches.
BaseBranchInit ==
  /\ pushed = 1 /\ tries = 0 /\ mishaps = 0 /\ lock = "none"
  /\ remote \in [Branches -> 0..1]
  /\ \E origin \in BOOLEAN, refspec \in SUBSET Branches \ {{}}, track \in [Branches -> 0..1] :
       \E head \in refspec \union {unset} :
         clone = [origin |-> origin, refspec |-> refspec, track |-> track, head |-> head]
  /\ topic = [t \in Topics |-> NoBranch]
  /\ attempt = [t \in Topics |-> [pc |-> "idle", base |-> unset, ref |-> unset, again |-> FALSE]]
  /\ tips = [t \in Topics |-> {}]

Others == \/ \E b \in Branches : Push(b) \/ DeleteBranch(b) \/ FetchElsewhere(b)
          \/ LeavePlaceholder \/ TakeLock \/ GiveLockBack

Step(t) ==
  \/ FetchBaseOrigin(t) \/ OriginHead(t) \/ LsRemote(t) \/ FetchBranch(t) \/ Compare(t)
  \/ LookAtLock(t, "add_clear", "add_unlink", "add") \/ Unlink(t, "add_unlink", "add")
  \/ AddWorktree(t)
  \/ LookAtLock(t, "record_clear", "record_unlink", "record")
  \/ Unlink(t, "record_unlink", "record")
  \/ RecordCut(t) \/ Die(t) \/ RemoveBranch(t)

BaseBranchNext ==
  \/ (Others \/ \E t \in Topics : Step(t)) /\ UNCHANGED tries
  \/ \E t \in Topics, base \in BranchOrNot : Begin(t, base)

BaseBranchSpec == BaseBranchInit /\ [][BaseBranchNext]_gitVars

\* --------------------------------------------------------------------------
Pcs == {"idle", "fetch", "head", "ask", "fetch_one", "compare", "add_clear", "add_unlink",
        "add", "record_clear", "record_unlink", "record", "done", "refused"}

BaseBranchTypeOK ==
  /\ remote \in [Branches -> Nat]
  /\ {pushed, tries, mishaps} \subseteq Nat
  /\ clone \in [origin : BOOLEAN, refspec : SUBSET Branches, track : [Branches -> Nat],
                head : BranchOrNot]
  /\ lock \in {"none", "placeholder", "git"}
  /\ topic \in [Topics -> [from : BranchOrNot, at : Nat, record : BranchOrNot, tree : BOOLEAN]]
  /\ attempt \in [Topics -> [pc : Pcs, base : BranchOrNot, ref : BranchOrNot, again : BOOLEAN]]
  /\ tips \in [Topics -> SUBSET (Branches \X Nat)]

\* A branch that was cut just now.
JustCut(t) == attempt[t].pc \in {"record_clear", "record_unlink", "record"}

\* A task's branch is cut from a commit that the configured base had at the origin since the
\* apply began, and without a configured base from such a commit of the default branch the
\* clone knows, unless that one was missing at the origin (Issue #480 and #808); what is
\* recorded is the base it was cut from, and an apply that ends well, with a record to go by,
\* has the configured base.
CutsAreSound ==
  /\ clone.origin => \A t \in Topics : JustCut(t) =>
       \/ <<topic[t].from, topic[t].at>> \in tips[t]
       \/ attempt[t].base = unset /\ <<topic[t].from, 0>> \in tips[t]
  /\ \A t \in Topics : /\ topic[t].record \in {unset, topic[t].from}
                      /\ At(t, "done") /\ attempt[t].base # unset
                           => topic[t].record \in {unset, attempt[t].base}
=============================================================================
