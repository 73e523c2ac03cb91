---------------------------- MODULE PullRequest ----------------------------
(***************************************************************************)
(* One pull request on GitHub, as far as tools/pr_watch.py,                *)
(* tools/acceptance_merge_hook.py and tools/run_complete_on_merge.py can   *)
(* see it through gh: the head of its branch, the workflow runs and check  *)
(* rows of every head, whether the head can be merged, and the merge.      *)
(* None of this is code of the repository; it is modelled from what the    *)
(* watcher's probes distinguish.                                           *)
(***************************************************************************)
EXTENDS Naturals

CONSTANTS MaxHeads,   \* bound: commits that may become the head
          Workflows,  \* workflows that run for a pull request
          Grouped,    \* those that share a concurrency group with other runs
          Returns     \* may the branch be forced back to an earlier head

ASSUME PullRequestAssumption == /\ MaxHeads \in Nat \ {0}
                                 /\ Grouped \subseteq Workflows /\ Returns \in BOOLEAN

VARIABLES head,       \* headRefOid
          top,        \* the newest commit ever pushed
          ci,         \* ci[h][w]: the run of workflow w for head h
          conflicting,\* does mergeable read CONFLICTING for the current head
          merged      \* mergedAt: at which head, by whom

prVars == <<head, top, ci, conflicting, merged>>

Heads == 1..MaxHeads
none == 0            \* an unreadable or absent head

\* A run that waits for its concurrency group is "queued": the workflow-runs
\* API lists it, but it has no check row yet.
CiState == {"none", "queued", "running", "pass", "fail"}
Unfinished == {"queued", "running"}

PullRequestTypeOK ==
  /\ head \in Heads /\ top \in Heads
  /\ ci \in [Heads -> [Workflows -> CiState]]
  /\ conflicting \in BOOLEAN
  /\ merged \in [at : Heads \union {none}, by : {"nobody", "human", "hook"}]

PullRequestInit ==
  /\ head = 1 /\ top = 1
  /\ ci = [h \in Heads |-> [w \in Workflows |-> "none"]]
  /\ conflicting = FALSE
  /\ merged = [at |-> none, by |-> "nobody"]

\* The check rows of head h, what they add up to, and its workflow runs.
Rows(h) == {w \in Workflows : ci[h][w] \in {"running", "pass", "fail"}}
Pending(h) == \E w \in Rows(h) : ci[h][w] = "running"
HasUnfinishedRun(h) == \E w \in Workflows : ci[h][w] \in Unfinished

-----------------------------------------------------------------------------
\* A new commit, or a force-push back to one that was the head before.
NextHeads == {h \in Heads : h = top + 1 \/ (Returns /\ h <= top /\ h # head)}

Push ==
  /\ merged.at = none
  /\ \E h \in NextHeads : head' = h /\ top' = IF h > top THEN h ELSE top
  /\ conflicting' = FALSE
  /\ UNCHANGED <<ci, merged>>

\* The push event creates one run for each workflow; a conflicting head has
\* no merge ref, so nothing fires for it.
Trigger ==
  /\ ~conflicting
  /\ \A w \in Workflows : ci[head][w] = "none"
  /\ ci' = [ci EXCEPT ![head] =
               [w \in Workflows |-> IF w \in Grouped THEN "queued" ELSE "running"]]
  /\ UNCHANGED <<head, top, conflicting, merged>>

RunMoves(h, w, from, to) ==
  /\ ci[h][w] = from
  /\ ci' = [ci EXCEPT ![h][w] = to]
  /\ UNCHANGED <<head, top, conflicting, merged>>

Start(h, w) == RunMoves(h, w, "queued", "running")

Finish(h, w) == \E result \in {"pass", "fail"} : RunMoves(h, w, "running", result)

\* Mergeability is computed some time after a push, and again when the base
\* moves.  UNKNOWN and MERGEABLE are one to the watcher: no conflict to report.
Conflicts ==
  /\ ~conflicting /\ merged.at = none
  /\ conflicting' = TRUE
  /\ UNCHANGED <<head, top, ci, merged>>

\* A merge request that names the head it wants is refused for any other.
CanMerge(h) == merged.at = none /\ head = h /\ ~conflicting

MergeAt(h, who) ==
  /\ CanMerge(h)
  /\ merged' = [at |-> h, by |-> who]
  /\ UNCHANGED <<head, top, ci, conflicting>>

GitHub == \/ Push \/ Trigger \/ Conflicts
          \/ \E h \in Heads, w \in Workflows : Start(h, w) \/ Finish(h, w)

GitHubFairness == /\ WF_prVars(Trigger)
                  /\ \A h \in Heads, w \in Workflows :
                       WF_prVars(Start(h, w)) /\ WF_prVars(Finish(h, w))
=============================================================================
