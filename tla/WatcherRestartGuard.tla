------------------------ MODULE WatcherRestartGuard ------------------------
(***************************************************************************)
(* tools/watcher_restart_guard.py: is anything watching the commit that    *)
(* was pushed last?  It is answered from the events alone: fix_pushed, the *)
(* launch rows of the watchers (pr_watch_pane_started), which the          *)
(* secretary writes after the fact, and the terminal rows of the watches,  *)
(* which do not say whose they are.                                        *)
(***************************************************************************)
EXTENDS Integers, Sequences, FiniteSets, FiniteSetsExt

CONSTANTS MaxFixes,   \* bound: pushes after the first
          MaxWatchers, \* bound: watchers launched
          MaxRows,     \* bound: rows of the log
          MaxForeign   \* bound: rows of a PR with this number elsewhere

ASSUME GuardAssumption == {MaxFixes, MaxWatchers, MaxRows, MaxForeign} \subseteq Nat

VARIABLES trail,    \* the events of this PR number, in order
          tip,      \* the head on the remote; 1 is the first
          watches,  \* the watcher processes, in the order they were spawned
          launching, \* the watcher whose launch row is still to be written, or 0
          late,      \* ghost: launch rows written after their watch had ended
          silent     \* ghost: a watch ended without a row

guardVars == <<trail, tip, watches, launching, late, silent>>

Unread == 0
Heads == 1..(MaxFixes + 1)
Phases == {"ci", "merge", "ended"}

\* repo: as the row has it.  commit: the head it names.  truth: the head it is really
\* about, which no reader sees; 0 when it is of another repository.
Row(kind, repo, commit, status, truth) ==
  [kind |-> kind, repo |-> repo, commit |-> commit, status |-> status, truth |-> truth]

Terminals == {"ci_completed", "pr_merged", "pr_watch_aborted"}
Repos == {"mine", "other", "none"} \* none: the row carries no repo

-----------------------------------------------------------------------------
(* The verdict                                                             *)

Found(kind, repos) == {i \in DOMAIN trail : trail[i].kind = kind /\ trail[i].repo \in repos}

Baselines == Found("fix_pushed", {"mine"})
LastPush == IF Baselines = {} THEN 0 ELSE Max(Baselines)

\* Proof of monitoring needs the repo; a row that may have ended one does not.
Watchers == Found("pr_watch_pane_started", {"mine"})
EndRows == UNION {Found(kind, {"mine", "none"}) : kind \in Terminals}

Claim(w, claims) ==
  LET free == {j \in EndRows : j > w /\ \A v \in DOMAIN claims : claims[v] # j}
  IN [v \in DOMAIN claims \union {w} |->
        IF v # w THEN claims[v] ELSE IF free = {} THEN 0 ELSE Min(free)]

\* Each watcher, oldest first, claims the first terminal after it that is unclaimed.
Claims ==
  LET upTo[i \in 0..Len(trail)] ==
        IF i = 0 THEN << >>
        ELSE IF i \in Watchers THEN Claim(i, upTo[i - 1]) ELSE upTo[i - 1]
  IN upTo[Len(trail)]

Unclaimed == {j \in EndRows : j > LastPush /\ \A w \in Watchers : Claims[w] # j}

\* Mutant: a watch ends only after its launch is recorded.
OwnTerminal(w) == Claims[w]

\* A watch may end before its launch is recorded: what is left over since the last push
\* is the newest watcher's.
TerminalOf(w) == IF Claims[w] # 0 THEN Claims[w]
                 ELSE IF Unclaimed = {} THEN 0 ELSE Max(Unclaimed)

\* Evidence of an end is no conclusion unless it is known to be this PR's.
Conclusive(end) == /\ end.repo = "mine"
                   /\ end.kind = "ci_completed" => end.status \in {"passed", "failed"}
                   /\ end.kind # "pr_watch_aborted"

OlderHead(end) ==
  LET pushed == IF LastPush = 0 THEN Unread ELSE trail[LastPush].commit
  IN Unread \notin {pushed, end.commit} /\ pushed # end.commit

VerdictOn(w) ==
  LET end == trail[TerminalOf(w)]
  IN IF w <= LastPush THEN "stale"
     ELSE IF TerminalOf(w) = 0 THEN "live"
     ELSE IF ~Conclusive(end) THEN "ended_inconclusive"
     ELSE IF end.kind = "ci_completed" /\ OlderHead(end) THEN "ended_stale_head"
     ELSE "completed"

Evaluate == IF Watchers = {} THEN "missing" ELSE VerdictOn(Max(Watchers))

-----------------------------------------------------------------------------
(* The pull request, the secretary and the watchers                        *)

Log(row) == Len(trail) < MaxRows /\ trail' = Append(trail, row)

Merged == \E i \in DOMAIN trail : trail[i].kind = "pr_merged" /\ trail[i].truth # 0

PushFix == /\ tip <= MaxFixes /\ ~Merged
        /\ tip' = tip + 1
        /\ UNCHANGED <<trail, watches, launching, late, silent>>

\* The secretary records the push, with a sha that can be read or without.
RecordPush ==
  /\ launching = 0
  /\ tip > 1 /\ \A i \in Baselines : trail[i].truth < tip
  /\ \E commit \in {Unread, tip} : Log(Row("fix_pushed", "mine", commit, "none", tip))
  /\ UNCHANGED <<tip, watches, launching, late, silent>>

\* The pane is spawned, and looked at before its row is written.
SpawnWatch ==
  /\ launching = 0 /\ Len(watches) < MaxWatchers
  /\ watches' = Append(watches, [base |-> tip, phase |-> "ci"])
  /\ launching' = Len(watches) + 1
  /\ UNCHANGED <<trail, tip, late, silent>>

\* The row may lack the repo, or be forgotten.
RecordLaunch ==
  /\ launching # 0 /\ launching' = 0
  /\ \/ \E repo \in {"mine", "none"} :
          /\ Log(Row("pr_watch_pane_started", repo, Unread, "none", watches[launching].base))
          /\ late' = IF watches[launching].phase = "ended" THEN late \union {Len(trail')} ELSE late
     \/ UNCHANGED <<trail, late>>
  /\ UNCHANGED <<tip, watches, silent>>

\* A watch of a PR with this number in another repository.
ForeignRow ==
  /\ Cardinality({i \in DOMAIN trail : trail[i].truth = 0}) < MaxForeign
  /\ \E kind \in Terminals \union {"pr_watch_pane_started"}, repo \in {"other", "none"} :
       Log(Row(kind, repo, Unread, IF kind = "ci_completed" THEN "passed" ELSE "none", 0))
  /\ UNCHANGED <<tip, watches, launching, late, silent>>

Now(i, phase) == watches' = [watches EXCEPT ![i] = [base |-> tip, phase |-> phase]]

\* ci-watch: a verdict, on a head between the round's first and the newest.
CiVerdict(i) ==
  /\ watches[i].phase = "ci"
  /\ \E h \in watches[i].base..tip, status \in {"passed", "failed", "indeterminate"} :
       /\ \E commit \in {Unread, h} :
            Log(Row("ci_completed", "mine", commit, status, h))
       /\ \E next \in IF status = "passed" THEN {"merge", "ended"} ELSE {"ended"} :
            watches' = [watches EXCEPT ![i] = [base |-> h, phase |-> next]]
  /\ UNCHANGED <<tip, launching, late, silent>>

\* merge-watch: the head moves, and it is ci-watch again.
HeadMoves(i) == /\ watches[i].phase = "merge" /\ watches[i].base < tip
                /\ Now(i, "ci")
                /\ UNCHANGED <<trail, tip, launching, late, silent>>

\* merge-watch finds it merged.
SeeMerged(i) == /\ watches[i].phase = "merge"
                /\ Log(Row("pr_merged", "mine", tip, "none", tip))
                /\ Now(i, "ended")
                /\ UNCHANGED <<tip, launching, late, silent>>

\* The watch dies on an exception, or waits for the merge too long.
AbortWatch(i) == /\ watches[i].phase # "ended"
                 /\ Log(Row("pr_watch_aborted", "mine", Unread, "none", tip))
                 /\ Now(i, "ended")
                 /\ UNCHANGED <<tip, launching, late, silent>>

\* Ctrl-C before a verdict, or a pane closed over it: no row at all.
SilentEnd(i) == /\ watches[i].phase # "ended"
                /\ silent' = TRUE
                /\ Now(i, "ended")
                /\ UNCHANGED <<trail, tip, launching, late>>

-----------------------------------------------------------------------------
GuardInit == trail = <<>> /\ tip = 1 /\ watches = <<>> /\ launching = 0 /\ late = {} /\ silent = FALSE

GuardNext ==
  \/ PushFix \/ RecordPush \/ SpawnWatch \/ RecordLaunch \/ ForeignRow
  \/ \E i \in DOMAIN watches : 
       CiVerdict(i) \/ HeadMoves(i) \/ SeeMerged(i) \/ AbortWatch(i) \/ SilentEnd(i)

GuardSpec == GuardInit /\ [][GuardNext]_guardVars

GuardTypeOK ==
  /\ tip \in Heads /\ launching \in 0..Len(watches)
  /\ watches \in Seq([base : Heads, phase : Phases])
  /\ \A i \in DOMAIN trail :
       /\ trail[i].kind \in Terminals \union {"fix_pushed", "pr_watch_pane_started"}
       /\ trail[i].repo \in Repos
       /\ {trail[i].commit, trail[i].truth} \subseteq Heads \union {Unread}

Watching == \E i \in DOMAIN watches : watches[i].phase # "ended"

\* If no watch ends without a row, the newest watch on record is said to be live only if
\* one is running, whether its own launch was recorded before it ended or after, unless
\* an older launch was recorded after its end.
LiveIsWatched ==
  ~Watching /\ ~silent /\ Evaluate = "live" => ~(late \subseteq {Max(Watchers)})

\* "completed" rests on a terminal of this pull request: one of another repository with
\* the same number, or one that does not say, never passes for it.
CompletedIsOurs ==
  (\E i \in DOMAIN trail : trail[i].truth = 0) /\ Evaluate = "completed"
    => trail[TerminalOf(Max(Watchers))].truth # 0

\* The guard takes neither a push for watched that is not, nor a foreign verdict for its own.
VerdictsHold == LiveIsWatched /\ CompletedIsOurs

\* As the documentation of _terminal_of has it, a watch that ended before its launch was
\* recorded does not leave the guard answering "live" for watches that are over.
LiveWheneverLate == Evaluate = "live" /\ ~silent => Watching
=============================================================================
