-------------------------- MODULE CandidateRanking --------------------------
(***************************************************************************)
(* How a scan (tools/work_discovery_scan.py) orders the open issues it has *)
(* read, which of them fill the goal judge's batch, and what changes in    *)
(* that from one scan to the next while issues are edited and commented    *)
(* on, pull requests merge and worker slots come free.                     *)
(***************************************************************************)
EXTENDS Naturals, Integers, Sequences, FiniteSets, SequencesExt

CONSTANTS Repos, Numbers,     \* the issues, in the order of their repositories and numbers
          PullNumbers,        \* pull requests of each repository
          TopN, BatchSize,    \* --top, the judge's cap
          RecentMerges,       \* --recent-merges
          MaxEvents           \* bound: what happens on GitHub, and slots that come and go

Listed == Repos \X Numbers
Patches == Repos \X PullNumbers

ASSUME RankingAssumption ==
  /\ Listed \subseteq Nat \X Nat /\ IsFiniteSet(Listed) /\ Numbers \intersect PullNumbers = {}
  /\ {TopN, BatchSize, RecentMerges, MaxEvents} \subseteq Nat

VARIABLES entry,   \* entry[i]: an issue: open, labels, body, milestone, blockers, updated
          landed,  \* the merges so far, in their order: the pull request, what it closes, what
                   \* it only refers to
          panes,   \* free worker slots
          events,
          report,  \* the last scan: its order, the blocked, the batch, the merges it went by
          since    \* since then: has an issue or a merge changed; the issues commented on

rankingVars == <<entry, landed, panes, events, report, since>>

OpenEntries == {i \in Listed : entry[i].open}
OpenPatches == Patches \ {landed[k].pull : k \in DOMAIN landed}

\* --------------------------------------------------------------------------
(* The axes                                                                *)

PriorityRank == [high |-> 2, medium |-> 1, low |-> 0]
PriorityLabel == [p0 |-> "high", p1 |-> "medium", p2 |-> "low"]
SizeLabel == [XS |-> "S", M |-> "M", XL |-> "L"]
EffortRank == [S |-> 0, M |-> 1, L |-> 2]

\* The first of an issue's labels that says something of the kind, or none.
FirstOf(labels, meaning) == SelectInSeq(labels, LAMBDA l : l \in DOMAIN meaning)

ComputePriority(i) ==
  LET labels == entry[i].labels
      k == FirstOf(labels, PriorityLabel)
  IN CASE k > 0 -> PriorityLabel[labels[k]]
       [] k = 0 /\ Contains(labels, "backlog") -> "low"
       [] OTHER -> "medium"

\* Without a label the body decides: its length and its acceptance criteria, in one class.
EstimateEffort(i) ==
  LET labels == entry[i].labels
      k == FirstOf(labels, SizeLabel)
  IN IF k > 0 THEN SizeLabel[labels[k]] ELSE entry[i].body

\* A reference that is not open any more blocks nobody.
OpenBlocking(i) == entry[i].blockers \intersect (OpenEntries \union OpenPatches)
Blocked(i) == Contains(entry[i].labels, "on-hold") \/ OpenBlocking(i) # {}
Candidates == {i \in OpenEntries : ~Blocked(i)}

\* The latest merges of a repository.
LatestMerges(list, repo) ==
  LET of == SelectSeq(list, LAMBDA m : m.pull[1] = repo)
  IN ToSet(IF Len(of) <= RecentMerges THEN of ELSE SubSeq(of, Len(of) - RecentMerges + 1, Len(of)))

Window == UNION {LatestMerges(landed, r) : r \in Repos}

\* What it waited for has just been merged or closed, or a merge refers to it.
Unblocked(i, window) ==
  \/ \E m \in window : entry[i].blockers \intersect ({m.pull} \union m.closes) # {}
  \/ \E m \in window : i \in m.closes \union m.refs

\* --------------------------------------------------------------------------
(* The order                                                               *)

Is(b) == IF b THEN 1 ELSE 0

\* Smaller is better; of two equals the one of the first repository, then the lower number.
SortKey(i, free) ==
  <<-PriorityRank[ComputePriority(i)], -Is(Unblocked(i, Window)),
    -Is(OpenBlocking(i) = {} /\ free > 0), EffortRank[EstimateEffort(i)],
    -Is(entry[i].milestone), -entry[i].updated, i[1], i[2]>>

\* Mutant: the judge's batch goes by the whole key.
SortKeyOnly(i) == SortKey(i, panes)

\* Without the recency, and as if no slots were known.
CapKey(i) == RemoveAt(SortKey(i, 0), 6)

Less(s, t) == \E k \in DOMAIN s : s[k] < t[k] /\ \A j \in 1..(k - 1) : s[j] = t[j]

\* The elements of a set by their keys, of which no two are alike.
InOrder(S, key) ==
  CHOOSE s \in [1..Cardinality(S) -> S] : \A m, n \in DOMAIN s : m < n => Less(key[s[m]], key[s[n]])

RankCandidates == InOrder(Candidates, [i \in Candidates |-> SortKey(i, panes)])
Batched == InOrder(Candidates, [i \in Candidates |-> CapKey(i)])

FirstN(s, n) == SubSeq(s, 1, IF Len(s) < n THEN Len(s) ELSE n)

ScanRepositories ==
  /\ report' = [ordered |-> RankCandidates, top |-> FirstN(RankCandidates, TopN),
                blocked |-> OpenEntries \ Candidates,
                batch |-> ToSet(FirstN(Batched, BatchSize)), window |-> Window]
  /\ since' = [edited |-> {}, merged |-> FALSE, commented |-> {}]
  /\ UNCHANGED <<entry, landed, panes, events>>

\* --------------------------------------------------------------------------
(* The others                                                              *)

Event == events < MaxEvents /\ events' = events + 1

CommentOn(i) ==
  /\ entry[i].open /\ Event
  /\ entry' = [entry EXCEPT ![i].updated = events']
  /\ since' = [since EXCEPT !.commented = @ \union {i}]
  /\ UNCHANGED <<landed, panes, report>>

LabelLists == {<<>>, <<"p0">>, <<"backlog">>, <<"backlog", "p1", "p0">>, <<"XL">>, <<"on-hold">>}

EditEntry(i) ==
  /\ entry[i].open /\ Event
  /\ \/ \E labels \in LabelLists :
          entry' = [entry EXCEPT ![i].labels = labels, ![i].updated = events']
     \/ \E body \in {"S", "M"}, milestone \in BOOLEAN,
           blockers \in {{}} \union {{r} : r \in (Listed \union Patches) \ {i}} :
          entry' = [entry EXCEPT ![i].body = body, ![i].milestone = milestone,
                                 ![i].blockers = blockers, ![i].updated = events']
  /\ since' = [since EXCEPT !.edited = @ \union {i}, !.commented = @ \union {i}]
  /\ UNCHANGED <<landed, panes, report>>

\* A merge closes what it says it closes, if it is in the default branch.
MergePatch(p) ==
  /\ p \in OpenPatches /\ Event
  /\ \E i \in Listed : \E closes \in {{}, {i}} :
       /\ landed' = Append(landed, [pull |-> p, closes |-> closes, refs |-> {i}])
       /\ entry' = [j \in Listed |-> [entry[j] EXCEPT !.open = @ /\ j \notin closes]]
  /\ since' = [since EXCEPT !.merged = TRUE]
  /\ UNCHANGED <<panes, report>>

FreeOrFillSlot ==
  /\ Event /\ panes' = 1 - panes
  /\ UNCHANGED <<entry, landed, report, since>>

\* --------------------------------------------------------------------------
RankingInit ==
  /\ entry = [i \in Listed |-> [open |-> TRUE, labels |-> <<>>, body |-> "M", milestone |-> FALSE,
                                blockers |-> {}, updated |-> 0]]
  /\ landed = <<>> /\ panes = 0 /\ events = 0
  /\ report = [ordered |-> <<>>, top |-> <<>>, blocked |-> {}, batch |-> {}, window |-> {}]
  /\ since = [edited |-> Listed, merged |-> TRUE, commented |-> {}]

RankingNext ==
  \/ ScanRepositories \/ FreeOrFillSlot
  \/ \E i \in Listed : CommentOn(i) \/ EditEntry(i)
  \/ \E p \in Patches : MergePatch(p)

RankingSpec == RankingInit /\ [][RankingNext]_rankingVars

\* --------------------------------------------------------------------------
RankingTypeOK ==
  /\ DOMAIN entry = Listed /\ events \in 0..MaxEvents /\ panes \in 0..1
  /\ \A i \in Listed : entry[i].updated \in 0..events
  /\ report.blocked \subseteq Listed /\ report.batch \subseteq ToSet(report.ordered)
  /\ Len(report.top) <= TopN /\ IsInjective(report.ordered)
  /\ since.edited \subseteq Listed /\ since.commented \subseteq Listed

\* Was i ahead of j in a report.
PlaceOf(list, i) == SelectInSeq(list, LAMBDA k : k = i)
Ahead(r, i, j) == {i, j} \subseteq ToSet(r.ordered) /\ PlaceOf(r.ordered, i) < PlaceOf(r.ordered, j)

\* Refers a merge that the report went by to i, or to what i waited for.
FollowsUp(r, i) == Unblocked(i, r.window)

SteadyReport ==
  /\ since.edited = {} /\ ~since.merged => report'.batch = report.batch /\ report'.blocked = report.blocked
  /\ \A i, j \in Listed \ since.edited :
       Ahead(report, i, j) /\ Ahead(report', j, i)
         => \/ j \in since.commented /\ i \notin since.commented
            \/ i \in since.commented /\ j \in since.commented
            \/ FollowsUp(report', j) /\ ~FollowsUp(report, j)
            \/ FollowsUp(report, i) /\ ~FollowsUp(report', i)

\* From one scan to the next: comments and worker slots alone change neither the judge's batch
\* nor what is blocked (the docstring of _cap_key), a comment moves no issue back, and an issue
\* falls behind another that was not touched only by an edit of its own, or when a merge
\* speaks for the other or those that spoke for it have left the window.
RankingIsSteady == [][report' # report => SteadyReport]_rankingVars
=============================================================================
