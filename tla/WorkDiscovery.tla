--------------------------- MODULE WorkDiscovery ---------------------------
(***************************************************************************)
(* The scan of the work discovery, tools/work_discovery_scan.py, over two  *)
(* repositories: which open issues it proposes, and which it leaves out as *)
(* blocked or as finished by a merge into a branch that closes no issues.  *)
(* The lists are fetched one after the other, while GitHub goes on.        *)
(***************************************************************************)
EXTENDS Naturals, FiniteSets, FiniteSetsExt

CONSTANTS Home, Other, \* issues of the two repositories, in the order they are fetched
          BasePulls,   \* pull requests of the first one into its base branch
          MainPulls,   \* and into the default branch
          OpenLimit,   \* DEFAULT_OPEN_LIMIT
          MergeLimit,  \* --base-merges
          MaxNow,    \* bound: the clock
          MaxChanges   \* bound: changes on GitHub

Tickets == Home \union Other
Pulls == BasePulls \union MainPulls
Refs == Tickets \union Pulls

ASSUME DiscoveryAssumption ==
  /\ {OpenLimit, MergeLimit, MaxNow, MaxChanges} \subseteq Nat
  /\ Home \intersect Other = {} /\ BasePulls \intersect MainPulls = {}
  /\ Tickets \intersect Pulls = {} /\ IsFiniteSet(Refs)

VARIABLES ticket, \* ticket[i]: whether it is open, when it was created, what blocks it
          pull,   \* pull[p]: its state, when it was merged, what its text says it closes
          now, changes,
          search, \* the scan: what it has read, and what it answered
          seen    \* since the scan began: what stayed open, what was open once, what was finished

discoveryVars == <<ticket, pull, now, changes, search, seen>>

IsOpen(r) == IF r \in Tickets THEN ticket[r].open ELSE pull[r].state = "open"
OpenRefs == {r \in Refs : IsOpen(r)}

\* The merges into the base branch that say they close i, and are not older than i.
Closers(i) == {p \in BasePulls : /\ pull[p].state = "merged" /\ i \in pull[p].closes
                                 /\ ticket[i].created <= pull[p].at}

\* --------------------------------------------------------------------------
(* GitHub                                                                   *)

Change == /\ changes < MaxChanges /\ changes' = changes + 1
          /\ seen' = [seen EXCEPT !.steady = @ \intersect OpenRefs', !.once = @ \union OpenRefs']
          /\ UNCHANGED <<now, search>>

Create(i) == /\ ~ticket[i].open /\ ticket[i].created = MaxNow + 1
             /\ ticket' = [ticket EXCEPT ![i].open = TRUE, ![i].created = now]
             /\ UNCHANGED pull
CloseOrReopen(i) == /\ ticket[i].created <= now
                    /\ ticket' = [ticket EXCEPT ![i].open = ~@]
                    /\ UNCHANGED pull
EditText(i) == /\ \E r \in Refs \ ({i} \union ticket[i].blockers) :
                    ticket' = [ticket EXCEPT ![i].blockers = @ \union {r}]
               /\ UNCHANGED pull

\* "Closes #N" closes only when the default branch is merged into.
MergePull(p) ==
  /\ pull[p].state = "open"
  /\ \E i \in Tickets :
       /\ pull' = [pull EXCEPT ![p] = [state |-> "merged", at |-> now, closes |-> {i}]]
       /\ ticket' = IF p \in MainPulls THEN [ticket EXCEPT ![i].open = FALSE] ELSE ticket

Github == /\ \/ \E i \in Tickets : Create(i) \/ CloseOrReopen(i) \/ EditText(i)
             \/ \E p \in Pulls : MergePull(p)
          /\ Change

PassTime == /\ now < MaxNow /\ now' = now + 1
            /\ UNCHANGED <<ticket, pull, changes, search, seen>>

\* --------------------------------------------------------------------------
(* The scan                                                                 *)

NoSearch == [pc |-> "idle", issues |-> {}, open |-> {}, merges |-> {}, truncated |-> FALSE,
             proposed |-> {}, blocked |-> {}, merged |-> {}]

StartSearch ==
  /\ search.pc = "idle"
  /\ search' = [NoSearch EXCEPT !.pc = "home_issues"]
  /\ seen' = [steady |-> OpenRefs, once |-> OpenRefs,
              finished |-> {i \in Tickets : Closers(i) # {}}]
  /\ UNCHANGED <<ticket, pull, now, changes>>

\* The newest ones, as many as the limit lets through.
Earlier(i, j) == ticket[i].created < ticket[j].created

FetchOpenIssues(issues, pc, next) ==
  LET open == {i \in issues : ticket[i].open} IN
  /\ search.pc = pc
  /\ \E list \in {l \in SUBSET open : Cardinality(l) = Min({OpenLimit, Cardinality(open)})} :
       /\ \A i \in list, j \in open \ list : ~Earlier(i, j)
       /\ search' = [search EXCEPT !.pc = next,
                       !.issues = @ \union {[ref |-> i, created |-> ticket[i].created,
                                             blockers |-> ticket[i].blockers] : i \in list},
                       !.open = @ \union list,
                       !.truncated = @ \/ Cardinality(list) >= OpenLimit]
  /\ UNCHANGED <<ticket, pull, now, changes, seen>>

FetchOpenPrNumbers ==
  LET open == {p \in Pulls : pull[p].state = "open"} IN
  /\ search.pc = "home_pulls"
  /\ \E list \in {l \in SUBSET open : Cardinality(l) = Min({OpenLimit, Cardinality(open)})} :
       search' = [search EXCEPT !.pc = "home_merges", !.open = @ \union list,
                                !.truncated = @ \/ Cardinality(list) >= OpenLimit]
  /\ UNCHANGED <<ticket, pull, now, changes, seen>>

\* The merges of the base branch, the latest ones.
FetchBaseBranchMerges ==
  LET all == {p \in BasePulls : pull[p].state = "merged"} IN
  /\ search.pc = "home_merges"
  /\ \E list \in {l \in SUBSET all : Cardinality(l) = Min({MergeLimit, Cardinality(all)})} :
       /\ \A p \in list, q \in all \ list : pull[p].at >= pull[q].at
       /\ search' = [search EXCEPT !.pc = "other_issues", !.merges = list,
                                   !.truncated = @ \/ Cardinality(list) >= MergeLimit]
  /\ UNCHANGED <<ticket, pull, now, changes, seen>>

\* Mutant: any of the merges that close an issue.
ClosedAnyhow(issue) == \E p \in search.merges : issue.ref \in pull[p].closes

\* Of the merges that close an issue the newest one counts, and not for a younger issue.
ClosedByBaseMerge(issue) ==
  LET closing == {p \in search.merges : issue.ref \in pull[p].closes} IN
  closing # {} /\ issue.created <= Max({pull[p].at : p \in closing})

\* What a base merge has finished is proposed no more and blocks nobody; of the rest, what
\* names a reference that was read as open is blocked.
ScanRepos ==
  LET done == {issue \in search.issues : ClosedByBaseMerge(issue)}
      open == search.open \ {issue.ref : issue \in done}
      blocked == {issue \in search.issues \ done : issue.blockers \intersect open # {}}
  IN /\ search.pc = "rank"
     /\ search' = [search EXCEPT !.pc = "done", !.merged = done, !.blocked = blocked,
                                 !.proposed = search.issues \ (done \union blocked)]
     /\ UNCHANGED <<ticket, pull, now, changes, seen>>

\* --------------------------------------------------------------------------
\* An issue that does not exist yet has a creation time to come.
DiscoveryInit ==
  /\ ticket \in [Tickets -> [open : BOOLEAN, created : {0, MaxNow + 1}, blockers : {{}}]]
  /\ \A i \in Tickets : ticket[i].created > 0 => ~ticket[i].open
  /\ pull = [p \in Pulls |-> [state |-> "open", at |-> 0, closes |-> {}]]
  /\ now = 0 /\ changes = 0 /\ search = NoSearch
  /\ seen = [steady |-> {}, once |-> {}, finished |-> {}]

DiscoveryNext ==
  \/ Github \/ PassTime \/ StartSearch
  \/ FetchOpenIssues(Home, "home_issues", "home_pulls")
  \/ FetchOpenPrNumbers \/ FetchBaseBranchMerges
  \/ FetchOpenIssues(Other, "other_issues", "rank")
  \/ ScanRepos

DiscoverySpec == DiscoveryInit /\ [][DiscoveryNext]_discoveryVars

DiscoveryTypeOK ==
  /\ now \in 0..MaxNow /\ changes \in 0..MaxChanges
  /\ DOMAIN ticket = Tickets /\ DOMAIN pull = Pulls
  /\ \A issue \in search.issues : issue.ref \in Tickets /\ issue.blockers \subseteq Refs
  /\ search.open \subseteq Refs /\ search.merges \subseteq BasePulls

\* Unless a list was cut short, no issue is proposed while something that it says blocks it
\* stayed open throughout the scan and no base merge finished that, nor when a base merge had
\* finished it before the scan began; none is left out as blocked by what was open at no
\* moment of the scan, nor as finished by a merge that is older than it.
ProposalsAreSound ==
  /\ ~search.truncated => \A issue \in search.proposed :
       /\ issue.ref \notin seen.finished
       /\ \A r \in issue.blockers \intersect seen.steady : r \in Tickets /\ Closers(r) # {}
  /\ \A issue \in search.blocked : issue.blockers \intersect seen.once # {}
  /\ \A issue \in search.merged : Closers(issue.ref) # {}
=============================================================================
