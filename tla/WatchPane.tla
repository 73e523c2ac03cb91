----------------------------- MODULE WatchPane -----------------------------
(***************************************************************************)
(* tools/spawn_watch_pane.py, with the anchors tools/pick_watcher_anchor.py*)
(* offers it: the secretary puts the watcher of a pull request into a pane *)
(* of the background tab, waits for its start to be confirmed, and         *)
(* otherwise takes it away again and splits its own tab.  A call of the    *)
(* terminal may be refused, or end with its outcome unknown.               *)
(***************************************************************************)
EXTENDS Integers, Sequences, FiniteSets, FiniteSetsExt

CONSTANTS Prs,      \* pull requests, by number
          OwnTab,   \* the panes of the secretary's tab at the start
          FullTab,  \* the size of a tab
          MaxSpawns \* bound: panes spawned

ASSUME WatchPaneAssumption == MaxSpawns \in Nat /\ Prs \subseteq Nat \ {0}

VARIABLES shown, \* the panes there are, in the secretary's tab and in the watch tab
          born,  \* panes spawned so far
          call,  \* the run of the script under way
          blind  \* ghost: a run could not list the panes of every tab

paneVars == <<shown, born, call, blind>>

\* A pane: its id, role, tab, place and size; pr is the number in its name, or 0.
Sized(p, size) == [p EXCEPT !.width = size.width, !.height = size.height]

Calls == [pc : {"idle", "list", "split", "new_tab", "wait", "close", "own", "own_split"},
          pr : Prs \union {0}, left : Seq(Nat), new : Nat]
NoCall == [pc |-> "idle", pr |-> 0, left |-> <<>>, new |-> 0]

-----------------------------------------------------------------------------
(* The anchors                                                             *)

Floor == [width |-> 20, height |-> 5]
SecretaryFloor == [width |-> 120, height |-> 30]
DispatcherWidth == 80
AnchorRoles == {"dispatcher", "watcher", "attention", "secretary"}
Roles == AnchorRoles \union {"worker"} \* a worker stands for whoever is not cut

\* One cut of a pane in two, and what it leaves.
Cut(p, direction) ==
  IF direction = "vertical" THEN [width |-> p.width \div 2, height |-> p.height]
                            ELSE [width |-> p.width, height |-> p.height \div 2]
Clears(size, floor) == size.width >= floor.width /\ size.height >= floor.height

\* Mutant: the floor of every pane is the secretary's too.
SplitOptionsOneFloor(p) == {d \in {"vertical", "horizontal"} : Clears(Cut(p, d), Floor)}

SplitOptions(p) == {d \in {"vertical", "horizontal"} :
                      /\ Clears(Cut(p, d), Floor)
                      /\ p.role = "secretary" => Clears(Cut(p, d), SecretaryFloor)}

Metric(p, d) == IF d = "vertical" THEN Cut(p, d).width ELSE Cut(p, d).height

\* The roomier cut, vertical when equal.
Roomier(p) == IF SplitOptions(p) = {"vertical", "horizontal"}
              THEN IF Metric(p, "vertical") >= Metric(p, "horizontal")
                   THEN "vertical" ELSE "horizontal"
              ELSE CHOOSE d \in SplitOptions(p) : TRUE

\* The dispatcher is split while it keeps its comfort width, and last of all below it.
Comfortable(p) == /\ p.role = "dispatcher" /\ "vertical" \in SplitOptions(p)
                  /\ Cut(p, "vertical").width >= DispatcherWidth
Direction(p) == IF Comfortable(p) THEN "vertical" ELSE Roomier(p)
Tier(p) == CASE Comfortable(p) -> 0
             [] p.role \in {"watcher", "attention"} -> 1
             [] p.role = "secretary" -> 2
             [] OTHER -> 3

Share(a, b, x, w, y, h) == (a[x] + a[w] = b[x] \/ b[x] + b[w] = a[x])
                           /\ Max({a[y], b[y]}) < Min({a[y] + a[h], b[y] + b[h]})
Adjacent(a, b) == \/ Share(a, b, "x", "width", "y", "height")
                  \/ Share(a, b, "y", "height", "x", "width")
\* Watchers next to the dispatcher come first among themselves.
Apart(p, all) == IF Tier(p) = 1 /\ ~\E d \in all : d.role = "dispatcher" /\ Adjacent(p, d)
                 THEN 1 ELSE 0

Offered(all) == {p \in all : p.role \in AnchorRoles /\ SplitOptions(p) # {}}

Better(p, q, all) ==
  LET rank(r) == <<Tier(r), Apart(r, all), 0 - Metric(r, Direction(r)), r.id>>
      differ == {i \in 1..4 : rank(p)[i] # rank(q)[i]}
  IN differ # {} /\ rank(p)[Min(differ)] < rank(q)[Min(differ)]

\* The candidates in the order they are tried.
Candidates(all) ==
  [i \in 1..Cardinality(Offered(all)) |->
     (CHOOSE p \in Offered(all) :
        Cardinality({q \in Offered(all) : Better(q, p, all)}) = i - 1).id]

\* At the start the tab has panes of one number each, no watcher, and room in all of them.
ASSUME TabAssumption ==
  /\ IsFiniteSet(OwnTab) /\ Cardinality(OwnTab) <= MaxSpawns
  /\ \A p \in OwnTab :
       /\ p \in [id : 1..Cardinality(OwnTab), role : Roles, pr : {0}, tab : {"own"},
                 x : Nat, y : Nat, width : Nat, height : Nat]
       /\ \A q \in OwnTab : p.id = q.id => p = q
       /\ Clears(p, Floor) /\ (p.role = "secretary" => Clears(p, SecretaryFloor))
  /\ FullTab \in [width : Nat, height : Nat] /\ Clears(FullTab, Floor)

-----------------------------------------------------------------------------
(* The run of the script                                                   *)

In(tab) == {p \in shown : p.tab = tab}
ById(id) == CHOOSE p \in shown : p.id = id
Running(pr, panes) == \E p \in panes : p.pr = pr

Goto(pc, left, new) == call' = [call EXCEPT !.pc = pc, !.left = left, !.new = new]
Exit == call' = NoCall \* 0, 1, 2: the caller is told, and nothing is left to do

\* The terminal halves a pane: the new one takes the far half.
Halved(p) ==
  LET d == Direction(p)
      new == Cut(p, d)
      old == IF d = "vertical" THEN [width |-> p.width - new.width, height |-> p.height]
                               ELSE [width |-> p.width, height |-> p.height - new.height]
  IN {Sized(p, old),
      Sized([p EXCEPT !.id = born + 1, !.role = "watcher", !.pr = call.pr,
                      !.x = IF d = "vertical" THEN p.x + old.width ELSE p.x,
                      !.y = IF d = "vertical" THEN p.y ELSE p.y + old.height], new)}

SplitInto(p) == /\ shown' = (shown \ {p}) \union Halved(p)
                /\ born' = born + 1

StartRun(pr) == /\ call.pc = "idle"
                /\ call' = [NoCall EXCEPT !.pc = "list", !.pr = pr]
                /\ UNCHANGED <<shown, born, blind>>

\* list_panes of every tab, which may be unavailable.
ListAll ==
  /\ call.pc = "list"
  /\ \/ /\ IF Running(call.pr, shown) THEN Exit
           ELSE Goto("split", Candidates(In("watch")), 0)
        /\ UNCHANGED blind
     \/ Goto("own", <<>>, 0) /\ blind' = TRUE
  /\ UNCHANGED <<shown, born>>

\* The next candidate.  Whether a spawn without an answer took effect is not known, and
\* nothing is spawned after it.  A pane that closed meanwhile is refused.
TrySplit ==
  /\ call.pc \in {"split", "own_split"} /\ call.left # <<>>
  /\ LET target == {p \in shown : p.id = Head(call.left)} IN
     \/ /\ target # {} /\ born < MaxSpawns
        /\ SplitInto(ById(Head(call.left)))
        /\ \/ IF call.pc = "split" THEN Goto("wait", <<>>, born + 1) ELSE Exit
           \/ Exit
     \/ Goto(call.pc, Tail(call.left), 0) /\ UNCHANGED <<shown, born>> \* refused
     \/ Exit /\ UNCHANGED <<shown, born>>                              \* unknown
  /\ UNCHANGED blind

Exhausted ==
  /\ call.pc \in {"split", "own_split"} /\ call.left = <<>>
  /\ IF call.pc = "split" THEN Goto("new_tab", <<>>, 0) ELSE Exit
  /\ UNCHANGED <<shown, born, blind>>

NewTab ==
  /\ call.pc = "new_tab"
  /\ \/ /\ born < MaxSpawns /\ born' = born + 1
        /\ shown' = shown \union
             {[id |-> born + 1, role |-> "watcher", pr |-> call.pr, tab |-> "watch",
               x |-> 0, y |-> 0, width |-> FullTab.width, height |-> FullTab.height]}
        /\ Goto("wait", <<>>, born + 1) \/ Exit
     \/ Goto("own", <<>>, 0) /\ UNCHANGED <<shown, born>>
     \/ Exit /\ UNCHANGED <<shown, born>>
  /\ UNCHANGED blind

\* pr_watch_started arrives with its ping delivered, or not in time, or not delivered.
WaitStarted ==
  /\ call.pc = "wait"
  /\ Exit \/ Goto("close", <<>>, call.new)
  /\ UNCHANGED <<shown, born, blind>>

\* Mutant: a close that fails is as good as one that does not.
CloseRegardless ==
  /\ call.pc = "close"
  /\ shown' \in {shown, {p \in shown : p.id # call.new}}
  /\ Goto("own", <<>>, 0)
  /\ UNCHANGED <<born, blind>>

\* The pane is closed, or was gone already; otherwise the run ends here.
CloseNew ==
  /\ call.pc = "close"
  /\ \/ shown' = {p \in shown : p.id # call.new} /\ Goto("own", <<>>, 0)
     \/ shown' \in {shown, {p \in shown : p.id # call.new}} /\ Exit
  /\ UNCHANGED <<born, blind>>

\* The fallback, in the secretary's own tab; its list may fail too.
OwnTabNow ==
  /\ call.pc = "own"
  /\ \/ IF Running(call.pr, In("own")) THEN Exit
        ELSE Goto("own_split", Candidates(In("own")), 0)
     \/ Goto("own_split", <<>>, 0)
  /\ UNCHANGED <<shown, born, blind>>

\* A watch ends, and its pane closes itself.  The room it leaves is not used again here.
PaneCloses == /\ \E p \in shown : p.pr # 0 /\ shown' = shown \ {p}
              /\ UNCHANGED <<born, call, blind>>

-----------------------------------------------------------------------------
PaneInit == shown = OwnTab /\ born = Cardinality(OwnTab) /\ call = NoCall /\ blind = FALSE

PaneNext ==
  \/ \E pr \in Prs : StartRun(pr)
  \/ ListAll \/ TrySplit \/ Exhausted \/ NewTab \/ WaitStarted \/ CloseNew \/ OwnTabNow
  \/ PaneCloses

PaneSpec == PaneInit /\ [][PaneNext]_paneVars

PaneTypeOK ==
  /\ \A p \in shown : /\ p.tab \in {"own", "watch"} /\ p.pr \in Prs \union {0}
                      /\ p.id \in 1..MaxSpawns
  /\ \A p, q \in shown : p.id = q.id => p = q
  /\ call \in Calls

\* A pull request has at most one watcher pane, whatever the terminal refused, answered
\* late or left unanswered, as long as the runs could list the panes of every tab.
OnePanePerPr ==
  ~blind => \A p, q \in shown : p.pr = q.pr /\ p.pr # 0 => p = q

\* However many watchers are put up, no pane is cut below the floor and the secretary's
\* never below its own; a worker's pane is not cut at all.
NobodySqueezed ==
  \A p \in shown :
    /\ Clears(p, Floor) /\ (p.role = "secretary" => Clears(p, SecretaryFloor))
    /\ p.role = "worker" => p \in OwnTab

\* One pane for each pull request, and room for all.
PanesAreSound == OnePanePerPr /\ NobodySqueezed
=============================================================================
