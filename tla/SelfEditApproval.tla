-------------------------- MODULE SelfEditApproval --------------------------
(***************************************************************************)
(* The approval handshake for self-edit workers                            *)
(* (tools/self_edit_approval.py).  send types the approval into the        *)
(* worker's pane in numbered parts, looks whether each part landed and     *)
(* whether it left the composer after Enter, and records the approval once *)
(* all parts went.  The pane takes the keys in its own time.  audit lists  *)
(* the self-edit dispatches without a recorded approval.                   *)
(***************************************************************************)
EXTENDS EventLog, SequencesExt

CONSTANTS SelfEditDirs,  \* worker directories inside the claude-org root
          Files,         \* the files to approve: the cells each path takes
          Widths,        \* widths a pane may have
          Heights,       \* heights a pane may have; 0: not on the screen
          Disturbances,  \* what may befall a send: a "dialog" over the composer, another
                         \* "typist", keys of an earlier send still to be taken ("lag")
          MaxDispatches, \* bound: dispatches
          MaxSends       \* bound: runs of send

ASSUME ApprovalAssumption ==
  /\ SelfEditDirs \subseteq Dirs /\ Files \in Seq(Nat \ {0}) /\ Files # <<>>
  /\ Widths \subseteq Nat /\ Heights \subseteq Nat
  /\ Disturbances \subseteq {"dialog", "typist", "lag"}
  /\ MaxDispatches \in Nat /\ MaxSends \in Nat

VARIABLES pane,  \* pane[t]: the pane of t's worker
          send   \* the run of send that the secretary is in

approvalVars == <<runs, events, pane, send>>

-----------------------------------------------------------------------------
(* The text of an approval, and its parts                                  *)

\* _cells(approval_tail(files, part, total))
TailCells(files, split) ==
  12 + (IF split THEN 5 ELSE 0) + FoldLeft(LAMBDA n, f : n + f, 0, files) + 3 * (Len(files) - 1)

Least(a, b) == IF a < b THEN a ELSE b
Greatest(a, b) == IF a < b THEN b ELSE a

DefaultMaxRows(height) == IF height = 0 THEN 3 ELSE Greatest(1, Least(3, height \div 4))

SplitFiles(files, width, rows) ==
  LET budget == rows * Greatest(width - 4, 10)
      Add(groups, f) ==
        LET cur == groups[Len(groups)]
        IN IF cur # <<>> /\ TailCells(Append(cur, f), TRUE) > budget
           THEN Append(groups, <<f>>)
           ELSE [groups EXCEPT ![Len(groups)] = Append(cur, f)]
      upTo[n \in 0..Len(files)] ==
        IF n = 0 THEN << <<>> >> ELSE Add(upTo[n - 1], files[n])
  IN IF TailCells(files, FALSE) <= budget THEN <<files>> ELSE upTo[Len(files)]

Splits == {SplitFiles(Files, w, DefaultMaxRows(h)) : w \in Widths, h \in Heights}
Texts == UNION {{[part |-> i, parts |-> s] : i \in DOMAIN s} : s \in Splits}
\* A piece of a text, or of anybody's draft.
Scrap == [part |-> 0, parts |-> <<>>]
Enter == [part |-> 0, parts |-> << <<>> >>]

-----------------------------------------------------------------------------
(* External: the worker's pane                                             *)

\* keys: typed, not yet taken; draft: the composer; tall: all of it is visible;
\* dialog: the screen shows something else; queued: the hint that a message waits
\* for the end of the turn; inbox: the approval texts among the user's messages.
NewPane == [keys |-> <<>>, draft |-> <<>>, tall |-> TRUE, dialog |-> FALSE,
            queued |-> FALSE, inbox |-> {}]

TakeKey(t) ==
  LET p == pane[t] key == Head(p.keys) rest == [p EXCEPT !.keys = Tail(@)] IN
  /\ p.keys # <<>>
  /\ \/ p.dialog /\ pane' = [pane EXCEPT ![t] = rest]
     \/ /\ ~p.dialog /\ key # Enter
        /\ pane' = [pane EXCEPT ![t] = [rest EXCEPT !.draft = Append(@, key)]]
     \/ /\ ~p.dialog /\ key = Enter
        /\ \E queued \in BOOLEAN, swallowed \in BOOLEAN :
             pane' = [pane EXCEPT ![t] =
               IF swallowed \/ p.draft = <<>> THEN rest
               ELSE [rest EXCEPT !.draft = <<>>, !.queued = queued,
                                 !.inbox = @ \union (Range(p.draft) \ {Scrap})]]
  /\ UNCHANGED <<runs, events, send>>

TurnEnds(t) == /\ pane[t].queued
               /\ pane' = [pane EXCEPT ![t].queued = FALSE]
               /\ UNCHANGED <<runs, events, send>>

Undisturbed(t, what) == (send.at # "idle" /\ send.task = t) => what \in Disturbances

\* A permission dialog opens over the composer, or closes.
Dialog(t) == /\ Undisturbed(t, "dialog")
             /\ pane' = [pane EXCEPT ![t].dialog = ~@]
             /\ UNCHANGED <<runs, events, send>>

\* Somebody else types into the composer, submits it or clears it.
OtherTypes(t) ==
  LET p == pane[t] IN
  /\ Undisturbed(t, "typist") /\ ~p.dialog /\ p.keys = <<>>
  /\ \/ p.draft = <<>> /\ pane' = [pane EXCEPT ![t].draft = <<Scrap>>]
     \/ p.draft # <<>> /\ pane' = [pane EXCEPT ![t].draft = <<>>]
     \/ /\ p.draft # <<>>
        /\ pane' = [pane EXCEPT ![t].draft = <<>>,
                                ![t].inbox = @ \union (Range(p.draft) \ {Scrap})]
  /\ UNCHANGED <<runs, events, send>>

-----------------------------------------------------------------------------
(* What inspect shows                                                      *)

\* extract_composer: the visible end of the composer.
Composer(p) == IF p.dialog \/ p.tall \/ p.draft = <<>> THEN p.draft ELSE <<Last(p.draft)>>

IsQueuedHint(p) == ~p.dialog /\ p.queued /\ p.draft = <<>>

\* Mutant: an end of the text is not asked for; a composer with anything in it will do.
ShowsAnything(p, text) == ~p.dialog /\ Composer(p) # <<>>

\* _shows: what is visible is an end of the text that covers its tail.
Shows(p, text) == ~p.dialog /\ Composer(p) = <<text>>

\* Mutant: what Enter did is not looked at.
HoldsNothing(p, text) == FALSE

\* _holds_any_of: a dialog is "something else".
HoldsAnyOf(p, text) == ~p.dialog /\ Composer(p) = <<text>>

-----------------------------------------------------------------------------
(* Backends                                                                *)

\* make_backend with _resolve_transport and _broker_adapter.
Backend(choice, transport, adapter, targetDefaulted) ==
  LET chosen == CASE choice = "renga" -> "renga"
                  [] choice \in {"tmux", "broker"} -> "tmux"
                  [] choice = "auto" -> IF transport = "broker" THEN "tmux" ELSE "renga"
  IN IF \/ transport \notin {"renga", "broker"}
        \/ chosen = "tmux" /\ choice = "auto" /\ adapter # "tmux"
        \/ chosen = "tmux" /\ targetDefaulted
     THEN "refused"
     ELSE chosen

-----------------------------------------------------------------------------
(* send                                                                    *)

Idle == [at |-> "idle", task |-> CHOOSE t \in Tasks : TRUE, i |-> 0, parts |-> <<>>, runs |-> 0]
Text == [part |-> send.i, parts |-> send.parts]

At(place) == send.at = place
Goto(place) == send' = [send EXCEPT !.at = place]
\* _fail, or the process dies: nothing is recorded.
Fail == send' = [Idle EXCEPT !.runs = send.runs]

\* The arguments, the backend, the schema of state.db and the first screen are in
\* order; a dialog is no screen to read the width from.
Start(t) ==
  /\ At("idle") /\ send.runs < MaxSends
  /\ Of("delegate_sent", t) # {}
  /\ "lag" \notin Disturbances => pane[t].keys = <<>>
  /\ \E choice \in {"auto", "renga", "tmux", "broker"}, transport \in {"renga", "broker", "other"},
        adapter \in {"tmux", "wezterm", "none"}, defaulted \in BOOLEAN :
       Backend(choice, transport, adapter, defaulted) # "refused"
  /\ \E s \in Splits :
       send' = [at |-> "pre", task |-> t, i |-> 1, parts |-> s, runs |-> send.runs + 1]
  /\ UNCHANGED <<runs, events, pane>>

\* Stage 0.  The hint is waited out; a draft is not appended to.
CheckComposer ==
  LET p == pane[send.task] IN
  /\ At("pre") /\ ~IsQueuedHint(p)
  /\ IF ~p.dialog /\ Composer(p) # <<>> THEN Fail ELSE Goto("write")
  /\ UNCHANGED <<runs, events, pane>>

\* Stage 1.  A call that fails or times out may have written the text, or a piece.
SendText ==
  /\ At("write")
  /\ \/ Goto("landed") /\ pane' = [pane EXCEPT ![send.task].keys = Append(@, Text)]
     \/ Fail /\ \E typed \in {<<>>, <<Scrap>>, <<Text>>} :
                  pane' = [pane EXCEPT ![send.task].keys = @ \o typed]
  /\ UNCHANGED <<runs, events>>

\* Stage 2.
CheckLanded == /\ At("landed") /\ Shows(pane[send.task], Text)
               /\ Goto("enter")
               /\ UNCHANGED <<runs, events, pane>>

\* Stage 3.  After a time-out the key may be on its way.
SendEnter ==
  /\ At("enter")
  /\ \/ Goto("gone") /\ pane' = [pane EXCEPT ![send.task].keys = Append(@, Enter)]
     \/ Fail /\ \E typed \in {<<>>, <<Enter>>} :
                  pane' = [pane EXCEPT ![send.task].keys = @ \o typed]
  /\ UNCHANGED <<runs, events>>

\* Stage 4.
CheckSubmitted ==
  /\ At("gone") /\ ~HoldsAnyOf(pane[send.task], Text)
  /\ send' = IF send.i < Len(send.parts) THEN [send EXCEPT !.at = "pre", !.i = @ + 1]
                                         ELSE [send EXCEPT !.at = "record"]
  /\ UNCHANGED <<runs, events, pane>>

\* A verification or the wait for the hint times out, or inspect fails.
GiveUp == /\ send.at \in {"pre", "landed", "gone"}
          /\ Fail
          /\ UNCHANGED <<runs, events, pane>>

\* The event is appended, or the append fails after delivery.
RecordApproval ==
  /\ At("record")
  /\ events' \in {events, Append(events, [kind |-> "self_edit_approval_sent", task |-> send.task])}
  /\ Fail
  /\ UNCHANGED <<runs, pane>>

-----------------------------------------------------------------------------
(* The secretary's other work                                              *)

\* A dispatch, or a new one of the same task, brings a new pane.
Dispatch(t) ==
  /\ At("idle") /\ Cardinality(Of("delegate_sent", t)) < MaxDispatches
  /\ \E dir \in Dirs, tall \in BOOLEAN :
       /\ runs' = [runs EXCEPT ![t] = [status |-> "in_use", dir |-> dir]]
       /\ events' = Append(events, DelegateSent(t, dir))
       /\ pane' = [pane EXCEPT ![t] = [NewPane EXCEPT !.tall = tall]]
  /\ UNCHANGED send

Finish(t) == /\ At("idle") /\ runs[t].status = "in_use"
             /\ runs' = [runs EXCEPT ![t].status = "completed"]
             /\ UNCHANGED <<events, pane, send>>

-----------------------------------------------------------------------------
(* audit                                                                   *)

\* Mutant: any approval of the task covers its dispatch.
ApprovedEver(t) == Of("self_edit_approval_sent", t) # {}

\* The newest approval is not older than the newest dispatch.
Approved(t) == LatestEventAt("self_edit_approval_sent", t) >= LatestEventAt("delegate_sent", t)

\* _is_self_edit_dir, for the directory of the newest dispatch.
IsSelfEdit(t) == events[LatestEventAt("delegate_sent", t)].dir \in SelfEditDirs

MissingApprovals(cutoff, since) ==
  {t \in Tasks : LET sent == LatestEventAt("delegate_sent", t)
                 IN /\ sent # 0 /\ IsSelfEdit(t) /\ ~Approved(t)
                    /\ sent <= cutoff /\ sent >= since
                    /\ runs[t].status # "completed"}

-----------------------------------------------------------------------------
ApprovalInit == /\ runs = NoRuns /\ events = <<>>
                /\ pane = [t \in Tasks |-> NewPane]
                /\ send = Idle

ApprovalNext ==
  \/ \E t \in Tasks : Dispatch(t) \/ Finish(t) \/ Start(t)
  \/ \E t \in Tasks : TakeKey(t) \/ TurnEnds(t) \/ Dialog(t) \/ OtherTypes(t)
  \/ CheckComposer \/ SendText \/ CheckLanded \/ SendEnter \/ CheckSubmitted
  \/ GiveUp \/ RecordApproval

ApprovalSpec == ApprovalInit /\ [][ApprovalNext]_approvalVars

ApprovalTypeOK ==
  /\ runs \in [Tasks -> Run]
  /\ \A i \in DOMAIN events : events[i].kind \in {"delegate_sent", "self_edit_approval_sent"}
  /\ \A t \in Tasks : /\ Range(pane[t].keys) \subseteq Texts \union {Scrap, Enter}
                      /\ Range(pane[t].draft) \subseteq Texts \union {Scrap}
                      /\ pane[t].inbox \subseteq Texts
  /\ send.at \in {"idle", "pre", "write", "landed", "enter", "gone", "record"}
  /\ send.at # "idle" => Text \in Texts

\* A live self-edit dispatch on which audit is silent, though it is neither too young
\* nor too old, has a worker that was given every part of one approval of all files.
WorkerHasApproval ==
  \A t \in Tasks :
    LET sent == LatestEventAt("delegate_sent", t)
    IN /\ sent # 0 /\ IsSelfEdit(t) /\ runs[t].status # "completed"
       /\ \E cutoff \in sent..Len(events), since \in 1..sent :
            t \notin MissingApprovals(cutoff, since)
       => \E s \in Splits : /\ FlattenSeq(s) = Files
                            /\ {[part |-> i, parts |-> s] : i \in DOMAIN s} \subseteq pane[t].inbox
=============================================================================
