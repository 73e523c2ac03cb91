-------------------------- MODULE ContextHandover --------------------------
(***************************************************************************)
(* The context-handover watcher (tools/context_handover_watch.py,          *)
(* docs/design/context-auto-handover.md): it types the handover command,   *)
(* /clear and the resume command of one operation into the pane of a role  *)
(* whose conversation has grown too long, and keeps each stage on disk, so *)
(* that a watcher that is started again goes on from there.                *)
(*                                                                         *)
(* A timeout is a choice that a wait always has.  The watcher may be       *)
(* killed or stopped at any step; MaxCrashes bounds how often.             *)
(***************************************************************************)
EXTENDS RoleSession

CONSTANTS MaxCrashes,  \* MaxCrashes[r]: bound: deaths of the watcher, with role r
          DiesInGaps   \* may it die inside write_text of the late-input file, or
                       \* in fail after the operation's file and before the report

ASSUME HandoverAssumption == /\ MaxCrashes \in [Roles -> Nat]
                             /\ DiesInGaps \in BOOLEAN

VARIABLES op,           \* handover-op.json
          backoff,      \* is the role in handover-backoff.json for less than 30 minutes
          reported,     \* operations a failure or a suspected loss was reported of
          pc,           \* where the watcher is
          tries,        \* the attempt of stage_resuming
          undisturbed,  \* ghost: no turn has begun since the look before /clear
          crashes       \* deaths so far

watcherVars == <<op, backoff, reported, pc, tries, undisturbed, crashes>>
vars == <<sessionVars, watcherVars>>

\* The stages at which an operation is under way.
Under == {"handover", "clearing", "cleared", "resuming", "verifying"}

Op == [id : Ops \union {0}, stage : Under \union {"none", "done", "failed"},
       old : Nat, p0 : Nat, pane : {1, 2}, new : Nat, late : BOOLEAN,
       \* ghosts: what the session knew, and how many inputs there were, at the start
       had : SUBSET Inputs, began : Nat]

NoOp == [id |-> 0, stage |-> "none", old |-> 0, p0 |-> 0, pane |-> 1, new |-> 0,
         late |-> FALSE, had |-> {}, began |-> 0]

Places == {"tick", "start", "handover", "written", "turn", "hold", "persons", "clear",
           "clear_wait", "settle", "late", "settled", "resume", "resume_wait", "running",
           "verify", "loop", "fail", "report", "dead"}

TypeOK ==
  /\ SessionTypeOK
  /\ op \in Op
  /\ backoff \in BOOLEAN
  /\ reported \subseteq Ops
  /\ pc \in Places /\ tries \in {0, 1}
  /\ undisturbed \in BOOLEAN
  /\ crashes \in 0..MaxCrashes[role]

Init == /\ SessionInit
        /\ op = NoOp /\ backoff = FALSE /\ reported = {}
        /\ pc = "tick" /\ tries = 0 /\ undisturbed = FALSE /\ crashes = 0

-----------------------------------------------------------------------------
(* Steps of the watcher                                                    *)

Goto(place) == pc' = place

\* A step that only reads, and goes on.
Look(place) == /\ Goto(place)
               /\ UNCHANGED <<sessionVars, op, backoff, reported, tries, undisturbed, crashes>>

\* save: the operation's file is written before the step it announces.
Save(newOp, place) ==
  /\ op' = newOp /\ Goto(place)
  /\ UNCHANGED <<sessionVars, backoff, reported, tries, undisturbed, crashes>>

\* type_line: the line is taken, or it is not (another pane, text in the
\* composer, a readback that differs), or it is but not seen to be in time.
TypeLine(kind, place) ==
  \/ /\ \E next \in {place, "fail"} : Goto(next)
     /\ session' = Submitted(kind, op.id)
     /\ UNCHANGED <<role, inputs, record, asked, file, late, resumed, wiped,
                    op, backoff, reported, tries, undisturbed, crashes>>
  \/ Look("fail")

-----------------------------------------------------------------------------
(* tick: an operation left behind, or a new one                            *)

Cleared == record.source = "clear" /\ record.sid # op.old

SamePlace == record.sid = op.new /\ record.pane = op.pane

\* recover, when it returns a stage.
Continues(stage) == IF stage \in {"handover", "clearing"} THEN Cleared ELSE SamePlace

\* Mutant: an operation that stopped before its /clear was seen is started over.
StartsOverUnlooked(stage) == stage \in {"handover", "clearing"}

\* recover, when it returns None because /clear has not taken effect.
StartsOver(stage) == stage \in {"handover", "clearing"} /\ record.sid = op.old

\* The place to go on from.
PlaceOf(stage) == CASE stage \in {"handover", "clearing"} -> "clear_wait"
                    [] stage = "cleared"   -> "settle"
                    [] stage = "resuming"  -> "resume"
                    [] stage = "verifying" -> "verify"

Recover ==
  /\ pc = "tick" /\ op.stage \in Under /\ ~StartsOver(op.stage)
  /\ IF Continues(op.stage) THEN Look(PlaceOf(op.stage)) ELSE Look("fail")

\* not_quiet_reason, the threshold, and for the secretary secretary_hold and
\* not_idle_reason.
Quiet == record.stopped /\ ~record.open

Due == /\ pc = "tick"
       /\ op.stage \in Under => StartsOver(op.stage)
       /\ ~backoff /\ Quiet /\ session.heavy
       /\ role = "secretary" => ~asked /\ record.idle
       /\ op.id < MaxOps
       /\ Look("start")

\* start_op: from here on the transcript is read from p0, turns are counted and
\* an older handover file does not count.
StartOp ==
  /\ pc = "start"
  /\ op' = [NoOp EXCEPT !.id = op.id + 1, !.stage = "handover", !.old = record.sid,
                        !.p0 = Len(inputs), !.pane = record.pane, !.had = session.known,
                        !.began = Len(inputs)]
  /\ record' = [record EXCEPT !.turned = FALSE]
  /\ file' = [file EXCEPT !.fresh = FALSE]
  /\ Goto("handover")
  /\ UNCHANGED <<role, session, inputs, asked, late, resumed, wiped,
                 backoff, reported, tries, undisturbed, crashes>>

-----------------------------------------------------------------------------
(* stage_handover                                                          *)

TypeHandover == pc = "handover" /\ TypeLine("handover", "written")

\* Mutant: late inputs are looked for only from the end of the handover turn on.
WrittenAndSkipped ==
  /\ pc = "written" /\ file.fresh /\ record.turned /\ ~record.open
  /\ Save([op EXCEPT !.stage = "clearing", !.p0 = Len(inputs)], "turn")

\* The file is fresh, a turn has ended and none is open; check_handover_file
\* may still find that a task is not named, and then there is no /clear.
Written ==
  /\ pc = "written" /\ file.fresh /\ record.turned /\ ~record.open
  /\ Save([op EXCEPT !.stage = "clearing"], "turn")

NotWritten == pc = "written" /\ Look("fail")

\* The last looks before /clear, in this order.
LookAtTurn ==
  /\ pc = "turn"
  /\ Goto(IF record.open THEN "fail" ELSE IF role = "secretary" THEN "hold" ELSE "clear")
  /\ undisturbed' = (role = "secretary")
  /\ UNCHANGED <<sessionVars, op, backoff, reported, tries, crashes>>

\* Mutant: open questions were looked at when the operation began.
HoldTrusted == pc = "hold" /\ Look("persons")

LookAtHold == pc = "hold" /\ Look(IF asked THEN "fail" ELSE "persons")

\* extract_late_inputs: what reached the old session from p0 on.
LateInputs == {i \in DOMAIN inputs : i > op.p0 /\ inputs[i].sid = op.old}

PersonInputs == {i \in LateInputs : inputs[i].person}

LookAtPersons == pc = "persons" /\ Look(IF PersonInputs # {} THEN "fail" ELSE "clear")

TypeClear == pc = "clear" /\ TypeLine("clear", "clear_wait")

-----------------------------------------------------------------------------
(* stage_clearing, stage_cleared                                           *)

SeesClear ==
  /\ pc = "clear_wait" /\ Cleared
  /\ Save([op EXCEPT !.stage = "cleared", !.new = record.sid], "settle")

ClearTimeout == pc = "clear_wait" /\ Look("fail")

\* The late-input file is written unless it is there, or was consumed.
Settle ==
  /\ pc = "settle"
  /\ IF LateInputs # {} /\ late[op.id].state = "none"
     THEN /\ late' = [late EXCEPT ![op.id] = [state |-> "there", says |-> {}]]
          /\ Goto("late")
          /\ UNCHANGED <<role, session, inputs, record, asked, file, resumed, wiped,
                         op, backoff, reported, tries, undisturbed, crashes>>
     ELSE Look("settled")

WriteLate ==
  /\ pc = "late"
  /\ late' = [late EXCEPT ![op.id].says = LateInputs]
  /\ Goto("settled")
  /\ UNCHANGED <<role, session, inputs, record, asked, file, resumed, wiped,
                 op, backoff, reported, tries, undisturbed, crashes>>

Settled ==
  /\ pc = "settled"
  /\ op' = [op EXCEPT !.stage = "resuming", !.late = (LateInputs # {})]
  /\ Goto("resume") /\ tries' = 0
  /\ UNCHANGED <<sessionVars, backoff, reported, undisturbed, crashes>>

-----------------------------------------------------------------------------
(* stage_resuming, stage_verifying                                         *)

Resumed == op.id \in resumed
Taken == record.sid = op.new /\ record.resumeOp = op.id
TurnClosed == Taken /\ ~record.open

\* The resume line is typed unless its turn has begun.
TypeResume == pc = "resume" /\ ~Resumed /\ ~Taken /\ TypeLine("resume", "resume_wait")

ResumeKnown == pc = "resume" /\ (Resumed \/ Taken) /\ Look("running")

ResumeBegins == pc = "resume_wait" /\ (Resumed \/ Taken) /\ Look("running")

\* A minute without the turn: once more, and then on to the long wait.
ResumeTimeout ==
  /\ pc = "resume_wait"
  /\ Goto(IF tries = 0 THEN "resume" ELSE "running") /\ tries' = 1
  /\ UNCHANGED <<sessionVars, op, backoff, reported, undisturbed, crashes>>

ResumeEnds ==
  /\ pc = "running" /\ Resumed
  /\ Save([op EXCEPT !.stage = "verifying"], "verify")

\* The turn ended without its event, or did not end in ten minutes.
ResumeFails == pc = "running" /\ ~Resumed /\ Look("fail")

Unread == op.late /\ late[op.id].state = "there"

\* The register and the runs may also differ from the snapshot.
Verify ==
  /\ pc = "verify"
  /\ \E lost \in BOOLEAN :
       reported' = IF lost \/ Unread THEN reported \union {op.id} ELSE reported
  /\ Goto("loop")
  /\ UNCHANGED <<sessionVars, op, backoff, tries, undisturbed, crashes>>

\* The dispatcher's monitoring loop is not exactly one.
LoopFails == pc = "loop" /\ role = "dispatcher" /\ Look("fail")

Done == pc = "loop" /\ Save([op EXCEPT !.stage = "done"], "tick")

-----------------------------------------------------------------------------
(* Failure, death and restart                                              *)

Fail == /\ pc = "fail"
        /\ op' = [op EXCEPT !.stage = "failed"] /\ backoff' = TRUE
        /\ Goto("report")
        /\ UNCHANGED <<sessionVars, reported, tries, undisturbed, crashes>>

Report == /\ pc = "report"
          /\ reported' = reported \union {op.id}
          /\ Goto("tick")
          /\ UNCHANGED <<sessionVars, op, backoff, tries, undisturbed, crashes>>

\* Thirty minutes, longer than any line waits in a pane.
BackoffEnds == /\ backoff /\ session.queue = <<>>
               /\ backoff' = FALSE
               /\ UNCHANGED <<sessionVars, op, reported, pc, tries, undisturbed, crashes>>

Crash == /\ pc # "dead" /\ crashes < MaxCrashes[role]
         /\ DiesInGaps \/ pc \notin {"late", "report"}
         /\ crashes' = crashes + 1
         /\ Goto("dead")
         /\ UNCHANGED <<sessionVars, op, backoff, reported, tries, undisturbed>>

\* By hand, or by the next start of the organisation: a line does not wait in a
\* pane without a turn for that long.
Restart == /\ pc = "dead"
           /\ session.turn = "none" => session.queue = <<>>
           /\ Look("tick")

-----------------------------------------------------------------------------
Watch == \/ Recover \/ Due \/ StartOp
         \/ TypeHandover \/ Written \/ NotWritten
         \/ LookAtTurn \/ LookAtHold \/ LookAtPersons \/ TypeClear
         \/ SeesClear \/ ClearTimeout \/ Settle \/ WriteLate \/ Settled
         \/ TypeResume \/ ResumeKnown \/ ResumeBegins \/ ResumeTimeout
         \/ ResumeEnds \/ ResumeFails
         \/ Verify \/ LoopFails \/ Done \/ Fail \/ Report

\* The session goes on meanwhile; a turn that begins ends the quiet.
SessionMoves == /\ SessionStep
                /\ undisturbed' = (undisturbed /\ session'.turn = session.turn)
                /\ UNCHANGED <<op, backoff, reported, pc, tries, crashes>>

\* org-suspend stops the watcher.
Suspend == pc = "dead" /\ Relaunch /\ UNCHANGED watcherVars

Next == Watch \/ SessionMoves \/ Suspend \/ BackoffEnds \/ Crash \/ Restart

Spec == Init /\ [][Next]_vars

\* A living watcher takes its next step; all of its waits end.
FairSpec == Spec /\ WF_vars(Watch)

-----------------------------------------------------------------------------
(* Properties                                                              *)

Queued == {session.queue[k].of :
             k \in {j \in DOMAIN session.queue : session.queue[j].kind = "input"}}

\* What reached the old session since the operation began.
ReachedOld == {i \in DOMAIN inputs : i > op.began /\ inputs[i].sid = op.old}

\* An operation that is recorded as done, with nothing reported, has left the
\* session with all that the old session knew when it began, and with every input
\* that reached the old session since, also one that still waits behind a turn:
\* through the handover file or the late-input file (design 4.4, 6.1).
NothingLostSilently ==
  [][op.stage = "verifying" /\ op'.stage = "done" /\ op.id \notin reported
       => op.had \union ReachedOld \subseteq session.known]_vars

\* The secretary's /clear is not typed while a question is open, or a person has
\* written since the operation began, unless a turn began after the look.
ClearSparesConversation ==
  [][role = "secretary" /\ pc = "clear" /\ session'.queue # session.queue /\ pc' # pc /\ undisturbed
       => ~asked /\ \A i \in ReachedOld : inputs[i].person => i \in Queued]_vars

\* A session that was cleared is not left in silence: if the watcher is started again
\* after every death, the operation is resumed, or it is reported (or fail dies between
\* its two writes, when DiesInGaps lets it).
ClearedIsFollowedUp ==
  \A o \in Ops : []<>(pc # "dead") => (o \in wiped ~> o \in resumed \union reported)
=============================================================================
