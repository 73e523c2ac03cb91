---------------------------- MODULE RoleSession ----------------------------
(***************************************************************************)
(* A role's Claude Code session as the context-handover watcher meets it:  *)
(* the lines that reach its pane, its turns, what the handover and resume  *)
(* skills do in them (all of that external), and the record of its turns   *)
(* that the session's own hooks keep (tools/context_record.py).            *)
(*                                                                         *)
(* Input 0 stands for the whole conversation before the model starts; what *)
(* a session knows is a set of inputs.  A session that /clear opens knows  *)
(* nothing until it resumes.                                               *)
(***************************************************************************)
EXTENDS Naturals, Sequences

CONSTANTS Roles,      \* of "dispatcher" and "secretary", those to look at
          MaxInputs,  \* bound: inputs that ever arrive
          MaxOps      \* bound: handover operations ever started

ASSUME SessionAssumption == /\ Roles \subseteq {"dispatcher", "secretary"}
                            /\ MaxInputs \in Nat /\ MaxOps \in Nat

VARIABLES role,     \* the role of the session
          session,  \* the session in the role's pane
          inputs,   \* inputs in the order of their arrival, in any transcript
          record,   \* .state/context/<role>.json and <role>.idle.json
          asked,    \* is a question to a person open (register or awaiting_user)
          file,     \* <role>-handover.md; fresh: written since the operation started
          late,     \* late[o]: the late-input file of operation o
          resumed,  \* operations with a <role>_resumed event
          wiped     \* ghost: operations whose /clear has taken effect

sessionVars == <<role, session, inputs, record, asked, file, late, resumed, wiped>>

Ops == 1..MaxOps
Inputs == 0..MaxInputs

Line == [kind : {"input"}, of : Inputs] \union [kind : {"handover", "clear", "resume"}, of : Ops]
Turns == {"none", "work", "handover", "resume"}
Session == [sid : Nat, pane : {1, 2}, turn : Turns, of : Inputs \union Ops,
            queue : Seq(Line), known : SUBSET Inputs, heavy : BOOLEAN]
\* open: turn_open # turn_closed; stopped: stop_session_id = session_id; turned:
\* turn_closed has grown since the operation started; idle: not_idle_reason is None.
Record == [sid : Nat, pane : {1, 2}, source : {"startup", "resume", "clear"}, open : BOOLEAN,
           stopped : BOOLEAN, turned : BOOLEAN, idle : BOOLEAN, resumeOp : Ops \union {0}]
Input == [sid : Nat, person : BOOLEAN]
LateFile == [state : {"none", "there", "consumed"}, says : SUBSET Inputs]

SessionTypeOK ==
  /\ role \in Roles
  /\ session \in Session
  /\ inputs \in Seq(Input) /\ Len(inputs) <= MaxInputs
  /\ record \in Record
  /\ asked \in BOOLEAN
  /\ file \in [says : SUBSET Inputs, fresh : BOOLEAN]
  /\ late \in [Ops -> LateFile]
  /\ resumed \subseteq Ops /\ wiped \subseteq Ops

SessionInit ==
  /\ role \in Roles
  /\ session = [sid |-> 1, pane |-> 1, turn |-> "none", of |-> 0,
                queue |-> <<>>, known |-> {0}, heavy |-> TRUE]
  /\ inputs = <<>>
  /\ record = [sid |-> 1, pane |-> 1, source |-> "startup", open |-> FALSE,
               stopped |-> TRUE, turned |-> FALSE, idle |-> FALSE, resumeOp |-> 0]
  /\ asked = FALSE
  /\ file = [says |-> {}, fresh |-> FALSE]
  /\ late = [o \in Ops |-> [state |-> "none", says |-> {}]]
  /\ resumed = {} /\ wiped = {}

-----------------------------------------------------------------------------
(* Lines reach the pane                                                    *)

\* A message, the end of a background task, or a person.  It is enqueued, and
\* the transcript says so at once.
Arrive(person) ==
  /\ Len(inputs) < MaxInputs
  /\ person => role = "secretary"
  /\ inputs' = Append(inputs, [sid |-> session.sid, person |-> person])
  /\ session' = [session EXCEPT !.queue = Append(@, [kind |-> "input", of |-> Len(inputs) + 1])]
  /\ UNCHANGED <<role, record, asked, file, late, resumed, wiped>>

Submitted(kind, o) == [session EXCEPT !.queue = Append(@, [kind |-> kind, of |-> o])]

Waits(kind) == session.queue # <<>> /\ Head(session.queue).kind = kind

\* UserPromptSubmit
Opened == [record EXCEPT !.open = TRUE, !.idle = FALSE]

\* Stop
Closed == [record EXCEPT !.open = FALSE, !.idle = FALSE, !.stopped = TRUE, !.turned = TRUE]

\* SessionStart; the turns of the session before count as closed.
Started(sid, pane, source) ==
  [record EXCEPT !.sid = sid, !.pane = pane, !.source = source, !.open = FALSE, !.idle = FALSE,
                 !.stopped = (record.stopped /\ sid = record.sid)]

-----------------------------------------------------------------------------
(* Turns                                                                   *)

Starts(turn) ==
  LET line == Head(session.queue)
  IN session' = [session EXCEPT !.turn = turn, !.of = line.of, !.queue = Tail(@),
                   !.known = IF line.kind = "input" THEN @ \union {line.of} ELSE @]

Work == /\ session.turn = "none" /\ Waits("input")
        /\ Starts("work") /\ record' = Opened
        /\ UNCHANGED <<role, inputs, asked, file, late, resumed, wiped>>

HandoverTurn == /\ session.turn = "none" /\ Waits("handover")
                /\ Starts("handover") /\ record' = Opened
                /\ UNCHANGED <<role, inputs, asked, file, late, resumed, wiped>>

\* The hook keeps the operation that the resume line names.
ResumeTurn == /\ session.turn = "none" /\ Waits("resume")
              /\ Starts("resume")
              /\ record' = [Opened EXCEPT !.resumeOp = Head(session.queue).of]
              /\ UNCHANGED <<role, inputs, asked, file, late, resumed, wiped>>

\* /clear opens a session that knows nothing; lines behind it may be lost.
Clear == /\ session.turn = "none" /\ Waits("clear")
         /\ \E rest \in {Tail(session.queue), <<>>} :
              session' = [session EXCEPT !.sid = @ + 1, !.of = 0, !.queue = rest,
                                         !.known = {}, !.heavy = FALSE]
         /\ record' = Started(session.sid + 1, session.pane, "clear")
         /\ wiped' = wiped \union {Head(session.queue).of}
         /\ UNCHANGED <<role, inputs, asked, file, late, resumed>>

\* A message that arrived in the middle of a turn joins it.
Absorb == /\ session.turn # "none" /\ Waits("input")
          /\ session' = [session EXCEPT !.queue = Tail(@),
                                        !.known = @ \union {Head(session.queue).of}]
          /\ record' = Opened
          /\ UNCHANGED <<role, inputs, asked, file, late, resumed, wiped>>

\* The handover skill writes down what the session knows.
WriteHandover ==
  /\ session.turn = "handover"
  /\ file' = [says |-> session.known, fresh |-> TRUE]
  /\ UNCHANGED <<role, session, inputs, record, asked, late, resumed, wiped>>

\* The resume skill reads the handover file and says so with an event,
ResumeEvent ==
  /\ session.turn = "resume"
  /\ session' = [session EXCEPT !.known = @ \union file.says]
  /\ resumed' = resumed \union {session.of}
  /\ UNCHANGED <<role, inputs, record, asked, file, late, wiped>>

\* and renames and reads the late-input file of its operation.
ResumeLate ==
  /\ session.turn = "resume" /\ late[session.of].state = "there"
  /\ session' = [session EXCEPT !.known = @ \union late[session.of].says]
  /\ late' = [late EXCEPT ![session.of].state = "consumed"]
  /\ UNCHANGED <<role, inputs, record, asked, file, resumed, wiped>>

\* In any turn of the secretary a question may be asked, or an open one settled.
Decide == /\ session.turn # "none" /\ role = "secretary"
          /\ asked' = ~asked
          /\ UNCHANGED <<role, session, inputs, record, file, late, resumed, wiped>>

\* The conversation grows over the threshold.
Grow == /\ session.turn = "work" /\ ~session.heavy
        /\ session' = [session EXCEPT !.heavy = TRUE]
        /\ UNCHANGED <<role, inputs, record, asked, file, late, resumed, wiped>>

EndTurn == /\ session.turn # "none"
           /\ session' = [session EXCEPT !.turn = "none", !.of = 0]
           /\ record' = Closed
           /\ UNCHANGED <<role, inputs, asked, file, late, resumed, wiped>>

\* A minute passes without a prompt; idle_prompt, or an old enough Stop.
IdlePasses == /\ role = "secretary"
              /\ session.turn = "none" /\ session.queue = <<>>
              /\ ~record.idle /\ record.stopped
              /\ record' = [record EXCEPT !.idle = TRUE]
              /\ UNCHANGED <<role, session, inputs, asked, file, late, resumed, wiped>>

\* The organisation is suspended and started: the role gets another pane, and
\* continues its session or begins a new conversation.
Relaunch ==
  /\ session.pane = 1
  /\ \E sid \in {session.sid, session.sid + 1} :
       /\ session' = [session EXCEPT !.sid = sid, !.pane = 2, !.turn = "none", !.of = 0,
                        !.queue = <<>>,
                        !.known = IF sid = session.sid THEN @ ELSE {0},
                        !.heavy = @ /\ sid = session.sid]
       /\ record' = Started(sid, 2, IF sid = session.sid THEN "resume" ELSE "startup")
  /\ UNCHANGED <<role, inputs, asked, file, late, resumed, wiped>>

SessionStep == \/ \E person \in BOOLEAN : Arrive(person)
               \/ Work \/ HandoverTurn \/ ResumeTurn \/ Clear \/ Absorb
               \/ WriteHandover \/ ResumeEvent \/ ResumeLate
               \/ Decide \/ Grow \/ EndTurn \/ IdlePasses
=============================================================================
