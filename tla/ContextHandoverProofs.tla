----------------------- MODULE ContextHandoverProofs -----------------------
(***************************************************************************)
(* The session and the watcher keep their shape: every operation under way *)
(* has a number, so every line that the watcher types names an operation,  *)
(* and every resume turn has one to report.  The secretary's conversation  *)
(* is spared, and no operation that ends in silence has lost anything.     *)
(***************************************************************************)
EXTENDS ContextHandover, SequenceTheorems, TLAPS

\* What the type invariant rests on: past "start" there is an operation.
Numbered ==
  /\ session.turn = "resume" => session.of \in Ops
  /\ pc \notin {"tick", "start", "dead"} => op.id # 0
  /\ op.stage \in Under => op.id # 0
  /\ pc = "start" => op.id < MaxOps

HandoverInv == TypeOK /\ Numbered

USE DEF Ops, Inputs

\* The head of a queue is a line, and taking it off leaves a queue.
LEMMA QueueTaken ==
  ASSUME NEW q \in Seq(Line), q # <<>>
  PROVE  Head(q) \in Line /\ Tail(q) \in Seq(Line)
OBVIOUS

\* A line of the watcher's names an operation, one of somebody else an input.
LEMMA LineOf ==
  ASSUME NEW line \in Line
  PROVE  /\ line.kind = "input" => line.of \in Inputs
         /\ line.kind \in {"handover", "clear", "resume"} => line.of \in Ops
         /\ line.of \in Inputs \union Ops
BY DEF Line

\* What a hook makes of a record is a record.
LEMMA RecordsTyped ==
  ASSUME record \in Record
  PROVE  /\ Opened \in Record /\ Closed \in Record
         /\ \A o \in Ops : [Opened EXCEPT !.resumeOp = o] \in Record
         /\ \A sid \in Nat, pane \in {1, 2}, source \in {"startup", "resume", "clear"} :
              Started(sid, pane, source) \in Record
BY ZenonT(30) DEF Record, Opened, Closed, Started

\* A turn that begins takes its line from the queue.
LEMMA StartsTyped ==
  ASSUME SessionTypeOK, session.queue # <<>>, NEW turn \in Turns, Starts(turn)
  PROVE  /\ session' \in Session
         /\ session'.turn = turn /\ session'.of = Head(session.queue).of
<1> DEFINE line == Head(session.queue)
<1>1. session \in Session /\ session.queue \in Seq(Line) BY DEF SessionTypeOK, Session
<1>2. line \in Line /\ Tail(session.queue) \in Seq(Line) BY <1>1, QueueTaken
<1>3. line.of \in Inputs \union Ops /\ (line.kind = "input" => line.of \in Inputs) BY <1>2, LineOf
<1>4. session.known \subseteq Inputs BY <1>1 DEF Session
<1> DEFINE known == IF line.kind = "input" THEN session.known \union {line.of} ELSE session.known
<1>5. known \in SUBSET Inputs BY <1>3, <1>4
<1>6. session' = [session EXCEPT !.turn = turn, !.of = line.of, !.queue = Tail(session.queue), !.known = known]
  BY DEF Starts
<1> HIDE DEF line, known
<1> QED BY <1>1, <1>2, <1>3, <1>5, <1>6 DEF Session, line

\* Each step of the session keeps its types, and a resume turn has its operation.
LEMMA SessionStepTyped ==
  ASSUME SessionTypeOK, session.turn = "resume" => session.of \in Ops, SessionStep,
         SessionAssumption
  PROVE  SessionTypeOK' /\ (session'.turn = "resume" => session'.of \in Ops)
<1> USE DEF SessionTypeOK
<1>0. session \in Session /\ session.queue \in Seq(Line) /\ session.sid \in Nat
      /\ session.known \subseteq Inputs /\ session.turn \in Turns
  BY DEF Session
<1> DEFINE Of == Inputs \union Ops
<1>of. 0 \in Of BY SessionAssumption
<1>ss. Session = [sid : Nat, pane : {1, 2}, turn : Turns, of : Of, queue : Seq(Line),
                  known : SUBSET Inputs, heavy : BOOLEAN]
  BY DEF Session
<1>1. ASSUME NEW person \in BOOLEAN, Arrive(person)
      PROVE  SessionTypeOK' /\ (session'.turn = "resume" => session'.of \in Ops)
  <2>1. Len(inputs) + 1 \in Inputs BY <1>1, SessionAssumption DEF Arrive
  <2>2. [kind |-> "input", of |-> Len(inputs) + 1] \in Line BY <2>1 DEF Line
  <2>3. Append(session.queue, [kind |-> "input", of |-> Len(inputs) + 1]) \in Seq(Line)
    BY <1>0, <2>2
  <2>4. session' \in Session /\ session'.turn = session.turn /\ session'.of = session.of
    BY <1>0, <1>1, <2>3 DEF Arrive, Session
  <2>5. [sid |-> session.sid, person |-> person] \in Input BY <1>0 DEF Input
  <2>6. inputs' \in Seq(Input) /\ Len(inputs') <= MaxInputs
    BY <1>1, <2>5, SessionAssumption DEF Arrive
  <2> QED BY <1>1, <2>4, <2>6 DEF Arrive
<1>2. CASE Work
  <2>1. session' \in Session /\ session'.turn = "work"
    BY <1>2, StartsTyped DEF Work, Waits, Turns
  <2> QED BY <1>2, <2>1, RecordsTyped DEF Work
<1>3. CASE HandoverTurn
  <2>1. session' \in Session /\ session'.turn = "handover"
    BY <1>3, StartsTyped DEF HandoverTurn, Waits, Turns
  <2> QED BY <1>3, <2>1, RecordsTyped DEF HandoverTurn
<1>4. CASE ResumeTurn
  <2>1. Head(session.queue).of \in Ops
    BY <1>0, <1>4, QueueTaken, LineOf DEF ResumeTurn, Waits
  <2>2. session' \in Session /\ session'.of = Head(session.queue).of
    BY <1>4, StartsTyped DEF ResumeTurn, Waits, Turns
  <2>3. record' \in Record BY <1>4, <2>1, RecordsTyped DEF ResumeTurn
  <2> QED BY <1>4, <2>1, <2>2, <2>3 DEF ResumeTurn
<1>5. CASE Clear
  <2>1. Head(session.queue).of \in Ops
    BY <1>0, <1>5, QueueTaken, LineOf DEF Clear, Waits
  <2>2. Tail(session.queue) \in Seq(Line) /\ <<>> \in Seq(Line)
    BY <1>0, <1>5, QueueTaken DEF Clear, Waits
  <2>3. session' \in Session /\ session'.turn = session.turn
    <3>1. PICK rest \in {Tail(session.queue), <<>>} :
            session' = [session EXCEPT !.sid = @ + 1, !.of = 0, !.queue = rest,
                                       !.known = {}, !.heavy = FALSE]
      BY <1>5 DEF Clear
    <3>2. rest \in Seq(Line) BY <2>2
    <3>3. ASSUME NEW q \in Seq(Line), NEW sid \in Nat,
                 session' = [session EXCEPT !.sid = sid, !.of = 0, !.queue = q,
                                            !.known = {}, !.heavy = FALSE]
          PROVE  session' \in Session /\ session'.turn = session.turn
      <4> HIDE DEF Of
      <4>1. {} \in SUBSET Inputs OBVIOUS
      <4> QED BY <1>0, <1>of, <1>ss, <3>3, <4>1
    <3>4. session.sid + 1 \in Nat BY <1>0
    <3> QED BY <3>1, <3>2, <3>3, <3>4
  <2>4. record' \in Record
    <3>1. session.sid + 1 \in Nat /\ session.pane \in {1, 2} BY <1>0, <1>ss
    <3>2. record' = Started(session.sid + 1, session.pane, "clear") BY <1>5 DEF Clear
    <3> QED BY <3>1, <3>2, RecordsTyped
  <2> QED BY <1>5, <2>1, <2>3, <2>4 DEF Clear
<1>6. CASE Absorb
  <2>1. Head(session.queue).of \in Inputs /\ Tail(session.queue) \in Seq(Line)
    BY <1>0, <1>6, QueueTaken, LineOf DEF Absorb, Waits
  <2>2. session' \in Session /\ session'.turn = session.turn /\ session'.of = session.of
    BY <1>0, <1>6, <2>1 DEF Absorb, Session
  <2> QED BY <1>6, <2>2, RecordsTyped DEF Absorb
<1>7. CASE WriteHandover
  BY <1>0, <1>7 DEF WriteHandover
<1>8. CASE ResumeEvent
  <2>1. session' \in Session /\ session'.turn = session.turn /\ session'.of = session.of
    BY <1>0, <1>8 DEF ResumeEvent, Session
  <2> QED BY <1>8, <2>1 DEF ResumeEvent
<1>9. CASE ResumeLate
  <2>1. late[session.of] \in LateFile BY <1>9 DEF ResumeLate
  <2>2. session' \in Session /\ session'.turn = session.turn /\ session'.of = session.of
    BY <1>0, <1>9, <2>1 DEF ResumeLate, Session, LateFile
  <2>3. late' \in [Ops -> LateFile] BY <1>9, <2>1 DEF ResumeLate, LateFile
  <2> QED BY <1>9, <2>2, <2>3 DEF ResumeLate
<1>10. CASE Decide
  BY <1>10 DEF Decide
<1>11. CASE Grow
  <2>1. session' \in Session /\ session'.turn = session.turn /\ session'.of = session.of
    BY <1>0, <1>11 DEF Grow, Session
  <2> QED BY <1>11, <2>1 DEF Grow
<1>12. CASE EndTurn
  <2>1. session' \in Session /\ session'.turn = "none"
    <3> HIDE DEF Of
    <3> QED BY <1>0, <1>of, <1>ss, <1>12 DEF EndTurn, Turns
  <2> QED BY <1>12, <2>1, RecordsTyped DEF EndTurn
<1>13. CASE IdlePasses
  <2>1. record' \in Record BY <1>13 DEF IdlePasses, Record
  <2> QED BY <1>13, <2>1 DEF IdlePasses
<1> QED
  BY <1>1, <1>2, <1>3, <1>4, <1>5, <1>6, <1>7, <1>8, <1>9, <1>10, <1>11, <1>12, <1>13
  DEF SessionStep

\* Lines of the watcher's reach the queue only with a number.
LEMMA TypeLineTyped ==
  ASSUME HandoverInv, op.id # 0, NEW kind \in {"handover", "clear", "resume"},
         NEW place \in Places \ {"start"}, TypeLine(kind, place)
  PROVE  HandoverInv'
<1> USE DEF HandoverInv, TypeOK, Numbered, TypeLine, Look, Goto, Places
<1>1. CASE Look("fail")
  BY <1>1 DEF sessionVars, SessionTypeOK
<1>2. CASE session' = Submitted(kind, op.id) /\ ~Look("fail")
  <2>1. [kind |-> kind, of |-> op.id] \in Line BY DEF Op, Line
  <2>2. session \in Session /\ session.queue \in Seq(Line) BY DEF SessionTypeOK, Session
  <2>3. Append(session.queue, [kind |-> kind, of |-> op.id]) \in Seq(Line) BY <2>1, <2>2
  <2>4. session' \in Session /\ session'.turn = session.turn /\ session'.of = session.of
    BY <1>2, <2>2, <2>3 DEF Submitted, Session
  <2>5. SessionTypeOK' BY <1>2, <2>4 DEF SessionTypeOK
  <2> QED BY <1>2, <2>4, <2>5
<1> QED BY <1>1, <1>2

\* At the start there is no operation, and nothing waits in the pane.
LEMMA InitTyped == Init => HandoverInv
<1> SUFFICES ASSUME Init PROVE HandoverInv
  OBVIOUS
<1>1. 0 \in Inputs /\ <<>> \in Seq(Line) /\ <<>> \in Seq(Input) /\ Len(<<>>) <= MaxInputs
  BY SessionAssumption
<1>2. session \in Session BY <1>1 DEF Init, SessionInit, Session, Turns
<1>3. SessionTypeOK
  BY <1>1, <1>2 DEF Init, SessionInit, SessionTypeOK, Record, LateFile
<1>4. op \in Op BY <1>1 DEF Init, NoOp, Op
<1>5. crashes \in 0..MaxCrashes[role] BY HandoverAssumption DEF Init, SessionInit
<1>6. TypeOK BY <1>3, <1>4, <1>5 DEF Init, TypeOK, Places
<1>7. Numbered BY DEF Init, SessionInit, Numbered, NoOp, Under
<1> QED BY <1>6, <1>7 DEF HandoverInv

\* Every step of the watcher keeps it.
LEMMA WatchTyped ==
  ASSUME HandoverInv, Watch, SessionAssumption
  PROVE  HandoverInv'
<1> USE DEF HandoverInv, TypeOK, Numbered, Places
<1>1. SessionTypeOK /\ record \in Record /\ record.sid \in Nat /\ session.known \subseteq Inputs
      /\ Len(inputs) \in Nat /\ record.pane \in {1, 2}
  BY DEF SessionTypeOK, Record, Session
<1>2. ASSUME NEW place \in Places \ {"start"}, op.id # 0, Look(place) PROVE HandoverInv'
  BY <1>2 DEF Look, Goto, sessionVars, SessionTypeOK
<1>3. ASSUME NEW newOp \in Op, NEW place \in Places \ {"start"}, newOp.id # 0, Save(newOp, place)
      PROVE  HandoverInv'
  BY <1>3 DEF Save, Goto, sessionVars, SessionTypeOK
<1>4. CASE Recover
  <2>1. PlaceOf(op.stage) \in Places \ {"start"} /\ op.id # 0
    BY <1>4 DEF Recover, PlaceOf, Under
  <2>2. Look(PlaceOf(op.stage)) \/ Look("fail") BY <1>4 DEF Recover
  <2> QED BY <1>2, <2>1, <2>2
<1>5. CASE Due
  BY <1>5 DEF Due, Look, Goto, sessionVars, SessionTypeOK
<1>6. CASE StartOp
  <2>1. op.id + 1 \in Ops /\ op.id + 1 # 0 BY <1>6, SessionAssumption DEF StartOp, Op
  <2>2. op' \in Op /\ op'.id # 0 BY <1>1, <1>6, <2>1 DEF StartOp, Op, NoOp, Under
  <2>3. record' \in Record BY <1>1, <1>6 DEF StartOp, Record
  <2>4. SessionTypeOK' BY <1>6, <2>3 DEF StartOp, SessionTypeOK
  <2> QED BY <1>6, <2>2, <2>4 DEF StartOp, Goto
<1>7. CASE TypeHandover BY <1>7, TypeLineTyped DEF TypeHandover
<1>8. CASE Written
  <2>1. [op EXCEPT !.stage = "clearing"] \in Op BY DEF Op, Under
  <2> QED BY <1>3, <1>8, <2>1 DEF Written, Op
<1>9. CASE NotWritten BY <1>2, <1>9 DEF NotWritten
<1>10. CASE LookAtTurn
  BY <1>10 DEF LookAtTurn, Goto, sessionVars, SessionTypeOK
<1>11. CASE LookAtHold BY <1>2, <1>11 DEF LookAtHold
<1>12. CASE LookAtPersons BY <1>2, <1>12 DEF LookAtPersons
<1>13. CASE TypeClear BY <1>13, TypeLineTyped DEF TypeClear
<1>14. CASE SeesClear
  <2>1. [op EXCEPT !.stage = "cleared", !.new = record.sid] \in Op BY <1>1 DEF Op, Under
  <2> QED BY <1>3, <1>14, <2>1 DEF SeesClear, Op
<1>15. CASE ClearTimeout BY <1>2, <1>15 DEF ClearTimeout
<1>16. CASE Settle
  <2>1. CASE Look("settled") BY <1>2, <1>16, <2>1 DEF Settle
  <2>2. CASE late' = [late EXCEPT ![op.id] = [state |-> "there", says |-> {}]] /\ pc' = "late"
             /\ UNCHANGED <<role, session, inputs, record, asked, file, resumed, wiped,
                            op, backoff, reported, tries, undisturbed, crashes>>
    <3>1. late' \in [Ops -> LateFile] BY <2>2 DEF SessionTypeOK, LateFile
    <3>2. SessionTypeOK' BY <2>2, <3>1 DEF SessionTypeOK
    <3> QED BY <1>16, <2>2, <3>2 DEF Settle
  <2> QED BY <1>16, <2>1, <2>2 DEF Settle, Goto
<1>17. CASE WriteLate
  <2>1. op.id \in Ops BY <1>17 DEF WriteLate, Op
  <2>2. late[op.id] \in LateFile BY <2>1 DEF SessionTypeOK
  <2>3. LateInputs \subseteq Inputs BY SessionAssumption DEF LateInputs, SessionTypeOK
  <2>4. late' \in [Ops -> LateFile] BY <1>17, <2>1, <2>2, <2>3 DEF WriteLate, SessionTypeOK, LateFile
  <2>5. SessionTypeOK' BY <1>17, <2>4 DEF WriteLate, SessionTypeOK
  <2> QED BY <1>17, <2>5 DEF WriteLate, Goto
<1>18. CASE Settled
  <2>1. op' \in Op /\ op'.id # 0 BY <1>18 DEF Settled, Op, Under
  <2> QED BY <1>18, <2>1 DEF Settled, Goto, sessionVars, SessionTypeOK
<1>19. CASE TypeResume BY <1>19, TypeLineTyped DEF TypeResume
<1>20. CASE ResumeKnown BY <1>2, <1>20 DEF ResumeKnown
<1>21. CASE ResumeBegins BY <1>2, <1>21 DEF ResumeBegins
<1>22. CASE ResumeTimeout
  BY <1>22 DEF ResumeTimeout, Goto, sessionVars, SessionTypeOK
<1>23. CASE ResumeEnds
  <2>1. [op EXCEPT !.stage = "verifying"] \in Op BY DEF Op, Under
  <2> QED BY <1>3, <1>23, <2>1 DEF ResumeEnds, Op
<1>24. CASE ResumeFails BY <1>2, <1>24 DEF ResumeFails
<1>25. CASE Verify
  <2>1. op.id \in Ops BY <1>25 DEF Verify, Op
  <2> QED BY <1>25, <2>1 DEF Verify, Goto, sessionVars, SessionTypeOK
<1>26. CASE LoopFails BY <1>2, <1>26 DEF LoopFails
<1>27. CASE Done
  <2>1. [op EXCEPT !.stage = "done"] \in Op BY DEF Op, Under
  <2> QED BY <1>3, <1>27, <2>1 DEF Done, Op
<1>28. CASE Fail
  <2>1. op' \in Op /\ op'.id # 0 BY <1>28 DEF Fail, Op, Under
  <2> QED BY <1>28, <2>1 DEF Fail, Goto, sessionVars, SessionTypeOK
<1>29. CASE Report
  <2>1. op.id \in Ops BY <1>29 DEF Report, Op
  <2> QED BY <1>29, <2>1 DEF Report, Goto, sessionVars, SessionTypeOK
<1> QED
  BY <1>4, <1>5, <1>6, <1>7, <1>8, <1>9, <1>10, <1>11, <1>12, <1>13, <1>14, <1>15, <1>16, <1>17,
     <1>18, <1>19, <1>20, <1>21, <1>22, <1>23, <1>24, <1>25, <1>26, <1>27, <1>28, <1>29
  DEF Watch

\* And so do the session, a suspended organisation, a death and a restart.
LEMMA OthersTyped ==
  ASSUME HandoverInv, SessionMoves \/ Suspend \/ BackoffEnds \/ Crash \/ Restart,
         SessionAssumption, HandoverAssumption
  PROVE  HandoverInv'
<1> USE DEF HandoverInv, TypeOK, Numbered, Places
<1>1. CASE SessionMoves
  <2>1. SessionTypeOK' /\ (session'.turn = "resume" => session'.of \in Ops)
    BY <1>1, SessionStepTyped DEF SessionMoves
  <2>2. role' = role
    BY <1>1 DEF SessionMoves, SessionStep, Arrive, Work, HandoverTurn, ResumeTurn, Clear, Absorb,
       WriteHandover, ResumeEvent, ResumeLate, Decide, Grow, EndTurn, IdlePasses
  <2> QED BY <1>1, <2>1, <2>2 DEF SessionMoves
<1>2. CASE Suspend
  <2>1. PICK sid \in {session.sid, session.sid + 1} :
          /\ session' = [session EXCEPT !.sid = sid, !.pane = 2, !.turn = "none", !.of = 0,
                            !.queue = <<>>,
                            !.known = IF sid = session.sid THEN @ ELSE {0},
                            !.heavy = @ /\ sid = session.sid]
          /\ record' = Started(sid, 2, IF sid = session.sid THEN "resume" ELSE "startup")
    BY <1>2 DEF Suspend, Relaunch
  <2>2. session \in Session /\ session.sid \in Nat /\ session.known \subseteq Inputs
        /\ session.heavy \in BOOLEAN
    BY DEF SessionTypeOK, Session
  <2> DEFINE known == IF sid = session.sid THEN session.known ELSE {0}
             heavy == session.heavy /\ sid = session.sid
             Of == Inputs \union Ops
  <2>3. sid \in Nat /\ 0 \in Of /\ known \in SUBSET Inputs /\ <<>> \in Seq(Line)
    BY <2>2, SessionAssumption
  <2>4. heavy \in BOOLEAN BY <2>2
  <2>5. session' \in Session /\ session'.turn = "none"
    <3>1. session' = [session EXCEPT !.sid = sid, !.pane = 2, !.turn = "none", !.of = 0,
                        !.queue = <<>>, !.known = known, !.heavy = heavy]
      BY <2>1
    <3>2. Session = [sid : Nat, pane : {1, 2}, turn : Turns, of : Of, queue : Seq(Line),
                     known : SUBSET Inputs, heavy : BOOLEAN]
      BY DEF Session
    <3> HIDE DEF known, heavy, Of
    <3> QED BY <2>2, <2>3, <2>4, <3>1, <3>2 DEF Turns
  <2>6. record' \in Record BY <2>1, <2>3, RecordsTyped DEF SessionTypeOK
  <2>7. SessionTypeOK' BY <1>2, <2>5, <2>6 DEF Suspend, Relaunch, SessionTypeOK
  <2> QED BY <1>2, <2>5, <2>7 DEF Suspend, Relaunch, watcherVars
<1>3. CASE BackoffEnds
  BY <1>3, ZenonT(30) DEF BackoffEnds, sessionVars, SessionTypeOK
<1>4. CASE Crash
  <2>1. crashes' \in 0..MaxCrashes[role] BY <1>4, HandoverAssumption DEF Crash, SessionTypeOK
  <2> QED BY <1>4, <2>1 DEF Crash, Goto, sessionVars, SessionTypeOK
<1>5. CASE Restart
  BY <1>5 DEF Restart, Look, Goto, sessionVars, SessionTypeOK
<1> QED BY <1>1, <1>2, <1>3, <1>4, <1>5

\* Every step keeps the types, and the numbers.
LEMMA HandoverKept == HandoverInv /\ [Next]_vars => HandoverInv'
<1> SUFFICES ASSUME HandoverInv, [Next]_vars PROVE HandoverInv'
  OBVIOUS
<1>1. CASE Watch BY <1>1, WatchTyped, SessionAssumption
<1>2. CASE SessionMoves \/ Suspend \/ BackoffEnds \/ Crash \/ Restart
  BY <1>2, OthersTyped, SessionAssumption, HandoverAssumption
<1>3. CASE UNCHANGED vars
  BY <1>3 DEF HandoverInv, TypeOK, Numbered, vars, watcherVars, sessionVars, SessionTypeOK
<1> QED BY <1>1, <1>2, <1>3 DEF Next

\* Whatever arrives, however often the watcher dies and wherever it waits, the files, the
\* session and the operation keep their shape, and no line is typed for no operation.
THEOREM HandoverTyped == Spec => []TypeOK
<1>1. HandoverInv => TypeOK BY DEF HandoverInv
<1> QED BY InitTyped, HandoverKept, <1>1, PTL DEF Spec

-----------------------------------------------------------------------------
(* The conversation of the secretary is spared.                            *)

\* No /clear waits in the pane.
NoClear == \A k \in 1..Len(session.queue) : session.queue[k].kind # "clear"

\* The record says whether a turn runs, and a session in a turn is not idle.
RecordTrue == /\ record.open <=> session.turn # "none"
              /\ record.idle => session.turn = "none"

\* The places of an operation up to its /clear.
Before == {"handover", "written", "turn", "hold", "persons", "clear"}

\* A secretary that was idle, in a pane in which nothing waited, has no /clear of an earlier
\* operation before it; so nothing but the watcher's own /clear can end the session while it
\* looks, and what it saw stays true until a turn begins.
Spared ==
  role = "secretary" =>
    /\ pc \in Before \union {"start"} => NoClear
    /\ pc \in Before => record.sid = op.old
    /\ /\ record.idle /\ ~backoff /\ pc \notin {"dead", "fail"}
       /\ ~(pc = "clear_wait" /\ record.sid = op.old)
       => NoClear
    /\ undisturbed /\ pc \in {"hold", "persons", "clear"} => session.turn = "none"
    /\ undisturbed /\ pc \in {"persons", "clear"} => ~asked
    /\ undisturbed /\ pc = "clear" => \A i \in ReachedOld : inputs[i].person => i \in Queued

SparedInv == HandoverInv /\ RecordTrue /\ op.p0 = op.began /\ Spared

\* What a line at the end of the queue, or the loss of the first one, does to it.
LEMMA QueueSteps ==
  ASSUME NEW q \in Seq(Line)
  PROVE  /\ Len(q) \in Nat
         /\ \A line \in Line : /\ Len(Append(q, line)) = Len(q) + 1
                               /\ \A k \in 1..Len(q) : Append(q, line)[k] = q[k]
                               /\ Append(q, line)[Len(q) + 1] = line
         /\ q # <<>> => /\ Len(q) > 0 /\ Head(q) = q[1] /\ Len(Tail(q)) = Len(q) - 1
                        /\ \A k \in 1..Len(q) - 1 : Tail(q)[k] = q[k + 1]
BY AppendProperties, HeadTailProperties, LenProperties, EmptySeq

\* How a step of the session changes what waits in the pane, and when it ends the session.
LEMMA SessionQueue ==
  ASSUME HandoverInv, RecordTrue, SessionStep, SessionAssumption
  PROVE  /\ role' = role
         /\ NoClear => NoClear'
         /\ NoClear => record'.sid = record.sid
         /\ record'.idle => record'.sid = record.sid /\ (record.idle \/ session.queue = <<>>)
         /\ record'.idle => session'.queue = session.queue \/ \E person \in BOOLEAN : Arrive(person)
         /\ RecordTrue'
<1> DEFINE q == session.queue
<1>1. /\ session \in Session /\ q \in Seq(Line) /\ record \in Record
      /\ inputs \in Seq(Input) /\ Len(inputs) \in Nat
  BY LenProperties DEF HandoverInv, TypeOK, SessionTypeOK, Session
<1>2. q # <<>> => /\ Tail(q) \in Seq(Line) /\ Len(Tail(q)) = Len(q) - 1 /\ Len(q) \in Nat
                  /\ \A k \in 1..Len(q) - 1 : Tail(q)[k] = q[k + 1]
                  /\ Head(q) = q[1] /\ Len(q) > 0
  BY <1>1, QueueSteps, QueueTaken
<1>3. Len(<<>>) = 0 BY EmptySeq
<1>4. CASE \E person \in BOOLEAN : Arrive(person)
  <2>1. PICK person \in BOOLEAN : Arrive(person) BY <1>4
  <2>2. Len(inputs) + 1 \in Inputs BY <1>1, <2>1, SessionAssumption DEF Arrive
  <2>3. [kind |-> "input", of |-> Len(inputs) + 1] \in Line BY <2>2 DEF Line
  <2>4. /\ session'.queue = Append(q, [kind |-> "input", of |-> Len(inputs) + 1])
        /\ session'.turn = session.turn /\ record' = record /\ role' = role
    BY <1>1, <2>1 DEF Arrive, Session
  <2>5. NoClear => NoClear' BY <1>1, <2>3, <2>4, QueueSteps DEF NoClear
  <2> QED BY <1>1, <1>4, <2>4, <2>5 DEF RecordTrue, Record
<1>5. CASE Work \/ HandoverTurn \/ ResumeTurn
  <2>1. PICK turn \in {"work", "handover", "resume"} :
          Starts(turn) /\ q # <<>> /\ role' = role
    BY <1>5 DEF Work, HandoverTurn, ResumeTurn, Waits
  <2>2. session'.queue = Tail(q) /\ session'.turn = turn
    BY <1>1, <2>1 DEF Starts, Session
  <2>3. record'.open /\ ~record'.idle /\ record'.sid = record.sid
    BY <1>1, <1>5 DEF Work, HandoverTurn, ResumeTurn, Opened, Record
  <2>4. NoClear => NoClear' BY <1>2, <2>1, <2>2 DEF NoClear
  <2> QED BY <2>1, <2>2, <2>3, <2>4 DEF RecordTrue
<1>6. CASE Clear
  <2>1. q # <<>> /\ Head(q).kind = "clear" /\ role' = role BY <1>6 DEF Clear, Waits
  <2>2. ~NoClear BY <1>2, <2>1 DEF NoClear
  <2>3. ~record'.idle /\ ~record'.open BY <1>1, <1>6 DEF Clear, Started, Record
  <2>4. session'.turn = "none" BY <1>1, <1>6 DEF Clear, Session
  <2> QED BY <2>1, <2>2, <2>3, <2>4 DEF RecordTrue
<1>7. CASE Absorb
  <2>1. /\ session'.queue = Tail(q) /\ q # <<>> /\ session'.turn = session.turn
        /\ session.turn # "none" /\ role' = role
    BY <1>1, <1>7 DEF Absorb, Waits, Session
  <2>2. record'.open /\ ~record'.idle /\ record'.sid = record.sid
    BY <1>1, <1>7 DEF Absorb, Opened, Record
  <2>3. NoClear => NoClear' BY <1>2, <2>1 DEF NoClear
  <2> QED BY <2>1, <2>2, <2>3 DEF RecordTrue
<1>8. CASE WriteHandover \/ ResumeEvent \/ ResumeLate \/ Decide \/ Grow
  <2>1. session'.queue = q /\ session'.turn = session.turn /\ record' = record /\ role' = role
        /\ session.turn # "none"
    BY <1>1, <1>8 DEF WriteHandover, ResumeEvent, ResumeLate, Decide, Grow, Session
  <2> QED BY <2>1 DEF RecordTrue, NoClear
<1>9. CASE EndTurn
  <2>1. session'.queue = q /\ session'.turn = "none" /\ role' = role
    BY <1>1, <1>9 DEF EndTurn, Session
  <2>2. ~record'.open /\ ~record'.idle /\ record'.sid = record.sid
    BY <1>1, <1>9 DEF EndTurn, Closed, Record
  <2> QED BY <2>1, <2>2 DEF RecordTrue, NoClear
<1>10. CASE IdlePasses
  <2>1. /\ session' = session /\ session.turn = "none" /\ q = <<>> /\ role' = role
        /\ record'.open = record.open /\ record'.sid = record.sid
    BY <1>1, <1>10 DEF IdlePasses, Record
  <2> QED BY <2>1 DEF RecordTrue, NoClear
<1> QED BY <1>4, <1>5, <1>6, <1>7, <1>8, <1>9, <1>10 DEF SessionStep

\* What the watcher saw stays true while the session goes on without a turn.
LEMMA SessionSpares ==
  ASSUME SparedInv, HandoverInv', SessionMoves, SessionAssumption
  PROVE  SparedInv'
<1>1. /\ role' = role
      /\ NoClear => NoClear'
      /\ NoClear => record'.sid = record.sid
      /\ record'.idle => record'.sid = record.sid /\ (record.idle \/ session.queue = <<>>)
      /\ record'.idle => session'.queue = session.queue \/ \E person \in BOOLEAN : Arrive(person)
      /\ RecordTrue'
  BY SessionQueue DEF SparedInv, SessionMoves
<1>2. UNCHANGED <<op, backoff, reported, pc, tries, crashes>>
      /\ (undisturbed' => undisturbed /\ session'.turn = session.turn)
  BY DEF SessionMoves
<1>3. SUFFICES ASSUME role = "secretary" PROVE Spared'
  BY <1>1, <1>2 DEF SparedInv, Spared
<1>4. session.queue = <<>> => NoClear BY EmptySeq DEF NoClear
<1>5. /\ pc \in Before \union {"start"} => NoClear'
      /\ pc \in Before => record'.sid = op.old
  BY <1>1, <1>3 DEF SparedInv, Spared
<1>6. /\ record'.idle /\ ~backoff /\ pc \notin {"dead", "fail"}
      /\ ~(pc = "clear_wait" /\ record'.sid = op.old)
      => NoClear'
  BY <1>1, <1>3, <1>4 DEF SparedInv, Spared
<1>7. undisturbed' /\ pc \in {"hold", "persons", "clear"} => session'.turn = "none"
  BY <1>2, <1>3 DEF SparedInv, Spared
<1>8. ASSUME undisturbed', pc \in {"persons", "clear"}
      PROVE  /\ ~asked'
             /\ pc = "clear" => \A i \in ReachedOld' : inputs'[i].person => i \in Queued'
  <2>1. /\ session.turn = "none" /\ session'.turn = "none" /\ ~asked
        /\ pc = "clear" => \A i \in ReachedOld : inputs[i].person => i \in Queued
        /\ NoClear
    BY <1>2, <1>3, <1>8 DEF SparedInv, Spared, Before
  <2>2. /\ session \in Session /\ session.queue \in Seq(Line) /\ inputs \in Seq(Input)
        /\ Len(inputs) \in Nat
    BY LenProperties DEF SparedInv, HandoverInv, TypeOK, SessionTypeOK, Session
  <2>3. CASE IdlePasses
    <3>1. UNCHANGED <<session, inputs, asked>> BY <2>3 DEF IdlePasses
    <3> QED BY <1>2, <2>1, <3>1 DEF ReachedOld, Queued
  <2>4. CASE \E person \in BOOLEAN : Arrive(person)
    <3>1. PICK person \in BOOLEAN : Arrive(person) BY <2>4
    <3> DEFINE new == [kind |-> "input", of |-> Len(inputs) + 1]
               in == [sid |-> session.sid, person |-> person]
    <3>2. Len(inputs) + 1 \in Inputs BY <2>2, <3>1, SessionAssumption DEF Arrive
    <3>3. new \in Line /\ in \in Input BY <2>2, <3>2 DEF Line, Input, Session
    <3>4. inputs' = Append(inputs, in) /\ asked' = asked
          /\ session'.queue = Append(session.queue, new)
      BY <2>2, <3>1 DEF Arrive, Session
    <3> HIDE DEF new, in
    <3>5. /\ Len(inputs') = Len(inputs) + 1 /\ DOMAIN inputs = 1..Len(inputs)
          /\ DOMAIN inputs' = 1..Len(inputs) + 1
          /\ \A i \in 1..Len(inputs) : inputs'[i] = inputs[i]
      BY <2>2, <3>3, <3>4, AppendProperties, LenProperties
    <3>6. /\ Len(session'.queue) = Len(session.queue) + 1 /\ Len(session.queue) \in Nat
          /\ DOMAIN session.queue = 1..Len(session.queue)
          /\ DOMAIN session'.queue = 1..Len(session.queue) + 1
          /\ \A k \in 1..Len(session.queue) : session'.queue[k] = session.queue[k]
          /\ session'.queue[Len(session.queue) + 1] = new
      BY <2>2, <3>3, <3>4, AppendProperties, LenProperties
    <3>7. Len(inputs) + 1 \in Queued'
      <4>1. Len(session.queue) + 1 \in DOMAIN session'.queue BY <3>6
      <4> QED BY <3>6, <4>1 DEF Queued, new
    <3>8. Queued \subseteq Queued'
      <4> SUFFICES ASSUME NEW k \in DOMAIN session.queue, session.queue[k].kind = "input"
                   PROVE  session.queue[k].of \in Queued'
        BY DEF Queued
      <4>1. k \in DOMAIN session'.queue /\ session'.queue[k] = session.queue[k] BY <3>6
      <4> QED BY <4>1 DEF Queued
    <3>9. \A i \in ReachedOld' : i = Len(inputs) + 1 \/ (i \in ReachedOld /\ inputs'[i] = inputs[i])
      BY <1>2, <2>2, <3>5 DEF ReachedOld
    <3> QED BY <2>1, <3>4, <3>7, <3>8, <3>9
  <2>5. IdlePasses \/ \E person \in BOOLEAN : Arrive(person)
    <3>1. ~(Absorb \/ WriteHandover \/ ResumeEvent \/ ResumeLate \/ Decide \/ Grow \/ EndTurn)
      BY <2>1 DEF Absorb, WriteHandover, ResumeEvent, ResumeLate, Decide, Grow, EndTurn
    <3>2. ~(Work \/ HandoverTurn \/ ResumeTurn)
      <4>1. \A turn \in {"work", "handover", "resume"} : ~Starts(turn)
        BY <2>1, <2>2 DEF Starts, Session
      <4> QED BY <4>1 DEF Work, HandoverTurn, ResumeTurn
    <3>3. ~Clear
      <4> SUFFICES ASSUME Clear PROVE FALSE OBVIOUS
      <4>1. session.queue # <<>> /\ Head(session.queue).kind = "clear" BY DEF Clear, Waits
      <4> QED BY <2>1, <2>2, <4>1, QueueSteps DEF NoClear
    <3> QED BY <3>1, <3>2, <3>3 DEF SessionMoves, SessionStep
  <2> QED BY <2>3, <2>4, <2>5
<1>9. Spared' BY <1>1, <1>2, <1>5, <1>6, <1>7, <1>8 DEF Spared
<1> QED BY <1>1, <1>2, <1>9 DEF SparedInv

\* A line that the watcher types is a /clear only at the place for it.
LEMMA TypeLineSpares ==
  ASSUME SparedInv, HandoverInv', op.id # 0, NEW kind \in {"handover", "clear", "resume"},
         NEW place \in {"written", "clear_wait", "resume_wait"},
         <<kind, pc, place>> \in {<<"handover", "handover", "written">>,
                                  <<"clear", "clear", "clear_wait">>,
                                  <<"resume", "resume", "resume_wait">>},
         TypeLine(kind, place)
  PROVE  SparedInv'
<1>1. UNCHANGED <<role, inputs, record, asked, op, backoff, undisturbed>>
      /\ pc' \in {place, "fail"}
  BY DEF TypeLine, Look, Goto, sessionVars
<1>2. session \in Session /\ session.queue \in Seq(Line) /\ op \in Op
  BY DEF SparedInv, HandoverInv, TypeOK, SessionTypeOK, Session
<1>3. session'.turn = session.turn
  BY <1>2 DEF TypeLine, Submitted, Look, sessionVars, Session
<1>4. RecordTrue' /\ op'.p0 = op'.began BY <1>1, <1>3 DEF SparedInv, RecordTrue
<1>5. kind # "clear" => (NoClear => NoClear')
  <2>1. CASE session' = session BY <2>1 DEF NoClear
  <2>2. CASE session' = Submitted(kind, op.id)
    <3>1. [kind |-> kind, of |-> op.id] \in Line BY <1>2 DEF Op, Line
    <3>2. session'.queue = Append(session.queue, [kind |-> kind, of |-> op.id])
      BY <1>2, <2>2 DEF Submitted, Session
    <3> QED BY <1>2, <3>1, <3>2, QueueSteps DEF NoClear
  <2> QED BY <2>1, <2>2 DEF TypeLine, Look, sessionVars
<1>6. Spared' BY <1>1, <1>5 DEF SparedInv, Spared, Before
<1> QED BY <1>4, <1>6 DEF SparedInv

\* The looks before /clear, and every other step of the watcher.
LEMMA WatchSpares ==
  ASSUME SparedInv, HandoverInv', Watch
  PROVE  SparedInv'
<1> USE DEF SparedInv
<1>0. /\ op \in Op /\ record \in Record /\ Len(inputs) \in Nat /\ session \in Session
      /\ pc \notin {"tick", "start", "dead"} => op.id # 0
  BY LenProperties DEF HandoverInv, TypeOK, SessionTypeOK, Numbered
<1>1. CASE TypeHandover \/ TypeClear \/ TypeResume
  BY <1>0, <1>1, TypeLineSpares DEF TypeHandover, TypeClear, TypeResume
<1>2. CASE Due
  <2>1. pc = "tick" /\ pc' = "start" /\ ~backoff /\ UNCHANGED <<sessionVars, op, backoff, undisturbed>>
        /\ (role = "secretary" => record.idle)
    BY <1>2 DEF Due, Look, Goto
  <2>2. NoClear' <=> NoClear BY <2>1 DEF NoClear, sessionVars
  <2>3. role = "secretary" => NoClear BY <2>1 DEF Spared
  <2>4. Spared' BY <2>1, <2>2, <2>3 DEF Spared, Before, sessionVars
  <2> QED BY <2>1, <2>4 DEF RecordTrue, sessionVars
<1>3. CASE StartOp
  <2>1. /\ pc = "start" /\ pc' = "handover" /\ UNCHANGED <<role, session, backoff>>
        /\ op'.old = record.sid /\ op'.p0 = op'.began
        /\ record'.sid = record.sid /\ record'.open = record.open /\ record'.idle = record.idle
    BY <1>0, <1>3 DEF StartOp, Goto, NoOp, Record
  <2>2. NoClear' <=> NoClear BY <2>1 DEF NoClear
  <2>3. Spared' BY <2>1, <2>2 DEF Spared, Before
  <2> QED BY <2>1, <2>3 DEF RecordTrue
<1>4. CASE LookAtTurn
  <2>1. /\ pc = "turn" /\ UNCHANGED <<sessionVars, op, backoff>>
        /\ pc' \in {"fail", "hold", "clear"}
        /\ pc' = "hold" => ~record.open
        /\ pc' = "clear" => role # "secretary"
    BY <1>4 DEF LookAtTurn, Goto
  <2>2. NoClear' <=> NoClear BY <2>1 DEF NoClear, sessionVars
  <2>3. Spared' BY <2>1, <2>2 DEF Spared, Before, RecordTrue, sessionVars
  <2> QED BY <2>1, <2>3 DEF RecordTrue, sessionVars
<1>5. CASE LookAtHold
  <2>1. /\ pc = "hold" /\ UNCHANGED <<sessionVars, op, backoff, undisturbed>>
        /\ pc' = "fail" \/ (pc' = "persons" /\ ~asked)
    BY <1>5 DEF LookAtHold, Look, Goto
  <2>2. NoClear' <=> NoClear BY <2>1 DEF NoClear, sessionVars
  <2>3. Spared' BY <2>1, <2>2 DEF Spared, Before, sessionVars
  <2> QED BY <2>1, <2>3 DEF RecordTrue, sessionVars
<1>6. CASE LookAtPersons
  <2>1. /\ pc = "persons" /\ UNCHANGED <<sessionVars, op, backoff, undisturbed>>
        /\ pc' = "fail" \/ (pc' = "clear" /\ PersonInputs = {})
    BY <1>6 DEF LookAtPersons, Look, Goto
  <2>2. NoClear' <=> NoClear BY <2>1 DEF NoClear, sessionVars
  <2>3. PersonInputs = {} => \A i \in ReachedOld : ~inputs[i].person
    BY DEF PersonInputs, LateInputs, ReachedOld
  <2>4. ReachedOld' = ReachedOld /\ inputs' = inputs BY <2>1 DEF ReachedOld, sessionVars
  <2>5. Spared' BY <2>1, <2>2, <2>3, <2>4 DEF Spared, Before, sessionVars
  <2> QED BY <2>1, <2>5 DEF RecordTrue, sessionVars
<1>7. CASE Recover \/ SeesClear
  <2>1. /\ UNCHANGED <<sessionVars, backoff, undisturbed>> /\ op'.old = op.old
        /\ op'.p0 = op.p0 /\ op'.began = op.began
        /\ \/ pc = "tick" /\ pc' \in {"clear_wait", "settle", "resume", "verify", "fail"}
           \/ pc = "clear_wait" /\ pc' = "settle" /\ record.sid # op.old
    BY <1>0, <1>7 DEF Recover, SeesClear, Cleared, Save, Look, Goto, PlaceOf, Under, Op
  <2>2. NoClear' <=> NoClear BY <2>1 DEF NoClear, sessionVars
  <2>3. Spared' BY <2>1, <2>2 DEF Spared, Before, sessionVars
  <2> QED BY <2>1, <2>3 DEF RecordTrue, sessionVars
<1>8. CASE Written
  <2>1. /\ UNCHANGED <<sessionVars, backoff, undisturbed>> /\ op'.old = op.old
        /\ op'.p0 = op.p0 /\ op'.began = op.began /\ pc = "written" /\ pc' = "turn"
    BY <1>0, <1>8 DEF Written, Save, Goto, Op
  <2>2. NoClear' <=> NoClear BY <2>1 DEF NoClear, sessionVars
  <2>3. Spared' BY <2>1, <2>2 DEF Spared, Before, sessionVars
  <2> QED BY <2>1, <2>3 DEF RecordTrue, sessionVars
<1>9. CASE NotWritten \/ ClearTimeout \/ ResumeFails \/ LoopFails
  <2>1. pc' = "fail" /\ UNCHANGED <<sessionVars, op, backoff, undisturbed>>
    BY <1>9 DEF NotWritten, ClearTimeout, ResumeFails, LoopFails, Look, Goto
  <2>2. Spared' BY <2>1 DEF Spared, Before, sessionVars
  <2> QED BY <2>1, <2>2 DEF RecordTrue, sessionVars
<1>10. CASE \/ Settle \/ WriteLate \/ Settled \/ ResumeKnown \/ ResumeBegins \/ ResumeTimeout
            \/ ResumeEnds \/ Verify \/ Done
  <2>1. /\ UNCHANGED <<role, session, inputs, record, asked, backoff, undisturbed>>
        /\ op'.old = op.old /\ op'.p0 = op.p0 /\ op'.began = op.began
        /\ pc \in {"settle", "late", "settled", "resume", "resume_wait", "running", "verify", "loop"}
        /\ pc' \in {"late", "settled", "resume", "running", "verify", "loop", "tick"}
    BY <1>0, <1>10 DEF Settle, WriteLate, Settled, ResumeKnown, ResumeBegins, ResumeTimeout,
                       ResumeEnds, Verify, Done, Save, Look, Goto, Op, sessionVars
  <2>2. NoClear' <=> NoClear BY <2>1 DEF NoClear
  <2>3. Spared' BY <2>1, <2>2 DEF Spared, Before
  <2> QED BY <2>1, <2>3 DEF RecordTrue
<1>11. CASE Fail \/ Report
  <2>1. /\ UNCHANGED <<sessionVars, undisturbed>> /\ op'.old = op.old
        /\ op'.p0 = op.p0 /\ op'.began = op.began
        /\ \/ pc' = "report" /\ backoff'
           \/ pc = "report" /\ pc' = "tick" /\ backoff' = backoff
    BY <1>0, <1>11 DEF Fail, Report, Goto, Op
  <2>2. NoClear' <=> NoClear BY <2>1 DEF NoClear, sessionVars
  <2>3. Spared' BY <2>1, <2>2 DEF Spared, Before, sessionVars
  <2> QED BY <2>1, <2>3 DEF RecordTrue, sessionVars
<1> QED
  BY <1>1, <1>2, <1>3, <1>4, <1>5, <1>6, <1>7, <1>8, <1>9, <1>10, <1>11 DEF Watch

\* A watcher that died is started again when nothing waits, or while a turn runs.
LEMMA OthersSpare ==
  ASSUME SparedInv, HandoverInv', Suspend \/ BackoffEnds \/ Crash \/ Restart
  PROVE  SparedInv'
<1> USE DEF SparedInv
<1>1. CASE Suspend
  <2>1. /\ pc = "dead" /\ UNCHANGED watcherVars /\ role' = role
        /\ session'.turn = "none" /\ ~record'.open /\ ~record'.idle
    <3>1. session \in Session /\ record \in Record
      BY DEF HandoverInv, TypeOK, SessionTypeOK
    <3> QED BY <1>1, <3>1 DEF Suspend, Relaunch, Started, Session, Record
  <2> QED BY <2>1 DEF RecordTrue, Spared, Before, watcherVars
<1>2. CASE BackoffEnds
  <2>1. session.queue = <<>> /\ UNCHANGED <<sessionVars, op, pc, undisturbed>>
    BY <1>2 DEF BackoffEnds
  <2>2. NoClear /\ NoClear' BY <2>1, EmptySeq DEF NoClear, sessionVars
  <2>3. ReachedOld' = ReachedOld /\ Queued' = Queued /\ inputs' = inputs
    BY <2>1 DEF ReachedOld, Queued, sessionVars
  <2>4. Spared' BY <2>1, <2>2, <2>3 DEF Spared, sessionVars
  <2> QED BY <2>1, <2>4 DEF RecordTrue, sessionVars
<1>3. CASE Crash
  <2>1. pc' = "dead" /\ UNCHANGED <<sessionVars, op>> BY <1>3 DEF Crash, Goto
  <2> QED BY <2>1 DEF RecordTrue, Spared, Before, sessionVars
<1>4. CASE Restart
  <2>1. /\ pc' = "tick" /\ UNCHANGED <<sessionVars, op, backoff, undisturbed>>
        /\ session.turn = "none" => session.queue = <<>>
    BY <1>4 DEF Restart, Look, Goto
  <2>2. record.idle => NoClear' BY <2>1, EmptySeq DEF RecordTrue, NoClear, sessionVars
  <2>3. Spared' BY <2>1, <2>2 DEF Spared, Before, sessionVars
  <2> QED BY <2>1, <2>3 DEF RecordTrue, sessionVars
<1> QED BY <1>1, <1>2, <1>3, <1>4

\* The steps keep it.
LEMMA SparedAlways == Spec => []SparedInv
<1>1. Init => SparedInv
  <2> SUFFICES ASSUME Init PROVE SparedInv
    OBVIOUS
  <2>1. NoClear BY EmptySeq DEF Init, SessionInit, NoClear
  <2> QED BY <2>1, InitTyped DEF Init, SessionInit, SparedInv, RecordTrue, Spared, Before, NoOp
<1>2. SparedInv /\ HandoverInv' /\ [Next]_vars => SparedInv'
  <2> SUFFICES ASSUME SparedInv, HandoverInv', [Next]_vars PROVE SparedInv'
    OBVIOUS
  <2>1. CASE Watch BY <2>1, WatchSpares
  <2>2. CASE SessionMoves BY <2>2, SessionSpares, SessionAssumption
  <2>3. CASE Suspend \/ BackoffEnds \/ Crash \/ Restart BY <2>3, OthersSpare
  <2>4. CASE UNCHANGED vars
    BY <2>4 DEF vars, watcherVars, sessionVars, SparedInv, RecordTrue, Spared, NoClear,
                ReachedOld, Queued
  <2> QED BY <2>1, <2>2, <2>3, <2>4 DEF Next
<1>3. Spec => []HandoverInv
  BY InitTyped, HandoverKept, PTL DEF Spec
<1> QED BY <1>1, <1>2, <1>3, PTL DEF Spec

\* The secretary's /clear is not typed while a question is open or after a person has written,
\* unless a turn began after the look, wherever the watcher died before, and for any number of
\* operations and inputs (tools/context_handover_watch.py, the checks before /clear).
THEOREM ConversationSpared == Spec => ClearSparesConversation
<1> DEFINE A == /\ role = "secretary" /\ pc = "clear" /\ session'.queue # session.queue
                /\ pc' # pc /\ undisturbed
                => ~asked /\ \A i \in ReachedOld : inputs[i].person => i \in Queued
<1>1. SparedInv => A BY DEF SparedInv, Spared
<1> QED BY <1>1, SparedAlways, PTL DEF ClearSparesConversation

-----------------------------------------------------------------------------
(* Nothing is lost in silence.                                             *)

NoneOf(kind) == \A k \in 1..Len(session.queue) : session.queue[k].kind # kind

OneOf(kind) ==
  \A j, k \in 1..Len(session.queue) :
    session.queue[j].kind = kind /\ session.queue[k].kind = kind => j = k

\* No resume of operation o waits or runs, or has been.
Untold(o) ==
  /\ o \notin resumed
  /\ session.turn = "resume" => session.of # o
  /\ \A k \in 1..Len(session.queue) :
       session.queue[k].kind = "resume" => session.queue[k].of # o

\* From the places of a /clear that was seen on.
Following == {"settle", "late", "settled", "resume", "resume_wait", "running", "verify", "loop"}

\* Where the watcher is says how far the operation on disk is.
StageHere ==
  /\ pc \in {"handover", "written"} => op.stage = "handover"
  /\ pc \in {"turn", "hold", "persons", "clear", "clear_wait"} => op.stage = "clearing"
  /\ pc \in {"settle", "late", "settled"} => op.stage = "cleared"
  /\ pc \in {"resume", "resume_wait", "running"} => op.stage = "resuming"
  /\ pc \in {"verify", "loop"} => op.stage = "verifying"
  /\ pc = "report" => op.stage = "failed"
  /\ role = "dispatcher" => /\ pc # "dead"
                            /\ pc \in {"tick", "start"} => op.stage \notin Under

\* A /clear waits only from the time it is typed on until it takes effect.
ClearsKnown ==
  /\ op.stage \notin {"clearing", "failed"} => NoneOf("clear")
  /\ pc \in Before => NoneOf("clear") /\ session.sid = op.old
  /\ op.stage = "clearing" => OneOf("clear") /\ (session.sid = op.old \/ NoneOf("clear"))
  /\ op.stage = "handover" => session.sid = op.old \/ record.source # "clear"

\* The file of a handover that was found written is not written again: the handover line
\* waits, or its turn runs, or has run.
HandoversKnown ==
  /\ op.stage \notin {"handover", "failed"} => NoneOf("handover") /\ session.turn # "handover"
  /\ pc = "handover" => NoneOf("handover") /\ session.turn # "handover" /\ ~file.fresh
  /\ op.stage = "handover" =>
       OneOf("handover") /\ (NoneOf("handover") \/ (session.turn # "handover" /\ ~file.fresh))

\* An operation starts with nothing of an earlier one before it.
NothingLeft ==
  /\ op.stage = "failed" /\ ~backoff => NoneOf("clear") /\ NoneOf("handover")
  /\ pc = "tick" /\ role = "secretary" /\ record.idle /\ ~backoff
       => NoneOf("clear") /\ NoneOf("handover")
  /\ pc = "start" => NoneOf("clear") /\ NoneOf("handover") /\ session.turn # "handover"

\* Sessions and operations in their order: those to come have left no trace.
InOrder ==
  /\ record.sid = session.sid
  /\ op.stage \in Under => op.old <= session.sid
  /\ op.stage \in {"cleared", "resuming", "verifying"} => op.old < op.new /\ op.new <= session.sid
  /\ pc \in Following => session.sid = op.new
  /\ \A o \in Ops : o > op.id \/ (o = op.id /\ op.stage \in {"handover", "clearing", "cleared"})
       => Untold(o)
  /\ \A o \in Ops : o > op.id \/ (o = op.id /\ op.stage \in {"handover", "clearing"})
       => late[o].state = "none"

\* What the session knew when the operation began, in the file and then in the session.
SaidInFile ==
  /\ op.stage = "handover" /\ session.sid = op.old =>
       op.had \subseteq session.known /\ (file.fresh => op.had \subseteq file.says)
  /\ op.stage \in {"clearing", "cleared", "resuming", "verifying"} => op.had \subseteq file.says
  /\ op.stage \in {"resuming", "verifying"} /\ session.sid = op.new /\ op.id \in resumed
       => op.had \subseteq session.known
  /\ op.stage = "verifying" => op.id \in resumed

\* What reached the old session since, in the late-input file and then in the session.
SaidLate ==
  /\ op.stage = "cleared" =>
       /\ late[op.id].state # "consumed"
       /\ late[op.id].state = "there" /\ pc # "late" => late[op.id].says = LateInputs
       /\ pc = "late" => late[op.id].state = "there"
       /\ pc = "settled" => LateInputs = {} \/ late[op.id].state = "there"
  /\ op.stage \in {"resuming", "verifying"} =>
       /\ op.late <=> LateInputs # {}
       /\ op.late => late[op.id].state # "none" /\ late[op.id].says = LateInputs
       /\ op.late /\ late[op.id].state = "consumed" /\ session.sid = op.new
            => LateInputs \subseteq session.known
  /\ pc = "loop" /\ op.id \notin reported => ~Unread

FollowInv == /\ StageHere /\ ClearsKnown /\ HandoversKnown /\ NothingLeft
             /\ InOrder /\ SaidInFile /\ SaidLate

\* The watcher is not killed between two writes that belong together, and that of the
\* dispatcher, whose /clear may wait behind a turn when it is started again, not at all.
CalmDeaths == ~DiesInGaps /\ ("dispatcher" \in Roles => MaxCrashes["dispatcher"] = 0)

\* A step of the session loses a line at one end of the queue or adds an input at the other.
LEMMA QueueAfter ==
  ASSUME HandoverInv, SessionStep
  PROVE  \/ session'.queue = session.queue
         \/ \E line \in Line : line.kind = "input" /\ session'.queue = Append(session.queue, line)
         \/ session.queue # <<>> /\ session'.queue = Tail(session.queue)
         \/ session'.queue = <<>>
<1>1. session \in Session /\ inputs \in Seq(Input) /\ Len(inputs) \in Nat
  BY LenProperties DEF HandoverInv, TypeOK, SessionTypeOK, Session
<1>2. CASE \E person \in BOOLEAN : Arrive(person)
  <2> DEFINE line == [kind |-> "input", of |-> Len(inputs) + 1]
  <2>1. Len(inputs) + 1 \in Inputs BY <1>1, <1>2, SessionAssumption DEF Arrive
  <2>2. line \in Line /\ line.kind = "input" BY <2>1 DEF Line
  <2>3. session'.queue = Append(session.queue, line) BY <1>1, <1>2 DEF Arrive, Session
  <2> QED BY <2>2, <2>3
<1>3. CASE Work \/ HandoverTurn \/ ResumeTurn
  BY <1>1, <1>3 DEF Work, HandoverTurn, ResumeTurn, Waits, Starts, Session
<1>4. CASE Clear
  BY <1>1, <1>4 DEF Clear, Waits, Session
<1>5. CASE Absorb
  BY <1>1, <1>5 DEF Absorb, Waits, Session
<1>6. CASE WriteHandover \/ ResumeEvent \/ ResumeLate \/ Decide \/ Grow \/ EndTurn \/ IdlePasses
  BY <1>1, <1>6 DEF WriteHandover, ResumeEvent, ResumeLate, Decide, Grow, EndTurn, IdlePasses, Session
<1> QED BY <1>2, <1>3, <1>4, <1>5, <1>6 DEF SessionStep

\* So no line of the watcher's appears in it, nor is there twice what was there once.
LEMMA LinesAfter ==
  ASSUME HandoverInv, SessionStep, NEW kind \in {"handover", "clear", "resume"}
  PROVE  /\ \A k \in 1..Len(session'.queue) :
              \/ session'.queue[k].kind = "input"
              \/ \E j \in 1..Len(session.queue) : session'.queue[k] = session.queue[j]
         /\ NoneOf(kind) => NoneOf(kind)'
         /\ OneOf(kind) => OneOf(kind)'
<1> DEFINE q == session.queue
           r == session'.queue
<1>1. q \in Seq(Line) /\ Len(q) \in Nat
  BY LenProperties DEF HandoverInv, TypeOK, SessionTypeOK, Session
<1>2. CASE r = q
  BY <1>2 DEF NoneOf, OneOf
<1>3. CASE \E line \in Line : line.kind = "input" /\ r = Append(q, line)
  <2>1. PICK line \in Line : line.kind = "input" /\ r = Append(q, line) BY <1>3
  <2>2. /\ Len(r) = Len(q) + 1 /\ r[Len(q) + 1] = line
        /\ \A k \in 1..Len(q) : r[k] = q[k]
    BY <1>1, <2>1, QueueSteps
  <2>3. \A k \in 1..Len(r) : k = Len(q) + 1 \/ k \in 1..Len(q) BY <1>1, <2>2
  <2> HIDE DEF q, r
  <2>4. \A k \in 1..Len(r) : r[k].kind = "input" \/ (k \in 1..Len(q) /\ r[k] = q[k])
    BY <2>1, <2>2, <2>3
  <2> QED BY <2>4 DEF NoneOf, OneOf, q, r
<1>4. CASE q # <<>> /\ r = Tail(q)
  <2>1. Len(r) = Len(q) - 1 /\ \A k \in 1..Len(q) - 1 : r[k] = q[k + 1] BY <1>1, <1>4, QueueSteps
  <2>2. \A k \in 1..Len(r) : k + 1 \in 1..Len(q) /\ r[k] = q[k + 1] BY <1>1, <2>1
  <2>3. \A j, k \in 1..Len(r) : j + 1 = k + 1 => j = k OBVIOUS
  <2> QED BY <2>2, <2>3 DEF NoneOf, OneOf
<1>5. CASE r = <<>>
  BY <1>5, EmptySeq DEF NoneOf, OneOf
<1> QED BY <1>2, <1>3, <1>4, <1>5, QueueAfter

\* The only line of a kind, once it is taken, is gone.
LEMMA OneTaken ==
  ASSUME HandoverInv, NEW kind \in {"handover", "clear", "resume"}, OneOf(kind), Waits(kind),
         session'.queue = Tail(session.queue) \/ session'.queue = <<>>
  PROVE  NoneOf(kind)'
<1> DEFINE q == session.queue
<1>1. q \in Seq(Line) /\ Len(q) \in Nat
  BY LenProperties DEF HandoverInv, TypeOK, SessionTypeOK, Session
<1>2. CASE session'.queue = <<>> BY <1>2, EmptySeq DEF NoneOf
<1>3. CASE session'.queue = Tail(q)
  <2>1. /\ q # <<>> /\ q[1].kind = kind /\ Len(q) > 0 /\ Len(session'.queue) = Len(q) - 1
        /\ \A k \in 1..Len(q) - 1 : session'.queue[k] = q[k + 1]
    BY <1>1, <1>3, QueueSteps DEF Waits
  <2> SUFFICES ASSUME NEW k \in 1..Len(session'.queue), session'.queue[k].kind = kind PROVE FALSE
    BY DEF NoneOf
  <2>2. k + 1 \in 1..Len(q) /\ 1 \in 1..Len(q) /\ q[k + 1].kind = kind BY <1>1, <2>1
  <2>3. k + 1 = 1 BY <2>1, <2>2 DEF OneOf
  <2> QED BY <2>3
<1> QED BY <1>2, <1>3

\* What a step of the session does to what it knows, to the files and to the events.
LEMMA SessionAfter ==
  ASSUME HandoverInv, RecordTrue, SessionStep
  PROVE  /\ \/ session'.sid = session.sid /\ session.known \subseteq session'.known
               /\ record'.sid = record.sid /\ record'.source = record.source
            \/ Clear /\ session'.sid = session.sid + 1 /\ record'.sid = session.sid + 1
         /\ session'.turn = "handover" =>
              session.turn = "handover" \/ (HandoverTurn /\ session'.queue = Tail(session.queue))
         /\ session'.turn = "resume" =>
              \/ session.turn = "resume" /\ session'.of = session.of
              \/ session.queue # <<>> /\ Head(session.queue).kind = "resume"
                 /\ session'.of = Head(session.queue).of
         /\ \/ file' = file
            \/ /\ session.turn = "handover" /\ session' = session
               /\ file'.says = session.known
         /\ \/ resumed' = resumed
            \/ /\ session.turn = "resume" /\ resumed' = resumed \union {session.of}
               /\ session'.known = session.known \union file.says
         /\ \/ late' = late
            \/ /\ session.turn = "resume" /\ late[session.of].state = "there"
               /\ late' = [late EXCEPT ![session.of].state = "consumed"]
               /\ session'.known = session.known \union late[session.of].says
         /\ \/ inputs' = inputs
            \/ \E person \in BOOLEAN :
                 inputs' = Append(inputs, [sid |-> session.sid, person |-> person])
<1>1. session \in Session /\ record \in Record /\ file \in [says : SUBSET Inputs, fresh : BOOLEAN]
  BY DEF HandoverInv, TypeOK, SessionTypeOK
<1> DEFINE same == /\ session'.sid = session.sid /\ session.known \subseteq session'.known
                   /\ record'.sid = record.sid /\ record'.source = record.source
           turn == session'.turn = session.turn /\ session'.of = session.of
           rest == file' = file /\ resumed' = resumed /\ late' = late /\ inputs' = inputs
<1>2. CASE \E person \in BOOLEAN : Arrive(person)
  <2>1. same /\ turn /\ file' = file /\ resumed' = resumed /\ late' = late
    BY <1>1, <1>2 DEF Arrive, Session
  <2>2. \E person \in BOOLEAN : inputs' = Append(inputs, [sid |-> session.sid, person |-> person])
    BY <1>2 DEF Arrive
  <2> QED BY <2>1, <2>2
<1>3. CASE Work \/ HandoverTurn \/ ResumeTurn
  <2>1. PICK new \in {"work", "handover", "resume"} : Starts(new) BY <1>3 DEF Work, HandoverTurn, ResumeTurn
  <2>2. /\ session'.sid = session.sid /\ session.known \subseteq session'.known
        /\ session'.turn = new /\ session'.queue = Tail(session.queue)
        /\ session'.of = Head(session.queue).of
    BY <1>1, <2>1 DEF Starts, Session
  <2>3. record'.sid = record.sid /\ record'.source = record.source
    BY <1>1, <1>3 DEF Work, HandoverTurn, ResumeTurn, Opened, Record
  <2>4. rest BY <1>3 DEF Work, HandoverTurn, ResumeTurn
  <2>5. CASE Work
    <3>1. session'.turn = "work" BY <1>1, <2>5 DEF Work, Starts, Session
    <3> QED BY <2>2, <2>3, <2>4, <3>1
  <2>6. CASE HandoverTurn
    <3>1. session'.turn = "handover" BY <1>1, <2>6 DEF HandoverTurn, Starts, Session
    <3> QED BY <2>2, <2>3, <2>4, <2>6, <3>1
  <2>7. CASE ResumeTurn
    <3>1. session'.turn = "resume" BY <1>1, <2>7 DEF ResumeTurn, Starts, Session
    <3>2. session.queue # <<>> /\ Head(session.queue).kind = "resume" BY <2>7 DEF ResumeTurn, Waits
    <3> QED BY <2>2, <2>3, <2>4, <3>1, <3>2
  <2> QED BY <1>3, <2>5, <2>6, <2>7
<1>4. CASE Clear
  <2>1. session'.sid = session.sid + 1 /\ session'.turn = session.turn /\ session.turn = "none"
    BY <1>1, <1>4 DEF Clear, Session
  <2>2. record'.sid = session.sid + 1 BY <1>1, <1>4 DEF Clear, Started, Record
  <2>3. rest BY <1>4 DEF Clear
  <2> QED BY <1>4, <2>1, <2>2, <2>3
<1>5. CASE Absorb
  <2>1. same /\ turn BY <1>1, <1>5 DEF Absorb, Opened, Session, Record
  <2>2. rest BY <1>5 DEF Absorb
  <2> QED BY <2>1, <2>2
<1>6. CASE WriteHandover
  <2>1. /\ same /\ turn /\ session' = session /\ session.turn = "handover"
        /\ resumed' = resumed /\ late' = late /\ inputs' = inputs
    BY <1>6 DEF WriteHandover
  <2>2. file'.says = session.known BY <1>6 DEF WriteHandover
  <2> QED BY <2>1, <2>2
<1>7. CASE ResumeEvent
  <2>1. /\ same /\ turn /\ session.turn = "resume" /\ session'.known = session.known \union file.says
        /\ file' = file /\ late' = late /\ inputs' = inputs /\ resumed' = resumed \union {session.of}
    BY <1>1, <1>7 DEF ResumeEvent, Session
  <2> QED BY <2>1
<1>8. CASE ResumeLate
  <2>1. /\ same /\ turn /\ session.turn = "resume" /\ late[session.of].state = "there"
        /\ session'.known = session.known \union late[session.of].says
        /\ file' = file /\ resumed' = resumed /\ inputs' = inputs
    BY <1>1, <1>8 DEF ResumeLate, Session
  <2>2. late' = [late EXCEPT ![session.of].state = "consumed"] BY <1>8 DEF ResumeLate
  <2> QED BY <2>1, <2>2
<1>9. CASE Decide \/ Grow \/ IdlePasses
  <2>1. same /\ turn BY <1>1, <1>9 DEF Decide, Grow, IdlePasses, Session, Record
  <2>2. rest BY <1>9 DEF Decide, Grow, IdlePasses
  <2> QED BY <2>1, <2>2
<1>10. CASE EndTurn
  <2>1. same /\ session'.turn = "none" BY <1>1, <1>10 DEF EndTurn, Closed, Session, Record
  <2>2. rest BY <1>10 DEF EndTurn
  <2> QED BY <2>1, <2>2
<1> QED BY <1>2, <1>3, <1>4, <1>5, <1>6, <1>7, <1>8, <1>9, <1>10 DEF SessionStep

\* Input that arrives in a later session was not sent to the one before.
LEMMA LateStays ==
  ASSUME HandoverInv, op.old < session.sid, op' = op,
         \/ inputs' = inputs
         \/ \E person \in BOOLEAN :
              inputs' = Append(inputs, [sid |-> session.sid, person |-> person])
  PROVE  LateInputs' = LateInputs
<1>1. CASE inputs' = inputs BY <1>1 DEF LateInputs
<1>2. CASE \E person \in BOOLEAN :
             inputs' = Append(inputs, [sid |-> session.sid, person |-> person])
  <2>1. PICK person \in BOOLEAN :
          inputs' = Append(inputs, [sid |-> session.sid, person |-> person]) BY <1>2
  <2> DEFINE in == [sid |-> session.sid, person |-> person]
  <2>2. /\ inputs \in Seq(Input) /\ Len(inputs) \in Nat /\ in \in Input
        /\ op.old \in Nat /\ session.sid \in Nat
    BY LenProperties DEF HandoverInv, TypeOK, SessionTypeOK, Session, Input, Op
  <2>3. in.sid # op.old BY <2>2
  <2> HIDE DEF in
  <2>4. /\ Len(inputs') = Len(inputs) + 1 /\ DOMAIN inputs = 1..Len(inputs)
        /\ DOMAIN inputs' = 1..Len(inputs) + 1
        /\ \A i \in 1..Len(inputs) : inputs'[i] = inputs[i]
        /\ inputs'[Len(inputs) + 1] = in
    BY <2>1, <2>2, AppendProperties, LenProperties DEF in
  <2>5. \A i \in DOMAIN inputs' : i = Len(inputs) + 1 \/ i \in DOMAIN inputs BY <2>2, <2>4
  <2>6. DOMAIN inputs \subseteq DOMAIN inputs' BY <2>2, <2>4
  <2> QED BY <2>3, <2>4, <2>5, <2>6 DEF LateInputs
<1> QED BY <1>1, <1>2

\* The session takes what waits, in order; it forgets only with a /clear.
LEMMA SessionFollows ==
  ASSUME SparedInv, HandoverInv', FollowInv, SessionMoves
  PROVE  FollowInv'
<1> USE DEF FollowInv
<1>0. /\ HandoverInv /\ RecordTrue /\ SessionStep /\ SessionAssumption
      /\ op' = op /\ pc' = pc /\ backoff' = backoff /\ reported' = reported
  BY SessionAssumption DEF SparedInv, SessionMoves
<1>1. /\ session \in Session /\ op \in Op /\ session.sid \in Nat /\ session.queue \in Seq(Line)
      /\ op.old \in Nat /\ op.new \in Nat /\ op.id \in Nat /\ late \in [Ops -> LateFile]
      /\ role' = role
      /\ record'.idle => (record.idle \/ session.queue = <<>>)
  <2>1. role' = role /\ (record'.idle => (record.idle \/ session.queue = <<>>))
    BY <1>0, SessionQueue
  <2> QED BY <1>0, <2>1 DEF HandoverInv, TypeOK, SessionTypeOK, Session, Op
<1>2. \A kind \in {"handover", "clear", "resume"} :
        (NoneOf(kind) => NoneOf(kind)') /\ (OneOf(kind) => OneOf(kind)')
  BY <1>0, LinesAfter
<1>3. NoneOf("clear") =>
        /\ session'.sid = session.sid /\ session.known \subseteq session'.known
        /\ record'.sid = record.sid /\ record'.source = record.source
  <2>1. Clear => ~NoneOf("clear")
    <3>1. Clear => session.queue # <<>> /\ Head(session.queue).kind = "clear" BY DEF Clear, Waits
    <3> QED BY <1>1, <3>1, QueueSteps DEF NoneOf
  <2> QED BY <1>0, <2>1, SessionAfter
<1>4. \/ session'.sid = session.sid /\ session.known \subseteq session'.known
         /\ record'.sid = record.sid /\ record'.source = record.source
      \/ Clear /\ session'.sid = session.sid + 1 /\ record'.sid = session.sid + 1
  BY <1>0, SessionAfter
<1>5. NoneOf("handover") /\ session.turn # "handover" =>
        session'.turn # "handover" /\ file' = file
  <2>1. HandoverTurn => ~NoneOf("handover")
    <3>1. HandoverTurn => session.queue # <<>> /\ Head(session.queue).kind = "handover"
      BY DEF HandoverTurn, Waits
    <3> QED BY <1>1, <3>1, QueueSteps DEF NoneOf
  <2> QED BY <1>0, <2>1, SessionAfter
<1>6. session.queue = <<>> => NoneOf("clear")' /\ NoneOf("handover")'
  BY <1>2, EmptySeq DEF NoneOf
<1>7. \A o \in Ops : Untold(o) => Untold(o)'
  <2> SUFFICES ASSUME NEW o \in Ops, Untold(o) PROVE Untold(o)'
    OBVIOUS
  <2>1. \A k \in 1..Len(session.queue) :
          session.queue[k].kind = "resume" => session.queue[k].of # o
    BY DEF Untold
  <2>2. \A k \in 1..Len(session'.queue) :
          session'.queue[k].kind = "resume" => session'.queue[k].of # o
    <3>1. \A k \in 1..Len(session'.queue) :
            \/ session'.queue[k].kind = "input"
            \/ \E j \in 1..Len(session.queue) : session'.queue[k] = session.queue[j]
      BY <1>0, LinesAfter
    <3> QED BY <2>1, <3>1
  <2>3. session'.turn = "resume" => session'.of # o
    <3>1. session.queue # <<>> => 1 \in 1..Len(session.queue) /\ Head(session.queue) = session.queue[1]
      BY <1>1, QueueSteps
    <3>2. \/ session'.turn # "resume"
          \/ session.turn = "resume" /\ session'.of = session.of
          \/ session.queue # <<>> /\ Head(session.queue).kind = "resume"
             /\ session'.of = Head(session.queue).of
      BY <1>0, SessionAfter
    <3> QED BY <2>1, <3>1, <3>2 DEF Untold
  <2>4. o \notin resumed'
    <3>1. resumed' = resumed \/ (session.turn = "resume" /\ resumed' = resumed \union {session.of})
      BY <1>0, SessionAfter
    <3> QED BY <3>1 DEF Untold
  <2> QED BY <2>2, <2>3, <2>4 DEF Untold
<1>8. \A o \in Ops : late[o].state = "none" => late'[o] = late[o]
  <2>1. late' = late \/ (/\ late[session.of].state = "there"
                         /\ late' = [late EXCEPT ![session.of].state = "consumed"])
    BY <1>0, SessionAfter
  <2>2. CASE late[session.of].state = "there" /\ late' = [late EXCEPT ![session.of].state = "consumed"]
    <3>1. \A o \in Ops : o # session.of => late'[o] = late[o] BY <1>1, <2>2
    <3> QED BY <2>2, <3>1
  <2> QED BY <2>1, <2>2
<1>9. StageHere' BY <1>0, <1>1 DEF StageHere
<1>10. ClearsKnown'
  <2>1. op.stage \notin {"clearing", "failed"} => NoneOf("clear")'
    BY <1>2 DEF ClearsKnown
  <2>2. pc \in Before => NoneOf("clear")' /\ session'.sid = op.old
    BY <1>2, <1>3 DEF ClearsKnown
  <2>3. op.stage = "clearing" => OneOf("clear")' /\ (session'.sid = op.old \/ NoneOf("clear")')
    <3>1. Clear /\ OneOf("clear") => NoneOf("clear")'
      <4> SUFFICES ASSUME Clear, OneOf("clear") PROVE NoneOf("clear")' OBVIOUS
      <4>1. Waits("clear") /\ (session'.queue = Tail(session.queue) \/ session'.queue = <<>>)
        BY <1>1 DEF Clear, Session
      <4> QED BY <1>0, <4>1, OneTaken
    <3> QED BY <1>2, <1>4, <3>1 DEF ClearsKnown
  <2>4. op.stage = "handover" => session'.sid = op.old \/ record'.source # "clear"
    BY <1>3 DEF ClearsKnown
  <2> QED BY <1>0, <2>1, <2>2, <2>3, <2>4 DEF ClearsKnown
<1>11. HandoversKnown'
  <2>1. op.stage = "handover" =>
          /\ OneOf("handover")'
          /\ NoneOf("handover")' \/ (session'.turn # "handover" /\ ~file'.fresh)
    <3> SUFFICES ASSUME op.stage = "handover", ~NoneOf("handover")'
                 PROVE  session'.turn # "handover" /\ ~file'.fresh
      BY <1>2 DEF HandoversKnown
    <3>1. ~NoneOf("handover") /\ OneOf("handover") /\ session.turn # "handover" /\ ~file.fresh
      BY <1>2 DEF HandoversKnown
    <3>2. ~(HandoverTurn /\ session'.queue = Tail(session.queue))
      BY <1>0, <3>1, OneTaken DEF HandoverTurn
    <3> QED BY <1>0, <3>1, <3>2, SessionAfter
  <2>2. op.stage \notin {"handover", "failed"} => NoneOf("handover")' /\ session'.turn # "handover"
    BY <1>2, <1>5 DEF HandoversKnown
  <2>3. pc = "handover" => NoneOf("handover")' /\ session'.turn # "handover" /\ ~file'.fresh
    BY <1>2, <1>5 DEF HandoversKnown
  <2> QED BY <1>0, <2>1, <2>2, <2>3 DEF HandoversKnown
<1>12. NothingLeft'
  BY <1>0, <1>1, <1>2, <1>5, <1>6 DEF NothingLeft
<1>13. InOrder'
  <2> DEFINE sid == session.sid
             new == session'.sid
             under == op.stage \in {"cleared", "resuming", "verifying"}
  <2>0. sid \in Nat /\ (new = sid \/ new = sid + 1) /\ record'.sid = new
    BY <1>1, <1>4 DEF InOrder
  <2>1. /\ op.stage \in Under => op.old <= sid
        /\ under => op.old < op.new /\ op.new <= sid
    BY DEF InOrder
  <2> HIDE DEF sid, new, under
  <2>2. op.stage \in Under => op.old <= new BY <1>1, <2>0, <2>1
  <2>3. under => op.old < op.new /\ op.new <= new BY <1>1, <2>0, <2>1
  <2>4. pc \in Following => session'.sid = op.new
    BY <1>3 DEF InOrder, StageHere, ClearsKnown, Following
  <2>5. \A o \in Ops : o > op.id \/ (o = op.id /\ op.stage \in {"handover", "clearing", "cleared"})
          => Untold(o)'
    BY <1>7 DEF InOrder
  <2>6. \A o \in Ops : o > op.id \/ (o = op.id /\ op.stage \in {"handover", "clearing"})
          => late'[o].state = "none"
    BY <1>8 DEF InOrder
  <2> QED BY <1>0, <2>0, <2>2, <2>3, <2>4, <2>5, <2>6 DEF InOrder, new, under
<1>14. SaidInFile'
  <2>1. op.stage = "handover" /\ session'.sid = op.old =>
          op.had \subseteq session'.known /\ (file'.fresh => op.had \subseteq file'.says)
    <3> SUFFICES ASSUME op.stage = "handover", session'.sid = op.old
                 PROVE  op.had \subseteq session'.known /\ (file'.fresh => op.had \subseteq file'.says)
      OBVIOUS
    <3>1. session'.sid = session.sid /\ session.known \subseteq session'.known
      BY <1>3 DEF ClearsKnown
    <3>2. file' = file \/ file'.says = session.known BY <1>0, SessionAfter
    <3> QED BY <3>1, <3>2 DEF SaidInFile
  <2>2. op.stage \in {"clearing", "cleared", "resuming", "verifying"} => op.had \subseteq file'.says
    BY <1>5 DEF SaidInFile, HandoversKnown
  <2>3. op.stage \in {"resuming", "verifying"} /\ session'.sid = op.new /\ op.id \in resumed'
          => op.had \subseteq session'.known
    <3> SUFFICES ASSUME op.stage \in {"resuming", "verifying"}, session'.sid = op.new,
                        op.id \in resumed'
                 PROVE  op.had \subseteq session'.known
      OBVIOUS
    <3>1. session'.sid = session.sid /\ session.known \subseteq session'.known
      BY <1>3 DEF ClearsKnown
    <3>2. \/ resumed' = resumed
          \/ session'.known = session.known \union file.says
      BY <1>0, SessionAfter
    <3>3. op.had \subseteq file.says BY DEF SaidInFile
    <3> QED BY <3>1, <3>2, <3>3 DEF SaidInFile
  <2>4. op.stage = "verifying" => op.id \in resumed'
    BY <1>0, SessionAfter DEF SaidInFile
  <2> QED BY <1>0, <2>1, <2>2, <2>3, <2>4 DEF SaidInFile
<1>15. SaidLate'
  <2>1. op.stage \in {"cleared", "resuming", "verifying"} =>
          /\ LateInputs' = LateInputs /\ op.id \in Ops
          /\ session'.sid = session.sid /\ session.known \subseteq session'.known
    <3> SUFFICES ASSUME op.stage \in {"cleared", "resuming", "verifying"}
                 PROVE  /\ LateInputs' = LateInputs /\ op.id \in Ops
                        /\ session'.sid = session.sid /\ session.known \subseteq session'.known
      OBVIOUS
    <3>1. op.old < session.sid BY <1>1 DEF InOrder
    <3>2. LateInputs' = LateInputs BY <1>0, <3>1, SessionAfter, LateStays
    <3>3. op.id \in Ops BY <1>0, <1>1 DEF HandoverInv, Numbered, Under, Op
    <3> QED BY <1>3, <3>2, <3>3 DEF ClearsKnown
  <2>2. \/ late' = late
        \/ /\ session.turn = "resume" /\ late[session.of].state = "there"
           /\ late' = [late EXCEPT ![session.of].state = "consumed"]
           /\ session'.known = session.known \union late[session.of].says
    BY <1>0, SessionAfter
  <2>3. op.stage = "cleared" => late'[op.id] = late[op.id]
    <3> SUFFICES ASSUME op.stage = "cleared" PROVE late'[op.id] = late[op.id] OBVIOUS
    <3>1. session.turn = "resume" => session.of # op.id BY <2>1 DEF InOrder, Untold
    <3>2. CASE late' = late BY <3>2
    <3>3. CASE session.of # op.id /\ late' = [late EXCEPT ![session.of].state = "consumed"]
      BY <1>1, <2>1, <3>3
    <3> QED BY <2>2, <3>1, <3>2, <3>3
  <2>4. op.stage \in {"resuming", "verifying"} =>
          \/ late'[op.id] = late[op.id]
          \/ /\ late[op.id].state = "there" /\ late'[op.id].state = "consumed"
             /\ late'[op.id].says = late[op.id].says
             /\ session'.known = session.known \union late[op.id].says
    <3> SUFFICES ASSUME op.stage \in {"resuming", "verifying"}
                 PROVE  \/ late'[op.id] = late[op.id]
                        \/ /\ late[op.id].state = "there" /\ late'[op.id].state = "consumed"
                           /\ late'[op.id].says = late[op.id].says
                           /\ session'.known = session.known \union late[op.id].says
      OBVIOUS
    <3>1. op.id \in Ops /\ late[op.id] \in LateFile BY <1>1, <2>1
    <3>2. CASE session.of # op.id BY <1>1, <2>2, <3>1, <3>2
    <3>3. CASE session.of = op.id
      <4> SUFFICES ASSUME late' = [late EXCEPT ![op.id].state = "consumed"],
                          late[op.id].state = "there",
                          session'.known = session.known \union late[op.id].says
                   PROVE  /\ late'[op.id].state = "consumed"
                          /\ late'[op.id].says = late[op.id].says
        BY <2>2, <3>3
      <4>1. late'[op.id] = [late[op.id] EXCEPT !.state = "consumed"] BY <1>1, <3>1
      <4> HIDE DEF LateFile
      <4> QED BY <3>1, <4>1 DEF LateFile
    <3> QED BY <3>2, <3>3
  <2>5. op.stage = "cleared" =>
          /\ late'[op.id].state # "consumed"
          /\ late'[op.id].state = "there" /\ pc # "late" => late'[op.id].says = LateInputs'
          /\ pc = "late" => late'[op.id].state = "there"
          /\ pc = "settled" => LateInputs' = {} \/ late'[op.id].state = "there"
    BY <2>1, <2>3 DEF SaidLate
  <2>6. op.stage \in {"resuming", "verifying"} =>
          /\ op.late <=> LateInputs' # {}
          /\ op.late => late'[op.id].state # "none" /\ late'[op.id].says = LateInputs'
          /\ op.late /\ late'[op.id].state = "consumed" /\ session'.sid = op.new
               => LateInputs' \subseteq session'.known
    BY <2>1, <2>4 DEF SaidLate
  <2>7. pc = "loop" /\ op.id \notin reported => ~(op.late /\ late'[op.id].state = "there")
    BY <2>4 DEF SaidLate, StageHere, Unread
  <2> QED BY <1>0, <2>5, <2>6, <2>7 DEF SaidLate, Unread
<1> QED BY <1>9, <1>10, <1>11, <1>12, <1>13, <1>14, <1>15

\* What a step of the watcher that only looks must show of the place it goes to.
LEMMA LookFollows ==
  ASSUME FollowInv, UNCHANGED <<sessionVars, op, backoff>>, StageHere',
         pc # "late", pc' \notin {"handover", "late", "loop"},
         pc' \in Before => NoneOf("clear") /\ session.sid = op.old,
         pc' \in Following => session.sid = op.new,
         pc' = "settled" => LateInputs = {} \/ late[op.id].state = "there",
         pc' = "tick" /\ role = "secretary" /\ record.idle /\ ~backoff
           => NoneOf("clear") /\ NoneOf("handover"),
         pc' = "start" => NoneOf("clear") /\ NoneOf("handover") /\ session.turn # "handover"
  PROVE  FollowInv'
<1> USE DEF FollowInv, sessionVars
<1>1. \A kind \in {"handover", "clear", "resume"} : (NoneOf(kind)' <=> NoneOf(kind)) /\ (OneOf(kind)' <=> OneOf(kind))
  BY DEF NoneOf, OneOf
<1>2. (\A o \in Ops : Untold(o)' <=> Untold(o)) /\ LateInputs' = LateInputs
  BY DEF Untold, LateInputs
<1>3. ClearsKnown' BY <1>1 DEF ClearsKnown
<1>4. HandoversKnown' BY <1>1 DEF HandoversKnown
<1>5. NothingLeft' BY <1>1 DEF NothingLeft
<1>6. InOrder' BY <1>2 DEF InOrder
<1>7. SaidInFile' BY DEF SaidInFile
<1>8. SaidLate' BY <1>2 DEF SaidLate
<1> QED BY <1>3, <1>4, <1>5, <1>6, <1>7, <1>8

\* The looks of the watcher, and what it does when one fails.
LEMMA LooksFollow ==
  ASSUME SparedInv, FollowInv, CalmDeaths,
         \/ Recover \/ Due \/ NotWritten \/ LookAtTurn \/ LookAtHold \/ LookAtPersons
         \/ ClearTimeout \/ ResumeKnown \/ ResumeBegins \/ ResumeTimeout
         \/ ResumeFails \/ LoopFails \/ Report \/ Crash \/ Restart
  PROVE  FollowInv'
<1>0. /\ StageHere /\ ClearsKnown /\ InOrder /\ NothingLeft /\ HandoversKnown /\ RecordTrue
      /\ role \in Roles /\ op \in Op /\ role \in {"dispatcher", "secretary"}
      /\ crashes \in Nat /\ ~DiesInGaps /\ (role = "dispatcher" => MaxCrashes[role] = 0)
  BY HandoverAssumption, SessionAssumption
     DEF FollowInv, SparedInv, HandoverInv, TypeOK, SessionTypeOK, CalmDeaths
<1>1. CASE Recover
  <2>1. pc = "tick" /\ op.stage \in Under /\ UNCHANGED <<sessionVars, op, backoff>>
    BY <1>1 DEF Recover, Look
  <2>2. role # "dispatcher" BY <1>0, <2>1 DEF StageHere
  <2>3. CASE pc' = "fail"
    BY <1>0, <2>1, <2>3, LookFollows DEF StageHere, Before, Following, sessionVars
  <2>4. CASE Continues(op.stage) /\ pc' = PlaceOf(op.stage)
    <3>1. op.stage # "handover"
      BY <1>0, <2>4 DEF Continues, Cleared, ClearsKnown, InOrder
    <3>2. /\ op.stage = "clearing" => pc' = "clear_wait"
          /\ op.stage = "cleared" => pc' = "settle" /\ session.sid = op.new
          /\ op.stage = "resuming" => pc' = "resume" /\ session.sid = op.new
          /\ op.stage = "verifying" => pc' = "verify" /\ session.sid = op.new
      BY <1>0, <2>4, ZenonT(30) DEF PlaceOf, Continues, SamePlace, InOrder
    <3>3. op.stage \in {"clearing", "cleared", "resuming", "verifying"} BY <2>1, <3>1 DEF Under
    <3>4. StageHere' BY <1>0, <2>1, <2>2, <3>2, <3>3 DEF StageHere, sessionVars
    <3> QED BY <2>1, <3>2, <3>3, <3>4, LookFollows DEF Before, Following
  <2> QED BY <1>1, <2>3, <2>4 DEF Recover, Look, Goto
<1>2. CASE Due
  <2>1. /\ pc = "tick" /\ pc' = "start" /\ UNCHANGED <<sessionVars, op, backoff>>
        /\ op.stage \in Under => StartsOver(op.stage)
        /\ ~backoff /\ Quiet /\ (role = "secretary" => record.idle)
    BY <1>2 DEF Due, Look, Goto
  <2>2. session.turn = "none" BY <1>0, <2>1 DEF Quiet, RecordTrue
  <2>3. NoneOf("clear") /\ NoneOf("handover")
    <3>1. CASE role = "secretary" BY <1>0, <2>1, <3>1 DEF NothingLeft
    <3>2. CASE role = "dispatcher"
      <4>1. op.stage \notin Under BY <1>0, <2>1, <3>2 DEF StageHere
      <4>2. op.stage \in {"none", "done", "failed"} BY <1>0, <4>1 DEF Op
      <4>3. CASE op.stage = "failed" BY <1>0, <2>1, <4>3 DEF NothingLeft
      <4>4. CASE op.stage \in {"none", "done"} BY <1>0, <4>4 DEF ClearsKnown, HandoversKnown
      <4> QED BY <4>2, <4>3, <4>4
    <3> QED BY <1>0, <3>1, <3>2
  <2>4. StageHere' BY <1>0, <2>1 DEF StageHere, sessionVars
  <2> QED BY <2>1, <2>2, <2>3, <2>4, LookFollows DEF Before, Following
<1>3. CASE NotWritten \/ ClearTimeout \/ ResumeFails \/ LoopFails
  <2>1. /\ pc' = "fail" /\ UNCHANGED <<sessionVars, op, backoff>> /\ pc # "late"
        /\ (role = "dispatcher" => pc # "dead")
    BY <1>0, <1>3 DEF NotWritten, ClearTimeout, ResumeFails, LoopFails, Look, Goto, StageHere
  <2>2. StageHere' BY <2>1 DEF StageHere, sessionVars
  <2> QED BY <2>1, <2>2, LookFollows DEF Before, Following
<1>4. CASE LookAtTurn \/ LookAtHold \/ LookAtPersons
  <2>1. /\ pc \in {"turn", "hold", "persons"} /\ pc' \in {"fail", "hold", "persons", "clear"}
        /\ UNCHANGED <<sessionVars, op, backoff>>
    BY <1>4 DEF LookAtTurn, LookAtHold, LookAtPersons, Look, Goto
  <2>2. StageHere' BY <1>0, <2>1 DEF StageHere, sessionVars
  <2>3. NoneOf("clear") /\ session.sid = op.old BY <1>0, <2>1 DEF ClearsKnown, Before
  <2> QED BY <2>1, <2>2, <2>3, LookFollows DEF Following
<1>5. CASE ResumeKnown \/ ResumeBegins \/ ResumeTimeout
  <2>1. /\ pc \in {"resume", "resume_wait"} /\ pc' \in {"resume", "running"}
        /\ UNCHANGED <<sessionVars, op, backoff>>
    BY <1>5 DEF ResumeKnown, ResumeBegins, ResumeTimeout, Look, Goto
  <2>2. StageHere' BY <1>0, <2>1 DEF StageHere, sessionVars
  <2>3. session.sid = op.new BY <1>0, <2>1 DEF InOrder, Following
  <2> QED BY <2>1, <2>2, <2>3, LookFollows DEF Before
<1>6. CASE Report
  <2>1. /\ pc = "report" /\ pc' = "tick" /\ UNCHANGED <<sessionVars, op, backoff>>
        /\ op.stage = "failed"
    BY <1>0, <1>6 DEF Report, Goto, StageHere
  <2>2. StageHere' BY <1>0, <2>1 DEF StageHere, Under, sessionVars
  <2>3. ~backoff => NoneOf("clear") /\ NoneOf("handover") BY <1>0, <2>1 DEF NothingLeft
  <2> QED BY <2>1, <2>2, <2>3, LookFollows DEF Before, Following
<1>7. CASE Crash
  <2>1. /\ pc' = "dead" /\ pc # "late" /\ role # "dispatcher"
        /\ UNCHANGED <<sessionVars, op, backoff>>
    BY <1>0, <1>7 DEF Crash, Goto
  <2>2. StageHere' BY <1>0, <2>1 DEF StageHere, sessionVars
  <2> QED BY <2>1, <2>2, LookFollows DEF Before, Following
<1>8. CASE Restart
  <2>1. /\ pc = "dead" /\ pc' = "tick" /\ UNCHANGED <<sessionVars, op, backoff>>
        /\ session.turn = "none" => session.queue = <<>>
    BY <1>8 DEF Restart, Look, Goto
  <2>2. StageHere' BY <1>0, <2>1 DEF StageHere, sessionVars
  <2>3. record.idle => NoneOf("clear") /\ NoneOf("handover")
    BY <1>0, <2>1, EmptySeq DEF RecordTrue, NoneOf
  <2> QED BY <2>1, <2>2, <2>3, LookFollows DEF Before, Following
<1> QED BY <1>1, <1>2, <1>3, <1>4, <1>5, <1>6, <1>7, <1>8

\* A line that the watcher types is of the operation on disk; at its place none of its kind
\* waits, but for a resume.
LEMMA TypeLineFollows ==
  ASSUME SparedInv, FollowInv, CalmDeaths, NEW kind \in {"handover", "clear", "resume"},
         NEW place \in {"written", "clear_wait", "resume_wait"},
         <<kind, pc, place>> \in {<<"handover", "handover", "written">>,
                                  <<"clear", "clear", "clear_wait">>,
                                  <<"resume", "resume", "resume_wait">>},
         TypeLine(kind, place)
  PROVE  FollowInv'
<1>0. /\ StageHere /\ ClearsKnown /\ InOrder /\ NothingLeft /\ HandoversKnown
      /\ SaidInFile /\ SaidLate
      /\ HandoverInv /\ op \in Op /\ session \in Session /\ session.queue \in Seq(Line)
      /\ op.id # 0
  BY DEF FollowInv, SparedInv, HandoverInv, TypeOK, SessionTypeOK, Session, Numbered
<1>kp. \/ kind = "handover" /\ pc = "handover" /\ place = "written"
       \/ kind = "clear" /\ pc = "clear" /\ place = "clear_wait"
       \/ kind = "resume" /\ pc = "resume" /\ place = "resume_wait"
  OBVIOUS
<1>1. CASE Look("fail")
  <2>1. pc' = "fail" /\ UNCHANGED <<sessionVars, op, backoff>> BY <1>1 DEF Look, Goto
  <2>2. StageHere' BY <1>0, <1>kp, <2>1 DEF StageHere, sessionVars
  <2> QED BY <1>kp, <2>1, <2>2, LookFollows DEF Before, Following
<1>2. CASE /\ pc' \in {place, "fail"} /\ session' = Submitted(kind, op.id)
           /\ UNCHANGED <<role, inputs, record, file, late, resumed, op, backoff, reported>>
  <2> DEFINE line == [kind |-> kind, of |-> op.id]
             q == session.queue
  <2>1. line \in Line /\ line.kind = kind /\ line.of = op.id BY <1>0 DEF Op, Line
  <2>2. /\ session'.queue = Append(q, line) /\ session'.turn = session.turn
        /\ session'.of = session.of /\ session'.sid = session.sid /\ session'.known = session.known
    BY <1>0, <1>2 DEF Submitted, Session
  <2> HIDE DEF line
  <2>3. /\ Len(session'.queue) = Len(q) + 1 /\ Len(q) \in Nat
        /\ \A k \in 1..Len(q) : session'.queue[k] = q[k]
        /\ session'.queue[Len(q) + 1] = line
    BY <1>0, <2>1, <2>2, QueueSteps
  <2>4. \A k \in 1..Len(session'.queue) :
          \/ k = Len(q) + 1 /\ session'.queue[k] = line
          \/ k \in 1..Len(q) /\ session'.queue[k] = q[k]
    <3>1. \A k \in 1..Len(q) + 1 : k = Len(q) + 1 \/ k \in 1..Len(q) BY <2>3
    <3> QED BY <2>3, <3>1
  <2>5. /\ \A other \in {"handover", "clear"} : other # kind =>
             (NoneOf(other) => NoneOf(other)') /\ (OneOf(other) => OneOf(other)')
        /\ NoneOf(kind) => OneOf(kind)'
    <3> HIDE DEF q
    <3> QED BY <2>1, <2>4 DEF NoneOf, OneOf, q
  <2>6. \A o \in Ops : Untold(o) /\ (kind = "resume" => o # op.id) => Untold(o)'
    <3> HIDE DEF q
    <3> QED BY <1>2, <2>1, <2>2, <2>4 DEF Untold, q
  <2>7. LateInputs' = LateInputs /\ (Unread' <=> Unread) BY <1>2 DEF LateInputs, Unread
  <2>8. kind = "clear" => NoneOf("clear") /\ session.sid = op.old BY <1>0, <1>kp DEF ClearsKnown, Before
  <2>9. kind = "handover" => NoneOf("handover") /\ session.turn # "handover" /\ ~file.fresh
    BY <1>0, <1>kp DEF HandoversKnown
  <2>10. StageHere' BY <1>0, <1>2, <1>kp DEF StageHere
  <2>11. ClearsKnown'
    <3>1. op.stage \notin {"clearing", "failed"} => NoneOf("clear")'
      BY <1>0, <1>kp, <2>5 DEF ClearsKnown, StageHere
    <3>2. pc' \in Before => NoneOf("clear")' /\ session'.sid = op.old
      BY <1>0, <1>2, <1>kp, <2>2, <2>5 DEF ClearsKnown, Before
    <3>3. op.stage = "clearing" => OneOf("clear")' /\ (session'.sid = op.old \/ NoneOf("clear")')
      BY <1>0, <2>2, <2>5, <2>8 DEF ClearsKnown
    <3>4. op.stage = "handover" => session'.sid = op.old \/ record.source # "clear"
      BY <1>0, <2>2 DEF ClearsKnown
    <3> QED BY <1>2, <3>1, <3>2, <3>3, <3>4 DEF ClearsKnown
  <2>12. HandoversKnown'
    <3>1. op.stage \notin {"handover", "failed"} => NoneOf("handover")' /\ session'.turn # "handover"
      BY <1>0, <1>kp, <2>2, <2>5 DEF HandoversKnown, StageHere
    <3>2. pc' # "handover" BY <1>2
    <3>3. op.stage = "handover" =>
            OneOf("handover")' /\ (NoneOf("handover")' \/ (session'.turn # "handover" /\ ~file'.fresh))
      BY <1>0, <1>2, <2>2, <2>5, <2>9 DEF HandoversKnown
    <3> QED BY <1>2, <3>1, <3>2, <3>3 DEF HandoversKnown
  <2>13. NothingLeft'
    BY <1>0, <1>2, <1>kp DEF NothingLeft, StageHere
  <2>14. InOrder'
    <3>1. kind = "resume" => op.stage = "resuming" BY <1>0, <1>kp DEF StageHere
    <3>2. \A o \in Ops : o > op.id \/ (o = op.id /\ op.stage \in {"handover", "clearing", "cleared"})
            => Untold(o)'
      <4> SUFFICES ASSUME NEW o \in Ops,
                          o > op.id \/ (o = op.id /\ op.stage \in {"handover", "clearing", "cleared"})
                   PROVE  Untold(o)'
        OBVIOUS
      <4>1. Untold(o) BY <1>0 DEF InOrder
      <4>2. op.id \in Nat BY <1>0 DEF Op
      <4>3. kind = "resume" => o # op.id BY <3>1, <4>2
      <4> QED BY <2>6, <4>1, <4>3
    <3>3. pc' \in Following => session.sid = op.new
      BY <1>0, <1>2, <1>kp DEF InOrder, Following
    <3> QED BY <1>0, <1>2, <2>2, <3>2, <3>3 DEF InOrder
  <2>15. SaidInFile' BY <1>0, <1>2, <2>2 DEF SaidInFile
  <2>16. SaidLate'
    <3>1. pc' \notin {"late", "settled", "loop"} /\ pc # "late" BY <1>2, <1>kp
    <3> QED BY <1>0, <1>2, <2>2, <2>7, <3>1 DEF SaidLate
  <2> QED BY <2>10, <2>11, <2>12, <2>13, <2>14, <2>15, <2>16 DEF FollowInv
<1> QED BY <1>1, <1>2 DEF TypeLine, Goto

\* An operation starts in a session that knows what the operation is to save.
LEMMA StartFollows ==
  ASSUME SparedInv, FollowInv, StartOp
  PROVE  FollowInv'
<1>0. /\ StageHere /\ ClearsKnown /\ InOrder /\ NothingLeft /\ HandoversKnown
      /\ op \in Op /\ op.id \in Nat /\ record \in Record /\ session.sid \in Nat
      /\ session.known \subseteq Inputs /\ Len(inputs) \in Nat
      /\ file \in [says : SUBSET Inputs, fresh : BOOLEAN]
  BY LenProperties DEF FollowInv, SparedInv, HandoverInv, TypeOK, SessionTypeOK, Session, Op
<1>1. /\ pc = "start" /\ pc' = "handover"
      /\ UNCHANGED <<role, session, inputs, late, resumed, backoff, reported>>
  BY DEF StartOp, Goto
<1>2. /\ op'.id = op.id + 1 /\ op'.stage = "handover" /\ op'.old = record.sid
      /\ op'.had = session.known
  BY DEF StartOp, NoOp
<1>3. record'.sid = record.sid /\ record'.idle = record.idle /\ ~file'.fresh
  BY <1>0 DEF StartOp, Record
<1>4. NoneOf("clear") /\ NoneOf("handover") /\ session.turn # "handover"
  BY <1>0, <1>1 DEF NothingLeft
<1>5. /\ NoneOf("clear")' /\ NoneOf("handover")' /\ OneOf("handover")'
      /\ \A o \in Ops : Untold(o) => Untold(o)'
  BY <1>1, <1>4 DEF NoneOf, OneOf, Untold
<1>6. record.sid = session.sid BY <1>0 DEF InOrder
<1>7. StageHere' BY <1>1, <1>2 DEF StageHere
<1>8. ClearsKnown' BY <1>1, <1>2, <1>5, <1>6 DEF ClearsKnown
<1>9. HandoversKnown' BY <1>1, <1>2, <1>3, <1>4, <1>5 DEF HandoversKnown
<1>10. NothingLeft' BY <1>1, <1>2 DEF NothingLeft
<1>11. InOrder'
  <2>1. \A o \in Ops : o > op'.id \/ o = op'.id => Untold(o)' /\ late'[o].state = "none"
    <3> SUFFICES ASSUME NEW o \in Ops, o > op'.id \/ o = op'.id
                 PROVE  Untold(o)' /\ late'[o].state = "none"
      OBVIOUS
    <3>1. o > op.id BY <1>0, <1>2
    <3> QED BY <1>0, <1>1, <1>5, <3>1 DEF InOrder
  <2>2. op'.old <= session'.sid BY <1>0, <1>1, <1>2, <1>6
  <2> QED BY <1>1, <1>2, <1>3, <1>6, <2>1, <2>2 DEF InOrder, Following
<1>12. SaidInFile' BY <1>1, <1>2, <1>3 DEF SaidInFile
<1>13. SaidLate' BY <1>1, <1>2 DEF SaidLate
<1> QED BY <1>7, <1>8, <1>9, <1>10, <1>11, <1>12, <1>13 DEF FollowInv

\* What a step that writes the operation down must show: the session and the files are as
\* they were.
LEMMA SaveFollows ==
  ASSUME FollowInv, UNCHANGED <<sessionVars, reported>>,
         op'.id = op.id, op'.old = op.old, op'.p0 = op.p0, op'.had = op.had,
         StageHere', ClearsKnown', HandoversKnown', NothingLeft',
         op'.stage \notin {"handover", "clearing"},
         op.stage \in {"handover", "clearing"} => op'.stage \in {"cleared", "failed"},
         op.stage # "cleared" => op'.stage # "cleared" \/ op.stage = "clearing",
         op'.stage \in {"cleared", "resuming", "verifying"} =>
           op.old < op'.new /\ op'.new = session.sid /\ op.had \subseteq file.says,
         op'.stage \in {"resuming", "verifying"} =>
           op.stage = "cleared" \/ (op.stage = "resuming" /\ op'.late = op.late /\ op'.new = op.new),
         op'.stage = "resuming" => op'.late = (LateInputs # {}) /\ op.stage = "cleared"
                                   /\ pc = "settled",
         op'.stage = "verifying" => op.stage = "resuming" /\ op.id \in resumed,
         op'.stage = "cleared" => op.stage = "clearing" /\ pc' = "settle",
         pc' \in Following => op'.stage \in {"cleared", "resuming", "verifying"},
         pc' \notin {"late", "settled", "loop"},
         HandoverInv
  PROVE  FollowInv'
<1> USE DEF sessionVars
<1>0. /\ InOrder /\ SaidInFile /\ SaidLate /\ op \in Op /\ op.id \in Nat
      /\ session.sid \in Nat /\ op.old \in Nat
  BY DEF FollowInv, HandoverInv, TypeOK, SessionTypeOK, Session, Op
<1>1. (\A o \in Ops : Untold(o)' <=> Untold(o)) /\ LateInputs' = LateInputs
  BY DEF Untold, LateInputs
<1>2. InOrder'
  <2>1. op'.stage \in Under => op'.old <= session'.sid
    <3>1. op'.stage \in Under => op'.stage \in {"cleared", "resuming", "verifying"} BY DEF Under
    <3>2. op'.stage \in {"cleared", "resuming", "verifying"} => op.old <= session.sid
      BY <1>0 DEF InOrder, Under
    <3> QED BY <3>1, <3>2
  <2>2. op'.stage \in {"cleared", "resuming", "verifying"} =>
          op'.old < op'.new /\ op'.new <= session'.sid
    BY <1>0
  <2>3. pc' \in Following => session'.sid = op'.new OBVIOUS
  <2>4. \A o \in Ops : o > op.id \/ (o = op.id /\ op'.stage = "cleared") => Untold(o)'
    BY <1>0, <1>1 DEF InOrder
  <2>5. \A o \in Ops : o > op.id => late[o].state = "none" BY <1>0 DEF InOrder
  <2> QED BY <1>0, <2>1, <2>2, <2>3, <2>4, <2>5 DEF InOrder
<1>3. op.stage \in {"clearing", "cleared", "resuming"} => op.id \in Ops
  BY <1>0 DEF HandoverInv, Numbered, Under, Op
<1>4. SaidInFile'
  <2>1. op'.stage = "resuming" => op.id \notin resumed BY <1>0, <1>3 DEF InOrder, Untold
  <2> QED BY <1>0, <2>1 DEF SaidInFile
<1>5. SaidLate'
  <2>1. op'.stage = "cleared" => late[op.id].state = "none" BY <1>0, <1>3 DEF InOrder
  <2>2. op'.stage = "resuming" =>
          /\ op'.late <=> LateInputs # {}
          /\ op'.late => late[op.id].state = "there" /\ late[op.id].says = LateInputs
    <3> SUFFICES ASSUME op'.stage = "resuming"
                 PROVE  /\ op'.late <=> LateInputs # {}
                        /\ op'.late => late[op.id].state = "there" /\ late[op.id].says = LateInputs
      OBVIOUS
    <3>1. op.stage = "cleared" /\ pc = "settled" /\ op'.late = (LateInputs # {}) OBVIOUS
    <3>2. late[op.id].state = "there" => late[op.id].says = LateInputs BY <1>0, <3>1 DEF SaidLate
    <3>3. LateInputs = {} \/ late[op.id].state = "there" BY <1>0, <3>1 DEF SaidLate
    <3> QED BY <3>1, <3>2, <3>3, Zenon
  <2>3. op'.stage = "verifying" =>
          op.stage = "resuming" /\ op'.late = op.late /\ op'.new = op.new
    OBVIOUS
  <2> QED BY <1>0, <1>1, <2>1, <2>2, <2>3 DEF SaidLate
<1> QED BY <1>2, <1>4, <1>5 DEF FollowInv

\* The file is found written: its turn has ended, and the line that began it is gone.
LEMMA WrittenFollows ==
  ASSUME SparedInv, FollowInv, Written
  PROVE  FollowInv'
<1> USE DEF sessionVars
<1>0. /\ StageHere /\ ClearsKnown /\ InOrder /\ NothingLeft /\ HandoversKnown /\ SaidInFile
      /\ SaidLate /\ RecordTrue /\ op \in Op
  BY DEF FollowInv, SparedInv, HandoverInv, TypeOK
<1>1. /\ pc = "written" /\ pc' = "turn" /\ file.fresh /\ ~record.open
      /\ UNCHANGED <<sessionVars, backoff, reported>>
      /\ op'.stage = "clearing" /\ op'.id = op.id /\ op'.old = op.old /\ op'.had = op.had
      /\ op'.p0 = op.p0
  BY <1>0 DEF Written, Save, Goto, Op
<1>2. op.stage = "handover" /\ NoneOf("clear") /\ session.sid = op.old
  BY <1>0, <1>1 DEF StageHere, ClearsKnown, Before
<1>3. session.turn = "none" /\ NoneOf("handover")
  BY <1>0, <1>1, <1>2 DEF RecordTrue, HandoversKnown
<1>4. /\ NoneOf("clear")' /\ OneOf("clear")' /\ NoneOf("handover")'
      /\ \A o \in Ops : Untold(o) => Untold(o)'
  BY <1>1, <1>2, <1>3 DEF NoneOf, OneOf, Untold
<1>5. StageHere' BY <1>1, <1>0 DEF StageHere
<1>6. ClearsKnown' BY <1>1, <1>2, <1>4 DEF ClearsKnown
<1>7. HandoversKnown' BY <1>1, <1>3, <1>4 DEF HandoversKnown
<1>8. NothingLeft' BY <1>1 DEF NothingLeft
<1>9. InOrder' BY <1>0, <1>1, <1>2, <1>4 DEF InOrder, Following, Under
<1>10. SaidInFile' BY <1>0, <1>1, <1>2 DEF SaidInFile
<1>11. SaidLate' BY <1>1 DEF SaidLate
<1> QED BY <1>5, <1>6, <1>7, <1>8, <1>9, <1>10, <1>11 DEF FollowInv

\* The later stages are written down.
LEMMA StagesFollow ==
  ASSUME SparedInv, FollowInv, SeesClear \/ Settled \/ ResumeEnds \/ Done \/ Fail
  PROVE  FollowInv'
<1>0. /\ StageHere /\ ClearsKnown /\ InOrder /\ NothingLeft /\ HandoversKnown /\ SaidInFile
      /\ HandoverInv /\ RecordTrue /\ op \in Op /\ session.sid \in Nat /\ op.old \in Nat
  BY DEF FollowInv, SparedInv, HandoverInv, TypeOK, SessionTypeOK, Session, Op
<1>1. UNCHANGED <<sessionVars, reported>> /\ op'.id = op.id /\ op'.old = op.old
      /\ op'.p0 = op.p0 /\ op'.had = op.had
  BY <1>0 DEF SeesClear, Settled, ResumeEnds, Done, Fail, Save, Op
<1>2. \A kind \in {"handover", "clear", "resume"} :
        (NoneOf(kind)' <=> NoneOf(kind)) /\ (OneOf(kind)' <=> OneOf(kind))
  BY <1>1 DEF NoneOf, OneOf, sessionVars
<1>3. CASE SeesClear
  <2>1. /\ pc = "clear_wait" /\ pc' = "settle" /\ backoff' = backoff
        /\ op'.stage = "cleared" /\ op'.new = record.sid /\ record.sid # op.old
    BY <1>0, <1>3 DEF SeesClear, Cleared, Save, Goto, Op
  <2>2. op.stage = "clearing" /\ op.old < session.sid /\ record.sid = session.sid
    <3>1. op.stage = "clearing" BY <1>0, <2>1 DEF StageHere
    <3>2. op.old <= session.sid /\ op.old # session.sid BY <1>0, <2>1, <3>1 DEF InOrder, Under
    <3> QED BY <1>0, <3>1, <3>2 DEF InOrder
  <2>3. NoneOf("clear") BY <1>0, <2>2 DEF ClearsKnown
  <2>4. NoneOf("handover") /\ session.turn # "handover" BY <1>0, <2>2 DEF HandoversKnown
  <2>5. StageHere' BY <1>0, <1>1, <2>1 DEF StageHere, sessionVars
  <2>6. ClearsKnown' BY <1>2, <2>1, <2>3 DEF ClearsKnown, Before
  <2>7. HandoversKnown' BY <1>1, <1>2, <2>1, <2>4 DEF HandoversKnown, sessionVars
  <2>8. NothingLeft' BY <2>1 DEF NothingLeft
  <2>9. op.had \subseteq file.says BY <1>0, <2>2 DEF SaidInFile
  <2> QED BY <1>0, <1>1, <2>1, <2>2, <2>5, <2>6, <2>7, <2>8, <2>9, SaveFollows DEF Following
<1>4. CASE Settled
  <2>1. /\ pc = "settled" /\ pc' = "resume" /\ backoff' = backoff
        /\ op'.stage = "resuming" /\ op'.new = op.new /\ op'.late = (LateInputs # {})
    BY <1>0, <1>4 DEF Settled, Goto, Op
  <2>2. op.stage = "cleared" BY <1>0, <2>1 DEF StageHere
  <2>3. op.old < op.new /\ op.new = session.sid /\ op.had \subseteq file.says
    BY <1>0, <2>1, <2>2 DEF InOrder, Following, SaidInFile
  <2>4. NoneOf("clear") /\ NoneOf("handover") /\ session.turn # "handover"
    BY <1>0, <2>2 DEF ClearsKnown, HandoversKnown
  <2>5. StageHere' BY <1>0, <1>1, <2>1 DEF StageHere, sessionVars
  <2>6. ClearsKnown' BY <1>2, <2>1, <2>4 DEF ClearsKnown, Before
  <2>7. HandoversKnown' BY <1>1, <1>2, <2>1, <2>4 DEF HandoversKnown, sessionVars
  <2>8. NothingLeft' BY <2>1 DEF NothingLeft
  <2> QED BY <1>0, <1>1, <2>1, <2>2, <2>3, <2>5, <2>6, <2>7, <2>8, SaveFollows
<1>5. CASE ResumeEnds
  <2>1. /\ pc = "running" /\ pc' = "verify" /\ backoff' = backoff /\ op.id \in resumed
        /\ op'.stage = "verifying" /\ op'.new = op.new /\ op'.late = op.late
    BY <1>0, <1>5 DEF ResumeEnds, Resumed, Save, Goto, Op
  <2>2. op.stage = "resuming" BY <1>0, <2>1 DEF StageHere
  <2>3. op.old < op.new /\ op.new = session.sid /\ op.had \subseteq file.says
    BY <1>0, <2>1, <2>2 DEF InOrder, Following, SaidInFile
  <2>4. NoneOf("clear") /\ NoneOf("handover") /\ session.turn # "handover"
    BY <1>0, <2>2 DEF ClearsKnown, HandoversKnown
  <2>5. StageHere' BY <1>0, <1>1, <2>1 DEF StageHere, sessionVars
  <2>6. ClearsKnown' BY <1>2, <2>1, <2>4 DEF ClearsKnown, Before
  <2>7. HandoversKnown' BY <1>1, <1>2, <2>1, <2>4 DEF HandoversKnown, sessionVars
  <2>8. NothingLeft' BY <2>1 DEF NothingLeft
  <2> QED BY <1>0, <1>1, <2>1, <2>2, <2>3, <2>5, <2>6, <2>7, <2>8, SaveFollows
<1>6. CASE Done
  <2>1. pc = "loop" /\ pc' = "tick" /\ backoff' = backoff /\ op'.stage = "done"
    BY <1>0, <1>6 DEF Done, Save, Goto, Op
  <2>2. op.stage = "verifying" BY <1>0, <2>1 DEF StageHere
  <2>4. NoneOf("clear") /\ NoneOf("handover") /\ session.turn # "handover"
    BY <1>0, <2>2 DEF ClearsKnown, HandoversKnown
  <2>5. StageHere' BY <1>0, <1>1, <2>1 DEF StageHere, Under, sessionVars
  <2>6. ClearsKnown' BY <1>2, <2>1, <2>4 DEF ClearsKnown, Before
  <2>7. HandoversKnown' BY <1>1, <1>2, <2>1, <2>4 DEF HandoversKnown, sessionVars
  <2>8. NothingLeft' BY <1>2, <2>1, <2>4 DEF NothingLeft
  <2> QED BY <1>0, <1>1, <2>1, <2>2, <2>5, <2>6, <2>7, <2>8, SaveFollows DEF Following
<1>7. CASE Fail
  <2>1. pc = "fail" /\ pc' = "report" /\ backoff' = TRUE /\ op'.stage = "failed"
    BY <1>0, <1>7 DEF Fail, Goto, Op
  <2>5. StageHere' BY <1>0, <1>1, <2>1 DEF StageHere, sessionVars
  <2>6. ClearsKnown' BY <2>1 DEF ClearsKnown, Before
  <2>7. HandoversKnown' BY <2>1 DEF HandoversKnown
  <2>8. NothingLeft' BY <2>1 DEF NothingLeft
  <2> QED BY <1>0, <1>1, <2>1, <2>5, <2>6, <2>7, <2>8, SaveFollows DEF Following
<1> QED BY <1>3, <1>4, <1>5, <1>6, <1>7

\* The late-input file is written whole, and verified before the operation is done.
LEMMA LateFollows ==
  ASSUME SparedInv, FollowInv, Settle \/ WriteLate \/ Verify
  PROVE  FollowInv'
<1>0. /\ StageHere /\ ClearsKnown /\ InOrder /\ NothingLeft /\ HandoversKnown /\ SaidInFile
      /\ SaidLate /\ HandoverInv /\ op \in Op /\ late \in [Ops -> LateFile]
      /\ pc \in {"settle", "late", "verify"} => op.id \in Ops
  BY DEF FollowInv, SparedInv, HandoverInv, TypeOK, SessionTypeOK, Op, Numbered
<1>1. CASE Settle /\ Look("settled")
  <2>1. /\ pc = "settle" /\ pc' = "settled" /\ UNCHANGED <<sessionVars, op, backoff>>
        /\ LateInputs = {} \/ late[op.id].state # "none"
    BY <1>1 DEF Settle, Look, Goto, sessionVars
  <2>2. op.stage = "cleared" /\ session.sid = op.new
    BY <1>0, <2>1 DEF StageHere, InOrder, Following
  <2>3. StageHere' BY <1>0, <2>1 DEF StageHere, sessionVars
  <2>4. late[op.id].state \in {"none", "there", "consumed"} BY <1>0, <2>1 DEF LateFile
  <2>5. LateInputs = {} \/ late[op.id].state = "there" BY <1>0, <2>1, <2>2, <2>4 DEF SaidLate
  <2> QED BY <2>1, <2>2, <2>3, <2>5, LookFollows DEF Before
<1>2. CASE WriteLate \/ (Settle /\ ~Look("settled"))
  <2>1. /\ UNCHANGED <<role, session, inputs, record, file, resumed, op, backoff, reported>>
        /\ \A o \in Ops : o # op.id => late'[o] = late[o]
        /\ \/ /\ pc = "settle" /\ pc' = "late" /\ late'[op.id].state = "there"
           \/ /\ pc = "late" /\ pc' = "settled" /\ late'[op.id].state = late[op.id].state
              /\ late'[op.id].says = LateInputs
    <3>1. CASE WriteLate
      <4>1. late[op.id] \in LateFile /\ pc = "late" BY <1>0, <3>1 DEF WriteLate
      <4>2. late'[op.id] = [late[op.id] EXCEPT !.says = LateInputs]
        BY <1>0, <3>1, <4>1 DEF WriteLate
      <4>3. late'[op.id].state = late[op.id].state /\ late'[op.id].says = LateInputs
        <5> HIDE DEF LateFile
        <5> QED BY <4>1, <4>2 DEF LateFile
      <4>4. \A o \in Ops : o # op.id => late'[o] = late[o] BY <1>0, <3>1 DEF WriteLate
      <4>5. /\ pc = "late" /\ pc' = "settled"
            /\ UNCHANGED <<role, session, inputs, record, file, resumed, op, backoff, reported>>
        BY <3>1 DEF WriteLate, Goto
      <4> QED BY <4>3, <4>4, <4>5
    <3>2. CASE Settle /\ ~Look("settled")
      <4>1. /\ pc = "settle" /\ pc' = "late"
            /\ late' = [late EXCEPT ![op.id] = [state |-> "there", says |-> {}]]
            /\ UNCHANGED <<role, session, inputs, record, file, resumed, op, backoff, reported>>
        BY <3>2 DEF Settle, Goto
      <4>2. late'[op.id].state = "there" BY <1>0, <4>1
      <4>3. \A o \in Ops : o # op.id => late'[o] = late[o] BY <1>0, <4>1
      <4> QED BY <4>1, <4>2, <4>3
    <3> QED BY <1>2, <3>1, <3>2
  <2>2. op.stage = "cleared" /\ session.sid = op.new /\ op.id \in Ops /\ op.id \in Nat
    BY <1>0, <2>1 DEF StageHere, InOrder, Following, Op
  <2>3. /\ \A kind \in {"handover", "clear", "resume"} : NoneOf(kind)' <=> NoneOf(kind)
        /\ \A o \in Ops : Untold(o)' <=> Untold(o)
        /\ LateInputs' = LateInputs
    BY <2>1 DEF NoneOf, Untold, LateInputs
  <2>4. StageHere' BY <1>0, <2>1, <2>2 DEF StageHere
  <2>5. ClearsKnown' BY <1>0, <2>1, <2>2, <2>3 DEF ClearsKnown, Before
  <2>6. HandoversKnown' BY <1>0, <2>1, <2>2, <2>3 DEF HandoversKnown
  <2>7. NothingLeft' BY <2>1, <2>2 DEF NothingLeft
  <2>8. InOrder'
    <3>1. \A o \in Ops : o > op.id => late'[o].state = "none" BY <1>0, <2>1, <2>2 DEF InOrder
    <3> QED BY <1>0, <2>1, <2>2, <2>3, <3>1 DEF InOrder
  <2>9. SaidInFile' BY <1>0, <2>1 DEF SaidInFile
  <2>10. SaidLate' BY <1>0, <2>1, <2>2, <2>3 DEF SaidLate
  <2> QED BY <2>4, <2>5, <2>6, <2>7, <2>8, <2>9, <2>10 DEF FollowInv
<1>3. CASE Verify
  <2>1. /\ pc = "verify" /\ pc' = "loop" /\ UNCHANGED <<sessionVars, op, backoff>>
        /\ op.id \in reported' \/ ~Unread
    BY <1>3 DEF Verify, Goto
  <2>2. op.stage = "verifying" /\ session.sid = op.new
    BY <1>0, <2>1 DEF StageHere, InOrder, Following
  <2>3. /\ \A kind \in {"handover", "clear", "resume"} : NoneOf(kind)' <=> NoneOf(kind)
        /\ \A o \in Ops : Untold(o)' <=> Untold(o)
        /\ LateInputs' = LateInputs /\ (Unread' <=> Unread)
    BY <2>1 DEF NoneOf, Untold, LateInputs, Unread, sessionVars
  <2> USE DEF sessionVars
  <2>4. StageHere' BY <1>0, <2>1, <2>2 DEF StageHere
  <2>5. ClearsKnown' BY <1>0, <2>1, <2>2, <2>3 DEF ClearsKnown, Before
  <2>6. HandoversKnown' BY <1>0, <2>1, <2>2, <2>3 DEF HandoversKnown
  <2>7. NothingLeft' BY <2>1, <2>2 DEF NothingLeft
  <2>8. InOrder' BY <1>0, <2>1, <2>2, <2>3 DEF InOrder
  <2>9. SaidInFile' BY <1>0, <2>1 DEF SaidInFile
  <2>10. SaidLate' BY <1>0, <2>1, <2>2, <2>3 DEF SaidLate
  <2> QED BY <2>4, <2>5, <2>6, <2>7, <2>8, <2>9, <2>10 DEF FollowInv
<1> QED BY <1>1, <1>2, <1>3

\* A suspension starts the pane afresh while the watcher is not there; a backoff ends over
\* an empty queue.
LEMMA OthersFollow ==
  ASSUME SparedInv, FollowInv, Suspend \/ BackoffEnds
  PROVE  FollowInv'
<1>0. /\ StageHere /\ ClearsKnown /\ InOrder /\ NothingLeft /\ HandoversKnown /\ SaidInFile
      /\ SaidLate /\ HandoverInv /\ op \in Op /\ session \in Session /\ session.sid \in Nat
      /\ op.old \in Nat /\ op.new \in Nat /\ record \in Record
  BY DEF FollowInv, SparedInv, HandoverInv, TypeOK, SessionTypeOK, Op, Session
<1>1. CASE Suspend
  <2>1. PICK sid \in {session.sid, session.sid + 1} :
          /\ session' = [session EXCEPT !.sid = sid, !.pane = 2, !.turn = "none", !.of = 0,
                           !.queue = <<>>,
                           !.known = IF sid = session.sid THEN @ ELSE {0},
                           !.heavy = @ /\ sid = session.sid]
          /\ record' = Started(sid, 2, IF sid = session.sid THEN "resume" ELSE "startup")
    BY <1>1 DEF Suspend, Relaunch
  <2>2. /\ pc = "dead" /\ pc' = "dead"
        /\ UNCHANGED <<role, inputs, file, late, resumed, op, backoff, reported>>
    BY <1>1 DEF Suspend, Relaunch, watcherVars
  <2>3. /\ session'.sid = sid /\ session'.turn = "none" /\ session'.queue = <<>>
        /\ sid = session.sid => session'.known = session.known
    BY <1>0, <2>1 DEF Session
  <2>4. record'.sid = sid /\ record'.source # "clear"
    BY <1>0, <2>1 DEF Started, Record
  <2>5. /\ \A kind \in {"handover", "clear", "resume"} : NoneOf(kind)' /\ OneOf(kind)'
        /\ \A o \in Ops : Untold(o) => Untold(o)'
        /\ LateInputs' = LateInputs
    BY <2>2, <2>3, EmptySeq DEF NoneOf, OneOf, Untold, LateInputs
  <2>6. StageHere' BY <1>0, <2>2 DEF StageHere
  <2>7. ClearsKnown' BY <2>2, <2>4, <2>5 DEF ClearsKnown, Before
  <2>8. HandoversKnown' BY <2>2, <2>3, <2>5 DEF HandoversKnown
  <2>9. NothingLeft' BY <2>2, <2>5 DEF NothingLeft
  <2> DEFINE was == session.sid
             new == session'.sid
             under == op.stage \in {"cleared", "resuming", "verifying"}
  <2>10. was \in Nat /\ (new = was \/ new = was + 1) BY <1>0, <2>3
  <2>11. /\ op.stage \in Under => op.old <= was
         /\ under => op.old < op.new /\ op.new <= was
    BY <1>0 DEF InOrder
  <2>12. /\ op.stage \in Under => op.old <= new /\ (new = op.old => new = was)
         /\ under => op.old < op.new /\ op.new <= new /\ (new = op.new => new = was)
    <3> HIDE DEF was, new, under
    <3> QED BY <1>0, <2>10, <2>11
  <2>13. InOrder'
    BY <1>0, <2>2, <2>3, <2>4, <2>5, <2>12 DEF InOrder, Following
  <2>14. SaidInFile'
    BY <1>0, <2>2, <2>3, <2>12 DEF SaidInFile, Under
  <2>15. SaidLate'
    BY <1>0, <2>2, <2>3, <2>5, <2>12 DEF SaidLate
  <2> QED BY <2>6, <2>7, <2>8, <2>9, <2>13, <2>14, <2>15 DEF FollowInv
<1>2. CASE BackoffEnds
  <2> USE DEF sessionVars
  <2>1. session.queue = <<>> /\ UNCHANGED <<sessionVars, op, reported, pc>>
    BY <1>2 DEF BackoffEnds
  <2>2. /\ \A kind \in {"handover", "clear", "resume"} : NoneOf(kind)' /\ OneOf(kind)'
        /\ \A o \in Ops : Untold(o)' <=> Untold(o)
        /\ LateInputs' = LateInputs /\ (Unread' <=> Unread)
    BY <2>1, EmptySeq DEF NoneOf, OneOf, Untold, LateInputs, Unread
  <2>3. StageHere' BY <1>0, <2>1 DEF StageHere
  <2>4. ClearsKnown' BY <1>0, <2>1, <2>2 DEF ClearsKnown
  <2>5. HandoversKnown' BY <1>0, <2>1, <2>2 DEF HandoversKnown
  <2>6. NothingLeft' BY <1>0, <2>1, <2>2 DEF NothingLeft
  <2>7. InOrder' BY <1>0, <2>1, <2>2 DEF InOrder
  <2>8. SaidInFile' BY <1>0, <2>1 DEF SaidInFile
  <2>9. SaidLate' BY <1>0, <2>1, <2>2 DEF SaidLate
  <2> QED BY <2>3, <2>4, <2>5, <2>6, <2>7, <2>8, <2>9 DEF FollowInv
<1> QED BY <1>1, <1>2

\* The steps keep it.
LEMMA FollowKept ==
  ASSUME CalmDeaths, SparedInv, HandoverInv', FollowInv, [Next]_vars
  PROVE  FollowInv'
<1>1. CASE TypeHandover \/ TypeClear \/ TypeResume
  BY <1>1, TypeLineFollows DEF TypeHandover, TypeClear, TypeResume
<1>2. CASE StartOp BY <1>2, StartFollows
<1>3. CASE Written BY <1>3, WrittenFollows
<1>4. CASE SeesClear \/ Settled \/ ResumeEnds \/ Done \/ Fail BY <1>4, StagesFollow
<1>5. CASE Settle \/ WriteLate \/ Verify BY <1>5, LateFollows
<1>6. CASE \/ Recover \/ Due \/ NotWritten \/ LookAtTurn \/ LookAtHold \/ LookAtPersons
           \/ ClearTimeout \/ ResumeKnown \/ ResumeBegins \/ ResumeTimeout
           \/ ResumeFails \/ LoopFails \/ Report \/ Crash \/ Restart
  BY <1>6, LooksFollow
<1>7. CASE SessionMoves BY <1>7, SessionFollows
<1>8. CASE Suspend \/ BackoffEnds BY <1>8, OthersFollow
<1>9. CASE UNCHANGED vars
  <2> USE <1>9 DEF vars, watcherVars, sessionVars
  <2>1. /\ \A kind \in {"handover", "clear", "resume"} :
             (NoneOf(kind)' <=> NoneOf(kind)) /\ (OneOf(kind)' <=> OneOf(kind))
        /\ \A o \in Ops : Untold(o)' <=> Untold(o)
        /\ LateInputs' = LateInputs /\ (Unread' <=> Unread)
    BY DEF NoneOf, OneOf, Untold, LateInputs, Unread
  <2> USE DEF FollowInv
  <2>2. StageHere' BY DEF StageHere
  <2>3. ClearsKnown' BY <2>1 DEF ClearsKnown
  <2>4. HandoversKnown' BY <2>1 DEF HandoversKnown
  <2>5. NothingLeft' BY <2>1 DEF NothingLeft
  <2>6. InOrder' BY <2>1 DEF InOrder
  <2>7. SaidInFile' BY DEF SaidInFile
  <2>8. SaidLate' BY <2>1 DEF SaidLate
  <2> QED BY <2>2, <2>3, <2>4, <2>5, <2>6, <2>7, <2>8
<1> QED BY <1>1, <1>2, <1>3, <1>4, <1>5, <1>6, <1>7, <1>8, <1>9 DEF Next, Watch

\* At the start nothing waits and nothing was said.
LEMMA FollowStarts == Init => FollowInv
<1> SUFFICES ASSUME Init PROVE FollowInv
  OBVIOUS
<1>1. /\ session.queue = <<>> /\ session.turn = "none" /\ session.sid = 1 /\ record.sid = 1
      /\ resumed = {} /\ op = NoOp /\ pc = "tick" /\ ~record.idle
      /\ late = [o \in Ops |-> [state |-> "none", says |-> {}]]
  BY DEF Init, SessionInit
<1>2. op.stage = "none" /\ op.id = 0 BY <1>1 DEF NoOp
<1>3. /\ \A kind \in {"handover", "clear", "resume"} : NoneOf(kind)
      /\ \A o \in Ops : Untold(o) /\ late[o].state = "none"
  BY <1>1, EmptySeq DEF NoneOf, Untold
<1>4. StageHere BY <1>1, <1>2 DEF StageHere, Under
<1>5. ClearsKnown BY <1>1, <1>2, <1>3 DEF ClearsKnown, Before
<1>6. HandoversKnown BY <1>1, <1>2, <1>3 DEF HandoversKnown
<1>7. NothingLeft BY <1>1, <1>2 DEF NothingLeft
<1>8. InOrder BY <1>1, <1>2, <1>3 DEF InOrder, Under, Following
<1>9. SaidInFile BY <1>2 DEF SaidInFile
<1>10. SaidLate BY <1>1, <1>2 DEF SaidLate
<1> QED BY <1>4, <1>5, <1>6, <1>7, <1>8, <1>9, <1>10 DEF FollowInv

\* What is done in silence is known: what the session knew when the operation began, through
\* the handover file, and what reached it since, through the late-input file, wherever the
\* secretary's watcher died and however often (tools/context_handover_watch.py, stage_verifying
\* and recover).
THEOREM NothingIsLost ==
  ASSUME CalmDeaths
  PROVE  Spec => NothingLostSilently
<1> DEFINE A == op.stage = "verifying" /\ op'.stage = "done" /\ op.id \notin reported
                  => op.had \union ReachedOld \subseteq session.known
<1>1. SparedInv /\ FollowInv /\ [Next]_vars => A
  <2> SUFFICES ASSUME SparedInv, FollowInv, [Next]_vars, op.stage = "verifying",
                      op'.stage = "done", op.id \notin reported
               PROVE  op.had \union ReachedOld \subseteq session.known
    OBVIOUS
  <2>0. op \in Op /\ op.p0 = op.began /\ late \in [Ops -> LateFile] /\ op.id \in Ops
    BY DEF SparedInv, HandoverInv, Numbered, Under, TypeOK, SessionTypeOK, Op
  <2>1. pc = "loop"
    <3>1. op' # op OBVIOUS
    <3>2. StartOp \/ Written \/ SeesClear \/ Settled \/ ResumeEnds \/ Done \/ Fail
      BY <3>1 DEF Next, Watch, SessionMoves, Suspend, BackoffEnds, Crash, Restart, vars, watcherVars,
         Recover, Due, TypeHandover, NotWritten, LookAtTurn, LookAtHold, LookAtPersons, TypeClear,
         ClearTimeout, Settle, WriteLate, TypeResume, ResumeKnown, ResumeBegins, ResumeTimeout,
         ResumeFails, Verify, LoopFails, Report, TypeLine, Look
    <3> QED BY <2>0, <3>2 DEF StartOp, NoOp, Written, SeesClear, Settled, ResumeEnds, Done, Fail, Save, Op
  <2>2. /\ session.sid = op.new /\ op.id \in resumed /\ ~Unread
        /\ op.had \subseteq session.known
        /\ op.late <=> LateInputs # {}
        /\ op.late => late[op.id].state # "none"
        /\ op.late /\ late[op.id].state = "consumed" => LateInputs \subseteq session.known
    BY <2>1 DEF FollowInv, InOrder, Following, SaidInFile, SaidLate
  <2>3. ReachedOld = LateInputs BY <2>0 DEF ReachedOld, LateInputs
  <2>4. op.late => late[op.id].state = "consumed"
    BY <2>0, <2>2 DEF Unread, LateFile
  <2> QED BY <2>2, <2>3, <2>4
<1>2. SparedInv => HandoverInv BY DEF SparedInv
<1>3. SparedInv /\ HandoverInv' /\ FollowInv /\ [Next]_vars => FollowInv' BY FollowKept
<1> QED BY <1>1, <1>2, <1>3, FollowStarts, SparedAlways, PTL DEF Spec, NothingLostSilently
=============================================================================
