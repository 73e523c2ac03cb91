------------------------- MODULE StateWriterProofs -------------------------
(***************************************************************************)
(* Theorems about StateWriter, for any secretary processes, any tasks, any *)
(* number of commits and faults.                                           *)
(***************************************************************************)
EXTENDS StateWriter, TLAPS

-----------------------------------------------------------------------------
(* The inductive invariant                                                 *)

\* The write lock belongs to the one transaction that has written.
LockIsHeld == /\ \A w \in Writers : w \in lock <=> pc[w] = "written"
              /\ \A w, x \in lock : w = x

\* Who runs which transaction body, and the status it commits.
BodyFits ==
  \A w \in Writers : pc[w] # "idle" =>
    \/ call[w].body = "apply" /\ w \in Secretaries /\ call[w].goal = "queued"
    \/ call[w].body = "dispatch" /\ w = dispatcher /\ call[w].goal = "in_use"
    \/ call[w].body = "status" /\ w \in Secretaries /\ call[w].goal \in Later

\* What an open transaction knows of the committed row, though others commit
\* while it is open.
RowFitsFor(w) ==
  /\ pc[w] = "written" /\ call[w].body = "apply"
       => runs[call[w].task] \in {"none", "queued"}
  /\ pc[w] \in InTransaction /\ call[w].body = "dispatch"
       => runs[call[w].task] \in {"queued", "abandoned"}
  /\ pc[w] \in InTransaction /\ call[w].body = "status"
       => \/ runs[call[w].task] = "queued" /\ call[w].goal = "abandoned"
          \/ runs[call[w].task] \in {"in_use", "review"}

RowFits == \A w \in Writers : RowFitsFor(w)

\* The secretary takes its decisions one after the other.
OneDecision ==
  \A w, x \in Writers :
    /\ pc[w] \in InTransaction /\ call[w].body = "status"
    /\ pc[x] \in InTransaction /\ call[x].body = "status"
    => w = x

WriterInv == TypeOK /\ LockIsHeld /\ BodyFits /\ RowFits /\ OneDecision

\* What is changed by the steps that give a transaction up.
LEMMA UndoEffect ==
  ASSUME NEW w \in Writers, TypeOK, Undo(w)
  PROVE  /\ pc' = [pc EXCEPT ![w] = "idle"]
         /\ lock' = lock \ {w}
         /\ intent' = [intent EXCEPT ![w] = FALSE]
         /\ UNCHANGED <<runs, sent, version, file, shown, excuse, drift, call, seen>>
BY DEF Undo, Goto, dbVars, outVars

\* The steps, one case each: every proof about Next splits along it.
LEMMA NextCases ==
  ASSUME Next
  PROVE  \E w \in Writers :
           \/ \E t \in Tasks : OpenApply(w, t)
           \/ \E t \in Tasks : OpenDispatch(w, t)
           \/ \E t \in Tasks, s \in Later : OpenStatus(w, t, s)
           \/ \E s \in Later : WriteAgain(w, s)
           \/ Read(w)
           \/ Refuse(w) \/ Locked(w) \/ Rollback(w)
           \/ Write(w)
           \/ Commit(w)
           \/ \E k \in Derived : Render(w, k)
           \/ \E k \in Derived : Publish(w, k)
           \/ \E k \in Derived : HookFails(w, k)
           \/ Drain(w)
           \/ Move(w)
           \/ MoveFails(w)
           \/ Crash(w)
BY DEF Next, Proceed

\* Type correctness is inductive by itself.
LEMMA InitTypeOK == Init => TypeOK
BY WriterAssumption DEF Init, TypeOK, Status, Derived, Steps, Later

\* A counted fault stays within its bound.
LEMMA FaultType ==
  ASSUME TypeOK, Fault
  PROVE  faults' \in 0..MaxFaults
BY WriterAssumption DEF Fault, TypeOK

\* Every step of a writer keeps the types.
LEMMA NextTypeOK == TypeOK /\ [Next]_vars => TypeOK'
<1> SUFFICES ASSUME TypeOK, [Next]_vars PROVE TypeOK'
  OBVIOUS
<1>0. CASE UNCHANGED vars
  BY <1>0 DEF vars, TypeOK
<1>1. CASE Next
  <2>1. PICK w \in Writers :
           \/ \E t \in Tasks : OpenApply(w, t)
           \/ \E t \in Tasks : OpenDispatch(w, t)
           \/ \E t \in Tasks, s \in Later : OpenStatus(w, t, s)
           \/ \E s \in Later : WriteAgain(w, s)
           \/ Read(w)
           \/ Refuse(w) \/ Locked(w) \/ Rollback(w)
           \/ Write(w)
           \/ Commit(w)
           \/ \E k \in Derived : Render(w, k)
           \/ \E k \in Derived : Publish(w, k)
           \/ \E k \in Derived : HookFails(w, k)
           \/ Drain(w)
           \/ Move(w)
           \/ MoveFails(w)
           \/ Crash(w)
    BY <1>1, NextCases
  <2> USE DEF TypeOK, Goto, dbVars, outVars
  <2>2. ASSUME NEW t \in Tasks, OpenApply(w, t) PROVE TypeOK'
    BY <2>2 DEF OpenApply, Open, Steps, Status
  <2>3. ASSUME NEW t \in Tasks, OpenDispatch(w, t) PROVE TypeOK'
    BY <2>3 DEF OpenDispatch, Open, Steps, Status, Later
  <2>4. ASSUME NEW t \in Tasks, NEW s \in Later, OpenStatus(w, t, s) PROVE TypeOK'
    BY <2>4 DEF OpenStatus, Open, Steps, Status
  <2>5. ASSUME NEW s \in Later, WriteAgain(w, s) PROVE TypeOK'
    BY <2>5 DEF WriteAgain, QueuesArchive, Status
  <2>6. CASE Read(w)
    BY <2>6 DEF Read, Steps
  <2>7. CASE Refuse(w) \/ Locked(w) \/ Rollback(w)
    <3>1. Undo(w) /\ (UNCHANGED faults \/ Fault)
      BY <2>7 DEF Refuse, Locked, Rollback
    <3>2. faults' \in 0..MaxFaults
      BY <3>1, FaultType
    <3> QED
      BY <3>1, <3>2, UndoEffect DEF Steps
  <2>8. CASE Write(w)
    BY <2>8 DEF Write, QueuesArchive, Steps
  <2>9. CASE Commit(w)
    <3>1. runs' \in [Tasks -> Status] /\ sent' \in [Tasks -> Nat]
      BY <2>9 DEF Commit, NewEvents
    <3> QED
      BY <2>9, <3>1 DEF Commit, Steps
  <2>10. ASSUME NEW k \in Derived, Render(w, k) PROVE TypeOK'
    BY <2>10 DEF Render, Steps, Derived
  <2>11. ASSUME NEW k \in Derived, Publish(w, k) PROVE TypeOK'
    <3>1. (seen[w] # version /\ (excuse[k] \/ shown[k] > seen[w])) \in BOOLEAN
      OBVIOUS
    <3>2. excuse' \in [Derived -> BOOLEAN]
      BY <2>11, <3>1 DEF Publish
    <3> QED
      BY <2>11, <3>2 DEF Publish, After, Steps, Derived
  <2>12. ASSUME NEW k \in Derived, HookFails(w, k) PROVE TypeOK'
    BY <2>12, FaultType DEF HookFails, After, Steps, Derived
  <2>13. CASE Drain(w)
    BY <2>13 DEF Drain, Steps
  <2>14. CASE Move(w)
    BY <2>14 DEF Move, Steps
  <2>15. CASE MoveFails(w)
    BY <2>15, FaultType DEF MoveFails, Steps
  <2>16. CASE Crash(w)
    BY <2>16, FaultType DEF Crash, Owes, Steps
  <2> QED
    BY <2>1, <2>2, <2>3, <2>4, <2>5, <2>6, <2>7, <2>8, <2>9, <2>10, <2>11,
       <2>12, <2>13, <2>14, <2>15, <2>16
<1> QED
  BY <1>0, <1>1

\* Every reachable state of the writers is well typed.
THEOREM WritersTyped == Spec => []TypeOK
<1> QED
  BY InitTypeOK, NextTypeOK, PTL DEF Spec

-----------------------------------------------------------------------------
(* Who holds the lock, who runs what, and what the row may be              *)

\* Idle writers hold no lock and have no transaction open.
LEMMA InitWriterInv == Init => WriterInv
<1> SUFFICES ASSUME Init PROVE WriterInv
  OBVIOUS
<1>1. LockIsHeld /\ BodyFits /\ OneDecision
  BY DEF Init, LockIsHeld, BodyFits, OneDecision, InTransaction
<1>2. RowFits
  BY DEF Init, RowFits, RowFitsFor, InTransaction
<1> QED
  BY <1>1, <1>2, InitTypeOK DEF WriterInv

\* What giving a transaction up leaves of the invariant: the writer that does
\* it has no part in it any more.
LEMMA UndoKeeps ==
  ASSUME NEW w \in Writers, WriterInv,
         pc' = [pc EXCEPT ![w] = "idle"], lock' = lock \ {w},
         UNCHANGED <<runs, call>>
  PROVE  LockIsHeld' /\ BodyFits' /\ RowFits' /\ OneDecision'
BY DEF WriterInv, TypeOK, LockIsHeld, BodyFits, RowFits, RowFitsFor,
        OneDecision, InTransaction

\* A step outside the transactions: neither a row nor the lock changes.
LEMMA HooksKeep ==
  ASSUME NEW w \in Writers, WriterInv, pc[w] \notin {"idle", "written"},
         NEW step \in Steps \ (InTransaction \union {"move"}),
         pc' = [pc EXCEPT ![w] = step],
         UNCHANGED <<runs, lock, call>>
  PROVE  LockIsHeld' /\ BodyFits' /\ RowFits' /\ OneDecision'
BY DEF WriterInv, TypeOK, LockIsHeld, BodyFits, RowFits, RowFitsFor,
        OneDecision, InTransaction

\* Opening a transaction: what the writer knows when it starts.
LEMMA OpenKeeps ==
  ASSUME NEW w \in Writers, NEW t \in Tasks, WriterInv,
         NEW body \in {"apply", "dispatch", "status"}, NEW goal \in Status,
         Open(w, body, t, goal), UNCHANGED <<runs, lock>>,
         \/ body = "apply" /\ w \in Secretaries /\ goal = "queued"
         \/ /\ body = "dispatch" /\ w = dispatcher /\ goal = "in_use"
            /\ runs[t] = "queued"
         \/ /\ body = "status" /\ w \in Secretaries /\ goal \in Later
            /\ \/ runs[t] = "queued" /\ goal = "abandoned"
               \/ runs[t] \in {"in_use", "review"}
            /\ \A x \in Secretaries : pc[x] \in InTransaction => call[x].body # "status"
  PROVE  LockIsHeld' /\ BodyFits' /\ RowFits' /\ OneDecision'
<1> USE DEF WriterInv, TypeOK
<1>1. /\ pc[w] = "idle"
      /\ pc' = [pc EXCEPT ![w] = "begun"]
      /\ call' = [call EXCEPT ![w] = [body |-> body, task |-> t, goal |-> goal]]
  BY DEF Open, Goto
<1>2. LockIsHeld'
  BY <1>1 DEF LockIsHeld
<1>3. BodyFits'
  BY <1>1 DEF BodyFits
<1>4. RowFits'
  BY <1>1 DEF RowFits, RowFitsFor, InTransaction
<1>5. OneDecision'
  BY <1>1, WriterAssumption DEF OneDecision, InTransaction, BodyFits
<1> QED
  BY <1>2, <1>3, <1>4, <1>5

\* The lock keeps every other writer from committing between a write and its
\* commit, so what the transaction knew of the row is still so.
LEMMA CommitKeeps ==
  ASSUME NEW w \in Writers, WriterInv, Commit(w)
  PROVE  LockIsHeld' /\ BodyFits' /\ RowFits' /\ OneDecision'
<1> USE DEF WriterInv, TypeOK
<1> DEFINE t == call[w].task
           goal == call[w].goal
<1>1. /\ pc[w] = "written"
      /\ pc' = [pc EXCEPT ![w] = "md"]
      /\ runs' = [runs EXCEPT ![t] = goal]
      /\ lock' = {}
      /\ call' = call
  BY DEF Commit, Goto, outVars
<1>2. \A x \in Writers : pc[x] = "written" => x = w
  BY <1>1 DEF LockIsHeld
<1>3. LockIsHeld'
  BY <1>1, <1>2 DEF LockIsHeld
<1>4. BodyFits' /\ OneDecision'
  BY <1>1 DEF BodyFits, OneDecision, InTransaction
<1>5. RowFits'
  <2> SUFFICES ASSUME NEW x \in Writers, x # w, call[x].task = t, runs'[t] = goal
               PROVE  RowFitsFor(x)'
    BY <1>1, <1>2 DEF RowFits, RowFitsFor, InTransaction
  <2>1. CASE call[w].body = "apply"
    BY <1>1, <1>2, <2>1 DEF RowFits, RowFitsFor, BodyFits, InTransaction
  <2>2. CASE call[w].body = "dispatch"
    BY <1>1, <1>2, <2>2, WriterAssumption
    DEF RowFits, RowFitsFor, BodyFits, InTransaction
  <2>3. CASE call[w].body = "status"
    BY <1>1, <1>2, <2>3
    DEF RowFits, RowFitsFor, BodyFits, OneDecision, InTransaction, Later
  <2> QED
    BY <2>1, <2>2, <2>3
<1> QED
  BY <1>3, <1>4, <1>5

\* Every step keeps who holds the lock, who runs what, and what the row is.
LEMMA NextWriterInv == WriterInv /\ [Next]_vars => WriterInv'
<1> SUFFICES ASSUME WriterInv, [Next]_vars
             PROVE  LockIsHeld' /\ BodyFits' /\ RowFits' /\ OneDecision'
  BY NextTypeOK DEF WriterInv
<1>0. CASE UNCHANGED vars
  BY <1>0 DEF vars, WriterInv, LockIsHeld, BodyFits, RowFits, RowFitsFor,
        OneDecision
<1>1. CASE Next
  <2> DEFINE Kept == LockIsHeld' /\ BodyFits' /\ RowFits' /\ OneDecision'
  <2>1. PICK w \in Writers :
           \/ \E t \in Tasks : OpenApply(w, t)
           \/ \E t \in Tasks : OpenDispatch(w, t)
           \/ \E t \in Tasks, s \in Later : OpenStatus(w, t, s)
           \/ \E s \in Later : WriteAgain(w, s)
           \/ Read(w)
           \/ Refuse(w) \/ Locked(w) \/ Rollback(w)
           \/ Write(w)
           \/ Commit(w)
           \/ \E k \in Derived : Render(w, k)
           \/ \E k \in Derived : Publish(w, k)
           \/ \E k \in Derived : HookFails(w, k)
           \/ Drain(w)
           \/ Move(w)
           \/ MoveFails(w)
           \/ Crash(w)
    BY <1>1, NextCases
  <2>2. ASSUME NEW t \in Tasks, OpenApply(w, t) PROVE Kept
    BY <2>2, OpenKeeps DEF OpenApply, dbVars, Status
  <2>3. ASSUME NEW t \in Tasks, OpenDispatch(w, t) PROVE Kept
    BY <2>3, OpenKeeps DEF OpenDispatch, dbVars, Status, Later
  <2>4. ASSUME NEW t \in Tasks, NEW s \in Later, OpenStatus(w, t, s) PROVE Kept
    <3>1. \/ runs[t] = "queued" /\ s = "abandoned"
          \/ runs[t] \in {"in_use", "review"}
      BY <2>4 DEF OpenStatus, SecretaryMay
    <3> QED
      BY <2>4, <3>1, OpenKeeps DEF OpenStatus, dbVars, Status
  <2>5. ASSUME NEW s \in Later, WriteAgain(w, s) PROVE Kept
    <3>1. /\ pc[w] = "written" /\ call[w].body = "status"
          /\ runs[call[w].task] \in {"in_use", "review"}
          /\ call' = [call EXCEPT ![w] = [@ EXCEPT !.goal = s]]
          /\ UNCHANGED <<runs, pc, lock>>
      BY <2>5 DEF WriteAgain, dbVars
    <3> QED
      BY <3>1 DEF WriterInv, TypeOK, LockIsHeld, BodyFits, RowFits, RowFitsFor,
        OneDecision
  <2>6. CASE Read(w)
    <3>1. /\ pc[w] = "begun" /\ pc' = [pc EXCEPT ![w] = "read"]
          /\ UNCHANGED <<runs, lock, call>>
      BY <2>6 DEF Read, Goto, dbVars
    <3> QED
      BY <3>1 DEF WriterInv, TypeOK, LockIsHeld, BodyFits, RowFits, RowFitsFor,
        OneDecision,
                  InTransaction
  <2>7. CASE Refuse(w) \/ Locked(w) \/ Rollback(w)
    <3>1. Undo(w)
      BY <2>7 DEF Refuse, Locked, Rollback
    <3> QED
      BY <3>1, UndoEffect, UndoKeeps DEF WriterInv
  <2>8. CASE Write(w)
    <3>1. /\ pc[w] \in {"begun", "read"}
          /\ pc[w] = "begun" => call[w].body = "status"
          /\ call[w].body = "apply" => runs[call[w].task] \in {"none", "queued"}
          /\ lock = {} /\ lock' = {w}
          /\ pc' = [pc EXCEPT ![w] = "written"]
          /\ UNCHANGED <<runs, call>>
      BY <2>8 DEF Write, Goto, dbVars, Reappliable
    <3> QED
      BY <3>1 DEF WriterInv, TypeOK, LockIsHeld, BodyFits, RowFits, RowFitsFor,
        OneDecision,
                  InTransaction
  <2>9. CASE Commit(w)
    BY <2>9, CommitKeeps
  <2>10. ASSUME NEW k \in Derived, Render(w, k) PROVE Kept
    BY <2>10, HooksKeep DEF Render, Goto, dbVars, Derived, Steps, InTransaction
  <2>11. ASSUME NEW k \in Derived, Publish(w, k) PROVE Kept
    BY <2>11, HooksKeep DEF Publish, Writing, After, Goto, dbVars, Derived, Steps,
                            InTransaction
  <2>12. ASSUME NEW k \in Derived, HookFails(w, k) PROVE Kept
    BY <2>12, HooksKeep DEF HookFails, Writing, After, Goto, dbVars, Derived, Steps,
                            InTransaction
  <2>13. CASE Drain(w)
    <3>1. /\ pc[w] = "drain"
          /\ pc' = [pc EXCEPT ![w] = IF intent[w] /\ Movable(call[w].task)
                                     THEN "move" ELSE "idle"]
          /\ UNCHANGED <<runs, lock, call>>
      BY <2>13 DEF Drain, Goto, dbVars
    <3> QED
      BY <3>1 DEF WriterInv, TypeOK, LockIsHeld, BodyFits, RowFits, RowFitsFor,
        OneDecision,
                  InTransaction, Movable
  <2>14. CASE Move(w) \/ MoveFails(w)
    BY <2>14, HooksKeep DEF Move, MoveFails, Goto, dbVars, Steps, InTransaction
  <2>15. CASE Crash(w)
    BY <2>15, UndoKeeps DEF Crash, Goto, dbVars
  <2> QED
    BY <2>1, <2>2, <2>3, <2>4, <2>5, <2>6, <2>7, <2>8, <2>9, <2>10, <2>11,
       <2>12, <2>13, <2>14, <2>15
<1> QED
  BY <1>0, <1>1

\* The invariant holds of every reachable state.
LEMMA WriterInvariant == Spec => []WriterInv
<1> QED
  BY InitWriterInv, NextWriterInv, PTL DEF Spec

-----------------------------------------------------------------------------
(* What the rows and events satisfy                                        *)

\* A commit writes the row of one run: a reservation over nothing or over a
\* reservation, or a later status over a row that has its event.
LEMMA CommitEffect ==
  ASSUME NEW w \in Writers, WriterInv, Commit(w)
  PROVE  /\ call[w].task \in Tasks
         /\ runs' = [runs EXCEPT ![call[w].task] = call[w].goal]
         /\ \/ /\ runs[call[w].task] \in {"none", "queued"}
               /\ call[w].goal = "queued"
               /\ sent' = [sent EXCEPT ![call[w].task] = @ + NewEvents(call[w].task)]
            \/ /\ runs[call[w].task] \in {"queued", "in_use", "review", "abandoned"}
               /\ call[w].goal \in Later
               /\ sent' = sent
<1> USE DEF WriterInv, TypeOK
<1>1. pc[w] = "written" /\ call[w].task \in Tasks
  BY DEF Commit
<1>2. CASE call[w].body = "apply"
  BY <1>1, <1>2 DEF Commit, BodyFits, RowFits, RowFitsFor
<1>3. CASE call[w].body # "apply"
  <2>1. sent' = sent
    BY <1>1, <1>3 DEF Commit
  <2> QED
    BY <1>1, <1>3, <2>1 DEF Commit, BodyFits, RowFits, RowFitsFor, InTransaction, Later
<1> QED
  BY <1>2, <1>3

\* Nothing but a commit changes rows and events.
LEMMA OnlyCommits ==
  ASSUME [Next]_vars, \A w \in Writers : ~Commit(w)
  PROVE  UNCHANGED dbVars
<1>0. CASE UNCHANGED vars
  BY <1>0 DEF vars, dbVars
<1>1. CASE Next
  BY <1>1, NextCases DEF OpenApply, OpenDispatch, OpenStatus, WriteAgain, Read, Refuse,
     Locked, Rollback, Undo, Write, Render, Publish, HookFails, Drain, Move, MoveFails,
     Crash
<1> QED
  BY <1>0, <1>1

\* Only the commit of an apply adds an event, and only to a run without one.
LEMMA NextSentOnce ==
  WriterInv /\ SentOncePerRun /\ [Next]_vars => SentOncePerRun'
<1> SUFFICES ASSUME WriterInv, SentOncePerRun, [Next]_vars PROVE SentOncePerRun'
  OBVIOUS
<1>1. CASE UNCHANGED dbVars
  BY <1>1 DEF dbVars, SentOncePerRun
<1>2. ASSUME NEW w \in Writers, Commit(w) PROVE SentOncePerRun'
  BY <1>2, CommitEffect DEF SentOncePerRun, NewEvents, WriterInv, TypeOK, Later
<1> QED
  BY <1>1, <1>2, OnlyCommits

\* The reservation of a run and its delegate_sent event are exactly-once,
\* whatever applies repeat, race, roll back or die.
THEOREM SentOnce == Spec => []SentOncePerRun
<1>1. Init => SentOncePerRun
  BY DEF Init, SentOncePerRun
<1> QED
  BY <1>1, WriterInvariant, NextSentOnce, PTL DEF Spec

\* A dispatched run is never made a reservation again.
THEOREM DispatchedStays == Spec => NeverRequeued
<1> DEFINE Stays == \A t \in Tasks : runs[t] \in Later => runs'[t] \in Later
<1>1. WriterInv /\ [Next]_vars => [Stays]_vars
  <2> SUFFICES ASSUME WriterInv, [Next]_vars PROVE Stays
    OBVIOUS
  <2>1. CASE UNCHANGED dbVars
    BY <2>1 DEF dbVars
  <2>2. ASSUME NEW w \in Writers, Commit(w) PROVE Stays
    BY <2>2, CommitEffect DEF WriterInv, TypeOK, Later
  <2> QED
    BY <2>1, <2>2, OnlyCommits
<1> QED
  BY <1>1, WriterInvariant, PTL DEF Spec, NeverRequeued

-----------------------------------------------------------------------------
(* What the worker files satisfy                                           *)

\* The move that Drain decided on is of a completed run, and the intent of a
\* completion lasts until Drain, which spends it.
Archiving ==
  /\ ArchivedIsCompleted
  /\ \A w \in Writers :
       /\ pc[w] = "move" => runs[call[w].task] = "completed"
       /\ pc[w] \in {"idle", "move"} => ~intent[w]
       /\ pc[w] = "written" /\ call[w].body = "status" /\ call[w].goal = "completed"
            => intent[w]

\* Writer w has still to put the worker file of t away.
WillArchive(w, t) ==
  /\ call[w].task = t
  /\ pc[w] = "move" \/ (pc[w] \notin InTransaction /\ intent[w])

FileInv == WriterInv /\ Archiving /\ CompletedIsArchived

\* A completed run stays completed.
LEMMA CompletedStays ==
  ASSUME WriterInv, [Next]_vars, NEW t \in Tasks, runs[t] = "completed"
  PROVE  runs'[t] = "completed"
<1>1. ASSUME NEW w \in Writers, Commit(w) PROVE runs'[t] = "completed"
  BY <1>1, CommitEffect DEF WriterInv, TypeOK
<1> QED
  BY <1>1, OnlyCommits DEF dbVars

\* A step of w that leaves every other writer alone, forgets no intent of a
\* running process, and touches no file, keeps what is owed to the archive.
LEMMA OthersStillArchive ==
  ASSUME NEW w \in Writers, WriterInv, Archiving,
         \A x \in Writers : x # w =>
           pc'[x] = pc[x] /\ call'[x] = call[x] /\ intent'[x] = intent[x],
         NEW t \in Tasks, NEW x \in Writers, WillArchive(x, t), x # w
  PROVE  WillArchive(x, t)'
BY DEF WillArchive

\* There is nothing to put away at the start.
LEMMA InitFileInv == Init => FileInv
<1> SUFFICES ASSUME Init PROVE Archiving /\ CompletedIsArchived
  BY InitWriterInv DEF FileInv
<1>1. Archiving
  BY DEF Init, Archiving, ArchivedIsCompleted
<1>2. CompletedIsArchived
  BY DEF Init, CompletedIsArchived
<1> QED
  BY <1>1, <1>2

\* Only Move archives, and the run it archives was and stays completed.
LEMMA NextArchiving ==
  WriterInv /\ Archiving /\ [Next]_vars => Archiving'
<1> SUFFICES ASSUME WriterInv, Archiving, [Next]_vars PROVE Archiving'
  OBVIOUS
<1> USE DEF WriterInv, TypeOK, Archiving, ArchivedIsCompleted
<1>0. CASE UNCHANGED vars
  BY <1>0 DEF vars
<1>1. CASE Next
  <2>1. PICK w \in Writers :
           \/ \E t \in Tasks : OpenApply(w, t)
           \/ \E t \in Tasks : OpenDispatch(w, t)
           \/ \E t \in Tasks, s \in Later : OpenStatus(w, t, s)
           \/ \E s \in Later : WriteAgain(w, s)
           \/ Read(w)
           \/ Refuse(w) \/ Locked(w) \/ Rollback(w)
           \/ Write(w)
           \/ Commit(w)
           \/ \E k \in Derived : Render(w, k)
           \/ \E k \in Derived : Publish(w, k)
           \/ \E k \in Derived : HookFails(w, k)
           \/ Drain(w)
           \/ Move(w)
           \/ MoveFails(w)
           \/ Crash(w)
    BY <1>1, NextCases
  <2>2. ASSUME NEW t \in Tasks, OpenApply(w, t) PROVE Archiving'
    BY <2>2 DEF OpenApply, Open, Goto, dbVars, outVars
  <2>3. ASSUME NEW t \in Tasks, OpenDispatch(w, t) PROVE Archiving'
    BY <2>3 DEF OpenDispatch, Open, Goto, dbVars
  <2>4. ASSUME NEW t \in Tasks, NEW s \in Later, OpenStatus(w, t, s) PROVE Archiving'
    BY <2>4 DEF OpenStatus, Open, Goto, dbVars, outVars
  <2>5. ASSUME NEW s \in Later, WriteAgain(w, s) PROVE Archiving'
    <3>1. /\ pc[w] = "written"
          /\ call' = [call EXCEPT ![w] = [@ EXCEPT !.goal = s]]
          /\ intent' = [intent EXCEPT ![w] = @ \/ s = "completed"]
          /\ UNCHANGED <<runs, file, pc>>
      BY <2>5 DEF WriteAgain, QueuesArchive, dbVars, outVars
    <3> QED
      BY <3>1
  <2>6. CASE Read(w)
    BY <2>6 DEF Read, Goto, dbVars, outVars
  <2>7. CASE Refuse(w) \/ Locked(w) \/ Rollback(w)
    <3>1. Undo(w)
      BY <2>7 DEF Refuse, Locked, Rollback
    <3> QED
      BY <3>1, UndoEffect
  <2>8. CASE Write(w)
    BY <2>8 DEF Write, Goto, QueuesArchive, dbVars, outVars
  <2>9. CASE Commit(w)
    <3>1. \A t \in Tasks : runs[t] = "completed" => runs'[t] = "completed"
      BY <2>9, CompletedStays DEF Next, Proceed
    <3>2. /\ pc' = [pc EXCEPT ![w] = "md"]
          /\ UNCHANGED <<file, call, intent>>
      BY <2>9 DEF Commit, Goto, outVars
    <3> QED
      BY <3>1, <3>2
  <2>10. ASSUME NEW k \in Derived, Render(w, k) PROVE Archiving'
    BY <2>10 DEF Render, Goto, dbVars, outVars
  <2>11. ASSUME NEW k \in Derived, Publish(w, k) PROVE Archiving'
    BY <2>11 DEF Publish, After, Goto, dbVars
  <2>12. ASSUME NEW k \in Derived, HookFails(w, k) PROVE Archiving'
    BY <2>12 DEF HookFails, After, Goto, dbVars
  <2>13. CASE Drain(w)
    BY <2>13 DEF Drain, Goto, Movable, dbVars, outVars
  <2>14. CASE Move(w)
    BY <2>14 DEF Move, Goto, dbVars
  <2>15. CASE MoveFails(w)
    BY <2>15 DEF MoveFails, Goto, dbVars
  <2>16. CASE Crash(w)
    BY <2>16 DEF Crash, Goto, dbVars
  <2> QED
    BY <2>1, <2>2, <2>3, <2>4, <2>5, <2>6, <2>7, <2>8, <2>9, <2>10, <2>11,
       <2>12, <2>13, <2>14, <2>15, <2>16
<1> QED
  BY <1>0, <1>1

\* The intent of a completed run survives until its file is moved: no step but
\* Drain, Move and a fault takes it away.
LEMMA NextCompletedArchived ==
  FileInv /\ [Next]_vars => CompletedIsArchived'
<1> SUFFICES ASSUME FileInv, [Next]_vars, NEW t \in Tasks,
                    runs'[t] = "completed", file'[t] = "live"
             PROVE  t \in drift' \/ \E x \in Writers : WillArchive(x, t)'
  BY DEF CompletedIsArchived, WillArchive
<1> USE DEF FileInv, WriterInv, TypeOK
<1> DEFINE Owed == t \in drift \/ \E x \in Writers : WillArchive(x, t)
           Kept == t \in drift' \/ \E x \in Writers : WillArchive(x, t)'
<1>a. runs[t] = "completed" /\ file[t] = "live" => Owed
  BY DEF CompletedIsArchived, WillArchive
<1>0. CASE UNCHANGED vars
  BY <1>0, <1>a DEF vars, WillArchive
<1>1. CASE Next
  <2>1. PICK w \in Writers :
           \/ \E u \in Tasks : OpenApply(w, u)
           \/ \E u \in Tasks : OpenDispatch(w, u)
           \/ \E u \in Tasks, s \in Later : OpenStatus(w, u, s)
           \/ \E s \in Later : WriteAgain(w, s)
           \/ Read(w)
           \/ Refuse(w) \/ Locked(w) \/ Rollback(w)
           \/ Write(w)
           \/ Commit(w)
           \/ \E k \in Derived : Render(w, k)
           \/ \E k \in Derived : Publish(w, k)
           \/ \E k \in Derived : HookFails(w, k)
           \/ Drain(w)
           \/ Move(w)
           \/ MoveFails(w)
           \/ Crash(w)
    BY <1>1, NextCases
  <2>b. ASSUME Owed, t \in drift => t \in drift',
               \A x \in Writers : x # w =>
                 pc'[x] = pc[x] /\ call'[x] = call[x] /\ intent'[x] = intent[x],
               WillArchive(w, t) => WillArchive(w, t)' \/ t \in drift'
        PROVE  Kept
    BY <2>b, OthersStillArchive
  <2>2. ASSUME NEW u \in Tasks, OpenApply(w, u) PROVE Kept
    BY <2>2, <2>b, <1>a DEF OpenApply, Open, Goto, dbVars, outVars, WillArchive, Archiving
  <2>3. ASSUME NEW u \in Tasks, OpenDispatch(w, u) PROVE Kept
    BY <2>3, <2>b, <1>a DEF OpenDispatch, Open, Goto, dbVars, WillArchive, Archiving
  <2>4. ASSUME NEW u \in Tasks, NEW s \in Later, OpenStatus(w, u, s) PROVE Kept
    BY <2>4, <2>b, <1>a DEF OpenStatus, Open, Goto, dbVars, outVars, WillArchive, Archiving
  <2>5. ASSUME NEW s \in Later, WriteAgain(w, s) PROVE Kept
    <3>1. /\ pc[w] = "written"
          /\ call' = [call EXCEPT ![w] = [@ EXCEPT !.goal = s]]
          /\ intent' = [intent EXCEPT ![w] = @ \/ s = "completed"]
          /\ UNCHANGED <<runs, file, pc, drift>>
      BY <2>5 DEF WriteAgain, QueuesArchive, dbVars, outVars
    <3> QED
      BY <3>1, <2>b, <1>a DEF WillArchive, InTransaction
  <2>6. CASE Read(w)
    BY <2>6, <2>b, <1>a DEF Read, Goto, dbVars, outVars, WillArchive, InTransaction
  <2>7. CASE Refuse(w) \/ Locked(w) \/ Rollback(w)
    <3>1. Undo(w) /\ pc[w] \in InTransaction
      BY <2>7 DEF Refuse, Locked, Rollback, InTransaction
    <3> QED
      BY <3>1, <2>b, <1>a, UndoEffect DEF WillArchive, InTransaction
  <2>8. CASE Write(w)
    BY <2>8, <2>b, <1>a DEF Write, Goto, QueuesArchive, dbVars, outVars, WillArchive,
                            InTransaction
  <2>9. CASE Commit(w)
    <3>1. /\ pc[w] = "written" /\ pc' = [pc EXCEPT ![w] = "md"]
          /\ UNCHANGED <<file, call, intent, drift>>
      BY <2>9 DEF Commit, Goto, outVars
    <3>2. CASE runs[t] = "completed"
      BY <3>1, <3>2, <2>b, <1>a DEF WillArchive, InTransaction
    <3>3. CASE runs[t] # "completed"
      <4>1. t = call[w].task /\ call[w].goal = "completed"
        BY <2>9, <3>3, CommitEffect
      <4>2. call[w].body = "status"
        BY <3>1, <4>1 DEF BodyFits
      <4>3. WillArchive(w, t)'
        BY <3>1, <4>1, <4>2 DEF WillArchive, Archiving, InTransaction
      <4> QED
        BY <4>3
    <3> QED
      BY <3>2, <3>3
  <2>10. ASSUME NEW k \in Derived, Render(w, k) PROVE Kept
    BY <2>10, <2>b, <1>a DEF Render, Goto, dbVars, outVars, WillArchive, InTransaction,
                             Derived
  <2>11. ASSUME NEW k \in Derived, Publish(w, k) PROVE Kept
    BY <2>11, <2>b, <1>a DEF Publish, After, Writing, Goto, dbVars, WillArchive,
                             InTransaction
  <2>12. ASSUME NEW k \in Derived, HookFails(w, k) PROVE Kept
    BY <2>12, <2>b, <1>a DEF HookFails, After, Writing, Goto, dbVars, WillArchive,
                             InTransaction, Derived
  <2>13. CASE Drain(w)
    BY <2>13, <2>b, <1>a DEF Drain, Goto, Movable, dbVars, outVars, WillArchive,
                             InTransaction
  <2>14. CASE Move(w)
    BY <2>14, <2>b, <1>a DEF Move, Goto, dbVars, WillArchive
  <2>15. CASE MoveFails(w)
    BY <2>15, <2>b, <1>a DEF MoveFails, Goto, dbVars, WillArchive
  <2>16. CASE Crash(w)
    BY <2>16, <2>b, <1>a DEF Crash, Goto, dbVars, WillArchive, InTransaction
  <2> QED
    BY <2>1, <2>2, <2>3, <2>4, <2>5, <2>6, <2>7, <2>8, <2>9, <2>10, <2>11,
       <2>12, <2>13, <2>14, <2>15, <2>16
<1> QED
  BY <1>0, <1>1

\* The invariant about worker files holds of every reachable state.
LEMMA FileInvariant == Spec => []FileInv
<1>1. FileInv /\ [Next]_vars => FileInv'
  BY NextWriterInv, NextArchiving, NextCompletedArchived DEF FileInv
<1> QED
  BY <1>1, InitFileInv, PTL DEF Spec

\* Contract I3, one way: the worker file of a completed run is put away,
\* unless a fault lost the move.
THEOREM CompletedArchived == Spec => []CompletedIsArchived
<1>1. FileInv => CompletedIsArchived
  BY DEF FileInv
<1> QED
  BY <1>1, FileInvariant, PTL

\* Contract I3, the other way: only the files of completed runs are put away.
THEOREM ArchivedCompleted == Spec => []ArchivedIsCompleted
<1>1. FileInv => ArchivedIsCompleted
  BY DEF FileInv, Archiving
<1> QED
  BY <1>1, FileInvariant, PTL

\* Contract I3, both ways, for any number of secretaries, tasks and faults.
THEOREM ArchiveFollows == Spec => []ArchiveFollowsStatus
BY CompletedArchived, ArchivedCompleted, PTL DEF ArchiveFollowsStatus

-----------------------------------------------------------------------------
(* What the derived files satisfy                                          *)

\* No snapshot is of the future: this is why a rendering that is overtaken
\* can be told from one that is current.
SeenPast == \A w \in Writers : seen[w] <= version

DerivedInv == TypeOK /\ SeenPast /\ DerivedCatchUp

\* Snapshots are taken of the present, and versions only grow.
LEMMA NextSeenPast == TypeOK /\ SeenPast /\ [Next]_vars => SeenPast'
<1> SUFFICES ASSUME TypeOK, SeenPast, [Next]_vars PROVE SeenPast'
  OBVIOUS
<1>0. CASE UNCHANGED <<seen, version>>
  BY <1>0 DEF SeenPast
<1>1. ASSUME NEW w \in Writers, seen' = [seen EXCEPT ![w] = version], version' = version
      PROVE  SeenPast'
  BY <1>1 DEF SeenPast, TypeOK
<1>2. ASSUME NEW w \in Writers, version' = version + 1, seen' = seen PROVE SeenPast'
  BY <1>2 DEF SeenPast, TypeOK
<1>3. CASE Next
  <2>1. PICK w \in Writers :
           \/ \E t \in Tasks : OpenApply(w, t)
           \/ \E t \in Tasks : OpenDispatch(w, t)
           \/ \E t \in Tasks, s \in Later : OpenStatus(w, t, s)
           \/ \E s \in Later : WriteAgain(w, s)
           \/ Read(w)
           \/ Refuse(w) \/ Locked(w) \/ Rollback(w)
           \/ Write(w)
           \/ Commit(w)
           \/ \E k \in Derived : Render(w, k)
           \/ \E k \in Derived : Publish(w, k)
           \/ \E k \in Derived : HookFails(w, k)
           \/ Drain(w)
           \/ Move(w)
           \/ MoveFails(w)
           \/ Crash(w)
    BY <1>3, NextCases
  <2>2. CASE Read(w) \/ \E k \in Derived : Render(w, k)
    BY <2>2, <1>1 DEF Read, Render, dbVars
  <2>3. CASE Commit(w)
    BY <2>3, <1>2 DEF Commit
  <2> QED
    BY <1>0, <2>1, <2>2, <2>3 DEF OpenApply, OpenDispatch, OpenStatus, Open, WriteAgain,
       Refuse, Locked, Rollback, Undo, Write, Publish, HookFails, Drain, Move, MoveFails,
       Crash, dbVars, outVars
<1> QED
  BY <1>0, <1>3 DEF vars

\* A commit starts a rendering of each file; whoever spoils it is recorded.
LEMMA NextDerivedCatchUp == DerivedInv /\ [Next]_vars => DerivedCatchUp'
<1> SUFFICES ASSUME DerivedInv, [Next]_vars, NEW k \in Derived
             PROVE  \/ shown'[k] = version'
                    \/ excuse'[k]
                    \/ \E x \in Writers : WillShow(x, k)'
  BY DEF DerivedCatchUp
<1> USE DEF DerivedInv, TypeOK
<1> DEFINE Caught == \/ shown[k] = version
                     \/ excuse[k]
                     \/ \E x \in Writers : WillShow(x, k)
           Catches == \/ shown'[k] = version'
                      \/ excuse'[k]
                      \/ \E x \in Writers : WillShow(x, k)'
<1>a. Caught
  BY DEF DerivedCatchUp
<1>0. CASE UNCHANGED vars
  BY <1>0, <1>a DEF vars, WillShow, Owes, Writing
<1>1. CASE Next
  <2>1. PICK w \in Writers :
           \/ \E t \in Tasks : OpenApply(w, t)
           \/ \E t \in Tasks : OpenDispatch(w, t)
           \/ \E t \in Tasks, s \in Later : OpenStatus(w, t, s)
           \/ \E s \in Later : WriteAgain(w, s)
           \/ Read(w)
           \/ Refuse(w) \/ Locked(w) \/ Rollback(w)
           \/ Write(w)
           \/ Commit(w)
           \/ \E j \in Derived : Render(w, j)
           \/ \E j \in Derived : Publish(w, j)
           \/ \E j \in Derived : HookFails(w, j)
           \/ Drain(w)
           \/ Move(w)
           \/ MoveFails(w)
           \/ Crash(w)
    BY <1>1, NextCases
  <2> USE DEF WillShow, Owes, Writing, Derived
  <2>b. ASSUME shown'[k] = shown[k], version' = version, excuse[k] => excuse'[k],
               \A x \in Writers : x # w => pc'[x] = pc[x] /\ seen'[x] = seen[x],
               WillShow(w, k) => WillShow(w, k)' \/ excuse'[k]
        PROVE  Catches
    <3>1. ASSUME NEW x \in Writers, x # w, WillShow(x, k) PROVE WillShow(x, k)'
      BY <2>b, <3>1
    <3> QED
      BY <2>b, <3>1, <1>a
  <2>2. ASSUME NEW t \in Tasks, OpenApply(w, t) PROVE Catches
    BY <2>2, <2>b DEF OpenApply, Open, Goto, dbVars, outVars
  <2>3. ASSUME NEW t \in Tasks, OpenDispatch(w, t) PROVE Catches
    BY <2>3, <2>b DEF OpenDispatch, Open, Goto, dbVars
  <2>4. ASSUME NEW t \in Tasks, NEW s \in Later, OpenStatus(w, t, s) PROVE Catches
    BY <2>4, <2>b DEF OpenStatus, Open, Goto, dbVars, outVars
  <2>5. ASSUME NEW s \in Later, WriteAgain(w, s) PROVE Catches
    <3>1. UNCHANGED <<shown, version, excuse, pc, seen>>
      BY <2>5 DEF WriteAgain, dbVars, outVars
    <3> QED
      BY <3>1, <2>b
  <2>6. CASE Read(w)
    BY <2>6, <2>b DEF Read, Goto, dbVars, outVars
  <2>7. CASE Refuse(w) \/ Locked(w) \/ Rollback(w)
    <3>1. Undo(w) /\ pc[w] \in InTransaction
      BY <2>7 DEF Refuse, Locked, Rollback, InTransaction
    <3> QED
      BY <3>1, <2>b, UndoEffect DEF InTransaction
  <2>8. CASE Write(w)
    BY <2>8, <2>b DEF Write, Goto, dbVars, outVars
  <2>9. CASE Commit(w)
    <3>1. pc'[w] = "md"
      BY <2>9 DEF Commit, Goto
    <3> QED
      BY <3>1
  <2>10. ASSUME NEW j \in Derived, Render(w, j) PROVE Catches
    BY <2>10, <2>b DEF Render, Goto, dbVars, outVars
  <2>11. ASSUME NEW j \in Derived, Publish(w, j) PROVE Catches
    <3>1. /\ pc[w] = Writing(j)
          /\ pc' = [pc EXCEPT ![w] = After(j)]
          /\ shown' = [shown EXCEPT ![j] = seen[w]]
          /\ excuse' = [excuse EXCEPT ![j] =
                          seen[w] # version /\ (excuse[j] \/ shown[j] > seen[w])]
          /\ UNCHANGED <<version, seen>>
      BY <2>11 DEF Publish, Goto, dbVars
    <3>2. CASE j # k
      BY <3>1, <3>2, <2>b DEF After
    <3>3. CASE j = k /\ seen[w] = version
      BY <3>1, <3>3
    <3>4. CASE j = k /\ seen[w] # version
      <4>1. excuse[k] \/ shown[k] > seen[w] => excuse'[k]
        <5>0. (seen[w] # version /\ (excuse[j] \/ shown[j] > seen[w])) \in BOOLEAN
          OBVIOUS
        <5>1. excuse'[j] = (seen[w] # version /\ (excuse[j] \/ shown[j] > seen[w]))
          BY <3>1
        <5> QED
          BY <5>0, <5>1, <3>4
      <4>2. CASE shown[k] = version
        <5>1. seen[w] \in Nat /\ version \in Nat /\ seen[w] <= version
          BY DEF SeenPast
        <5>2. shown[k] > seen[w]
          <6> HIDE DEF DerivedInv, TypeOK, Caught, Catches
          <6> QED
            BY <5>1, <4>2, <3>4
        <5> QED
          BY <4>1, <5>2
      <4>3. ASSUME NEW x \in Writers, WillShow(x, k) PROVE WillShow(x, k)'
        BY <3>1, <3>4, <4>3
      <4> QED
        BY <4>1, <4>2, <4>3, <1>a
    <3> QED
      BY <3>2, <3>3, <3>4
  <2>12. ASSUME NEW j \in Derived, HookFails(w, j) PROVE Catches
    <3>1. /\ pc[w] \in {j, Writing(j)}
          /\ pc' = [pc EXCEPT ![w] = After(j)]
          /\ excuse' = [excuse EXCEPT ![j] = TRUE]
          /\ UNCHANGED <<shown, version, seen>>
      BY <2>12 DEF HookFails, Goto, dbVars
    <3> QED
      BY <3>1, <2>b DEF After
  <2>13. CASE Drain(w)
    BY <2>13, <2>b DEF Drain, Goto, dbVars, outVars
  <2>14. CASE Move(w)
    BY <2>14, <2>b DEF Move, Goto, dbVars
  <2>15. CASE MoveFails(w)
    BY <2>15, <2>b DEF MoveFails, Goto, dbVars
  <2>16. CASE Crash(w)
    <3>1. /\ pc' = [pc EXCEPT ![w] = "idle"]
          /\ excuse'[k] = (excuse[k] \/ Owes(w, k))
          /\ UNCHANGED <<shown, version, seen>>
      BY <2>16 DEF Crash, Goto, dbVars
    <3> QED
      BY <3>1, <2>b
  <2> QED
    BY <2>1, <2>2, <2>3, <2>4, <2>5, <2>6, <2>7, <2>8, <2>9, <2>10, <2>11,
       <2>12, <2>13, <2>14, <2>15, <2>16
<1> QED
  BY <1>0, <1>1

\* Contract I6, as far as it holds: a derived file that is behind will be
\* rendered again by a running hook, or one died or was overtaken.
THEOREM DerivedCaught == Spec => []DerivedCatchUp
<1>1. Init => DerivedInv
  <2>1. Init => SeenPast /\ DerivedCatchUp
    BY DEF Init, SeenPast, DerivedCatchUp
  <2> QED
    BY <2>1, InitTypeOK DEF DerivedInv
<1>2. DerivedInv /\ [Next]_vars => DerivedInv'
  BY NextTypeOK, NextSeenPast, NextDerivedCatchUp DEF DerivedInv
<1>3. DerivedInv => DerivedCatchUp
  BY DEF DerivedInv
<1> QED
  BY <1>1, <1>2, <1>3, PTL DEF Spec

-----------------------------------------------------------------------------
(* The refinement                                                          *)

\* Commits are the Reserve and Change of the table, a move is its Archive, and
\* every other step of a writer is invisible there.
LEMMA NextTable ==
  FileInv /\ SentOncePerRun /\ [Next]_vars => [Table!TNext]_(Table!tableVars)
<1> SUFFICES ASSUME FileInv, SentOncePerRun, [Next]_vars
             PROVE  [Table!TNext]_(Table!tableVars)
  OBVIOUS
<1> DEFINE Sent == {t \in Tasks : sent[t] > 0}
           Archived == {t \in Tasks : file[t] = "archived"}
<1> USE DEF FileInv, WriterInv, TypeOK
<1>1. ASSUME UNCHANGED <<runs, sent>>, Archived' = Archived
      PROVE  [Table!TNext]_(Table!tableVars)
  BY <1>1 DEF Table!tableVars
<1>2. ASSUME NEW w \in Writers, Commit(w) PROVE Table!TNext
  <2> DEFINE t == call[w].task
  <2>1. t \in Tasks /\ runs' = [runs EXCEPT ![t] = call[w].goal] /\ file' = file
    BY <1>2, CommitEffect DEF Commit, outVars
  <2>2. CASE /\ runs[t] \in {"none", "queued"} /\ call[w].goal = "queued"
             /\ sent' = [sent EXCEPT ![t] = @ + NewEvents(t)]
    <3>1. Sent' = Sent \union {t}
      BY <2>1, <2>2 DEF NewEvents
    <3> QED
      BY <2>1, <2>2, <3>1 DEF Table!TNext, Table!Reserve
  <2>3. CASE /\ runs[t] \in {"queued", "in_use", "review", "abandoned"}
             /\ call[w].goal \in Later /\ sent' = sent
    <3>1. t \in Sent
      BY <2>1, <2>3 DEF SentOncePerRun
    <3> QED
      BY <2>1, <2>3, <3>1 DEF Table!TNext, Table!Change
  <2> QED
    BY <1>2, <2>2, <2>3, CommitEffect
<1>3. ASSUME NEW w \in Writers, Move(w) PROVE Table!TNext
  <2>1. /\ call[w].task \in Tasks /\ runs[call[w].task] = "completed"
        /\ file' = [file EXCEPT ![call[w].task] = "archived"]
        /\ UNCHANGED <<runs, sent>>
    BY <1>3 DEF Move, dbVars, Archiving
  <2>2. Archived' = Archived \union {call[w].task}
    BY <2>1
  <2> QED
    BY <2>1, <2>2 DEF Table!TNext, Table!Archive
<1>4. ASSUME NEW w \in Writers, NEW t \in Tasks, OpenDispatch(w, t)
      PROVE  [Table!TNext]_(Table!tableVars)
  <2>1. /\ runs[t] = "queued" /\ file' = [file EXCEPT ![t] = "live"]
        /\ UNCHANGED <<runs, sent>>
    BY <1>4 DEF OpenDispatch, dbVars
  <2>2. Archived' = Archived
    BY <2>1 DEF Archiving, ArchivedIsCompleted
  <2> QED
    BY <1>1, <2>1, <2>2
<1>5. CASE UNCHANGED vars
  BY <1>1, <1>5 DEF vars
<1>6. CASE Next
  <2>1. PICK w \in Writers :
           \/ \E t \in Tasks : OpenApply(w, t)
           \/ \E t \in Tasks : OpenDispatch(w, t)
           \/ \E t \in Tasks, s \in Later : OpenStatus(w, t, s)
           \/ \E s \in Later : WriteAgain(w, s)
           \/ Read(w)
           \/ Refuse(w) \/ Locked(w) \/ Rollback(w)
           \/ Write(w)
           \/ Commit(w)
           \/ \E k \in Derived : Render(w, k)
           \/ \E k \in Derived : Publish(w, k)
           \/ \E k \in Derived : HookFails(w, k)
           \/ Drain(w)
           \/ Move(w)
           \/ MoveFails(w)
           \/ Crash(w)
    BY <1>6, NextCases
  <2>2. CASE UNCHANGED <<runs, sent, file>>
    BY <1>1, <2>2
  <2> QED
    BY <1>2, <1>3, <1>4, <2>1, <2>2 DEF OpenApply, OpenStatus, WriteAgain, Read, Refuse,
       Locked, Rollback, Undo, Write, Render, Publish, HookFails, Drain, MoveFails, Crash,
       dbVars, outVars
<1> QED
  BY <1>5, <1>6

\* The transactions, locks, hooks and crashes of the writers implement the
\* table of runs.
THEOREM WriterImplementsTable == Spec => ImplementsRunTable
<1>1. Init => Table!TInit
  BY DEF Init, Table!TInit
<1>2. Spec => [](FileInv /\ SentOncePerRun)
  BY FileInvariant, SentOnce, PTL
<1> QED
  BY <1>1, <1>2, NextTable, PTL DEF Spec, ImplementsRunTable, Table!TSpec
=============================================================================
