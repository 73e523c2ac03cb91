------------------------- MODULE OutboxRelayProofs -------------------------
(***************************************************************************)
(* Theorems about the outbox relay, for any recipients, any number of      *)
(* dispatcher sessions, any limit, any number of events and faults.        *)
(***************************************************************************)
EXTENDS OutboxRelay, WellFoundedInduction, SequenceTheorems, FiniteSetTheorems, TLAPS

\* The lowest id of a batch is in the batch.
LEMMA LowestIsIn ==
  ASSUME NEW S \in SUBSET Ids, S # {}
  PROVE  Lowest(S) \in S
<1>1. S \in SUBSET Nat
  BY ConstantsAssumption DEF Ids
<1>2. PICK n \in S : \A m \in S : ~ (<<m, n>> \in OpToRel(<, Nat))
  BY <1>1, NatLessThanWellFounded, WFMin, Zenon
<1>3. ASSUME NEW m \in S PROVE n <= m
  <2>1. m \in Nat /\ n \in Nat
    BY <1>1
  <2>2. <<m, n>> \in OpToRel(<, Nat) <=> m < n
    BY <2>1 DEF OpToRel
  <2>3. ~ (m < n)
    BY <1>2, <2>2, Zenon
  <2> QED
    BY <2>1, <2>3
<1> QED
  BY <1>3 DEF Lowest

\* The part of the state an agent between two commands relies on: a session
\* that is relaying has something to relay.
Busy == \A d \in Dispatchers :
          pc[d] \in {"relay", "confirm", "refuse"} => rows[d] # {}

\* TypeOK is preserved only together with Busy: CurrentRow of an empty batch
\* would be no row.
TypeInv == TypeOK /\ Busy

\* The initial ledger, log and heartbeats are well typed.
LEMMA InitTypeInv == Init => TypeInv
<1> SUFFICES ASSUME Init PROVE TypeInv
  OBVIOUS
<1>1. events \in Seq(EventClass) /\ Len(events) <= MaxEvents
  <2>1. <<>> \in Seq(EventClass) /\ <<"legacy">> \in Seq(EventClass)
    BY EmptySeq DEF EventClass
  <2> QED
    BY <2>1 DEF Init
<1>2. heartbeat \in [Recipients -> Trace]
  BY ConstantsAssumption DEF Init, Trace, NoTrace
<1>3. ledger \in [Recipients -> [Ids -> Row]]
  BY DEF Init, Row, NoRow
<1> QED
  BY <1>1, <1>2, <1>3, ConstantsAssumption DEF Init, TypeInv, TypeOK, Busy, Steps

\* What Settle needs and keeps, for both outcomes.
LEMMA SettleTypeInv ==
  ASSUME TypeInv, NEW d \in Dispatchers, pc[d] \in {"confirm", "refuse"},
         NEW outcome \in Row, Settle(d, outcome)
  PROVE  TypeInv'
<1>1. Serves[d] \in Recipients
  BY ConstantsAssumption
<1>2. Lowest(rows[d]) \in Ids /\ Lowest(rows[d]) \in rows[d]
  BY LowestIsIn DEF TypeInv, TypeOK, Busy
<1>3. ledger' \in [Recipients -> [Ids -> Row]]
  BY <1>1, <1>2 DEF Settle, TypeInv, TypeOK
<1>4. rows' \in [Dispatchers -> SUBSET Ids]
  BY DEF Settle, TypeInv, TypeOK
<1>5. pc' \in [Dispatchers -> Steps]
  BY DEF Settle, Goto, TypeInv, TypeOK, Steps
<1>6. Busy'
  BY <1>2 DEF Settle, Goto, TypeInv, TypeOK, Busy
<1> QED
  BY <1>3, <1>4, <1>5, <1>6 DEF Settle, TypeInv, TypeOK

\* The traces the steps write are traces.
LEMMA TraceType ==
  ASSUME NEW trace \in Trace
  PROVE  /\ NoTrace \in Trace
         /\ Stamp(trace) \in Trace
         /\ Older(trace) \in Trace
         /\ \A b \in BOOLEAN : [trace EXCEPT !.halted = b] \in Trace
<1>1. NoTrace \in Trace /\ Stamp(trace) \in Trace
  BY ConstantsAssumption DEF NoTrace, Stamp, Trace
<1>2. Older(trace) \in Trace
  BY ConstantsAssumption DEF Older, Trace
<1>3. \A b \in BOOLEAN : [trace EXCEPT !.halted = b] \in Trace
  BY DEF Trace
<1> QED
  BY <1>1, <1>2, <1>3

\* The entry that stands for none is one, whatever the state.
LEMMA NoTraceType == NoTrace \in Trace
  BY ConstantsAssumption DEF NoTrace, Trace

\* A session may have seen no event.
LEMMA ZeroEvents == 0 \in 0..MaxEvents
  BY ConstantsAssumption

\* A report clears the exit code and at most one outage.
LEMMA ReportType ==
  ASSUME TypeOK, NEW d \in Dispatchers, Report(d)
  PROVE  exit' \in [Dispatchers -> {0, 2, 10}] /\ missed' \in [Recipients -> BOOLEAN]
  BY DEF Report, TypeOK

\* The heartbeat and the fault counter after an attempt to write the file.
LEMMA PersistType ==
  ASSUME TypeOK, NEW r \in Recipients, NEW trace \in Trace, NEW ok \in BOOLEAN,
         Persist(r, trace, ok)
  PROVE  heartbeat' \in [Recipients -> Trace] /\ faults' \in 0..MaxFaults
<1>1. CASE ok
  BY <1>1 DEF Persist, TypeOK
<1>2. CASE ~ok
  BY <1>2, ConstantsAssumption DEF Persist, Fault, TypeOK
<1> QED
  BY <1>1, <1>2

\* Every step of a session, of the log and of the clock keeps the types.
LEMMA NextTypeInv ==
  TypeInv /\ [Next]_vars => TypeInv'
<1> SUFFICES ASSUME TypeInv, [Next]_vars PROVE TypeInv'
  OBVIOUS
<1> USE DEF TypeInv
<1>0. CASE UNCHANGED vars
  BY <1>0 DEF vars, sessionVars, TypeOK, Busy
<1>1. CASE AppendEvent
  <2>1. events' \in Seq(EventClass) /\ Len(events') <= MaxEvents
    BY <1>1, AppendProperties, ConstantsAssumption DEF AppendEvent, TypeOK, EventClass
  <2> QED
    BY <1>1, <2>1 DEF AppendEvent, sessionVars, TypeOK, Busy
<1>2. CASE HeartbeatLost
  <2>1. heartbeat' \in [Recipients -> Trace]
    BY <1>2, ConstantsAssumption DEF HeartbeatLost, NoTrace, Trace
  <2>2. faults' \in 0..MaxFaults
    BY <1>2, ConstantsAssumption DEF HeartbeatLost, Fault, TypeOK
  <2> QED
    BY <1>2, <2>1, <2>2 DEF HeartbeatLost, sessionVars, TypeOK, Busy
<1>3. CASE Tick
  <2>1. heartbeat' \in [Recipients -> Trace]
    BY <1>3, TraceType DEF Tick, TypeOK
  <2>2. missed' \in [Recipients -> BOOLEAN]
    BY <1>3 DEF Tick, Outage, OutageShows, TypeOK
  <2>3. seen' \in [Dispatchers -> Trace]
    BY <1>3, TraceType DEF Tick, TypeOK
  <2> QED
    BY <1>3, <2>1, <2>2, <2>3 DEF Tick, TypeOK, Busy
<1>4. ASSUME NEW d \in Dispatchers, Audit(d) \/ ClearHalted(d) PROVE TypeInv'
  <2>1. exit' \in [Dispatchers -> {0, 2, 10}]
    BY <1>4 DEF Audit, ClearHalted, TypeOK
  <2>2. seen' \in [Dispatchers -> Trace]
    BY <1>4, ConstantsAssumption DEF Audit, ClearHalted, TypeOK
  <2>3. pc' \in [Dispatchers -> Steps] /\ Busy'
    BY <1>4 DEF Audit, ClearHalted, At, Goto, TypeOK, Steps, Busy
  <2> QED
    BY <1>4, <2>1, <2>2, <2>3 DEF Audit, ClearHalted, TypeOK
<1>5. ASSUME NEW d \in Dispatchers, Scan(d) \/ List(d) PROVE TypeInv'
  <2> DEFINE r == Serves[d]
  <2>0. ListPage(d)
    BY <1>5 DEF Scan, List
  <2>1. r \in Recipients /\ Stamp(heartbeat[r]) \in Trace
    BY ConstantsAssumption, TraceType DEF TypeOK
  <2>2. PICK ok \in BOOLEAN : Persist(r, Stamp(heartbeat[r]), ok)
    BY <2>0 DEF ListPage
  <2>3. heartbeat' \in [Recipients -> Trace] /\ faults' \in 0..MaxFaults
    BY <2>1, <2>2, PersistType
  <2>4. \A backfill \in BOOLEAN : Page(Pending(r, backfill)) \subseteq Ids
    BY ConstantsAssumption DEF Page, Pending, TypeOK, Ids
  <2>5. rows' \in [Dispatchers -> SUBSET Ids]
    BY <2>0, <2>4, ConstantsAssumption DEF ListPage, TypeOK
  <2>6. pc' \in [Dispatchers -> Steps] /\ Busy'
    BY <2>0 DEF ListPage, Goto, TypeOK, Steps, Busy
  <2>7. missed' \in [Recipients -> BOOLEAN]
    BY <1>5 DEF Scan, List, TypeOK
  <2> QED
    BY <1>5, <2>0, <2>3, <2>5, <2>6, <2>7 DEF Scan, List, ListPage, TypeOK
<1>6. ASSUME NEW d \in Dispatchers, BeginAttempts(d) PROVE TypeInv'
  <2>1. Serves[d] \in Recipients
    BY ConstantsAssumption
  <2>2. \A row \in Row : Attempted(row) \in Row
    BY DEF Attempted, Row
  <2>3. ledger' \in [Recipients -> [Ids -> Row]]
    BY <1>6, <2>1, <2>2 DEF BeginAttempts, TypeOK
  <2>4. pc' \in [Dispatchers -> Steps] /\ Busy'
    BY <1>6 DEF BeginAttempts, At, Goto, TypeOK, Steps, Busy
  <2>5. exit' \in [Dispatchers -> {0, 2, 10}] /\ missed' \in [Recipients -> BOOLEAN]
    BY <1>6, ReportType DEF BeginAttempts
  <2> QED
    BY <1>6, <2>3, <2>4, <2>5 DEF BeginAttempts, TypeOK
<1>7. ASSUME NEW d \in Dispatchers, SendOk(d) PROVE TypeInv'
  <2>1. Serves[d] \in Recipients
    BY ConstantsAssumption
  <2>2. Lowest(rows[d]) \in Ids
    BY <1>7, LowestIsIn DEF SendOk, At, TypeOK, Busy
  <2>3. inbox' \in [Recipients -> [Ids -> Nat]]
    BY <1>7, <2>1, <2>2 DEF SendOk, TypeOK
  <2>4. pc' \in [Dispatchers -> Steps] /\ Busy'
    BY <1>7 DEF SendOk, At, Goto, TypeOK, Steps, Busy
  <2> QED
    BY <1>7, <2>3, <2>4 DEF SendOk, TypeOK
<1>8. ASSUME NEW d \in Dispatchers, MarkDelivered(d) \/ MarkFailed(d) PROVE TypeInv'
  <2>0. Serves[d] \in Recipients /\ Lowest(rows[d]) \in Ids
    BY <1>8, LowestIsIn, ConstantsAssumption DEF MarkDelivered, MarkFailed, At, TypeOK, Busy
  <2>1. CurrentRow(d) \in Row
    BY <2>0 DEF CurrentRow, TypeOK
  <2>2. Delivered(CurrentRow(d)) \in Row /\ Failed(CurrentRow(d)) \in Row
    BY <2>1 DEF Delivered, Failed, Row
  <2> QED
    BY <1>8, <2>2, SettleTypeInv DEF MarkDelivered, MarkFailed, At
<1>9. ASSUME NEW d \in Dispatchers, HaltWrite(d) \/ SpendHalt(d) PROVE TypeInv'
  <2>1. PICK halted \in BOOLEAN, ok \in BOOLEAN :
          Persist(Serves[d], [seen[d] EXCEPT !.halted = halted], ok)
    BY <1>9 DEF HaltWrite, SpendHalt
  <2>2. Serves[d] \in Recipients /\ [seen[d] EXCEPT !.halted = halted] \in Trace
    BY ConstantsAssumption, TraceType DEF TypeOK
  <2>3. heartbeat' \in [Recipients -> Trace] /\ faults' \in 0..MaxFaults
    BY <2>1, <2>2, PersistType
  <2>4. pc' \in [Dispatchers -> Steps] /\ Busy'
    BY <1>9 DEF HaltWrite, SpendHalt, At, Goto, TypeOK, Steps, Busy
  <2>5. seen' \in [Dispatchers -> Trace] /\ exit' \in [Dispatchers -> {0, 2, 10}]
    BY <1>9, NoTraceType DEF HaltWrite, SpendHalt, TypeOK
  <2>6. cleared' \in [Dispatchers -> 0..MaxEvents]
    BY <1>9, ZeroEvents DEF HaltWrite, SpendHalt, TypeOK
  <2> QED
    BY <1>9, <2>3, <2>4, <2>5, <2>6 DEF HaltWrite, SpendHalt, TypeOK
<1>10. ASSUME NEW d \in Dispatchers, HaltCheck(d) PROVE TypeInv'
  <2>1. cleared' \in [Dispatchers -> 0..MaxEvents]
    <3>1. Len(events) \in 0..MaxEvents
      BY LenProperties, ConstantsAssumption DEF TypeOK
    <3> QED
      BY <1>10, <3>1 DEF HaltCheck, TypeOK
  <2>2. pc' \in [Dispatchers -> Steps] /\ Busy'
    BY <1>10 DEF HaltCheck, At, Goto, TypeOK, Steps, Busy
  <2> QED
    BY <1>10, <2>1, <2>2 DEF HaltCheck, TypeOK
<1>11. ASSUME NEW d \in Dispatchers,
              \/ AuditFails(d) \/ AuditReturns(d) \/ ListFails(d) \/ SendFails(d)
              \/ HaltRead(d) \/ HaltFails(d) \/ Die(d) \/ Resume(d)
       PROVE  TypeInv'
  <2>1. pc' \in [Dispatchers -> Steps] /\ Busy'
    BY <1>11 DEF AuditFails, AuditReturns, ListFails, SendFails, HaltRead, HaltFails, Die,
                 Resume, At, Goto, TypeOK, Steps, Busy
  <2>2. rows' \in [Dispatchers -> SUBSET Ids] /\ cleared' \in [Dispatchers -> 0..MaxEvents]
    <3>1. CASE Die(d)
      BY <3>1, ZeroEvents DEF Die, TypeOK
    <3>2. CASE ListFails(d)
      BY <3>2 DEF ListFails, TypeOK
    <3>3. CASE UNCHANGED <<rows, cleared>>
      BY <3>3 DEF TypeOK
    <3> QED
      BY <1>11, <3>1, <3>2, <3>3
      DEF AuditFails, AuditReturns, SendFails, HaltRead, HaltFails, Resume
  <2>3. exit' \in [Dispatchers -> {0, 2, 10}] /\ missed' \in [Recipients -> BOOLEAN]
    <3>1. CASE Report(d)
      BY <3>1, ReportType
    <3>2. CASE ~Report(d)
      BY <1>11, <3>2
      DEF AuditFails, AuditReturns, ListFails, SendFails, HaltRead, HaltFails, Die, Resume, TypeOK
    <3> QED
      BY <3>1, <3>2
  <2>4. seen' \in [Dispatchers -> Trace]
    BY <1>11, NoTraceType, ConstantsAssumption
    DEF AuditFails, AuditReturns, ListFails, SendFails, HaltRead, HaltFails, Die, Resume, TypeOK
  <2>5. faults' \in 0..MaxFaults
    BY <1>11, ConstantsAssumption
    DEF AuditFails, AuditReturns, ListFails, SendFails, HaltRead, HaltFails, Die, Resume,
        Fault, TypeOK
  <2>6. UNCHANGED <<events, ledger, heartbeat, inbox>>
    BY <1>11
    DEF AuditFails, AuditReturns, ListFails, SendFails, HaltRead, HaltFails, Die, Resume
  <2> QED
    BY <2>1, <2>2, <2>3, <2>4, <2>5, <2>6 DEF TypeOK
<1> QED
  BY <1>0, <1>1, <1>2, <1>3, <1>4, <1>5, <1>6, <1>7, <1>8, <1>9, <1>10, <1>11
  DEF Next, Work, Other

\* In every reachable state every variable has its type: in particular no
\* cycle ever marks or sends for an empty batch.
THEOREM TypeCorrect == Spec => []TypeOK
<1>1. Spec => []TypeInv
  BY InitTypeInv, NextTypeInv, PTL DEF Spec
<1> QED
  BY <1>1, PTL DEF TypeInv

-----------------------------------------------------------------------------
(* The steps that neither write the ledger nor send.                       *)

Quiet(d) == \/ Audit(d) \/ ClearHalted(d) \/ SpendHalt(d) \/ AuditFails(d) \/ AuditReturns(d)
            \/ Scan(d) \/ List(d) \/ ListFails(d) \/ SendFails(d)
            \/ HaltCheck(d) \/ HaltRead(d) \/ HaltWrite(d) \/ HaltFails(d)
            \/ Die(d) \/ Resume(d)

\* What such a step of session d leaves alone, and where it can lead.
LEMMA QuietSteps ==
  ASSUME TypeInv, NEW d \in Dispatchers, Quiet(d)
  PROVE  /\ UNCHANGED <<events, ledger, inbox>>
         /\ \A e \in Dispatchers \ {d} : pc'[e] = pc[e] /\ rows'[e] = rows[e] /\ exit'[e] = exit[e]
         /\ \/ pc'[d] \notin {"relay", "confirm", "refuse"}
            \/ pc'[d] = "refuse" /\ pc[d] = "relay" /\ rows'[d] = rows[d]
<1> USE DEF TypeInv, TypeOK, Goto, At
<1>1. CASE Audit(d) \/ ClearHalted(d) \/ SpendHalt(d) \/ AuditFails(d) \/ AuditReturns(d)
  BY <1>1 DEF Audit, ClearHalted, SpendHalt, AuditFails, AuditReturns, Report
<1>2. CASE Scan(d) \/ List(d) \/ ListFails(d) \/ SendFails(d)
  BY <1>2 DEF Scan, List, ListPage, ListFails, SendFails, Report
<1>3. CASE HaltCheck(d) \/ HaltRead(d) \/ HaltWrite(d) \/ HaltFails(d) \/ Die(d) \/ Resume(d)
  BY <1>3 DEF HaltCheck, HaltRead, HaltWrite, HaltFails, Die, Resume
<1> QED
  BY <1>1, <1>2, <1>3 DEF Quiet

-----------------------------------------------------------------------------
(* The ledger tells the truth.                                             *)

\* A session about to record a delivery has sent that very event.
SentBeforeMark ==
  \A d \in Dispatchers :
    pc[d] = "confirm" => inbox[Serves[d]][Lowest(rows[d])] > 0

TruthInv == TypeInv /\ SentBeforeMark /\ DeliveredWasReceived

\* Nothing is marked delivered, and nothing was received, at the start.
LEMMA InitTruth == Init => TruthInv
  BY InitTypeInv DEF Init, TruthInv, SentBeforeMark, DeliveredWasReceived, NoRow

\* Steps that leave the ledger and the inboxes alone, give no session a new
\* batch to confirm, and change no batch that is being confirmed.
LEMMA QuietStepTruth ==
  ASSUME TruthInv, TypeInv', UNCHANGED <<ledger, inbox>>,
         \A d \in Dispatchers :
           pc'[d] = "confirm" => pc[d] = "confirm" /\ rows'[d] = rows[d]
  PROVE  TruthInv'
  BY DEF TruthInv, SentBeforeMark, DeliveredWasReceived

\* Only SendOk lets a session reach the step that marks a row delivered, and
\* what was received stays received.
LEMMA NextTruth == TruthInv /\ [Next]_vars => TruthInv'
<1> SUFFICES ASSUME TruthInv, [Next]_vars PROVE TruthInv'
  OBVIOUS
<1>0. TypeInv'
  BY NextTypeInv DEF TruthInv
<1> USE <1>0
<1>1. CASE UNCHANGED vars
  BY <1>1, QuietStepTruth DEF vars, sessionVars
<1>2. CASE AppendEvent \/ HeartbeatLost \/ Tick
  BY <1>2, QuietStepTruth DEF AppendEvent, HeartbeatLost, Tick, sessionVars
<1>3. ASSUME NEW d \in Dispatchers, Quiet(d) PROVE TruthInv'
  <2>1. UNCHANGED <<ledger, inbox>>
    BY <1>3, QuietSteps DEF TruthInv
  <2>2. \A e \in Dispatchers :
          pc'[e] = "confirm" => pc[e] = "confirm" /\ rows'[e] = rows[e]
    <3>1. \A e \in Dispatchers \ {d} : pc'[e] = pc[e] /\ rows'[e] = rows[e]
      BY <1>3, QuietSteps DEF TruthInv
    <3>2. pc'[d] # "confirm"
      BY <1>3, QuietSteps DEF TruthInv
    <3> QED
      BY <3>1, <3>2
  <2> QED
    BY <2>1, <2>2, QuietStepTruth
<1>4. ASSUME NEW d \in Dispatchers, BeginAttempts(d) PROVE TruthInv'
  <2>1. Serves[d] \in Recipients
    BY ConstantsAssumption
  <2>2. \A r \in Recipients, i \in Ids :
          ledger'[r][i].status = "delivered" => ledger[r][i].status = "delivered"
    BY <1>4, <2>1 DEF BeginAttempts, Attempted, TruthInv, TypeInv, TypeOK
  <2>3. DeliveredWasReceived'
    BY <1>4, <2>2 DEF BeginAttempts, TruthInv, DeliveredWasReceived
  <2>4. SentBeforeMark'
    BY <1>4 DEF BeginAttempts, Goto, TruthInv, SentBeforeMark, TypeInv, TypeOK
  <2> QED
    BY <2>3, <2>4 DEF TruthInv
<1>5. ASSUME NEW d \in Dispatchers, SendOk(d) PROVE TruthInv'
  <2> DEFINE i == Lowest(rows[d])
  <2>1. Serves[d] \in Recipients /\ i \in Ids
    BY <1>5, LowestIsIn, ConstantsAssumption DEF SendOk, At, TruthInv, TypeInv, TypeOK, Busy
  <2>2. /\ inbox'[Serves[d]][i] > 0
        /\ \A r \in Recipients, j \in Ids : inbox'[r][j] >= inbox[r][j]
    BY <1>5, <2>1 DEF SendOk, TruthInv, TypeInv, TypeOK
  <2>3. DeliveredWasReceived'
    BY <1>5, <2>2 DEF SendOk, TruthInv, DeliveredWasReceived, TypeInv, TypeOK
  <2>4. ASSUME NEW e \in Dispatchers, pc'[e] = "confirm"
        PROVE  inbox'[Serves[e]][Lowest(rows'[e])] > 0
    <3>1. rows'[e] = rows[e]
      BY <1>5 DEF SendOk
    <3>2. CASE e = d
      BY <2>2, <3>1, <3>2
    <3>3. CASE e # d
      <4>1. pc[e] = "confirm"
        BY <1>5, <2>4, <3>3 DEF SendOk, Goto, TruthInv, TypeInv, TypeOK
      <4>2. Lowest(rows[e]) \in Ids /\ Serves[e] \in Recipients
        BY <4>1, LowestIsIn, ConstantsAssumption DEF TruthInv, TypeInv, TypeOK, Busy
      <4>3. inbox[Serves[e]][Lowest(rows[e])] \in Nat /\ inbox'[Serves[e]][Lowest(rows[e])] \in Nat
        BY <4>2 DEF TruthInv, TypeInv, TypeOK
      <4> QED
        BY <2>2, <3>1, <4>1, <4>2, <4>3 DEF TruthInv, SentBeforeMark
    <3> QED
      BY <3>2, <3>3
  <2> QED
    BY <2>3, <2>4 DEF TruthInv, SentBeforeMark
<1>6. ASSUME NEW d \in Dispatchers, MarkDelivered(d) \/ MarkFailed(d) PROVE TruthInv'
  <2> DEFINE i == Lowest(rows[d])
             row == ledger[Serves[d]][i]
  <2>1. Serves[d] \in Recipients /\ i \in Ids
    BY <1>6, LowestIsIn, ConstantsAssumption
    DEF MarkDelivered, MarkFailed, At, TruthInv, TypeInv, TypeOK, Busy
  <2>2. PICK outcome \in {Delivered(row), Failed(row)} :
          Settle(d, outcome) /\ (pc[d] = "confirm" \/ outcome = Failed(row))
    BY <1>6 DEF MarkDelivered, MarkFailed, CurrentRow, At
  <2>3. \/ inbox[Serves[d]][i] > 0
        \/ outcome.status = "delivered" => row.status = "delivered"
    BY <2>2 DEF Failed, TruthInv, SentBeforeMark
  <2>4. DeliveredWasReceived'
    BY <2>1, <2>2, <2>3 DEF Settle, TruthInv, DeliveredWasReceived, TypeInv, TypeOK
  <2>5. SentBeforeMark'
    BY <2>2 DEF Settle, Goto, TruthInv, SentBeforeMark, TypeInv, TypeOK
  <2> QED
    BY <2>4, <2>5 DEF TruthInv
<1> QED
  BY <1>1, <1>2, <1>3, <1>4, <1>5, <1>6 DEF Next, Work, Other, Quiet

\* Whatever sessions overlap, die or retry, the ledger never says delivered of
\* an event its recipient was not told about.
THEOREM LedgerTellsTruth == Spec => []DeliveredWasReceived
<1>1. Spec => []TruthInv
  BY InitTruth, NextTruth, PTL DEF Spec
<1> QED
  BY <1>1, PTL DEF TruthInv

-----------------------------------------------------------------------------
(* The relay implements the delivery contract.                             *)

\* What a session deals with are events of the table.
RowsAreLogged == \A d \in Dispatchers : rows[d] \subseteq 1..Len(events)

\* Only events of the log get a row in the ledger.
LEMMA NextRowsAreLogged ==
  TypeInv /\ RowsAreLogged /\ [Next]_vars => RowsAreLogged'
<1> SUFFICES ASSUME TypeInv, RowsAreLogged, [Next]_vars PROVE RowsAreLogged'
  OBVIOUS
<1> USE DEF TypeInv, RowsAreLogged
<1>1. CASE AppendEvent
  <2>1. PICK class \in {"terminal", "other"} : events' = Append(events, class)
    BY <1>1 DEF AppendEvent
  <2>2. Len(events') = Len(events) + 1 /\ Len(events) \in Nat
    BY <2>1, AppendProperties, LenProperties DEF TypeOK, EventClass
  <2> QED
    BY <1>1, <2>2 DEF AppendEvent, sessionVars
<1>2. ASSUME NEW d \in Dispatchers, Scan(d) \/ List(d) PROVE RowsAreLogged'
  <2>1. \A backfill : Page(Pending(Serves[d], backfill)) \subseteq 1..Len(events)
    BY DEF Page, Pending
  <2>2. PICK backfill \in Backfills :
          rows' = [rows EXCEPT ![d] = Page(Pending(Serves[d], backfill))]
    BY <1>2 DEF Scan, List, ListPage
  <2>3. events' = events
    BY <1>2 DEF Scan, List, ListPage
  <2> QED
    BY <2>1, <2>2, <2>3 DEF TypeOK
<1>3. ASSUME NEW d \in Dispatchers, MarkDelivered(d) \/ MarkFailed(d)
      PROVE  RowsAreLogged'
  <2>1. events' = events /\ rows' = [rows EXCEPT ![d] = @ \ {Lowest(rows[d])}]
    BY <1>3 DEF MarkDelivered, MarkFailed, Settle
  <2> QED
    BY <2>1 DEF TypeOK
<1>4. ASSUME NEW d \in Dispatchers, ListFails(d) \/ Die(d) PROVE RowsAreLogged'
  BY <1>4 DEF ListFails, Die, TypeOK
<1>5. CASE UNCHANGED <<events, rows>>
  BY <1>5
<1> QED
  BY <1>1, <1>2, <1>3, <1>4, <1>5
  DEF Next, Work, Other, vars, sessionVars, HeartbeatLost, Tick, Audit, ClearHalted, SpendHalt,
      AuditFails, AuditReturns, BeginAttempts, SendOk, HaltRead, HaltWrite, HaltCheck, HaltFails,
      SendFails, Resume

ContractInv == TruthInv /\ RowsAreLogged

\* What the refinement relies on holds of every reachable state.
LEMMA ContractInvariant == Spec => []ContractInv
<1>1. Init => ContractInv
  BY InitTruth DEF Init, ContractInv, RowsAreLogged
<1>2. ContractInv /\ [Next]_vars => ContractInv'
  BY NextTruth, NextRowsAreLogged DEF ContractInv, TruthInv
<1> QED
  BY <1>1, <1>2, PTL DEF Spec

\* An empty ledger is a contract with nothing settled.
LEMMA InitContract == ContractInv /\ Init => Contract!CInit
<1> SUFFICES ASSUME ContractInv, Init PROVE Contract!CInit
  OBVIOUS
<1>1. 1..Len(events) \subseteq Ids
  BY LenProperties, ConstantsAssumption DEF ContractInv, TruthInv, TypeInv, TypeOK, Ids
<1>2. [r \in Recipients |-> {i \in Ids : inbox[r][i] > 0}] = [r \in Recipients |-> {}]
  BY DEF Init
<1>3. [r \in Recipients |-> {i \in Ids : ledger[r][i].status = "delivered"}]
        = [r \in Recipients |-> {}]
  BY DEF Init, NoRow
<1> QED
  BY <1>1, <1>2, <1>3 DEF Contract!CInit

\* Every step is a step of the delivery contract, or invisible to it.
LEMMA NextContract ==
  ContractInv /\ ContractInv' /\ [Next]_vars
    => [Contract!CNext]_(Contract!contractVars)
<1> DEFINE Logged == 1..Len(events)
           Received == [r \in Recipients |-> {i \in Ids : inbox[r][i] > 0}]
           Settled == [r \in Recipients |->
                         {i \in Ids : ledger[r][i].status = "delivered"}]
<1> SUFFICES ASSUME ContractInv, ContractInv', [Next]_vars
             PROVE  [Contract!CNext]_(Contract!contractVars)
  OBVIOUS
<1> USE DEF ContractInv, TruthInv, TypeInv
<1>1. CASE UNCHANGED <<events, ledger, inbox>>
  BY <1>1 DEF Contract!contractVars
<1>2. CASE AppendEvent
  <2>1. PICK class \in {"terminal", "other"} : events' = Append(events, class)
    BY <1>2 DEF AppendEvent
  <2>2. Len(events') = Len(events) + 1 /\ Len(events) \in Nat
    BY <2>1, AppendProperties, LenProperties DEF TypeOK, EventClass
  <2>3. /\ Len(events) + 1 \in Ids \ Logged
        /\ Logged' = Logged \union {Len(events) + 1}
    BY <1>2, <2>2, ConstantsAssumption DEF AppendEvent, Ids, TypeOK
  <2>4. Received' = Received /\ Settled' = Settled
    BY <1>2 DEF AppendEvent
  <2> QED
    BY <2>3, <2>4 DEF Contract!CNext, Contract!Log
<1>3. ASSUME NEW d \in Dispatchers, BeginAttempts(d)
      PROVE  UNCHANGED Contract!contractVars
  <2>1. Serves[d] \in Recipients
    BY ConstantsAssumption
  <2>2. \A r \in Recipients, i \in Ids :
          ledger'[r][i].status = "delivered" <=> ledger[r][i].status = "delivered"
    BY <1>3, <2>1 DEF BeginAttempts, Attempted, TypeOK
  <2>3. Settled' = Settled
    BY <2>2
  <2> QED
    BY <1>3, <2>3 DEF BeginAttempts, Contract!contractVars
<1>4. ASSUME NEW d \in Dispatchers, SendOk(d) PROVE Contract!CNext
  <2> DEFINE r == Serves[d]
             i == Lowest(rows[d])
  <2>1. r \in Recipients /\ i \in Ids /\ i \in Logged
    BY <1>4, LowestIsIn, ConstantsAssumption
    DEF SendOk, At, TypeOK, Busy, RowsAreLogged
  <2>2. \A q \in Recipients, j \in Ids :
          inbox'[q][j] = IF q = r /\ j = i THEN inbox[q][j] + 1 ELSE inbox[q][j]
    BY <1>4, <2>1 DEF SendOk, TypeOK
  <2>3. Received' = [Received EXCEPT ![r] = @ \union {i}]
    <3>1. \A q \in Recipients, j \in Ids :
            inbox'[q][j] > 0 <=> (inbox[q][j] > 0 \/ (q = r /\ j = i))
      BY <2>2 DEF TypeOK
    <3>2. \A q \in Recipients :
            Received'[q] = IF q = r THEN Received[q] \union {i} ELSE Received[q]
      BY <2>1, <3>1
    <3>3. Received' = [q \in Recipients |->
                         IF q = r THEN Received[q] \union {i} ELSE Received[q]]
      <4> HIDE DEF r, i, Logged, Settled
      <4> QED
        BY <3>2
    <3>4. Received = [q \in Recipients |-> Received[q]]
      OBVIOUS
    <3> HIDE DEF Received, r, i
    <3> QED
      BY <3>3, <3>4
  <2>4. Logged' = Logged /\ Settled' = Settled
    BY <1>4 DEF SendOk
  <2>5. Contract!Receive
    BY <2>1, <2>3, <2>4 DEF Contract!Receive
  <2> QED
    BY <2>5 DEF Contract!CNext
<1>5. ASSUME NEW d \in Dispatchers, MarkDelivered(d) \/ MarkFailed(d)
      PROVE  Contract!CNext \/ UNCHANGED Contract!contractVars
  <2> DEFINE r == Serves[d]
             i == Lowest(rows[d])
             row == ledger[r][i]
  <2>1. r \in Recipients /\ i \in Ids
    BY <1>5, LowestIsIn, ConstantsAssumption
    DEF MarkDelivered, MarkFailed, At, TypeOK, Busy
  <2>2. CASE MarkFailed(d)
    <3>1. Failed(row).status = "delivered" <=> row.status = "delivered"
      BY DEF Failed
    <3>2. \A q \in Recipients, j \in Ids :
            ledger'[q][j].status = "delivered" <=> ledger[q][j].status = "delivered"
      BY <2>1, <2>2, <3>1 DEF MarkFailed, Settle, CurrentRow, TypeOK
    <3>3. Settled' = Settled
      BY <3>2
    <3> QED
      BY <2>2, <3>3 DEF MarkFailed, Settle, Contract!contractVars
  <2>3. CASE MarkDelivered(d)
    <3>1. \A q \in Recipients, j \in Ids :
            ledger'[q][j].status = "delivered"
              <=> (ledger[q][j].status = "delivered" \/ (q = r /\ j = i))
      BY <2>1, <2>3 DEF MarkDelivered, Delivered, Settle, CurrentRow, TypeOK
    <3>2. \A q \in Recipients :
            Settled'[q] = IF q = r THEN Settled[q] \union {i} ELSE Settled[q]
      BY <2>1, <3>1
    <3>3. Settled' = [Settled EXCEPT ![r] = @ \union {i}]
      BY <2>1, <3>2
    <3>4. i \in Received[r]
      BY <2>1, <2>3 DEF MarkDelivered, At, SentBeforeMark
    <3>5. Logged' = Logged /\ Received' = Received
      BY <2>3 DEF MarkDelivered, Settle
    <3>6. Contract!Settle
      BY <2>1, <3>3, <3>4, <3>5 DEF Contract!Settle
    <3> QED
      BY <3>6 DEF Contract!CNext
  <2> QED
    BY <1>5, <2>2, <2>3
<1>6. ASSUME NEW d \in Dispatchers, Quiet(d) PROVE UNCHANGED <<events, ledger, inbox>>
  BY <1>6, QuietSteps
<1> QED
  BY <1>1, <1>2, <1>3, <1>4, <1>5, <1>6
  DEF Next, Work, Other, Quiet, vars, HeartbeatLost, Tick

\* For all values of the constants, the relay implements DeliveryContract.
THEOREM RelayImplementsContract == Spec => ImplementsContract
<1>1. Init /\ ContractInv => Contract!CInit
  BY InitContract
<1>2. ContractInv /\ ContractInv' /\ [Next]_vars
        => [Contract!CNext]_(Contract!contractVars)
  BY NextContract
<1> QED
  BY <1>1, <1>2, ContractInvariant, PTL DEF Spec, ImplementsContract, Contract!CSpec

-----------------------------------------------------------------------------
(* Designed stops and outages.                                             *)

\* What a session that is about to write the halt marker has seen: of the events
\* that were there, the terminal ones are delivered.
HaltSeen ==
  \A d \in Dispatchers : pc[d] \in {"halting", "marking"} =>
    /\ cleared[d] <= Len(events)
    /\ \A i \in 1..cleared[d] :
         events[i] = "terminal" => ledger[Serves[d]][i].status = "delivered"

\* Some session of r has seen the outage, has renewed its trace, and will say so.
Telling(r) == \E d \in Dispatchers : Serves[d] = r /\ At(d, "begin") /\ exit[d] # 0

\* An outage nobody was told of: such a session is there, or the outage still shows,
\* and whoever is in a cycle has seen it (or failed to look) and has renewed nothing.
MissedIsSeen ==
  \A r \in Recipients :
    missed[r] => \/ Telling(r)
                 \/ /\ OutageShows(r)
                    /\ \A d \in Dispatchers :
                         Serves[d] = r => \/ pc[d] \in OutOfCycle
                                          \/ pc[d] = "scan" /\ exit[d] # 0

\* What is delivered stays delivered, and only the outcome of a send changes a row's status.
LEMMA LedgerSteps ==
  ASSUME TypeInv, [Next]_vars
  PROVE  /\ \A r \in Recipients, i \in Ids :
              ledger[r][i].status = "delivered" => ledger'[r][i].status = "delivered"
         /\ \A r \in Recipients, i \in Ids :
              \/ ledger'[r][i].status = "delivered" => ledger[r][i].status = "delivered"
              \/ \E d \in Dispatchers : Serves[d] = r /\ MarkDelivered(d)
         /\ \A r \in Recipients, i \in Ids :
              ledger[r][i].status # "none" => ledger'[r][i].status # "none"
<1> USE DEF TypeInv
<1>1. ASSUME NEW d \in Dispatchers, BeginAttempts(d)
      PROVE  \A r \in Recipients, i \in Ids :
               /\ ledger'[r][i].status = "delivered" <=> ledger[r][i].status = "delivered"
               /\ ledger[r][i].status # "none" => ledger'[r][i].status # "none"
  <2>1. Serves[d] \in Recipients
    BY ConstantsAssumption
  <2> QED
    BY <1>1, <2>1 DEF BeginAttempts, Attempted, TypeOK
<1>2. ASSUME NEW d \in Dispatchers, MarkDelivered(d) \/ MarkFailed(d)
      PROVE  \A r \in Recipients, i \in Ids :
               /\ ledger[r][i].status = "delivered" => ledger'[r][i].status = "delivered"
               /\ \/ ledger'[r][i].status = "delivered" => ledger[r][i].status = "delivered"
                  \/ Serves[d] = r /\ MarkDelivered(d)
               /\ ledger[r][i].status # "none" => ledger'[r][i].status # "none"
  <2>1. Serves[d] \in Recipients /\ Lowest(rows[d]) \in Ids
    BY <1>2, LowestIsIn, ConstantsAssumption DEF MarkDelivered, MarkFailed, At, TypeOK, Busy
  <2>2. CASE MarkDelivered(d)
    BY <2>1, <2>2 DEF MarkDelivered, Settle, CurrentRow, Delivered, TypeOK
  <2>3. CASE MarkFailed(d)
    BY <2>1, <2>3 DEF MarkFailed, Settle, CurrentRow, Failed, TypeOK
  <2> QED
    BY <1>2, <2>2, <2>3
<1>3. CASE UNCHANGED ledger
  BY <1>3
<1>4. ASSUME NEW d \in Dispatchers, Quiet(d) PROVE UNCHANGED ledger
  BY <1>4, QuietSteps
<1>5. \/ UNCHANGED ledger
      \/ \E d \in Dispatchers : BeginAttempts(d) \/ MarkDelivered(d) \/ MarkFailed(d)
  BY <1>4 DEF Next, Work, Other, Quiet, vars, AppendEvent, HeartbeatLost, Tick, SendOk
<1> QED
  BY <1>1, <1>2, <1>3, <1>5, ZenonT(30)

\* The log only grows, at its end.
LEMMA LogSteps ==
  ASSUME TypeInv, [Next]_vars
  PROVE  /\ Len(events) \in Nat /\ Len(events) <= Len(events') /\ Len(events') \in Nat
         /\ \A i \in 1..Len(events) : events'[i] = events[i]
         /\ 1..Len(events) \subseteq Ids
<1>1. Len(events) \in Nat /\ Len(events) <= MaxEvents /\ MaxEvents \in Nat
  BY LenProperties, ConstantsAssumption DEF TypeInv, TypeOK
<1>2. CASE AppendEvent
  <2>1. PICK class \in {"terminal", "other"} : events' = Append(events, class)
    BY <1>2 DEF AppendEvent
  <2>2. Len(events') = Len(events) + 1 /\ \A i \in 1..Len(events) : events'[i] = events[i]
    BY <2>1, AppendProperties DEF TypeInv, TypeOK, EventClass
  <2> QED
    BY <1>1, <2>2 DEF Ids
<1>3. CASE UNCHANGED events
  BY <1>1, <1>3 DEF Ids
<1>4. ASSUME NEW d \in Dispatchers, Quiet(d) PROVE UNCHANGED events
  BY <1>4, QuietSteps
<1> QED
  BY <1>2, <1>3, <1>4
  DEF Next, Work, Other, Quiet, vars, HeartbeatLost, Tick, BeginAttempts, SendOk, MarkDelivered,
      MarkFailed, Settle

\* What the re-check of --mark-halted has seen stays true until the marker is written.
LEMMA NextHaltSeen ==
  ASSUME TypeInv, HaltSeen, [Next]_vars
  PROVE  HaltSeen'
<1> SUFFICES ASSUME NEW d \in Dispatchers, pc'[d] \in {"halting", "marking"}
             PROVE  /\ cleared'[d] <= Len(events')
                    /\ \A i \in 1..cleared'[d] :
                         events'[i] = "terminal" => ledger'[Serves[d]][i].status = "delivered"
  BY DEF HaltSeen
<1>1. Serves[d] \in Recipients /\ cleared[d] \in Nat
  BY ConstantsAssumption DEF TypeInv, TypeOK
<1>2. CASE pc[d] \in {"halting", "marking"} /\ cleared'[d] = cleared[d]
  <2>1. /\ cleared[d] <= Len(events)
        /\ \A i \in 1..cleared[d] :
             events[i] = "terminal" => ledger[Serves[d]][i].status = "delivered"
    BY <1>2 DEF HaltSeen
  <2>2. \A i \in 1..cleared[d] : i \in 1..Len(events) /\ i \in Ids
    BY <1>1, <2>1, LogSteps
  <2> QED
    BY <1>1, <1>2, <2>1, <2>2, LogSteps, LedgerSteps
<1>3. CASE HaltCheck(d) /\ NothingPending(Serves[d])
  <2>1. cleared'[d] = Len(events) /\ events' = events /\ ledger' = ledger
    BY <1>3 DEF HaltCheck, TypeInv, TypeOK
  <2>2. \A i \in 1..Len(events) : events[i] = "terminal" => ledger[Serves[d]][i].status = "delivered"
    BY <1>3 DEF NothingPending, Pending, Surfaces
  <2> QED
    BY <2>1, <2>2, LogSteps
<1>4. \/ pc[d] \in {"halting", "marking"} /\ cleared'[d] = cleared[d]
      \/ HaltCheck(d) /\ NothingPending(Serves[d])
  <2>1. CASE UNCHANGED <<pc, cleared>>
    BY <2>1
  <2>2. ASSUME NEW e \in Dispatchers, HaltCheck(e)
        PROVE  \/ pc[d] \in {"halting", "marking"} /\ cleared'[d] = cleared[d]
               \/ HaltCheck(d) /\ NothingPending(Serves[d])
    BY <2>2 DEF HaltCheck, Goto, At, TypeInv, TypeOK
  <2>3. ASSUME NEW e \in Dispatchers, HaltRead(e) \/ HaltWrite(e) \/ Die(e)
        PROVE  pc[d] \in {"halting", "marking"} /\ cleared'[d] = cleared[d]
    BY <2>3 DEF HaltRead, HaltWrite, Die, Goto, At, TypeInv, TypeOK
  <2>4. ASSUME NEW e \in Dispatchers,
               \/ Audit(e) \/ ClearHalted(e) \/ SpendHalt(e) \/ AuditFails(e) \/ AuditReturns(e)
               \/ Scan(e) \/ List(e) \/ ListFails(e) \/ SendFails(e) \/ HaltFails(e) \/ Resume(e)
               \/ BeginAttempts(e) \/ SendOk(e) \/ MarkDelivered(e) \/ MarkFailed(e)
        PROVE  pc[d] \in {"halting", "marking"} /\ cleared'[d] = cleared[d]
    <3>1. cleared' = cleared
      BY <2>4
      DEF Audit, ClearHalted, SpendHalt, AuditFails, AuditReturns, Scan, List, ListPage, ListFails,
          SendFails, HaltFails, Resume, BeginAttempts, SendOk, MarkDelivered, MarkFailed, Settle
    <3>2. \E step \in Steps \ {"halting", "marking"} : Goto(e, step)
      BY <2>4
      DEF Audit, ClearHalted, SpendHalt, AuditFails, AuditReturns, Scan, List, ListPage, ListFails,
          SendFails, HaltFails, Resume, BeginAttempts, SendOk, MarkDelivered, MarkFailed, Settle, Steps
    <3> QED
      BY <3>1, <3>2 DEF Goto, TypeInv, TypeOK
  <2> QED
    BY <2>1, <2>2, <2>3, <2>4 DEF Next, Work, Other, vars, sessionVars, AppendEvent, HeartbeatLost, Tick
<1> QED
  BY <1>2, <1>3, <1>4

\* Whatever is pending when the halt marker is written arrived after the re-check of
\* --mark-halted, or lies before the epoch (tools/relay_scan.py, mark_halted).
THEOREM HaltsHideNothingOld == Spec => HaltHidesNothingOld
<1> DEFINE Inv == TypeInv /\ HaltSeen
           A == \A d \in Dispatchers :
                  pc[d] = "marking" /\ pc'[d] = "halted"
                    => \A i \in Pending(Serves[d], FALSE) :
                         events[i] = "legacy" \/ i > cleared[d]
<1>1. Init => Inv
  BY InitTypeInv DEF Init, HaltSeen
<1>2. Inv /\ [Next]_vars => Inv'
  BY NextTypeInv, NextHaltSeen
<1>3. Inv => A
  <2> SUFFICES ASSUME Inv, NEW d \in Dispatchers, pc[d] = "marking",
                      NEW i \in Pending(Serves[d], FALSE), events[i] # "legacy"
               PROVE  i > cleared[d]
    OBVIOUS
  <2>1. i \in 1..Len(events) /\ Len(events) \in Nat /\ cleared[d] \in Nat
    BY LenProperties, ConstantsAssumption DEF Pending, TypeInv, TypeOK
  <2>2. events[i] \in EventClass /\ Surfaces(events[i], ledger[Serves[d]][i], FALSE)
    BY <2>1, ElementOfSeq DEF Pending, TypeInv, TypeOK
  <2>4. events[i] = "terminal" /\ ledger[Serves[d]][i].status # "delivered"
    BY <2>2 DEF Surfaces, EventClass
  <2>3. i \notin 1..cleared[d]
    BY <2>4 DEF HaltSeen
  <2> QED
    BY <2>1, <2>3
<1> QED
  BY <1>1, <1>2, <1>3, PTL DEF Spec, HaltHidesNothingOld

\* An audit that finds no marker calls an outage an outage, and one that takes its
\* finding back leaves no marker (tools/relay_scan.py, _verdict and clear_halted).
THEOREM ExcusesAreSpent == Spec => ExcuseIsSpent
<1> DEFINE A == \A d \in Dispatchers :
                  LET r == Serves[d] IN
                    pc'[d] = "scan" /\ exit'[d] = 0 =>
                      /\ pc[d] \in OutOfCycle => ~OutageShows(r)
                      /\ exit[d] = 10 => ~heartbeat'[r].halted
<1>1. TypeInv /\ [Next]_vars => [A]_vars
  <2> SUFFICES ASSUME TypeInv, Next, NEW d \in Dispatchers,
                      pc'[d] = "scan", exit'[d] = 0
               PROVE  /\ pc[d] \in OutOfCycle => ~OutageShows(Serves[d])
                      /\ exit[d] = 10 => ~heartbeat'[Serves[d]].halted
    OBVIOUS
  <2> USE DEF TypeInv
  <2>0. Serves[d] \in Recipients
    BY ConstantsAssumption
  <2>1. CASE Audit(d)
    <3>1. exit'[d] = IF Broken(heartbeat[Serves[d]]) /\ Pending(Serves[d], FALSE) # {} THEN 10 ELSE 0
      <4>1. exit' = [exit EXCEPT ![d] =
                       IF Broken(heartbeat[Serves[d]]) /\ Pending(Serves[d], FALSE) # {} THEN 10 ELSE 0]
        BY <2>1, Zenon DEF Audit
      <4> QED
        BY <4>1, Zenon DEF TypeOK
    <3>2. pc'[d] = IF heartbeat[Serves[d]].halted THEN "clear" ELSE "scan"
      BY <2>1 DEF Audit, Excusable, Goto, TypeOK
    <3>3. ~heartbeat[Serves[d]].halted /\ heartbeat' = heartbeat
      BY <2>1, <3>2 DEF Audit
    <3>4. 10 # 0
      OBVIOUS
    <3> QED
      BY <3>1, <3>3, <3>4, Zenon DEF NothingPending, OutageShows
  <2>2. CASE ClearHalted(d)
    BY <2>2 DEF ClearHalted, At, Goto, TypeOK, OutOfCycle
  <2>3. CASE SpendHalt(d)
    <3>1. PICK consumed \in BOOLEAN :
            /\ Persist(Serves[d], [seen[d] EXCEPT !.halted = FALSE], consumed)
            /\ exit' = [exit EXCEPT ![d] = IF consumed THEN 0 ELSE @]
      BY <2>3 DEF SpendHalt
    <3>2. CASE consumed
      <4>1. heartbeat'[Serves[d]] = [seen[d] EXCEPT !.halted = FALSE]
        BY <2>0, <3>1, <3>2 DEF Persist, TypeOK
      <4>2. ~heartbeat'[Serves[d]].halted
        BY <4>1 DEF TypeOK, Trace
      <4> QED
        BY <2>3, <4>2 DEF SpendHalt, At, OutOfCycle
    <3>3. CASE ~consumed
      BY <2>3, <3>1, <3>3 DEF SpendHalt, At, OutOfCycle, TypeOK
    <3> QED
      BY <3>2, <3>3
  <2>4. CASE pc'[d] = pc[d] /\ exit'[d] = exit[d]
    BY <2>4 DEF OutOfCycle
  <2>5. CASE AuditFails(d)
    BY <2>5 DEF AuditFails, TypeOK
  <2>6. \/ Audit(d) \/ ClearHalted(d) \/ SpendHalt(d) \/ AuditFails(d)
        \/ pc'[d] = pc[d] /\ exit'[d] = exit[d]
    <3>1. ASSUME NEW e \in Dispatchers, e # d, Quiet(e)
          PROVE  pc'[d] = pc[d] /\ exit'[d] = exit[d]
      BY <3>1, QuietSteps
    <3>2. ASSUME NEW e \in Dispatchers, e # d,
                 BeginAttempts(e) \/ SendOk(e) \/ MarkDelivered(e) \/ MarkFailed(e)
          PROVE  pc'[d] = pc[d] /\ exit'[d] = exit[d]
      BY <3>2 DEF BeginAttempts, Report, SendOk, MarkDelivered, MarkFailed, Settle, Goto, TypeOK
    <3>3. ASSUME \/ Scan(d) \/ List(d) \/ ListFails(d) \/ SendFails(d) \/ AuditReturns(d)
                 \/ HaltCheck(d) \/ HaltRead(d) \/ HaltWrite(d) \/ HaltFails(d) \/ Die(d) \/ Resume(d)
                 \/ BeginAttempts(d) \/ SendOk(d) \/ MarkDelivered(d) \/ MarkFailed(d)
          PROVE  FALSE
      BY <3>3
      DEF Scan, List, ListPage, ListFails, SendFails, AuditReturns, HaltCheck, HaltRead, HaltWrite,
          HaltFails, Die, Resume, BeginAttempts, SendOk, MarkDelivered, MarkFailed, Settle, Goto, TypeOK
    <3>4. CASE AppendEvent \/ HeartbeatLost \/ Tick
      BY <3>4 DEF AppendEvent, HeartbeatLost, Tick, sessionVars
    <3> QED
      BY <3>1, <3>2, <3>3, <3>4 DEF Next, Work, Other, Quiet
  <2> QED
    BY <2>1, <2>2, <2>3, <2>4, <2>5, <2>6
<1>2. Spec => []TypeInv
  BY InitTypeInv, NextTypeInv, PTL DEF Spec
<1> QED
  BY <1>1, <1>2, PTL DEF Spec, ExcuseIsSpent

\* A designed stop hides nothing that was pending when it was checked, and nothing once used.
THEOREM HaltsAreHonest == Spec => HaltIsHonest
  BY HaltsHideNothingOld, ExcusesAreSpent DEF HaltIsHonest

\* An event that was pending is pending still, unless the ledger changed for it.
LEMMA PendingStays ==
  ASSUME TypeInv, [Next]_vars, NEW r \in Recipients, ledger'[r] = ledger[r]
  PROVE  NothingPending(r)' => NothingPending(r)
<1> SUFFICES ASSUME NEW i \in Pending(r, FALSE) PROVE i \in Pending(r, FALSE)'
  BY DEF NothingPending
<1>1. i \in 1..Len(events) /\ Surfaces(events[i], ledger[r][i], FALSE)
  BY DEF Pending
<1>2. i \in 1..Len(events') /\ events'[i] = events[i]
  BY <1>1, LogSteps
<1>3. Surfaces(events'[i], ledger'[r][i], FALSE)
  BY <1>1, <1>2
<1> QED
  BY <1>2, <1>3 DEF Pending

\* What is still broken after an entry was lost or has aged.
LEMMA StaysBroken ==
  ASSUME NEW trace \in Trace, Broken(trace), ~trace.halted
  PROVE  /\ Broken(NoTrace) /\ ~NoTrace.halted
         /\ Older(trace) = trace
<1>1. Broken(NoTrace) /\ ~NoTrace.halted
  BY DEF Broken, NoTrace
<1>2. trace.age \in Nat /\ StaleMin \in Nat
  BY ConstantsAssumption DEF Trace
<1> QED
  BY <1>1, <1>2 DEF Broken, Older

\* Steps of the world: nobody's cycle moves, and an outage that shows goes on showing.
LEMMA WorldMissed ==
  ASSUME TypeInv, MissedIsSeen, AppendEvent \/ HeartbeatLost \/ Tick
  PROVE  MissedIsSeen'
<1> SUFFICES ASSUME NEW r \in Recipients, missed'[r]
             PROVE  \/ Telling(r)'
                    \/ /\ OutageShows(r)'
                       /\ \A d \in Dispatchers :
                            Serves[d] = r => \/ pc'[d] \in OutOfCycle
                                             \/ pc'[d] = "scan" /\ exit'[d] # 0
  BY DEF MissedIsSeen
<1>1. pc' = pc /\ exit' = exit /\ ledger' = ledger
  BY DEF AppendEvent, HeartbeatLost, Tick, sessionVars
<1>2. missed[r] \/ Outage(r)
  BY DEF AppendEvent, HeartbeatLost, Tick
<1>3. CASE Telling(r)
  BY <1>1, <1>3 DEF Telling, At
<1>4. CASE OutageShows(r) /\ ~Telling(r)
  <2>1. heartbeat[r] \in Trace
    BY DEF TypeInv, TypeOK
  <2>2. heartbeat'[r] \in {heartbeat[r], NoTrace, Older(heartbeat[r])}
    BY DEF AppendEvent, HeartbeatLost, Tick
  <2>3. Broken(heartbeat'[r]) /\ ~heartbeat'[r].halted
    BY <1>4, <2>1, <2>2, StaysBroken DEF OutageShows
  <2>4. ~NothingPending(r)'
    BY <1>1, <1>4, PendingStays DEF OutageShows, Next
  <2>5. \A d \in Dispatchers : Serves[d] = r => pc[d] \in OutOfCycle \/ (pc[d] = "scan" /\ exit[d] # 0)
    BY <1>2, <1>4 DEF MissedIsSeen, Outage
  <2> QED
    BY <1>1, <2>3, <2>4, <2>5 DEF OutageShows, Broken
<1> QED
  BY <1>2, <1>3, <1>4 DEF MissedIsSeen, Outage

\* A session that has renewed the trace of an outage it saw either says so or dies
\* with it; until then nothing that others do matters.
LEMMA TellingEnds ==
  ASSUME TypeInv, NEW d \in Dispatchers, Work(d) \/ Other(d),
         NEW r \in Recipients, missed'[r], Telling(r)
  PROVE  Telling(r)'
<1>1. PICK f \in Dispatchers : Serves[f] = r /\ pc[f] = "begin" /\ exit[f] # 0
  BY DEF Telling, At
<1>2. CASE d # f
  <2>1. pc'[f] = pc[f] /\ exit'[f] = exit[f]
    <3>1. CASE Quiet(d)
      BY <1>2, <3>1, QuietSteps
    <3>2. CASE BeginAttempts(d) \/ SendOk(d) \/ MarkDelivered(d) \/ MarkFailed(d)
      BY <1>2, <3>2 DEF BeginAttempts, Report, SendOk, MarkDelivered, MarkFailed, Settle, Goto,
                        TypeInv, TypeOK
    <3> QED
      BY <3>1, <3>2 DEF Work, Other, Quiet
  <2> QED
    BY <1>1, <2>1 DEF Telling, At
<1>3. CASE d = f
  <2>1. BeginAttempts(d) \/ ListFails(d) \/ Die(d)
    BY <1>1, <1>3
    DEF Work, Other, Audit, ClearHalted, SpendHalt, Scan, SendOk, MarkDelivered, MarkFailed, HaltRead,
        HaltWrite, HaltCheck, List, AuditReturns, AuditFails, SendFails, HaltFails, Resume, At
  <2>2. ~missed'[r]
    BY <1>1, <1>3, <2>1 DEF BeginAttempts, ListFails, Report, Die, At, TypeInv, TypeOK
  <2> QED
    BY <2>2
<1> QED
  BY <1>2, <1>3

\* While an outage shows and everybody in a cycle has seen it, the next audit sees it,
\* too, and who renews the trace is about to say so.
LEMMA SessionMissed ==
  ASSUME TypeInv, NEW d \in Dispatchers, Work(d) \/ Other(d),
         NEW r \in Recipients, missed'[r], missed[r], OutageShows(r),
         \A e \in Dispatchers :
           Serves[e] = r => pc[e] \in OutOfCycle \/ (pc[e] = "scan" /\ exit[e] # 0)
  PROVE  \/ Telling(r)'
         \/ /\ OutageShows(r)'
            /\ \A e \in Dispatchers :
                 Serves[e] = r => pc'[e] \in OutOfCycle \/ (pc'[e] = "scan" /\ exit'[e] # 0)
<1> USE DEF TypeInv
<1>0. Next /\ Serves[d] \in Recipients
  BY ConstantsAssumption DEF Next
<1>1. \A e \in Dispatchers \ {d} : pc'[e] = pc[e] /\ exit'[e] = exit[e]
  <2>1. CASE Quiet(d)
    BY <2>1, QuietSteps
  <2>2. CASE BeginAttempts(d) \/ SendOk(d) \/ MarkDelivered(d) \/ MarkFailed(d)
    BY <2>2 DEF BeginAttempts, Report, SendOk, MarkDelivered, MarkFailed, Settle, Goto, TypeOK
  <2> QED
    BY <2>1, <2>2 DEF Work, Other, Quiet
<1>2. CASE Serves[d] # r
  <2>1. heartbeat'[r] = heartbeat[r] /\ ledger'[r] = ledger[r]
    <3>1. CASE Audit(d) \/ ClearHalted(d) \/ SpendHalt(d) \/ AuditFails(d) \/ AuditReturns(d)
      BY <1>2, <3>1 DEF Audit, ClearHalted, SpendHalt, AuditFails, AuditReturns, Persist, TypeOK
    <3>2. CASE Scan(d) \/ List(d) \/ ListFails(d) \/ SendFails(d)
      BY <1>2, <3>2 DEF Scan, List, ListPage, ListFails, SendFails, Persist, TypeOK
    <3>3. CASE HaltCheck(d) \/ HaltRead(d) \/ HaltWrite(d) \/ HaltFails(d) \/ Die(d) \/ Resume(d)
      BY <1>2, <3>3 DEF HaltCheck, HaltRead, HaltWrite, HaltFails, Die, Resume, Persist, TypeOK
    <3>4. CASE BeginAttempts(d) \/ SendOk(d) \/ MarkDelivered(d) \/ MarkFailed(d)
      BY <1>2, <3>4 DEF BeginAttempts, SendOk, MarkDelivered, MarkFailed, Settle, TypeOK
    <3> QED
      BY <3>1, <3>2, <3>3, <3>4 DEF Work, Other
  <2>2. ~NothingPending(r)'
    BY <1>0, <2>1, PendingStays DEF OutageShows
  <2>3. OutageShows(r)'
    BY <2>1, <2>2 DEF OutageShows, Broken
  <2> QED
    BY <1>1, <1>2, <2>3
<1>3. CASE Serves[d] = r /\ Scan(d)
  BY <1>3 DEF Scan, ListPage, Goto, At, Telling, TypeOK, OutOfCycle
<1>4. CASE Serves[d] = r /\ ~Scan(d)
  <2>1. pc[d] \in OutOfCycle \/ (pc[d] = "scan" /\ exit[d] # 0)
    BY <1>4
  <2>2. \/ Audit(d) \/ AuditFails(d) \/ HaltCheck(d) \/ HaltFails(d) \/ Die(d) \/ Resume(d)
    <3>1. ~(AuditReturns(d) \/ ListFails(d) \/ List(d))
      BY <1>4, <2>1 DEF AuditReturns, ListFails, List, Report, At, OutOfCycle, TypeOK
    <3> QED
      BY <1>4, <2>1, <3>1
      DEF Work, Other, ClearHalted, SpendHalt, BeginAttempts, SendOk, MarkDelivered, MarkFailed,
          HaltRead, HaltWrite, SendFails, At, OutOfCycle
  <2>3. UNCHANGED <<events, ledger, heartbeat>>
    BY <2>2 DEF Audit, AuditFails, HaltCheck, HaltFails, Die, Resume
  <2>4. OutageShows(r)'
    BY <2>3 DEF OutageShows, NothingPending, Pending, Broken
  <2>5. pc'[d] \in OutOfCycle \/ (pc'[d] = "scan" /\ exit'[d] # 0)
    <3>1. CASE Audit(d)
      <4>1. exit'[d] = IF Broken(heartbeat[r]) /\ Pending(r, FALSE) # {} THEN 10 ELSE 0
        <5>1. exit' = [exit EXCEPT ![d] =
                         IF Broken(heartbeat[r]) /\ Pending(r, FALSE) # {} THEN 10 ELSE 0]
          BY <1>4, <3>1, Zenon DEF Audit
        <5> QED
          BY <5>1, Zenon DEF TypeOK
      <4>2. pc'[d] = IF heartbeat[r].halted THEN "clear" ELSE "scan"
        BY <1>4, <3>1 DEF Audit, Excusable, Goto, TypeOK
      <4>3. 10 # 0
        OBVIOUS
      <4> QED
        BY <4>1, <4>2, <4>3, Zenon DEF NothingPending, OutageShows
    <3>2. CASE AuditFails(d) \/ HaltFails(d) \/ Die(d) \/ Resume(d)
      BY <3>2 DEF AuditFails, HaltFails, Die, Resume, Goto, OutOfCycle, TypeOK
    <3>3. CASE HaltCheck(d)
      BY <1>4, <3>3 DEF HaltCheck, Goto, OutageShows, OutOfCycle, TypeOK
    <3> QED
      BY <2>2, <3>1, <3>2, <3>3
  <2> QED
    BY <1>1, <2>4, <2>5
<1> QED
  BY <1>2, <1>3, <1>4

\* An unreported outage shows, or somebody is about to report it.
LEMMA NextMissed ==
  ASSUME TypeInv, MissedIsSeen, [Next]_vars
  PROVE  MissedIsSeen'
<1>1. CASE UNCHANGED vars
  BY <1>1 DEF vars, sessionVars, MissedIsSeen, Telling, OutageShows, NothingPending, Pending, At
<1>2. CASE AppendEvent \/ HeartbeatLost \/ Tick
  BY <1>2, WorldMissed
<1>3. ASSUME NEW d \in Dispatchers, Work(d) \/ Other(d) PROVE MissedIsSeen'
  <2> SUFFICES ASSUME NEW r \in Recipients, missed'[r]
               PROVE  \/ Telling(r)'
                      \/ /\ OutageShows(r)'
                         /\ \A e \in Dispatchers :
                              Serves[e] = r => pc'[e] \in OutOfCycle \/ (pc'[e] = "scan" /\ exit'[e] # 0)
    BY DEF MissedIsSeen
  <2>1. missed[r]
    BY <1>3
    DEF Work, Other, Audit, ClearHalted, SpendHalt, Scan, ListPage, BeginAttempts, SendOk, MarkDelivered,
        MarkFailed, Settle, HaltRead, HaltWrite, HaltCheck, List, AuditReturns, AuditFails, ListFails,
        Report, SendFails, HaltFails, Die, Resume, TypeInv, TypeOK
  <2>2. CASE Telling(r)
    BY <1>3, <2>2, TellingEnds
  <2>3. CASE ~Telling(r)
    BY <1>3, <2>1, <2>3, SessionMissed DEF MissedIsSeen
  <2> QED
    BY <2>2, <2>3
<1> QED
  BY <1>1, <1>2, <1>3 DEF Next

\* A loop that died with a backlog is told of before its trace is renewed, as a finding or as an
\* audit that failed, whatever sessions overlap and whatever becomes of the heartbeat file; except
\* by a --list on its own, and unless the command dies between its stamp and its report.
THEOREM OutagesReportedFirst == Spec => []OutageReportedFirst
<1>1. Init => TypeInv /\ MissedIsSeen
  BY InitTypeInv, ConstantsAssumption DEF Init, MissedIsSeen
<1>2. TypeInv /\ MissedIsSeen /\ [Next]_vars => (TypeInv /\ MissedIsSeen)'
  BY NextTypeInv, NextMissed
<1>3. MissedIsSeen => OutageReportedFirst
  BY DEF MissedIsSeen, Telling, OutageReportedFirst
<1> QED
  BY <1>1, <1>2, <1>3, PTL DEF Spec

-----------------------------------------------------------------------------
(* Every send was recorded before.                                         *)

\* The sessions that have recorded an attempt for event i and have not sent it yet.
Promised(r, i) ==
  {d \in Dispatchers : /\ Serves[d] = r /\ i \in rows[d]
                       /\ \/ pc[d] = "relay"
                          \/ pc[d] \in {"confirm", "refuse"} /\ i # Lowest(rows[d])}

\* Each of them may still send once: the attempts cover these sends, too.
PromisesCovered ==
  \A r \in Recipients, i \in Ids :
    /\ inbox[r][i] + Cardinality(Promised(r, i)) <= ledger[r][i].attempt
    /\ ledger[r][i].status = "none" => ledger[r][i].attempt = 0

\* A step that sends nothing, promises nothing and takes no attempt back.
LEMMA FewerPromises ==
  ASSUME TypeInv, TypeInv', PromisesCovered,
         NEW r \in Recipients, NEW i \in Ids,
         inbox'[r][i] = inbox[r][i], ledger'[r][i].attempt >= ledger[r][i].attempt,
         Promised(r, i)' \subseteq Promised(r, i)
  PROVE  inbox'[r][i] + Cardinality(Promised(r, i)') <= ledger'[r][i].attempt
<1>1. IsFiniteSet(Promised(r, i)) /\ IsFiniteSet(Promised(r, i)')
  BY DispatchersAssumption, FS_Subset DEF Promised
<1>2. Cardinality(Promised(r, i)') <= Cardinality(Promised(r, i))
  BY <1>1, FS_Subset
<1>3. Cardinality(Promised(r, i)) \in Nat /\ Cardinality(Promised(r, i)') \in Nat
  BY <1>1, FS_CardinalityType
<1>4. /\ inbox[r][i] \in Nat /\ ledger[r][i].attempt \in Nat /\ ledger'[r][i].attempt \in Nat
  BY DEF TypeInv, TypeOK, Row
<1> HIDE DEF Promised
<1> QED
  BY <1>2, <1>3, <1>4 DEF PromisesCovered

\* An attempt is committed before the send it stands for, and no outcome takes it back.
LEMMA NextPromises ==
  ASSUME TypeInv, PromisesCovered, [Next]_vars
  PROVE  PromisesCovered'
<1>0. TypeInv'
  BY NextTypeInv
<1> USE DEF TypeInv
<1>1. CASE UNCHANGED <<inbox, ledger, pc, rows>>
  <2>1. \A r \in Recipients, i \in Ids : Promised(r, i)' = Promised(r, i)
    BY <1>1 DEF Promised
  <2> QED
    BY <1>1, <2>1 DEF PromisesCovered
<1>2. ASSUME NEW d \in Dispatchers, Quiet(d) PROVE PromisesCovered'
  <2>1. UNCHANGED <<inbox, ledger>>
    BY <1>2, QuietSteps
  <2>2. \A e \in Dispatchers \ {d} : pc'[e] = pc[e] /\ rows'[e] = rows[e]
    BY <1>2, QuietSteps
  <2>3. \/ pc'[d] \notin {"relay", "confirm", "refuse"}
        \/ pc'[d] = "refuse" /\ pc[d] = "relay" /\ rows'[d] = rows[d]
    BY <1>2, QuietSteps
  <2>4. \A r \in Recipients, i \in Ids : Promised(r, i)' \subseteq Promised(r, i)
    BY <2>2, <2>3 DEF Promised
  <2>5. \A r \in Recipients, i \in Ids : ledger[r][i].attempt \in Nat
    BY DEF TypeOK, Row
  <2> QED
    BY <1>0, <2>1, <2>4, <2>5, FewerPromises DEF PromisesCovered
<1>3. ASSUME NEW d \in Dispatchers, BeginAttempts(d) PROVE PromisesCovered'
  <2>1. /\ Serves[d] \in Recipients /\ inbox' = inbox /\ rows' = rows
        /\ pc[d] = "begin" /\ \A e \in Dispatchers \ {d} : pc'[e] = pc[e]
        /\ pc'[d] = IF rows[d] = {} THEN "quiet" ELSE "relay"
    BY <1>3, ConstantsAssumption DEF BeginAttempts, Goto, At, TypeOK
  <2> SUFFICES ASSUME NEW r \in Recipients, NEW i \in Ids
               PROVE  /\ inbox'[r][i] + Cardinality(Promised(r, i)') <= ledger'[r][i].attempt
                      /\ ledger'[r][i].status = "none" => ledger'[r][i].attempt = 0
    BY DEF PromisesCovered
  <2>2. CASE r = Serves[d] /\ i \in rows[d]
    <3>1. ledger'[r][i] = Attempted(ledger[r][i])
      BY <1>3, <2>2 DEF BeginAttempts, TypeOK
    <3>2. ledger'[r][i].attempt = ledger[r][i].attempt + 1 /\ ledger'[r][i].status # "none"
      BY <3>1 DEF Attempted
    <3>3. Promised(r, i)' = Promised(r, i) \union {d} /\ d \notin Promised(r, i)
      BY <2>1, <2>2 DEF Promised
    <3>4. IsFiniteSet(Promised(r, i))
      BY DispatchersAssumption, FS_Subset DEF Promised
    <3>5. Cardinality(Promised(r, i)') = Cardinality(Promised(r, i)) + 1
          /\ Cardinality(Promised(r, i)) \in Nat
      BY <3>3, <3>4, FS_AddElement, FS_CardinalityType
    <3>6. inbox[r][i] \in Nat /\ ledger[r][i].attempt \in Nat
      BY DEF TypeOK, Row
    <3> HIDE DEF Promised
    <3> QED
      BY <2>1, <3>2, <3>5, <3>6 DEF PromisesCovered
  <2>3. CASE ~(r = Serves[d] /\ i \in rows[d])
    <3>1. ledger'[r][i] = ledger[r][i]
      BY <1>3, <2>3 DEF BeginAttempts, TypeOK
    <3>2. Promised(r, i)' \subseteq Promised(r, i)
      BY <2>1, <2>3 DEF Promised
    <3>3. ledger[r][i].attempt \in Nat
      BY DEF TypeOK, Row
    <3> QED
      BY <1>0, <2>1, <3>1, <3>2, <3>3, FewerPromises DEF PromisesCovered
  <2> QED
    BY <2>2, <2>3
<1>4. ASSUME NEW d \in Dispatchers, SendOk(d) PROVE PromisesCovered'
  <2> DEFINE low == Lowest(rows[d])
  <2>1. /\ Serves[d] \in Recipients /\ low \in Ids /\ low \in rows[d]
        /\ ledger' = ledger /\ rows' = rows
        /\ pc[d] = "relay" /\ pc'[d] = "confirm" /\ \A e \in Dispatchers \ {d} : pc'[e] = pc[e]
    BY <1>4, LowestIsIn, ConstantsAssumption DEF SendOk, Goto, At, TypeOK, Busy
  <2> SUFFICES ASSUME NEW r \in Recipients, NEW i \in Ids
               PROVE  inbox'[r][i] + Cardinality(Promised(r, i)') <= ledger'[r][i].attempt
    BY <2>1 DEF PromisesCovered
  <2>2. CASE r = Serves[d] /\ i = low
    <3>1. inbox'[r][i] = inbox[r][i] + 1
      BY <1>4, <2>1, <2>2 DEF SendOk, TypeOK
    <3>2. Promised(r, i) = Promised(r, i)' \union {d} /\ d \notin Promised(r, i)'
      BY <2>1, <2>2 DEF Promised
    <3>3. IsFiniteSet(Promised(r, i)')
      BY DispatchersAssumption, FS_Subset DEF Promised
    <3>4. Cardinality(Promised(r, i)) = Cardinality(Promised(r, i)') + 1
          /\ Cardinality(Promised(r, i)') \in Nat
      BY <3>2, <3>3, FS_AddElement, FS_CardinalityType
    <3>5. inbox[r][i] \in Nat /\ ledger[r][i].attempt \in Nat
      BY DEF TypeOK, Row
    <3> HIDE DEF Promised
    <3> QED
      BY <2>1, <3>1, <3>4, <3>5 DEF PromisesCovered
  <2>3. CASE ~(r = Serves[d] /\ i = low)
    <3>1. inbox'[r][i] = inbox[r][i]
      BY <1>4, <2>1, <2>3 DEF SendOk, TypeOK
    <3>2. Promised(r, i)' \subseteq Promised(r, i)
      BY <2>1, <2>3 DEF Promised
    <3>3. ledger'[r][i].attempt >= ledger[r][i].attempt
      BY <2>1 DEF TypeOK, Row
    <3> QED
      BY <1>0, <3>1, <3>2, <3>3, FewerPromises
  <2> QED
    BY <2>2, <2>3
<1>5. ASSUME NEW d \in Dispatchers, MarkDelivered(d) \/ MarkFailed(d) PROVE PromisesCovered'
  <2> DEFINE low == Lowest(rows[d])
             row == ledger[Serves[d]][low]
  <2>1. Serves[d] \in Recipients /\ low \in Ids /\ low \in rows[d]
        /\ pc[d] \in {"confirm", "refuse"}
    BY <1>5, LowestIsIn, ConstantsAssumption DEF MarkDelivered, MarkFailed, At, TypeOK, Busy
  <2>2. PICK outcome \in {Delivered(row), Failed(row)} : Settle(d, outcome)
    BY <1>5 DEF MarkDelivered, MarkFailed, CurrentRow
  <2>3. /\ inbox' = inbox /\ rows' = [rows EXCEPT ![d] = @ \ {low}]
        /\ pc'[d] \in {"idle", "relay"} /\ \A e \in Dispatchers \ {d} : pc'[e] = pc[e]
    BY <2>2 DEF Settle, Goto, TypeOK
  <2>4. /\ \A r \in Recipients, i \in Ids :
             ledger'[r][i] = IF r = Serves[d] /\ i = low THEN outcome ELSE ledger[r][i]
        /\ row \in Row
    BY <2>1, <2>2 DEF Settle, TypeOK
  <2>5. row.status = "none" => row.attempt = 0
    BY <2>1 DEF PromisesCovered
  <2>6. /\ outcome.attempt \in Nat /\ outcome.attempt >= row.attempt
        /\ outcome.status # "none"
    BY <2>4, <2>5 DEF Delivered, Failed, Row
  <2> SUFFICES ASSUME NEW r \in Recipients, NEW i \in Ids
               PROVE  /\ inbox'[r][i] + Cardinality(Promised(r, i)') <= ledger'[r][i].attempt
                      /\ ledger'[r][i].status = "none" => ledger'[r][i].attempt = 0
    BY DEF PromisesCovered
  <2>7. Promised(r, i)' \subseteq Promised(r, i)
    BY <2>1, <2>3 DEF Promised, TypeOK
  <2>8. ledger'[r][i].attempt >= ledger[r][i].attempt
    <3>1. ledger[r][i].attempt \in Nat
      BY DEF TypeOK, Row
    <3>2. CASE r = Serves[d] /\ i = low
      BY <2>4, <2>6, <3>2
    <3>3. CASE ~(r = Serves[d] /\ i = low)
      <4>1. ledger'[r][i] = ledger[r][i]
        BY <2>4, <3>3
      <4> QED
        BY <3>1, <4>1
    <3> QED
      BY <3>2, <3>3
  <2>9. ledger'[r][i].status = "none" => ledger'[r][i].attempt = 0
    BY <2>4, <2>6 DEF PromisesCovered
  <2> HIDE DEF low, row
  <2> QED
    BY <1>0, <2>3, <2>7, <2>8, <2>9, FewerPromises
<1> QED
  BY <1>1, <1>2, <1>3, <1>4, <1>5
  DEF Next, Work, Other, Quiet, vars, sessionVars, AppendEvent, HeartbeatLost, Tick

\* No recipient gets more messages about an event than attempts were recorded for it, however
\* many sessions serve it, die in between or try again (begin_delivery_attempt, the cycle).
THEOREM SendsRecorded == Spec => []SendsAreRecorded
<1>1. Init => TypeInv /\ PromisesCovered
  <2> SUFFICES ASSUME Init PROVE PromisesCovered
    BY InitTypeInv
  <2>1. \A r \in Recipients, i \in Ids : Promised(r, i) = {}
    BY DEF Init, Promised
  <2>2. \A r \in Recipients, i \in Ids : Cardinality(Promised(r, i)) = 0
    BY <2>1, FS_EmptySet
  <2> HIDE DEF Promised
  <2> QED
    BY <2>2 DEF Init, PromisesCovered, NoRow
<1>2. TypeInv /\ PromisesCovered /\ [Next]_vars => (TypeInv /\ PromisesCovered)'
  BY NextTypeInv, NextPromises
<1>3. TypeInv /\ PromisesCovered => SendsAreRecorded
  <2> SUFFICES ASSUME TypeInv, PromisesCovered, NEW r \in Recipients, NEW i \in Ids
               PROVE  inbox[r][i] <= ledger[r][i].attempt
    BY DEF SendsAreRecorded
  <2>1. Cardinality(Promised(r, i)) \in Nat
    BY DispatchersAssumption, FS_Subset, FS_CardinalityType DEF Promised
  <2>2. inbox[r][i] \in Nat /\ ledger[r][i].attempt \in Nat
    BY DEF TypeInv, TypeOK, Row
  <2> QED
    BY <2>1, <2>2 DEF PromisesCovered
<1> QED
  BY <1>1, <1>2, <1>3, PTL DEF Spec
=============================================================================
