----------------------------- MODULE RetroGate -----------------------------
(***************************************************************************)
(* The completion-report gate before a worker's pane is closed             *)
(* (tools/dispatcher_retro_gate.py and                                     *)
(* .hooks/block-close-before-retro.sh).  The dispatcher asks the secretary *)
(* whether a task's report arrived, polls its messages for an ack, and     *)
(* records it; the hook lets close_pane through when that record, or the   *)
(* state of the run, allows it.                                            *)
(***************************************************************************)
EXTENDS EventLog

CONSTANTS PaneIds,     \* pane ids, given out again after a daemon restart
          MaxAttempts, \* --max-attempts
          MaxVerified, \* bound: verified spawns
          MaxReplies   \* bound: replies the secretary sends

ASSUME RetroAssumption == /\ MaxAttempts \in Nat \ {0}
                          /\ MaxVerified \in Nat /\ MaxReplies \in Nat

VARIABLES up,       \* up[p]: what runs in pane p
          inbox,    \* replies the dispatcher has not read yet
          gate,     \* the gate the dispatcher is in
          reported, \* reported[t]: completion_reported_at is set
          sent,     \* replies sent so far
          judged,   \* ghost: tasks a gate was passed for, since their last verification
          wrong     \* ghost: panes closed before their own retro

retroVars == <<runs, events, up, inbox, gate, reported, sent, judged, wrong>>

Bodies == {"yes", "no", "other"} \* what the ack pattern tells apart, and a denial
NoGate == [task |-> CHOOSE t \in Tasks : TRUE, attempt |-> 0, last |-> "none", verdict |-> "none"]
Free == [verified |-> FALSE, task |-> CHOOSE t \in Tasks : TRUE, live |-> FALSE]

-----------------------------------------------------------------------------
(* Workers and the secretary                                               *)

\* A worker of t is spawned into pane p; its spawn may stay unverified.
SpawnWorker(p, t) ==
  /\ ~up[p].live /\ runs[t].status # "completed"
  /\ \A q \in PaneIds : up[q].live => up[q].task # t
  /\ \E ok \in BOOLEAN :
       /\ ok => Cardinality({i \in DOMAIN events : events[i].kind = "worker_spawn_verified"})
                  < MaxVerified
       /\ up' = [up EXCEPT ![p] = [verified |-> ok, task |-> t, live |-> TRUE]]
       /\ events' = IF ok THEN Append(events, SpawnVerified(t, p, 0, "send_delivery", FALSE))
                        ELSE events
       /\ judged' = IF ok THEN judged \ {t} ELSE judged
  /\ runs' = [runs EXCEPT ![t].status = "in_use"]
  /\ UNCHANGED <<inbox, gate, reported, sent, wrong>>

\* The report reaches the secretary; the dispatcher may not hear of it.
Report(t) ==
  /\ runs[t].status = "in_use"
  /\ runs' = [runs EXCEPT ![t].status = "review"]
  /\ \E heard \in BOOLEAN : reported' = [reported EXCEPT ![t] = @ \/ heard]
  /\ UNCHANGED <<events, up, inbox, gate, sent, judged, wrong>>

\* T6: more work for the same worker; the dispatcher may not hear of that either.
Reopen(t) ==
  /\ runs[t].status = "review"
  /\ runs' = [runs EXCEPT ![t].status = "in_use"]
  /\ \E heard \in BOOLEAN : reported' = [reported EXCEPT ![t] = @ /\ ~heard]
  /\ UNCHANGED <<events, up, inbox, gate, sent, judged, wrong>>

Complete(t) == /\ runs[t].status = "review"
               /\ runs' = [runs EXCEPT ![t].status = "completed"]
               /\ UNCHANGED <<events, up, inbox, gate, reported, sent, judged, wrong>>

\* The secretary answers, at any time.
Answer == /\ sent < MaxReplies
          /\ \E body \in Bodies : inbox' = Append(inbox, body)
          /\ sent' = sent + 1
          /\ UNCHANGED <<runs, events, up, gate, reported, judged, wrong>>

\* The terminal's daemon restarts: the panes are gone, the numbers start again.
DaemonRestart == /\ up' = [p \in PaneIds |-> Free]
                 /\ UNCHANGED <<runs, events, inbox, gate, reported, sent, judged, wrong>>

-----------------------------------------------------------------------------
(* The gate                                                                *)

\* print-initial-prompt
Ask(t) == /\ gate.attempt = 0
          /\ gate' = [NoGate EXCEPT !.task = t, !.attempt = 1]
          /\ UNCHANGED <<runs, events, up, inbox, reported, sent, judged, wrong>>

\* run_gate, on the messages check_messages returned.  The ack may not be recorded.
Acks == {i \in DOMAIN inbox : inbox[i] = "yes"}
LastBody == IF inbox = <<>> THEN gate.last ELSE inbox[Len(inbox)]

\* Mutant: one attempt more than asked for.
OneMoreAgain == gate.attempt <= MaxAttempts

Again == gate.attempt < MaxAttempts

Attempt ==
  /\ gate.attempt # 0 /\ gate.verdict = "none"
  /\ inbox' = <<>>
  /\ IF Acks # {}
     THEN /\ gate' = NoGate
          /\ judged' = judged \union {gate.task}
          /\ events' \in {events, Append(events, [kind |-> "retro_gate_acked", task |-> gate.task])}
     ELSE /\ gate' = IF Again THEN [gate EXCEPT !.attempt = @ + 1, !.last = LastBody]
                     ELSE IF LastBody = "none" THEN NoGate \* timeout: retro_deferred
                     ELSE [gate EXCEPT !.last = LastBody, !.verdict = "replied_no_ack"]
          /\ UNCHANGED <<events, judged>>
  /\ UNCHANGED <<runs, up, reported, sent, wrong>>

\* replied_no_ack: the dispatcher reads a denial as one, and asks again otherwise.
ReadReply ==
  /\ gate.verdict = "replied_no_ack"
  /\ gate' = NoGate
  /\ IF gate.last = "no"
     THEN /\ events' = Append(events, [kind |-> "retro_gate_confirmed_missing", task |-> gate.task])
          /\ judged' = judged \union {gate.task}
     ELSE UNCHANGED <<events, judged>>
  /\ UNCHANGED <<runs, up, inbox, reported, sent, wrong>>

\* A schema error, or the dispatcher forgets the gate.
DropGate == /\ gate.attempt # 0
            /\ gate' = NoGate
            /\ UNCHANGED <<runs, events, up, inbox, reported, sent, judged, wrong>>

-----------------------------------------------------------------------------
(* The hook                                                                *)

VerifiedIn(p) == {i \in DOMAIN events : events[i].kind = "worker_spawn_verified" /\ events[i].pane = p}
NewestIn(p) == CHOOSE i \in VerifiedIn(p) : \A j \in VerifiedIn(p) : j <= i

Judgements(t) == Of("retro_gate_acked", t) \union Of("retro_gate_confirmed_missing", t)

\* Mutant: an ack of an earlier dispatch of the task is as good.
AckedEver(p) == Judgements(events[NewestIn(p)].task) # {}

Acked(p) == \E i \in Judgements(events[NewestIn(p)].task) : i > NewestIn(p)

MayClose(p) ==
  VerifiedIn(p) # {} =>
    LET t == events[NewestIn(p)].task
    IN \/ Acked(p)
       \/ runs[t].status = "completed"
       \/ reported[t] /\ runs[t].status = "review"

\* close_pane.  Left over from an earlier worker are reports that the run's state tells apart.
ClosePane(p) ==
  LET t == up[p].task IN
  /\ up[p].live /\ MayClose(p)
  /\ up' = [up EXCEPT ![p] = Free]
  /\ wrong' = IF up[p].verified /\ t \notin judged /\ runs[t].status = "in_use"
              THEN wrong \union {p} ELSE wrong
  /\ UNCHANGED <<runs, events, inbox, gate, reported, sent, judged>>

-----------------------------------------------------------------------------
RetroInit == /\ runs = NoRuns /\ events = <<>>
             /\ up = [p \in PaneIds |-> Free]
             /\ inbox = <<>> /\ gate = NoGate
             /\ reported = [t \in Tasks |-> FALSE]
             /\ sent = 0 /\ judged = {} /\ wrong = {}

RetroNext ==
  \/ \E t \in Tasks : Report(t) \/ Reopen(t) \/ Complete(t) \/ Ask(t)
  \/ \E p \in PaneIds : ClosePane(p) \/ (\E t \in Tasks : SpawnWorker(p, t))
  \/ Answer \/ DaemonRestart \/ Attempt \/ ReadReply \/ DropGate

RetroSpec == RetroInit /\ [][RetroNext]_retroVars

RetroTypeOK ==
  /\ runs \in [Tasks -> Run]
  /\ up \in [PaneIds -> [verified : BOOLEAN, task : Tasks, live : BOOLEAN]]
  /\ inbox \in Seq(Bodies)
  /\ gate \in [task : Tasks, attempt : 0..MaxAttempts, last : Bodies \union {"none"},
               verdict : {"none", "replied_no_ack"}]
  /\ reported \in [Tasks -> BOOLEAN] /\ judged \subseteq Tasks

\* The pane of a verified worker that is still at work is closed only after a gate was
\* passed for it: the ack of an earlier dispatch, a report from before a reopening and a
\* pane number used before do not open it.
ClosedAfterItsRetro == wrong = {}
=============================================================================
