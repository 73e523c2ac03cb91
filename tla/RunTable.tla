------------------------------ MODULE RunTable ------------------------------
(***************************************************************************)
(* What the writers of state.db promise about runs, with no transaction,   *)
(* lock, snapshot or hook in sight: a reservation is made together with    *)
(* its delegate_sent event, only over nothing or over a reservation that   *)
(* was not dispatched yet; a run that left queued changes status but never *)
(* becomes a reservation again; and the worker file is archived only while *)
(* the run is completed.                                                   *)
(***************************************************************************)
CONSTANTS Tasks,        \* task ids
          Later         \* the statuses after queued

VARIABLES runs,         \* runs[t]: committed status, "none" if there is no row
          sent,         \* the tasks with a delegate_sent event
          archived      \* the tasks whose worker file is under archive/

tableVars == <<runs, sent, archived>>

TInit == /\ runs = [t \in Tasks |-> "none"]
         /\ sent = {}
         /\ archived = {}

\* T1, and its repetition before dispatch.
Reserve == \E t \in Tasks :
             /\ runs[t] \in {"none", "queued"}
             /\ runs' = [runs EXCEPT ![t] = "queued"]
             /\ sent' = sent \union {t}
             /\ UNCHANGED archived

\* Every later transition: one atomic change of one row.
Change == \E t \in sent : \E s \in Later :
            /\ runs' = [runs EXCEPT ![t] = s]
            /\ UNCHANGED <<sent, archived>>

\* The worker file of a completed run is put away.
Archive == \E t \in Tasks :
             /\ runs[t] = "completed"
             /\ archived' = archived \union {t}
             /\ UNCHANGED <<runs, sent>>

TNext == Reserve \/ Change \/ Archive

TSpec == TInit /\ [][TNext]_tableVars
=============================================================================
