-------------------------- MODULE DeliveryContract --------------------------
(***************************************************************************)
(* What the outbox relay promises to a recipient, with no ledger, scan,    *)
(* heartbeat or dispatcher in sight: an event that was logged may be       *)
(* received (any number of times, at-least-once), and it may be settled,   *)
(* that is, given up for relaying, only after it was received.  Being      *)
(* settled is for ever.                                                    *)
(***************************************************************************)
CONSTANTS Recipients,   \* who terminal events are relayed to
          Ids           \* the ids events can have

VARIABLES logged,       \* the ids of the events that exist
          received,     \* received[r]: the ids r was told about at least once
          settled       \* settled[r]: the ids that will not be relayed to r again

contractVars == <<logged, received, settled>>

CInit == /\ logged \subseteq Ids
         /\ received = [r \in Recipients |-> {}]
         /\ settled = [r \in Recipients |-> {}]

\* A producer records one more event.
Log == /\ \E i \in Ids \ logged : logged' = logged \union {i}
       /\ UNCHANGED <<received, settled>>

\* A recipient is told about a logged event.
Receive == \E r \in Recipients : \E i \in logged :
             /\ received' = [received EXCEPT ![r] = @ \union {i}]
             /\ UNCHANGED <<logged, settled>>

\* An event is settled for a recipient that was told about it.
Settle == \E r \in Recipients : \E i \in received[r] :
            /\ settled' = [settled EXCEPT ![r] = @ \union {i}]
            /\ UNCHANGED <<logged, received>>

CNext == Log \/ Receive \/ Settle

CSpec == CInit /\ [][CNext]_contractVars
=============================================================================
