--------------------------- MODULE MCOutboxRelay ---------------------------
(* The relay with an overlapping pair of sessions serving the secretary.   *)
EXTENDS OutboxRelay

CONSTANTS secretary, old, new

MCServes == [d \in Dispatchers |-> secretary]
MCBackfills == {FALSE, TRUE}
=============================================================================
