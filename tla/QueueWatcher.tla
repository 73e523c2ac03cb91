---------------------------- MODULE QueueWatcher ----------------------------
(***************************************************************************)
(* tools/secretary_queue_watcher.py: it tails the broker's journal and     *)
(* exits, to wake the secretary, when a message for it stays undelivered   *)
(* too long or is lost in a restart of the broker.  The journal says how   *)
(* many were delivered, hardly ever which.  What was undelivered when the  *)
(* watcher started is accounted for first and never reported.  The broker  *)
(* is external, and is modelled as far as the watcher reads it.            *)
(***************************************************************************)
EXTENDS Integers, Sequences, FiniteSets

CONSTANTS MaxMessages, \* bound: messages for the secretary
          MaxClock,    \* bound: the clock
          StaleAfter,  \* --stale-sec
          MaxRestarts, \* bound: restarts of the broker
          MaxJournal   \* bound: records

ASSUME QueueAssumption ==
  {MaxMessages, MaxClock, StaleAfter, MaxRestarts, MaxJournal} \subseteq Nat

VARIABLES waiting, \* messages the broker holds, by their numbers: the free and the claimed ones
          journal, \* queue.jsonl
          hand,    \* what the broker did and has not written down yet: at most one record
          clock,
          tail     \* the watcher, with the ghost `clean`: it started with nothing in hand

queueVars == <<waiting, journal, hand, clock, tail>>

Ids == 1..MaxMessages
Held == waiting.free \union waiting.claimed

\* A record: what happened, to which messages or how many, and when.
Rec(event, ids, count, ts) == [event |-> event, ids |-> ids, count |-> count, ts |-> ts]
Sends(list) == {i \in DOMAIN list : list[i].event = "message_enqueued"}
SentIn(list) == UNION {list[i].ids : i \in Sends(list)}

NoTail == [state |-> "off", offset |-> 0, pending |-> <<>>, delivered |-> 0,
           oldUnclaimed |-> 0, oldClaimed |-> {}, start |-> 0, clean |-> FALSE]

-----------------------------------------------------------------------------
(* The broker                                                              *)

Room == Len(journal) + Len(hand) < MaxJournal
Write(record) == Room /\ journal' = Append(journal, record) /\ hand' = hand

\* The broker journals outside its lock: the record of an enqueue may be overtaken, by
\* that of its own delivery too.  The numbers rise.
Enqueue(id) ==
  LET record == Rec("message_enqueued", {id}, 1, clock)
      sent == SentIn(journal) \union SentIn(hand)
  IN /\ \A j \in sent : j < id
     /\ id - 1 \in sent \union {0}
     /\ waiting' = [waiting EXCEPT !.free = @ \union {id}]
     /\ \/ Write(record)
        \/ hand = <<>> /\ Room /\ hand' = <<record>> /\ journal' = journal
     /\ UNCHANGED <<clock, tail>>

WriteHand == /\ hand # <<>>
             /\ journal' = Append(journal, hand[1]) /\ hand' = <<>>
             /\ UNCHANGED <<waiting, clock, tail>>

\* The sidecar claims the oldest message that is free, under a lease that may run out.
ClaimMessage(id) ==
  /\ id \in waiting.free /\ \A j \in waiting.free : id <= j
  /\ waiting' = [free |-> waiting.free \ {id}, claimed |-> waiting.claimed \union {id}]
  /\ Write(Rec("claimed", {id}, 1, clock))
  /\ UNCHANGED <<clock, tail>>

LeaseReaped(id) ==
  /\ id \in waiting.claimed
  /\ waiting' = [free |-> waiting.free \union {id}, claimed |-> waiting.claimed \ {id}]
  /\ Write(Rec("lease_reaped", {id}, 1, clock))
  /\ UNCHANGED <<clock, tail>>

Deliver(id) ==
  /\ id \in waiting.claimed
  /\ waiting' = [waiting EXCEPT !.claimed = @ \ {id}]
  /\ Write(Rec("delivered", {id}, 1, clock))
  /\ UNCHANGED <<clock, tail>>

\* check_messages takes what is not claimed; the journal has the count alone.
Drain ==
  /\ waiting.free # {}
  /\ waiting' = [waiting EXCEPT !.free = {}]
  /\ Write(Rec("queue_drained", {}, Cardinality(waiting.free), clock))
  /\ UNCHANGED <<clock, tail>>

\* The queue is in memory only.
RestartBroker ==
  /\ Cardinality({i \in DOMAIN journal : journal[i].event = "broker_started"}) < MaxRestarts
  /\ Len(journal) < MaxJournal
  /\ waiting' = [free |-> {}, claimed |-> {}] /\ hand' = <<>>
  /\ journal' = Append(journal, Rec("broker_started", {}, 0, clock))
  /\ UNCHANGED <<clock, tail>>

Tick == /\ clock < MaxClock /\ clock' = clock + 1
        /\ UNCHANGED <<waiting, journal, hand, tail>>

-----------------------------------------------------------------------------
(* The watcher                                                             *)

\* Mutant: the count is taken as it comes.
NotFloored(n) == n

AtLeast0(n) == IF n > 0 THEN n ELSE 0
Least(m, n) == IF m < n THEN m ELSE n

\* The scan of what was there before, since the broker's last start.
Scan(count, record) ==
  CASE record.event = "broker_started" -> [in |-> 0, out |-> 0, claimed |-> {}]
    [] record.event = "message_enqueued" -> [count EXCEPT !.in = @ + 1]
    [] record.event = "claimed" -> [count EXCEPT !.claimed = @ \union record.ids]
    [] record.event = "lease_reaped" -> [count EXCEPT !.claimed = @ \ record.ids]
    [] record.event = "delivered" -> [count EXCEPT !.claimed = @ \ record.ids, !.out = @ + 1]
    [] OTHER -> [count EXCEPT !.out = @ + record.count]

Counts ==
  LET count[n \in 0..Len(journal)] ==
        IF n = 0 THEN [in |-> 0, out |-> 0, claimed |-> {}] ELSE Scan(count[n - 1], journal[n])
  IN count[Len(journal)]

\* Mutant: the messages left from before are forgotten.
StartedAfresh(counts, held) ==
  [NoTail EXCEPT !.state = "watch", !.offset = Len(journal), !.start = Len(journal),
                 !.clean = hand = <<>>]

Backlog(counts) == AtLeast0(counts.in - counts.out)

Started(counts, held) ==
  [NoTail EXCEPT !.state = "watch", !.offset = Len(journal), !.start = Len(journal),
                 !.oldClaimed = held, !.oldUnclaimed = AtLeast0(Backlog(counts) - Cardinality(held)),
                 !.delivered = AtLeast0(counts.out - counts.in), !.clean = hand = <<>>]

\* Of more claims than the backlog has messages, those of records to come among them, the
\* earliest are kept.
ClaimedBefore(i, j) ==
  \E n \in DOMAIN journal :
    /\ journal[n].event = "claimed" /\ j \in journal[n].ids
    /\ \A m \in n..Len(journal) : journal[m].event = "claimed" => i \notin journal[m].ids

StartTail ==
  /\ tail.state = "off"
  /\ LET counts == Counts IN
     \E held \in SUBSET counts.claimed :
       /\ Cardinality(held) = Least(Backlog(counts), Cardinality(counts.claimed))
       /\ \A i \in held, j \in counts.claimed \ held : ClaimedBefore(i, j)
       /\ tail' = Started(counts, held)
  /\ UNCHANGED <<waiting, journal, hand, clock>>

\* Deliveries are credited to the messages from before the start, while there are any.
Credit(w, n) == LET old == Least(w.oldUnclaimed, n)
                IN [w EXCEPT !.oldUnclaimed = @ - old, !.delivered = @ + n - old]

Restarted(w) ==
  IF Len(w.pending) > w.delivered THEN [w EXCEPT !.state = "loss"]
  ELSE [w EXCEPT !.pending = <<>>, !.delivered = 0, !.oldUnclaimed = 0, !.oldClaimed = {}]

\* A watcher that saw a loss has exited.
Read(w, record) ==
  LET old == w.oldClaimed \intersect record.ids
      event == record.event IN
  IF w.state = "loss" THEN w ELSE
  CASE event = "broker_started" -> Restarted(w)
    [] event = "message_enqueued" -> [w EXCEPT !.pending = Append(@, record.ts)]
    [] event = "claimed" ->
         IF w.oldUnclaimed = 0 THEN w
         ELSE [w EXCEPT !.oldUnclaimed = @ - 1, !.oldClaimed = @ \union record.ids]
    [] event = "lease_reaped" ->
         [w EXCEPT !.oldUnclaimed = @ + Cardinality(old), !.oldClaimed = @ \ old]
    [] event = "delivered" ->
         IF old # {} THEN [w EXCEPT !.oldClaimed = @ \ old] ELSE Credit(w, 1)
    [] OTHER -> Credit(w, record.count)

Stagnant(w) == /\ w.state = "watch" /\ Len(w.pending) > w.delivered
               /\ clock - w.pending[w.delivered + 1] > StaleAfter

\* What has been appended since the last poll.
ReadOn ==
  LET read[n \in tail.offset..Len(journal)] ==
        IF n = tail.offset THEN tail ELSE Read(read[n - 1], journal[n])
  IN read[Len(journal)]

Poll ==
  LET w == ReadOn IN
  /\ tail.state = "watch"
  /\ tail' = IF w.state = "loss" THEN w
             ELSE IF Stagnant(w) THEN [w EXCEPT !.state = "stagnation"]
             ELSE [w EXCEPT !.offset = Len(journal)]
  /\ UNCHANGED <<waiting, journal, hand, clock>>

-----------------------------------------------------------------------------
QueueInit == /\ waiting = [free |-> {}, claimed |-> {}]
             /\ journal = <<>> /\ hand = <<>> /\ clock = 0 /\ tail = NoTail

QueueStep ==
  \/ Drain \/ RestartBroker \/ WriteHand \/ Tick \/ StartTail \/ Poll
  \/ \E id \in Ids : Enqueue(id) \/ ClaimMessage(id) \/ LeaseReaped(id) \/ Deliver(id)

\* The watcher's exit ends the run: it wakes the secretary, who starts the next one.
QueueNext == tail.state \in {"off", "watch"} /\ QueueStep

QueueSpec == QueueInit /\ [][QueueNext]_queueVars

QueueTypeOK ==
  /\ waiting.free \subseteq Ids /\ waiting.claimed \subseteq Ids \ waiting.free
  /\ clock \in 0..MaxClock
  /\ tail.state \in {"off", "watch", "loss", "stagnation"}
  /\ tail.offset \in 0..Len(journal) /\ tail.delivered \in Nat
  /\ tail.oldUnclaimed \in Nat /\ tail.oldClaimed \subseteq Ids
  /\ hand = <<>> \/ Len(hand) = 1

\* Messages written down since the watcher started that the broker still holds.
Fresh == {i \in Sends(journal) : i > tail.start}
Undelivered == {i \in Fresh : journal[i].ids \intersect Held # {}}

\* A stagnation that is reported is one: the broker held a message when the poll read it.
NoFalseAlarm ==
  [][tail'.state = "stagnation" /\ tail.state = "watch" => Held # {}]_tail

\* A poll that goes on watching leaves no message behind when everything written down
\* since the start is older than the threshold, unless the broker was about to write
\* something down when it polled, or when the watcher started: a message whose claim is
\* in the journal before its enqueue is then taken for an old one when another is free
\* (the trim at 507-513 keeps as many claims as there is backlog), and is never reported.
NothingStagnates ==
  [][(Poll /\ tail'.state = "watch" /\ tail.clean /\ hand = <<>> /\ Undelivered # {})
       => \E i \in Fresh : clock - journal[i].ts <= StaleAfter]_tail

\* The secretary is woken for a waiting message, and for nothing else.
AlarmsAreRight == NoFalseAlarm /\ NothingStagnates
=============================================================================
