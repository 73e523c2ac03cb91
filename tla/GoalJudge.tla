----------------------------- MODULE GoalJudge -----------------------------
(***************************************************************************)
(* The goal stage of the work discovery, tools/work_discovery_goals.py:    *)
(* every scan asks a model which clause of the operator's goals each of    *)
(* its candidates serves.  An answer is kept under a key made of the       *)
(* clauses and of the candidate's text, a call is paid for out of a daily  *)
(* budget that is kept in a file, and a failed call keeps the next ones    *)
(* away for an hour.  Scans overlap, and take no lock.                     *)
(***************************************************************************)
EXTENDS Integers, FiniteSets, TLC

CONSTANTS Scans,     \* scan processes
          Issues,    \* open issues with resolved dependencies, in the order of their cap key
          MaxTexts,  \* bound: texts of an issue and of the clauses it is judged by
          MaxHour,  \* bound: the clock, whose ticks are longer than a scan
          DayLength, \* ticks of a day
          Cooldown,  \* COOLDOWN_SECONDS, in ticks
          Cap,       \* --judge-max-budget-usd
          Daily,     \* --judge-daily-budget-usd
          BatchMax,  \* --judge-max-candidates
          MaxCalls   \* bound: calls

ASSUME JudgeAssumption ==
  /\ {MaxTexts, MaxHour, DayLength, Cooldown, Cap, Daily, BatchMax, MaxCalls} \subseteq Nat \ {0}
  /\ Cooldown > 1 \* a tick is longer than a scan, and the cooldown longer than a tick
  /\ Issues \subseteq Nat

VARIABLES issue,    \* issue[i]: its text and clauses; 0: put aside since, or without a ledger
          kept,     \* judgements/: the keys an answer is kept under
          failure,  \* judge_last_failure.json
          spending, \* judge_spend.jsonl: the sum of each day
          hour,
          scan,     \* scan[s]: the process
          ghost     \* what was really spent, and what no file shows

judgeVars == <<issue, kept, failure, spending, hour, scan, ghost>>

Days == 0..(MaxHour \div DayLength)
DayOf(t) == t \div DayLength
Texts == 1..MaxTexts
Keys == Issues \X Texts
NoFailure == [scope |-> "none", batch |-> {}, at |-> 0]
NoScan == [pc |-> "idle", now |-> 0, batch |-> {}, outcome |-> "none", cost |-> 0]
Answers == {"success", "batch"} \* one judgement for each candidate, or a wrong one among them
Envelopes == Answers \union {"global", "spawn_failed"}

\* --------------------------------------------------------------------------
(* The state of the world                                                   *)

\* A title, a body, a label or a clause changes.
Edit(i) ==
  /\ \E text \in Texts \ {issue[i]} : issue' = [issue EXCEPT ![i] = text]
  /\ UNCHANGED <<kept, failure, spending, hour, scan, ghost>>

\* The human puts the issue aside, and it stays so until its next update.
AppendPutAside(i) ==
  /\ issue' = [issue EXCEPT ![i] = 0]
  /\ UNCHANGED <<kept, failure, spending, hour, scan, ghost>>

\* A scan takes no longer than a tick.
PassHour == /\ hour < MaxHour /\ \A s \in Scans : scan[s].pc # "idle" => scan[s].now = hour
        /\ hour' = hour + 1
        /\ UNCHANGED <<issue, kept, failure, spending, scan, ghost>>

\* --------------------------------------------------------------------------
(* One scan                                                                 *)

CacheKey(i) == <<i, issue[i]>>

Stands(s, pc) == scan[s].pc = pc
GoOn(s, pc) == scan' = [scan EXCEPT ![s].pc = pc]
Fail(s) == scan' = [scan EXCEPT ![s] = NoScan] \* exit 2, nothing is offered

\* The candidates without a judgement, as many as one call may take; the others wait for
\* a later scan.
Batch(uncached) ==
  {k \in uncached : Cardinality({l \in uncached : l[1] < k[1]}) < BatchMax}

\* Without clauses to judge by, or put aside, an issue is not asked about.
Judged == {i \in Issues : issue[i] # 0}

\* Ledger, put-aside file and judgements are read; with nothing to ask no call is made.
StartScan(s) ==
  LET batch == Batch({CacheKey(i) : i \in Judged} \ kept)
  IN /\ Stands(s, "idle") /\ batch # {}
     /\ scan' = [scan EXCEPT ![s] = [NoScan EXCEPT !.pc = "check", !.now = hour, !.batch = batch]]
     /\ ghost' = [ghost EXCEPT !.unaware = @ \ {s}]
     /\ UNCHANGED <<issue, kept, failure, spending, hour>>

\* Mutant: a call that never came back keeps nobody away.
CoolingUnlessUnfinished(s) ==
  /\ scan[s].now - failure.at \in 0..Cooldown - 1
  /\ \/ failure.scope = "global"
     \/ failure.scope = "batch" /\ failure.batch = scan[s].batch

\* A record of a call in progress counts as a failure of the environment.
Cooling(s) ==
  /\ scan[s].now - failure.at \in 0..Cooldown - 1
  /\ \/ failure.scope \in {"global", "in_progress"}
     \/ failure.scope = "batch" /\ failure.batch = scan[s].batch

CheckCooldown(s) ==
  /\ Stands(s, "check")
  /\ IF Cooling(s) THEN Fail(s) ELSE GoOn(s, "budget")
  /\ UNCHANGED <<issue, kept, failure, spending, hour, ghost>>

\* A call that costs the most it may would go beyond the day's budget.
Exhausted(s) == spending[DayOf(scan[s].now)] + Cap > Daily

SpentToday(s) ==
  /\ Stands(s, "budget")
  /\ IF Exhausted(s) THEN Fail(s) ELSE GoOn(s, "begin")
  /\ UNCHANGED <<issue, kept, failure, spending, hour, ghost>>

\* A record that cannot be written is reported and no more.
FailureOf(s, scope) == [scope |-> scope, batch |-> scan[s].batch, at |-> scan[s].now]
WriteFailure(s, scope) == failure' \in {failure, FailureOf(s, scope)}

BeginCall(s) ==
  /\ Stands(s, "begin") /\ ghost.calls < MaxCalls
  /\ WriteFailure(s, "in_progress")
  /\ GoOn(s, "call")
  /\ ghost' = [ghost EXCEPT !.calls = @ + 1, !.unaware = @ \union (Scans \ {s}),
                            !.raced = @ \/ s \in ghost.unaware \/ failure' # FailureOf(s, "in_progress")]
  /\ UNCHANGED <<issue, kept, spending, hour>>

Spent(s, cost) == [ghost.real EXCEPT ![DayOf(scan[s].now)] = @ + cost]

\* The answer, or a failure of one of the kinds; a command that was not found costs nothing.
CallEnds(s) ==
  /\ Stands(s, "call")
  /\ \E outcome \in Envelopes, cost \in 0..Cap :
       /\ outcome = "spawn_failed" => cost = 0
       /\ scan' = [scan EXCEPT ![s].pc = "spend", ![s].outcome = outcome, ![s].cost = cost]
       /\ ghost' = [ghost EXCEPT !.real = Spent(s, cost)]
  /\ UNCHANGED <<issue, kept, failure, spending, hour>>

\* Mutant: what is not known is not counted.
CountedIfKnown(s) == CASE scan[s].outcome = "spawn_failed" -> {0}
                       [] scan[s].outcome = "global" -> {0}
                       [] OTHER -> {scan[s].cost}

\* What a timeout has cost, or an answer does not say, counts as the most it may cost.
Counted(s) == CASE scan[s].outcome = "spawn_failed" -> {0}
                [] scan[s].outcome = "global" -> {Cap}
                [] OTHER -> {scan[s].cost, Cap}

\* A line that cannot be written is reported and no more.
AppendSpend(s) ==
  /\ Stands(s, "spend")
  /\ \E cost \in Counted(s) \union {0} :
       /\ spending' = [spending EXCEPT ![DayOf(scan[s].now)] = @ + cost]
       /\ ghost' = IF cost \in Counted(s) THEN ghost ELSE [ghost EXCEPT !.lost = @ + 1]
  /\ GoOn(s, "record")
  /\ UNCHANGED <<issue, kept, failure, hour>>

\* A success clears the failure, whoever left it, and keeps the answers it can write.
Succeed(s) ==
  /\ Stands(s, "record") /\ scan[s].outcome = "success"
  /\ failure' \in {failure, NoFailure}
  /\ \E written \in SUBSET scan[s].batch : kept' = kept \union written
  /\ Fail(s)
  /\ UNCHANGED <<issue, spending, hour, ghost>>

\* Nothing is offered, and nothing of a wrong answer is used.
JudgeFails(s) ==
  /\ Stands(s, "record") /\ scan[s].outcome # "success"
  /\ WriteFailure(s, IF scan[s].outcome = "batch" THEN "batch" ELSE "global")
  /\ Fail(s)
  /\ UNCHANGED <<issue, kept, spending, hour, ghost>>

\* The scan is killed; the call goes on without it.
KillScan(s) ==
  /\ scan[s].pc # "idle"
  /\ \E cost \in IF Stands(s, "call") THEN 0..Cap ELSE {0} :
       ghost' = [ghost EXCEPT !.real = Spent(s, cost),
                              !.lost = @ + IF scan[s].pc \in {"call", "spend"} THEN 1 ELSE 0]
  /\ Fail(s)
  /\ UNCHANGED <<issue, kept, failure, spending, hour>>

\* --------------------------------------------------------------------------
JudgeInit ==
  /\ issue = [i \in Issues |-> 1]
  /\ kept = {} /\ failure = NoFailure /\ spending = [d \in Days |-> 0] /\ hour = 0
  /\ scan = [s \in Scans |-> NoScan]
  /\ ghost = [real |-> [d \in Days |-> 0], calls |-> 0, lost |-> 0, raced |-> FALSE, unaware |-> {}]

JudgeNext ==
  \/ PassHour
  \/ \E i \in Issues : Edit(i) \/ AppendPutAside(i)
  \/ \E s \in Scans : \/ StartScan(s) \/ CheckCooldown(s) \/ SpentToday(s) \/ BeginCall(s)
                      \/ CallEnds(s) \/ AppendSpend(s) \/ Succeed(s) \/ JudgeFails(s)
                      \/ KillScan(s)

JudgeSpec == JudgeInit /\ [][JudgeNext]_judgeVars

JudgeTypeOK ==
  /\ hour \in 0..MaxHour
  /\ issue \in [Issues -> 0..MaxTexts]
  /\ kept \subseteq Keys
  /\ \A d \in Days : spending[d] \in Nat

\* Whatever the scans and the deaths between their steps, a day costs no more than its
\* budget and one call for each line that could not be written, as long as no scan begins
\* a call when another one began since it started, and each call is announced.
SpendingIsBounded ==
  ~ghost.raced => \A d \in Days : ghost.real[d] <= Daily + Cap * ghost.lost
=============================================================================
