--------------------------- MODULE CodexRoundCap ---------------------------
(***************************************************************************)
(* The cap on a task's Codex reviews (tools/codex_round_cap.py, run by     *)
(* .hooks/block-codex-over-cap.sh before a worker's commands, and          *)
(* tools/codex_review_gate.sh).  A hook classifies the command, finds the  *)
(* task of the worker's directory, and counts and grants a round in one    *)
(* write transaction; the gate script then runs the review.  Hooks of      *)
(* parallel calls, the secretary and new dispatches share the events.      *)
(***************************************************************************)
EXTENDS EventLog

CONSTANTS Hooks,          \* hook processes
          DefaultAllowed, \* DEFAULT_ALLOWED
          Unlimited,      \* "unlimited"
          Allowances,     \* what the secretary may set
          MaxGrants       \* bound: events of any kind in the log

Nobody == "nobody"

ASSUME CapAssumption == /\ DefaultAllowed \in Nat /\ Unlimited \notin Nat
                        /\ Allowances \subseteq Nat \union {Unlimited}
                        /\ MaxGrants \in Nat /\ IsFiniteSet(Hooks) /\ Nobody \notin Hooks

VARIABLES hook,    \* hook[h]: where h stands
          lock,    \* who has the write transaction of state.db
          reviews  \* reviews[t][mode]: reviews that ran on a round of t

capVars == <<runs, events, hook, lock, reviews>>

Modes == {"diff", "design"}

-----------------------------------------------------------------------------
(* classify                                                                *)

\* A simple command as _scan and _split_simple_commands leave it: its program, what
\* its words (and the commands quoted in them) name, and whether it is a shell that
\* is fed text which mentions codex.
SimpleCommands == [prog : {"bash", "safe", "other"}, names : SUBSET {"codex", "gate"},
                   fed : BOOLEAN]
\* args: what follows a gate script; canonical: the path is the org's own script.
Commands == [parsed : BOOLEAN, first : SimpleCommands, more : BOOLEAN, substituted : BOOLEAN,
             canonical : BOOLEAN, args : {"none", "base", "design", "design file", "other"}]

\* _classify_words
WordFindings(s) ==
  IF s.prog = "safe" THEN {}
  ELSE (IF "codex" \in s.names \/ s.fed THEN {"direct"} ELSE {})
       \union (IF "gate" \in s.names THEN {"gate"} ELSE {})

\* classify_text; more: another simple command follows, of no interest itself.
Found(c) == WordFindings(c.first) \union (IF c.substituted THEN {"direct"} ELSE {})

Classify(c) ==
  IF ~c.parsed \/ "direct" \in Found(c) THEN "deny"
  ELSE IF Found(c) = {} THEN "allow"
  ELSE IF c.more \/ c.first.prog # "bash" \/ ~c.canonical \/ c.args = "other" THEN "deny"
  ELSE IF c.args \in {"design", "design file"} THEN "design" ELSE "diff"

Verdicts == {Classify(c) : c \in Commands}

-----------------------------------------------------------------------------
(* What the events say                                                     *)

Started(t, mode) == {i \in Of("codex_round_started", t) : events[i].mode = mode}

\* _count
Count(t, mode) == Cardinality(Started(t, mode))

\* _allowed, as of the first n events.
AllowedAt(t, n) ==
  LET changes == {i \in Of("codex_round_cap_changed", t) : i <= n}
  IN IF changes = {} THEN DefaultAllowed
     ELSE events[CHOOSE i \in changes : \A j \in changes : j <= i].allowed

Allowance(t, mode) == IF mode = "design" THEN 1 ELSE AllowedAt(t, Len(events))

Under(used, allowed) == allowed = Unlimited \/ used < allowed

\* _task_for_worker_dir: the newest dispatch into the directory.
Sent(dir) == {i \in DOMAIN events : events[i].kind = "delegate_sent" /\ events[i].dir = dir}
TaskForWorkerDir(dir) ==
  IF Sent(dir) = {} THEN {} ELSE {events[CHOOSE i \in Sent(dir) : \A j \in Sent(dir) : j <= i].task}

-----------------------------------------------------------------------------
(* The hook                                                                *)

Resting == [at |-> "idle", dir |-> NoDir, mode |-> "diff", task |-> CHOOSE t \in Tasks : TRUE,
            used |-> 0]

Call(h) ==
  /\ hook[h].at = "idle"
  /\ \E mode \in Verdicts \intersect Modes, tool \in {"Bash", "send_keys"}, dir \in Dirs :
       /\ tool = "Bash"
       /\ hook' = [hook EXCEPT ![h] = [Resting EXCEPT !.at = "lookup", !.dir = dir,
                                                      !.mode = mode]]
  /\ UNCHANGED <<runs, events, lock, reviews>>

LookUpTask(h) ==
  /\ hook[h].at = "lookup"
  /\ IF TaskForWorkerDir(hook[h].dir) = {}
     THEN hook' = [hook EXCEPT ![h] = Resting]
     ELSE \E t \in TaskForWorkerDir(hook[h].dir) :
            hook' = [hook EXCEPT ![h].at = "begin", ![h].task = t, ![h].dir = NoDir]
  /\ UNCHANGED <<runs, events, lock, reviews>>

\* Mutant: BEGIN takes no lock before the first write.
BeginDeferred(h) ==
  /\ hook[h].at = "begin"
  /\ hook' = [hook EXCEPT ![h].at = "count"]
  /\ UNCHANGED <<runs, events, lock, reviews>>

\* BEGIN IMMEDIATE
Begin(h) ==
  /\ hook[h].at = "begin" /\ lock = Nobody
  /\ lock' = h
  /\ hook' = [hook EXCEPT ![h].at = "count"]
  /\ UNCHANGED <<runs, events, reviews>>

CountRounds(h) ==
  /\ hook[h].at = "count"
  /\ hook' = [hook EXCEPT ![h].at = "write", ![h].used = Count(hook[h].task, hook[h].mode)]
  /\ UNCHANGED <<runs, events, lock, reviews>>

\* The event and the commit.
Grant(h) ==
  LET t == hook[h].task mode == hook[h].mode used == hook[h].used
      allowed == Allowance(t, mode) IN
  /\ hook[h].at = "write" /\ Len(events) < MaxGrants
  /\ IF Under(used, allowed)
     THEN /\ events' = Append(events, [kind |-> "codex_round_started", task |-> t,
                                       mode |-> mode, round |-> used + 1])
          /\ hook' = [hook EXCEPT ![h].at = "run", ![h].used = 0]
     ELSE /\ events' = Append(events, [kind |-> "codex_round_denied", task |-> t,
                                       mode |-> mode, used |-> used])
          /\ hook' = [hook EXCEPT ![h] = Resting]
  /\ lock' = Nobody
  /\ UNCHANGED <<runs, reviews>>

\* An error, a time-out on the lock or a death: rolled back, and denied.
Deny(h) ==
  /\ hook[h].at \in {"lookup", "begin", "count", "write"}
  /\ hook' = [hook EXCEPT ![h] = Resting]
  /\ lock' = IF lock = h THEN Nobody ELSE lock
  /\ UNCHANGED <<runs, events, reviews>>

\* The allowed command: the gate script runs the review, or gives up before it (no
\* design file, a dirty worktree, no codex).
RunGate(h) ==
  /\ hook[h].at = "run"
  /\ \E ran \in BOOLEAN :
       reviews' = IF ran THEN [reviews EXCEPT ![hook[h].task][hook[h].mode] = @ + 1] ELSE reviews
  /\ hook' = [hook EXCEPT ![h] = Resting]
  /\ UNCHANGED <<runs, events, lock>>

-----------------------------------------------------------------------------
(* The secretary                                                           *)

\* set; previous is what it read before.
SetAllowed(t) ==
  /\ lock = Nobody /\ Len(events) < MaxGrants /\ Of("delegate_sent", t) # {}
  /\ \E n \in Allowances :
       events' = Append(events, [kind |-> "codex_round_cap_changed", task |-> t, allowed |-> n])
  /\ UNCHANGED <<runs, hook, lock, reviews>>

Send(t) ==
  /\ lock = Nobody /\ Len(events) < MaxGrants
  /\ \E dir \in Dirs : /\ Cardinality(Of("delegate_sent", t)) < 2
                       /\ events' = Append(events, DelegateSent(t, dir))
  /\ UNCHANGED <<runs, hook, lock, reviews>>

-----------------------------------------------------------------------------
CapInit == /\ runs = NoRuns /\ events = <<>>
           /\ hook = [h \in Hooks |-> Resting]
           /\ lock = Nobody
           /\ reviews = [t \in Tasks |-> [mode \in Modes |-> 0]]

CapNext ==
  \/ \E t \in Tasks : SetAllowed(t) \/ Send(t)
  \/ \E h \in Hooks : \/ Call(h) \/ LookUpTask(h) \/ Begin(h) \/ CountRounds(h)
                      \/ Grant(h) \/ Deny(h) \/ RunGate(h)

CapSpec == CapInit /\ [][CapNext]_capVars

CapTypeOK ==
  /\ events \in Seq([kind : {"delegate_sent"}, task : Tasks, dir : Dirs]
        \union [kind : {"codex_round_started"}, task : Tasks, mode : Modes, round : Nat]
        \union [kind : {"codex_round_denied"}, task : Tasks, mode : Modes, used : Nat]
        \union [kind : {"codex_round_cap_changed"}, task : Tasks, allowed : Allowances])
  /\ hook \in [Hooks -> [at : {"idle", "lookup", "begin", "count", "write", "run"},
                         dir : Dirs \union {NoDir}, mode : Modes, task : Tasks, used : Nat]]
  /\ lock \in Hooks \union {Nobody}
  /\ reviews \in [Tasks -> [Modes -> Nat]]

\* No task is reviewed more often than rounds were granted to it, and no round was
\* granted over the allowance in force at that moment, parallel calls included.
ReviewsWithinAllowance ==
  \A t \in Tasks, mode \in Modes :
    /\ reviews[t][mode] <= Count(t, mode)
    /\ \A i \in Started(t, mode) :
         LET before == Cardinality({j \in Started(t, mode) : j < i})
         IN /\ events[i].round = before + 1
            /\ Under(before, IF mode = "design" THEN 1 ELSE AllowedAt(t, i))
=============================================================================
