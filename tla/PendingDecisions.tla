-------------------------- MODULE PendingDecisions --------------------------
(***************************************************************************)
(* The register of questions to the human, tools/pending_decisions.py.  A  *)
(* worker's question is appended when the secretary gets it, escalated     *)
(* when the human is told, marked when the human has replied, resolved     *)
(* when the worker is told.  Every command reads the file, changes it and  *)
(* replaces it; two that overlap may each undo what the other did.         *)
(***************************************************************************)
EXTENDS Integers, Sequences, FiniteSets, SequencesExt

CONSTANTS Askers,     \* task ids with questions
          Callers,    \* commands that may overlap
          MaxEntries, \* bound: entries of the register
          MaxMinutes  \* bound: the clock, whose ticks are wider than two commands

ASSUME RegisterAssumption == MaxEntries \in Nat /\ MaxMinutes \in Nat /\ Askers # {}

VARIABLES register, \* the file: its entries, none if it is torn
          torn,     \* whether the file is no JSON: every command that reads it fails
          tmp,      \* the one tmp file
          command,  \* command[c]: what c runs, the entries it has read or writes, and into which file
          minute

registerVars == <<register, torn, tmp, command, minute>>

Entry == [task : Askers, at : 0..MaxMinutes, status : {"pending", "escalated", "resolved"},
          replied : BOOLEAN]
Verbs == {"append", "to_user", "to_worker", "mark"}

\* A file that commands write: an empty one reads as no entries.
Text(entries) == [status |-> "text", entries |-> entries]
TornText == [status |-> "torn", entries |-> <<>>]
Absent == [status |-> "absent", entries |-> <<>>]

Resting == [at |-> "rest", verb |-> "none", task |-> CHOOSE t \in Askers : TRUE,
            entries |-> <<>>, file |-> "none"]

-----------------------------------------------------------------------------
\* Mutant: of two of the same second the later one is advanced.
OldestLate(entries, eligible) ==
  CHOOSE i \in eligible : \A j \in eligible :
    entries[i].at < entries[j].at \/ (entries[i].at = entries[j].at /\ i >= j)

\* The first of the oldest.
Oldest(entries, eligible) ==
  CHOOSE i \in eligible : \A j \in eligible :
    entries[i].at < entries[j].at \/ (entries[i].at = entries[j].at /\ i <= j)

Having(entries, t, statuses) ==
  {i \in DOMAIN entries : entries[i].task = t /\ entries[i].status \in statuses}

\* A task has one pending entry at a time; older ones do not hinder a new one.
Appended(entries, t) ==
  IF Having(entries, t, {"pending"}) # {} THEN entries
  ELSE Append(entries, [task |-> t, at |-> minute, status |-> "pending", replied |-> FALSE])

\* Advances the oldest eligible entry; none is no change.
Resolved(entries, t, from, status) ==
  LET eligible == Having(entries, t, from) IN
  IF eligible = {} THEN entries
  ELSE [entries EXCEPT ![Oldest(entries, eligible)].status = status]

\* Marks the oldest escalated entry without a mark.
MarkUserReplied(entries, t) ==
  LET unmarked == {i \in Having(entries, t, {"escalated"}) : ~entries[i].replied} IN
  IF unmarked = {} THEN entries
  ELSE [entries EXCEPT ![Oldest(entries, unmarked)].replied = TRUE]

After(verb, entries, t) ==
  CASE verb = "append" -> Appended(entries, t)
    [] verb = "to_user" -> Resolved(entries, t, {"pending"}, "escalated")
    [] verb = "to_worker" -> Resolved(entries, t, {"pending", "escalated"}, "resolved")
    [] verb = "mark" -> MarkUserReplied(entries, t)

\* The newest entry of a task; the later one of a tie.
LatestForTask(t) ==
  LET own == Having(register, t, {"pending", "escalated", "resolved"}) IN
  IF own = {} THEN 0
  ELSE CHOOSE i \in own : \A j \in own :
         register[j].at < register[i].at \/ (register[j].at = register[i].at /\ j <= i)

\* What the dispatcher asks of a silent worker.
EscalationTraceIsStale(t) ==
  LatestForTask(t) # 0 /\ register[LatestForTask(t)].status = "resolved"

-----------------------------------------------------------------------------
\* _load: a torn file is an error, and the command ends.
StartCommand(c, verb, t) ==
  /\ command[c].at = "rest" /\ ~torn
  /\ verb = "append" => Len(register) < MaxEntries
  /\ command' = [command EXCEPT ![c] = [at |-> "read", verb |-> verb, task |-> t,
                                        entries |-> register, file |-> "none"]]
  /\ UNCHANGED <<register, torn, tmp, minute>>

Changed(c) == After(command[c].verb, command[c].entries, command[c].task)

\* There is nothing to change.
ReturnUnchanged(c) ==
  /\ command[c].at = "read" /\ Changed(c) = command[c].entries
  /\ command' = [command EXCEPT ![c] = Resting]
  /\ UNCHANGED <<register, torn, tmp, minute>>

\* _atomic_write opens the tmp file, which empties the one another command writes.
OpenTmp(c) ==
  /\ command[c].at = "read" /\ Changed(c) # command[c].entries
  /\ tmp' = Text(<<>>)
  /\ command' = [command EXCEPT
       ![c] = [Resting EXCEPT !.at = "open", !.entries = Changed(c), !.file = "tmp"]]
  /\ UNCHANGED <<register, torn, minute>>

\* Text put into the file a command has open, under whichever name that file is now.
Put(file, entries, whole) ==
  \/ /\ file = "tmp" /\ tmp' = IF whole THEN Text(entries) ELSE TornText
     /\ UNCHANGED <<register, torn>>
  \/ /\ file = "register" /\ register' = IF whole THEN entries ELSE <<>>
     /\ torn' = ~whole /\ UNCHANGED tmp
  \/ file = "replaced" /\ UNCHANGED <<register, torn, tmp>>

\* Whether another command has written into it since it was opened.
Shared(file) == \/ file = "tmp" /\ tmp # Text(<<>>)
                \/ file = "register" /\ (torn \/ register # <<>>)

\* Over the longer text of another command it leaves that one's end.
WriteText(c) ==
  /\ command[c].at = "open"
  /\ \E whole \in BOOLEAN : /\ whole \/ Shared(command[c].file)
                            /\ Put(command[c].file, command[c].entries, whole)
  /\ command' = [command EXCEPT ![c] = [Resting EXCEPT !.at = "written",
                                                      !.file = command[c].file]]
  /\ UNCHANGED minute

\* os.replace: whatever stands under the name of the tmp file becomes the register, and who
\* has it open writes into the register.  Another command may have moved it: then it fails.
WriteBack(c) ==
  /\ command[c].at = "written"
  /\ \/ tmp.status = "absent" /\ UNCHANGED <<register, torn, tmp>>
        /\ command' = [command EXCEPT ![c] = Resting]
     \/ /\ tmp.status # "absent"
        /\ register' = tmp.entries /\ torn' = (tmp.status = "torn") /\ tmp' = Absent
        /\ command' = [d \in Callers |->
             IF d = c THEN Resting
             ELSE [command[d] EXCEPT !.file = CASE @ = "tmp" -> "register"
                                                [] @ = "register" -> "replaced"
                                                [] OTHER -> @]]
  /\ UNCHANGED minute

\* Killed or failing before the replace; in the middle of its text it leaves a part of it.
CommandDies(c) ==
  /\ command[c].at # "rest"
  /\ \/ UNCHANGED <<register, torn, tmp>>
     \/ command[c].at = "open" /\ Put(command[c].file, <<>>, FALSE)
  /\ command' = [command EXCEPT ![c] = Resting]
  /\ UNCHANGED minute

PassMinute == /\ minute < MaxMinutes /\ minute' = minute + 1
              /\ UNCHANGED <<register, torn, tmp, command>>

RegisterInit == /\ register = <<>> /\ torn = FALSE /\ tmp = Absent /\ minute = 0
                /\ command = [c \in Callers |-> Resting]

RegisterNext ==
  \/ PassMinute
  \/ \E c \in Callers : \/ ReturnUnchanged(c) \/ OpenTmp(c) \/ WriteText(c)
                        \/ WriteBack(c) \/ CommandDies(c)
                        \/ \E verb \in Verbs, t \in Askers : StartCommand(c, verb, t)

RegisterSpec == RegisterInit /\ [][RegisterNext]_registerVars

RegisterTypeOK ==
  /\ register \in Seq(Entry) /\ torn \in BOOLEAN /\ minute \in 0..MaxMinutes
  /\ tmp.status \in {"absent", "text", "torn"} /\ tmp.entries \in Seq(Entry)
  /\ \A c \in Callers : /\ command[c].at \in {"rest", "read", "open", "written"}
                        /\ command[c].verb \in Verbs \union {"none"}
                        /\ command[c].file \in {"none", "tmp", "register", "replaced"}
                        /\ command[c].task \in Askers /\ command[c].entries \in Seq(Entry)

\* A worker whose newest question is answered waits for no other one, so the dispatcher may
\* take it for stuck; and of its questions the one that is answered next is one the human
\* has replied to, if there is any.
LatestSpeaksForAll ==
  \A t \in Askers, i \in DOMAIN register :
    register[i].task = t /\ register[i].status # "resolved" =>
      /\ ~EscalationTraceIsStale(t)
      /\ register[i].replied =>
           \A j \in 1..i - 1 : register[j].task = t /\ register[j].status # "resolved"
                                 => register[j].replied
=============================================================================
