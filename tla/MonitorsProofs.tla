--------------------------- MODULE MonitorsProofs ----------------------------
(***************************************************************************)
(* What the processes around the workers promise, for any brokers, askers, *)
(* messages, tabs, watchers and heads of the journal.                      *)
(***************************************************************************)
EXTENDS MCMonitors, FiniteSetTheorems, SequenceTheorems, WellFoundedInduction, TLAPS

\* Every set of numbers has a least one.
LEMMA LeastExists ==
  ASSUME NEW S, S \subseteq Nat, S # {}
  PROVE  \E k \in S : \A m \in S : k <= m
<1> DEFINE R == OpToRel(<, Nat)
<1>1. IsWellFoundedOn(R, Nat) BY NatLessThanWellFounded
<1>2. \A x, y \in Nat : y < x => <<y, x>> \in R BY DEF OpToRel
<1> HIDE DEF R
<1>3. PICK k \in S : \A y \in S : <<y, k>> \notin R BY <1>1, WFMin
<1>4. ASSUME NEW m \in S PROVE k <= m
  <2>1. k \in Nat /\ m \in Nat OBVIOUS
  <2>2. ~(m < k) BY <1>2, <1>3, <2>1
  <2> QED BY <2>1, <2>2
<1> QED BY <1>4

\* Every set of numbers that is bounded has a greatest one.
LEMMA GreatestExists ==
  ASSUME NEW n \in Nat, NEW S \in SUBSET (1..n), S # {}
  PROVE  \E k \in S : \A m \in S : m <= k
<1> DEFINE Bounds == {limit \in Nat : \A m \in S : m <= limit}
<1>1. n \in Bounds OBVIOUS
<1>2. PICK k \in Bounds : \A c \in Bounds : k <= c BY <1>1, LeastExists
<1>3. k \in S
  <2> SUFFICES ASSUME k \notin S PROVE FALSE OBVIOUS
  <2>1. k # 0
    <3>1. PICK m \in S : TRUE OBVIOUS
    <3> QED BY <3>1
  <2>2. k - 1 \in Bounds
    <3>1. ASSUME NEW m \in S PROVE m <= k - 1
      <4>1. m <= k /\ m # k /\ m \in Nat OBVIOUS
      <4> QED BY <4>1
    <3> QED BY <2>1, <3>1
  <2> QED BY <1>2, <2>2
<1> QED BY <1>3

\* The extremes that CHOOSE finds.
LEMMA MaxIsGreatest ==
  ASSUME NEW n \in Nat, NEW S \in SUBSET (1..n), S # {}
  PROVE  Max(S) \in S /\ Max(S) \in Nat /\ \A m \in S : m <= Max(S)
<1>1. PICK k \in S : \A m \in S : m <= k BY GreatestExists
<1>2. \A m \in S : m \in Nat /\ k \in Nat OBVIOUS
<1>3. k \in S /\ \A m \in S : k >= m BY <1>1, <1>2
<1>4. Max(S) \in S /\ \A m \in S : Max(S) >= m BY <1>3 DEF Max
<1> DEFINE top == Max(S)
<1>5. top \in S /\ \A m \in S : top >= m BY <1>4
<1> HIDE DEF top
<1>6. top \in Nat /\ \A m \in S : m <= top BY <1>2, <1>5
<1> QED BY <1>5, <1>6 DEF top

LEMMA MinIsLeast ==
  ASSUME NEW S, S \subseteq Nat, S # {}
  PROVE  Min(S) \in S /\ Min(S) \in Nat /\ \A m \in S : Min(S) <= m
<1>1. \E k \in S : \A m \in S : k <= m BY LeastExists
<1>2. Min(S) \in S /\ \A m \in S : Min(S) <= m BY <1>1 DEF Min
<1> QED BY <1>2

-----------------------------------------------------------------------------
(* QueueSidecar                                                            *)

\* The file names a watcher's pid, and until the signal what --stop has identified is the
\* script.
SidecarInv ==
  /\ SidecarTypeOK
  /\ sidecar # NoFile => sidecar.pid \in Pids
  /\ stopper.pc # "idle" => stopper.read.pid \in Pids
  /\ stopper.pc = "kill" /\ proc[stopper.read.pid].live => proc[stopper.read.pid].script
  /\ killed.script

LEMMA SidecarKeeps ==
  ASSUME SidecarInv, SidecarNext
  PROVE  SidecarInv'
<1> USE SidecarAssumption DEF SidecarInv
<1> DEFINE File == [pid : Pids \union {NoPid}, broker : Brokers]
<1>1. PICK br \in Brokers : br = CHOOSE x \in Brokers : TRUE OBVIOUS
<1>2. /\ Nothing \in [script : BOOLEAN, broker : Brokers, live : BOOLEAN] /\ ~Nothing.live
      /\ NoFile \in File
  BY <1>1 DEF Nothing, NoFile
<1>3. /\ proc \in [Pids -> [script : BOOLEAN, broker : Brokers, live : BOOLEAN]]
      /\ sidecar \in File /\ stopper \in [pc : {"idle", "check", "kill"}, broker : Brokers, read : File]
  BY DEF SidecarTypeOK
<1>4. \A p \in Pids : Removed(p) \in File /\ (Removed(p) = NoFile \/ Removed(p) = sidecar)
  BY <1>2, <1>3 DEF Removed
<1>5. ASSUME NEW p \in Pids, StartOther(p) PROVE SidecarInv'
  <2>1. [Nothing EXCEPT !.live = TRUE] \in [script : BOOLEAN, broker : Brokers, live : BOOLEAN]
    BY <1>2
  <2>2. proc' \in [Pids -> [script : BOOLEAN, broker : Brokers, live : BOOLEAN]]
    BY <1>3, <1>5, <2>1 DEF StartOther
  <2>3. \A q \in Pids : q # p => proc'[q] = proc[q] BY <1>3, <1>5 DEF StartOther
  <2> QED BY <1>3, <1>5, <2>2, <2>3 DEF StartOther, FreePid, SidecarTypeOK
<1>6. ASSUME NEW p \in Pids, EndInOrder(p) \/ Vanish(p) PROVE SidecarInv'
  <2>1. /\ proc' = [proc EXCEPT ![p] = Nothing] /\ sidecar' \in {sidecar, NoFile} /\ sidecar' \in File
        /\ UNCHANGED <<stopper, killed>>
    BY <1>3, <1>4, <1>6 DEF EndInOrder, Vanish
  <2>2. proc' \in [Pids -> [script : BOOLEAN, broker : Brokers, live : BOOLEAN]]
    BY <1>2, <1>3, <2>1
  <2> QED BY <1>2, <1>3, <2>1, <2>2 DEF SidecarTypeOK, NoFile
<1>7. ASSUME NEW p \in Pids, NEW x \in Brokers, StartWatcher(p, x) PROVE SidecarInv'
  <2>1. /\ proc' \in [Pids -> [script : BOOLEAN, broker : Brokers, live : BOOLEAN]]
        /\ proc'[p].script /\ \A q \in Pids : q # p => proc'[q] = proc[q]
        /\ sidecar' \in File /\ sidecar'.pid = p /\ UNCHANGED <<stopper, killed>>
    BY <1>3, <1>7 DEF StartWatcher
  <2> QED BY <1>3, <2>1 DEF SidecarTypeOK
<1>8. ASSUME NEW x \in Brokers, StopBegins(x) PROVE SidecarInv'
  BY <1>3, <1>8 DEF StopBegins, SidecarTypeOK
<1>9. ASSUME StopRefuses PROVE SidecarInv' BY <1>2, <1>3, <1>9 DEF StopRefuses, Then, SidecarTypeOK, NoFile
<1>10. ASSUME StopGivesUp PROVE SidecarInv' BY <1>3, <1>10 DEF StopGivesUp, Then, SidecarTypeOK
<1>11. ASSUME StopChecks PROVE SidecarInv'
  BY <1>3, <1>11 DEF StopChecks, Then, Identified, SidecarTypeOK
<1>12. ASSUME StopKills PROVE SidecarInv'
  <2> DEFINE p == stopper.read.pid
  <2>1. /\ p \in Pids /\ proc' = [proc EXCEPT ![p] = Nothing]
        /\ sidecar' \in {sidecar, NoFile} /\ sidecar' \in File
        /\ killed' = IF proc[p].live THEN proc[p] ELSE killed
        /\ stopper' = [stopper EXCEPT !.pc = "idle"]
    BY <1>3, <1>4, <1>12 DEF StopKills, Then
  <2>2. killed'.script BY <1>12, <2>1 DEF StopKills
  <2>3. proc' \in [Pids -> [script : BOOLEAN, broker : Brokers, live : BOOLEAN]]
    BY <1>2, <1>3, <2>1
  <2> QED BY <1>3, <2>1, <2>2, <2>3 DEF SidecarTypeOK, NoFile
<1>13. ASSUME StopComesLate PROVE SidecarInv'
  BY <1>2, <1>3, <1>13 DEF StopComesLate, Then, SidecarTypeOK, NoFile
<1> QED BY <1>5, <1>6, <1>7, <1>8, <1>9, <1>10, <1>11, <1>12, <1>13 DEF SidecarNext

LEMMA SidecarInvariant == SidecarSpec => []SidecarInv
<1>1. SidecarInit => SidecarInv
  <2>1. PICK br \in Brokers : br = CHOOSE x \in Brokers : TRUE BY SidecarAssumption
  <2> QED BY <2>1 DEF SidecarInit, SidecarInv, SidecarTypeOK, Nothing, NoFile, Idle
<1>2. SidecarInv /\ [SidecarNext]_sidecarVars => SidecarInv'
  <2>1. ASSUME SidecarInv, UNCHANGED sidecarVars PROVE SidecarInv'
    BY <2>1 DEF SidecarInv, SidecarTypeOK, sidecarVars
  <2> QED BY <2>1, SidecarKeeps
<1> QED BY <1>1, <1>2, PTL DEF SidecarSpec

\* --stop (tools/secretary_queue_watcher.py) signals a queue watcher or nothing, whatever
\* crashed and whoever got its pid since.
THEOREM StopsSpareOthers == SidecarSpec => []StopSparesOthers
<1>1. SidecarInv => StopSparesOthers BY DEF SidecarInv, StopSparesOthers
<1> QED BY <1>1, SidecarInvariant, PTL

-----------------------------------------------------------------------------
(* PendingDecisions                                                        *)

\* Entries stand in the order of their times.
InOrder(s) == \A i, j \in DOMAIN s : i < j => s[i].at <= s[j].at

\* The entries of a task are resolved in their order, at most the last one is pending, and
\* the ones the human has replied to come before the others that wait.
Turns(s) ==
  /\ \A i \in DOMAIN s : s[i].replied => s[i].status # "pending"
  /\ \A i, j \in DOMAIN s : i < j /\ s[i].task = s[j].task =>
       /\ s[i].status # "pending"
       /\ s[j].status = "resolved" => s[i].status = "resolved"
       /\ s[j].replied /\ s[j].status # "resolved" /\ s[i].status # "resolved" => s[i].replied

Sound(s) == /\ s \in Seq(Entry) /\ InOrder(s) /\ Turns(s)
            /\ \A i \in DOMAIN s : s[i].at <= minute

Command == [at : {"rest", "read", "open", "written"}, verb : Verbs \union {"none"},
            task : Askers, entries : Seq(Entry), file : {"none", "tmp", "register", "replaced"}]

\* What is read, about to be written and in the files is all sound, whoever wrote it.
RegisterInv ==
  /\ minute \in 0..MaxMinutes /\ Sound(register) /\ torn \in BOOLEAN
  /\ tmp \in [status : {"absent", "text", "torn"}, entries : Seq(Entry)] /\ Sound(tmp.entries)
  /\ command \in [Callers -> Command]
  /\ \A c \in Callers : /\ Sound(command[c].entries)
                        /\ command[c].at = "read" => command[c].verb \in Verbs

LEMMA EntryFields ==
  ASSUME NEW s \in Seq(Entry)
  PROVE  \A i \in DOMAIN s : /\ i \in Nat /\ s[i] \in Entry /\ s[i].at \in Nat
                             /\ s[i].status \in {"pending", "escalated", "resolved"}
                             /\ s[i].replied \in BOOLEAN
<1>1. \A i \in DOMAIN s : i \in Nat /\ s[i] \in Entry OBVIOUS
<1>2. \A e \in Entry : /\ e.at \in Nat /\ e.status \in {"pending", "escalated", "resolved"}
                       /\ e.replied \in BOOLEAN
  BY RegisterAssumption DEF Entry
<1> QED BY <1>1, <1>2

\* The oldest eligible entry is the first one.
LEMMA OldestIsFirst ==
  ASSUME NEW s \in Seq(Entry), InOrder(s), NEW eligible \in SUBSET DOMAIN s, eligible # {}
  PROVE  Oldest(s, eligible) \in eligible /\ \A j \in eligible : Oldest(s, eligible) <= j
<1>1. \A i \in DOMAIN s : i \in Nat /\ s[i].at \in Nat BY EntryFields
<1>2. PICK i \in eligible : \A j \in eligible : i <= j BY <1>1, LeastExists
<1>3. \A j \in eligible : s[i].at < s[j].at \/ (s[i].at = s[j].at /\ i <= j)
  BY <1>1, <1>2 DEF InOrder
<1> DEFINE first == Oldest(s, eligible)
<1>4. /\ first \in eligible
      /\ \A j \in eligible : s[first].at < s[j].at \/ (s[first].at = s[j].at /\ first <= j)
  BY <1>3 DEF Oldest
<1> HIDE DEF first
<1>5. \A j \in eligible : first <= j BY <1>1, <1>4 DEF InOrder
<1> QED BY <1>4, <1>5 DEF first

LEMMA AppendSound ==
  ASSUME NEW s, Sound(s), NEW t \in Askers, minute \in 0..MaxMinutes
  PROVE  Sound(Appended(s, t))
<1>1. CASE Having(s, t, {"pending"}) # {} BY <1>1 DEF Appended
<1>2. CASE Having(s, t, {"pending"}) = {}
  <2> DEFINE e == [task |-> t, at |-> minute, status |-> "pending", replied |-> FALSE]
             s2 == Append(s, e)
  <2>1. Appended(s, t) = s2 BY <1>2 DEF Appended
  <2>2. e \in Entry BY DEF Entry
  <2>3. /\ s2 \in Seq(Entry) /\ DOMAIN s2 = 1..(Len(s) + 1) /\ DOMAIN s = 1..Len(s) /\ Len(s) \in Nat
        /\ \A i \in DOMAIN s : s2[i] = s[i]
        /\ s2[Len(s) + 1] = e
    BY <2>2 DEF Sound
  <2> HIDE DEF s2
  <2>4. \A i \in DOMAIN s : s[i].task = t => s[i].status # "pending" BY <1>2 DEF Having
  <2>5. InOrder(s2)
    <3> SUFFICES ASSUME NEW i \in DOMAIN s2, NEW j \in DOMAIN s2, i < j PROVE s2[i].at <= s2[j].at
      BY DEF InOrder
    <3>1. i \in DOMAIN s BY <2>3
    <3> QED BY <2>3, <3>1 DEF Sound, InOrder
  <2>6. Turns(s2)
    <3>1. ASSUME NEW i \in DOMAIN s2, s2[i].replied PROVE s2[i].status # "pending"
      BY <2>3, <3>1 DEF Sound, Turns
    <3>2. ASSUME NEW i \in DOMAIN s2, NEW j \in DOMAIN s2, i < j, s2[i].task = s2[j].task
          PROVE  /\ s2[i].status # "pending"
                 /\ s2[j].status = "resolved" => s2[i].status = "resolved"
                 /\ s2[j].replied /\ s2[j].status # "resolved" /\ s2[i].status # "resolved" => s2[i].replied
      <4>1. i \in DOMAIN s /\ s2[i] = s[i] BY <2>3, <3>2
      <4>2. CASE j \in DOMAIN s BY <2>3, <3>2, <4>1, <4>2 DEF Sound, Turns
      <4>3. CASE j = Len(s) + 1 BY <2>3, <2>4, <3>2, <4>1, <4>3
      <4> QED BY <2>3, <4>2, <4>3
    <3> QED BY <3>1, <3>2 DEF Turns
  <2>7. \A i \in DOMAIN s2 : s2[i].at <= minute BY <2>3 DEF Sound
  <2> QED BY <2>1, <2>3, <2>5, <2>6, <2>7 DEF Sound
<1> QED BY <1>1, <1>2

\* The first unresolved entry of a task that is eligible takes its next turn.
LEMMA AdvanceSound ==
  ASSUME NEW s, Sound(s), NEW t \in Askers, NEW i \in DOMAIN s, s[i].task = t,
         NEW status, NEW replied \in BOOLEAN,
         \/ /\ status = "escalated" /\ s[i].status = "pending" /\ replied = s[i].replied
         \/ /\ status = "resolved" /\ s[i].status # "resolved" /\ replied = s[i].replied
            /\ \A j \in DOMAIN s : s[j].task = t /\ s[j].status # "resolved" => i <= j
         \/ /\ status = "escalated" /\ s[i].status = "escalated" /\ replied
            /\ \A j \in DOMAIN s : s[j].task = t /\ s[j].status = "escalated" /\ ~s[j].replied => i <= j,
         NEW s2, s2 \in Seq(Entry), DOMAIN s2 = DOMAIN s,
         \A j \in DOMAIN s : j # i => s2[j] = s[j],
         /\ s2[i].task = t /\ s2[i].at = s[i].at
         /\ s2[i].status = status /\ s2[i].replied = replied
  PROVE  Sound(s2)
<1>1. \A j \in DOMAIN s : j \in Nat /\ s[j].status \in {"pending", "escalated", "resolved"}
  BY EntryFields DEF Sound
<1>2. InOrder(s2) BY DEF Sound, InOrder
<1>3. Turns(s2)
  <2>1. ASSUME NEW j \in DOMAIN s, s2[j].replied PROVE s2[j].status # "pending"
    BY <2>1 DEF Sound, Turns
  <2>2. ASSUME NEW j \in DOMAIN s, NEW k \in DOMAIN s, j < k, s2[j].task = s2[k].task
        PROVE  /\ s2[j].status # "pending"
               /\ s2[k].status = "resolved" => s2[j].status = "resolved"
               /\ s2[k].replied /\ s2[k].status # "resolved" /\ s2[j].status # "resolved" => s2[j].replied
    <3>1. /\ s[j].task = s[k].task /\ s[j].status # "pending"
          /\ s[k].status = "resolved" => s[j].status = "resolved"
          /\ s[k].replied /\ s[k].status # "resolved" /\ s[j].status # "resolved" => s[j].replied
      <4>1. s[j].task = s[k].task BY <2>2
      <4> QED BY <2>2, <4>1 DEF Sound, Turns
    <3>2. CASE j # i /\ k # i BY <3>1, <3>2
    <3>3. CASE j = i BY <1>1, <2>2, <3>1, <3>3
    <3>4. CASE k = i BY <1>1, <2>2, <3>1, <3>4 DEF Sound, Turns
    <3> QED BY <3>2, <3>3, <3>4
  <2> QED BY <2>1, <2>2 DEF Turns
<1>4. \A j \in DOMAIN s2 : s2[j].at <= minute BY DEF Sound
<1> QED BY <1>2, <1>3, <1>4 DEF Sound

LEMMA ResolvedSound ==
  ASSUME NEW s, Sound(s), NEW t \in Askers
  PROVE  /\ Sound(Resolved(s, t, {"pending"}, "escalated"))
         /\ Sound(Resolved(s, t, {"pending", "escalated"}, "resolved"))
         /\ Sound(MarkUserReplied(s, t))
<1>1. s \in Seq(Entry) /\ InOrder(s) /\ DOMAIN s = 1..Len(s) /\ Len(s) \in Nat BY DEF Sound
<1>2. \A j \in DOMAIN s : s[j].status \in {"pending", "escalated", "resolved"} /\ s[j] \in Entry
  BY <1>1, EntryFields
<1>3. Sound(Resolved(s, t, {"pending"}, "escalated"))
  <2> DEFINE eligible == Having(s, t, {"pending"})
             i == Oldest(s, eligible)
             s2 == [s EXCEPT ![i].status = "escalated"]
  <2>1. CASE eligible = {} BY <2>1 DEF Resolved
  <2>2. CASE eligible # {}
    <3>1. i \in DOMAIN s /\ s[i].task = t /\ s[i].status = "pending"
      <4>1. i \in eligible BY <1>1, <2>2, OldestIsFirst DEF Having
      <4> QED BY <4>1 DEF Having
    <3> HIDE DEF i
    <3>2. /\ s2 \in Seq(Entry) /\ DOMAIN s2 = DOMAIN s /\ \A j \in DOMAIN s : j # i => s2[j] = s[j]
          /\ s2[i].task = t /\ s2[i].at = s[i].at
          /\ s2[i].status = "escalated" /\ s2[i].replied = s[i].replied
      <4>1. [s[i] EXCEPT !.status = "escalated"] \in Entry BY <1>2, <3>1 DEF Entry
      <4>2. s2 = [s EXCEPT ![i] = [s[i] EXCEPT !.status = "escalated"]] OBVIOUS
      <4> QED BY <1>1, <1>2, <3>1, <4>1, <4>2 DEF Entry
    <3>3. s[i].replied \in BOOLEAN BY <1>2, <3>1 DEF Entry
    <3> HIDE DEF s2
    <3>4. Sound(s2) BY <3>1, <3>2, <3>3, AdvanceSound
    <3> QED BY <2>2, <3>4 DEF Resolved, s2, i
  <2> QED BY <2>1, <2>2
<1>4. Sound(Resolved(s, t, {"pending", "escalated"}, "resolved"))
  <2> DEFINE eligible == Having(s, t, {"pending", "escalated"})
             i == Oldest(s, eligible)
             s2 == [s EXCEPT ![i].status = "resolved"]
  <2>1. CASE eligible = {} BY <2>1 DEF Resolved
  <2>2. CASE eligible # {}
    <3>1. /\ i \in DOMAIN s /\ s[i].task = t /\ s[i].status # "resolved"
          /\ \A j \in DOMAIN s : s[j].task = t /\ s[j].status # "resolved" => i <= j
      <4>1. i \in eligible /\ \A j \in eligible : i <= j BY <1>1, <2>2, OldestIsFirst DEF Having
      <4> HIDE DEF i
      <4> QED BY <1>2, <4>1 DEF Having
    <3> HIDE DEF i
    <3>2. /\ s2 \in Seq(Entry) /\ DOMAIN s2 = DOMAIN s /\ \A j \in DOMAIN s : j # i => s2[j] = s[j]
          /\ s2[i].task = t /\ s2[i].at = s[i].at
          /\ s2[i].status = "resolved" /\ s2[i].replied = s[i].replied
      <4>1. [s[i] EXCEPT !.status = "resolved"] \in Entry BY <1>2, <3>1 DEF Entry
      <4>2. s2 = [s EXCEPT ![i] = [s[i] EXCEPT !.status = "resolved"]] OBVIOUS
      <4> QED BY <1>1, <1>2, <3>1, <4>1, <4>2 DEF Entry
    <3>3. s[i].replied \in BOOLEAN BY <1>2, <3>1 DEF Entry
    <3> HIDE DEF s2
    <3>4. Sound(s2) BY <3>1, <3>2, <3>3, AdvanceSound
    <3> QED BY <2>2, <3>4 DEF Resolved, s2, i
  <2> QED BY <2>1, <2>2
<1>5. Sound(MarkUserReplied(s, t))
  <2> DEFINE eligible == {i \in Having(s, t, {"escalated"}) : ~s[i].replied}
             i == Oldest(s, eligible)
             s2 == [s EXCEPT ![i].replied = TRUE]
  <2>1. CASE eligible = {} BY <2>1 DEF MarkUserReplied
  <2>2. CASE eligible # {}
    <3>1. /\ i \in DOMAIN s /\ s[i].task = t /\ s[i].status = "escalated"
          /\ \A j \in DOMAIN s : s[j].task = t /\ s[j].status = "escalated" /\ ~s[j].replied => i <= j
      <4>1. i \in eligible /\ \A j \in eligible : i <= j BY <1>1, <2>2, OldestIsFirst DEF Having
      <4> HIDE DEF i
      <4> QED BY <1>2, <4>1 DEF Having
    <3> HIDE DEF i
    <3>2. /\ s2 \in Seq(Entry) /\ DOMAIN s2 = DOMAIN s /\ \A j \in DOMAIN s : j # i => s2[j] = s[j]
          /\ s2[i].task = t /\ s2[i].at = s[i].at
          /\ s2[i].status = "escalated" /\ s2[i].replied = TRUE
      <4>1. [s[i] EXCEPT !.replied = TRUE] \in Entry BY <1>2, <3>1 DEF Entry
      <4>2. s2 = [s EXCEPT ![i] = [s[i] EXCEPT !.replied = TRUE]] OBVIOUS
      <4> QED BY <1>1, <1>2, <3>1, <4>1, <4>2 DEF Entry
    <3> HIDE DEF s2
    <3>4. Sound(s2) BY <3>1, <3>2, AdvanceSound
    <3> QED BY <2>2, <3>4 DEF MarkUserReplied, s2, i
  <2> QED BY <2>1, <2>2
<1> QED BY <1>3, <1>4, <1>5

LEMMA ChangedSound ==
  ASSUME RegisterInv, NEW c \in Callers, command[c].at = "read"
  PROVE  Sound(Changed(c))
<1> DEFINE s == command[c].entries
           u == command[c].task
<1>1. command[c].verb \in Verbs /\ Sound(s) /\ u \in Askers /\ minute \in 0..MaxMinutes
  BY DEF RegisterInv, Command
<1>2. CASE command[c].verb = "append" BY <1>1, <1>2, AppendSound DEF After, Changed
<1>3. CASE command[c].verb = "to_user" BY <1>1, <1>3, ResolvedSound DEF After, Changed
<1>4. CASE command[c].verb = "to_worker" BY <1>1, <1>4, ResolvedSound DEF After, Changed
<1>5. CASE command[c].verb = "mark" BY <1>1, <1>5, ResolvedSound DEF After, Changed
<1> QED BY <1>1, <1>2, <1>3, <1>4, <1>5 DEF Verbs

\* What a command puts into a file leaves all three sound.
LEMMA PutSound ==
  ASSUME RegisterInv, NEW file, NEW s, Sound(s), NEW whole \in BOOLEAN, Put(file, s, whole),
         UNCHANGED minute
  PROVE  /\ Sound(register') /\ torn' \in BOOLEAN
         /\ tmp' \in [status : {"absent", "text", "torn"}, entries : Seq(Entry)]
         /\ Sound(tmp'.entries)
<1>1. Sound(<<>>) BY DEF Sound, InOrder, Turns
<1>2. s \in Seq(Entry) /\ <<>> \in Seq(Entry) BY DEF Sound
<1>3. /\ Sound(register) /\ torn \in BOOLEAN /\ Sound(tmp.entries)
      /\ tmp \in [status : {"absent", "text", "torn"}, entries : Seq(Entry)]
  BY DEF RegisterInv
<1>4. CASE file = "tmp" /\ tmp' = (IF whole THEN Text(s) ELSE TornText) /\ UNCHANGED <<register, torn>>
  <2>1. CASE whole
    <3>1. tmp' = [status |-> "text", entries |-> s] BY <1>4, <2>1 DEF Text
    <3> QED BY <1>2, <1>3, <1>4, <3>1
  <2>2. CASE ~whole
    <3>1. tmp' = [status |-> "torn", entries |-> <<>>] BY <1>4, <2>2 DEF TornText
    <3>2. tmp'.entries = <<>> /\ tmp'.status = "torn" BY <3>1
    <3>3. tmp' \in [status : {"absent", "text", "torn"}, entries : Seq(Entry)] BY <1>2, <3>1
    <3> QED BY <1>1, <1>3, <1>4, <3>2, <3>3
  <2> QED BY <2>1, <2>2
<1>5. CASE /\ file = "register" /\ register' = (IF whole THEN s ELSE <<>>)
           /\ torn' = ~whole /\ UNCHANGED tmp
  BY <1>1, <1>3, <1>5
<1>6. CASE UNCHANGED <<register, torn, tmp>> BY <1>3, <1>6
<1> QED BY <1>4, <1>5, <1>6 DEF Put

LEMMA RegisterKeeps ==
  ASSUME RegisterInv, RegisterNext
  PROVE  RegisterInv'
<1> DEFINE Files == [status : {"absent", "text", "torn"}, entries : Seq(Entry)]
<1>1. PICK t \in Askers : t = CHOOSE u \in Askers : TRUE BY RegisterAssumption
<1>2. Resting \in Command /\ Resting.entries = <<>> /\ Resting.at = "rest"
  BY <1>1 DEF Resting, Command
<1>3. Sound(<<>>) BY DEF Sound, InOrder, Turns
<1>4. /\ minute \in 0..MaxMinutes /\ Sound(register) /\ torn \in BOOLEAN
      /\ tmp \in Files /\ Sound(tmp.entries) /\ command \in [Callers -> Command]
      /\ \A c \in Callers : /\ Sound(command[c].entries)
                            /\ command[c].at = "read" => command[c].verb \in Verbs
  BY DEF RegisterInv
<1>5. ASSUME PassMinute PROVE RegisterInv'
  <2>1. /\ minute' \in 0..MaxMinutes /\ minute <= minute'
        /\ UNCHANGED <<register, torn, tmp, command>>
    BY <1>4, <1>5, RegisterAssumption DEF PassMinute
  <2>2. ASSUME NEW s, Sound(s) PROVE Sound(s)'
    <3>1. \A i \in DOMAIN s : s[i].at \in Nat BY <2>2, EntryFields DEF Sound
    <3>2. \A i \in DOMAIN s : s[i].at <= minute' BY <1>4, <2>1, <2>2, <3>1 DEF Sound
    <3> QED BY <2>2, <3>2 DEF Sound
  <2>3. \A c \in Callers : \E s : s = command'[c].entries /\ Sound(s)' BY <1>4, <2>1, <2>2
  <2>4. \E s : s = register' /\ Sound(s)' BY <1>4, <2>1, <2>2
  <2>5. \E s : s = tmp'.entries /\ Sound(s)' BY <1>4, <2>1, <2>2
  <2> QED BY <1>4, <2>1, <2>3, <2>4, <2>5 DEF Sound, RegisterInv
\* With the files sound, what is left are the commands.
<1>6. ASSUME UNCHANGED minute, Sound(register'), torn' \in BOOLEAN, tmp' \in Files,
             Sound(tmp'.entries), command' \in [Callers -> Command],
             \A c \in Callers : /\ Sound(command'[c].entries)
                                /\ command'[c].at = "read" => command'[c].verb \in Verbs
      PROVE  RegisterInv'
  <2>1. \A x : Sound(x)' = Sound(x) BY <1>6 DEF Sound
  <2>2. \A c \in Callers : \E x : x = command'[c].entries /\ Sound(x) BY <1>6
  <2>3. \E x : x = register' /\ Sound(x) BY <1>6
  <2>4. \E x : x = tmp'.entries /\ Sound(x) BY <1>6
  <2> QED BY <1>4, <1>6, <2>1, <2>2, <2>3, <2>4 DEF Sound, RegisterInv
<1>7. ASSUME NEW c \in Callers, NEW r \in Command, Sound(r.entries),
             r.at = "read" => r.verb \in Verbs, command' = [command EXCEPT ![c] = r]
      PROVE  /\ command' \in [Callers -> Command]
             /\ \A d \in Callers : /\ Sound(command'[d].entries)
                                   /\ command'[d].at = "read" => command'[d].verb \in Verbs
  <2>1. command' \in [Callers -> Command] BY <1>4, <1>7
  <2>2. \A d \in Callers : command'[d] = IF d = c THEN r ELSE command[d] BY <1>4, <1>7
  <2> QED BY <1>4, <1>7, <2>1, <2>2
<1>8. ASSUME NEW c \in Callers, NEW verb \in Verbs, NEW u \in Askers, StartCommand(c, verb, u)
      PROVE  RegisterInv'
  <2> DEFINE r == [at |-> "read", verb |-> verb, task |-> u, entries |-> register, file |-> "none"]
  <2>1. /\ r \in Command /\ r.entries = register /\ r.verb \in Verbs
    BY <1>4 DEF Sound, Command
  <2>2. command' = [command EXCEPT ![c] = r] /\ UNCHANGED <<register, torn, tmp, minute>>
    BY <1>8 DEF StartCommand
  <2> HIDE DEF r
  <2> QED BY <1>4, <1>6, <1>7, <2>1, <2>2
<1>9. ASSUME NEW c \in Callers, ReturnUnchanged(c) PROVE RegisterInv'
  BY <1>2, <1>3, <1>4, <1>6, <1>7, <1>9 DEF ReturnUnchanged
<1>10. ASSUME NEW c \in Callers, OpenTmp(c) PROVE RegisterInv'
  <2> DEFINE r == [Resting EXCEPT !.at = "open", !.entries = Changed(c), !.file = "tmp"]
  <2>1. command[c].at = "read" /\ tmp' = Text(<<>>) /\ UNCHANGED <<register, torn, minute>>
        /\ command' = [command EXCEPT ![c] = r]
    BY <1>10 DEF OpenTmp
  <2>2. Sound(Changed(c)) BY <2>1, ChangedSound
  <2>3. r \in Command /\ r.entries = Changed(c) /\ r.at = "open"
    BY <1>2, <2>2 DEF Command, Sound
  <2>4. tmp' \in Files /\ Sound(tmp'.entries) BY <1>3, <2>1 DEF Text, Sound
  <2> HIDE DEF r
  <2> QED BY <1>4, <1>6, <1>7, <2>1, <2>2, <2>3, <2>4
<1>11. ASSUME NEW c \in Callers, WriteText(c) PROVE RegisterInv'
  <2> DEFINE r == [Resting EXCEPT !.at = "written", !.file = command[c].file]
  <2>1. PICK whole \in BOOLEAN : Put(command[c].file, command[c].entries, whole)
    BY <1>11 DEF WriteText
  <2>2. UNCHANGED minute /\ command' = [command EXCEPT ![c] = r] BY <1>11 DEF WriteText
  <2>3. r \in Command /\ r.entries = <<>> /\ r.at = "written"
    BY <1>2, <1>4 DEF Command
  <2>4. /\ Sound(register') /\ torn' \in BOOLEAN /\ tmp' \in Files /\ Sound(tmp'.entries)
    BY <1>4, <2>1, <2>2, PutSound
  <2> HIDE DEF r
  <2> QED BY <1>3, <1>4, <1>6, <1>7, <2>2, <2>3, <2>4
<1>12. ASSUME NEW c \in Callers, WriteBack(c) PROVE RegisterInv'
  <2>1. CASE UNCHANGED <<register, torn, tmp>> /\ command' = [command EXCEPT ![c] = Resting]
    BY <1>2, <1>3, <1>4, <1>6, <1>7, <1>12, <2>1 DEF WriteBack
  <2>2. CASE /\ register' = tmp.entries /\ torn' = (tmp.status = "torn") /\ tmp' = Absent
             /\ command' = [d \in Callers |->
                  IF d = c THEN Resting
                  ELSE [command[d] EXCEPT !.file = CASE @ = "tmp" -> "register"
                                                     [] @ = "register" -> "replaced"
                                                     [] OTHER -> @]]
    <3>1. \A d \in Callers :
             /\ command'[d] \in Command
             /\ command'[d] = Resting \/ /\ command'[d].entries = command[d].entries
                                         /\ command'[d].at = command[d].at
                                         /\ command'[d].verb = command[d].verb
      BY <1>2, <1>4, <2>2 DEF Command
    <3>2. command' \in [Callers -> Command] BY <2>2, <3>1
    <3>3. Absent \in Files /\ Absent.entries = <<>> BY DEF Absent
    <3>4. \A d \in Callers : /\ Sound(command'[d].entries)
                             /\ command'[d].at = "read" => command'[d].verb \in Verbs
      BY <1>2, <1>3, <1>4, <3>1
    <3>5. UNCHANGED minute BY <1>12 DEF WriteBack
    <3> QED BY <1>3, <1>4, <1>6, <2>2, <3>2, <3>3, <3>4, <3>5
  <2> QED BY <1>12, <2>1, <2>2 DEF WriteBack
<1>13. ASSUME NEW c \in Callers, CommandDies(c) PROVE RegisterInv'
  <2>1. UNCHANGED minute /\ command' = [command EXCEPT ![c] = Resting] BY <1>13 DEF CommandDies
  <2>2. /\ Sound(register') /\ torn' \in BOOLEAN /\ tmp' \in Files /\ Sound(tmp'.entries)
    <3>1. CASE UNCHANGED <<register, torn, tmp>> BY <1>4, <3>1
    <3>2. CASE Put(command[c].file, <<>>, FALSE) BY <1>3, <2>1, <3>2, PutSound
    <3> QED BY <1>13, <3>1, <3>2 DEF CommandDies
  <2> QED BY <1>2, <1>3, <1>6, <1>7, <2>1, <2>2
<1> QED BY <1>5, <1>8, <1>9, <1>10, <1>11, <1>12, <1>13 DEF RegisterNext

LEMMA RegisterInvariant == RegisterSpec => []RegisterInv
<1>1. RegisterInit => RegisterInv
  <2>1. PICK t \in Askers : t = CHOOSE u \in Askers : TRUE BY RegisterAssumption
  <2>2. RegisterInit => Sound(<<>>) BY DEF Sound, InOrder, Turns
  <2>3. ASSUME RegisterInit PROVE command \in [Callers -> Command] /\ \A c \in Callers : command[c] = Resting
    BY <2>1, <2>3 DEF RegisterInit, Resting, Command
  <2>4. Resting.entries = <<>> /\ Resting.at = "rest" BY DEF Resting
  <2>5. ASSUME RegisterInit PROVE /\ tmp.entries = <<>>
                                  /\ tmp \in [status : {"absent", "text", "torn"}, entries : Seq(Entry)]
    BY <2>5 DEF RegisterInit, Absent
  <2>6. RegisterInit => minute \in 0..MaxMinutes /\ register = <<>>
    BY RegisterAssumption DEF RegisterInit
  <2>8. RegisterInit => torn \in BOOLEAN BY Zenon DEF RegisterInit
  <2>7. ASSUME RegisterInit PROVE \A c \in Callers : /\ command[c].entries = <<>>
                                                    /\ command[c].at # "read"
    BY <2>3, <2>4, <2>7
  <2> QED BY <2>2, <2>3, <2>5, <2>6, <2>7, <2>8 DEF RegisterInv
<1>2. RegisterInv /\ [RegisterNext]_registerVars => RegisterInv'
  <2>1. ASSUME RegisterInv, UNCHANGED registerVars PROVE RegisterInv'
    BY <2>1 DEF RegisterInv, Sound, registerVars
  <2> QED BY <2>1, RegisterKeeps
<1> QED BY <1>1, <1>2, PTL DEF RegisterSpec

\* No call that overlaps others, dies or is repeated (tools/pending_decisions.py) leaves an
\* open question behind an answered newer one of its task, or the replies out of order.
THEOREM LatestQuestionsSpeak == RegisterSpec => []LatestSpeaksForAll
<1>1. RegisterInv => LatestSpeaksForAll
  <2> SUFFICES ASSUME RegisterInv, NEW t \in Askers, NEW i \in DOMAIN register,
                      register[i].task = t, register[i].status # "resolved"
               PROVE  /\ ~EscalationTraceIsStale(t)
                      /\ register[i].replied =>
                           \A j \in 1..i - 1 : register[j].task = t /\ register[j].status # "resolved"
                                                 => register[j].replied
    BY DEF LatestSpeaksForAll
  <2>1. /\ DOMAIN register = 1..Len(register) /\ Len(register) \in Nat
        /\ \A j \in DOMAIN register : register[j].at \in Nat
                                      /\ register[j].status \in {"pending", "escalated", "resolved"}
    BY EntryFields DEF RegisterInv, Sound
  <2>2. /\ InOrder(register) /\ Turns(register) BY DEF RegisterInv, Sound
  <2> DEFINE own == Having(register, t, {"pending", "escalated", "resolved"})
             last == LatestForTask(t)
  <2>3. i \in own /\ own \in SUBSET (1..Len(register)) BY <2>1 DEF Having
  <2>4. PICK k \in own : \A j \in own : j <= k BY <2>1, <2>3, GreatestExists
  <2>5. \A j \in own : register[j].at < register[k].at \/ (register[j].at = register[k].at /\ j <= k)
    BY <2>1, <2>2, <2>3, <2>4 DEF InOrder
  <2>6. /\ last \in own
        /\ \A j \in own : register[j].at < register[last].at
                          \/ (register[j].at = register[last].at /\ j <= last)
    BY <2>3, <2>4, <2>5 DEF LatestForTask
  <2> HIDE DEF last
  <2>7. i <= last BY <2>1, <2>2, <2>3, <2>6 DEF InOrder
  <2>8. last \in DOMAIN register /\ register[last].task = t BY <2>6 DEF Having
  <2>9. register[last].status # "resolved" BY <2>1, <2>2, <2>7, <2>8 DEF Turns
  <2>10. ~EscalationTraceIsStale(t) BY <2>9 DEF EscalationTraceIsStale, last
  <2> QED BY <2>1, <2>2, <2>10 DEF Turns
<1> QED BY <1>1, RegisterInvariant, PTL

-----------------------------------------------------------------------------
(* WatchPane                                                               *)

Pane == [id : Nat, role : Roles, pr : Nat, tab : {"own", "watch"}, x : Nat, y : Nat, width : Nat, height : Nat]
Size == [width : Nat, height : Nat]

Offerable(p) == p.role \in AnchorRoles /\ SplitOptions(p) # {}

ShownTyped ==
  /\ shown \subseteq Pane /\ IsFiniteSet(shown)
  /\ born \in Nat /\ born <= MaxSpawns
  /\ \A p \in shown : p.id \in 1..born /\ p.pr \in Prs \union {0} /\ p.tab \in {"own", "watch"}
  /\ \A p, q \in shown : p.id = q.id => p = q

CallTyped == call \in Calls /\ (call.pc # "idle" => call.pr \in Prs)

\* What the script goes on to split may be split.
LeftIsOffered == \A k \in DOMAIN call.left, p \in shown : p.id = call.left[k] => Offerable(p)

\* While the script may still put up a watcher there is none, and later only its own.
NoneYet ==
  /\ call.pc \in {"split", "new_tab", "own", "own_split"} => \A p \in shown : p.pr # call.pr
  /\ call.pc \in {"wait", "close"} => \A p \in shown : p.pr = call.pr => p.id = call.new

OneEach == \A p, q \in shown : p.pr = q.pr /\ p.pr # 0 => p = q

PaneInv ==
  /\ ShownTyped /\ CallTyped /\ LeftIsOffered /\ NobodySqueezed
  /\ ~blind => NoneYet /\ OneEach

\* Ranks are compared by the first place in which they differ.
Lex(f, g) == \E k \in 1..4 : f[k] < g[k] /\ \A j \in 1..4 : j < k => f[j] = g[j]

LEMMA LexIsAnOrder ==
  /\ \A f \in [1..4 -> Int] : ~Lex(f, f)
  /\ \A f, g, h \in [1..4 -> Int] : Lex(f, g) /\ Lex(g, h) => Lex(f, h)
  /\ \A f, g \in [1..4 -> Int] : f[4] # g[4] => Lex(f, g) \/ Lex(g, f)
<1>1. \A f \in [1..4 -> Int] : ~Lex(f, f) BY DEF Lex
<1>2. ASSUME NEW f \in [1..4 -> Int], NEW g \in [1..4 -> Int], NEW h \in [1..4 -> Int], Lex(f, g), Lex(g, h)
      PROVE  Lex(f, h)
  <2>1. PICK k \in 1..4 : f[k] < g[k] /\ \A j \in 1..4 : j < k => f[j] = g[j] BY <1>2 DEF Lex
  <2>2. PICK m \in 1..4 : g[m] < h[m] /\ \A j \in 1..4 : j < m => g[j] = h[j] BY <1>2 DEF Lex
  <2>3. CASE k <= m
    <3>1. f[k] < h[k] /\ \A j \in 1..4 : j < k => f[j] = h[j] BY <2>1, <2>2, <2>3
    <3> QED BY <3>1 DEF Lex
  <2>4. CASE m <= k
    <3>1. f[m] < h[m] /\ \A j \in 1..4 : j < m => f[j] = h[j] BY <2>1, <2>2, <2>4
    <3> QED BY <3>1 DEF Lex
  <2> QED BY <2>3, <2>4
<1>3. ASSUME NEW f \in [1..4 -> Int], NEW g \in [1..4 -> Int], f[4] # g[4] PROVE Lex(f, g) \/ Lex(g, f)
  <2>1. CASE f[1] # g[1] BY <2>1 DEF Lex
  <2>2. CASE f[1] = g[1] /\ f[2] # g[2] BY <2>2 DEF Lex
  <2>3. CASE f[1] = g[1] /\ f[2] = g[2] /\ f[3] # g[3]
    <3>1. \A j \in 1..4 : j < 3 => f[j] = g[j]
      <4> SUFFICES ASSUME NEW j \in 1..4, j < 3 PROVE f[j] = g[j] OBVIOUS
      <4>1. j = 1 \/ j = 2 OBVIOUS
      <4> QED BY <2>3, <4>1
    <3> QED BY <2>3, <3>1 DEF Lex
  <2>4. CASE f[1] = g[1] /\ f[2] = g[2] /\ f[3] = g[3]
    <3>1. \A j \in 1..4 : j < 4 => f[j] = g[j]
      <4> SUFFICES ASSUME NEW j \in 1..4, j < 4 PROVE f[j] = g[j] OBVIOUS
      <4>1. j = 1 \/ j = 2 \/ j = 3 OBVIOUS
      <4> QED BY <2>4, <4>1
    <3> QED BY <1>3, <3>1 DEF Lex
  <2> QED BY <2>1, <2>2, <2>3, <2>4
<1> QED BY <1>1, <1>2, <1>3

\* What is cut off a pane, and what is left of it.
LEMMA CutTyped ==
  ASSUME NEW p \in Pane
  PROVE  /\ \A d : Cut(p, d) \in Size
         /\ \A d : Metric(p, d) \in Nat
         /\ p.width - p.width \div 2 \in Nat /\ p.width - p.width \div 2 >= p.width \div 2
         /\ p.height - p.height \div 2 \in Nat /\ p.height - p.height \div 2 >= p.height \div 2
<1>1. p.width \in Nat /\ p.height \in Nat BY DEF Pane
<1>2. \A n \in Nat : n \div 2 \in Nat /\ n - n \div 2 \in Nat /\ n - n \div 2 >= n \div 2 OBVIOUS
<1>3. \A d : Cut(p, d) \in Size
  <2>1. p.width \div 2 \in Nat /\ p.height \div 2 \in Nat BY <1>1, <1>2
  <2> QED BY <1>1, <2>1 DEF Cut, Size
<1>4. \A d : Metric(p, d) \in Nat BY <1>3 DEF Metric, Size
<1> QED BY <1>1, <1>2, <1>3, <1>4

LEMMA DirectionIsAnOption ==
  ASSUME NEW p, SplitOptions(p) # {}
  PROVE  Direction(p) \in SplitOptions(p) /\ Direction(p) \in {"vertical", "horizontal"}
<1>1. SplitOptions(p) \subseteq {"vertical", "horizontal"} BY DEF SplitOptions
<1>2. CASE Comfortable(p) BY <1>1, <1>2 DEF Direction, Comfortable
<1>3. CASE ~Comfortable(p)
  <2>1. Roomier(p) \in SplitOptions(p)
    <3>1. (CHOOSE d \in SplitOptions(p) : TRUE) \in SplitOptions(p) OBVIOUS
    <3>2. CASE SplitOptions(p) = {"vertical", "horizontal"} BY <3>2 DEF Roomier
    <3>3. CASE SplitOptions(p) # {"vertical", "horizontal"} BY <3>1, <3>3 DEF Roomier
    <3> QED BY <3>2, <3>3
  <2> QED BY <1>1, <1>3, <2>1 DEF Direction
<1> QED BY <1>2, <1>3

RankOf(p, all) == <<Tier(p), Apart(p, all), 0 - Metric(p, Direction(p)), p.id>>

LEMMA BetterIsLex ==
  ASSUME NEW all, NEW p \in Pane, NEW q \in Pane
  PROVE  /\ RankOf(p, all) \in [1..4 -> Int] /\ RankOf(p, all)[4] = p.id
         /\ Better(p, q, all) <=> Lex(RankOf(p, all), RankOf(q, all))
<1>1. ASSUME NEW r \in Pane PROVE RankOf(r, all) \in [1..4 -> Int] /\ RankOf(r, all)[4] = r.id
  <2>1. Tier(r) \in Int BY DEF Tier
  <2>2. Apart(r, all) \in Int BY DEF Apart
  <2>3. 0 - Metric(r, Direction(r)) \in Int BY CutTyped
  <2>4. r.id \in Int BY DEF Pane
  <2> QED BY <2>1, <2>2, <2>3, <2>4 DEF RankOf
<1> DEFINE f == RankOf(p, all)
           g == RankOf(q, all)
           differ == {i \in 1..4 : f[i] # g[i]}
<1>2. Better(p, q, all) <=> differ # {} /\ f[Min(differ)] < g[Min(differ)] BY DEF Better, RankOf
<1>3. f \in [1..4 -> Int] /\ g \in [1..4 -> Int] BY <1>1
<1> HIDE DEF f, g
<1>4. ASSUME differ # {} PROVE Min(differ) \in differ /\ \A m \in differ : Min(differ) <= m
  <2>1. differ \subseteq Nat OBVIOUS
  <2> HIDE DEF differ
  <2>2. \E k \in differ : \A m \in differ : k <= m BY <1>4, <2>1, LeastExists
  <2> QED BY <2>2 DEF Min
<1>5. ASSUME Better(p, q, all) PROVE Lex(f, g)
  <2>1. differ # {} /\ f[Min(differ)] < g[Min(differ)] BY <1>2, <1>5
  <2> DEFINE k == Min(differ)
  <2>2. k \in differ /\ \A m \in differ : k <= m BY <1>4, <2>1
  <2> HIDE DEF k
  <2>3. k \in 1..4 BY <2>2
  <2>4. \A j \in 1..4 : j < k => f[j] = g[j] BY <2>2, <2>3
  <2>5. f[k] < g[k] BY <2>1 DEF k
  <2> QED BY <2>3, <2>4, <2>5 DEF Lex
<1>6. ASSUME Lex(f, g) PROVE Better(p, q, all)
  <2>1. PICK k \in 1..4 : f[k] < g[k] /\ \A j \in 1..4 : j < k => f[j] = g[j] BY <1>6 DEF Lex
  <2>2. f[k] \in Int /\ g[k] \in Int BY <1>3
  <2>3. k \in differ BY <2>1, <2>2
  <2>4. Min(differ) \in differ /\ Min(differ) <= k BY <1>4, <2>3
  <2> DEFINE m == Min(differ)
  <2>5. m \in 1..4 /\ f[m] # g[m] /\ m <= k BY <2>4
  <2> HIDE DEF m
  <2>6. m = k BY <2>1, <2>5
  <2>7. f[m] < g[m] BY <2>1, <2>6
  <2> QED BY <1>2, <2>3, <2>7 DEF m
<1> QED BY <1>1, <1>5, <1>6 DEF f, g

\* In a finite strict order there is an element for every number of those before it.
StrictOrder(S, R) ==
  /\ \A p \in S : <<p, p>> \notin R
  /\ \A p, q, r \in S : <<p, q>> \in R /\ <<q, r>> \in R => <<p, r>> \in R
  /\ \A p, q \in S : p # q => <<p, q>> \in R \/ <<q, p>> \in R
Before(S, R, p) == {q \in S : <<q, p>> \in R}

LEMMA EveryRankIsTaken ==
  ASSUME NEW S, IsFiniteSet(S), NEW R, StrictOrder(S, R)
  PROVE  \A i \in 1..Cardinality(S) : \E p \in S : Cardinality(Before(S, R, p)) = i - 1
<1> SUFFICES ASSUME NEW i \in 1..Cardinality(S) PROVE \E p \in S : Cardinality(Before(S, R, p)) = i - 1
  OBVIOUS
<1>0. /\ \A p \in S : <<p, p>> \notin R
      /\ \A p, q, r \in S : <<p, q>> \in R /\ <<q, r>> \in R => <<p, r>> \in R
      /\ \A p, q \in S : p # q => <<p, q>> \in R \/ <<q, p>> \in R
  BY DEF StrictOrder
<1> DEFINE Below(p) == {q \in S : <<q, p>> \in R}
           n == Cardinality(S)
           f == [p \in S |-> Cardinality(Below(p)) + 1]
<1>1. n \in Nat BY FS_CardinalityType
<1>2. \A p \in S : Below(p) \subseteq S \ {p} BY <1>0
<1>3. \A p \in S : IsFiniteSet(Below(p)) /\ Cardinality(Below(p)) \in Nat /\ Cardinality(Below(p)) <= n - 1
  <2> SUFFICES ASSUME NEW p \in S
               PROVE  IsFiniteSet(Below(p)) /\ Cardinality(Below(p)) \in Nat /\ Cardinality(Below(p)) <= n - 1
    OBVIOUS
  <2>1. IsFiniteSet(S \ {p}) /\ Cardinality(S \ {p}) = n - 1 BY FS_RemoveElement
  <2> DEFINE set == Below(p)
  <2>2. set \in SUBSET (S \ {p}) BY <1>2
  <2> HIDE DEF set
  <2>3. IsFiniteSet(set) /\ Cardinality(set) <= n - 1 BY <2>1, <2>2, FS_Subset
  <2>4. Cardinality(set) \in Nat BY <2>3, FS_CardinalityType
  <2> QED BY <2>3, <2>4 DEF set
<1>4. f \in [S -> 1..n]
  <2>1. \A p \in S : Cardinality(Below(p)) + 1 \in 1..n
    <3> SUFFICES ASSUME NEW p \in S PROVE Cardinality(Below(p)) + 1 \in 1..n OBVIOUS
    <3> DEFINE c == Cardinality(Below(p))
    <3>1. c \in Nat /\ c <= n - 1 BY <1>3
    <3> HIDE DEF c, n
    <3>2. c + 1 \in 1..n BY <1>1, <3>1
    <3> QED BY <3>2 DEF c
  <2> QED BY <2>1
<1>5. ASSUME NEW p \in S, NEW q \in S, <<p, q>> \in R PROVE f[p] # f[q]
  <2>1. Below(p) \subseteq Below(q) /\ p \in Below(q) /\ p \notin Below(p) BY <1>0, <1>5
  <2> DEFINE P == Below(p)
             Q == Below(q)
  <2>2. P \in SUBSET Q /\ P # Q /\ IsFiniteSet(Q) BY <1>3, <2>1
  <2> HIDE DEF P, Q
  <2>3. Cardinality(Q) # Cardinality(P) BY <2>2, FS_Subset
  <2>4. Cardinality(Q) \in Nat /\ Cardinality(P) \in Nat BY <1>3 DEF P, Q
  <2>5. f[p] = Cardinality(P) + 1 /\ f[q] = Cardinality(Q) + 1 BY DEF P, Q
  <2> HIDE DEF f
  <2> QED BY <2>3, <2>4, <2>5
<1>6. \A p, q \in S : f[p] = f[q] => p = q BY <1>0, <1>5
<1> HIDE DEF f
<1>7. f \in Injection(S, 1..n) BY <1>4, <1>6 DEF Injection, IsInjective
<1>8. IsFiniteSet(1..n) /\ Cardinality(1..n) = n BY <1>1, FS_Interval
<1>9. f \in Surjection(S, 1..n) BY <1>7, <1>8, FS_Injection
<1>10. PICK p \in S : f[p] = i BY <1>9 DEF Surjection
<1>11. Cardinality(Below(p)) = i - 1 BY <1>3, <1>10 DEF f
<1> QED BY <1>11 DEF Before

\* The script tries panes that may be split, each of them under its own number.
LEMMA CandidatesAreOffered ==
  ASSUME NEW all, all \subseteq Pane, IsFiniteSet(all), \A p, q \in all : p.id = q.id => p = q
  PROVE  /\ Candidates(all) \in Seq(Nat)
         /\ \A k \in DOMAIN Candidates(all) : \E p \in all : p.id = Candidates(all)[k] /\ Offerable(p)
<1> DEFINE S == Offered(all)
           n == Cardinality(S)
           R == {pair \in S \X S : Better(pair[1], pair[2], all)}
<1>1. S \in SUBSET all BY DEF Offered
<1>2. IsFiniteSet(S) BY <1>1, FS_Subset
<1>3. n \in Nat BY <1>2, FS_CardinalityType
<1>4. \A p, q \in S : <<p, q>> \in R <=> Lex(RankOf(p, all), RankOf(q, all)) BY <1>1, BetterIsLex
<1>5. \A p \in S : RankOf(p, all) \in [1..4 -> Int] /\ RankOf(p, all)[4] = p.id BY <1>1, BetterIsLex
<1>6. \A p \in S : <<p, p>> \notin R BY <1>4, <1>5, LexIsAnOrder
<1>7. \A p, q, r \in S : <<p, q>> \in R /\ <<q, r>> \in R => <<p, r>> \in R
  BY <1>4, <1>5, LexIsAnOrder
<1>8. \A p, q \in S : p # q => <<p, q>> \in R \/ <<q, p>> \in R
  <2> SUFFICES ASSUME NEW p \in S, NEW q \in S, p # q PROVE <<p, q>> \in R \/ <<q, p>> \in R OBVIOUS
  <2>1. p.id # q.id BY <1>1
  <2> QED BY <1>4, <1>5, <2>1, LexIsAnOrder
<1>9. \A p \in S : {q \in S : Better(q, p, all)} = {q \in S : <<q, p>> \in R} OBVIOUS
<1> HIDE DEF R
<1>10. ASSUME NEW i \in 1..n
       PROVE  (CHOOSE p \in S : Cardinality({q \in S : Better(q, p, all)}) = i - 1) \in S
  <2> HIDE DEF S
  <2>1. StrictOrder(S, R) BY <1>6, <1>7, <1>8 DEF StrictOrder
  <2>2. PICK p \in S : Cardinality(Before(S, R, p)) = i - 1 BY <1>2, <1>10, <2>1, EveryRankIsTaken
  <2>3. {q \in S : Better(q, p, all)} = Before(S, R, p) BY <1>9 DEF Before
  <2>4. \E r \in S : Cardinality({q \in S : Better(q, r, all)}) = i - 1 BY <2>2, <2>3
  <2> QED BY <2>4
<1>11. Candidates(all)
         = [i \in 1..n |-> (CHOOSE p \in S : Cardinality({q \in S : Better(q, p, all)}) = i - 1).id]
  BY DEF Candidates
<1>12. \A p \in S : p.id \in Nat /\ Offerable(p) /\ p \in all BY <1>1 DEF Offered, Offerable, Pane
<1> HIDE DEF S
<1> DEFINE c == Candidates(all)
<1>13. c \in [1..n -> Nat] /\ \A k \in 1..n : \E p \in all : p.id = c[k] /\ Offerable(p)
  BY <1>10, <1>11, <1>12
<1> HIDE DEF c
<1>14. c \in Seq(Nat) /\ DOMAIN c = 1..n BY <1>3, <1>13, SMT
<1> QED BY <1>13, <1>14 DEF c

\* A pane that is cut keeps its number, its role and the floor it stands on.
LEMMA HalvesAreSound ==
  ASSUME NEW p \in Pane, Offerable(p), born \in Nat, call.pr \in Nat
  PROVE  \E o, n \in Pane :
           /\ Halved(p) = {o, n}
           /\ o.id = p.id /\ o.role = p.role /\ o.pr = p.pr /\ o.tab = p.tab
           /\ Clears(o, Floor) /\ (p.role = "secretary" => Clears(o, SecretaryFloor))
           /\ n.id = born + 1 /\ n.role = "watcher" /\ n.pr = call.pr /\ n.tab = p.tab
           /\ Clears(n, Floor)
<1> DEFINE d == Direction(p)
           new == Cut(p, d)
           old == IF d = "vertical" THEN [width |-> p.width - new.width, height |-> p.height]
                                    ELSE [width |-> p.width, height |-> p.height - new.height]
           xx == IF d = "vertical" THEN p.x + old.width ELSE p.x
           yy == IF d = "vertical" THEN p.y ELSE p.y + old.height
           o == Sized(p, old)
           m == [p EXCEPT !.id = born + 1, !.role = "watcher", !.pr = call.pr, !.x = xx, !.y = yy]
           n == Sized(m, new)
<1>1. Halved(p) = {o, n} BY DEF Halved
<1>2. d \in SplitOptions(p) /\ d \in {"vertical", "horizontal"} BY DirectionIsAnOption DEF Offerable
<1> HIDE DEF d
<1>3. Clears(new, Floor) /\ (p.role = "secretary" => Clears(new, SecretaryFloor)) BY <1>2 DEF SplitOptions
<1>4. new \in Size BY CutTyped
<1>5. p.width \in Nat /\ p.height \in Nat /\ p.x \in Nat /\ p.y \in Nat BY DEF Pane
<1>6. /\ old \in Size /\ old.width >= new.width /\ old.height >= new.height
  <2>1. CASE d = "vertical"
    <3>1. new = [width |-> p.width \div 2, height |-> p.height] BY <2>1 DEF Cut
    <3>2. old = [width |-> p.width - p.width \div 2, height |-> p.height] BY <2>1, <3>1
    <3> HIDE DEF old, new
    <3> QED BY <1>5, <3>1, <3>2, CutTyped DEF Size
  <2>2. CASE d # "vertical"
    <3>1. new = [width |-> p.width, height |-> p.height \div 2] BY <2>2 DEF Cut
    <3>2. old = [width |-> p.width, height |-> p.height - p.height \div 2] BY <2>2, <3>1
    <3> HIDE DEF old, new
    <3> QED BY <1>5, <3>1, <3>2, CutTyped DEF Size
  <2> QED BY <2>1, <2>2
<1> HIDE DEF old, new
<1>7. xx \in Nat /\ yy \in Nat
  <2>1. old.width \in Nat /\ old.height \in Nat BY <1>6 DEF Size
  <2> QED BY <1>5, <2>1
<1> HIDE DEF xx, yy
<1>8. m \in Pane /\ m.id = born + 1 /\ m.role = "watcher" /\ m.pr = call.pr /\ m.tab = p.tab 
  <2>1. "watcher" \in Roles /\ born + 1 \in Nat BY DEF Roles, AnchorRoles
  <2> QED BY <1>7, <2>1 DEF Pane
<1> HIDE DEF m
<1>9. /\ n \in Pane /\ n.id = m.id /\ n.role = m.role /\ n.pr = m.pr /\ n.tab = m.tab
      /\ n.width = new.width /\ n.height = new.height
  BY <1>4, <1>8 DEF Sized, Pane, Size
<1>10. /\ o \in Pane /\ o.id = p.id /\ o.role = p.role /\ o.pr = p.pr /\ o.tab = p.tab
       /\ o.width = old.width /\ o.height = old.height
  BY <1>6 DEF Sized, Pane, Size
<1> HIDE DEF o, n
<1>11. Clears(n, Floor) BY <1>3, <1>9 DEF Clears
<1>12. /\ new.width \in Nat /\ new.height \in Nat /\ old.width \in Nat /\ old.height \in Nat
       /\ Floor.width \in Nat /\ Floor.height \in Nat
       /\ SecretaryFloor.width \in Nat /\ SecretaryFloor.height \in Nat
  BY <1>4, <1>6 DEF Size, Floor, SecretaryFloor
<1>13. Clears(o, Floor) /\ (p.role = "secretary" => Clears(o, SecretaryFloor))
  BY <1>3, <1>6, <1>10, <1>12 DEF Clears
<1> QED BY <1>1, <1>8, <1>9, <1>10, <1>11, <1>13

\* A new watcher pane, for which another one may have been cut.
LEMMA SpawnKeeps ==
  ASSUME PaneInv, call.pc # "idle", born < MaxSpawns, born' = born + 1, NEW n \in Pane,
         n.id = born + 1, n.role = "watcher", n.pr = call.pr, n.tab \in {"own", "watch"}, Clears(n, Floor),
         \/ shown' = shown \union {n}
         \/ \E p \in shown, o \in Pane :
              /\ shown' = (shown \ {p}) \union {o, n} /\ Offerable(p)
              /\ o.id = p.id /\ o.role = p.role /\ o.pr = p.pr /\ o.tab = p.tab
              /\ Clears(o, Floor) /\ (p.role = "secretary" => Clears(o, SecretaryFloor))
  PROVE  /\ ShownTyped' /\ NobodySqueezed'
         /\ (\A p \in shown : p.pr # call.pr) /\ OneEach =>
              OneEach' /\ \A p \in shown' : p.pr = call.pr => p.id = born + 1
<1> USE WatchPaneAssumption
<1>1. ShownTyped /\ NobodySqueezed /\ call.pr \in Prs /\ Prs \subseteq Nat BY DEF PaneInv, CallTyped
<1>2. \A p \in shown : p \in Pane /\ p.id \in 1..born /\ p.pr \in Prs \union {0} /\ p.tab \in {"own", "watch"}
  BY <1>1 DEF ShownTyped
<1>3. born \in Nat /\ IsFiniteSet(shown) /\ \A p, q \in shown : p.id = q.id => p = q BY <1>1 DEF ShownTyped
<1>4. CASE shown' = shown \union {n}
  <2>1. IsFiniteSet(shown') BY <1>3, <1>4, FS_AddElement
  <2>2. \A p \in shown' : p \in shown \/ p = n BY <1>4
  <2>3. ShownTyped' BY <1>1, <1>2, <1>3, <2>1, <2>2 DEF ShownTyped
  <2>4. NobodySqueezed' BY <1>1, <2>2 DEF NobodySqueezed
  <2>5. (\A p \in shown : p.pr # call.pr) /\ OneEach =>
          OneEach' /\ \A p \in shown' : p.pr = call.pr => p.id = born + 1
    BY <1>1, <2>2 DEF OneEach
  <2> QED BY <2>3, <2>4, <2>5
<1>5. ASSUME NEW p \in shown, NEW o \in Pane,
             shown' = (shown \ {p}) \union {o, n}, Offerable(p),
             o.id = p.id, o.role = p.role, o.pr = p.pr, o.tab = p.tab,
             Clears(o, Floor), p.role = "secretary" => Clears(o, SecretaryFloor)
      PROVE  /\ ShownTyped' /\ NobodySqueezed'
             /\ (\A q \in shown : q.pr # call.pr) /\ OneEach =>
                  OneEach' /\ \A q \in shown' : q.pr = call.pr => q.id = born + 1
  <2>1. IsFiniteSet(shown')
    <3>1. IsFiniteSet(shown \ {p}) BY <1>3, FS_RemoveElement
    <3>2. IsFiniteSet((shown \ {p}) \union {o}) BY <3>1, FS_AddElement
    <3>3. IsFiniteSet(((shown \ {p}) \union {o}) \union {n}) BY <3>2, FS_AddElement
    <3>4. shown' = ((shown \ {p}) \union {o}) \union {n} BY <1>5
    <3> QED BY <3>3, <3>4
  <2>2. \A q \in shown' : (q \in shown /\ q # p) \/ q = o \/ q = n BY <1>5
  <2>3. \A q \in shown' : q \in Pane /\ q.id \in 1..born' /\ q.pr \in Prs \union {0} /\ q.tab \in {"own", "watch"}
    BY <1>1, <1>2, <1>3, <1>5, <2>2
  <2>4. \A q, r \in shown' : q.id = r.id => q = r BY <1>2, <1>3, <1>5, <2>2
  <2>5. ShownTyped' BY <1>3, <2>1, <2>3, <2>4 DEF ShownTyped
  <2>6. p.role \in AnchorRoles /\ "worker" \notin AnchorRoles BY <1>5 DEF Offerable, AnchorRoles
  <2>7. NobodySqueezed' BY <1>1, <1>5, <2>2, <2>6 DEF NobodySqueezed
  <2>8. (\A q \in shown : q.pr # call.pr) /\ OneEach =>
          OneEach' /\ \A q \in shown' : q.pr = call.pr => q.id = born + 1
    <3> SUFFICES ASSUME \A q \in shown : q.pr # call.pr, OneEach
                 PROVE  OneEach' /\ \A q \in shown' : q.pr = call.pr => q.id = born + 1
      OBVIOUS
    <3>1. \A q \in shown' : q.pr = call.pr => q = n BY <1>5, <2>2
    <3>2. \A q, r \in shown' : q.pr = r.pr /\ q.pr # 0 => q = r BY <1>5, <2>2 DEF OneEach
    <3> QED BY <3>1, <3>2 DEF OneEach
  <2> QED BY <2>5, <2>7, <2>8
<1> QED BY <1>4, <1>5

\* The places of the script, and what a step leaves to be tried.
LEMMA CallMoves ==
  ASSUME PaneInv
  PROVE  /\ Exit => CallTyped' /\ LeftIsOffered' /\ NoneYet'
         /\ \A left \in Seq(Nat), new \in Nat,
               pc2 \in {"list", "split", "new_tab", "wait", "close", "own", "own_split"} :
               call.pc # "idle" /\ Goto(pc2, left, new) =>
                 CallTyped' /\ call'.pc = pc2 /\ call'.left = left /\ call'.new = new /\ call'.pr = call.pr
<1>1. NoCall \in Calls /\ NoCall.pc = "idle" /\ NoCall.left = <<>>
  <2>1. <<>> \in Seq(Nat) OBVIOUS
  <2> QED BY <2>1 DEF NoCall, Calls
<1>2. CallTyped BY DEF PaneInv
<1>3. ASSUME Exit PROVE CallTyped' /\ LeftIsOffered' /\ NoneYet'
  BY <1>1, <1>3 DEF Exit, CallTyped, LeftIsOffered, NoneYet
<1>4. ASSUME NEW left \in Seq(Nat), NEW new \in Nat,
             NEW pc2 \in {"list", "split", "new_tab", "wait", "close", "own", "own_split"},
             call.pc # "idle", Goto(pc2, left, new)
      PROVE  CallTyped' /\ call'.pc = pc2 /\ call'.left = left /\ call'.new = new /\ call'.pr = call.pr
  BY <1>2, <1>4 DEF CallTyped, Goto, Calls
<1> QED BY <1>3, <1>4

\* A step that leaves the panes alone or lets some of them go.
LEMMA FewerKeeps ==
  ASSUME PaneInv, shown' \subseteq shown, UNCHANGED born
  PROVE  /\ ShownTyped' /\ NobodySqueezed' /\ (OneEach => OneEach')
         /\ UNCHANGED call => CallTyped' /\ LeftIsOffered' /\ (NoneYet => NoneYet')
<1>1. IsFiniteSet(shown')
  <2>1. IsFiniteSet(shown) BY DEF PaneInv, ShownTyped
  <2> QED BY <2>1, FS_Subset
<1>2. ShownTyped' BY <1>1 DEF PaneInv, ShownTyped
<1>3. NobodySqueezed' BY DEF PaneInv, NobodySqueezed
<1>4. OneEach => OneEach' BY DEF OneEach
<1>5. UNCHANGED call => CallTyped' /\ LeftIsOffered' /\ (NoneYet => NoneYet')
  BY DEF PaneInv, CallTyped, LeftIsOffered, NoneYet
<1> QED BY <1>2, <1>3, <1>4, <1>5

\* What is offered of a tab.
LEMMA TabIsOffered ==
  ASSUME PaneInv, NEW tab
  PROVE  /\ Candidates(In(tab)) \in Seq(Nat)
         /\ \A k \in DOMAIN Candidates(In(tab)), p \in shown : p.id = Candidates(In(tab))[k] => Offerable(p)
<1> DEFINE all == In(tab)
           c == Candidates(all)
<1>1. ShownTyped BY DEF PaneInv
<1>2. all \in SUBSET shown BY DEF In
<1>3. all \subseteq Pane /\ IsFiniteSet(all) /\ \A p, q \in all : p.id = q.id => p = q
  BY <1>1, <1>2, FS_Subset DEF ShownTyped
<1> HIDE DEF all
<1>4. c \in Seq(Nat) /\ \A k \in DOMAIN c : \E p \in all : p.id = c[k] /\ Offerable(p) BY <1>3, CandidatesAreOffered
<1> HIDE DEF c
<1>5. \A k \in DOMAIN c, p \in shown : p.id = c[k] => Offerable(p) BY <1>1, <1>2, <1>4 DEF ShownTyped
<1> QED BY <1>4, <1>5 DEF c, all

LEMMA ScriptKeeps ==
  ASSUME PaneInv, ListAll \/ Exhausted \/ WaitStarted \/ CloseNew \/ OwnTabNow \/ \E pr \in Prs : StartRun(pr)
  PROVE  PaneInv'
<1>0. <<>> \in Seq(Nat) /\ 0 \in Nat OBVIOUS
<1>1. ASSUME NEW pr \in Prs, StartRun(pr) PROVE PaneInv'
  <2>1. call' = [NoCall EXCEPT !.pc = "list", !.pr = pr] /\ UNCHANGED <<shown, born, blind>> BY <1>1 DEF StartRun
  <2>2. call' \in Calls /\ call'.pc = "list" /\ call'.pr = pr /\ call'.left = <<>>
    BY <1>0, <2>1 DEF NoCall, Calls
  <2>3. CallTyped' /\ LeftIsOffered' /\ NoneYet' BY <2>2 DEF CallTyped, LeftIsOffered, NoneYet
  <2> QED BY <2>1, <2>3, FewerKeeps DEF PaneInv
\* Where a step goes on with a list to try.
<1>2. ASSUME UNCHANGED <<shown, born>>, call.pc # "idle", NEW left \in Seq(Nat), NEW new \in Nat,
             NEW pc2 \in {"list", "split", "new_tab", "wait", "close", "own", "own_split"}, Goto(pc2, left, new),
             \A k \in DOMAIN left, p \in shown : p.id = left[k] => Offerable(p),
             ~blind' => ~blind /\ (NoneYet => NoneYet')
      PROVE  PaneInv'
  <2>1. CallTyped' /\ call'.left = left BY <1>2, CallMoves
  <2>2. LeftIsOffered' BY <1>2, <2>1 DEF LeftIsOffered
  <2> QED BY <1>2, <2>1, <2>2, FewerKeeps DEF PaneInv
<1>9. ASSUME UNCHANGED <<shown, born>>, call.pc # "idle", NEW new \in Nat,
             NEW pc2 \in {"list", "split", "new_tab", "wait", "close", "own", "own_split"}, Goto(pc2, <<>>, new),
             ~blind' => ~blind /\ (NoneYet => NoneYet')
      PROVE  PaneInv'
  <2>1. DOMAIN <<>> = {} OBVIOUS
  <2> QED BY <1>0, <1>2, <1>9, <2>1
<1>3. ASSUME UNCHANGED <<born, blind>>, shown' \subseteq shown, Exit PROVE PaneInv'
  BY <1>3, CallMoves, FewerKeeps DEF PaneInv
<1>4. CASE ListAll
  <2>1. call.pc = "list" /\ UNCHANGED <<shown, born>> BY <1>4 DEF ListAll
  <2>2. CASE Goto("own", <<>>, 0) /\ blind' = TRUE BY <1>0, <1>9, <2>1, <2>2
  <2>3. CASE Exit /\ UNCHANGED blind BY <1>3, <2>1, <2>3
  <2>4. CASE ~Running(call.pr, shown) /\ Goto("split", Candidates(In("watch")), 0) /\ UNCHANGED blind
    <3> DEFINE c == Candidates(In("watch"))
    <3>1. c \in Seq(Nat) /\ \A k \in DOMAIN c, p \in shown : p.id = c[k] => Offerable(p) BY TabIsOffered
    <3>2. Goto("split", c, 0) BY <2>4
    <3> HIDE DEF c
    <3>3. call'.pc = "split" /\ call'.pr = call.pr BY <1>0, <2>1, <3>1, <3>2, CallMoves
    <3>4. NoneYet' BY <2>1, <2>4, <3>3 DEF NoneYet, Running
    <3> QED BY <1>0, <1>2, <2>1, <2>4, <3>1, <3>2, <3>4
  <2> QED BY <1>4, <2>2, <2>3, <2>4 DEF ListAll
<1>5. CASE Exhausted
  <2>1. call.pc \in {"split", "own_split"} /\ UNCHANGED <<shown, born, blind>> BY <1>5 DEF Exhausted
  <2>2. CASE Exit BY <1>3, <2>1, <2>2
  <2>3. CASE Goto("new_tab", <<>>, 0)
    <3>1. call'.pc = "new_tab" /\ call'.pr = call.pr BY <1>0, <2>1, <2>3, CallMoves
    <3>2. NoneYet => NoneYet' BY <2>1, <3>1 DEF NoneYet
    <3> QED BY <1>0, <1>9, <2>1, <2>3, <3>2
  <2> QED BY <1>5, <2>2, <2>3 DEF Exhausted
<1>6. CASE WaitStarted
  <2>1. call.pc = "wait" /\ UNCHANGED <<shown, born, blind>> BY <1>6 DEF WaitStarted
  <2>2. CASE Exit BY <1>3, <2>1, <2>2
  <2>3. CASE Goto("close", <<>>, call.new)
    <3>1. call.new \in Nat BY DEF PaneInv, CallTyped, Calls
    <3>2. call'.pc = "close" /\ call'.pr = call.pr /\ call'.new = call.new BY <1>0, <2>1, <2>3, <3>1, CallMoves
    <3>3. NoneYet => NoneYet' BY <2>1, <3>2 DEF NoneYet
    <3> QED BY <1>0, <1>9, <2>1, <2>3, <3>1, <3>3
  <2> QED BY <1>6, <2>2, <2>3 DEF WaitStarted
<1>7. CASE CloseNew
  <2>1. call.pc = "close" /\ UNCHANGED <<born, blind>> BY <1>7 DEF CloseNew
  <2>2. CASE shown' \in {shown, {p \in shown : p.id # call.new}} /\ Exit BY <1>3, <2>1, <2>2
  <2>3. CASE shown' = {p \in shown : p.id # call.new} /\ Goto("own", <<>>, 0)
    <3>1. CallTyped' /\ call'.pc = "own" /\ call'.pr = call.pr /\ call'.left = <<>>
      BY <1>0, <2>1, <2>3, CallMoves
    <3>2. LeftIsOffered' BY <3>1 DEF LeftIsOffered
    <3>3. ~blind => NoneYet' BY <2>1, <2>3, <3>1 DEF PaneInv, NoneYet
    <3>4. shown' \subseteq shown BY <2>3
    <3> QED BY <2>1, <3>1, <3>2, <3>3, <3>4, FewerKeeps DEF PaneInv
  <2> QED BY <1>7, <2>2, <2>3 DEF CloseNew
<1>8. CASE OwnTabNow
  <2>1. call.pc = "own" /\ UNCHANGED <<shown, born, blind>> BY <1>8 DEF OwnTabNow
  <2>2. CASE Exit BY <1>3, <2>1, <2>2
  <2>3. CASE Goto("own_split", <<>>, 0)
    <3>1. call'.pc = "own_split" /\ call'.pr = call.pr BY <1>0, <2>1, <2>3, CallMoves
    <3>2. NoneYet => NoneYet' BY <2>1, <3>1 DEF NoneYet
    <3> QED BY <1>0, <1>9, <2>1, <2>3, <3>2
  <2>4. CASE Goto("own_split", Candidates(In("own")), 0)
    <3> DEFINE c == Candidates(In("own"))
    <3>1. c \in Seq(Nat) /\ \A k \in DOMAIN c, p \in shown : p.id = c[k] => Offerable(p) BY TabIsOffered
    <3>2. Goto("own_split", c, 0) BY <2>4
    <3> HIDE DEF c
    <3>3. call'.pc = "own_split" /\ call'.pr = call.pr BY <1>0, <2>1, <3>1, <3>2, CallMoves
    <3>4. NoneYet => NoneYet' BY <2>1, <3>3 DEF NoneYet
    <3> QED BY <1>0, <1>2, <2>1, <3>1, <3>2, <3>4
  <2> QED BY <1>8, <2>2, <2>3, <2>4 DEF OwnTabNow
<1> QED BY <1>1, <1>4, <1>5, <1>6, <1>7, <1>8

LEMMA TrySplitKeeps ==
  ASSUME PaneInv, TrySplit
  PROVE  PaneInv'
<1>1. /\ call.pc \in {"split", "own_split"} /\ call.left # <<>> /\ UNCHANGED blind
      /\ call.left \in Seq(Nat) /\ call.pr \in Prs /\ born \in Nat /\ ShownTyped /\ CallTyped
  BY DEF TrySplit, PaneInv, CallTyped, Calls, ShownTyped
<1>2. <<>> \in Seq(Nat) /\ born + 1 \in Nat /\ 0 \in Nat BY <1>1
<1>3. CASE Goto(call.pc, Tail(call.left), 0) /\ UNCHANGED <<shown, born>>
  <2> DEFINE left == Tail(call.left)
  <2>1. left \in Seq(Nat) /\ \A k \in DOMAIN left : k + 1 \in DOMAIN call.left /\ left[k] = call.left[k + 1]
    BY <1>1
  <2>2. Goto(call.pc, left, 0) BY <1>3
  <2> HIDE DEF left
  <2>3. CallTyped' /\ call'.pc = call.pc /\ call'.pr = call.pr /\ call'.left = left BY <1>1, <1>2, <2>1, <2>2, CallMoves
  <2>4. LeftIsOffered' BY <1>3, <2>1, <2>3 DEF PaneInv, LeftIsOffered
  <2>5. NoneYet => NoneYet' BY <1>1, <1>3, <2>3 DEF NoneYet
  <2> QED BY <1>1, <1>3, <2>3, <2>4, <2>5, FewerKeeps DEF PaneInv
<1>4. CASE Exit /\ UNCHANGED <<shown, born>> BY <1>1, <1>4, CallMoves, FewerKeeps DEF PaneInv
<1>5. ASSUME {p \in shown : p.id = Head(call.left)} # {}, born < MaxSpawns, SplitInto(ById(Head(call.left))),
             Goto("wait", <<>>, born + 1) \/ Exit
      PROVE  PaneInv'
  <2> DEFINE p == ById(Head(call.left))
  <2>1. p \in shown /\ p.id = Head(call.left) BY <1>5 DEF ById
  <2>2. shown' = (shown \ {p}) \union Halved(p) /\ born' = born + 1 BY <1>5 DEF SplitInto
  <2> HIDE DEF p
  <2>3. 1 \in DOMAIN call.left /\ Head(call.left) = call.left[1] BY <1>1
  <2>4. Offerable(p) /\ p \in Pane /\ p.tab \in {"own", "watch"}
    BY <1>1, <2>1, <2>3 DEF PaneInv, LeftIsOffered, ShownTyped
  <2>5. call.pr \in Nat BY <1>1, WatchPaneAssumption
  <2>6. PICK o, n \in Pane :
           /\ Halved(p) = {o, n}
           /\ o.id = p.id /\ o.role = p.role /\ o.pr = p.pr /\ o.tab = p.tab
           /\ Clears(o, Floor) /\ (p.role = "secretary" => Clears(o, SecretaryFloor))
           /\ n.id = born + 1 /\ n.role = "watcher" /\ n.pr = call.pr /\ n.tab = p.tab
           /\ Clears(n, Floor)
    BY <1>1, <2>4, <2>5, HalvesAreSound
  <2>7. \E q \in shown, r \in Pane :
              /\ shown' = (shown \ {q}) \union {r, n} /\ Offerable(q)
              /\ r.id = q.id /\ r.role = q.role /\ r.pr = q.pr /\ r.tab = q.tab
              /\ Clears(r, Floor) /\ (q.role = "secretary" => Clears(r, SecretaryFloor))
    BY <2>1, <2>2, <2>4, <2>6
  <2>8. /\ ShownTyped' /\ NobodySqueezed'
        /\ (\A q \in shown : q.pr # call.pr) /\ OneEach =>
              OneEach' /\ \A q \in shown' : q.pr = call.pr => q.id = born + 1
    BY <1>1, <1>5, <2>2, <2>4, <2>6, <2>7, SpawnKeeps
  <2>9. ~blind => (\A q \in shown : q.pr # call.pr) /\ OneEach BY <1>1 DEF PaneInv, NoneYet
  <2>10. CASE Exit BY <1>1, <2>8, <2>9, <2>10, CallMoves DEF PaneInv
  <2>11. CASE Goto("wait", <<>>, born + 1)
    <3>1. CallTyped' /\ call'.pc = "wait" /\ call'.left = <<>> /\ call'.new = born + 1 /\ call'.pr = call.pr
      BY <1>1, <1>2, <2>11, CallMoves
    <3>2. LeftIsOffered' BY <3>1 DEF LeftIsOffered
    <3>3. ~blind => NoneYet' BY <2>8, <2>9, <3>1 DEF NoneYet
    <3> QED BY <1>1, <2>8, <2>9, <3>1, <3>2, <3>3 DEF PaneInv
  <2> QED BY <1>5, <2>10, <2>11
<1> QED BY <1>3, <1>4, <1>5 DEF TrySplit

LEMMA NewTabKeeps ==
  ASSUME PaneInv, NewTab
  PROVE  PaneInv'
<1>1. /\ call.pc = "new_tab" /\ UNCHANGED blind /\ call.pr \in Prs /\ born \in Nat /\ ShownTyped /\ CallTyped
  BY DEF NewTab, PaneInv, CallTyped, Calls, ShownTyped
<1>2. <<>> \in Seq(Nat) /\ born + 1 \in Nat /\ 0 \in Nat BY <1>1
<1>3. CASE Goto("own", <<>>, 0) /\ UNCHANGED <<shown, born>>
  <2>1. CallTyped' /\ call'.pc = "own" /\ call'.pr = call.pr /\ call'.left = <<>> BY <1>1, <1>2, <1>3, CallMoves
  <2>2. LeftIsOffered' /\ (NoneYet => NoneYet') BY <1>1, <1>3, <2>1 DEF LeftIsOffered, NoneYet
  <2> QED BY <1>1, <1>3, <2>1, <2>2, FewerKeeps DEF PaneInv
<1>4. CASE Exit /\ UNCHANGED <<shown, born>> BY <1>1, <1>4, CallMoves, FewerKeeps DEF PaneInv
<1> DEFINE n == [id |-> born + 1, role |-> "watcher", pr |-> call.pr, tab |-> "watch",
                 x |-> 0, y |-> 0, width |-> FullTab.width, height |-> FullTab.height]
<1>5. ASSUME born < MaxSpawns, born' = born + 1, shown' = shown \union {n}, Goto("wait", <<>>, born + 1) \/ Exit
      PROVE  PaneInv'
  <2>1. /\ n \in Pane /\ n.id = born + 1 /\ n.role = "watcher" /\ n.pr = call.pr /\ n.tab \in {"own", "watch"}
        /\ Clears(n, Floor)
    <3>1. FullTab.width \in Nat /\ FullTab.height \in Nat /\ Clears(FullTab, Floor) BY TabAssumption
    <3>2. call.pr \in Nat BY <1>1, WatchPaneAssumption
    <3>3. "watcher" \in Roles BY DEF Roles, AnchorRoles
    <3>4. n \in Pane BY <1>2, <3>1, <3>2, <3>3 DEF Pane
    <3>5. n.width = FullTab.width /\ n.height = FullTab.height OBVIOUS
    <3>6. Clears(n, Floor) BY <3>1, <3>5 DEF Clears
    <3> QED BY <3>4, <3>6
  <2> HIDE DEF n
  <2>8. /\ ShownTyped' /\ NobodySqueezed'
        /\ (\A q \in shown : q.pr # call.pr) /\ OneEach =>
              OneEach' /\ \A q \in shown' : q.pr = call.pr => q.id = born + 1
    BY <1>1, <1>5, <2>1, SpawnKeeps
  <2>9. ~blind => (\A q \in shown : q.pr # call.pr) /\ OneEach BY <1>1 DEF PaneInv, NoneYet
  <2>10. CASE Exit BY <1>1, <2>8, <2>9, <2>10, CallMoves DEF PaneInv
  <2>11. CASE Goto("wait", <<>>, born + 1)
    <3>1. CallTyped' /\ call'.pc = "wait" /\ call'.left = <<>> /\ call'.new = born + 1 /\ call'.pr = call.pr
      BY <1>1, <1>2, <2>11, CallMoves
    <3>2. LeftIsOffered' BY <3>1 DEF LeftIsOffered
    <3>3. ~blind => NoneYet' BY <2>8, <2>9, <3>1 DEF NoneYet
    <3> QED BY <1>1, <2>8, <2>9, <3>1, <3>2, <3>3 DEF PaneInv
  <2> QED BY <1>5, <2>10, <2>11
<1> QED BY <1>3, <1>4, <1>5 DEF NewTab

LEMMA PaneInitHolds ==
  ASSUME PaneInit
  PROVE  PaneInv
<1>1. shown = OwnTab /\ born = Cardinality(OwnTab) /\ call = NoCall BY DEF PaneInit
<1>2. born \in Nat /\ born <= MaxSpawns BY <1>1, TabAssumption, FS_CardinalityType
<1>3. \A p \in shown : p \in Pane /\ p.id \in 1..born /\ p.pr = 0 /\ p.tab = "own"
  <2> SUFFICES ASSUME NEW p \in OwnTab PROVE p \in Pane /\ p.id \in 1..born /\ p.pr = 0 /\ p.tab = "own"
    BY <1>1
  <2> DEFINE m == Cardinality(OwnTab)
  <2>1. p \in [id : 1..m, role : Roles, pr : {0}, tab : {"own"}, x : Nat, y : Nat, width : Nat, height : Nat]
    BY TabAssumption
  <2>2. m = born BY <1>1
  <2> HIDE DEF m
  <2>3. 1..m \subseteq Nat /\ {0} \subseteq Nat /\ {"own"} \subseteq {"own", "watch"} BY <1>2, <2>2
  <2>4. p \in Pane BY <2>1, <2>3 DEF Pane
  <2>5. p.id \in 1..m /\ p.pr \in {0} /\ p.tab \in {"own"} BY <2>1
  <2> QED BY <2>2, <2>4, <2>5
<1>4. ShownTyped BY <1>1, <1>2, <1>3, TabAssumption DEF ShownTyped
<1>5. NobodySqueezed BY <1>1, TabAssumption DEF NobodySqueezed
<1>6. CallTyped /\ LeftIsOffered /\ NoneYet
  <2>1. <<>> \in Seq(Nat) OBVIOUS
  <2> QED BY <1>1, <2>1 DEF NoCall, Calls, CallTyped, LeftIsOffered, NoneYet
<1>7. OneEach BY <1>3 DEF OneEach
<1> QED BY <1>4, <1>5, <1>6, <1>7 DEF PaneInv

LEMMA PaneInvariant == PaneSpec => []PaneInv
<1>1. PaneInv /\ [PaneNext]_paneVars => PaneInv'
  <2> SUFFICES ASSUME PaneInv, [PaneNext]_paneVars PROVE PaneInv' OBVIOUS
  <2>1. CASE UNCHANGED paneVars
    <3>1. UNCHANGED <<shown, born, call, blind>> BY <2>1 DEF paneVars
    <3> QED BY <3>1, FewerKeeps DEF PaneInv
  <2>2. CASE PaneCloses
    <3>1. shown' \subseteq shown /\ UNCHANGED <<born, call, blind>> BY <2>2 DEF PaneCloses
    <3> QED BY <3>1, FewerKeeps DEF PaneInv
  <2> QED BY <2>1, <2>2, ScriptKeeps, TrySplitKeeps, NewTabKeeps DEF PaneNext
<1> QED BY <1>1, PaneInitHolds, PTL DEF PaneSpec

\* Each pull request has at most one watcher's pane, and no split leaves a pane less room than
\* it needs (tools/spawn_watch_pane.py, pick_watcher_anchor.py), for any tab and any failures.
THEOREM PanesStaySound == PaneSpec => []PanesAreSound
<1>1. PaneInv => PanesAreSound BY DEF PaneInv, PanesAreSound, OnePanePerPr, OneEach
<1> QED BY <1>1, PaneInvariant, PTL

-----------------------------------------------------------------------------
(* WatcherRestartGuard                                                     *)

LaunchRow == "pr_watch_pane_started"
RowType == [kind : Terminals \union {"fix_pushed", "pr_watch_pane_started"}, repo : Repos,
            commit : Heads \union {Unread}, status : {"none", "passed", "failed", "indeterminate"},
            truth : Heads \union {Unread}]

GuardTyped ==
  /\ tip \in Heads /\ launching \in 0..Len(watches)
  /\ watches \in Seq([base : Heads, phase : Phases])
  /\ trail \in Seq(RowType) /\ late \subseteq DOMAIN trail
  /\ \A i \in DOMAIN trail : trail[i].repo = "mine" => trail[i].truth # 0

Ended == {i \in DOMAIN watches : watches[i].phase = "ended"}

\* of: whose a launch row is.  fin: the row that ended a watch.
Matches(of, fin) ==
  /\ \A v, w \in Watchers : of[v] = of[w] => v = w
  /\ \A i, j \in Ended : fin[i] = fin[j] => i = j
  /\ \A v \in Watchers : of[v] \in Ended /\ v \notin late => v < fin[of[v]]
  /\ \A v \in Watchers : v \in late =>
       of[v] \in Ended /\ \A q \in Baselines : q < v => q < fin[of[v]]
  /\ \A v \in Watchers : launching # 0 => of[v] # launching
  /\ launching \in Ended => \A q \in Baselines : q < fin[launching]

\* Every launch on record is of a watch of its own, and every watch that is over has a
\* row of its own: after its launch row, or at least after the pushes before that.
Matched == \E of \in [Watchers -> DOMAIN watches], fin \in [Ended -> EndRows] : Matches(of, fin)

GuardInv == GuardTyped /\ (~silent => Matched)

\* --------------------------------------------------------------------------
(* The log grows                                                            *)

LEMMA RowsOfLog ==
  /\ \A i : i \in Watchers <=> i \in DOMAIN trail /\ trail[i].kind = LaunchRow /\ trail[i].repo = "mine"
  /\ \A i : i \in Baselines <=> i \in DOMAIN trail /\ trail[i].kind = "fix_pushed" /\ trail[i].repo = "mine"
  /\ \A i : i \in EndRows <=> i \in DOMAIN trail /\ trail[i].kind \in Terminals /\ trail[i].repo \in {"mine", "none"}
BY DEF Watchers, Baselines, EndRows, Found, LaunchRow

LEMMA RowsOfLogNext ==
  /\ \A i : i \in Watchers' <=> i \in DOMAIN trail' /\ trail'[i].kind = LaunchRow /\ trail'[i].repo = "mine"
  /\ \A i : i \in Baselines' <=> i \in DOMAIN trail' /\ trail'[i].kind = "fix_pushed" /\ trail'[i].repo = "mine"
  /\ \A i : i \in EndRows' <=> i \in DOMAIN trail' /\ trail'[i].kind \in Terminals /\ trail'[i].repo \in {"mine", "none"}
BY DEF Watchers, Baselines, EndRows, Found, LaunchRow

LEMMA LogIsExtended ==
  ASSUME GuardTyped, NEW r \in RowType, Log(r), r.repo = "mine" => r.truth # 0
  PROVE  /\ trail' \in Seq(RowType) /\ \A i \in DOMAIN trail' : trail'[i].repo = "mine" => trail'[i].truth # 0
         /\ Len(trail) + 1 \in Nat /\ \A i \in DOMAIN trail : i \in Nat /\ i < Len(trail) + 1
         /\ Len(trail') = Len(trail) + 1 /\ DOMAIN trail' = DOMAIN trail \union {Len(trail) + 1}
         /\ trail'[Len(trail) + 1] = r /\ \A i \in DOMAIN trail : trail'[i] = trail[i]
         /\ Watchers' = Watchers \union (IF r.kind = LaunchRow /\ r.repo = "mine" THEN {Len(trail) + 1} ELSE {})
         /\ Baselines' = Baselines \union (IF r.kind = "fix_pushed" /\ r.repo = "mine" THEN {Len(trail) + 1} ELSE {})
         /\ EndRows' = EndRows \union
              (IF r.kind \in Terminals /\ r.repo \in {"mine", "none"} THEN {Len(trail) + 1} ELSE {})
<1> DEFINE n == Len(trail) + 1
<1>1. trail \in Seq(RowType) /\ trail' = Append(trail, r) BY DEF GuardTyped, Log
<1>2. /\ trail' \in Seq(RowType) /\ n \in Nat /\ DOMAIN trail = 1..Len(trail) /\ Len(trail') = n
      /\ DOMAIN trail' = DOMAIN trail \union {n} /\ trail'[n] = r /\ \A i \in DOMAIN trail : trail'[i] = trail[i]
  BY <1>1
<1>3. \A i \in DOMAIN trail : i \in Nat /\ i < n BY <1>1, <1>2
<1>4. n \notin DOMAIN trail BY <1>3
<1>5. \A i \in DOMAIN trail' : trail'[i].repo = "mine" => trail'[i].truth # 0 BY <1>2 DEF GuardTyped
<1> HIDE DEF n
<1>6. Watchers' = Watchers \union (IF r.kind = LaunchRow /\ r.repo = "mine" THEN {n} ELSE {})
  BY <1>2, <1>4, RowsOfLog, RowsOfLogNext
<1>7. Baselines' = Baselines \union (IF r.kind = "fix_pushed" /\ r.repo = "mine" THEN {n} ELSE {})
  BY <1>2, <1>4, RowsOfLog, RowsOfLogNext
<1>8. EndRows' = EndRows \union (IF r.kind \in Terminals /\ r.repo \in {"mine", "none"} THEN {n} ELSE {})
  BY <1>2, <1>4, RowsOfLog, RowsOfLogNext
<1> QED BY <1>2, <1>3, <1>5, <1>6, <1>7, <1>8 DEF n

\* A row that records no launch, with which a watch may end.
LEMMA RowKeepsMatched ==
  ASSUME GuardTyped, Matched, NEW r \in RowType, Log(r), r.repo = "mine" => r.truth # 0,
         ~(r.kind = LaunchRow /\ r.repo = "mine"), r.kind = "fix_pushed" => launching = 0,
         launching' \in {0, launching}, DOMAIN watches' = DOMAIN watches,
         late \subseteq late', late' \subseteq late \union {Len(trail) + 1},
         \/ Ended' = Ended
         \/ \E i \in DOMAIN watches \ Ended : Ended' = Ended \union {i} /\ r.kind \in Terminals /\ r.repo = "mine"
  PROVE  Matched'
<1> DEFINE n == Len(trail) + 1
<1>1. PICK of \in [Watchers -> DOMAIN watches], fin \in [Ended -> EndRows] : Matches(of, fin) BY DEF Matched
<1>2. /\ n \in Nat /\ \A i \in DOMAIN trail : i \in Nat /\ i < n
      /\ Watchers' = Watchers
      /\ Baselines' = Baselines \union (IF r.kind = "fix_pushed" /\ r.repo = "mine" THEN {n} ELSE {})
      /\ EndRows' = EndRows \union (IF r.kind \in Terminals /\ r.repo \in {"mine", "none"} THEN {n} ELSE {})
  BY LogIsExtended
<1> HIDE DEF n
<1>3. EndRows \subseteq DOMAIN trail /\ Watchers \subseteq DOMAIN trail /\ Baselines \subseteq DOMAIN trail BY RowsOfLog
<1>6. \A v \in Watchers' : v \in late' <=> v \in late
  <2>1. n \notin Watchers' BY <1>2, <1>3
  <2> QED BY <1>2, <2>1 DEF n
<1>4. CASE Ended' = Ended
  <2>0. 0 \notin Ended BY DEF Ended, GuardTyped
  <2>1. of \in [Watchers' -> DOMAIN watches'] /\ fin \in [Ended' -> EndRows'] BY <1>2, <1>4
  <2>2. \A v \in Watchers, q \in Baselines' : q < v => q \in Baselines
    BY <1>2, <1>3
  <2>3. launching' \in Ended => launching' = launching /\ Baselines' = Baselines BY <1>2, <2>0
  <2>4. Matches(of, fin)'
    <3>1. \A v, w \in Watchers' : of[v] = of[w] => v = w BY <1>1, <1>2 DEF Matches
    <3>2. \A i, j \in Ended' : fin[i] = fin[j] => i = j BY <1>1, <1>4 DEF Matches
    <3>3. \A v \in Watchers' : of[v] \in Ended' /\ v \notin late' => v < fin[of[v]]
      BY <1>1, <1>2, <1>4 DEF Matches
    <3>4. \A v \in Watchers' : v \in late' =>
            of[v] \in Ended' /\ \A q \in Baselines' : q < v => q < fin[of[v]]
      BY <1>1, <1>2, <1>4, <1>6, <2>2 DEF Matches
    <3>5. \A v \in Watchers' : launching' # 0 => of[v] # launching' BY <1>1, <1>2 DEF Matches
    <3>6. launching' \in Ended' => \A q \in Baselines' : q < fin[launching']
      BY <1>1, <1>4, <2>3 DEF Matches
    <3> QED BY <3>1, <3>2, <3>3, <3>4, <3>5, <3>6 DEF Matches
  <2> QED BY <2>1, <2>4 DEF Matched
<1>5. ASSUME NEW i \in DOMAIN watches \ Ended, Ended' = Ended \union {i}, r.kind \in Terminals, r.repo = "mine"
      PROVE  Matched'
  <2>1. Baselines' = Baselines /\ EndRows' = EndRows \union {n} BY <1>2, <1>5 DEF Terminals
  <2>2. PICK g \in [Ended \union {i} -> EndRows \union {n}] : g[i] = n /\ \A k \in Ended : g[k] = fin[k]
    <3> DEFINE h == [k \in Ended \union {i} |-> IF k = i THEN n ELSE fin[k]]
    <3>1. h \in [Ended \union {i} -> EndRows \union {n}] /\ h[i] = n /\ \A k \in Ended : h[k] = fin[k]
      BY <1>5
    <3> QED BY <3>1
  <2>3. of \in [Watchers' -> DOMAIN watches'] /\ g \in [Ended' -> EndRows'] BY <1>2, <1>5, <2>1, <2>2
  <2>4. \A k \in Ended : g[k] # n /\ g[k] < n BY <1>2, <1>3, <2>2
  <2>5. \A k, j \in Ended' : g[k] = g[j] => k = j BY <1>1, <1>5, <2>2, <2>4 DEF Matches
  <2>6. \A v \in Watchers' : of[v] \in Ended' /\ v \notin late' => v < g[of[v]]
    BY <1>1, <1>2, <1>3, <1>5, <1>6, <2>2 DEF Matches
  <2>7. \A v \in Watchers' : v \in late' => of[v] \in Ended' /\ \A q \in Baselines' : q < v => q < g[of[v]]
    BY <1>1, <1>2, <1>5, <1>6, <2>1, <2>2 DEF Matches
  <2>8. launching' \in Ended' => \A q \in Baselines' : q < g[launching']
    <3>1. 0 \notin Ended' BY <1>5 DEF Ended, GuardTyped
    <3> QED BY <1>1, <1>2, <1>3, <1>5, <2>1, <2>2, <3>1 DEF Matches
  <2>9. \A v, w \in Watchers' : of[v] = of[w] => v = w BY <1>1, <1>2 DEF Matches
  <2>10. \A v \in Watchers' : launching' # 0 => of[v] # launching' BY <1>1, <1>2 DEF Matches
  <2>11. Matches(of, g)' BY <2>5, <2>6, <2>7, <2>8, <2>9, <2>10 DEF Matches
  <2> QED BY <2>3, <2>11 DEF Matched
<1> QED BY <1>4, <1>5

\* Nothing is written, and no watch ends.
LEMMA QuietKeepsMatched ==
  ASSUME GuardTyped, Matched, UNCHANGED <<trail, late>>, Ended' = Ended, DOMAIN watches \subseteq DOMAIN watches',
         launching' \in {0, launching} \/ launching' \notin DOMAIN watches
  PROVE  Matched'
<1>1. PICK of \in [Watchers -> DOMAIN watches], fin \in [Ended -> EndRows] : Matches(of, fin) BY DEF Matched
<1>2. Watchers' = Watchers /\ Baselines' = Baselines /\ EndRows' = EndRows BY RowsOfLog, RowsOfLogNext
<1>3. of \in [Watchers' -> DOMAIN watches'] /\ fin \in [Ended' -> EndRows'] BY <1>2
<1>4. 0 \notin Ended /\ Ended \subseteq DOMAIN watches BY DEF Ended, GuardTyped
<1>5. \A v \in Watchers' : launching' # 0 => of[v] # launching' BY <1>1, <1>2 DEF Matches
<1>6. launching' \in Ended' => \A q \in Baselines' : q < fin[launching'] BY <1>1, <1>2, <1>4 DEF Matches
<1>7. Matches(of, fin)' BY <1>1, <1>2, <1>5, <1>6 DEF Matches
<1> QED BY <1>3, <1>7 DEF Matched

\* A launch is recorded: it is late if its watch has ended, and then after the pushes on record.
LEMMA LaunchKeepsMatched ==
  ASSUME GuardTyped, Matched, NEW r \in RowType, Log(r), r.kind = LaunchRow, r.repo = "mine", r.truth # 0,
         launching # 0, launching' = 0, UNCHANGED watches,
         late' = IF launching \in Ended THEN late \union {Len(trail) + 1} ELSE late
  PROVE  Matched'
<1> DEFINE n == Len(trail) + 1
<1>1. PICK of \in [Watchers -> DOMAIN watches], fin \in [Ended -> EndRows] : Matches(of, fin) BY DEF Matched
<1>2. /\ n \in Nat /\ \A i \in DOMAIN trail : i \in Nat /\ i < n
      /\ Watchers' = Watchers \union {n} /\ Baselines' = Baselines /\ EndRows' = EndRows
  BY LogIsExtended DEF LaunchRow, Terminals
<1>3. late' = IF launching \in Ended THEN late \union {n} ELSE late OBVIOUS
<1> HIDE DEF n
<1>4. EndRows \subseteq DOMAIN trail /\ Watchers \subseteq DOMAIN trail /\ Baselines \subseteq DOMAIN trail
      /\ late \subseteq DOMAIN trail
  BY RowsOfLog DEF GuardTyped
<1>5. n \notin Watchers /\ n \notin late BY <1>2, <1>4
<1>6. launching \in DOMAIN watches /\ Ended' = Ended /\ 0 \notin Ended BY DEF GuardTyped, Ended
<1>7. PICK by \in [Watchers \union {n} -> DOMAIN watches] :
        by[n] = launching /\ \A v \in Watchers : by[v] = of[v]
  <2> DEFINE b2 == [v \in Watchers \union {n} |-> IF v = n THEN launching ELSE of[v]]
  <2>1. b2 \in [Watchers \union {n} -> DOMAIN watches] /\ b2[n] = launching /\ \A v \in Watchers : b2[v] = of[v]
    BY <1>5, <1>6
  <2> QED BY <2>1
<1>8. \A v, w \in Watchers' : by[v] = by[w] => v = w BY <1>1, <1>2, <1>7 DEF Matches
<1>9. \A v \in Watchers' : by[v] \in Ended' /\ v \notin late' => v < fin[by[v]]
  BY <1>1, <1>2, <1>3, <1>6, <1>7 DEF Matches
<1>10. \A v \in Watchers' : v \in late' => by[v] \in Ended' /\ \A q \in Baselines' : q < v => q < fin[by[v]]
  BY <1>1, <1>2, <1>3, <1>5, <1>6, <1>7 DEF Matches
<1>11. Matches(by, fin)' BY <1>1, <1>2, <1>6, <1>8, <1>9, <1>10 DEF Matches
<1>12. by \in [Watchers' -> DOMAIN watches'] /\ fin \in [Ended' -> EndRows'] BY <1>2, <1>6
<1> QED BY <1>11, <1>12 DEF Matched

LEMMA RowIsRow ==
  \A kind \in Terminals \union {"fix_pushed", LaunchRow}, repo \in Repos, commit \in Heads \union {Unread},
     status \in {"none", "passed", "failed", "indeterminate"}, truth \in Heads \union {Unread} :
    /\ Row(kind, repo, commit, status, truth) \in RowType
    /\ Row(kind, repo, commit, status, truth).kind = kind
    /\ Row(kind, repo, commit, status, truth).repo = repo
    /\ Row(kind, repo, commit, status, truth).truth = truth
BY DEF Row, RowType, LaunchRow

\* A row of this pull request.
LEMMA OwnRow ==
  ASSUME NEW kind \in {"ci_completed", "pr_merged", "pr_watch_aborted", "fix_pushed", "pr_watch_pane_started"},
         NEW repo \in {"mine", "none"}, NEW status \in {"none", "passed", "failed", "indeterminate"},
         NEW truth \in Heads, NEW commit \in {Unread, truth}
  PROVE  LET r == Row(kind, repo, commit, status, truth)
         IN r \in RowType /\ r.kind = kind /\ r.repo = repo /\ r.truth = truth
<1>1. kind \in Terminals \union {"fix_pushed", LaunchRow} BY DEF Terminals, LaunchRow
<1>2. repo \in Repos BY DEF Repos
<1>3. commit \in Heads \union {Unread} /\ truth \in Heads \union {Unread} OBVIOUS
<1> QED BY ONLY <1>1, <1>2, <1>3, RowIsRow, status \in {"none", "passed", "failed", "indeterminate"}

LEMMA WatchTyped ==
  ASSUME GuardTyped, NEW i \in DOMAIN watches
  PROVE  watches[i] \in [base : Heads, phase : Phases] /\ watches[i].base \in Heads /\ watches[i].base # 0
<1>1. watches \in Seq([base : Heads, phase : Phases]) BY DEF GuardTyped
<1> DEFINE T == [base : Heads, phase : Phases]
<1>2. watches[i] \in T
  <2> HIDE DEF T
  <2>1. watches \in Seq(T) BY <1>1 DEF T
  <2> QED BY <2>1
<1>3. \A x \in T : x.base \in Heads OBVIOUS
<1>4. \A h \in Heads : h # 0 BY DEF Heads
<1> HIDE DEF T
<1> QED BY <1>2, <1>3, <1>4 DEF T

\* A watch that moves on.
LEMMA WatchMoves ==
  ASSUME GuardTyped, NEW i \in DOMAIN watches, NEW x \in [base : Heads, phase : Phases],
         watches[i].phase # "ended", watches' = [watches EXCEPT ![i] = x]
  PROVE  /\ watches' \in Seq([base : Heads, phase : Phases]) /\ DOMAIN watches' = DOMAIN watches
         /\ Len(watches') = Len(watches) /\ i \in DOMAIN watches \ Ended
         /\ Ended' = IF x.phase = "ended" THEN Ended \union {i} ELSE Ended
BY DEF GuardTyped, Ended

LEMMA GuardInit1 == GuardInit => GuardInv
<1> SUFFICES ASSUME GuardInit PROVE GuardInv OBVIOUS
<1>1. GuardTyped BY GuardAssumption DEF GuardInit, GuardTyped, Heads
<1>2. Watchers = {} /\ Ended = {} /\ Baselines = {} BY RowsOfLog DEF GuardInit, Ended
<1>3. [x \in {} |-> x] \in [{} -> DOMAIN watches] OBVIOUS
<1>4. [x \in {} |-> x] \in [{} -> EndRows] OBVIOUS
<1>5. PICK of \in [Watchers -> DOMAIN watches], fin \in [Ended -> EndRows] : TRUE BY <1>2, <1>3, <1>4
<1>6. Matches(of, fin) BY <1>2 DEF Matches
<1>7. Matched BY <1>6 DEF Matched
<1> QED BY <1>1, <1>7 DEF GuardInv

LEMMA GuardQuietKeeps ==
  ASSUME GuardInv, PushFix \/ SpawnWatch \/ \E i \in DOMAIN watches : HeadMoves(i) \/ SilentEnd(i)
  PROVE  GuardInv'
<1>1. GuardTyped /\ (~silent => Matched) BY DEF GuardInv
<1>2. CASE PushFix
  <2>1. GuardTyped' BY <1>1, <1>2, GuardAssumption DEF PushFix, GuardTyped, Heads
  <2>2. Ended' = Ended BY <1>2 DEF PushFix, Ended
  <2>3. ~silent => Matched' BY <1>1, <1>2, <2>2, QuietKeepsMatched DEF PushFix
  <2> QED BY <1>2, <2>1, <2>3 DEF GuardInv, PushFix
<1>3. CASE SpawnWatch
  <2>1. [base |-> tip, phase |-> "ci"] \in [base : Heads, phase : Phases] BY <1>1 DEF GuardTyped, Phases
  <2>2. /\ watches' \in Seq([base : Heads, phase : Phases]) /\ Len(watches') = Len(watches) + 1
        /\ DOMAIN watches = 1..Len(watches) /\ DOMAIN watches' = 1..(Len(watches) + 1) /\ Len(watches) \in Nat
        /\ \A i \in DOMAIN watches : watches'[i] = watches[i]
        /\ watches'[Len(watches) + 1] = [base |-> tip, phase |-> "ci"]
    BY <1>1, <1>3, <2>1 DEF SpawnWatch, GuardTyped
  <2>3. GuardTyped' BY <1>1, <1>3, <2>2 DEF SpawnWatch, GuardTyped
  <2>4. Ended' = Ended BY <2>2 DEF Ended
  <2>5. launching' \notin DOMAIN watches /\ DOMAIN watches \subseteq DOMAIN watches' BY <1>3, <2>2 DEF SpawnWatch
  <2>6. ~silent => Matched' BY <1>1, <1>3, <2>4, <2>5, QuietKeepsMatched DEF SpawnWatch
  <2> QED BY <1>3, <2>3, <2>6 DEF GuardInv, SpawnWatch
<1>4. ASSUME NEW i \in DOMAIN watches, HeadMoves(i) PROVE GuardInv'
  <2> DEFINE x == [base |-> tip, phase |-> "ci"]
  <2>1. x \in [base : Heads, phase : Phases] /\ x.phase # "ended" BY <1>1 DEF GuardTyped, Phases
  <2>2. watches[i].phase # "ended" /\ watches' = [watches EXCEPT ![i] = x] /\ UNCHANGED <<trail, tip, launching, late, silent>>
    BY <1>4 DEF HeadMoves, Now
  <2> HIDE DEF x
  <2>3. /\ watches' \in Seq([base : Heads, phase : Phases]) /\ DOMAIN watches' = DOMAIN watches
        /\ Len(watches') = Len(watches) /\ Ended' = Ended
    BY <1>1, <2>1, <2>2, WatchMoves
  <2>4. GuardTyped' BY <1>1, <2>2, <2>3 DEF GuardTyped
  <2>5. ~silent => Matched' BY <1>1, <2>2, <2>3, QuietKeepsMatched
  <2> QED BY <2>2, <2>4, <2>5 DEF GuardInv
<1>5. ASSUME NEW i \in DOMAIN watches, SilentEnd(i) PROVE GuardInv'
  <2> DEFINE x == [base |-> tip, phase |-> "ended"]
  <2>1. x \in [base : Heads, phase : Phases] BY <1>1 DEF GuardTyped, Phases
  <2>2. watches[i].phase # "ended" /\ watches' = [watches EXCEPT ![i] = x] /\ UNCHANGED <<trail, tip, launching, late>> /\ silent'
    BY <1>5 DEF SilentEnd, Now
  <2> HIDE DEF x
  <2>3. watches' \in Seq([base : Heads, phase : Phases]) /\ Len(watches') = Len(watches)
    BY <1>1, <2>1, <2>2, WatchMoves
  <2>4. GuardTyped' BY <1>1, <2>2, <2>3 DEF GuardTyped
  <2> QED BY <2>2, <2>4 DEF GuardInv
<1> QED BY <1>2, <1>3, <1>4, <1>5

\* A row of no launch, with the rest of what its writer changes.
LEMMA GuardRowKeeps ==
  ASSUME GuardInv, NEW r \in RowType, Log(r), r.repo = "mine" => r.truth # 0,
         ~(r.kind = LaunchRow /\ r.repo = "mine"), r.kind = "fix_pushed" => launching = 0,
         launching' \in {0, launching}, DOMAIN watches' = DOMAIN watches, Len(watches') = Len(watches),
         watches' \in Seq([base : Heads, phase : Phases]), UNCHANGED <<tip, silent>>,
         late \subseteq late', late' \subseteq late \union {Len(trail) + 1},
         \/ Ended' = Ended
         \/ \E i \in DOMAIN watches \ Ended : Ended' = Ended \union {i} /\ r.kind \in Terminals /\ r.repo = "mine"
  PROVE  GuardInv'
<1>1. GuardTyped /\ (~silent => Matched) BY DEF GuardInv
<1>2. /\ trail' \in Seq(RowType) /\ \A i \in DOMAIN trail' : trail'[i].repo = "mine" => trail'[i].truth # 0
      /\ DOMAIN trail' = DOMAIN trail \union {Len(trail) + 1}
  BY <1>1, LogIsExtended
<1>3. launching' \in 0..Len(watches) BY <1>1 DEF GuardTyped
<1>4. GuardTyped' BY <1>1, <1>2, <1>3 DEF GuardTyped
<1>5. ~silent => Matched' BY <1>1, RowKeepsMatched
<1> QED BY <1>4, <1>5 DEF GuardInv

LEMMA GuardLogKeeps ==
  ASSUME GuardInv, RecordPush \/ RecordLaunch \/ ForeignRow
  PROVE  GuardInv'
<1>1. GuardTyped /\ (~silent => Matched) BY DEF GuardInv
<1>2. CASE RecordPush
  <2>1. PICK commit \in {Unread, tip} : Log(Row("fix_pushed", "mine", commit, "none", tip)) BY <1>2 DEF RecordPush
  <2> DEFINE r == Row("fix_pushed", "mine", commit, "none", tip)
  <2>2. r \in RowType /\ r.kind = "fix_pushed" /\ r.repo = "mine" /\ r.truth = tip
    BY <1>1, <2>1, OwnRow DEF GuardTyped
  <2>3. tip # 0 BY <1>1 DEF GuardTyped, Heads
  <2>4. launching = 0 /\ UNCHANGED <<tip, watches, launching, late, silent>> BY <1>2 DEF RecordPush
  <2>5. Ended' = Ended BY <2>4 DEF Ended
  <2> HIDE DEF r
  <2>6. watches' \in Seq([base : Heads, phase : Phases]) BY <1>1, <2>4 DEF GuardTyped
  <2>7. Log(r) BY <2>1 DEF r
  <2> QED BY <2>2, <2>3, <2>4, <2>5, <2>6, <2>7, GuardRowKeeps DEF LaunchRow
<1>3. CASE RecordLaunch /\ UNCHANGED <<trail, late>>
  <2>1. launching' = 0 /\ UNCHANGED <<tip, watches, silent>> BY <1>3 DEF RecordLaunch
  <2>2. Ended' = Ended BY <2>1 DEF Ended
  <2>3. GuardTyped' BY <1>1, <1>3, <2>1 DEF GuardTyped
  <2>4. ~silent => Matched' BY <1>1, <1>3, <2>1, <2>2, QuietKeepsMatched
  <2> QED BY <2>1, <2>3, <2>4 DEF GuardInv
<1>4. ASSUME NEW repo \in {"mine", "none"}, RecordLaunch,
             Log(Row("pr_watch_pane_started", repo, Unread, "none", watches[launching].base)),
             late' = IF watches[launching].phase = "ended" THEN late \union {Len(trail')} ELSE late
      PROVE  GuardInv'
  <2> DEFINE r == Row("pr_watch_pane_started", repo, Unread, "none", watches[launching].base)
  <2>1. launching # 0 /\ launching' = 0 /\ UNCHANGED <<tip, watches, silent>> BY <1>4 DEF RecordLaunch
  <2>2. launching \in DOMAIN watches BY <1>1, <2>1 DEF GuardTyped
  <2>3. watches[launching].base \in Heads /\ watches[launching].base # 0 BY <1>1, <2>2, WatchTyped
  <2>4. r \in RowType /\ r.kind = LaunchRow /\ r.repo = repo /\ r.truth = watches[launching].base
    BY <2>3, OwnRow DEF LaunchRow
  <2>5. Log(r) BY <1>4
  <2> HIDE DEF r
  <2>6. Len(trail') = Len(trail) + 1 BY <1>1, <2>3, <2>4, <2>5, LogIsExtended
  <2>7. Ended' = Ended /\ (watches[launching].phase = "ended" <=> launching \in Ended) BY <2>1, <2>2 DEF Ended
  <2>8. late' = IF launching \in Ended THEN late \union {Len(trail) + 1} ELSE late BY <1>4, <2>6, <2>7
  <2>9. CASE repo = "none"
    <3>1. watches' \in Seq([base : Heads, phase : Phases]) BY <1>1, <2>1 DEF GuardTyped
    <3>2. late \subseteq late' /\ late' \subseteq late \union {Len(trail) + 1} BY <2>8
    <3> QED BY <2>1, <2>3, <2>4, <2>5, <2>7, <2>9, <3>1, <3>2, GuardRowKeeps DEF LaunchRow
  <2>10. CASE repo = "mine"
    <3>1. ~silent => Matched' BY <1>1, <2>1, <2>3, <2>4, <2>5, <2>8, <2>10, LaunchKeepsMatched
    <3>2. /\ trail' \in Seq(RowType) /\ \A i \in DOMAIN trail' : trail'[i].repo = "mine" => trail'[i].truth # 0
          /\ DOMAIN trail' = DOMAIN trail \union {Len(trail) + 1}
      BY <1>1, <2>3, <2>4, <2>5, LogIsExtended
    <3>3. late' \subseteq DOMAIN trail' BY <1>1, <2>8, <3>2 DEF GuardTyped
    <3>4. GuardTyped' BY <1>1, <2>1, <3>2, <3>3 DEF GuardTyped
    <3> QED BY <2>1, <3>1, <3>4 DEF GuardInv
  <2> QED BY <2>9, <2>10
<1>5. CASE ForeignRow
  <2>1. PICK kind \in Terminals \union {"pr_watch_pane_started"}, repo \in {"other", "none"} :
          Log(Row(kind, repo, Unread, IF kind = "ci_completed" THEN "passed" ELSE "none", 0))
    BY <1>5 DEF ForeignRow
  <2> DEFINE status == IF kind = "ci_completed" THEN "passed" ELSE "none"
             r == Row(kind, repo, Unread, status, 0)
  <2>2. status \in {"none", "passed", "failed", "indeterminate"} OBVIOUS
  <2>3. Log(r) BY <2>1
  <2> HIDE DEF status
  <2>4. r \in RowType /\ r.kind = kind /\ r.repo = repo BY <2>1, <2>2, RowIsRow DEF LaunchRow, Repos, Unread
  <2> HIDE DEF r
  <2>5. UNCHANGED <<tip, watches, launching, late, silent>> BY <1>5 DEF ForeignRow
  <2>6. Ended' = Ended BY <2>5 DEF Ended
  <2>7. watches' \in Seq([base : Heads, phase : Phases]) BY <1>1, <2>5 DEF GuardTyped
  <2>8. r.kind # "fix_pushed" /\ r.repo # "mine" BY <2>4 DEF Terminals
  <2> QED BY <2>3, <2>4, <2>5, <2>6, <2>7, <2>8, GuardRowKeeps
<1> QED BY <1>2, <1>3, <1>4, <1>5 DEF RecordLaunch

LEMMA GuardEndKeeps ==
  ASSUME GuardInv, NEW i \in DOMAIN watches, CiVerdict(i) \/ SeeMerged(i) \/ AbortWatch(i)
  PROVE  GuardInv'
<1>1. GuardTyped /\ tip \in Heads /\ watches[i].base \in Heads BY WatchTyped DEF GuardInv, GuardTyped
<1>2. \A h \in Heads : h # 0 BY DEF Heads
<1>3. ASSUME NEW r \in RowType, Log(r), r.kind \in Terminals, r.repo = "mine", r.truth # 0,
             NEW x \in [base : Heads, phase : Phases], watches[i].phase # "ended", watches' = [watches EXCEPT ![i] = x],
             UNCHANGED <<tip, launching, late, silent>>
      PROVE  GuardInv'
  <2>1. /\ watches' \in Seq([base : Heads, phase : Phases]) /\ DOMAIN watches' = DOMAIN watches
        /\ Len(watches') = Len(watches) /\ i \in DOMAIN watches \ Ended
        /\ Ended' = IF x.phase = "ended" THEN Ended \union {i} ELSE Ended
    BY <1>1, <1>3, WatchMoves
  <2>2. r.kind # "fix_pushed" /\ r.kind # LaunchRow BY <1>3 DEF Terminals, LaunchRow
  <2> QED BY <1>3, <2>1, <2>2, GuardRowKeeps
<1>4. CASE CiVerdict(i)
  <2>1. PICK h \in watches[i].base..tip, status \in {"passed", "failed", "indeterminate"} :
          /\ \E commit \in {Unread, h} : Log(Row("ci_completed", "mine", commit, status, h))
          /\ \E next \in IF status = "passed" THEN {"merge", "ended"} ELSE {"ended"} :
               watches' = [watches EXCEPT ![i] = [base |-> h, phase |-> next]]
    BY <1>4 DEF CiVerdict
  <2>2. PICK commit \in {Unread, h} : Log(Row("ci_completed", "mine", commit, status, h)) BY <2>1
  <2>3. PICK next \in {"merge", "ended"} : watches' = [watches EXCEPT ![i] = [base |-> h, phase |-> next]] BY <2>1
  <2>4. h \in Heads /\ MaxFixes \in Nat BY <1>1, <2>1, GuardAssumption DEF Heads
  <2> DEFINE r == Row("ci_completed", "mine", commit, status, h)
             x == [base |-> h, phase |-> next]
  <2>5. r \in RowType /\ r.kind = "ci_completed" /\ r.repo = "mine" /\ r.truth = h
    BY <2>1, <2>2, <2>4, OwnRow
  <2>6. x \in [base : Heads, phase : Phases] BY <2>3, <2>4 DEF Phases
  <2>7. watches[i].phase # "ended" /\ UNCHANGED <<tip, launching, late, silent>> BY <1>4 DEF CiVerdict
  <2>8. Log(r) /\ watches' = [watches EXCEPT ![i] = x] BY <2>2, <2>3
  <2> HIDE DEF r, x
  <2> QED BY <1>2, <1>3, <2>4, <2>5, <2>6, <2>7, <2>8 DEF Terminals
<1>5. CASE SeeMerged(i)
  <2> DEFINE r == Row("pr_merged", "mine", tip, "none", tip)
             x == [base |-> tip, phase |-> "ended"]
  <2>1. r \in RowType /\ r.kind = "pr_merged" /\ r.repo = "mine" /\ r.truth = tip
    BY <1>1, OwnRow
  <2>2. x \in [base : Heads, phase : Phases] BY <1>1 DEF Phases
  <2>3. watches[i].phase # "ended" /\ UNCHANGED <<tip, launching, late, silent>> BY <1>5 DEF SeeMerged
  <2>4. Log(r) /\ watches' = [watches EXCEPT ![i] = x] BY <1>5 DEF SeeMerged, Now
  <2> HIDE DEF r, x
  <2> QED BY <1>1, <1>2, <1>3, <2>1, <2>2, <2>3, <2>4 DEF Terminals
<1>6. CASE AbortWatch(i)
  <2> DEFINE r == Row("pr_watch_aborted", "mine", Unread, "none", tip)
             x == [base |-> tip, phase |-> "ended"]
  <2>1. r \in RowType /\ r.kind = "pr_watch_aborted" /\ r.repo = "mine" /\ r.truth = tip
    <3>1. PICK commit \in {Unread, tip} : commit = Unread OBVIOUS
    <3>2. r = Row("pr_watch_aborted", "mine", commit, "none", tip) BY <3>1
    <3> HIDE DEF r
    <3> QED BY <1>1, <3>2, OwnRow
  <2>2. x \in [base : Heads, phase : Phases] BY <1>1 DEF Phases
  <2>3. watches[i].phase # "ended" /\ UNCHANGED <<tip, launching, late, silent>> BY <1>6 DEF AbortWatch
  <2>4. Log(r) /\ watches' = [watches EXCEPT ![i] = x] BY <1>6 DEF AbortWatch, Now
  <2> HIDE DEF r, x
  <2> QED BY <1>1, <1>2, <1>3, <2>1, <2>2, <2>3, <2>4 DEF Terminals
<1> QED BY <1>4, <1>5, <1>6

LEMMA GuardInvariant == GuardSpec => []GuardInv
<1>1. GuardInv /\ [GuardNext]_guardVars => GuardInv'
  <2> SUFFICES ASSUME GuardInv, [GuardNext]_guardVars PROVE GuardInv' OBVIOUS
  <2>1. CASE UNCHANGED guardVars
    <3>1. GuardTyped /\ (~silent => Matched) BY DEF GuardInv
    <3>2. GuardTyped' BY <2>1, <3>1 DEF GuardTyped, guardVars
    <3>3. Ended' = Ended BY <2>1 DEF Ended, guardVars
    <3>4. ~silent => Matched' BY <2>1, <3>1, <3>3, QuietKeepsMatched DEF guardVars
    <3> QED BY <2>1, <3>2, <3>4 DEF GuardInv, guardVars
  <2> QED BY <2>1, GuardQuietKeeps, GuardLogKeeps, GuardEndKeeps DEF GuardNext
<1> QED BY <1>1, GuardInit1, PTL DEF GuardSpec

\* The claims are built row by row.
LEMMA ClaimsAreBuilt ==
  ASSUME GuardTyped
  PROVE  \E u : /\ u[0] = << >> /\ Claims = u[Len(trail)]
                /\ \A i \in 1..Len(trail) :
                     u[i] = IF i \in Watchers THEN Claim(i, u[i - 1]) ELSE u[i - 1]
<1> DEFINE Next(i, c) == IF i \in Watchers THEN Claim(i, c) ELSE c
           Built(f, k) == f = [i \in 0..k |-> IF i = 0 THEN << >> ELSE Next(i, f[i - 1])]
           Missing == {k \in Nat : ~\E f : Built(f, k)}
<1>1. Claims = (CHOOSE f : Built(f, Len(trail)))[Len(trail)] BY DEF Claims
<1> HIDE DEF Next
<1>2. Missing = {}
  <2> SUFFICES ASSUME Missing # {} PROVE FALSE OBVIOUS
  <2>1. PICK k \in Missing : \A j \in Missing : k <= j
    <3>1. Missing \subseteq Nat OBVIOUS
    <3> HIDE DEF Missing
    <3> QED BY <3>1, LeastExists
  <2>2. CASE k = 0
    <3>1. Built([i \in 0..0 |-> << >>], 0) OBVIOUS
    <3> QED BY <2>1, <2>2, <3>1
  <2>3. CASE k # 0
    <3>1. k \in Nat /\ k - 1 \in Nat /\ ~(k <= k - 1) BY <2>1, <2>3
    <3>2. PICK f : Built(f, k - 1) BY <2>1, <3>1
    <3> DEFINE g == [i \in 0..k |-> IF i < k THEN f[i] ELSE Next(k, f[k - 1])]
    <3>3. ASSUME NEW i \in 0..k PROVE g[i] = IF i = 0 THEN << >> ELSE Next(i, g[i - 1])
      <4>1. CASE i < k
        <5>1. i \in 0..(k - 1) /\ g[i] = f[i] BY <3>1, <4>1
        <5>2. f[i] = IF i = 0 THEN << >> ELSE Next(i, f[i - 1]) BY <3>2, <5>1
        <5>3. i # 0 => g[i - 1] = f[i - 1] BY <3>1, <4>1
        <5> QED BY <5>1, <5>2, <5>3
      <4>2. CASE i = k
        <5>1. k - 1 \in 0..k /\ k - 1 < k BY <3>1
        <5>2. g[k - 1] = f[k - 1] BY <5>1
        <5>3. g[k] = Next(k, f[k - 1]) BY <3>1
        <5> QED BY <2>3, <4>2, <5>2, <5>3
      <4> QED BY <3>1, <4>1, <4>2
    <3>4. g = [i \in 0..k |-> g[i]] OBVIOUS
    <3> HIDE DEF g
    <3>5. Built(g, k) BY <3>3, <3>4
    <3> QED BY <2>1, <3>5
  <2> QED BY <2>2, <2>3
<1>3. Len(trail) \in Nat BY DEF GuardTyped
<1>4. \E f : Built(f, Len(trail)) BY <1>2, <1>3
<1> DEFINE u == CHOOSE f : Built(f, Len(trail))
<1>5. Built(u, Len(trail)) BY <1>4
<1> HIDE DEF u
<1>6. u[0] = << >> /\ \A i \in 1..Len(trail) : u[i] = Next(i, u[i - 1]) BY <1>3, <1>5
<1> QED BY <1>1, <1>6 DEF u, Next

\* What a watcher is given, and that the others keep what they have.
LEMMA ClaimIs ==
  ASSUME NEW w, NEW c, w \notin DOMAIN c, GuardTyped
  PROVE  LET free == {j \in EndRows : j > w /\ \A v \in DOMAIN c : c[v] # j}
         IN /\ DOMAIN Claim(w, c) = DOMAIN c \union {w}
            /\ \A v \in DOMAIN c : Claim(w, c)[v] = c[v]
            /\ free = {} => Claim(w, c)[w] = 0
            /\ free # {} => Claim(w, c)[w] \in free /\ \A j \in free : Claim(w, c)[w] <= j
<1> DEFINE free == {j \in EndRows : j > w /\ \A v \in DOMAIN c : c[v] # j}
<1>1. free \subseteq EndRows /\ EndRows \subseteq DOMAIN trail BY RowsOfLog
<1>2. DOMAIN trail \subseteq Nat BY DEF GuardTyped
<1>3. Claim(w, c) = [v \in DOMAIN c \union {w} |-> IF v # w THEN c[v] ELSE IF free = {} THEN 0 ELSE Min(free)]
  BY DEF Claim
<1> HIDE DEF free
<1>4. free # {} => Min(free) \in free /\ \A j \in free : Min(free) <= j BY <1>1, <1>2, MinIsLeast
<1>5. Claim(w, c)[w] = IF free = {} THEN 0 ELSE Min(free) BY <1>3
<1>6. DOMAIN Claim(w, c) = DOMAIN c \union {w} /\ \A v \in DOMAIN c : Claim(w, c)[v] = c[v] BY <1>3
<1> QED BY <1>4, <1>5, <1>6 DEF free

\* A claim is a row that may have ended a watch, or 0.
IsClaimed(c, i) == /\ DOMAIN c = {v \in Watchers : v <= i}
                   /\ \A v \in DOMAIN c : c[v] \in EndRows \union {0}

LEMMA ClaimsAreEnds ==
  ASSUME GuardTyped, NEW u, u[0] = << >>,
         \A i \in 1..Len(trail) : u[i] = IF i \in Watchers THEN Claim(i, u[i - 1]) ELSE u[i - 1]
  PROVE  \A i \in 0..Len(trail) : IsClaimed(u[i], i)
<1> DEFINE Wrong == {i \in 0..Len(trail) : ~IsClaimed(u[i], i)}
<1>1. Len(trail) \in Nat /\ DOMAIN trail = 1..Len(trail) BY DEF GuardTyped
<1>2. Watchers \subseteq 1..Len(trail) BY <1>1, RowsOfLog
<1> SUFFICES ASSUME Wrong # {} PROVE FALSE OBVIOUS
<1>3. PICK i \in Wrong : \A j \in Wrong : i <= j
  <2>1. Wrong \subseteq Nat BY <1>1
  <2> HIDE DEF Wrong
  <2> QED BY <2>1, LeastExists
<1>4. i \in 0..Len(trail) /\ i \in Nat /\ ~IsClaimed(u[i], i) BY <1>1, <1>3
<1>5. CASE i = 0
  <2>0. \A v \in Watchers : ~(v <= 0) BY <1>2
  <2>1. {v \in Watchers : v <= 0} = {} BY <2>0
  <2>2. DOMAIN u[0] = {} OBVIOUS
  <2> QED BY <1>4, <1>5, <2>1, <2>2 DEF IsClaimed
<1>6. CASE i # 0
  <2>1. i \in 1..Len(trail) /\ i - 1 \in 0..Len(trail) /\ ~(i <= i - 1) BY <1>4, <1>6, <1>1
  <2>2. IsClaimed(u[i - 1], i - 1) BY <1>3, <2>1
  <2>3. u[i] = IF i \in Watchers THEN Claim(i, u[i - 1]) ELSE u[i - 1] BY <2>1
  <2>4. {v \in Watchers : v <= i} = {v \in Watchers : v <= i - 1} \union (IF i \in Watchers THEN {i} ELSE {})
    <3>1. \A v \in Watchers : v <= i <=> v <= i - 1 \/ v = i
      <4>1. \A v \in Watchers : v \in Int BY <1>2
      <4> QED BY <1>4, <4>1
    <3>2. ~(i <= i - 1) BY <1>4
    <3> QED BY <3>1, <3>2
  <2> DEFINE c == u[i - 1]
  <2>5. CASE i \in Watchers
    <3>1. i \notin DOMAIN c BY <2>1, <2>2 DEF IsClaimed
    <3>2. u[i] = Claim(i, c) BY <2>3, <2>5
    <3> HIDE DEF c
    <3> DEFINE d == Claim(i, c)
    <3>4. /\ DOMAIN d = DOMAIN c \union {i} /\ \A v \in DOMAIN c : d[v] = c[v]
          /\ d[i] = 0 \/ d[i] \in EndRows
      <4> DEFINE free == {j \in EndRows : j > i /\ \A v \in DOMAIN c : c[v] # j}
      <4>1. /\ DOMAIN d = DOMAIN c \union {i} /\ \A v \in DOMAIN c : d[v] = c[v]
            /\ free = {} => d[i] = 0
            /\ free # {} => d[i] \in free
        BY <3>1, ClaimIs, ZenonT(30)
      <4> HIDE DEF d
      <4> QED BY <4>1
    <3>3. /\ DOMAIN u[i] = DOMAIN c \union {i} /\ \A v \in DOMAIN c : u[i][v] = c[v]
          /\ u[i][i] \in EndRows \union {0}
      <4> HIDE DEF d
      <4>1. u[i] = d BY <3>2 DEF d
      <4> QED BY <3>4, <4>1
    <3> QED BY <1>4, <2>2, <2>4, <2>5, <3>3 DEF IsClaimed, c
  <2>6. CASE i \notin Watchers BY <1>4, <2>2, <2>3, <2>4, <2>6 DEF IsClaimed
  <2> QED BY <2>5, <2>6
<1> QED BY <1>5, <1>6

LEMMA OwnClaims ==
  ASSUME GuardTyped
  PROVE  DOMAIN Claims = Watchers /\ \A v \in Watchers : Claims[v] \in EndRows \union {0}
<1>1. PICK u : /\ u[0] = << >> /\ Claims = u[Len(trail)]
               /\ \A i \in 1..Len(trail) :
                    u[i] = IF i \in Watchers THEN Claim(i, u[i - 1]) ELSE u[i - 1]
  BY ClaimsAreBuilt
<1>2. Len(trail) \in Nat /\ DOMAIN trail = 1..Len(trail) BY DEF GuardTyped
<1>3. IsClaimed(Claims, Len(trail)) BY <1>1, <1>2, ClaimsAreEnds
<1>4. {v \in Watchers : v <= Len(trail)} = Watchers BY <1>2, RowsOfLog
<1> QED BY <1>3, <1>4 DEF IsClaimed

\* The newest launch and push on record, and the terminal of a watch, are rows.
LEMMA LatestRows ==
  ASSUME GuardTyped
  PROVE  /\ Watchers # {} => /\ Max(Watchers) \in Watchers /\ Max(Watchers) \in Nat
                             /\ \A w \in Watchers : w <= Max(Watchers)
         /\ LastPush \in Nat /\ (LastPush # 0 => LastPush \in Baselines)
         /\ \A w \in Watchers : TerminalOf(w) \in EndRows \union {0}
         /\ \A w \in Watchers : Unclaimed # {} => TerminalOf(w) \in EndRows
<1>1. Len(trail) \in Nat /\ DOMAIN trail = 1..Len(trail) BY DEF GuardTyped
<1>2. Watchers \in SUBSET (1..Len(trail)) /\ Baselines \in SUBSET (1..Len(trail)) /\ EndRows \in SUBSET (1..Len(trail))
  BY <1>1, RowsOfLog
<1>3. Watchers # {} => /\ Max(Watchers) \in Watchers /\ Max(Watchers) \in Nat
                       /\ \A w \in Watchers : w <= Max(Watchers)
  BY <1>1, <1>2, MaxIsGreatest
<1>4. Baselines # {} => Max(Baselines) \in Baselines /\ Max(Baselines) \in Nat BY <1>1, <1>2, MaxIsGreatest
<1>5. LastPush \in Nat /\ (LastPush # 0 => LastPush \in Baselines) BY <1>4 DEF LastPush
<1>6. Unclaimed \subseteq EndRows BY DEF Unclaimed
<1>7. Unclaimed # {} => Max(Unclaimed) \in EndRows
  <2>1. Unclaimed \in SUBSET (1..Len(trail)) BY <1>2, <1>6
  <2> QED BY <1>1, <1>6, <2>1, MaxIsGreatest
<1>8. \A w \in Watchers : Claims[w] \in EndRows \union {0} BY OwnClaims
<1>9. \A w \in Watchers : /\ TerminalOf(w) \in EndRows \union {0}
                          /\ Unclaimed # {} => TerminalOf(w) \in EndRows
  BY <1>7, <1>8 DEF TerminalOf
<1> QED BY <1>3, <1>5, <1>9

\* "completed" rests on a row that says it is of this pull request, and such rows are.
LEMMA CompletedIsOwn ==
  ASSUME GuardInv PROVE CompletedIsOurs
<1> SUFFICES ASSUME Evaluate = "completed" PROVE trail[TerminalOf(Max(Watchers))].truth # 0
  BY DEF CompletedIsOurs
<1>1. GuardTyped BY DEF GuardInv
<1> DEFINE w == Max(Watchers)
<1>2. Watchers # {} /\ VerdictOn(w) = "completed" BY DEF Evaluate
<1>3. w \in Watchers BY <1>1, <1>2, LatestRows
<1> HIDE DEF w
<1>4. TerminalOf(w) # 0 /\ Conclusive(trail[TerminalOf(w)]) BY <1>2 DEF VerdictOn
<1>5. TerminalOf(w) \in EndRows BY <1>1, <1>3, <1>4, LatestRows
<1>6. TerminalOf(w) \in DOMAIN trail BY <1>5, RowsOfLog
<1>7. trail[TerminalOf(w)].repo = "mine" BY <1>4 DEF Conclusive
<1>8. trail[TerminalOf(w)].truth # 0 BY <1>1, <1>6, <1>7 DEF GuardTyped
<1> QED BY <1>8 DEF w

\* Rows for the launches after i that no launch up to i has claimed: later than the launch,
\* or for the newest, w, than the last push.
Left(m, c, i, w) ==
  /\ \A v, x \in {v \in Watchers : v > i} : m[v] = m[x] => v = x
  /\ \A v \in {v \in Watchers : v > i} : /\ \A x \in DOMAIN c : c[x] # m[v]
                                         /\ v # w => m[v] > v
                                         /\ v = w => m[v] > LastPush

\* A claim takes the first row that is free; whose row it takes is given the claimant's own,
\* which is no earlier.
LEMMA LeftForTheRest ==
  ASSUME GuardTyped, NEW i \in 1..Len(trail), NEW w \in Watchers, i < w, NEW c, IsClaimed(c, i - 1),
         NEW m \in [{v \in Watchers : v > i - 1} -> EndRows], Left(m, c, i - 1, w)
  PROVE  \E g \in [{v \in Watchers : v > i} -> EndRows] :
           Left(g, IF i \in Watchers THEN Claim(i, c) ELSE c, i, w)
<1>1. Len(trail) \in Nat /\ DOMAIN trail = 1..Len(trail) /\ i \in Nat BY DEF GuardTyped
<1>2. Watchers \subseteq Nat /\ EndRows \subseteq Nat /\ LastPush \in Nat BY <1>1, RowsOfLog, LatestRows
<1> DEFINE Rest == {v \in Watchers : v > i}
<1>3. {v \in Watchers : v > i - 1} = Rest \union (IF i \in Watchers THEN {i} ELSE {})
  <2>1. \A v \in Watchers : v > i - 1 <=> v > i \/ v = i
    <3>1. \A v \in Watchers : v \in Int BY <1>2
    <3> QED BY <1>1, <3>1
  <2> QED BY <2>1
<1>4. i \notin Rest /\ Rest \subseteq Watchers BY <1>1
<1>5. \A v \in Rest : v > i BY <1>4
<1>6. CASE i \notin Watchers
  <2>1. m \in [Rest -> EndRows] BY <1>3, <1>6
  <2>2. {v \in Watchers : v > i - 1} = Rest BY <1>3, <1>6
  <2>3. Left(m, c, i, w) BY <2>2 DEF Left
  <2> QED BY <1>6, <2>1, <2>3
<1>7. CASE i \in Watchers
  <2> DEFINE All == Rest \union {i}
             d == Claim(i, c)
             free == {j \in EndRows : j > i /\ \A v \in DOMAIN c : c[v] # j}
  <2>1. All = {v \in Watchers : v > i - 1} /\ m \in [All -> EndRows] BY <1>3, <1>7
  <2> HIDE DEF Rest
  <2>2. /\ \A v, x \in All : m[v] = m[x] => v = x
        /\ \A v \in All : /\ \A x \in DOMAIN c : c[x] # m[v]
                          /\ v # w => m[v] > v
                          /\ v = w => m[v] > LastPush
    BY <2>1 DEF Left
  <2>3. i \notin DOMAIN c
    <3>1. ~(i <= i - 1) BY <1>1
    <3> QED BY <3>1 DEF IsClaimed
  <2>4. i # w BY <1>1, <1>2
  <2>5. m[i] \in free BY <2>1, <2>2, <2>4
  <2>6. /\ DOMAIN d = DOMAIN c \union {i} /\ \A v \in DOMAIN c : d[v] = c[v]
        /\ d[i] \in free /\ \A j \in free : d[i] <= j
    BY <2>3, <2>5, ClaimIs
  <2>7. d[i] \in EndRows /\ d[i] <= m[i] /\ \A x \in DOMAIN c : c[x] # d[i] BY <2>5, <2>6
  <2> HIDE DEF d, free
  <2>8. PICK g \in [Rest -> EndRows] : \A v \in Rest : g[v] = IF m[v] = d[i] THEN m[i] ELSE m[v]
    <3> DEFINE h == [v \in Rest |-> IF m[v] = d[i] THEN m[i] ELSE m[v]]
    <3>1. h \in [Rest -> EndRows] BY <2>1
    <3>2. \A v \in Rest : h[v] = IF m[v] = d[i] THEN m[i] ELSE m[v] OBVIOUS
    <3> QED BY <3>1, <3>2
  <2>9. \A v, x \in Rest : g[v] = g[x] => v = x BY <1>4, <2>2, <2>8
  <2>10. ASSUME NEW v \in Rest
         PROVE  /\ \A x \in DOMAIN d : d[x] # g[v]
                /\ v # w => g[v] > v
                /\ v = w => g[v] > LastPush
    <3>1. v \in All /\ i \in All /\ v # i BY <1>4
    <3>2. m[v] # m[i] BY <2>2, <3>1
    <3>3. \A x \in DOMAIN c : c[x] # m[v] /\ c[x] # m[i] BY <2>2, <3>1
    <3>4. g[v] # d[i] BY <2>8, <3>2
    <3>5. \A x \in DOMAIN d : d[x] # g[v] BY <2>6, <2>8, <3>3, <3>4
    <3>6. g[v] >= m[v] /\ g[v] \in Nat /\ m[v] \in Nat
      <4>1. m[v] \in Nat /\ m[i] \in Nat BY <1>2, <2>1, <3>1
      <4> QED BY <2>7, <2>8, <4>1
    <3>7. v \in Nat BY <1>2, <1>4
    <3> QED BY <1>2, <2>2, <3>1, <3>5, <3>6, <3>7
  <2>11. Left(g, d, i, w)
    <3>1. {v \in Watchers : v > i} = Rest BY DEF Rest
    <3> QED BY <2>9, <2>10, <3>1 DEF Left
  <2>12. {v \in Watchers : v > i} = Rest BY DEF Rest
  <2> QED BY <1>7, <2>11, <2>12 DEF d
<1> QED BY <1>6, <1>7

\* Until the newest launch, w, has claimed, there is a row for it and for each other launch to come.
LEMMA LeftForAll ==
  ASSUME GuardTyped, NEW w \in Watchers, NEW e \in [Watchers -> EndRows],
         \A v, x \in Watchers : e[v] = e[x] => v = x,
         \A v \in Watchers \ {w} : e[v] > v, e[w] > LastPush, NEW u, u[0] = << >>,
         \A i \in 1..Len(trail) : u[i] = IF i \in Watchers THEN Claim(i, u[i - 1]) ELSE u[i - 1]
  PROVE  \A i \in 0..(w - 1) :
           \E m \in [{v \in Watchers : v > i} -> EndRows] : Left(m, u[i], i, w)
<1> DEFINE Good(i) == \E m \in [{v \in Watchers : v > i} -> EndRows] : Left(m, u[i], i, w)
           Wrong == {i \in 0..(w - 1) : ~Good(i)}
<1>1. Len(trail) \in Nat /\ DOMAIN trail = 1..Len(trail) BY DEF GuardTyped
<1>2. Watchers \subseteq 1..Len(trail) /\ w \in 1..Len(trail) BY <1>1, RowsOfLog
<1> SUFFICES ASSUME Wrong # {} PROVE FALSE OBVIOUS
<1>3. PICK i \in Wrong : \A j \in Wrong : i <= j
  <2>1. Wrong \subseteq Nat BY <1>2
  <2> HIDE DEF Wrong
  <2> QED BY <2>1, LeastExists
<1>4. i \in 0..(w - 1) /\ i \in Nat /\ ~Good(i)
  <2>1. i \in 0..(w - 1) /\ ~Good(i) BY <1>3
  <2> HIDE DEF Good
  <2> QED BY <1>2, <2>1
<1>5. CASE i = 0
  <2>1. \A v \in Watchers : v > 0 BY <1>2
  <2>2. {v \in Watchers : v > 0} = Watchers BY <2>1
  <2>3. e \in [{v \in Watchers : v > 0} -> EndRows] BY <2>2
  <2>4. DOMAIN u[0] = {} OBVIOUS
  <2>5. Left(e, u[0], 0, w) BY <2>4 DEF Left
  <2>6. Good(0) BY <2>3, <2>5
  <2> QED BY <1>4, <1>5, <2>6
<1>6. CASE i # 0
  <2>1. i \in 1..Len(trail) /\ i < w /\ i - 1 \in 0..(w - 1) /\ ~(i <= i - 1) /\ i - 1 \in 0..Len(trail)
    BY <1>1, <1>2, <1>4, <1>6
  <2>2. Good(i - 1) BY <1>3, <2>1
  <2>3. PICK m \in [{v \in Watchers : v > i - 1} -> EndRows] : Left(m, u[i - 1], i - 1, w) BY <2>2
  <2>4. IsClaimed(u[i - 1], i - 1) BY <2>1, ClaimsAreEnds
  <2>5. u[i] = IF i \in Watchers THEN Claim(i, u[i - 1]) ELSE u[i - 1] BY <2>1
  <2> DEFINE c == u[i - 1]
  <2>6. /\ IsClaimed(c, i - 1) /\ m \in [{v \in Watchers : v > i - 1} -> EndRows] /\ Left(m, c, i - 1, w)
        /\ u[i] = IF i \in Watchers THEN Claim(i, c) ELSE c
    BY <2>3, <2>4, <2>5
  <2> HIDE DEF c
  <2>7. \E g \in [{v \in Watchers : v > i} -> EndRows] :
          Left(g, IF i \in Watchers THEN Claim(i, c) ELSE c, i, w)
    BY <2>1, <2>6, LeftForTheRest
  <2> QED BY <1>4, <2>6, <2>7
<1> QED BY <1>5, <1>6

\* After the newest launch nothing is claimed.
LEMMA NewestClaimsLast ==
  ASSUME GuardTyped, NEW w \in Watchers, \A v \in Watchers : v <= w, NEW u,
         \A i \in 1..Len(trail) : u[i] = IF i \in Watchers THEN Claim(i, u[i - 1]) ELSE u[i - 1]
  PROVE  u[Len(trail)] = Claim(w, u[w - 1])
<1> DEFINE Wrong == {i \in w..Len(trail) : u[i] # u[w]}
<1>1. Len(trail) \in Nat /\ DOMAIN trail = 1..Len(trail) BY DEF GuardTyped
<1>2. Watchers \subseteq 1..Len(trail) /\ w \in 1..Len(trail) BY <1>1, RowsOfLog
<1>3. Wrong = {}
  <2> SUFFICES ASSUME Wrong # {} PROVE FALSE OBVIOUS
  <2>1. PICK i \in Wrong : \A j \in Wrong : i <= j
    <3>1. Wrong \subseteq Nat BY <1>2
    <3> HIDE DEF Wrong
    <3> QED BY <3>1, LeastExists
  <2>2. i # w /\ i \in w..Len(trail) /\ i \in Nat BY <1>2, <2>1
  <2>3. i - 1 \in w..Len(trail) /\ ~(i <= i - 1) /\ i \in 1..Len(trail) /\ ~(i <= w) BY <1>1, <1>2, <2>2
  <2>4. i \notin Watchers BY <2>3
  <2>5. u[i] = u[i - 1] BY <2>3, <2>4
  <2>6. u[i - 1] = u[w] BY <2>1, <2>3
  <2> QED BY <2>1, <2>5, <2>6
<1>4. Len(trail) \in w..Len(trail) BY <1>1, <1>2
<1>5. u[Len(trail)] = u[w] BY <1>3, <1>4
<1>6. u[w] = Claim(w, u[w - 1]) BY <1>2
<1> QED BY <1>5, <1>6

\* The rows of watches that are all over leave one for the newest launch.
LEMMA LiveIsOwn ==
  ASSUME GuardInv PROVE LiveIsWatched
<1> SUFFICES ASSUME ~Watching, ~silent, Evaluate = "live", late \subseteq {Max(Watchers)} PROVE FALSE
  BY DEF LiveIsWatched
<1> DEFINE w == Max(Watchers)
<1>1. GuardTyped /\ Matched BY DEF GuardInv
<1>2. Watchers # {} /\ VerdictOn(w) = "live" BY DEF Evaluate
<1>3. w \in Watchers /\ w \in Nat /\ \A v \in Watchers : v <= w BY <1>1, <1>2, LatestRows
<1>4. late \subseteq {w} OBVIOUS
<1> HIDE DEF w
<1>5. ~(w <= LastPush) /\ TerminalOf(w) = 0 BY <1>2 DEF VerdictOn
<1>6. LastPush \in Nat /\ (LastPush # 0 => LastPush \in Baselines) BY <1>1, LatestRows
<1>7. Len(trail) \in Nat /\ DOMAIN trail = 1..Len(trail) BY <1>1 DEF GuardTyped
<1>8. Watchers \subseteq 1..Len(trail) /\ EndRows \subseteq 1..Len(trail) BY <1>7, RowsOfLog
<1>9. PICK of \in [Watchers -> DOMAIN watches], fin \in [Ended -> EndRows] : Matches(of, fin) BY <1>1 DEF Matched
<1>10. Ended = DOMAIN watches BY DEF Watching, Ended
<1>11. PICK e \in [Watchers -> EndRows] : \A v \in Watchers : e[v] = fin[of[v]]
  <2> DEFINE f == [v \in Watchers |-> fin[of[v]]]
  <2>1. f \in [Watchers -> EndRows] /\ \A v \in Watchers : f[v] = fin[of[v]] BY <1>9, <1>10
  <2> QED BY <2>1
<1>12. \A v, x \in Watchers : e[v] = e[x] => v = x BY <1>9, <1>10, <1>11 DEF Matches
<1>13. \A v \in Watchers \ {w} : e[v] > v
  <2> SUFFICES ASSUME NEW v \in Watchers \ {w} PROVE e[v] > v OBVIOUS
  <2>1. v < fin[of[v]] BY <1>4, <1>9, <1>10 DEF Matches
  <2> QED BY <1>8, <1>11, <2>1
<1>14. e[w] > LastPush
  <2>1. e[w] \in 1..Len(trail) /\ e[w] = fin[of[w]] BY <1>3, <1>8, <1>11
  <2>2. CASE LastPush = 0 BY <2>1, <2>2
  <2>3. CASE LastPush # 0
    <3>1. LastPush \in Baselines /\ LastPush < w BY <1>3, <1>5, <1>6, <2>3
    <3>2. CASE w \in late BY <1>3, <1>6, <1>9, <2>1, <3>1, <3>2 DEF Matches
    <3>3. CASE w \notin late
      <4>1. w < e[w] BY <1>3, <1>9, <1>10, <2>1, <3>3 DEF Matches
      <4> QED BY <1>3, <1>6, <2>1, <3>1, <4>1
    <3> QED BY <3>2, <3>3
  <2> QED BY <2>2, <2>3
<1>15. PICK u : /\ u[0] = << >> /\ Claims = u[Len(trail)]
                /\ \A i \in 1..Len(trail) :
                     u[i] = IF i \in Watchers THEN Claim(i, u[i - 1]) ELSE u[i - 1]
  BY <1>1, ClaimsAreBuilt
<1> DEFINE c == u[w - 1]
<1>16. w - 1 \in 0..(w - 1) /\ w - 1 \in 0..Len(trail) /\ ~(w <= w - 1) /\ w > w - 1 BY <1>3, <1>8
<1>17. PICK m \in [{v \in Watchers : v > w - 1} -> EndRows] : Left(m, c, w - 1, w)
  BY <1>1, <1>3, <1>12, <1>13, <1>14, <1>15, <1>16, LeftForAll
<1>18. IsClaimed(c, w - 1) BY <1>1, <1>15, <1>16, ClaimsAreEnds
<1>19. Claims = Claim(w, c) BY <1>1, <1>3, <1>15, NewestClaimsLast
<1> HIDE DEF c
<1>20. w \in {v \in Watchers : v > w - 1} BY <1>3, <1>16
<1>21. m[w] \in EndRows /\ m[w] > LastPush /\ \A x \in DOMAIN c : c[x] # m[w] BY <1>17, <1>20 DEF Left
<1>22. w \notin DOMAIN c /\ DOMAIN c \union {w} = Watchers
  <2>1. \A v \in Watchers : v <= w - 1 <=> v # w BY <1>3, <1>8
  <2> QED BY <1>3, <1>18, <2>1 DEF IsClaimed
<1>23. \A v \in DOMAIN c : Claims[v] = c[v]
  <2>1. \A v \in DOMAIN c : Claim(w, c)[v] = c[v] BY <1>1, <1>22, ClaimIs
  <2> QED BY <1>19, <2>1
<1>24. 0 \notin EndRows BY <1>8
<1>25. Claims[w] = 0 /\ Unclaimed = {}
  <2>1. Claims[w] = 0 BY <1>5 DEF TerminalOf
  <2>2. Unclaimed = {} BY <1>1, <1>3, <1>5, <1>24, LatestRows
  <2> QED BY <2>1, <2>2
<1>26. m[w] \in Unclaimed BY <1>21, <1>22, <1>23, <1>24, <1>25 DEF Unclaimed
<1> QED BY <1>25, <1>26

\* The guard (tools/watcher_restart_guard.py, evaluate) answers "live" for a push only while a
\* watch runs, and "completed" only from a terminal of this pull request, for any number of
\* pushes, watches and rows, those of another repository among them.
THEOREM VerdictsAreHeld == GuardSpec => []VerdictsHold
<1>1. GuardInv => VerdictsHold BY LiveIsOwn, CompletedIsOwn DEF VerdictsHold
<1> QED BY <1>1, GuardInvariant, PTL

-----------------------------------------------------------------------------
(* QueueWatcher                                                            *)

Events == {"message_enqueued", "claimed", "lease_reaped", "delivered", "queue_drained", "broker_started"}
JournalRecord == [event : Events, ids : SUBSET Ids, count : Nat, ts : Nat]
SendRecord == {r \in JournalRecord : r.event = "message_enqueued" /\ \E id \in Ids : r.ids = {id}}
Watcher == [state : {"off", "watch", "loss", "stagnation"}, offset : Nat, pending : Seq(Nat),
            delivered : Nat, oldUnclaimed : Nat, oldClaimed : SUBSET Ids, start : Nat,
            clean : BOOLEAN]
CountRecord == [in : Nat, out : Nat, claimed : SUBSET Ids]

\* The messages written down before the watcher started.
Old == UNION {journal[i].ids : i \in {i \in Sends(journal) : i <= tail.start}}

QueueTyped ==
  /\ waiting \in [free : SUBSET Ids, claimed : SUBSET Ids]
  /\ waiting.free \intersect waiting.claimed = {}
  /\ clock \in 0..MaxClock /\ journal \in Seq(JournalRecord)
  /\ hand = <<>> \/ (hand[1] \in SendRecord /\ hand = <<hand[1]>>)
  /\ tail \in Watcher /\ tail.offset <= Len(journal) /\ tail.start <= Len(journal)

\* What is held was sent; and what was sent since a clean start comes after the old.
SentInOrder ==
  /\ Held \subseteq SentIn(journal) \union SentIn(hand)
  /\ tail.clean =>
       /\ \A i \in Held \ Old : \A j \in Old : j < i
       /\ \A i \in Fresh : journal[i].ids \intersect Old = {}
       /\ SentIn(hand) \intersect Old = {}

Kept == Cardinality(waiting.free) + Cardinality(waiting.claimed) - Len(hand)

CountOK(c) == c \in CountRecord /\ c.claimed = waiting.claimed /\ c.in - c.out = Kept

\* What the watcher would know had it read everything: what it counts is what there is.
WatchOK(w) ==
  /\ w \in Watcher /\ w.start = tail.start /\ w.clean = tail.clean /\ w.offset = tail.offset
  /\ w.state \in {"watch", "loss"}
  /\ \A k \in 1..Len(w.pending) : \E i \in Fresh : journal[i].ts = w.pending[k]
  /\ w.state = "watch" =>
       /\ w.oldUnclaimed + Cardinality(w.oldClaimed) + Len(w.pending) - w.delivered = Kept
       /\ w.oldClaimed \subseteq waiting.claimed
       /\ tail.clean => /\ w.oldClaimed \subseteq Old
                        /\ w.oldUnclaimed <= Cardinality(waiting.free \intersect Old)

\* What a poll builds, and what the scan at the start does.
Reads(g) ==
  g = [n \in tail.offset..Len(journal) |->
         IF n = tail.offset THEN tail ELSE Read(g[n - 1], journal[n])]
Tallies(g) ==
  g = [n \in 0..Len(journal) |->
         IF n = 0 THEN [in |-> 0, out |-> 0, claimed |-> {}] ELSE Scan(g[n - 1], journal[n])]

LEMMA AppendIs ==
  ASSUME NEW T, NEW s \in Seq(T), NEW r \in T
  PROVE  /\ Append(s, r) \in Seq(T) /\ Len(Append(s, r)) = Len(s) + 1 /\ Len(s) \in Nat
         /\ \A i \in 1..Len(s) : Append(s, r)[i] = s[i]
         /\ Append(s, r)[Len(s) + 1] = r
         /\ DOMAIN s = 1..Len(s) /\ DOMAIN Append(s, r) = 1..(Len(s) + 1)
OBVIOUS

\* One record more: the last step of what is built, after all the others.
LEMMA ReadsOneMore ==
  ASSUME journal \in Seq(JournalRecord), NEW r \in JournalRecord, journal' = Append(journal, r),
         tail' = tail, tail.offset \in Nat, tail.offset <= Len(journal)
  PROVE  /\ (\E g : Reads(g)) => \E g : Reads(g)'
         /\ \A h : Reads(h)' => \E g : Reads(g) /\ h[Len(journal')] = Read(g[Len(journal)], r)
<1> DEFINE n == Len(journal)
           from == tail.offset
<1>1. /\ n \in Nat /\ Len(journal') = n + 1 /\ from \in Nat /\ from <= n
      /\ \A i \in 1..n : journal'[i] = journal[i] 
      /\ journal'[n + 1] = r
  BY AppendIs
<1> HIDE DEF n
<1>2. \A g : Reads(g) <=> g = [i \in from..n |-> IF i = from THEN tail ELSE Read(g[i - 1], journal[i])]
  BY DEF Reads, n
<1>3. \A g : Reads(g)' <=> g = [i \in from..(n + 1) |-> IF i = from THEN tail ELSE Read(g[i - 1], journal'[i])]
  BY <1>1 DEF Reads
<1> DEFINE Step(i, w) == Read(w, journal'[i])
<1>4. \A i \in 1..n : \A w : Read(w, journal[i]) = Step(i, w) BY <1>1
<1>5. \A w : Step(n + 1, w) = Read(w, r) BY <1>1
<1> HIDE DEF Step
<1>6. \A g : Reads(g) <=> g = [i \in from..n |-> IF i = from THEN tail ELSE Step(i, g[i - 1])]
  <2> SUFFICES ASSUME NEW g
               PROVE  [i \in from..n |-> IF i = from THEN tail ELSE Read(g[i - 1], journal[i])]
                        = [i \in from..n |-> IF i = from THEN tail ELSE Step(i, g[i - 1])]
    BY <1>2
  <2>1. ASSUME NEW i \in from..n, i # from PROVE Read(g[i - 1], journal[i]) = Step(i, g[i - 1])
    <3>1. i \in 1..n BY <1>1, <2>1
    <3> QED BY <1>4, <3>1
  <2> QED BY <2>1
<1>7. \A g : Reads(g)' <=> g = [i \in from..(n + 1) |-> IF i = from THEN tail ELSE Step(i, g[i - 1])]
  BY <1>3 DEF Step
<1>8. ASSUME NEW g, Reads(g) PROVE \E h : Reads(h)'
  <2> DEFINE h == [i \in from..(n + 1) |-> IF i <= n THEN g[i] ELSE Step(i, g[n])]
  <2>1. ASSUME NEW i \in from..(n + 1)
        PROVE  h[i] = IF i = from THEN tail ELSE Step(i, h[i - 1])
    <3>1. CASE i <= n
      <4>1. i \in from..n /\ h[i] = g[i] BY <1>1, <3>1
      <4>2. g[i] = IF i = from THEN tail ELSE Step(i, g[i - 1]) BY <1>6, <1>8, <4>1
      <4>3. i # from => h[i - 1] = g[i - 1] BY <1>1, <3>1
      <4> QED BY <4>1, <4>2, <4>3
    <3>2. CASE i = n + 1
      <4>1. i # from /\ ~(i <= n) /\ n \in from..(n + 1) /\ i - 1 = n /\ n <= n BY <1>1, <3>2
      <4>2. h[i] = Step(i, g[n]) BY <4>1
      <4>3. h[n] = g[n] BY <4>1
      <4> QED BY <4>1, <4>2, <4>3
    <3> QED BY <1>1, <3>1, <3>2
  <2>2. h = [i \in from..(n + 1) |-> h[i]] OBVIOUS
  <2> HIDE DEF h
  <2>3. h = [i \in from..(n + 1) |-> IF i = from THEN tail ELSE Step(i, h[i - 1])] BY <2>1, <2>2
  <2> QED BY <1>7, <2>3
<1>9. ASSUME NEW h, Reads(h)' PROVE \E g : Reads(g) /\ h[n + 1] = Read(g[n], r)
  <2> DEFINE g == [i \in from..n |-> h[i]]
  <2>1. \A i \in from..(n + 1) : h[i] = IF i = from THEN tail ELSE Step(i, h[i - 1]) BY <1>7, <1>9
  <2>2. ASSUME NEW i \in from..n PROVE g[i] = IF i = from THEN tail ELSE Step(i, g[i - 1])
    <3>1. i \in from..(n + 1) /\ g[i] = h[i] BY <1>1
    <3>2. i # from => g[i - 1] = h[i - 1] BY <1>1
    <3> QED BY <2>1, <3>1, <3>2
  <2>3. g = [i \in from..n |-> g[i]] OBVIOUS
  <2>4. g[n] = h[n] BY <1>1
  <2> HIDE DEF g
  <2>5. Reads(g)
    <3>1. g = [i \in from..n |-> IF i = from THEN tail ELSE Step(i, g[i - 1])] BY <2>2, <2>3
    <3> QED BY <1>6, <3>1
  <2>6. n + 1 \in from..(n + 1) /\ n + 1 # from /\ (n + 1) - 1 = n BY <1>1
  <2>7. h[n + 1] = Step(n + 1, h[n]) BY <2>1, <2>6
  <2> QED BY <1>5, <2>4, <2>5, <2>7
<1> QED BY <1>1, <1>8, <1>9 DEF n

LEMMA TalliesOneMore ==
  ASSUME journal \in Seq(JournalRecord), NEW r \in JournalRecord, journal' = Append(journal, r)
  PROVE  /\ (\E g : Tallies(g)) => \E g : Tallies(g)'
         /\ \A h : Tallies(h)' => \E g : Tallies(g) /\ h[Len(journal')] = Scan(g[Len(journal)], r)
<1> DEFINE n == Len(journal)
           none0 == [in |-> 0, out |-> 0, claimed |-> {}]
<1>1. /\ n \in Nat /\ Len(journal') = n + 1 /\ \A i \in 1..n : journal'[i] = journal[i]
      /\ journal'[n + 1] = r
  BY AppendIs
<1> HIDE DEF n
<1>2. \A g : Tallies(g) <=> g = [i \in 0..n |-> IF i = 0 THEN none0 ELSE Scan(g[i - 1], journal[i])]
  BY DEF Tallies, n
<1>3. \A g : Tallies(g)' <=> g = [i \in 0..(n + 1) |-> IF i = 0 THEN none0 ELSE Scan(g[i - 1], journal'[i])]
  BY <1>1 DEF Tallies
<1> HIDE DEF none0
<1> DEFINE Step(i, w) == Scan(w, journal'[i])
<1>4. \A i \in 1..n : \A w : Scan(w, journal[i]) = Step(i, w) BY <1>1
<1>5. \A w : Step(n + 1, w) = Scan(w, r) BY <1>1
<1> HIDE DEF Step
<1>6. \A g : Tallies(g) <=> g = [i \in 0..n |-> IF i = 0 THEN none0 ELSE Step(i, g[i - 1])]
  <2> SUFFICES ASSUME NEW g
               PROVE  [i \in 0..n |-> IF i = 0 THEN none0 ELSE Scan(g[i - 1], journal[i])]
                        = [i \in 0..n |-> IF i = 0 THEN none0 ELSE Step(i, g[i - 1])]
    BY <1>2
  <2>1. ASSUME NEW i \in 0..n, i # 0 PROVE Scan(g[i - 1], journal[i]) = Step(i, g[i - 1])
    <3>1. i \in 1..n BY <1>1, <2>1
    <3> QED BY <1>4, <3>1
  <2> QED BY <2>1
<1>7. \A g : Tallies(g)' <=> g = [i \in 0..(n + 1) |-> IF i = 0 THEN none0 ELSE Step(i, g[i - 1])]
  BY <1>3 DEF Step
<1>8. ASSUME NEW g, Tallies(g) PROVE \E h : Tallies(h)'
  <2> DEFINE h == [i \in 0..(n + 1) |-> IF i <= n THEN g[i] ELSE Step(i, g[n])]
  <2>1. ASSUME NEW i \in 0..(n + 1) PROVE h[i] = IF i = 0 THEN none0 ELSE Step(i, h[i - 1])
    <3>1. CASE i <= n
      <4>1. i \in 0..n /\ h[i] = g[i] BY <1>1, <3>1
      <4>2. g[i] = IF i = 0 THEN none0 ELSE Step(i, g[i - 1]) BY <1>6, <1>8, <4>1
      <4>3. i # 0 => h[i - 1] = g[i - 1] BY <1>1, <3>1
      <4> QED BY <4>1, <4>2, <4>3
    <3>2. CASE i = n + 1
      <4>1. i # 0 /\ ~(i <= n) /\ n \in 0..(n + 1) /\ i - 1 = n /\ n <= n BY <1>1, <3>2
      <4>2. h[i] = Step(i, g[n]) BY <4>1
      <4>3. h[n] = g[n] BY <4>1
      <4> QED BY <4>1, <4>2, <4>3
    <3> QED BY <1>1, <3>1, <3>2
  <2>2. h = [i \in 0..(n + 1) |-> h[i]] OBVIOUS
  <2> HIDE DEF h
  <2>3. h = [i \in 0..(n + 1) |-> IF i = 0 THEN none0 ELSE Step(i, h[i - 1])] BY <2>1, <2>2
  <2> QED BY <1>7, <2>3
<1>9. ASSUME NEW h, Tallies(h)' PROVE \E g : Tallies(g) /\ h[n + 1] = Scan(g[n], r)
  <2> DEFINE g == [i \in 0..n |-> h[i]]
  <2>1. \A i \in 0..(n + 1) : h[i] = IF i = 0 THEN none0 ELSE Step(i, h[i - 1]) BY <1>7, <1>9
  <2>2. ASSUME NEW i \in 0..n PROVE g[i] = IF i = 0 THEN none0 ELSE Step(i, g[i - 1])
    <3>1. i \in 0..(n + 1) /\ g[i] = h[i] BY <1>1
    <3>2. i # 0 => g[i - 1] = h[i - 1] BY <1>1
    <3> QED BY <2>1, <3>1, <3>2
  <2>3. g = [i \in 0..n |-> g[i]] OBVIOUS
  <2>4. g[n] = h[n] BY <1>1
  <2> HIDE DEF g
  <2>5. Tallies(g)
    <3>1. g = [i \in 0..n |-> IF i = 0 THEN none0 ELSE Step(i, g[i - 1])] BY <2>2, <2>3
    <3> QED BY <1>6, <3>1
  <2>6. n + 1 \in 0..(n + 1) /\ n + 1 # 0 /\ (n + 1) - 1 = n BY <1>1
  <2>7. h[n + 1] = Step(n + 1, h[n]) BY <2>1, <2>6
  <2> QED BY <1>5, <2>4, <2>5, <2>7
<1> QED BY <1>1, <1>8, <1>9 DEF n

LEMMA IdSets ==
  ASSUME NEW S \in SUBSET Ids
  PROVE  /\ IsFiniteSet(S) /\ Cardinality(S) \in Nat
         /\ \A x \in S : Cardinality(S \ {x}) = Cardinality(S) - 1 /\ Cardinality(S) > 0
         /\ \A x \in Ids \ S : Cardinality(S \union {x}) = Cardinality(S) + 1
         /\ \A T \in SUBSET S : /\ Cardinality(T) <= Cardinality(S)
                                /\ Cardinality(T) = Cardinality(S) => T = S
         /\ Cardinality({}) = 0 /\ (Cardinality(S) = 0 => S = {})
<1>1. IsFiniteSet(Ids)
  <2>1. 1 \in Int /\ MaxMessages \in Int BY QueueAssumption
  <2> QED BY <2>1, FS_Interval DEF Ids
<1>2. IsFiniteSet(S) BY <1>1, FS_Subset
<1>3. Cardinality(S) \in Nat BY <1>2, FS_CardinalityType
<1>4. \A x \in S : Cardinality(S \ {x}) = Cardinality(S) - 1 /\ Cardinality(S) > 0
  <2> TAKE x \in S
  <2>1. Cardinality(S \ {x}) = Cardinality(S) - 1 BY <1>2, FS_RemoveElement
  <2>2. IsFiniteSet(S \ {x}) BY <1>2, FS_RemoveElement
  <2>3. Cardinality(S \ {x}) \in Nat BY <2>2, FS_CardinalityType
  <2> QED BY <1>3, <2>1, <2>3
<1>5. \A x \in Ids \ S : Cardinality(S \union {x}) = Cardinality(S) + 1 BY <1>2, FS_AddElement
<1>6. \A T \in SUBSET S : /\ Cardinality(T) <= Cardinality(S)
                          /\ Cardinality(T) = Cardinality(S) => T = S
  BY <1>2, FS_Subset
<1>7. Cardinality({}) = 0 /\ (Cardinality(S) = 0 => S = {}) BY <1>2, FS_EmptySet
<1> QED BY <1>2, <1>3, <1>4, <1>5, <1>6, <1>7

\* One record more in the journal: what was sent, the old and the fresh.
LEMMA JournalOneMore ==
  ASSUME QueueTyped, NEW r \in JournalRecord, journal' = Append(journal, r), tail' = tail
  PROVE  /\ journal' \in Seq(JournalRecord) /\ Len(journal') = Len(journal) + 1 /\ Len(journal) \in Nat
         /\ tail.offset <= Len(journal') /\ tail.start <= Len(journal')
         /\ Old' = Old /\ Old \subseteq SentIn(journal)
         /\ SentIn(journal)' = IF r.event = "message_enqueued" THEN SentIn(journal) \union r.ids
                               ELSE SentIn(journal)
         /\ Fresh' = IF r.event = "message_enqueued" THEN Fresh \union {Len(journal) + 1} ELSE Fresh
         /\ \A i \in Fresh : journal'[i] = journal[i]
         /\ journal'[Len(journal) + 1] = r
<1> DEFINE n == Len(journal)
<1>1. /\ journal \in Seq(JournalRecord) /\ tail.offset \in Nat /\ tail.start \in Nat
      /\ tail.offset <= n /\ tail.start <= n
  BY DEF QueueTyped, Watcher
<1>2. /\ journal' \in Seq(JournalRecord) /\ Len(journal') = n + 1 /\ n \in Nat
      /\ \A i \in 1..n : journal'[i] = journal[i] 
      /\ journal'[n + 1] = r
      /\ DOMAIN journal = 1..n /\ DOMAIN journal' = 1..(n + 1)
  BY <1>1, AppendIs
<1> HIDE DEF n
<1>3. 1..(n + 1) = 1..n \union {n + 1} BY <1>2
<1>4. /\ Sends(journal) \subseteq 1..n
      /\ Sends(journal)' = IF r.event = "message_enqueued" THEN Sends(journal) \union {n + 1}
                           ELSE Sends(journal)
  BY <1>2, <1>3 DEF Sends
<1>5. \A i \in Sends(journal) : journal'[i] = journal[i] BY <1>2, <1>4
<1>6. Old' = Old /\ Old \subseteq SentIn(journal)
  <2>1. {i \in Sends(journal) : i <= tail.start}' = {i \in Sends(journal) : i <= tail.start}
    BY <1>1, <1>2, <1>4
  <2>2. Old' = UNION {journal'[i].ids : i \in {i \in Sends(journal) : i <= tail.start}} BY <2>1 DEF Old
  <2>3. UNION {journal'[i].ids : i \in {i \in Sends(journal) : i <= tail.start}} = Old
    BY <1>5 DEF Old
  <2>4. Old \subseteq SentIn(journal) BY DEF Old, SentIn
  <2> QED BY <2>2, <2>3, <2>4
<1>7. SentIn(journal)' = IF r.event = "message_enqueued" THEN SentIn(journal) \union r.ids
                         ELSE SentIn(journal)
  <2>1. SentIn(journal)' = UNION {journal'[i].ids : i \in Sends(journal)'} BY DEF SentIn
  <2>2. UNION {journal'[i].ids : i \in Sends(journal)} = SentIn(journal) BY <1>5 DEF SentIn
  <2>3. CASE r.event = "message_enqueued"
    <3>1. SentIn(journal)' = UNION {journal'[i].ids : i \in Sends(journal) \union {n + 1}} BY <1>4, <2>1, <2>3
    <3>2. @ = (UNION {journal'[i].ids : i \in Sends(journal)}) \union journal'[n + 1].ids BY Zenon
    <3> QED BY <1>2, <2>2, <2>3, <3>1, <3>2
  <2> QED BY <1>4, <2>1, <2>2, <2>3
<1>8. /\ Fresh' = IF r.event = "message_enqueued" THEN Fresh \union {n + 1} ELSE Fresh
      /\ \A i \in Fresh : journal'[i] = journal[i]
  <2>1. Fresh \subseteq Sends(journal) BY DEF Fresh
  <2>2. Fresh' = {i \in Sends(journal)' : i > tail.start} BY DEF Fresh
  <2> QED BY <1>1, <1>2, <1>4, <1>5, <2>1, <2>2 DEF Fresh
<1>9. tail.offset <= n + 1 /\ tail.start <= n + 1 BY <1>1, <1>2
<1> QED BY <1>2, <1>6, <1>7, <1>8, <1>9 DEF n

LEMMA WatchAfter ==
  ASSUME QueueTyped, NEW r \in JournalRecord, journal' = Append(journal, r), tail' = tail,
         NEW w, WatchOK(w), NEW v \in Watcher,
         v.start = w.start, v.clean = w.clean, v.offset = w.offset, v.state \in {"watch", "loss"},
         \/ v.pending = w.pending \/ v.pending = <<>>
         \/ v.pending = Append(w.pending, r.ts) /\ r.event = "message_enqueued",
         v.state = "watch" =>
           /\ v.oldUnclaimed + Cardinality(v.oldClaimed) + Len(v.pending) - v.delivered = Kept'
           /\ v.oldClaimed \subseteq waiting'.claimed
           /\ tail.clean => /\ v.oldClaimed \subseteq Old
                            /\ v.oldUnclaimed <= Cardinality(waiting'.free \intersect Old)
  PROVE  WatchOK(v)'
<1>1. /\ Old' = Old /\ \A i \in Fresh : i \in Fresh' /\ journal'[i] = journal[i]
      /\ r.event = "message_enqueued" => Len(journal) + 1 \in Fresh'
      /\ journal'[Len(journal) + 1] = r
  BY JournalOneMore
<1>2. \A k \in 1..Len(w.pending) : \E i \in Fresh : journal[i].ts = w.pending[k] BY DEF WatchOK
<1>3. \A k \in 1..Len(v.pending) : \E i \in Fresh' : journal'[i].ts = v.pending[k]
  <2> SUFFICES ASSUME NEW k \in 1..Len(v.pending)
               PROVE  \E i \in Fresh' : journal'[i].ts = v.pending[k]
    OBVIOUS
  <2>1. CASE v.pending = w.pending BY <1>1, <1>2, <2>1
  <2>2. CASE v.pending = <<>> BY <2>2
  <2>3. CASE v.pending = Append(w.pending, r.ts) /\ r.event = "message_enqueued"
    <3>1. w.pending \in Seq(Nat) /\ r.ts \in Nat BY DEF WatchOK, Watcher, JournalRecord
    <3>2. /\ Len(v.pending) = Len(w.pending) + 1 /\ Len(w.pending) \in Nat
          /\ v.pending[Len(w.pending) + 1] = r.ts
          /\ \A i \in 1..Len(w.pending) : v.pending[i] = w.pending[i]
      BY <2>3, <3>1, AppendIs
    <3>3. CASE k = Len(w.pending) + 1 BY <1>1, <2>3, <3>2, <3>3
    <3>4. CASE k \in 1..Len(w.pending) BY <1>1, <1>2, <3>2, <3>4
    <3>5. PICK m \in Nat : m = Len(w.pending) /\ Len(v.pending) = m + 1 BY <3>2
    <3>6. k \in 1..m \/ k = m + 1 BY ONLY k \in 1..Len(v.pending), <3>5
    <3> QED BY <3>3, <3>4, <3>5, <3>6
  <2> QED BY <2>1, <2>2, <2>3
<1>4. v.start = tail.start /\ v.clean = tail.clean /\ v.offset = tail.offset BY DEF WatchOK
<1> QED BY <1>1, <1>3, <1>4 DEF WatchOK

\* What reading a record changes, by what the record says.
LEMMA ReadSend ==
  ASSUME NEW w \in Watcher, NEW r \in JournalRecord, w.state = "watch", r.event = "message_enqueued"
  PROVE  /\ Read(w, r) = [w EXCEPT !.pending = Append(@, r.ts)]
         /\ Read(w, r) \in Watcher /\ Len(Read(w, r).pending) = Len(w.pending) + 1
<1>1. Read(w, r) = [w EXCEPT !.pending = Append(@, r.ts)] BY DEF Read
<1>2. w.pending \in Seq(Nat) /\ r.ts \in Nat BY DEF Watcher, JournalRecord
<1>3. Append(w.pending, r.ts) \in Seq(Nat) /\ Len(Append(w.pending, r.ts)) = Len(w.pending) + 1
  BY <1>2, AppendIs
<1> QED BY <1>1, <1>3 DEF Watcher

LEMMA ReadRestart ==
  ASSUME NEW w \in Watcher, NEW r \in JournalRecord, w.state = "watch", r.event = "broker_started",
         NEW v, v = Read(w, r)
  PROVE  /\ v \in Watcher /\ v.start = w.start /\ v.clean = w.clean /\ v.offset = w.offset
         /\ v.state \in {"watch", "loss"}
         /\ v.pending = w.pending \/ v.pending = <<>>
         /\ v.state = "watch" => /\ v.pending = <<>> /\ v.delivered = 0
                                 /\ v.oldUnclaimed = 0 /\ v.oldClaimed = {}
<1>1. v = Restarted(w) BY DEF Read
<1>2. <<>> \in Seq(Nat) OBVIOUS
<1>3. CASE Len(w.pending) > w.delivered
  <2>1. v = [w EXCEPT !.state = "loss"] BY <1>1, <1>3 DEF Restarted
  <2> QED BY <2>1 DEF Watcher
<1>4. CASE ~(Len(w.pending) > w.delivered)
  <2>1. v = [w EXCEPT !.pending = <<>>, !.delivered = 0, !.oldUnclaimed = 0, !.oldClaimed = {}]
    BY <1>1, <1>4 DEF Restarted
  <2>2. v \in Watcher
    <3>1. 0 \in Nat /\ {} \in SUBSET Ids BY SMT
    <3>2. [w EXCEPT !.pending = <<>>] \in Watcher BY <1>2 DEF Watcher
    <3> DEFINE u == [w EXCEPT !.pending = <<>>]
    <3>3. v = [u EXCEPT !.delivered = 0, !.oldUnclaimed = 0, !.oldClaimed = {}] BY <2>1 DEF Watcher
    <3> HIDE DEF u
    <3>4. u \in Watcher BY <3>2 DEF u
    <3> QED BY <3>1, <3>3, <3>4 DEF Watcher
  <2>3. /\ v.start = w.start /\ v.clean = w.clean /\ v.offset = w.offset /\ v.state = w.state
        /\ v.pending = <<>> /\ v.delivered = 0 /\ v.oldUnclaimed = 0 /\ v.oldClaimed = {}
    BY <2>1 DEF Watcher
  <2> QED BY <2>2, <2>3
<1> QED BY <1>3, <1>4

LEMMA ReadClaimed ==
  ASSUME NEW w \in Watcher, NEW r \in JournalRecord, w.state = "watch", r.event = "claimed"
  PROVE  /\ Read(w, r) \in Watcher
         /\ Read(w, r) = IF w.oldUnclaimed = 0 THEN w
                         ELSE [w EXCEPT !.oldUnclaimed = @ - 1, !.oldClaimed = @ \union r.ids]
<1>1. Read(w, r) = IF w.oldUnclaimed = 0 THEN w
                   ELSE [w EXCEPT !.oldUnclaimed = @ - 1, !.oldClaimed = @ \union r.ids]
  BY DEF Read
<1>2. w.oldUnclaimed \in Nat /\ w.oldClaimed \in SUBSET Ids /\ r.ids \in SUBSET Ids
  BY DEF Watcher, JournalRecord
<1>3. w.oldUnclaimed # 0 => w.oldUnclaimed - 1 \in Nat BY <1>2
<1>4. w.oldClaimed \union r.ids \in SUBSET Ids BY <1>2
<1> QED BY <1>1, <1>3, <1>4 DEF Watcher

LEMMA ReadReaped ==
  ASSUME NEW w \in Watcher, NEW r \in JournalRecord, w.state = "watch", r.event = "lease_reaped"
  PROVE  LET old == w.oldClaimed \intersect r.ids IN
         /\ Read(w, r) \in Watcher
         /\ Read(w, r) = [w EXCEPT !.oldUnclaimed = @ + Cardinality(old), !.oldClaimed = @ \ old]
<1> DEFINE old == w.oldClaimed \intersect r.ids
<1>1. Read(w, r) = [w EXCEPT !.oldUnclaimed = @ + Cardinality(old), !.oldClaimed = @ \ old]
  BY DEF Read
<1>2. w.oldUnclaimed \in Nat /\ w.oldClaimed \in SUBSET Ids /\ old \in SUBSET Ids BY DEF Watcher
<1> HIDE DEF old
<1>3. Cardinality(old) \in Nat BY <1>2, IdSets
<1>4. w.oldUnclaimed + Cardinality(old) \in Nat /\ w.oldClaimed \ old \in SUBSET Ids BY <1>2, <1>3
<1>5. Read(w, r) \in Watcher BY <1>1, <1>4 DEF Watcher
<1> QED BY <1>1, <1>5 DEF old

LEMMA Credited ==
  ASSUME NEW w \in Watcher, NEW n \in Nat
  PROVE  LET old == Least(w.oldUnclaimed, n) IN
         /\ Credit(w, n) = [w EXCEPT !.oldUnclaimed = @ - old, !.delivered = @ + n - old]
         /\ Credit(w, n) \in Watcher
         /\ old \in Nat /\ old <= n /\ old <= w.oldUnclaimed
         /\ w.oldUnclaimed <= n => old = w.oldUnclaimed
<1> DEFINE old == Least(w.oldUnclaimed, n)
<1>1. Credit(w, n) = [w EXCEPT !.oldUnclaimed = @ - old, !.delivered = @ + n - old] BY DEF Credit
<1>2. w.oldUnclaimed \in Nat /\ w.delivered \in Nat BY DEF Watcher
<1>3. old \in Nat /\ old <= n /\ old <= w.oldUnclaimed /\ (w.oldUnclaimed <= n => old = w.oldUnclaimed)
  BY <1>2 DEF Least
<1> HIDE DEF old
<1>4. w.oldUnclaimed - old \in Nat /\ w.delivered + n - old \in Nat BY <1>2, <1>3
<1>5. Credit(w, n) \in Watcher BY <1>1, <1>4 DEF Watcher
<1> QED BY <1>1, <1>3, <1>5 DEF old

LEMMA ReadDelivered ==
  ASSUME NEW w \in Watcher, NEW r \in JournalRecord, w.state = "watch", r.event = "delivered"
  PROVE  LET old == w.oldClaimed \intersect r.ids IN
         /\ Read(w, r) \in Watcher
         /\ Read(w, r) = IF old # {} THEN [w EXCEPT !.oldClaimed = @ \ old] ELSE Credit(w, 1)
<1> DEFINE old == w.oldClaimed \intersect r.ids
<1>1. Read(w, r) = IF old # {} THEN [w EXCEPT !.oldClaimed = @ \ old] ELSE Credit(w, 1) BY DEF Read
<1>2. w.oldClaimed \ old \in SUBSET Ids BY DEF Watcher
<1> HIDE DEF old
<1>3. Credit(w, 1) \in Watcher BY Credited
<1>4. Read(w, r) \in Watcher BY <1>1, <1>2, <1>3 DEF Watcher
<1> QED BY <1>1, <1>4 DEF old

LEMMA ReadDrained ==
  ASSUME NEW w \in Watcher, NEW r \in JournalRecord, w.state = "watch", r.event = "queue_drained"
  PROVE  Read(w, r) = Credit(w, r.count)
BY DEF Read

LEMMA ReadLoss ==
  ASSUME NEW w \in Watcher, NEW r \in JournalRecord, w.state = "loss"
  PROVE  Read(w, r) = w
BY DEF Read

\* A record is written, and everything that is said of the queue is carried over it.
Carries(r) ==
  /\ journal' = Append(journal, r) /\ tail' = tail
  /\ QueueTyped' /\ SentInOrder'
  /\ \A c : CountOK(c) => CountOK(Scan(c, r))'
  /\ \A w : WatchOK(w) => WatchOK(Read(w, r))'

LEMMA SentInHand ==
  /\ SentIn(<<>>) = {}
  /\ \A r : r.event = "message_enqueued" => SentIn(<<r>>) = r.ids
<1>1. SentIn(<<>>) = {} BY DEF SentIn, Sends
<1>2. ASSUME NEW r, r.event = "message_enqueued" PROVE SentIn(<<r>>) = r.ids
  <2>1. DOMAIN <<r>> = {1} /\ <<r>>[1] = r BY SMT
  <2>2. Sends(<<r>>) = {1} BY <1>2, <2>1 DEF Sends
  <2>3. SentIn(<<r>>) = UNION {<<r>>[i].ids : i \in {1}} BY <2>2 DEF SentIn
  <2> HIDE DEF SentIn
  <2>4. {<<r>>[i].ids : i \in {1}} = {r.ids} BY <2>1
  <2> QED BY <2>3, <2>4
<1> QED BY <1>1, <1>2

LEMMA TypedAfter ==
  ASSUME QueueTyped, NEW r \in JournalRecord, journal' = Append(journal, r), tail' = tail,
         clock' = clock, NEW f \in SUBSET Ids, NEW c \in SUBSET Ids, f \intersect c = {},
         waiting' = [free |-> f, claimed |-> c], hand' = hand \/ hand' = <<>>
  PROVE  /\ QueueTyped' /\ waiting'.free = f /\ waiting'.claimed = c /\ Held' = f \union c
         /\ Kept' = Cardinality(f) + Cardinality(c) - Len(hand')
<1>1. /\ waiting' \in [free : SUBSET Ids, claimed : SUBSET Ids]
      /\ waiting'.free = f /\ waiting'.claimed = c
  OBVIOUS
<1>2. /\ journal' \in Seq(JournalRecord) /\ tail.offset <= Len(journal') /\ tail.start <= Len(journal')
  BY JournalOneMore
<1>3. QueueTyped' BY <1>1, <1>2 DEF QueueTyped
<1> QED BY <1>1, <1>3 DEF Held, Kept

\* What holds of the messages and the parts of the queue before a step.
LEMMA QueueParts ==
  ASSUME QueueTyped
  PROVE  /\ waiting = [free |-> waiting.free, claimed |-> waiting.claimed]
         /\ waiting.free \in SUBSET Ids /\ waiting.claimed \in SUBSET Ids
         /\ waiting.free \intersect waiting.claimed = {}
         /\ \/ hand = <<>> /\ Len(hand) = 0
            \/ hand[1] \in SendRecord /\ hand = <<hand[1]>> /\ Len(hand) = 1
         /\ tail \in Watcher /\ tail.offset \in 0..Len(journal) /\ tail.start \in 0..Len(journal)
         /\ journal \in Seq(JournalRecord) /\ Len(journal) \in Nat /\ clock \in Nat
         /\ Kept \in Int /\ Cardinality(waiting.free) \in Nat /\ Cardinality(waiting.claimed) \in Nat
<1>1. /\ waiting = [free |-> waiting.free, claimed |-> waiting.claimed]
      /\ waiting.free \in SUBSET Ids /\ waiting.claimed \in SUBSET Ids
      /\ waiting.free \intersect waiting.claimed = {}
  BY DEF QueueTyped
<1>2. \/ hand = <<>> /\ Len(hand) = 0
      \/ hand[1] \in SendRecord /\ hand = <<hand[1]>> /\ Len(hand) = 1
  BY DEF QueueTyped
<1>3. tail \in Watcher /\ tail.offset <= Len(journal) /\ tail.start <= Len(journal)
      /\ journal \in Seq(JournalRecord)
  BY DEF QueueTyped
<1>4. tail.offset \in Nat /\ tail.start \in Nat /\ Len(journal) \in Nat BY <1>3, LenProperties DEF Watcher
<1>5. clock \in Nat BY QueueAssumption DEF QueueTyped
<1>6. Cardinality(waiting.free) \in Nat /\ Cardinality(waiting.claimed) \in Nat BY <1>1, IdSets
<1>7. Len(hand) \in Nat BY <1>2
<1>8. Kept \in Int BY <1>6, <1>7 DEF Kept
<1> QED BY <1>1, <1>2, <1>3, <1>4, <1>5, <1>6, <1>8

\* A message is written down as sent: at once, or when the one in hand gets there.
LEMMA SendCarried ==
  ASSUME QueueTyped, QueueTyped', NEW r \in SendRecord, journal' = Append(journal, r), tail' = tail,
         Kept' = Kept + 1, waiting'.claimed = waiting.claimed,
         waiting.free \subseteq waiting'.free, SentInOrder'
  PROVE  Carries(r)
<1>1. r \in JournalRecord /\ r.event = "message_enqueued" BY DEF SendRecord
<1>2. ASSUME NEW c, CountOK(c) PROVE CountOK(Scan(c, r))'
  <2>1. Scan(c, r) = [c EXCEPT !.in = @ + 1] BY <1>1 DEF Scan
  <2>2. c \in CountRecord /\ c.in \in Nat /\ c.out \in Nat /\ c.claimed = waiting.claimed /\ c.in - c.out = Kept
    BY <1>2 DEF CountOK, CountRecord
  <2>3. c.in + 1 \in Nat /\ (c.in + 1) - c.out = Kept'
    <3>1. PICK i \in Nat, o \in Nat : i = c.in /\ o = c.out BY <2>2
    <3>2. i - o = Kept BY <2>2, <3>1
    <3>3. (i + 1) - o = (i - o) + 1 OBVIOUS
    <3> QED BY <3>1, <3>2, <3>3
  <2> QED BY <2>1, <2>2, <2>3 DEF CountOK, CountRecord
<1>3. ASSUME NEW w, WatchOK(w) PROVE WatchOK(Read(w, r))'
  <2>1. w \in Watcher /\ w.state \in {"watch", "loss"} BY <1>3 DEF WatchOK
  <2>2. CASE w.state = "loss"
    <3>1. Read(w, r) = w BY <1>1, <2>1, <2>2, ReadLoss
    <3>2. WatchOK(w)' BY <1>1, <1>3, <2>1, <2>2, WatchAfter
    <3> QED BY <3>1, <3>2
  <2>3. CASE w.state = "watch"
    <3> DEFINE v == Read(w, r)
    <3>1. /\ v = [w EXCEPT !.pending = Append(@, r.ts)]
          /\ v \in Watcher /\ Len(v.pending) = Len(w.pending) + 1
      BY <1>1, <2>1, <2>3, ReadSend
    <3> HIDE DEF v
    <3>2. /\ v.start = w.start /\ v.clean = w.clean /\ v.offset = w.offset /\ v.state = w.state
          /\ v.pending = Append(w.pending, r.ts) /\ v.delivered = w.delivered
          /\ v.oldUnclaimed = w.oldUnclaimed /\ v.oldClaimed = w.oldClaimed
      BY <2>1, <3>1 DEF Watcher
    <3>3. /\ w.oldUnclaimed + Cardinality(w.oldClaimed) + Len(w.pending) - w.delivered = Kept
          /\ w.oldClaimed \subseteq waiting.claimed
          /\ tail.clean => /\ w.oldClaimed \subseteq Old
                           /\ w.oldUnclaimed <= Cardinality(waiting.free \intersect Old)
      BY <1>3, <2>3 DEF WatchOK
    <3>4. v.oldUnclaimed + Cardinality(v.oldClaimed) + Len(v.pending) - v.delivered = Kept'
      <4>1. w.oldUnclaimed \in Nat /\ w.delivered \in Nat /\ w.oldClaimed \in SUBSET Ids
            /\ w.pending \in Seq(Nat)
        BY <2>1 DEF Watcher
      <4>2. Cardinality(w.oldClaimed) \in Nat /\ Len(w.pending) \in Nat BY <4>1, IdSets, LenProperties
      <4>3. Kept \in Int BY QueueParts
      <4>4. PICK m \in Nat : m = Cardinality(w.oldClaimed) BY <4>2
      <4>5. PICK p \in Nat : p = Len(w.pending) /\ Len(v.pending) = p + 1 BY <3>1, <4>2
      <4>7. PICK u \in Nat, d \in Nat : u = w.oldUnclaimed /\ d = w.delivered BY <4>1
      <4>8. PICK k \in Int : k = Kept /\ Kept' = k + 1 BY <4>3
      <4>9. u + m + p - d = k BY <3>3, <4>4, <4>5, <4>7, <4>8, Zenon
      <4>10. u + m + (p + 1) - d = k + 1 BY <4>9
      <4> QED BY <3>2, <4>4, <4>5, <4>7, <4>8, <4>10
    <3>5. tail.clean => v.oldUnclaimed <= Cardinality(waiting'.free \intersect Old)
      <4>1. waiting'.free \in SUBSET Ids /\ waiting.free \intersect Old \in SUBSET (waiting'.free \intersect Old)
        BY DEF QueueTyped
      <4>2. /\ Cardinality(waiting.free \intersect Old) <= Cardinality(waiting'.free \intersect Old)
            /\ Cardinality(waiting.free \intersect Old) \in Nat
            /\ Cardinality(waiting'.free \intersect Old) \in Nat
        BY <4>1, IdSets, QueueParts
      <4>3. w.oldUnclaimed \in Nat BY <2>1 DEF Watcher
      <4> QED BY <3>2, <3>3, <4>2, <4>3
    <3>6. v.oldClaimed \subseteq waiting'.claimed /\ (tail.clean => v.oldClaimed \subseteq Old)
      BY <3>2, <3>3
    <3> QED BY <1>1, <1>3, <2>3, <3>1, <3>2, <3>4, <3>5, <3>6, WatchAfter DEF v
  <2> QED BY <2>1, <2>2, <2>3
<1> QED BY <1>2, <1>3 DEF Carries

\* What the watcher has taken for waiting.
Accounted(w) == w.oldUnclaimed + Cardinality(w.oldClaimed) + Len(w.pending) - w.delivered

LEMMA AccountedMoves ==
  ASSUME NEW w \in Watcher, NEW v \in Watcher, v.pending = w.pending
  PROVE  /\ Accounted(w) \in Int /\ Accounted(v) \in Int
         /\ Accounted(v) - Accounted(w) = (v.oldUnclaimed - w.oldUnclaimed)
              + (Cardinality(v.oldClaimed) - Cardinality(w.oldClaimed)) - (v.delivered - w.delivered)
<1>1. /\ w.oldUnclaimed \in Nat /\ w.delivered \in Nat /\ w.oldClaimed \in SUBSET Ids
      /\ w.pending \in Seq(Nat) /\ v.oldUnclaimed \in Nat /\ v.delivered \in Nat
      /\ v.oldClaimed \in SUBSET Ids
  BY DEF Watcher
<1>2. /\ Cardinality(w.oldClaimed) \in Nat /\ Cardinality(v.oldClaimed) \in Nat
      /\ Len(w.pending) \in Nat
  BY <1>1, IdSets, LenProperties
<1>3. PICK m \in Nat, p \in Nat, u \in Nat, e \in Nat, m2 \in Nat, u2 \in Nat, e2 \in Nat :
        /\ m = Cardinality(w.oldClaimed) /\ p = Len(w.pending) /\ u = w.oldUnclaimed /\ e = w.delivered
        /\ m2 = Cardinality(v.oldClaimed) /\ u2 = v.oldUnclaimed /\ e2 = v.delivered
  BY <1>1, <1>2
<1>4. Accounted(w) = u + m + p - e BY <1>3, Zenon DEF Accounted
<1>5. Accounted(v) = u2 + m2 + p - e2 BY <1>3, Zenon DEF Accounted
<1>6. (u2 + m2 + p - e2) - (u + m + p - e) = (u2 - u) + (m2 - m) - (e2 - e) OBVIOUS
<1>7. u + m + p - e \in Int /\ u2 + m2 + p - e2 \in Int OBVIOUS
<1> QED BY <1>3, <1>4, <1>5, <1>6, <1>7

LEMMA OrderAfter ==
  ASSUME QueueTyped, SentInOrder, NEW r \in JournalRecord, r.event # "message_enqueued",
         journal' = Append(journal, r), tail' = tail,
         \/ Held' \subseteq Held /\ hand' = hand
         \/ Held' = {} /\ hand' = <<>>
  PROVE  SentInOrder'
<1>1. /\ Old' = Old /\ SentIn(journal)' = SentIn(journal) /\ Fresh' = Fresh
      /\ \A i \in Fresh : journal'[i] = journal[i]
  BY JournalOneMore
<1>2. \/ SentIn(hand)' = SentIn(hand) /\ Held' \subseteq Held
      \/ SentIn(hand)' = {} /\ Held' = {}
  BY SentInHand DEF SentIn, Sends
<1> QED BY <1>1, <1>2 DEF SentInOrder

\* A message is claimed: the watcher takes it for an old one while it knows of any.
LEMMA ClaimCarried ==
  ASSUME QueueTyped, SentInOrder, NEW id \in Ids, ClaimMessage(id)
  PROVE  \E r \in JournalRecord : Carries(r)
<1>1. PICK F, C :
        /\ F = waiting.free /\ C = waiting.claimed
        /\ F \in SUBSET Ids /\ C \in SUBSET Ids /\ F \intersect C = {} /\ clock \in Nat
        /\ Kept = Cardinality(F) + Cardinality(C) - Len(hand) /\ Len(hand) \in Nat
  BY QueueParts DEF Kept
<1>2. PICK r :
        /\ r = Rec("claimed", {id}, 1, clock)
        /\ id \in F /\ \A j \in F : id <= j
        /\ waiting' = [free |-> F \ {id}, claimed |-> C \union {id}]
        /\ journal' = Append(journal, r) /\ hand' = hand /\ tail' = tail /\ clock' = clock
  BY <1>1 DEF ClaimMessage, Write
<1>3. r \in JournalRecord /\ r.event = "claimed" /\ r.ids = {id}
  BY <1>1, <1>2 DEF JournalRecord, Events, Rec
<1>4. /\ F \ {id} \in SUBSET Ids /\ C \union {id} \in SUBSET Ids
      /\ (F \ {id}) \intersect (C \union {id}) = {} /\ (F \ {id}) \union (C \union {id}) = F \union C
  BY <1>1, <1>2
<1>5. /\ QueueTyped' /\ waiting'.free = F \ {id} /\ waiting'.claimed = C \union {id}
      /\ Held' = F \union C
      /\ Kept' = Cardinality(F \ {id}) + Cardinality(C \union {id}) - Len(hand)
  BY <1>2, <1>3, <1>4, TypedAfter
<1>6. /\ Cardinality(F \ {id}) = Cardinality(F) - 1 /\ Cardinality(C \union {id}) = Cardinality(C) + 1
      /\ Cardinality(F) \in Nat /\ Cardinality(C) \in Nat
  BY <1>1, <1>2, IdSets
<1>7. Kept' = Kept BY <1>1, <1>5, <1>6
<1>8. SentInOrder' BY <1>1, <1>2, <1>3, <1>5, OrderAfter DEF Held
<1>9. ASSUME NEW c, CountOK(c) PROVE CountOK(Scan(c, r))'
  <2>1. Scan(c, r) = [c EXCEPT !.claimed = @ \union {id}] BY <1>3 DEF Scan
  <2>2. c \in CountRecord /\ c.claimed = C /\ c.in - c.out = Kept BY <1>1, <1>9 DEF CountOK
  <2>3. Scan(c, r) \in CountRecord BY <1>4, <2>1, <2>2 DEF CountRecord
  <2>4. Scan(c, r).in = c.in /\ Scan(c, r).out = c.out /\ Scan(c, r).claimed = C \union {id}
    BY <2>1, <2>2 DEF CountRecord
  <2> QED BY <1>5, <1>7, <2>2, <2>3, <2>4 DEF CountOK
<1>10. ASSUME NEW w, WatchOK(w) PROVE WatchOK(Read(w, r))'
  <2>1. w \in Watcher /\ w.state \in {"watch", "loss"} BY <1>10 DEF WatchOK
  <2>2. CASE w.state = "loss"
    <3>1. Read(w, r) = w BY <1>3, <2>1, <2>2, ReadLoss
    <3>2. WatchOK(w)' BY <1>2, <1>3, <1>10, <2>1, <2>2, WatchAfter
    <3> QED BY <3>1, <3>2
  <2>3. CASE w.state = "watch"
    <3> DEFINE v == Read(w, r)
    <3>1. /\ v \in Watcher
          /\ v = IF w.oldUnclaimed = 0 THEN w
                 ELSE [w EXCEPT !.oldUnclaimed = @ - 1, !.oldClaimed = @ \union {id}]
      BY <1>3, <2>1, <2>3, ReadClaimed
    <3> HIDE DEF v
    <3>2. /\ w.oldUnclaimed \in Nat /\ w.oldClaimed \in SUBSET Ids
          /\ Accounted(w) = Kept /\ w.oldClaimed \subseteq C
          /\ tail.clean => w.oldClaimed \subseteq Old /\ w.oldUnclaimed <= Cardinality(F \intersect Old)
      BY <1>1, <1>10, <2>1, <2>3 DEF WatchOK, Accounted, Watcher
    <3>3. /\ F \intersect Old \in SUBSET Ids /\ waiting'.free \intersect Old = (F \intersect Old) \ {id}
          /\ Cardinality(F \intersect Old) \in Nat
      BY <1>1, <1>5, IdSets
    <3>4. CASE w.oldUnclaimed = 0
      <4>1. Cardinality(waiting'.free \intersect Old) \in Nat BY <1>1, <1>5, IdSets
      <4>2. v = w BY <3>1, <3>4
      <4>3. w.oldUnclaimed <= Cardinality(waiting'.free \intersect Old) BY <3>4, <4>1
      <4> QED BY <1>2, <1>3, <1>5, <1>7, <1>10, <2>1, <2>3, <3>2, <4>2, <4>3, WatchAfter DEF v, Accounted
    <3>5. CASE w.oldUnclaimed # 0
      <4>1. v = [w EXCEPT !.oldUnclaimed = @ - 1, !.oldClaimed = @ \union {id}] BY <3>1, <3>5
      <4>2. /\ v.start = w.start /\ v.clean = w.clean /\ v.offset = w.offset /\ v.state = w.state
            /\ v.pending = w.pending /\ v.delivered = w.delivered
            /\ v.oldUnclaimed = w.oldUnclaimed - 1 /\ v.oldClaimed = w.oldClaimed \union {id}
        BY <2>1, <4>1 DEF Watcher
      <4>3. Cardinality(v.oldClaimed) = Cardinality(w.oldClaimed) + 1
        <5>1. id \in Ids \ w.oldClaimed BY <1>1, <1>2, <3>2
        <5> QED BY <3>2, <4>2, <5>1, IdSets
      <4>4. Accounted(v) = Kept'
        <5>1. /\ Accounted(w) \in Int /\ Accounted(v) \in Int
              /\ Accounted(v) - Accounted(w) = (v.oldUnclaimed - w.oldUnclaimed)
                   + (Cardinality(v.oldClaimed) - Cardinality(w.oldClaimed)) - (v.delivered - w.delivered)
          BY <2>1, <3>1, <4>2, AccountedMoves
        <5>2. w.oldUnclaimed \in Nat /\ w.delivered \in Nat /\ Cardinality(w.oldClaimed) \in Nat
          BY <2>1, <3>2, IdSets DEF Watcher
        <5> QED BY <1>7, <3>2, <4>2, <4>3, <5>1, <5>2
      <4>5. ASSUME tail.clean
            PROVE  v.oldClaimed \subseteq Old /\ v.oldUnclaimed <= Cardinality(waiting'.free \intersect Old)
        <5>1. PICK j \in F : j \in Old
          <6>1. Cardinality(F \intersect Old) # 0 BY <3>2, <3>3, <3>5, <4>5
          <6>2. F \intersect Old # {} BY <6>1, IdSets
          <6> QED BY <6>2
        <5>2. id \in Old
          <6>1. id \notin Old => j < id BY <1>1, <1>2, <4>5, <5>1 DEF SentInOrder, Held
          <6>2. id \in Nat /\ j \in Nat /\ id <= j BY <1>1, <1>2, <5>1 DEF Ids
          <6> QED BY <6>1, <6>2
        <5>3. Cardinality((F \intersect Old) \ {id}) = Cardinality(F \intersect Old) - 1
          BY <1>2, <3>3, <5>2, IdSets
        <5>4. v.oldClaimed \subseteq Old BY <3>2, <4>2, <4>5, <5>2
        <5>5. v.oldUnclaimed <= Cardinality(F \intersect Old) - 1 BY <3>2, <3>3, <4>2, <4>5
        <5> QED BY <3>3, <5>3, <5>4, <5>5
      <4>6. v.oldClaimed \subseteq waiting'.claimed BY <1>5, <3>2, <4>2
      <4> QED BY <1>2, <1>3, <1>10, <2>3, <3>1, <4>2, <4>4, <4>5, <4>6, WatchAfter DEF v, Accounted
    <3> QED BY <3>4, <3>5
  <2> QED BY <2>1, <2>2, <2>3
<1>11. Carries(r) BY <1>2, <1>5, <1>8, <1>9, <1>10 DEF Carries
<1> QED BY <1>3, <1>11

\* A watcher that saw a loss reads no further.
LEMMA LossCarried ==
  ASSUME QueueTyped, NEW r \in JournalRecord, journal' = Append(journal, r), tail' = tail,
         NEW w, WatchOK(w), w.state = "loss"
  PROVE  WatchOK(Read(w, r))'
<1>1. w \in Watcher BY DEF WatchOK
<1>2. Read(w, r) = w BY <1>1, ReadLoss
<1>3. WatchOK(w)' BY <1>1, WatchAfter
<1> QED BY <1>2, <1>3

\* What is known of a watcher that agrees with the queue.
LEMMA WatchParts ==
  ASSUME NEW w, WatchOK(w)
  PROVE  /\ w \in Watcher /\ w.state \in {"watch", "loss"}
         /\ w.oldUnclaimed \in Nat /\ w.oldClaimed \in SUBSET Ids /\ w.delivered \in Nat
         /\ w.pending \in Seq(Nat) /\ Cardinality(w.oldClaimed) \in Nat /\ Len(w.pending) \in Nat
         /\ w.state = "watch" =>
              /\ Accounted(w) = Kept /\ w.oldClaimed \subseteq waiting.claimed
              /\ tail.clean => /\ w.oldClaimed \subseteq Old
                               /\ w.oldUnclaimed <= Cardinality(waiting.free \intersect Old)
<1>1. w \in Watcher BY DEF WatchOK
<1>2. /\ w.oldUnclaimed \in Nat /\ w.oldClaimed \in SUBSET Ids /\ w.delivered \in Nat
      /\ w.pending \in Seq(Nat)
  BY <1>1 DEF Watcher
<1>3. Cardinality(w.oldClaimed) \in Nat /\ Len(w.pending) \in Nat BY <1>2, IdSets, LenProperties
<1> QED BY <1>1, <1>2, <1>3 DEF WatchOK, Accounted

\* A lease runs out: what was claimed of the old ones is an old one again.
LEMMA ReapCarried ==
  ASSUME QueueTyped, SentInOrder, NEW id \in Ids, LeaseReaped(id)
  PROVE  \E r \in JournalRecord : Carries(r)
<1>1. PICK F, C :
        /\ F = waiting.free /\ C = waiting.claimed
        /\ F \in SUBSET Ids /\ C \in SUBSET Ids /\ F \intersect C = {} /\ clock \in Nat
        /\ Kept = Cardinality(F) + Cardinality(C) - Len(hand) /\ Len(hand) \in Nat
        /\ Cardinality(F) \in Nat /\ Cardinality(C) \in Nat
  BY QueueParts DEF Kept
<1>2. PICK r :
        /\ r = Rec("lease_reaped", {id}, 1, clock)
        /\ id \in C
        /\ waiting' = [free |-> F \union {id}, claimed |-> C \ {id}]
        /\ journal' = Append(journal, r) /\ hand' = hand /\ tail' = tail /\ clock' = clock
  BY <1>1, QueueParts DEF LeaseReaped, Write
<1>3. r \in JournalRecord /\ r.event = "lease_reaped" /\ r.ids = {id} /\ r.count = 1
  BY <1>1, <1>2 DEF JournalRecord, Events, Rec
<1>4. /\ F \union {id} \in SUBSET Ids /\ C \ {id} \in SUBSET Ids /\ (F \union {id}) \intersect (C \ {id}) = {}
      /\ (F \union {id}) \union (C \ {id}) \subseteq F \union C
  BY <1>1, <1>2
<1>5. /\ QueueTyped' /\ waiting'.free = F \union {id} /\ waiting'.claimed = C \ {id} /\ Held' = (F \union {id}) \union (C \ {id})
      /\ Kept' = Cardinality(F \union {id}) + Cardinality(C \ {id}) - Len(hand')
  BY <1>2, <1>3, <1>4, TypedAfter
<1>6. /\ Cardinality(F \union {id}) = Cardinality(F) + 1 /\ Cardinality(C \ {id}) = Cardinality(C) - 1
      /\ id \in Ids \ F
  BY <1>1, <1>2, IdSets
<1>7. Kept' = Kept BY <1>1, <1>2, <1>5, <1>6
<1>8. SentInOrder' BY <1>1, <1>2, <1>3, <1>4, <1>5, OrderAfter DEF Held
<1>9. ASSUME NEW c, CountOK(c) PROVE CountOK(Scan(c, r))'
  <2>1. Scan(c, r) = [c EXCEPT !.claimed = @ \ {id}] BY <1>3 DEF Scan
  <2>2. c \in CountRecord /\ c.claimed = C /\ c.in - c.out = Kept BY <1>1, <1>9 DEF CountOK
  <2>3. c.in \in Nat /\ c.out \in Nat /\ Kept \in Int BY <2>2, QueueParts DEF CountRecord
  <2>4. Scan(c, r) \in CountRecord
    <3>1. c.out + 1 \in Nat /\ c.out + r.count \in Nat BY <1>3, <2>3 DEF JournalRecord
    <3> QED BY <1>1, <1>3, <1>4, <2>1, <2>2, <2>3, <3>1 DEF CountRecord
  <2>5. Scan(c, r).in = c.in /\ Scan(c, r).out = c.out /\ Scan(c, r).claimed = C \ {id}
    BY <2>1, <2>2 DEF CountRecord
  <2>6. Scan(c, r).in - Scan(c, r).out = Kept' BY <1>1, <1>7, <2>2, <2>3, <2>5
  <2> QED BY <1>5, <2>4, <2>5, <2>6 DEF CountOK
<1>10. ASSUME NEW w, WatchOK(w) PROVE WatchOK(Read(w, r))'
  <2>1. CASE w.state = "loss" BY <1>2, <1>3, <1>10, <2>1, LossCarried
  <2>2. CASE w.state = "watch"
    <3>1. /\ w \in Watcher /\ w.oldUnclaimed \in Nat /\ w.oldClaimed \in SUBSET Ids
          /\ w.delivered \in Nat /\ Cardinality(w.oldClaimed) \in Nat
          /\ Accounted(w) = Kept /\ w.oldClaimed \subseteq C
          /\ tail.clean => w.oldClaimed \subseteq Old /\ w.oldUnclaimed <= Cardinality(F \intersect Old)
      BY <1>1, <1>10, <2>2, WatchParts
    <3> DEFINE v == Read(w, r)
               old == w.oldClaimed \intersect {id}
    <3>2. /\ v \in Watcher
          /\ v = [w EXCEPT !.oldUnclaimed = @ + Cardinality(old), !.oldClaimed = @ \ old]
      BY <1>3, <2>2, <3>1, ReadReaped
    <3> HIDE DEF v
    <3>3. /\ v.start = w.start /\ v.clean = w.clean /\ v.offset = w.offset /\ v.state = w.state
            /\ v.pending = w.pending
            /\ v.delivered = w.delivered /\ v.oldUnclaimed = w.oldUnclaimed + Cardinality(old)
            /\ v.oldClaimed = w.oldClaimed \ old
      BY <3>1, <3>2 DEF Watcher
    <3>4. /\ F \intersect Old \in SUBSET Ids /\ waiting'.free \intersect Old \in SUBSET Ids
          /\ Cardinality(F \intersect Old) \in Nat /\ Cardinality(waiting'.free \intersect Old) \in Nat
          /\ Cardinality(F \intersect Old) <= Cardinality(waiting'.free \intersect Old)
      <4>1. F \intersect Old \in SUBSET Ids /\ waiting'.free \intersect Old \in SUBSET Ids
            /\ F \intersect Old \in SUBSET (waiting'.free \intersect Old)
        BY <1>1, <1>4, <1>5
      <4> QED BY <4>1, IdSets
    <3>5. CASE id \in w.oldClaimed
      <4>1. old = {id} BY <3>5
      <4>2. Cardinality(old) = 1
        <5>1. {} \in SUBSET Ids /\ id \in Ids \ {} /\ {} \union {id} = {id} OBVIOUS
        <5> QED BY <4>1, <5>1, IdSets
      <4>3. Cardinality(v.oldClaimed) = Cardinality(w.oldClaimed) - 1 BY <3>1, <3>3, <3>5, <4>1, IdSets
      <4>4. /\ Accounted(w) \in Int /\ Accounted(v) \in Int
            /\ Accounted(v) - Accounted(w) = (v.oldUnclaimed - w.oldUnclaimed)
                   + (Cardinality(v.oldClaimed) - Cardinality(w.oldClaimed)) - (v.delivered - w.delivered)
        BY <3>1, <3>2, <3>3, AccountedMoves
      <4>5. Accounted(v) = Kept'
        <5>1. /\ v.oldUnclaimed - w.oldUnclaimed = 1 /\ v.delivered - w.delivered = 0
              /\ Cardinality(v.oldClaimed) - Cardinality(w.oldClaimed) = 0 - 1
          <6>1. v.delivered = w.delivered /\ v.oldUnclaimed = w.oldUnclaimed + 1 BY <3>3, <4>2
          <6>2. \A n \in Nat : n - n = 0 /\ (n - 1) - n = 0 - 1 /\ (n + 1) - n = 1 OBVIOUS
          <6> QED BY <3>1, <4>3, <6>1, <6>2, Zenon
        <5>2. Accounted(v) - Accounted(w) = 1 + (0 - 1) - 0 BY <4>4, <5>1, Zenon
        <5> QED BY <1>7, <3>1, <4>4, <5>2
      <4>6. ASSUME tail.clean
            PROVE  v.oldClaimed \subseteq Old /\ v.oldUnclaimed <= Cardinality(waiting'.free \intersect Old)
        <5>1. id \in Ids \ (F \intersect Old) BY <1>1, <1>2
        <5>2. waiting'.free \intersect Old = (F \intersect Old) \union {id} BY <1>5, <3>1, <3>5, <4>6
        <5>3. Cardinality(waiting'.free \intersect Old) = Cardinality(F \intersect Old) + 1
          BY <3>4, <5>1, <5>2, IdSets
        <5>4. w.oldUnclaimed <= Cardinality(F \intersect Old) /\ w.oldClaimed \subseteq Old BY <3>1, <4>6
        <5>5. v.oldUnclaimed = w.oldUnclaimed + 1 BY <3>3, <4>2
        <5>6. v.oldUnclaimed <= Cardinality(waiting'.free \intersect Old) BY <3>1, <3>4, <5>3, <5>4, <5>5
        <5> QED BY <3>3, <5>4, <5>6
      <4>7. v.oldClaimed \subseteq waiting'.claimed BY <1>5, <3>1, <3>3, <4>1
      <4> QED BY <1>2, <1>3, <1>10, <2>2, <3>2, <3>3, <4>5, <4>6, <4>7, WatchAfter DEF v, Accounted
    <3>6. CASE id \notin w.oldClaimed
      <4>1. old = {} BY <3>6
      <4>2. Cardinality(old) = 0 BY <4>1, IdSets
      <4>3. v.oldClaimed = w.oldClaimed /\ v.oldUnclaimed = w.oldUnclaimed BY <3>1, <3>3, <4>1, <4>2
      <4>4. /\ Accounted(w) \in Int /\ Accounted(v) \in Int
            /\ Accounted(v) - Accounted(w) = (v.oldUnclaimed - w.oldUnclaimed)
                   + (Cardinality(v.oldClaimed) - Cardinality(w.oldClaimed)) - (v.delivered - w.delivered)
        BY <3>1, <3>2, <3>3, AccountedMoves
      <4>5. Accounted(v) = Kept'
        <5>1. /\ v.oldUnclaimed - w.oldUnclaimed = 0 /\ v.delivered - w.delivered = 0
              /\ Cardinality(v.oldClaimed) - Cardinality(w.oldClaimed) = 0
          <6>1. v.delivered = w.delivered BY <3>3
          <6>2. \A n \in Nat : n - n = 0 OBVIOUS
          <6> QED BY <3>1, <4>3, <6>1, <6>2, Zenon
        <5>2. Accounted(v) - Accounted(w) = 0 + 0 - 0 BY <4>4, <5>1, Zenon
        <5> QED BY <1>7, <3>1, <4>4, <5>2
      <4>6. tail.clean => v.oldClaimed \subseteq Old /\ v.oldUnclaimed <= Cardinality(waiting'.free \intersect Old)
        BY <3>1, <3>4, <4>3
      <4>7. v.oldClaimed \subseteq waiting'.claimed BY <1>5, <3>1, <3>6, <4>3
      <4> QED BY <1>2, <1>3, <1>10, <2>2, <3>2, <3>3, <4>5, <4>6, <4>7, WatchAfter DEF v, Accounted
    <3> QED BY <3>5, <3>6
  <2> QED BY <1>10, <2>1, <2>2, WatchParts
<1>11. Carries(r) BY <1>2, <1>5, <1>8, <1>9, <1>10 DEF Carries
<1> QED BY <1>3, <1>11

\* A delivery: of a message known by its number, or one of the old, or one of the new.
LEMMA DeliverCarried ==
  ASSUME QueueTyped, SentInOrder, NEW id \in Ids, Deliver(id)
  PROVE  \E r \in JournalRecord : Carries(r)
<1>1. PICK F, C :
        /\ F = waiting.free /\ C = waiting.claimed
        /\ F \in SUBSET Ids /\ C \in SUBSET Ids /\ F \intersect C = {} /\ clock \in Nat
        /\ Kept = Cardinality(F) + Cardinality(C) - Len(hand) /\ Len(hand) \in Nat
        /\ Cardinality(F) \in Nat /\ Cardinality(C) \in Nat
  BY QueueParts DEF Kept
<1>2. PICK r :
        /\ r = Rec("delivered", {id}, 1, clock)
        /\ id \in C
        /\ waiting' = [free |-> F, claimed |-> C \ {id}]
        /\ journal' = Append(journal, r) /\ hand' = hand /\ tail' = tail /\ clock' = clock
  BY <1>1, QueueParts DEF Deliver, Write
<1>3. r \in JournalRecord /\ r.event = "delivered" /\ r.ids = {id} /\ r.count = 1
  BY <1>1, <1>2 DEF JournalRecord, Events, Rec
<1>4. /\ F \in SUBSET Ids /\ C \ {id} \in SUBSET Ids /\ (F) \intersect (C \ {id}) = {}
      /\ (F) \union (C \ {id}) \subseteq F \union C
  BY <1>1, <1>2
<1>5. /\ QueueTyped' /\ waiting'.free = F /\ waiting'.claimed = C \ {id} /\ Held' = (F) \union (C \ {id})
      /\ Kept' = Cardinality(F) + Cardinality(C \ {id}) - Len(hand')
  BY <1>2, <1>3, <1>4, TypedAfter
<1>6. Cardinality(C \ {id}) = Cardinality(C) - 1
  BY <1>1, <1>2, IdSets
<1>7. Kept' = Kept - 1 BY <1>1, <1>2, <1>5, <1>6
<1>8. SentInOrder' BY <1>1, <1>2, <1>3, <1>4, <1>5, OrderAfter DEF Held
<1>9. ASSUME NEW c, CountOK(c) PROVE CountOK(Scan(c, r))'
  <2>1. Scan(c, r) = [c EXCEPT !.claimed = @ \ {id}, !.out = @ + 1] BY <1>3 DEF Scan
  <2>2. c \in CountRecord /\ c.claimed = C /\ c.in - c.out = Kept BY <1>1, <1>9 DEF CountOK
  <2>3. c.in \in Nat /\ c.out \in Nat /\ Kept \in Int BY <2>2, QueueParts DEF CountRecord
  <2>4. Scan(c, r) \in CountRecord
    <3>1. c.out + 1 \in Nat /\ c.out + r.count \in Nat BY <1>3, <2>3 DEF JournalRecord
    <3> QED BY <1>1, <1>3, <1>4, <2>1, <2>2, <2>3, <3>1 DEF CountRecord
  <2>5. Scan(c, r).in = c.in /\ Scan(c, r).out = c.out + 1 /\ Scan(c, r).claimed = C \ {id}
    BY <2>1, <2>2 DEF CountRecord
  <2>6. Scan(c, r).in - Scan(c, r).out = Kept' BY <1>1, <1>7, <2>2, <2>3, <2>5
  <2> QED BY <1>5, <2>4, <2>5, <2>6 DEF CountOK
<1>10. ASSUME NEW w, WatchOK(w) PROVE WatchOK(Read(w, r))'
  <2>1. CASE w.state = "loss" BY <1>2, <1>3, <1>10, <2>1, LossCarried
  <2>2. CASE w.state = "watch"
    <3>1. /\ w \in Watcher /\ w.oldUnclaimed \in Nat /\ w.oldClaimed \in SUBSET Ids
          /\ w.delivered \in Nat /\ Cardinality(w.oldClaimed) \in Nat
          /\ Accounted(w) = Kept /\ w.oldClaimed \subseteq C
          /\ tail.clean => w.oldClaimed \subseteq Old /\ w.oldUnclaimed <= Cardinality(F \intersect Old)
      BY <1>1, <1>10, <2>2, WatchParts
    <3> DEFINE v == Read(w, r)
               old == w.oldClaimed \intersect {id}
    <3>2. v \in Watcher /\ v = IF old # {} THEN [w EXCEPT !.oldClaimed = @ \ old] ELSE Credit(w, 1)
      BY <1>3, <2>2, <3>1, ReadDelivered
    <3> HIDE DEF v
    <3>3. CASE id \in w.oldClaimed
      <4>1. old = {id} BY <3>3
      <4>2. v = [w EXCEPT !.oldClaimed = @ \ {id}] BY <3>2, <4>1
      <4>3. /\ v.start = w.start /\ v.clean = w.clean /\ v.offset = w.offset /\ v.state = w.state
            /\ v.pending = w.pending
            /\ v.delivered = w.delivered /\ v.oldUnclaimed = w.oldUnclaimed
            /\ v.oldClaimed = w.oldClaimed \ {id}
        BY <3>1, <4>2 DEF Watcher
      <4>4. Cardinality(v.oldClaimed) = Cardinality(w.oldClaimed) - 1 BY <3>1, <3>3, <4>3, IdSets
      <4>5. /\ Accounted(w) \in Int /\ Accounted(v) \in Int
            /\ Accounted(v) - Accounted(w) = (v.oldUnclaimed - w.oldUnclaimed)
                   + (Cardinality(v.oldClaimed) - Cardinality(w.oldClaimed)) - (v.delivered - w.delivered)
        BY <3>1, <3>2, <4>3, AccountedMoves
      <4>6. Accounted(v) = Kept'
        <5>1. /\ v.oldUnclaimed - w.oldUnclaimed = 0 /\ v.delivered - w.delivered = 0
              /\ Cardinality(v.oldClaimed) - Cardinality(w.oldClaimed) = 0 - 1
          <6>1. v.delivered = w.delivered /\ v.oldUnclaimed = w.oldUnclaimed BY <4>3
          <6>2. \A n \in Nat : n - n = 0 /\ (n - 1) - n = 0 - 1 OBVIOUS
          <6> QED BY <3>1, <4>4, <6>1, <6>2, Zenon
        <5>2. Accounted(v) - Accounted(w) = 0 + (0 - 1) - 0 BY <4>5, <5>1, Zenon
        <5> QED BY <1>7, <3>1, <4>5, <5>2
      <4>7. v.oldClaimed \subseteq waiting'.claimed BY <1>5, <3>1, <4>3
      <4>8. tail.clean => v.oldClaimed \subseteq Old /\ v.oldUnclaimed <= Cardinality(waiting'.free \intersect Old)
        BY <1>5, <3>1, <4>3
      <4> QED BY <1>2, <1>3, <1>10, <2>2, <3>2, <4>3, <4>6, <4>7, <4>8, WatchAfter DEF v, Accounted
    <3>4. CASE id \notin w.oldClaimed
      <4>1. old = {} BY <3>4
      <4>2. v = Credit(w, 1) BY <3>2, <4>1
      <4>3. PICK x \in Nat : /\ v = [w EXCEPT !.oldUnclaimed = @ - x, !.delivered = @ + 1 - x]
                             /\ x <= 1 /\ x <= w.oldUnclaimed
        BY <3>1, <4>2, Credited
      <4>4. /\ v.start = w.start /\ v.clean = w.clean /\ v.offset = w.offset /\ v.state = w.state
            /\ v.pending = w.pending
            /\ v.delivered = w.delivered + 1 - x /\ v.oldUnclaimed = w.oldUnclaimed - x
            /\ v.oldClaimed = w.oldClaimed
        BY <3>1, <4>3 DEF Watcher
      <4>5. /\ Accounted(w) \in Int /\ Accounted(v) \in Int
            /\ Accounted(v) - Accounted(w) = (v.oldUnclaimed - w.oldUnclaimed)
                   + (Cardinality(v.oldClaimed) - Cardinality(w.oldClaimed)) - (v.delivered - w.delivered)
        BY <3>1, <3>2, <4>4, AccountedMoves
      <4>6. Accounted(v) = Kept'
        <5>1. /\ v.oldUnclaimed - w.oldUnclaimed = 0 - x /\ v.delivered - w.delivered = 1 - x
              /\ Cardinality(v.oldClaimed) - Cardinality(w.oldClaimed) = 0
          BY <3>1, <4>4
        <5>2. Accounted(v) - Accounted(w) = (0 - x) + 0 - (1 - x) BY <4>5, <5>1, Zenon
        <5> QED BY <1>7, <3>1, <4>5, <5>2
      <4>7. v.oldClaimed \subseteq waiting'.claimed BY <1>5, <3>1, <3>4, <4>4
      <4>8. tail.clean => v.oldClaimed \subseteq Old /\ v.oldUnclaimed <= Cardinality(waiting'.free \intersect Old)
        <5>1. Cardinality(F \intersect Old) \in Nat
          <6>1. F \intersect Old \in SUBSET Ids BY <1>1
          <6> QED BY <6>1, IdSets
        <5> QED BY <1>5, <3>1, <4>4, <5>1
      <4> QED BY <1>2, <1>3, <1>10, <2>2, <3>2, <4>4, <4>6, <4>7, <4>8, WatchAfter DEF v, Accounted
    <3> QED BY <3>3, <3>4
  <2> QED BY <1>10, <2>1, <2>2, WatchParts
<1>11. Carries(r) BY <1>2, <1>5, <1>8, <1>9, <1>10 DEF Carries
<1> QED BY <1>3, <1>11

\* Everything that is not claimed is taken: the old of it first.
LEMMA DrainCarried ==
  ASSUME QueueTyped, SentInOrder, Drain
  PROVE  \E r \in JournalRecord : Carries(r)
<1>1. PICK F, C :
        /\ F = waiting.free /\ C = waiting.claimed
        /\ F \in SUBSET Ids /\ C \in SUBSET Ids /\ F \intersect C = {} /\ clock \in Nat
        /\ Kept = Cardinality(F) + Cardinality(C) - Len(hand) /\ Len(hand) \in Nat
        /\ Cardinality(F) \in Nat /\ Cardinality(C) \in Nat
  BY QueueParts DEF Kept
<1>2. PICK r :
        /\ r = Rec("queue_drained", {}, Cardinality(F), clock)
        /\ waiting' = [free |-> {}, claimed |-> C]
        /\ journal' = Append(journal, r) /\ hand' = hand /\ tail' = tail /\ clock' = clock
  BY <1>1, QueueParts DEF Drain, Write
<1>3. r \in JournalRecord /\ r.event = "queue_drained" /\ r.ids = {} /\ r.count = Cardinality(F)
  BY <1>1, <1>2 DEF JournalRecord, Events, Rec
<1>4. /\ {} \in SUBSET Ids /\ C \in SUBSET Ids /\ ({}) \intersect (C) = {}
      /\ ({}) \union (C) \subseteq F \union C
  BY <1>1, <1>2
<1>5. /\ QueueTyped' /\ waiting'.free = {} /\ waiting'.claimed = C /\ Held' = ({}) \union (C)
      /\ Kept' = Cardinality({}) + Cardinality(C) - Len(hand')
  BY <1>2, <1>3, <1>4, TypedAfter
<1>6. Cardinality({}) = 0
  BY <1>1, <1>2, IdSets
<1>7. Kept' = Kept - Cardinality(F) BY <1>1, <1>2, <1>5, <1>6
<1>8. SentInOrder' BY <1>1, <1>2, <1>3, <1>4, <1>5, OrderAfter DEF Held
<1>9. ASSUME NEW c, CountOK(c) PROVE CountOK(Scan(c, r))'
  <2>1. Scan(c, r) = [c EXCEPT !.out = @ + Cardinality(F)] BY <1>3 DEF Scan
  <2>2. c \in CountRecord /\ c.claimed = C /\ c.in - c.out = Kept BY <1>1, <1>9 DEF CountOK
  <2>3. c.in \in Nat /\ c.out \in Nat /\ Kept \in Int BY <2>2, QueueParts DEF CountRecord
  <2>4. Scan(c, r) \in CountRecord
    <3>1. c.out + 1 \in Nat /\ c.out + r.count \in Nat BY <1>3, <2>3 DEF JournalRecord
    <3> QED BY <1>1, <1>3, <1>4, <2>1, <2>2, <2>3, <3>1 DEF CountRecord
  <2>5. Scan(c, r).in = c.in /\ Scan(c, r).out = c.out + Cardinality(F) /\ Scan(c, r).claimed = C
    BY <2>1, <2>2 DEF CountRecord
  <2>6. Scan(c, r).in - Scan(c, r).out = Kept' BY <1>1, <1>7, <2>2, <2>3, <2>5
  <2> QED BY <1>5, <2>4, <2>5, <2>6 DEF CountOK
<1>10. ASSUME NEW w, WatchOK(w) PROVE WatchOK(Read(w, r))'
  <2>1. CASE w.state = "loss" BY <1>2, <1>3, <1>10, <2>1, LossCarried
  <2>2. CASE w.state = "watch"
    <3>1. /\ w \in Watcher /\ w.oldUnclaimed \in Nat /\ w.oldClaimed \in SUBSET Ids
          /\ w.delivered \in Nat /\ Cardinality(w.oldClaimed) \in Nat
          /\ Accounted(w) = Kept /\ w.oldClaimed \subseteq C
          /\ tail.clean => w.oldClaimed \subseteq Old /\ w.oldUnclaimed <= Cardinality(F \intersect Old)
      BY <1>1, <1>10, <2>2, WatchParts
    <3> DEFINE v == Read(w, r)
    <3>2. v = Credit(w, Cardinality(F)) BY <1>3, <2>2, <3>1, ReadDrained
    <3> HIDE DEF v
    <3>3. PICK x \in Nat : /\ v = [w EXCEPT !.oldUnclaimed = @ - x, !.delivered = @ + Cardinality(F) - x]
                           /\ v \in Watcher /\ x <= w.oldUnclaimed
                           /\ w.oldUnclaimed <= Cardinality(F) => x = w.oldUnclaimed
      BY <1>1, <3>1, <3>2, Credited
    <3>4. /\ v.start = w.start /\ v.clean = w.clean /\ v.offset = w.offset /\ v.state = w.state
            /\ v.pending = w.pending
            /\ v.delivered = w.delivered + Cardinality(F) - x /\ v.oldUnclaimed = w.oldUnclaimed - x
            /\ v.oldClaimed = w.oldClaimed
      BY <3>1, <3>3 DEF Watcher
    <3>5. /\ Accounted(w) \in Int /\ Accounted(v) \in Int
          /\ Accounted(v) - Accounted(w) = (v.oldUnclaimed - w.oldUnclaimed)
                   + (Cardinality(v.oldClaimed) - Cardinality(w.oldClaimed)) - (v.delivered - w.delivered)
      BY <3>1, <3>3, <3>4, AccountedMoves
    <3>6. Accounted(v) = Kept'
      <4>1. PICK n \in Nat : n = Cardinality(F) BY <1>1
      <4>2. /\ v.oldUnclaimed - w.oldUnclaimed = 0 - x /\ v.delivered - w.delivered = n - x
            /\ Cardinality(v.oldClaimed) - Cardinality(w.oldClaimed) = 0
        BY <3>1, <3>4, <4>1
      <4>3. Accounted(v) - Accounted(w) = (0 - x) + 0 - (n - x) BY <3>5, <4>2, Zenon
      <4> QED BY <1>7, <3>1, <3>5, <4>1, <4>3
    <3>7. v.oldClaimed \subseteq waiting'.claimed BY <1>5, <3>1, <3>4
    <3>8. ASSUME tail.clean
          PROVE  v.oldClaimed \subseteq Old /\ v.oldUnclaimed <= Cardinality(waiting'.free \intersect Old)
      <4>1. F \intersect Old \in SUBSET F /\ F \intersect Old \in SUBSET Ids BY <1>1
      <4>2. Cardinality(F \intersect Old) <= Cardinality(F) /\ Cardinality(F \intersect Old) \in Nat
        BY <1>1, <4>1, IdSets
      <4>3. w.oldUnclaimed <= Cardinality(F) BY <1>1, <3>1, <3>8, <4>2
      <4>4. v.oldUnclaimed = 0 BY <3>1, <3>3, <3>4, <4>3
      <4>5. waiting'.free \intersect Old = {} BY <1>5
      <4>6. Cardinality(waiting'.free \intersect Old) = 0 BY <1>6, <4>5, Zenon
      <4> QED BY <3>1, <3>4, <3>8, <4>4, <4>6
    <3> QED BY <1>2, <1>3, <1>10, <2>2, <3>3, <3>4, <3>6, <3>7, <3>8, WatchAfter DEF v, Accounted
  <2> QED BY <1>10, <2>1, <2>2, WatchParts
<1>11. Carries(r) BY <1>2, <1>5, <1>8, <1>9, <1>10 DEF Carries
<1> QED BY <1>3, <1>11

\* The broker starts with an empty queue, and every count with it.
LEMMA RestartCarried ==
  ASSUME QueueTyped, SentInOrder, RestartBroker
  PROVE  \E r \in JournalRecord : Carries(r)
<1>1. PICK F, C :
        /\ F = waiting.free /\ C = waiting.claimed
        /\ F \in SUBSET Ids /\ C \in SUBSET Ids /\ F \intersect C = {} /\ clock \in Nat
        /\ Kept = Cardinality(F) + Cardinality(C) - Len(hand) /\ Len(hand) \in Nat
        /\ Cardinality(F) \in Nat /\ Cardinality(C) \in Nat
  BY QueueParts DEF Kept
<1>2. PICK r :
        /\ r = Rec("broker_started", {}, 0, clock)
        /\ waiting' = [free |-> {}, claimed |-> {}]
        /\ journal' = Append(journal, r) /\ hand' = <<>> /\ tail' = tail /\ clock' = clock
  BY <1>1, QueueParts DEF RestartBroker
<1>3. r \in JournalRecord /\ r.event = "broker_started" /\ r.ids = {} /\ r.count = 0
  BY <1>1, <1>2 DEF JournalRecord, Events, Rec
<1>4. /\ {} \in SUBSET Ids /\ {} \in SUBSET Ids /\ ({}) \intersect ({}) = {}
      /\ ({}) \union ({}) \subseteq F \union C
  BY <1>1, <1>2
<1>5. /\ QueueTyped' /\ waiting'.free = {} /\ waiting'.claimed = {} /\ Held' = ({}) \union ({})
      /\ Kept' = Cardinality({}) + Cardinality({}) - Len(hand')
  BY <1>2, <1>3, <1>4, TypedAfter
<1>6. Cardinality({}) = 0
  BY <1>1, <1>2, IdSets
<1>7. Kept' = 0 BY <1>2, <1>5, <1>6, Len(<<>>) = 0
<1>8. SentInOrder' BY <1>1, <1>2, <1>3, <1>4, <1>5, OrderAfter DEF Held
<1>9. ASSUME NEW c, CountOK(c) PROVE CountOK(Scan(c, r))'
  <2>1. Scan(c, r) = [in |-> 0, out |-> 0, claimed |-> {}] BY <1>3 DEF Scan
  <2>2. c \in CountRecord /\ c.claimed = C /\ c.in - c.out = Kept BY <1>1, <1>9 DEF CountOK
  <2>3. c.in \in Nat /\ c.out \in Nat /\ Kept \in Int BY <2>2, QueueParts DEF CountRecord
  <2>4. Scan(c, r) \in CountRecord
    <3>1. c.out + 1 \in Nat /\ c.out + r.count \in Nat BY <1>3, <2>3 DEF JournalRecord
    <3> QED BY <1>1, <1>3, <1>4, <2>1, <2>2, <2>3, <3>1 DEF CountRecord
  <2>5. Scan(c, r).in = 0 /\ Scan(c, r).out = 0 /\ Scan(c, r).claimed = {}
    BY <2>1, <2>2 DEF CountRecord
  <2>6. Scan(c, r).in - Scan(c, r).out = Kept' BY <1>1, <1>7, <2>2, <2>3, <2>5
  <2> QED BY <1>5, <2>4, <2>5, <2>6 DEF CountOK
<1>10. ASSUME NEW w, WatchOK(w) PROVE WatchOK(Read(w, r))'
  <2>1. CASE w.state = "loss" BY <1>2, <1>3, <1>10, <2>1, LossCarried
  <2>2. CASE w.state = "watch"
    <3>1. /\ w \in Watcher /\ w.oldUnclaimed \in Nat /\ w.oldClaimed \in SUBSET Ids
          /\ w.delivered \in Nat /\ Cardinality(w.oldClaimed) \in Nat
          /\ Accounted(w) = Kept /\ w.oldClaimed \subseteq C
          /\ tail.clean => w.oldClaimed \subseteq Old /\ w.oldUnclaimed <= Cardinality(F \intersect Old)
      BY <1>1, <1>10, <2>2, WatchParts
    <3> DEFINE v == Read(w, r)
    <3>2. /\ v \in Watcher /\ v.start = w.start /\ v.clean = w.clean /\ v.offset = w.offset
          /\ v.state \in {"watch", "loss"}
          /\ v.pending = w.pending \/ v.pending = <<>>
          /\ v.state = "watch" => /\ v.pending = <<>> /\ v.delivered = 0
                                  /\ v.oldUnclaimed = 0 /\ v.oldClaimed = {}
      BY <1>3, <2>2, <3>1, ReadRestart
    <3> HIDE DEF v
    <3>3. ASSUME v.state = "watch"
          PROVE  /\ v.oldUnclaimed + Cardinality(v.oldClaimed) + Len(v.pending) - v.delivered = Kept'
                 /\ v.oldClaimed \subseteq waiting'.claimed
                 /\ tail.clean => /\ v.oldClaimed \subseteq Old
                                  /\ v.oldUnclaimed <= Cardinality(waiting'.free \intersect Old)
      <4>1. v.pending = <<>> /\ v.delivered = 0 /\ v.oldUnclaimed = 0 /\ v.oldClaimed = {}
        BY <3>2, <3>3
      <4>2. Len(<<>>) = 0 BY SMT
      <4>3. waiting'.free \intersect Old = {} BY <1>5
      <4>4. Cardinality(waiting'.free \intersect Old) = 0 /\ Cardinality(v.oldClaimed) = 0 /\ Len(v.pending) = 0
        BY <1>6, <4>1, <4>2, <4>3, Zenon
      <4>5. v.oldUnclaimed + Cardinality(v.oldClaimed) + Len(v.pending) - v.delivered = 0 BY <4>1, <4>4
      <4> QED BY <1>7, <4>1, <4>4, <4>5
    <3> QED BY <1>2, <1>3, <1>10, <3>2, <3>3, WatchAfter DEF v
  <2> QED BY <1>10, <2>1, <2>2, WatchParts
<1>11. Carries(r) BY <1>2, <1>5, <1>8, <1>9, <1>10 DEF Carries
<1> QED BY <1>3, <1>11

CountInv == /\ \E g : Tallies(g)
            /\ \A g : Tallies(g) => CountOK(g[Len(journal)])

WatchInv == tail.state = "watch" => /\ \E g : Reads(g)
                                    /\ \A g : Reads(g) => WatchOK(g[Len(journal)])

\* What the steps of the broker and the watcher preserve: the count of the scan is what
\* the broker holds, and so is what the watcher would count if it read on now.
QueueInv == QueueTyped /\ SentInOrder /\ CountInv /\ WatchInv

LEMMA CarriedOver ==
  ASSUME QueueInv, NEW r \in JournalRecord, Carries(r)
  PROVE  QueueInv'
<1>1. /\ QueueTyped /\ journal \in Seq(JournalRecord) /\ journal' = Append(journal, r) /\ tail' = tail
      /\ tail.offset \in Nat /\ tail.offset <= Len(journal)
  BY QueueParts DEF QueueInv, Carries, QueueTyped, Watcher
<1>2. CountInv'
  <2>1. /\ (\E g : Tallies(g)) => \E g : Tallies(g)'
        /\ \A h : Tallies(h)' => \E g : Tallies(g) /\ h[Len(journal')] = Scan(g[Len(journal)], r)
    BY <1>1, TalliesOneMore
  <2>2. ASSUME NEW h, Tallies(h)' PROVE CountOK(h[Len(journal)])'
    <3>1. PICK g : Tallies(g) /\ h[Len(journal')] = Scan(g[Len(journal)], r) BY <2>1, <2>2
    <3>2. PICK c : c = g[Len(journal)] OBVIOUS
    <3>3. CountOK(c) BY <3>1, <3>2 DEF QueueInv, CountInv
    <3>4. PICK d : d = h[Len(journal')] OBVIOUS
    <3>5. CountOK(Scan(c, r))' BY <3>3 DEF Carries
    <3>6. d = Scan(c, r) BY <3>1, <3>2, <3>4
    <3>7. CountOK(d)' BY <3>5, <3>6
    <3> QED BY <3>4, <3>7
  <2>3. (\E g : Tallies(g))' BY <2>1 DEF QueueInv, CountInv
  <2> QED BY <2>2, <2>3 DEF CountInv
<1>3. WatchInv'
  <2> SUFFICES ASSUME tail.state = "watch"
               PROVE  (\E g : Reads(g))' /\ \A h : Reads(h)' => WatchOK(h[Len(journal)])'
    BY <1>1 DEF WatchInv
  <2>1. /\ (\E g : Reads(g)) => \E g : Reads(g)'
        /\ \A h : Reads(h)' => \E g : Reads(g) /\ h[Len(journal')] = Read(g[Len(journal)], r)
    BY <1>1, ReadsOneMore
  <2>2. ASSUME NEW h, Reads(h)' PROVE WatchOK(h[Len(journal)])'
    <3>1. PICK g : Reads(g) /\ h[Len(journal')] = Read(g[Len(journal)], r) BY <2>1, <2>2
    <3>2. PICK c : c = g[Len(journal)] OBVIOUS
    <3>3. WatchOK(c) BY <3>1, <3>2 DEF QueueInv, WatchInv
    <3>4. PICK d : d = h[Len(journal')] OBVIOUS
    <3>5. WatchOK(Read(c, r))' BY <3>3 DEF Carries
    <3>6. d = Read(c, r) BY <3>1, <3>2, <3>4
    <3>7. WatchOK(d)' BY <3>5, <3>6
    <3> QED BY <3>4, <3>7
  <2>3. (\E g : Reads(g))' BY <2>1 DEF QueueInv, WatchInv
  <2> QED BY <2>2, <2>3
<1> QED BY <1>2, <1>3 DEF QueueInv, Carries

\* Without a record the counts stand, while what the broker holds less what it has still
\* to write down stays the same.
LEMMA NothingWritten ==
  ASSUME QueueInv, QueueTyped', SentInOrder', journal' = journal, tail' = tail, Kept' = Kept,
         waiting'.claimed = waiting.claimed, waiting.free \subseteq waiting'.free
  PROVE  QueueInv'
<1>1. CountInv'
  <2>1. \A g : Tallies(g)' <=> Tallies(g) BY DEF Tallies
  <2>2. \A c : CountOK(c) => CountOK(c)' BY DEF CountOK
  <2> QED BY <2>1, <2>2 DEF CountInv, QueueInv
<1>2. WatchInv'
  <2>1. \A g : Reads(g)' <=> Reads(g) BY DEF Reads
  <2>2. Old' = Old /\ Fresh' = Fresh BY DEF Old, Fresh, Sends
  <2>3. Cardinality(waiting.free \intersect Old) <= Cardinality(waiting'.free \intersect Old)
        /\ Cardinality(waiting.free \intersect Old) \in Nat
        /\ Cardinality(waiting'.free \intersect Old) \in Nat
    <3>1. waiting.free \intersect Old \in SUBSET Ids /\ waiting'.free \intersect Old \in SUBSET Ids
          /\ waiting.free \intersect Old \in SUBSET (waiting'.free \intersect Old)
      BY DEF QueueInv, QueueTyped
    <3> QED BY <3>1, IdSets
  <2>4. ASSUME NEW w, WatchOK(w) PROVE WatchOK(w)'
    <3>1. w.oldUnclaimed \in Nat BY <2>4, WatchParts
    <3>2. (tail.clean /\ w.state = "watch") => w.oldUnclaimed <= Cardinality(waiting'.free \intersect Old)
      BY <2>3, <2>4, <3>1 DEF WatchOK
    <3> QED BY <2>2, <2>4, <3>2 DEF WatchOK
  <2> QED BY <2>1, <2>4 DEF WatchInv, QueueInv
<1> QED BY <1>1, <1>2 DEF QueueInv

LEMMA TickKeeps ==
  ASSUME QueueInv, Tick
  PROVE  QueueInv'
<1>1. /\ waiting' = waiting /\ journal' = journal /\ hand' = hand /\ tail' = tail
      /\ clock' \in 0..MaxClock
  <2>1. clock \in 0..MaxClock /\ MaxClock \in Nat BY QueueAssumption DEF QueueInv, QueueTyped
  <2> QED BY <2>1 DEF Tick
<1>2. QueueTyped' BY <1>1 DEF QueueInv, QueueTyped
<1>3. SentInOrder' BY <1>1 DEF QueueInv, SentInOrder, Held, SentIn, Sends, Old, Fresh
<1>4. Kept' = Kept BY <1>1 DEF Kept
<1> QED BY <1>1, <1>2, <1>3, <1>4, NothingWritten

\* The next message: its record is written at once, or is in hand for a while.
LEMMA EnqueueKeeps ==
  ASSUME QueueInv, NEW id \in Ids, Enqueue(id)
  PROVE  QueueInv'
<1> USE DEF QueueInv
<1>1. PICK F, C :
        /\ F = waiting.free /\ C = waiting.claimed
        /\ F \in SUBSET Ids /\ C \in SUBSET Ids /\ F \intersect C = {} /\ clock \in Nat
        /\ Kept = Cardinality(F) + Cardinality(C) - Len(hand) /\ Len(hand) \in Nat
        /\ Cardinality(F) \in Nat /\ Cardinality(C) \in Nat
  BY QueueParts DEF Kept
<1>2. PICK r :
        /\ r = Rec("message_enqueued", {id}, 1, clock)
        /\ \A j \in SentIn(journal) \union SentIn(hand) : j < id
        /\ waiting' = [free |-> F \union {id}, claimed |-> C]
        /\ tail' = tail /\ clock' = clock
        /\ \/ journal' = Append(journal, r) /\ hand' = hand
           \/ hand = <<>> /\ hand' = <<r>> /\ journal' = journal
  BY <1>1, QueueParts DEF Enqueue, Write
<1>3. r \in JournalRecord /\ r \in SendRecord /\ r.event = "message_enqueued" /\ r.ids = {id}
  BY <1>1, <1>2 DEF JournalRecord, SendRecord, Events, Rec
<1>4. id \notin F \union C
  <2>1. \A j \in F \union C : j < id BY <1>1, <1>2 DEF SentInOrder, Held
  <2>2. id \in Nat BY DEF Ids
  <2> QED BY <2>1, <2>2
<1>5. Cardinality(F \union {id}) = Cardinality(F) + 1 BY <1>1, <1>4, IdSets
<1>6. Old \subseteq SentIn(journal) BY DEF Old, SentIn
<1>7. /\ waiting' \in [free : SUBSET Ids, claimed : SUBSET Ids]
      /\ waiting'.free = F \union {id} /\ waiting'.claimed = C
      /\ (F \union {id}) \intersect C = {} /\ Held' = Held \union {id}
  BY <1>1, <1>2, <1>4 DEF Held
<1>8. CASE journal' = Append(journal, r) /\ hand' = hand
  <2>1. /\ Old' = Old /\ SentIn(journal)' = SentIn(journal) \union {id}
        /\ Fresh' = Fresh \union {Len(journal) + 1}
        /\ \A i \in Fresh : journal'[i] = journal[i]
        /\ journal'[Len(journal) + 1] = r
        /\ journal' \in Seq(JournalRecord) /\ tail.offset <= Len(journal') /\ tail.start <= Len(journal')
    BY <1>2, <1>3, <1>8, JournalOneMore
  <2>2. QueueTyped' BY <1>2, <1>7, <1>8, <2>1 DEF QueueTyped
  <2>3. SentInOrder'
    <3>1. SentIn(hand)' = SentIn(hand) BY <1>8 DEF SentIn, Sends
    <3>2. Held' \subseteq SentIn(journal)' \union SentIn(hand)' BY <1>7, <2>1, <3>1 DEF SentInOrder
    <3>3. id \in Nat /\ \A j \in Old : j < id BY <1>2, <1>6 DEF Ids
    <3>4. id \notin Old BY <3>3
    <3>5. ASSUME tail.clean
          PROVE  /\ \A i \in Held' \ Old : \A j \in Old : j < i
                 /\ \A i \in Fresh' : journal'[i].ids \intersect Old = {}
                 /\ SentIn(hand)' \intersect Old = {}
      BY <1>3, <1>7, <2>1, <3>1, <3>3, <3>4, <3>5 DEF SentInOrder
    <3> QED BY <1>2, <2>1, <3>2, <3>5 DEF SentInOrder
  <2>4. Kept' = Kept + 1 BY <1>1, <1>5, <1>7, <1>8 DEF Kept
  <2>5. waiting'.claimed = waiting.claimed /\ waiting.free \subseteq waiting'.free BY <1>1, <1>7
  <2>6. Carries(r) BY <1>2, <1>3, <1>8, <2>2, <2>3, <2>4, <2>5, SendCarried
  <2> QED BY <1>3, <2>6, CarriedOver
<1>9. CASE hand = <<>> /\ hand' = <<r>> /\ journal' = journal
  <2>1. /\ Len(hand) = 0 /\ Len(hand') = 1 /\ hand'[1] = r
        /\ SentIn(hand) = {} /\ SentIn(hand)' = {id} /\ SentIn(journal)' = SentIn(journal)
    BY <1>3, <1>9, SentInHand DEF SentIn, Sends
  <2>2. Old' = Old /\ Fresh' = Fresh BY <1>2, <1>9 DEF Old, Fresh, Sends
  <2>3. QueueTyped'
    <3>1. hand' = <<hand'[1]>> /\ hand'[1] \in SendRecord BY <1>3, <1>9
    <3>2. QueueTyped BY DEF QueueInv
    <3> QED BY <1>2, <1>7, <1>9, <3>1, <3>2 DEF QueueTyped
  <2>4. SentInOrder'
    <3>1. Held' \subseteq SentIn(journal)' \union SentIn(hand)' BY <1>7, <2>1 DEF SentInOrder
    <3>2. id \in Nat /\ \A j \in Old : j < id BY <1>2, <1>6 DEF Ids
    <3>3. id \notin Old BY <3>2
    <3>4. ASSUME tail.clean
          PROVE  /\ \A i \in Held' \ Old : \A j \in Old : j < i
                 /\ \A i \in Fresh : journal[i].ids \intersect Old = {}
                 /\ SentIn(hand)' \intersect Old = {}
      BY <1>7, <2>1, <3>2, <3>3, <3>4 DEF SentInOrder
    <3> QED BY <1>2, <1>9, <2>2, <3>1, <3>4 DEF SentInOrder
  <2>5. Kept' = Kept BY <1>1, <1>5, <1>7, <2>1 DEF Kept
  <2>6. waiting'.claimed = waiting.claimed /\ waiting.free \subseteq waiting'.free BY <1>1, <1>7
  <2> QED BY <1>2, <1>9, <2>3, <2>4, <2>5, <2>6, NothingWritten
<1> QED BY <1>2, <1>8, <1>9

LEMMA WriteHandKeeps ==
  ASSUME QueueInv, WriteHand
  PROVE  QueueInv'
<1> USE DEF QueueInv
<1>1. PICK r : /\ r = hand[1] /\ r \in SendRecord /\ hand = <<r>> /\ Len(hand) = 1
               /\ journal' = Append(journal, r) /\ hand' = <<>>
               /\ waiting' = waiting /\ clock' = clock /\ tail' = tail
  BY QueueParts DEF WriteHand
<1>2. r \in JournalRecord /\ r.event = "message_enqueued" BY <1>1 DEF SendRecord
<1>3. SentIn(hand) = r.ids /\ SentIn(hand)' = {}
  <2>1. SentIn(hand)' = SentIn(<<>>) /\ SentIn(hand) = SentIn(<<r>>) BY <1>1
  <2> QED BY <1>2, <2>1, SentInHand
<1>4. /\ Old' = Old /\ SentIn(journal)' = SentIn(journal) \union r.ids
      /\ Fresh' = Fresh \union {Len(journal) + 1}
      /\ \A i \in Fresh : journal'[i] = journal[i]
      /\ journal'[Len(journal) + 1] = r
      /\ journal' \in Seq(JournalRecord) /\ tail.offset <= Len(journal') /\ tail.start <= Len(journal')
  BY <1>1, <1>2, JournalOneMore
<1>5. QueueTyped' BY <1>1, <1>4 DEF QueueTyped
<1>6. Held' = Held /\ Kept' = Kept + 1
  <2>1. Held' = Held /\ Len(hand') = 0 BY <1>1 DEF Held
  <2>2. Kept' = Cardinality(waiting.free) + Cardinality(waiting.claimed) - 0 BY <1>1, <2>1 DEF Kept
  <2>3. Kept = Cardinality(waiting.free) + Cardinality(waiting.claimed) - 1 BY <1>1 DEF Kept
  <2> QED BY <2>1, <2>2, <2>3, QueueParts
<1>7. SentInOrder'
  <2>1. Held' \subseteq SentIn(journal)' \union SentIn(hand)' BY <1>3, <1>4, <1>6 DEF SentInOrder
  <2>2. ASSUME tail.clean
        PROVE  /\ \A i \in Held' \ Old : \A j \in Old : j < i
               /\ \A i \in Fresh' : journal'[i].ids \intersect Old = {}
               /\ SentIn(hand)' \intersect Old = {}
    BY <1>3, <1>4, <1>6, <2>2 DEF SentInOrder
  <2> QED BY <1>1, <1>4, <2>1, <2>2 DEF SentInOrder
<1>8. waiting'.claimed = waiting.claimed /\ waiting.free \subseteq waiting'.free BY <1>1
<1>9. Carries(r) BY <1>1, <1>5, <1>6, <1>7, <1>8, SendCarried
<1> QED BY <1>2, <1>9, CarriedOver

LEMMA CountsAre ==
  ASSUME \E g : Tallies(g)
  PROVE  \E g : Tallies(g) /\ Counts = g[Len(journal)]
<1> DEFINE g == CHOOSE g : Tallies(g)
<1>1. Tallies(g) OBVIOUS
<1>2. Counts = g[Len(journal)] BY DEF Counts, Tallies
<1> QED BY <1>1, <1>2

LEMMA ReadOnIs ==
  ASSUME \E g : Reads(g)
  PROVE  \E g : Reads(g) /\ ReadOn = g[Len(journal)]
<1> DEFINE g == CHOOSE g : Reads(g)
<1>1. Reads(g) OBVIOUS
<1>2. ReadOn = g[Len(journal)] BY DEF ReadOn, Reads
<1> QED BY <1>1, <1>2

\* With everything read there is nothing more to read.
LEMMA NothingToRead ==
  ASSUME QueueTyped', tail'.offset = Len(journal'), WatchOK(tail)'
  PROVE  WatchInv'
<1> DEFINE n == Len(journal')
<1>1. n \in Nat /\ tail'.offset = n BY LenProperties DEF QueueTyped
<1> HIDE DEF n
<1>2. n..n = {n} BY <1>1
<1>3. \A g : Reads(g)' <=> g = [i \in {n} |-> IF i = n THEN tail' ELSE Read(g[i - 1], journal'[i])]
  BY <1>1, <1>2 DEF Reads, n
<1>4. \A g : Reads(g)' <=> g = [i \in {n} |-> tail']
  <2> TAKE g
  <2>1. [i \in {n} |-> IF i = n THEN tail' ELSE Read(g[i - 1], journal'[i])] = [i \in {n} |-> tail'] OBVIOUS
  <2> QED BY <1>3, <2>1
<1>5. \E g : Reads(g)' BY <1>4
<1>6. \A g : Reads(g)' => g[n] = tail' BY <1>4
<1>7. ASSUME NEW g, Reads(g)' PROVE WatchOK(g[Len(journal)])'
  <2>1. g[Len(journal')] = tail' BY <1>6, <1>7 DEF n
  <2> QED BY <2>1 DEF WatchOK
<1> QED BY <1>5, <1>7 DEF WatchInv

\* The watcher starts with what the scan found: as much as the broker holds, whatever was
\* on its way to the journal.
LEMMA StartTailKeeps ==
  ASSUME QueueInv, StartTail
  PROVE  QueueInv'
<1> USE DEF QueueInv
<1>1. PICK F, C, n :
        /\ F = waiting.free /\ C = waiting.claimed /\ n = Len(journal) /\ n \in Nat
        /\ F \in SUBSET Ids /\ C \in SUBSET Ids /\ F \intersect C = {}
        /\ Kept = Cardinality(F) + Cardinality(C) - Len(hand) /\ Len(hand) \in {0, 1}
        /\ Len(hand) = 0 <=> hand = <<>>
        /\ Cardinality(F) \in Nat /\ Cardinality(C) \in Nat
  BY QueueParts DEF Kept
<1>2. /\ waiting' = waiting /\ journal' = journal /\ hand' = hand /\ clock' = clock BY DEF StartTail
<1>3. PICK c : CountOK(c) /\ c = Counts BY CountsAre DEF CountInv
<1>4. PICK held \in SUBSET c.claimed :
        /\ Cardinality(held) = Least(Backlog(c), Cardinality(c.claimed))
        /\ tail' = Started(c, held)
  BY <1>3 DEF StartTail
<1>5. c.in \in Nat /\ c.out \in Nat /\ c.claimed = C /\ c.in - c.out = Kept
  BY <1>1, <1>3 DEF CountOK, CountRecord
<1>6. held \in SUBSET Ids /\ held \subseteq C /\ Cardinality(held) \in Nat BY <1>1, <1>4, <1>5, IdSets
<1>7. PICK m \in Nat, f \in Nat, k \in Nat, h \in {0, 1}, i \in Nat, o \in Nat :
        /\ m = Cardinality(held) /\ f = Cardinality(F) /\ k = Cardinality(C) /\ h = Len(hand)
        /\ i = c.in /\ o = c.out
  BY <1>1, <1>5, <1>6
<1>8. i - o = f + k - h BY <1>1, <1>5, <1>7
<1>9. PICK kept \in Nat : kept = Backlog(c) /\ kept = AtLeast0(i - o)
  <2>1. AtLeast0(i - o) \in Nat BY DEF AtLeast0
  <2> QED BY <1>7, <2>1 DEF Backlog
<1>10. m = Least(kept, k) BY <1>4, <1>5, <1>7, <1>9
<1>11. PICK u \in Nat, d \in Nat : u = AtLeast0(kept - m) /\ d = AtLeast0(o - i)
  <2>1. AtLeast0(kept - m) \in Nat /\ AtLeast0(o - i) \in Nat BY DEF AtLeast0
  <2> QED BY <2>1
<1>12. tail' = [state |-> "watch", offset |-> n, pending |-> <<>>, delivered |-> d, oldUnclaimed |-> u,
                oldClaimed |-> held, start |-> n, clean |-> (hand = <<>>)]
  BY <1>1, <1>4, <1>7, <1>9, <1>11 DEF Started, NoTail
<1>13. u + m + 0 - d = f + k - h
  BY <1>8, <1>9, <1>10, <1>11 DEF AtLeast0, Least
<1>14. h = 0 => m = k /\ u = f
  BY <1>8, <1>9, <1>10, <1>11 DEF AtLeast0, Least
<1>15. tail' \in Watcher
  <2>1. <<>> \in Seq(Nat) OBVIOUS
  <2>2. (hand = <<>>) \in BOOLEAN OBVIOUS
  <2> QED BY <1>1, <1>6, <1>12, <2>1, <2>2 DEF Watcher
<1>16. /\ tail'.state = "watch" /\ tail'.offset = n /\ tail'.pending = <<>> /\ tail'.delivered = d
       /\ tail'.oldUnclaimed = u /\ tail'.oldClaimed = held /\ tail'.start = n
       /\ tail'.clean = (hand = <<>>)
  BY <1>12
<1>17. QueueTyped' BY <1>1, <1>2, <1>15, <1>16 DEF QueueTyped
<1>18. Old' = SentIn(journal) /\ Fresh' = {}
  <2>1. Sends(journal) \subseteq 1..n BY <1>1, LenProperties DEF QueueTyped, Sends
  <2>2. {j \in Sends(journal) : j <= n} = Sends(journal) /\ {j \in Sends(journal) : j > n} = {}
    BY <1>1, <2>1
  <2> QED BY <1>2, <1>16, <2>2 DEF Old, Fresh, SentIn, Sends
<1>19. Held' = Held /\ SentIn(journal)' = SentIn(journal) /\ SentIn(hand)' = SentIn(hand)
       /\ Kept' = Kept /\ waiting'.free = F /\ waiting'.claimed = C
  BY <1>1, <1>2 DEF Held, SentIn, Sends, Kept
<1>20. SentInOrder'
  <2>1. tail'.clean => SentIn(hand) = {} BY <1>16, SentInHand
  <2> QED BY <1>18, <1>19, <2>1 DEF SentInOrder
<1>21. CountInv'
  <2>1. \A g : Tallies(g)' <=> Tallies(g) BY <1>2 DEF Tallies
  <2>2. \A e : CountOK(e) => CountOK(e)' BY <1>2, <1>19 DEF CountOK
  <2> QED BY <1>2, <2>1, <2>2 DEF CountInv
<1>22. WatchOK(tail)'
  <2>1. tail'.oldUnclaimed + Cardinality(tail'.oldClaimed) + Len(tail'.pending) - tail'.delivered = Kept'
    <3>1. Len(<<>>) = 0 BY SMT
    <3>2. u + Cardinality(held) + Len(<<>>) - d = u + m + 0 - d BY <1>7, <3>1, Zenon
    <3>3. Kept = f + k - h BY <1>1, <1>7, Zenon
    <3> QED BY <1>13, <1>16, <1>19, <3>2, <3>3, Zenon
  <2>2. ASSUME tail'.clean
        PROVE  held \subseteq SentIn(journal) /\ u <= Cardinality(F \intersect SentIn(journal))
    <3>1. hand = <<>> /\ h = 0 BY <1>1, <1>7, <1>16, <2>2
    <3>2. F \union C \subseteq SentIn(journal) BY <1>1, <3>1, SentInHand DEF SentInOrder, Held
    <3>3. F \intersect SentIn(journal) = F BY <3>2
    <3>4. Cardinality(F \intersect SentIn(journal)) = f BY <1>7, <3>3, Zenon
    <3>5. u <= f BY <1>14, <3>1
    <3>6. held \subseteq SentIn(journal) BY <1>6, <3>2
    <3> QED BY <3>4, <3>5, <3>6
  <2>3. \A j \in 1..Len(<<>>) : FALSE BY SMT
  <2> QED BY <1>6, <1>15, <1>16, <1>18, <1>19, <2>1, <2>2, <2>3 DEF WatchOK
<1>23. WatchInv' BY <1>1, <1>2, <1>16, <1>17, <1>22, NothingToRead
<1> QED BY <1>17, <1>20, <1>21, <1>23

\* A poll finds what there is: it goes on watching, or it ends over a loss or a stagnation.
LEMMA PollIs ==
  ASSUME QueueInv, Poll
  PROVE  \E w : /\ WatchOK(w)
               /\ waiting' = waiting /\ journal' = journal /\ hand' = hand /\ clock' = clock
               /\ tail' = IF w.state = "loss" THEN w
                         ELSE IF Stagnant(w) THEN [w EXCEPT !.state = "stagnation"]
                         ELSE [w EXCEPT !.offset = Len(journal)]
<1>1. tail.state = "watch" BY DEF Poll
<1>2. PICK w : WatchOK(w) /\ w = ReadOn BY <1>1, ReadOnIs DEF QueueInv, WatchInv
<1> QED BY <1>2 DEF Poll

LEMMA PollKeeps ==
  ASSUME QueueInv, Poll
  PROVE  QueueInv'
<1> USE DEF QueueInv
<1>1. PICK w : /\ WatchOK(w)
               /\ waiting' = waiting /\ journal' = journal /\ hand' = hand /\ clock' = clock
               /\ tail' = IF w.state = "loss" THEN w
                         ELSE IF Stagnant(w) THEN [w EXCEPT !.state = "stagnation"]
                         ELSE [w EXCEPT !.offset = Len(journal)]
  BY PollIs
<1>2. /\ w \in Watcher /\ w.start = tail.start /\ w.clean = tail.clean /\ w.offset = tail.offset
      /\ w.state \in {"watch", "loss"} /\ Len(journal) \in Nat /\ tail.offset <= Len(journal)
  BY <1>1, QueueParts DEF WatchOK, QueueTyped
<1>3. /\ tail' \in Watcher /\ tail'.start = tail.start /\ tail'.clean = tail.clean
      /\ tail'.offset <= Len(journal)
      /\ tail'.state = "watch" => tail' = [w EXCEPT !.offset = Len(journal)]
  <2>1. CASE w.state = "loss"
    <3>1. tail' = w BY <1>1, <2>1
    <3> QED BY <1>2, <2>1, <3>1
  <2>2. CASE w.state # "loss" /\ Stagnant(w)
    <3>1. tail' = [w EXCEPT !.state = "stagnation"] BY <1>1, <2>2
    <3> QED BY <1>2, <3>1 DEF Watcher
  <2>3. CASE w.state # "loss" /\ ~Stagnant(w)
    <3>1. tail' = [w EXCEPT !.offset = Len(journal)] BY <1>1, <2>3
    <3>2. tail' \in Watcher BY <1>2, <3>1 DEF Watcher
    <3>3. tail'.start = w.start /\ tail'.clean = w.clean /\ tail'.offset = Len(journal)
      BY <1>2, <3>1 DEF Watcher
    <3>4. tail'.offset <= Len(journal) BY <1>2, <3>3
    <3> QED BY <1>2, <3>1, <3>2, <3>3, <3>4
  <2> QED BY <2>1, <2>2, <2>3
<1>4. QueueTyped'
  <2>1. tail'.start <= Len(journal') BY <1>1, <1>3 DEF QueueTyped
  <2> QED BY <1>1, <1>3, <2>1 DEF QueueTyped
<1>5. Old' = Old /\ Fresh' = Fresh /\ Kept' = Kept BY <1>1, <1>3 DEF Old, Fresh, Sends, Kept
<1>6. SentInOrder' BY <1>1, <1>3, <1>5 DEF SentInOrder, Held, SentIn, Sends
<1>7. CountInv'
  <2>1. \A g : Tallies(g)' <=> Tallies(g) BY <1>1 DEF Tallies
  <2>2. \A e : CountOK(e) => CountOK(e)' BY <1>1, <1>5 DEF CountOK
  <2> QED BY <1>1, <2>1, <2>2 DEF CountInv
<1>8. WatchInv'
  <2>1. CASE tail'.state # "watch" BY <2>1 DEF WatchInv
  <2>2. CASE tail'.state = "watch"
    <3>1. tail' = [w EXCEPT !.offset = Len(journal)] BY <1>3, <2>2
    <3>2. /\ tail'.offset = Len(journal') /\ tail'.pending = w.pending /\ tail'.delivered = w.delivered
          /\ tail'.oldUnclaimed = w.oldUnclaimed /\ tail'.oldClaimed = w.oldClaimed
          /\ w.state = "watch"
      BY <1>1, <1>2, <2>2, <3>1 DEF Watcher
    <3>3. WatchOK(tail)' BY <1>1, <1>3, <1>5, <2>2, <3>2 DEF WatchOK
    <3> QED BY <1>4, <3>2, <3>3, NothingToRead
  <2> QED BY <2>1, <2>2
<1> QED BY <1>4, <1>6, <1>7, <1>8

\* What a watcher counts as undelivered is there to be delivered.
LEMMA CountedIsHeld ==
  ASSUME QueueInv, NEW w, WatchOK(w), w.state = "watch", Len(w.pending) > w.delivered
  PROVE  Held # {}
<1>1. SUFFICES ASSUME Held = {} PROVE FALSE OBVIOUS
<1>2. waiting.free = {} /\ waiting.claimed = {} BY <1>1 DEF Held
<1>3. Cardinality({}) = 0
  <2>1. {} \in SUBSET Ids OBVIOUS
  <2> QED BY <2>1, IdSets
<1>4. PICK h \in {0, 1} : h = Len(hand) BY QueueParts DEF QueueInv
<1>5. Kept = 0 + 0 - h BY <1>2, <1>3, <1>4, Zenon DEF Kept
<1>6. PICK u \in Nat, m \in Nat, p \in Nat, d \in Nat :
        u = w.oldUnclaimed /\ m = Cardinality(w.oldClaimed) /\ p = Len(w.pending) /\ d = w.delivered
  BY WatchParts
<1>7. Accounted(w) = u + m + p - d BY <1>6, Zenon DEF Accounted
<1>8. Accounted(w) = Kept BY WatchParts
<1>9. p > d BY <1>6
<1> QED BY <1>5, <1>7, <1>8, <1>9

\* With a message of its own session waiting, the watcher has one counted and knows since when.
LEMMA WaitingIsCounted ==
  ASSUME QueueInv, NEW w, WatchOK(w), w.state = "watch", tail.clean, hand = <<>>, Undelivered # {}
  PROVE  /\ Len(w.pending) > w.delivered
         /\ \E i \in Fresh : journal[i].ts = w.pending[w.delivered + 1]
<1>1. PICK F, C :
        /\ F = waiting.free /\ C = waiting.claimed
        /\ F \in SUBSET Ids /\ C \in SUBSET Ids /\ F \intersect C = {}
        /\ Kept = Cardinality(F) + Cardinality(C) - 0
        /\ Cardinality(F) \in Nat /\ Cardinality(C) \in Nat
  <2>1. Len(hand) = 0 BY SMT
  <2> QED BY <2>1, QueueParts DEF Kept, QueueInv
<1>2. PICK i \in Fresh : journal[i].ids \intersect (F \union C) # {} BY <1>1 DEF Undelivered, Held
<1>3. ~(F \union C \subseteq Old) BY <1>2 DEF QueueInv, SentInOrder
<1>4. /\ w.oldClaimed \subseteq C /\ w.oldClaimed \subseteq Old /\ w.oldClaimed \in SUBSET Ids
      /\ w.oldUnclaimed <= Cardinality(F \intersect Old) /\ Accounted(w) = Kept
      /\ w.oldUnclaimed \in Nat /\ Cardinality(w.oldClaimed) \in Nat
      /\ w.delivered \in Nat /\ Len(w.pending) \in Nat
  BY <1>1, WatchParts
<1>5. /\ F \intersect Old \in SUBSET F /\ w.oldClaimed \in SUBSET C
      /\ F \intersect Old \in SUBSET Ids
  BY <1>1, <1>4
<1>6. /\ Cardinality(F \intersect Old) <= Cardinality(F) /\ Cardinality(F \intersect Old) \in Nat
      /\ Cardinality(F \intersect Old) = Cardinality(F) => F \intersect Old = F
      /\ Cardinality(w.oldClaimed) <= Cardinality(C)
      /\ Cardinality(w.oldClaimed) = Cardinality(C) => w.oldClaimed = C
  BY <1>1, <1>5, IdSets
<1>7. PICK u \in Nat, m \in Nat, p \in Nat, d \in Nat, f \in Nat, c \in Nat, g \in Nat :
        /\ u = w.oldUnclaimed /\ m = Cardinality(w.oldClaimed) /\ p = Len(w.pending) /\ d = w.delivered
        /\ f = Cardinality(F) /\ c = Cardinality(C) /\ g = Cardinality(F \intersect Old)
  BY <1>1, <1>4, <1>6
<1>8. u + m + p - d = f + c - 0 BY <1>1, <1>4, <1>7, Zenon DEF Accounted
<1>9. u <= g /\ g <= f /\ m <= c BY <1>4, <1>6, <1>7
<1>10. ~(g = f /\ m = c)
  <2>1. g = f /\ m = c => F \intersect Old = F /\ w.oldClaimed = C BY <1>6, <1>7, Zenon
  <2> QED BY <1>3, <1>4, <2>1
<1>11. p > d BY <1>8, <1>9, <1>10
<1>12. d + 1 \in 1..p BY <1>11
<1>13. \E j \in Fresh : journal[j].ts = w.pending[w.delivered + 1] BY <1>7, <1>12 DEF WatchOK
<1> QED BY <1>7, <1>11, <1>13

\* What a poll reports is so, and what it leaves unreported is not overdue.
LEMMA PollIsRight ==
  ASSUME QueueInv, Poll
  PROVE  /\ tail'.state = "stagnation" => Held # {}
         /\ (tail'.state = "watch" /\ tail.clean /\ hand = <<>> /\ Undelivered # {})
              => \E i \in Fresh : clock - journal[i].ts <= StaleAfter
<1>1. PICK w : /\ WatchOK(w)
               /\ waiting' = waiting /\ journal' = journal /\ hand' = hand /\ clock' = clock
               /\ tail' = IF w.state = "loss" THEN w
                         ELSE IF Stagnant(w) THEN [w EXCEPT !.state = "stagnation"]
                         ELSE [w EXCEPT !.offset = Len(journal)]
  BY PollIs
<1>2. w \in Watcher /\ w.state \in {"watch", "loss"} BY <1>1 DEF WatchOK
<1>3. ASSUME tail'.state = "stagnation" PROVE Held # {}
  <2>1. w.state = "watch" /\ Stagnant(w) BY <1>1, <1>2, <1>3 DEF Watcher
  <2> QED BY <1>1, <2>1, CountedIsHeld DEF Stagnant
<1>4. ASSUME tail'.state = "watch", tail.clean, hand = <<>>, Undelivered # {}
      PROVE  \E i \in Fresh : clock - journal[i].ts <= StaleAfter
  <2>1. w.state = "watch" /\ ~Stagnant(w)
    <3>1. w.state # "loss" BY <1>1, <1>4
    <3>2. CASE Stagnant(w)
      <4>1. tail' = [w EXCEPT !.state = "stagnation"] BY <1>1, <3>1, <3>2
      <4>2. tail'.state = "stagnation" BY <1>2, <4>1 DEF Watcher
      <4> QED BY <1>4, <4>2
    <3> QED BY <1>2, <3>1, <3>2
  <2>2. PICK i \in Fresh : journal[i].ts = w.pending[w.delivered + 1] /\ Len(w.pending) > w.delivered
    BY <1>1, <1>4, <2>1, WaitingIsCounted
  <2>3. ~(clock - journal[i].ts > StaleAfter) BY <2>1, <2>2 DEF Stagnant
  <2>4. journal[i].ts \in Nat /\ clock \in Nat /\ StaleAfter \in Nat
    <3>1. i \in DOMAIN journal BY DEF Fresh, Sends
    <3>2. journal \in Seq(JournalRecord) /\ clock \in Nat BY QueueParts DEF QueueInv
    <3>3. journal[i] \in JournalRecord BY <3>1, <3>2
    <3> QED BY <3>2, <3>3, QueueAssumption DEF JournalRecord
  <2>5. clock - journal[i].ts <= StaleAfter BY <2>3, <2>4
  <2> QED BY <2>5
<1> QED BY <1>3, <1>4

LEMMA QueueStarts ==
  ASSUME QueueInit
  PROVE  QueueInv
<1>1. /\ waiting = [free |-> {}, claimed |-> {}] /\ journal = <<>> /\ hand = <<>> /\ clock = 0
      /\ tail = NoTail
  BY DEF QueueInit
<1>2. Len(<<>>) = 0 /\ <<>> \in Seq(JournalRecord) /\ <<>> \in Seq(Nat) BY SMT
<1>3. tail \in Watcher BY <1>1, <1>2 DEF NoTail, Watcher
<1>4. QueueTyped BY <1>1, <1>2, <1>3, QueueAssumption DEF QueueTyped, NoTail
<1>5. SentInOrder
  <2>1. Held = {} /\ ~tail.clean BY <1>1 DEF Held, NoTail
  <2> QED BY <2>1 DEF SentInOrder
<1>6. CountInv
  <2> DEFINE none0 == [in |-> 0, out |-> 0, claimed |-> {}]
  <2>1. 0..0 = {0} OBVIOUS
  <2>2. \A g : Tallies(g) <=> g = [i \in {0} |-> none0]
    <3> TAKE g
    <3>1. Tallies(g) <=> g = [i \in {0} |-> IF i = 0 THEN none0 ELSE Scan(g[i - 1], journal[i])]
      BY <1>1, <1>2, <2>1 DEF Tallies
    <3>2. [i \in {0} |-> IF i = 0 THEN none0 ELSE Scan(g[i - 1], journal[i])] = [i \in {0} |-> none0] OBVIOUS
    <3> QED BY <3>1, <3>2
  <2>3. CountOK(none0)
    <3>1. {} \in SUBSET Ids /\ Cardinality({}) = 0
      <4>1. {} \in SUBSET Ids OBVIOUS
      <4> QED BY <4>1, IdSets
    <3>2. Kept = 0 + 0 - 0 BY <1>1, <1>2, <3>1 DEF Kept
    <3> QED BY <1>1, <3>1, <3>2 DEF CountOK, CountRecord
  <2>4. \A g : Tallies(g) => g[0] = none0 BY <2>2
  <2>5. \E g : Tallies(g) BY <2>2
  <2> QED BY <1>1, <1>2, <2>3, <2>4, <2>5 DEF CountInv
<1>7. WatchInv BY <1>1 DEF WatchInv, NoTail
<1> QED BY <1>4, <1>5, <1>6, <1>7 DEF QueueInv

LEMMA QueueKeeps ==
  ASSUME QueueInv, QueueNext
  PROVE  QueueInv'
<1>1. CASE Drain BY <1>1, DrainCarried, CarriedOver DEF QueueInv
<1>2. CASE RestartBroker BY <1>2, RestartCarried, CarriedOver DEF QueueInv
<1>3. CASE WriteHand BY <1>3, WriteHandKeeps
<1>4. CASE Tick BY <1>4, TickKeeps
<1>5. CASE StartTail BY <1>5, StartTailKeeps
<1>6. CASE Poll BY <1>6, PollKeeps
<1>7. ASSUME NEW id \in Ids, Enqueue(id) PROVE QueueInv' BY <1>7, EnqueueKeeps
<1>8. ASSUME NEW id \in Ids, ClaimMessage(id) PROVE QueueInv' BY <1>8, ClaimCarried, CarriedOver DEF QueueInv
<1>9. ASSUME NEW id \in Ids, LeaseReaped(id) PROVE QueueInv' BY <1>9, ReapCarried, CarriedOver DEF QueueInv
<1>10. ASSUME NEW id \in Ids, Deliver(id) PROVE QueueInv' BY <1>10, DeliverCarried, CarriedOver DEF QueueInv
<1> QED BY <1>1, <1>2, <1>3, <1>4, <1>5, <1>6, <1>7, <1>8, <1>9, <1>10 DEF QueueNext, QueueStep

LEMMA QueueStands ==
  ASSUME QueueInv, UNCHANGED queueVars
  PROVE  QueueInv'
<1>1. /\ waiting' = waiting /\ journal' = journal /\ hand' = hand /\ clock' = clock /\ tail' = tail
  BY DEF queueVars
<1>2. QueueTyped' BY <1>1 DEF QueueInv, QueueTyped
<1>3. SentInOrder' BY <1>1 DEF QueueInv, SentInOrder, Held, SentIn, Sends, Old, Fresh
<1>4. Kept' = Kept BY <1>1 DEF Kept
<1> QED BY <1>1, <1>2, <1>3, <1>4, NothingWritten

LEMMA QueueIsTyped ==
  ASSUME QueueInv
  PROVE  QueueTypeOK
<1>1. /\ waiting.free \subseteq Ids /\ waiting.claimed \subseteq Ids \ waiting.free
      /\ clock \in 0..MaxClock /\ tail.offset \in 0..Len(journal) /\ tail \in Watcher
      /\ hand = <<>> \/ Len(hand) = 1
  BY QueueParts DEF QueueInv, QueueTyped
<1> QED BY <1>1 DEF QueueTypeOK, Watcher

\* The watcher of the secretary's queue (tools/secretary_queue_watcher.py, run_watch) reports
\* a stagnation only while the broker holds a message, and goes on watching over a message of
\* its own session only while a younger one is there; whatever is claimed, reaped, delivered,
\* drained or written down late, however often the broker starts again.
THEOREM AlarmsStayRight == QueueSpec => AlarmsAreRight
<1>1. QueueInv /\ [QueueNext]_queueVars => QueueInv' BY QueueKeeps, QueueStands
<1>2. QueueInv /\ [QueueNext]_queueVars =>
        [tail'.state = "stagnation" /\ tail.state = "watch" => Held # {}]_tail
  <2> SUFFICES ASSUME QueueInv, QueueNext, tail'.state = "stagnation", tail.state = "watch", tail' # tail
               PROVE  Held # {}
    BY DEF queueVars
  <2>1. CASE Poll BY <2>1, PollIsRight
  <2>2. CASE ~Poll
    <3>1. ~StartTail BY DEF StartTail
    <3>2. tail' = tail
      BY <2>2, <3>1 DEF QueueNext, QueueStep, Drain, RestartBroker, WriteHand, Tick, Enqueue,
                        ClaimMessage, LeaseReaped, Deliver
    <3> QED BY <3>2
  <2> QED BY <2>1, <2>2
<1>3. QueueInv /\ [QueueNext]_queueVars =>
        [(Poll /\ tail'.state = "watch" /\ tail.clean /\ hand = <<>> /\ Undelivered # {})
           => \E i \in Fresh : clock - journal[i].ts <= StaleAfter]_tail
  BY PollIsRight
<1> QED BY <1>1, <1>2, <1>3, QueueStarts, PTL DEF QueueSpec, AlarmsAreRight, NoFalseAlarm, NothingStagnates

-----------------------------------------------------------------------------
(* Each part keeps its type                                                *)

LEMMA MonitorsStep ==
  ASSUME [MonitorsNext]_monitorsVars
  PROVE  /\ [GuardNext]_guardVars /\ [PaneNext]_paneVars /\ [QueueNext]_queueVars
         /\ [SidecarNext]_sidecarVars /\ [RegisterNext]_registerVars
BY DEF MonitorsNext, monitorsVars

LEMMA PartsAreTyped ==
  ASSUME GuardInv, PaneInv, QueueInv, SidecarInv, RegisterInv
  PROVE  MonitorsTypeOK
<1>1. GuardTypeOK
  <2>1. \A i \in DOMAIN trail : trail[i] \in RowType BY DEF GuardInv, GuardTyped
  <2>2. \A r \in RowType : /\ r.kind \in Terminals \union {"fix_pushed", "pr_watch_pane_started"}
                           /\ r.repo \in Repos
                           /\ r.commit \in Heads \union {Unread} /\ r.truth \in Heads \union {Unread}
    BY DEF RowType
  <2> QED BY <2>1, <2>2 DEF GuardInv, GuardTyped, GuardTypeOK
<1>2. PaneTypeOK
  <2>1. born \in Nat /\ born <= MaxSpawns /\ MaxSpawns \in Nat
    BY WatchPaneAssumption DEF PaneInv, ShownTyped
  <2>2. 1..born \subseteq 1..MaxSpawns BY <2>1
  <2> QED BY <2>2 DEF PaneInv, ShownTyped, CallTyped, PaneTypeOK
<1>3. QueueTypeOK BY QueueIsTyped
<1>4. SidecarTypeOK BY DEF SidecarInv
<1>5. RegisterTypeOK BY DEF RegisterInv, Command, Sound, RegisterTypeOK
<1> QED BY <1>1, <1>2, <1>3, <1>4, <1>5 DEF MonitorsTypeOK

\* Whatever overlaps, crashes, comes late or starts again, each part's state keeps its type:
\* the rows of the journal, the panes, the broker's queue and its watcher's counts, the pid
\* file and the register of decisions.
THEOREM MonitorsTyped == MonitorsSpec => []MonitorsTypeOK
<1>1. MonitorsInit => GuardInit /\ PaneInit /\ QueueInit /\ SidecarInit /\ RegisterInit
  BY DEF MonitorsInit
<1>2. MonitorsSpec => GuardSpec /\ PaneSpec /\ QueueSpec /\ SidecarSpec /\ RegisterSpec
  BY <1>1, MonitorsStep, PTL
     DEF MonitorsSpec, GuardSpec, PaneSpec, QueueSpec, SidecarSpec, RegisterSpec
<1>3. QueueSpec => []QueueInv
  <2>1. QueueInv /\ [QueueNext]_queueVars => QueueInv' BY QueueKeeps, QueueStands
  <2> QED BY <2>1, QueueStarts, PTL DEF QueueSpec
<1> QED BY <1>2, <1>3, PartsAreTyped, GuardInvariant, PaneInvariant, SidecarInvariant,
           RegisterInvariant, PTL
=============================================================================
