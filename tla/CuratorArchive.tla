--------------------------- MODULE CuratorArchive ---------------------------
(***************************************************************************)
(* The curator's archive of worker directories, state_db/curator_archive:  *)
(* a directory is moved first and its row updated then, and the move is    *)
(* taken back when the row cannot be.  Two curators may run, and either    *)
(* may die anywhere.                                                       *)
(***************************************************************************)
EXTENDS Naturals, FiniteSets

CONSTANTS Curators, WorkerDirs

ASSUME CuratorAssumption == {"target", "none"} \cap WorkerDirs = {}

\* Every directory of the instance has the same name in another project, so that all have
\* one target.
Places == WorkerDirs \union {"target"}

VARIABLES place,   \* place[p]: the directory at a path, a part of one, or nothing
          dirRow,  \* worker_dirs: the path and the lifecycle of each directory
          device,  \* whether the archive is on another device
          curator, \* curator[c]: the process
          adrift   \* directories whose curator died between the move and the row

curatorVars == <<place, dirRow, device, curator, adrift>>

Off == [pc |-> "off", todo |-> {}, dir |-> "none"]
Vacant == [dir |-> "none", whole |-> FALSE]
Whole(d) == [dir |-> d, whole |-> TRUE]
There(p) == place[p] # Vacant

Step(c, pc) == curator' = [curator EXCEPT ![c].pc = pc]
TakeNext(c) == curator' = [curator EXCEPT ![c].pc = "next", ![c].dir = "none"]

\* The human marks a directory for deletion, or takes that back.
MarkForDeletion(d) ==
  /\ dirRow[d].life \in {"active", "delete_pending"}
  /\ dirRow' = [dirRow EXCEPT ![d].life = IF @ = "active" THEN "delete_pending" ELSE "active"]
  /\ UNCHANGED <<place, device, curator, adrift>>

SelectArchiveCandidates(c) ==
  /\ curator[c].pc = "off"
  /\ \E old \in SUBSET {d \in WorkerDirs : dirRow[d] = [path |-> d, life |-> "active"] /\ There(d)} :
       curator' = [curator EXCEPT ![c] = [pc |-> "next", todo |-> old, dir |-> "none"]]
  /\ UNCHANGED <<place, dirRow, device, adrift>>

\* A directory that is gone is passed over; a target that is taken ends the command.
Look(c) ==
  /\ curator[c].pc = "next"
  /\ IF curator[c].todo = {} THEN curator' = [curator EXCEPT ![c] = Off]
     ELSE \E d \in curator[c].todo :
            curator' = [curator EXCEPT ![c] =
              IF ~There(d) THEN [curator[c] EXCEPT !.todo = @ \ {d}]
              ELSE IF There("target") THEN Off
              ELSE [pc |-> "move", todo |-> curator[c].todo \ {d}, dir |-> d]]
  /\ UNCHANGED <<place, dirRow, device, adrift>>

\* Mutant: the copy goes on into what is there.
CanMoveInto(d) == There(d)

\* Neither a rename nor a copy goes into what another one has put there since.
CanMove(d) == There(d) /\ ~There("target")

Move(c) ==
  LET d == curator[c].dir IN
  /\ curator[c].pc = "move"
  /\ IF ~CanMove(d) THEN curator' = [curator EXCEPT ![c] = Off] /\ UNCHANGED place
     ELSE IF device
     THEN place' = [place EXCEPT !["target"] = place[d]] /\ Step(c, "remove")
     ELSE place' = [place EXCEPT !["target"] = place[d], ![d] = Vacant] /\ Step(c, "row")
  /\ UNCHANGED <<dirRow, device, adrift>>

RemoveSource(c) ==
  /\ curator[c].pc = "remove"
  /\ place' = [place EXCEPT ![curator[c].dir] = Vacant]
  /\ Step(c, "row")
  /\ UNCHANGED <<dirRow, device, adrift>>

\* The row, or, when the database refuses, the directory back to where it was.
UpdateRow(c) ==
  LET d == curator[c].dir IN
  /\ curator[c].pc = "row"
  /\ \/ /\ dirRow' = IF dirRow[d].path = d
                     THEN [dirRow EXCEPT ![d] = [path |-> "target", life |-> "archived"]] ELSE dirRow
        /\ TakeNext(c) /\ UNCHANGED place
     \/ /\ place' = [place EXCEPT !["target"] = Vacant, ![d] = place["target"]]
        /\ curator' = [curator EXCEPT ![c] = Off] /\ UNCHANGED dirRow
  /\ UNCHANGED <<device, adrift>>

SelectPurgeCandidates(c) ==
  /\ curator[c].pc = "off"
  /\ curator' = [curator EXCEPT ![c] =
                   [Off EXCEPT !.pc = "purge", !.todo = {d \in WorkerDirs : dirRow[d].life = "delete_pending"}]]
  /\ UNCHANGED <<place, dirRow, device, adrift>>

Purge(c) ==
  /\ curator[c].pc = "purge"
  /\ IF curator[c].todo = {} THEN curator' = [curator EXCEPT ![c] = Off] /\ UNCHANGED place
     ELSE \E d \in curator[c].todo :
            /\ place' = [place EXCEPT ![d] = Vacant]
            /\ curator' = [curator EXCEPT ![c] = [pc |-> "forget", todo |-> @.todo \ {d}, dir |-> d]]
  /\ UNCHANGED <<dirRow, device, adrift>>

\* The row of that path, whatever its lifecycle is by then.
Forget(c) ==
  LET d == curator[c].dir IN
  /\ curator[c].pc = "forget" /\ Step(c, "purge")
  /\ dirRow' = IF dirRow[d].path = d THEN [dirRow EXCEPT ![d] = [path |-> "none", life |-> "purged"]]
               ELSE dirRow
  /\ UNCHANGED <<place, device, adrift>>

\* A curator dies, perhaps in the middle of a copy or of a removal.
Dies(c) ==
  LET d == curator[c].dir IN
  /\ curator[c].pc # "off" /\ curator' = [curator EXCEPT ![c] = Off]
  /\ adrift' = IF curator[c].pc \in {"move", "remove", "row", "forget"} THEN adrift \union {d} ELSE adrift
  /\ \/ UNCHANGED place
     \/ /\ curator[c].pc = "move" /\ device /\ CanMove(d)
        /\ place' = [place EXCEPT !["target"] = [dir |-> d, whole |-> FALSE]]
     \/ curator[c].pc = "remove" /\ place' = [place EXCEPT ![d] = [dir |-> d, whole |-> FALSE]]
  /\ UNCHANGED <<dirRow, device>>

CuratorInit ==
  /\ place = [p \in Places |-> IF p \in WorkerDirs THEN Whole(p) ELSE Vacant]
  /\ dirRow = [d \in WorkerDirs |-> [path |-> d, life |-> "active"]]
  /\ device \in BOOLEAN /\ curator = [c \in Curators |-> Off] /\ adrift = {}

CuratorNext ==
  \/ \E d \in WorkerDirs : MarkForDeletion(d)
  \/ \E c \in Curators : \/ SelectArchiveCandidates(c) \/ Look(c) \/ Move(c) \/ RemoveSource(c)
                         \/ UpdateRow(c) \/ SelectPurgeCandidates(c) \/ Purge(c) \/ Forget(c) \/ Dies(c)

CuratorSpec == CuratorInit /\ [][CuratorNext]_curatorVars

CuratorTypeOK ==
  /\ \A p \in Places : place[p].dir \in WorkerDirs \union {"none"}
  /\ \A d \in WorkerDirs : dirRow[d].path \in {d, "target", "none"}
  /\ \A c \in Curators : curator[c].todo \subseteq WorkerDirs

\* A directory that was never marked for deletion while a purge began is whole somewhere,
\* and where its row says, unless its curator died or is in the middle of the move.
Moving(d) == \E c \in Curators : curator[c].dir = d
RowsFindTheirDirs ==
  \A d \in WorkerDirs \ adrift :
    dirRow[d].path \in Places /\ ~Moving(d) => place[dirRow[d].path] = Whole(d)
NothingIsLost ==
  \A d \in WorkerDirs : dirRow[d].life = "archived" => \E p \in Places : place[p] = Whole(d)
ArchiveIsSafe == RowsFindTheirDirs /\ NothingIsLost
=============================================================================
