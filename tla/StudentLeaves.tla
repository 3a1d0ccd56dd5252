---------------------------- MODULE StudentLeaves ----------------------------
(***************************************************************************)
(* The leaves of one student and the gate                                  *)
(* (backend/student_leaves/services.py).                                   *)
(*                                                                         *)
(* The office records and cancels leaves, guards confirm exits on several  *)
(* devices.  Cancelling and confirming lock the row of the leave, check it *)
(* and save.                                                               *)
(***************************************************************************)
EXTENDS Integers, FiniteSets

CONSTANTS
  Leaves,    \* StudentLeavePermissions
  Desk,      \* requests of the office and of the guards' devices
  LeaveDays  \* bound: days

ASSUME LeaveBounds == LeaveDays \in Nat \ {0}

VARIABLES
  leaves,  \* [Leaves -> the row]
  intent,  \* [Desk -> the rows that the request holds and what it is about to save]
  today

leaveVars == <<leaves, intent, today>>

\* released: the StudentGateRelease of the leave, one to one.
Leave == [status: {"none", "ACTIVE", "CANCELLED"}, day: 0..LeaveDays, released: BOOLEAN]

NoIntent == [op |-> "none", held |-> {}]

LeaveInit ==
  /\ leaves = [l \in Leaves |-> [status |-> "none", day |-> 0, released |-> FALSE]]
  /\ intent = [d \in Desk |-> NoIntent] /\ today = 1

\* Mutant: an exit that was confirmed makes room for another leave.
Standing_Unreleased(row) == row.status = "ACTIVE" /\ ~row.released

\* The unique constraint on the active leave of a student and day.
Standing(row) == row.status = "ACTIVE"

\* record_student_leave.
RecordLeave(l, day) ==
  /\ leaves[l].status = "none" /\ day <= today
  /\ \A k \in Leaves : ~(Standing(leaves[k]) /\ leaves[k].day = day)
  /\ leaves' = [leaves EXCEPT ![l] = [status |-> "ACTIVE", day |-> day, released |-> FALSE]]
  /\ UNCHANGED <<intent, today>>

\* Mutant: the row is read without a lock.
RowFree_Always(l) == TRUE

RowFree(l) == \A d \in Desk : l \notin intent[d].held

\* cancel_student_leave and confirm_gate_release up to their checks.
Examine(d, l, op) ==
  /\ intent[d] = NoIntent /\ RowFree(l)
  /\ leaves[l].status = "ACTIVE" /\ ~leaves[l].released
  /\ op = "release" => leaves[l].day = today
  /\ intent' = [intent EXCEPT ![d] = [op |-> op, held |-> {l}]]
  /\ UNCHANGED <<leaves, today>>

\* Mutant: the exit is written into the status.
Saved_Status(row, op) == [row EXCEPT !.status = IF op = "cancel" THEN "CANCELLED" ELSE "RELEASED"]

Saved(row, op) == IF op = "cancel" THEN [row EXCEPT !.status = "CANCELLED"]
                  ELSE [row EXCEPT !.released = TRUE]

Conclude(d, l) ==
  /\ l \in intent[d].held
  /\ leaves' = [leaves EXCEPT ![l] = Saved(@, intent[d].op)]
  /\ intent' = [intent EXCEPT ![d] = NoIntent]
  /\ UNCHANGED today

Midnight ==
  /\ today < LeaveDays
  /\ today' = today + 1
  /\ UNCHANGED <<leaves, intent>>

LeaveNext ==
  \/ \E l \in Leaves, day \in 1..LeaveDays : RecordLeave(l, day)
  \/ \E d \in Desk, l \in Leaves :
       Conclude(d, l) \/ \E op \in {"cancel", "release"} : Examine(d, l, op)
  \/ Midnight

LeaveSpec == LeaveInit /\ [][LeaveNext]_leaveVars

-----------------------------------------------------------------------------
\* The types of the leaves and of the requests.
LeaveTypeOK ==
  /\ leaves \in [Leaves -> Leave] /\ today \in 1..LeaveDays
  /\ intent \in [Desk -> [op: {"none", "cancel", "release"}, held: SUBSET Leaves]]

\* Whatever the office and the guards' devices do at the same moment, a student who
\* left holds a leave that stands.
LeftWithLeave == \A l \in Leaves : leaves[l].released => leaves[l].status = "ACTIVE"

\* A student leaves once a day: neither two devices nor a second leave record
\* another exit.
OneExit ==
  \A k, l \in Leaves : leaves[k].released /\ leaves[l].released /\ leaves[k].day = leaves[l].day
                         => k = l

\* What the office and the gate leave: an exit has a leave that stands, one a day.
LeavesInvariant == LeftWithLeave /\ OneExit
=============================================================================
