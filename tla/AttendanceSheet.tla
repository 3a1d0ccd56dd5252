--------------------------- MODULE AttendanceSheet ---------------------------
(***************************************************************************)
(* What the attendance sessions promise, without versions, locks, rows or  *)
(* fingerprints: every period has a sheet that is filed once and revised   *)
(* afterwards only by somebody who is looking at its present content.      *)
(* AttendanceSessions implements this specification (Sheet!Spec there).    *)
(***************************************************************************)
EXTENDS Integers

CONSTANTS Periods, Students, Clients

VARIABLES
  sheet,   \* [Periods -> [filed: BOOLEAN, absent: SUBSET Students]]
  view     \* [Clients -> the sheet a client looks at, as it was then, or Nothing]

vars == <<sheet, view>>

Sheet == [filed: BOOLEAN, absent: SUBSET Students]
Nothing == [period |-> "none", absent |-> {}]

Init == /\ sheet = [p \in Periods |-> [filed |-> FALSE, absent |-> {}]]
        /\ view = [c \in Clients |-> Nothing]

\* A client looks at a sheet as it is now, or stops looking.
Look(c, p) == /\ view' = [view EXCEPT ![c] = [period |-> p, absent |-> sheet[p].absent]]
              /\ UNCHANGED sheet
LookAway(c) == view' = [view EXCEPT ![c] = Nothing] /\ UNCHANGED sheet

\* The sheet is filed, whatever was seen of it before.
File(c, p, absent) ==
  /\ ~sheet[p].filed
  /\ sheet' = [sheet EXCEPT ![p] = [filed |-> TRUE, absent |-> absent]]
  /\ view' = [view EXCEPT ![c] = Nothing]

\* A filed sheet is revised by a client that sees its present content.
Revise(c, p, absent) ==
  /\ sheet[p].filed
  /\ view[c] = [period |-> p, absent |-> sheet[p].absent]
  /\ sheet' = [sheet EXCEPT ![p].absent = absent]
  /\ view' = [view EXCEPT ![c] = Nothing]

Next == \E c \in Clients :
  \/ LookAway(c)
  \/ \E p \in Periods :
       \/ Look(c, p)
       \/ \E absent \in SUBSET Students : File(c, p, absent) \/ Revise(c, p, absent)

Spec == Init /\ [][Next]_vars
=============================================================================
