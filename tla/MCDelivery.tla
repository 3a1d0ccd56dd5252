---------------------------- MODULE MCDelivery ------------------------------
(* Instances of AbsenceSms, RecoveryEmail and RosterSync.  They share no     *)
(* row, so one behaviour takes the steps of one of them.                     *)
EXTENDS AbsenceSms, RecoveryEmail, RosterSync, TLC

VARIABLE turn

vars == <<smsVars, mailVars, rosterVars, turn>>

Init ==
  /\ turn \in {"sms", "mail", "roster", "managers"}
  /\ SmsInit /\ MailInit /\ RosterInit
  /\ turn \in {"sms", "mail"} => DOMAIN users = {} /\ mapped = {}

\* Bounds of the synchronisation: a second analysis, a change and a fault in one
\* behaviour, and requests of the managers that overlap, are met one at a time.
Requests == {m \in Managers : manager[m] # Unoccupied}
Events == rosterChanges + rosterFaults
OneByOne == Cardinality(Requests) <= 1 /\ (Len(jobs) <= 1 \/ Events <= 1)
Overlapped == Len(jobs) <= 1 /\ Events <= 1

Next ==
  /\ UNCHANGED turn
  /\ \/ turn = "sms" /\ SmsNext /\ UNCHANGED <<mailVars, rosterVars>>
     \/ turn = "mail" /\ MailNext /\ UNCHANGED <<smsVars, rosterVars>>
     \/ turn = "roster" /\ RosterNext /\ OneByOne' /\ UNCHANGED <<smsVars, mailVars>>
     \/ turn = "managers" /\ RosterNext /\ Overlapped' /\ UNCHANGED <<smsVars, mailVars>>

Spec == Init /\ [][Next]_vars

\* The instance gives sets of different components the same model values.
Interchangeable == UNION {Permutations(S) : S \in {Providers, Mobiles, Deliveries, Titles}}

\* The types of the three components.
DeliveryTypeOK == SmsTypeOK /\ MailTypeOK /\ RosterTypeOK

\* What no step may undo, whoever acts: no command reaches a device unless its job was
\* compared with the device after its approval or had its items replaced by a late
\* analysis, a link dies with the secret it was made for, and neither users a device
\* knows without us nor items that succeeded are touched again, but for the items a
\* request had read before it was overtaken.
DeliveryKept == [][NoBlindWrite']_rosterVars /\ ChangeEndsLinks /\ RosterKept
=============================================================================
