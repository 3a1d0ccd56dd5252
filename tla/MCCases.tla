------------------------------ MODULE MCCases -------------------------------
(* Instances of StudentReferrals, CounselorCases, StudentLeaves,             *)
(* FamilyRequests, FamilyInbox and AccountRecovery.  They share no row, so   *)
(* one behaviour takes the steps of one of them.                             *)
EXTENDS StudentReferrals, CounselorCases, StudentLeaves, FamilyRequests, FamilyInbox,
        AccountRecovery, TLC

VARIABLE turn

vars == <<refVars, caseVars, leaveVars, familyVars, inboxVars, recVars, turn>>

Init ==
  /\ turn \in {"referrals", "cases", "leaves", "family", "inbox", "recovery"}
  /\ RefInit /\ CaseInit /\ LeaveInit /\ FamilyInit /\ InboxInit /\ RecInit
  /\ turn # "cases" => received = {}
  /\ turn # "family" => absences = {}

Next ==
  /\ UNCHANGED turn
  /\ \/ /\ turn = "referrals" /\ RefNext
        /\ UNCHANGED <<caseVars, leaveVars, familyVars, inboxVars, recVars>>
     \/ /\ turn = "cases" /\ CaseNext
        /\ UNCHANGED <<refVars, leaveVars, familyVars, inboxVars, recVars>>
     \/ /\ turn = "leaves" /\ LeaveNext
        /\ UNCHANGED <<refVars, caseVars, familyVars, inboxVars, recVars>>
     \/ /\ turn = "family" /\ FamilyNext
        /\ UNCHANGED <<refVars, caseVars, leaveVars, inboxVars, recVars>>
     \/ /\ turn = "inbox" /\ InboxNext
        /\ UNCHANGED <<refVars, caseVars, leaveVars, familyVars, recVars>>
     \/ /\ turn = "recovery" /\ RecNext
        /\ UNCHANGED <<refVars, caseVars, leaveVars, familyVars, inboxVars>>

Spec == Init /\ [][Next]_vars

\* The instance gives sets of different components the same model values.
Interchangeable == UNION {Permutations(S) : S \in {Teachers, Vices, Counselors}}

\* The types of the six components.
CasesTypeOK ==
  RefTypeOK /\ CaseTypeOK /\ LeaveTypeOK /\ FamilyTypeOK /\ InboxTypeOK /\ RecTypeOK

\* Referrals and the counselors' files; what guardians ask for and are told.
CounselingInvariant == ReferralsInvariant /\ FilesInvariant
PortalInvariant == RequestsInvariant /\ InboxInvariant

\* What has been closed, decided or opened stays so, whatever a request that read it
\* earlier does later: referrals, requests of guardians, recovery cases and files.
EndedRests == EndedStays /\ DecidedStays /\ ClosedCaseRests /\ OpenedOnce
=============================================================================
