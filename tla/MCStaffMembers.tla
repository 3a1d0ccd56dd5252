--------------------------- MODULE MCStaffMembers ---------------------------
(* A small instance of StaffMembers for TLC; the imports of teachers, which  *)
(* multiply the states, are those of schools without vice principals.        *)
EXTENDS StaffMembers, TLC

MCStaffInit ==
  /\ StaffInit
  /\ \/ Cardinality(accounts) >= 2 /\ \A j \in StaffJobs : staffJobs[j] = NoStaffJob
     \/ Cardinality(accounts) <= 1 /\ \A p \in People : staff[p] \in {Stranger, AManager}

MCStaffSpec == MCStaffInit /\ [][StaffNext]_staffVars

PeopleAlike == Permutations(People) \cup Permutations(Tabs)
=============================================================================
