------------------------ MODULE MCAttendanceSessions ------------------------
(* TLC instance of AttendanceSessions.                                     *)
EXTENDS AttendanceSessions, TLC

\* Administrators are interchangeable: no action or property names one.
AdminSymmetry == Permutations(Admins)
=============================================================================
