--------------------------- MODULE MCDeviceIngest ---------------------------
(* Times are half minutes.                                                 *)
EXTENDS DeviceIngest, TLC
MCEvents == {0, 4, 8}
MCMalformed == {8}

\* The staff map identities but type no arrival: MCSchool has the whole component.
DrainNext == Next /\ \A m \in Managers : manager'[m].pc \notin {"create", "correct"}
DrainSpec == Init /\ [][DrainNext]_vars /\ Fairness
=============================================================================
