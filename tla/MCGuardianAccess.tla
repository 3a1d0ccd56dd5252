-------------------------- MODULE MCGuardianAccess --------------------------
(* A small instance of GuardianAccess for TLC. *)
EXTENDS GuardianAccess, TLC

RowSymmetry == UNION {Permutations(S) : S \in {Students, Applications, Links}}
=============================================================================
