-------------------------- MODULE MCExcuseCoverage --------------------------
(* TLC instance of ExcuseCoverage.                                         *)
EXTENDS ExcuseCoverage, TLC

\* Threads are interchangeable, and so are excuses: ties between excuses are
\* broken by approvedAt, which differs.
CoverageSymmetry == Permutations(Workers) \cup Permutations(Excuses)
=============================================================================
