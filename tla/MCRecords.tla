----------------------------- MODULE MCRecords ------------------------------
(* Instances of StudentWarnings, DailySummary, SubscriptionContracts and     *)
(* EntitlementCache.  They share no row, so one behaviour takes the steps of *)
(* one of them.                                                              *)
EXTENDS StudentWarnings, DailySummary, SubscriptionContracts, EntitlementCache, TLC

VARIABLE turn

TwoLevels == <<1, 3>>

RecordsVars == <<vars, summaryVars, subVars, cacheVars, turn>>

RecordsInit ==
  /\ turn \in {"warnings", "summary", "contracts", "cache"}
  /\ Init /\ SummaryInit /\ SubInit /\ CacheInit

RecordsNext ==
  /\ UNCHANGED turn
  /\ \/ turn = "warnings" /\ Next /\ UNCHANGED <<summaryVars, subVars, cacheVars>>
     \/ turn = "summary" /\ SummaryNext /\ UNCHANGED <<vars, subVars, cacheVars>>
     \/ turn = "contracts" /\ SubNext /\ UNCHANGED <<vars, summaryVars, cacheVars>>
     \/ turn = "cache" /\ CacheNext /\ UNCHANGED <<vars, summaryVars, subVars>>

RecordsSpec == RecordsInit /\ [][RecordsNext]_RecordsVars

\* The instance gives sets of different components the same model values.
Interchangeable == UNION {Permutations(S) : S \in {Days, Warnings, Workers}}

\* The types of the four components.
RecordsTypeOK == TypeOK /\ SummaryTypeOK /\ SubTypeOK

\* What no step may spoil: limits are cached under no version newer than they were read
\* at, the snapshot of a warning stands, and overlapping corrections leave no warning
\* without support.
RecordsKept == [][KeyNotOlder']_cacheVars /\ WarningsKept
=============================================================================
