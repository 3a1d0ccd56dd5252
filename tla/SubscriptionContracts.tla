------------------------ MODULE SubscriptionContracts ------------------------
(***************************************************************************)
(* The contracts of one school with the platform                           *)
(* (backend/subscriptions/services/subscriptions.py, access.py).           *)
(*                                                                         *)
(* start_trial and activate lock the row of the school before they read;   *)
(* the other operations choose the newest contract, wait for its row and   *)
(* work on it.  Each of them writes a SubscriptionEvent, whose foreign key *)
(* waits for a lock on the school.  The scheduled sync_expirations reads   *)
(* the contracts without a lock and saves them one by one.                 *)
(***************************************************************************)
EXTENDS Integers, Sequences, FiniteSets

CONSTANTS
  Admins,        \* requests of the platform's administrators
  MaxContracts,  \* bound
  LastDay,       \* bound of the clock
  LastEnd        \* bound of the end of a contract

ASSUME SubBounds == {MaxContracts, LastDay, LastEnd} \subseteq Nat /\ 1 <= LastDay /\ LastDay < LastEnd

VARIABLES
  contracts,  \* SchoolSubscriptions, the newest last
  actions,    \* [Admins -> the operation of the request]
  expiring,   \* the contracts that sync_expirations still saves as EXPIRED
  now         \* the day

subVars == <<contracts, actions, expiring, now>>

LiveStatuses == {"TRIAL", "ACTIVE"}
Offers == {"free", "paid"}

\* trial: trial_ends_at, 0 when the contract is no trial; suspended: suspended_at is
\* set; granted: ghost, the end that a paid contract was created with
\* and every extension since.
Contract == [status: LiveStatuses \cup {"EXPIRED", "SUSPENDED", "CANCELLED"},
             plan: Offers, wasFree: BOOLEAN, trial: 0..LastEnd, ends: 1..LastEnd,
             suspended: BOOLEAN, granted: Nat]

NoContract == [status |-> "none"]

\* at: the time that activate read; seen: the row once its lock is held.
NoAction == [op |-> "none", plan |-> "paid", row |-> 0, at |-> 0, seen |-> NoContract]

SubInit ==
  /\ contracts = <<>> /\ actions = [q \in Admins |-> NoAction]
  /\ expiring = {} /\ now = 1

-----------------------------------------------------------------------------
Opening == {"start_trial", "activate"}

\* _lock_school: FOR UPDATE, held to the end of start_trial and activate.
SchoolFree == \A q \in Admins : actions[q].op \notin Opening

\* Mutant: the events do not reference the school.
Referable_Always == TRUE

\* log_event inserts a row whose foreign key takes KEY SHARE on the school.
Referable == SchoolFree

\* Mutant: the newest contract is read without FOR UPDATE.
RowUnlocked_Always(c) == TRUE

RowUnlocked(c) == \A q \in Admins : ~(actions[q].row = c /\ actions[q].seen # NoContract)

\* effective_status; grace_ends_at is never set by the code.
Effective(row, day) ==
  IF row.status \in LiveStatuses /\ day >= (IF row.status = "TRIAL" THEN row.trial ELSE row.ends)
  THEN "EXPIRED" ELSE row.status

\* _require_free_plan_available.
OfferAvailable(plan) == plan = "free" => \A c \in DOMAIN contracts : ~contracts[c].wasFree

\* Mutant: no unique constraint on the live contract of a school.
Unique_Always(rows) == TRUE

Unique(rows) == Cardinality({c \in DOMAIN rows : rows[c].status \in LiveStatuses}) <= 1

Newest == Len(contracts)

Enter(q, op, plan, row) ==
  /\ actions[q] = NoAction
  /\ actions' = [actions EXCEPT ![q] = [NoAction EXCEPT !.op = op, !.plan = plan, !.row = row,
                                      !.at = IF op = "activate" THEN now ELSE 0]]
  /\ UNCHANGED <<contracts, expiring, now>>

CommitAction(q, rows) ==
  /\ Unique(rows)
  /\ contracts' = rows
  /\ actions' = [actions EXCEPT ![q] = NoAction]
  /\ UNCHANGED <<expiring, now>>

\* An error, a refusal, or the deadlock of activate with another operation, which
\* the database breaks.
RollBack(q) ==
  /\ actions[q] # NoAction
  /\ actions' = [actions EXCEPT ![q] = NoAction]
  /\ UNCHANGED <<contracts, expiring, now>>

-----------------------------------------------------------------------------
(* start_trial and activate.                                               *)

Opened(status, plan, start) ==
  [status |-> status, plan |-> plan, wasFree |-> plan = "free", suspended |-> FALSE,
   trial |-> IF status = "TRIAL" THEN start + 1 ELSE 0, ends |-> start + 1,
   granted |-> IF status = "TRIAL" THEN 0 ELSE start + 1]

\* The prior contract of the school, closed when it still counts as live.
Closed(rows) ==
  [c \in DOMAIN rows |->
     IF c = Len(rows) /\ rows[c].status \in LiveStatuses
     THEN [rows[c] EXCEPT !.status = "EXPIRED"] ELSE rows[c]]

StartTrialCheck(q, plan) ==
  /\ SchoolFree /\ Newest < MaxContracts /\ OfferAvailable(plan)
  /\ Newest > 0 => Effective(contracts[Newest], now) \notin LiveStatuses
  /\ Enter(q, "start_trial", plan, 0)

\* The save of the prior contract waits for its row.
StartTrialSave(q) ==
  /\ actions[q].op = "start_trial" /\ RowUnlocked(Newest)
  /\ CommitAction(q, Append(Closed(contracts), Opened("TRIAL", actions[q].plan, now)))

ActivateCheck(q, plan) ==
  /\ SchoolFree /\ Newest < MaxContracts /\ OfferAvailable(plan)
  /\ Enter(q, "activate", plan, Newest)

ActivateSave(q) ==
  /\ actions[q].op = "activate" /\ (actions[q].row = 0 \/ actions[q].seen # NoContract)
  /\ CommitAction(q, Append(Closed(contracts), Opened("ACTIVE", actions[q].plan, actions[q].at)))

-----------------------------------------------------------------------------
(* The operations on the newest contract.                                  *)

Later(a, b) == IF a > b THEN a ELSE b

\* The conditions under which the operation goes on.
Accepts(act, row) ==
  \/ act.op = "activate" /\ Effective(row, act.at) # "ACTIVE"
  \/ act.op = "extend_trial" /\ row.status = "TRIAL" /\ row.trial < LastEnd
  \/ act.op = "change_plan" /\ row.status \in LiveStatuses /\ row.plan # act.plan
                            /\ OfferAvailable(act.plan)
  \/ act.op = "extend" /\ row.status \notin {"CANCELLED", "SUSPENDED"} /\ row.plan = "paid"
                       /\ row.ends < LastEnd
  \/ act.op = "suspend" /\ row.status # "SUSPENDED"
  \/ act.op = "reactivate" /\ row.status = "SUSPENDED"
  \/ act.op = "cancel" /\ row.status # "CANCELLED"

\* _locked_live: the row is chosen, and locked as soon as no one else holds it.
ChooseNewest(q, op, plan) ==
  /\ actions[q] = NoAction /\ Newest > 0
  /\ LET act == [NoAction EXCEPT !.op = op, !.plan = plan, !.row = Newest]
         row == contracts[Newest]
     IN /\ RowUnlocked(Newest) => Accepts(act, row)
        /\ actions' = [actions EXCEPT ![q] = IF RowUnlocked(Newest)
                                             THEN [act EXCEPT !.seen = row] ELSE act]
  /\ UNCHANGED <<contracts, expiring, now>>

\* The wait of ChooseNewest or of activate is over.
LockRow(q) ==
  /\ actions[q].row > 0 /\ actions[q].seen = NoContract /\ RowUnlocked(actions[q].row)
  /\ Accepts(actions[q], contracts[actions[q].row])
  /\ actions' = [actions EXCEPT ![q].seen = contracts[actions[q].row]]
  /\ UNCHANGED <<contracts, expiring, now>>

Applied(act, row) ==
  CASE act.op = "extend_trial" -> [row EXCEPT !.trial = @ + 1, !.ends = row.trial + 1]
    [] act.op = "change_plan" -> [row EXCEPT !.plan = act.plan,
                                             !.wasFree = @ \/ act.plan = "free"]
    [] act.op = "extend" -> [row EXCEPT !.ends = Later(@, now) + 1,
                                        !.status = IF @ = "EXPIRED" THEN "ACTIVE" ELSE @]
    [] act.op = "suspend" -> [row EXCEPT !.status = "SUSPENDED", !.suspended = TRUE]
    [] act.op = "reactivate" -> [row EXCEPT !.status = IF row.ends > now THEN "ACTIVE"
                                                       ELSE "EXPIRED",
                                            !.suspended = FALSE]
    [] act.op = "cancel" -> [row EXCEPT !.status = "CANCELLED"]

SaveRow(q) ==
  /\ actions[q].op \notin Opening /\ actions[q].seen # NoContract /\ Referable
  /\ LET r == actions[q].row
         promised == contracts[r].granted + (IF actions[q].op = "extend" /\ contracts[r].trial = 0
                                             THEN 1 ELSE 0)
     IN CommitAction(q, [contracts EXCEPT ![r] = [Applied(actions[q], actions[q].seen)
                                              EXCEPT !.granted = promised]])

-----------------------------------------------------------------------------
(* sync_expirations and the clock.                                         *)

SyncRead ==
  /\ expiring = {}
  /\ expiring' = {c \in DOMAIN contracts : /\ contracts[c].status \in LiveStatuses
                                           /\ Effective(contracts[c], now) = "EXPIRED"}
  /\ expiring' # {}
  /\ UNCHANGED <<contracts, actions, now>>

\* Mutant: an ended contract is stored as in its grace period.
SyncedStatus_Grace == "GRACE_PERIOD"

SyncedStatus == "EXPIRED"

SyncSave(c) ==
  /\ c \in expiring /\ RowUnlocked(c)
  /\ contracts' = [contracts EXCEPT ![c].status = SyncedStatus]
  /\ expiring' = expiring \ {c}
  /\ UNCHANGED <<actions, now>>

NextDay ==
  /\ now < LastDay
  /\ now' = now + 1
  /\ UNCHANGED <<contracts, actions, expiring>>

SubNext ==
  \/ \E q \in Admins :
       \/ \E plan \in Offers : StartTrialCheck(q, plan) \/ ActivateCheck(q, plan)
                               \/ ChooseNewest(q, "change_plan", plan)
       \/ \E op \in {"extend_trial", "extend", "suspend", "reactivate", "cancel"} :
            ChooseNewest(q, op, "paid")
       \/ StartTrialSave(q) \/ ActivateSave(q) \/ LockRow(q) \/ SaveRow(q) \/ RollBack(q)
  \/ SyncRead \/ \E c \in expiring : SyncSave(c)
  \/ NextDay

SubSpec == SubInit /\ [][SubNext]_subVars

-----------------------------------------------------------------------------
(* Properties.                                                             *)

\* The types of the contracts and of the requests.
SubTypeOK ==
  /\ contracts \in Seq(Contract) /\ Newest <= MaxContracts /\ now \in 1..LastDay
  /\ expiring \subseteq DOMAIN contracts
  /\ \A q \in Admins : actions[q].row \in 0..Newest
                       /\ actions[q].seen \in Contract \cup {NoContract}

\* Whatever trials, activations, extensions and reactivations meet, a school never
\* holds two live contracts.
OneLiveContract ==
  \A c, d \in DOMAIN contracts :
    {contracts[c].status, contracts[d].status} \subseteq LiveStatuses => c = d

\* A school uses the free plan once in its history, although change_plan reads that
\* history without the lock of the school.
FreeOnce == \A c, d \in DOMAIN contracts : contracts[c].wasFree /\ contracts[d].wasFree => c = d

\* Extensions of two administrators add up: a paid contract ends no earlier than it
\* was sold and extended for.
ExtensionsAddUp ==
  \A c \in DOMAIN contracts : contracts[c].trial = 0 => contracts[c].ends >= contracts[c].granted

\* SUBSCRIPTIONS.md: concurrent renewal cannot lose an extension.  The current
\* contract is not stored as expired when it has been extended beyond today.
ExtensionCounts ==
  Newest > 0 /\ contracts[Newest].status = "EXPIRED" /\ contracts[Newest].trial = 0
    => contracts[Newest].ends <= now

\* What administrators who act at the same moment leave: one live contract, one use of
\* the free plan, and every extension.
ContractsInvariant == OneLiveContract /\ FreeOnce /\ ExtensionsAddUp
=============================================================================
