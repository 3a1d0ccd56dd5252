--------------------------- MODULE StudentWarnings ---------------------------
(***************************************************************************)
(* The warnings of one student for unexcused full-day absence in one       *)
(* academic year (backend/student_warnings): the school's rules, issuing,  *)
(* voiding, and the reconciliation that every recalculation of a day runs  *)
(* inside its transaction.                                                 *)
(*                                                                         *)
(* A worker is a request thread.  At READ COMMITTED a query sees what was  *)
(* committed when it started, so issuing, which takes no lock, is one step *)
(* per query whose answer it keeps, and a recalculation is one step up to  *)
(* its SELECT ... FOR UPDATE of the warnings, one that gets the locks, and *)
(* one that commits.                                                       *)
(***************************************************************************)
EXTENDS Integers, FiniteSets

CONSTANTS
  Days,              \* days with a summary row of the student
  Warnings,          \* identities of the StudentWarning rows: a bound
  Workers,           \* request threads
  NumLevels,         \* LEVEL_ORDER has three; fewer keep an instance small
  MaxThreshold,      \* MAX_THRESHOLD is 200: a bound
  DefaultThresholds  \* DEFAULT_THRESHOLDS of the type

Levels == 1..NumLevels

\* _validate_thresholds: a threshold in range for every level, each below the next.
Ascending(t) == \A l \in Levels \ {NumLevels} : t[l] < t[l + 1]
ValidThresholds == {t \in [Levels -> 1..MaxThreshold] : Ascending(t)}

ASSUME BoundsNat == NumLevels \in Nat \ {0} /\ MaxThreshold \in Nat
ASSUME DefaultsValid == DefaultThresholds \in ValidThresholds
ASSUME DaysFinite == IsFiniteSet(Days)

VARIABLES
  counted,  \* days whose committed row matches UNEXCUSED_FULL_DAY_FILTER
  rules,    \* the WarningRule rows: thresholds, and whether the type is enabled
  warning,  \* [Warnings -> row of StudentWarning]
  worker    \* [Workers -> what the request has read]

vars == <<counted, rules, warning, worker>>

Rules == [levels: ValidThresholds, enabled: BOOLEAN]

\* details is detail_rows_snapshot: the days listed in the document.
Warning == [status: {"NONE", "ISSUED", "VOIDED"},
            level: 0..NumLevels, threshold: Nat, metric: Nat, details: SUBSET Days]

\* pc "lock", "commit": recalculate_daily_attendance_for_section; "levels",
\* "metric", "insert": issue_student_warning; "rules": update_rules.
Worker == [pc: {"idle", "lock", "commit", "levels", "metric", "insert", "rules"},
           day: SUBSET Days, counts: BOOLEAN,
           seen: SUBSET Warnings, locked: SUBSET Warnings,
           level: 0..NumLevels, threshold: Nat, metric: Nat,
           old: SUBSET Rules, new: SUBSET Rules]

NoWarning == [status |-> "NONE", level |-> 0, threshold |-> 0, metric |-> 0, details |-> {}]
Idle == [pc |-> "idle", day |-> {}, counts |-> FALSE, seen |-> {}, locked |-> {},
         level |-> 0, threshold |-> 0, metric |-> 0, old |-> {}, new |-> {}]

Init ==
  /\ counted = {}
  /\ rules = [levels |-> DefaultThresholds, enabled |-> TRUE]
  /\ warning = [i \in Warnings |-> NoWarning]
  /\ worker = [w \in Workers |-> Idle]

Issued == {i \in Warnings : warning[i].status = "ISSUED"}

\* The locks a transaction holds until it commits.
WarningFree(i) == \A w \in Workers : worker[w].pc = "commit" => i \notin worker[w].locked
DayFree(d) == \A w \in Workers : d \notin worker[w].day

\* Mutant: the rule rows are read without FOR UPDATE.
RulesFree_Unlocked == Workers # {}

RulesFree == \A w \in Workers : worker[w].pc # "rules"

-----------------------------------------------------------------------------
(* A recalculation writes the row of a day, and so whether the day counts, *)
(* and then calls reconcile_issued_warnings in the same transaction.       *)

\* Up to the start of the SELECT ... FOR UPDATE of the ISSUED warnings.
CorrectDay(w, d, counts) ==
  /\ worker[w].pc = "idle" /\ DayFree(d)
  /\ worker' = [worker EXCEPT ![w] = [Idle EXCEPT !.pc = "lock", !.day = {d},
                                                  !.counts = counts, !.seen = Issued]]
  /\ UNCHANGED <<counted, rules, warning>>

\* The SELECT waits for the holders and looks at the status again.
LockWarnings(w) ==
  /\ worker[w].pc = "lock"
  /\ \A i \in worker[w].seen \cap Issued : WarningFree(i)
  /\ worker' = [worker EXCEPT ![w].pc = "commit", ![w].locked = worker[w].seen \cap Issued]
  /\ UNCHANGED <<counted, rules, warning>>

\* Mutant: the threshold of today's rules decides.
Unsupported_CurrentRules(i, value) == value < rules.levels[warning[i].level]

\* The warning is judged by its own threshold, not by today's rules.
Unsupported(i, value) == value < warning[i].threshold

\* Mutant: the row takes the current value along.
VoidLocked_Rewrites(row, value) == [row EXCEPT !.status = "VOIDED", !.metric = value]

\* Mutant: the status of an excuse is written into the warning.
VoidLocked_Cancelled(row, value) == [row EXCEPT !.status = "CANCELLED"]

\* void_locked_warning keeps the snapshot of the issue; the current value goes
\* into the audit event only.
VoidLocked(row, value) == [row EXCEPT !.status = "VOIDED"]

\* metric_for_students sees the committed rows and the row just written.
CommitDay(w) ==
  LET after == IF worker[w].counts THEN counted \cup worker[w].day
                                   ELSE counted \ worker[w].day
      value == Cardinality(after)
  IN
  /\ worker[w].pc = "commit"
  /\ counted' = after
  /\ warning' = [i \in Warnings |->
       IF i \in worker[w].locked /\ Unsupported(i, value)
       THEN VoidLocked(warning[i], value) ELSE warning[i]]
  /\ worker' = [worker EXCEPT ![w] = Idle]
  /\ UNCHANGED rules

-----------------------------------------------------------------------------
(* issue_student_warning.  Nothing is locked before the INSERT.            *)

\* Bound: a row is left for every request under way.
Room == Cardinality({w \in Workers : worker[w].pc \in {"levels", "metric", "insert"}})
          < Cardinality({i \in Warnings : warning[i].status = "NONE"})

\* get_rules_map: the type is enabled.
IssueStart(w, l) ==
  /\ worker[w].pc = "idle" /\ Room
  /\ rules.enabled
  /\ worker' = [worker EXCEPT ![w] = [Idle EXCEPT !.pc = "levels", !.level = l]]
  /\ UNCHANGED <<counted, rules, warning>>

\* evaluate_student_warning_eligibility reads the rules again, and which levels
\* are ISSUED already ...
IssueLevels(w) ==
  /\ worker[w].pc = "levels"
  /\ IF \E i \in Issued : warning[i].level = worker[w].level
     THEN worker' = [worker EXCEPT ![w] = Idle]
     ELSE worker' = [worker EXCEPT ![w].pc = "metric",
                                   ![w].threshold = rules.levels[worker[w].level]]
  /\ UNCHANGED <<counted, rules, warning>>

\* ... and then the metric: the level is DUE or the request is refused.
IssueMetric(w) ==
  LET value == Cardinality(counted) IN
  /\ worker[w].pc = "metric"
  /\ IF value >= worker[w].threshold
     THEN worker' = [worker EXCEPT ![w].pc = "insert", ![w].metric = value]
     ELSE worker' = [worker EXCEPT ![w] = Idle]
  /\ UNCHANGED <<counted, rules, warning>>

\* Mutant: nothing in the database keeps a level from being issued twice.
LevelTaken_NoConstraint(l) == l \notin Levels

\* uniq_issued_warning_per_scope: a VOIDED warning does not reserve its level.
LevelTaken(l) == \E i \in Issued : warning[i].level = l

\* The days of the snapshot are queried for the INSERT; IntegrityError refuses
\* the second of two requests.
IssueInsert(w) ==
  LET r == worker[w] IN
  /\ r.pc = "insert"
  /\ IF LevelTaken(r.level) THEN UNCHANGED warning
     ELSE \E i \in Warnings :
            /\ warning[i].status = "NONE"
            /\ warning' = [warning EXCEPT ![i] =
                 [status |-> "ISSUED", level |-> r.level, threshold |-> r.threshold,
                  metric |-> r.metric, details |-> counted]]
  /\ worker' = [worker EXCEPT ![w] = Idle]
  /\ UNCHANGED <<counted, rules>>

\* void_student_warning, by the manager.
VoidWarning(i) ==
  /\ i \in Issued /\ WarningFree(i)
  /\ warning' = [warning EXCEPT ![i] = VoidLocked(@, 0)]
  /\ UNCHANGED <<counted, rules, worker>>

-----------------------------------------------------------------------------
(* update_rules.                                                           *)

\* The rule rows are locked and compared with the validated payload.
LockRules(w, new) ==
  /\ worker[w].pc = "idle" /\ RulesFree
  /\ worker' = [worker EXCEPT ![w] = [Idle EXCEPT !.pc = "rules", !.old = {rules}, !.new = {new}]]
  /\ UNCHANGED <<counted, rules, warning>>

\* Only the rows that differ from what was read are written.
WriteRules(w) ==
  /\ worker[w].pc = "rules"
  /\ \E old \in worker[w].old, new \in worker[w].new :
       rules' = [levels |-> [l \in Levels |-> IF old.levels[l] = new.levels[l]
                                              THEN rules.levels[l] ELSE new.levels[l]],
                 enabled |-> IF old.enabled = new.enabled THEN rules.enabled ELSE new.enabled]
  /\ worker' = [worker EXCEPT ![w] = Idle]
  /\ UNCHANGED <<counted, warning>>

-----------------------------------------------------------------------------
WorkerStep(w) ==
  \/ LockWarnings(w) \/ CommitDay(w)
  \/ IssueLevels(w) \/ IssueMetric(w) \/ IssueInsert(w)
  \/ WriteRules(w)

Request(w) ==
  \/ \E d \in Days, counts \in BOOLEAN : CorrectDay(w, d, counts)
  \/ \E l \in Levels : IssueStart(w, l)
  \/ \E new \in Rules : LockRules(w, new)

Next ==
  \/ \E w \in Workers : WorkerStep(w) \/ Request(w)
  \/ \E i \in Warnings : VoidWarning(i)

Spec == Init /\ [][Next]_vars

-----------------------------------------------------------------------------
(* Properties.                                                             *)

\* The types of the rows and of what a request has read.
TypeOK ==
  /\ counted \in SUBSET Days
  /\ rules \in [levels: [Levels -> 1..MaxThreshold], enabled: BOOLEAN]
  /\ warning \in [Warnings -> Warning]
  /\ worker \in [Workers -> Worker]

\* The thresholds of a type ascend from level to level whatever two
\* administrators save at once, although each save writes only the rows it
\* changes.
RulesAscend == Ascending(rules.levels)

\* At most one ISSUED warning per level: a double click, or two administrators
\* at once, issue one.
OneIssuedPerLevel ==
  \A i, j \in Issued : warning[i].level = warning[j].level => i = j

\* A warning is a historical record: what it said when it was issued never
\* changes, it is never deleted, and VOIDED is final.
SnapshotKept ==
  [][\A i \in Warnings :
       warning[i].status # "NONE"
         => /\ warning'[i] = [warning[i] EXCEPT !.status = warning'[i].status]
            /\ warning'[i].status \in {warning[i].status, "VOIDED"}]_vars

Supported(i) == Cardinality(counted) >= warning[i].threshold

\* A correction leaves no warning ISSUED below its own threshold, even when
\* corrections of several days overlap: as long as the corrections under way
\* started after the warning was issued.
SupportKept ==
  [][\A i \in Issued :
       /\ Supported(i)
       /\ \A w \in Workers : worker[w].pc \in {"lock", "commit"} => i \in worker[w].seen
       => i \notin Issued' \/ Supported(i)']_vars

Quiet == \A w \in Workers : worker[w].pc = "idle"

\* What reconciliation promises of every ISSUED warning: when no request is under
\* way, the metric is not below the threshold of the issue.
QuietIssuedSupported == Quiet => \A i \in Issued : Supported(i)

\* What concurrent requests leave of the rules and of the warnings: ascending
\* thresholds and one warning a level.
WarningsInvariant == RulesAscend /\ OneIssuedPerLevel

\* What no step does to an issued warning: rewrite it, or leave it below its threshold.
WarningsKept == SnapshotKept /\ SupportKept
=============================================================================
