---------------------------- MODULE DailySummary ----------------------------
(***************************************************************************)
(* The daily summary rows of one section on one date                       *)
(* (backend/attendance/services/daily_summary.py), recalculated by every   *)
(* request that changes the section's attendance or its coverages.         *)
(*                                                                         *)
(* A recalculator is a request thread: the function                        *)
(* recalculate_daily_attendance_for_section reads sessions, marks and      *)
(* coverages in queries of their own and outside a transaction, each of    *)
(* them a step.  Only the rows themselves are locked, after everything has *)
(* been read.  The section has the same students all day.                  *)
(***************************************************************************)
EXTENDS Integers, FiniteSets

CONSTANTS
  Periods,
  Students,
  Expected,        \* attendance periods of the frozen AttendanceDayContext
  Recalculators,   \* request threads
  SummaryChanges   \* bound: requests that end in a recalculation

ASSUME SummaryBounds == Expected \in Nat /\ SummaryChanges \in Nat
ASSUME PeriodsFinite == IsFiniteSet(Periods)

VARIABLES
  submitted,  \* periods whose session is SUBMITTED
  absent,     \* <<period, student>> pairs with an ABSENT mark
  covered,    \* <<period, student>> pairs with an ACTIVE coverage
  changes,    \* how many requests there have been
  clock,      \* the last time given out
  row,        \* [Students -> DailyAttendanceSummary row]
  overlapped, \* history: the request that began last found another under way
  recalc      \* [Recalculators -> what the recalculation has read]

summaryVars == <<submitted, absent, covered, changes, clock, row, overlapped, recalc>>
facts == <<submitted, absent, covered, changes>>

Keys == Periods \X Students
Of(pairs, s) == {k \in pairs : k[2] = s}

Row == [exists: BOOLEAN, submitted: Nat, absent: Nat, present: Nat,
        excused: Nat, unexcused: Nat,
        completeness: {"COMPLETE", "INCOMPLETE"},
        status: {"UNDETERMINED", "NONE", "PARTIAL", "FULL"},
        calculatedAt: Nat]

\* pc "reconcile": the attendance has changed and the coverages follow;
\* "sessions" to "commit": the recalculation, by what it does next.
Recalc == [pc: {"idle", "reconcile", "sessions", "marks", "pairs", "coverages",
                "lock", "commit"},
           sessions: SUBSET Periods, absent: [Students -> Nat], pairs: SUBSET Keys,
           excused: [Students -> Nat], now: Nat, existing: SUBSET Students]

NoRow == [exists |-> FALSE, submitted |-> 0, absent |-> 0, present |-> 0,
          excused |-> 0, unexcused |-> 0,
          completeness |-> "INCOMPLETE", status |-> "UNDETERMINED", calculatedAt |-> 0]
Zero == [s \in Students |-> 0]
NoRecalc == [pc |-> "idle", sessions |-> {}, absent |-> Zero, pairs |-> {},
         excused |-> Zero, now |-> 0, existing |-> {}]

SummaryInit ==
  /\ submitted = {} /\ absent = {} /\ covered = {}
  /\ changes = 0 /\ clock = 0 /\ overlapped = FALSE
  /\ row = [s \in Students |-> NoRow]
  /\ recalc = [w \in Recalculators |-> NoRecalc]

-----------------------------------------------------------------------------
(* The requests that recalculate.                                          *)

StartRequest(w, pc) ==
  /\ recalc[w].pc = "idle" /\ changes < SummaryChanges
  /\ changes' = changes + 1
  /\ overlapped' = (\E v \in Recalculators : recalc[v].pc # "idle")
  /\ recalc' = [recalc EXCEPT ![w] = [NoRecalc EXCEPT !.pc = pc]]

\* submit_session and edit_session or a correction: S is the new set of
\* absentees of the period.
ChangeAttendance(w, p, S) ==
  /\ StartRequest(w, "reconcile")
  /\ submitted' = submitted \cup {p}
  /\ absent' = {k \in absent : k[1] # p} \cup ({p} \X S)
  /\ UNCHANGED <<covered, clock, row>>

\* reconcile_excuse_coverage_for_date has committed some set of coverages.
ReconcileCoverage(w, C) ==
  /\ recalc[w].pc = "reconcile"
  /\ covered' = C
  /\ recalc' = [recalc EXCEPT ![w].pc = "sessions"]
  /\ UNCHANGED <<submitted, absent, changes, clock, row, overlapped>>

\* approve_excuse, create_excuse or cancel_excuse has committed.
DecideExcuse(w, C) ==
  /\ StartRequest(w, "sessions")
  /\ covered' = C
  /\ UNCHANGED <<submitted, absent, clock, row>>

\* repair_student_daily_attendance_summary, for a section with a submitted session.
Repair(w) ==
  /\ submitted # {}
  /\ StartRequest(w, "sessions")
  /\ UNCHANGED <<submitted, absent, covered, clock, row>>

-----------------------------------------------------------------------------
(* recalculate_daily_attendance_for_section.                               *)

ReadSessions(w) ==
  /\ recalc[w].pc = "sessions"
  /\ recalc' = [recalc EXCEPT ![w].pc = "marks", ![w].sessions = submitted]
  /\ UNCHANGED <<facts, clock, row, overlapped>>

\* Mutant: the marks of the day are counted, not those of the sessions read.
InSessions_WholeDay(pairs, P) == pairs

InSessions(pairs, P) == {k \in pairs : k[1] \in P}

\* The number of ABSENT marks of each student.
ReadMarks(w) ==
  /\ recalc[w].pc = "marks"
  /\ recalc' = [recalc EXCEPT ![w].pc = "pairs",
       ![w].absent = [s \in Students |->
                        Cardinality(Of(InSessions(absent, recalc[w].sessions), s))]]
  /\ UNCHANGED <<facts, clock, row, overlapped>>

\* The same marks again, as pairs.
ReadPairs(w) ==
  /\ recalc[w].pc = "pairs"
  /\ recalc' = [recalc EXCEPT ![w].pc = "coverages",
                              ![w].pairs = InSessions(absent, recalc[w].sessions)]
  /\ UNCHANGED <<facts, clock, row, overlapped>>

\* Mutant: coverages are counted, whichever absence they belong to.
Matched_ByCount(w, s) == Cardinality(Of(InSessions(covered, recalc[w].sessions), s))

\* A coverage counts when its own absence is among the pairs.
Matched(w, s) == Cardinality(Of(InSessions(covered, recalc[w].sessions) \cap recalc[w].pairs, s))

\* The coverages, and then the time of the calculation.
ReadCoverages(w) ==
  /\ recalc[w].pc = "coverages"
  /\ clock' = clock + 1
  /\ recalc' = [recalc EXCEPT ![w].pc = "lock", ![w].now = clock + 1,
                              ![w].excused = [s \in Students |-> Matched(w, s)]]
  /\ UNCHANGED <<facts, row, overlapped>>

\* classify_daily_attendance.
Complete(sub) == Expected > 0 /\ sub >= Expected
Status(sub, abs) == CASE sub = 0 -> "UNDETERMINED"
                      [] sub > 0 /\ abs >= sub -> "FULL"
                      [] sub > 0 /\ abs = 0 -> "NONE"
                      [] OTHER -> "PARTIAL"

\* Mutant: more absences can be excused than there are.
Excused_Unbounded(excused, abs) == excused

Excused(excused, abs) == IF excused < abs THEN excused ELSE abs

\* build_fields.
Fields(sub, abs, excused, now) ==
  [exists |-> TRUE, submitted |-> sub, absent |-> abs,
   present |-> IF sub > abs THEN sub - abs ELSE 0,
   excused |-> Excused(excused, abs), unexcused |-> abs - Excused(excused, abs),
   completeness |-> IF Complete(sub) THEN "COMPLETE" ELSE "INCOMPLETE",
   status |-> Status(sub, abs), calculatedAt |-> now]

RowFree(w, s) == \A v \in Recalculators \ {w} :
    recalc[v].pc = "commit" => s \notin recalc[v].existing

\* SELECT ... FOR UPDATE of the rows there are.
LockRows(w) ==
  /\ recalc[w].pc = "lock"
  /\ \A s \in Students : row[s].exists => RowFree(w, s)
  /\ recalc' = [recalc EXCEPT ![w].pc = "commit",
                              ![w].existing = {s \in Students : row[s].exists}]
  /\ UNCHANGED <<facts, clock, row, overlapped>>

\* The rows that were there are overwritten.  The others are inserted; one that
\* somebody else inserted first is replaced when it was calculated earlier.
Commit(w) ==
  LET new(s) == Fields(Cardinality(recalc[w].sessions), recalc[w].absent[s],
                       recalc[w].excused[s], recalc[w].now)
  IN
  /\ recalc[w].pc = "commit"
  /\ \A s \in Students : row[s].exists => RowFree(w, s)
  /\ row' = [s \in Students |->
       IF s \in recalc[w].existing \/ ~row[s].exists \/ row[s].calculatedAt < recalc[w].now
       THEN new(s) ELSE row[s]]
  /\ recalc' = [recalc EXCEPT ![w] = NoRecalc]
  /\ UNCHANGED <<facts, clock, overlapped>>

-----------------------------------------------------------------------------
Recalculate(w) ==
  \/ ReadSessions(w) \/ ReadMarks(w) \/ ReadPairs(w) \/ ReadCoverages(w)
  \/ LockRows(w) \/ Commit(w)

SummaryNext == \E w \in Recalculators :
  \/ \E p \in Periods, S \in SUBSET Students : ChangeAttendance(w, p, S)
  \/ \E C \in SUBSET (submitted \X Students) : ReconcileCoverage(w, C) \/ DecideExcuse(w, C)
  \/ Repair(w)
  \/ Recalculate(w)

SummarySpec == SummaryInit /\ [][SummaryNext]_summaryVars

-----------------------------------------------------------------------------
(* Properties.                                                             *)

\* The types of the rows and of what a recalculation has read.
SummaryTypeOK ==
  /\ submitted \in SUBSET Periods /\ absent \in SUBSET Keys /\ covered \in SUBSET Keys
  /\ changes \in 0..SummaryChanges /\ clock \in 0..SummaryChanges
  /\ row \in [Students -> Row] /\ overlapped \in BOOLEAN
  /\ recalc \in [Recalculators -> Recalc]

\* Every stored row adds up, although its numbers were read at different
\* moments: the approved periods are the present and the absent ones, the absent
\* ones the excused and the unexcused, and the verdict is the one of its own
\* numbers.
RowAddsUp ==
  \A s \in Students :
    LET r == row[s] IN
    /\ r.present + r.absent = r.submitted
    /\ r.excused + r.unexcused = r.absent
    /\ r.status = "FULL" <=> r.submitted > 0 /\ r.present = 0
    /\ r.status = "UNDETERMINED" <=> r.submitted = 0

SummaryQuiet == \A w \in Recalculators : recalc[w].pc = "idle"

Fresh(s) ==
  row[s] = Fields(Cardinality(submitted), Cardinality(Of(absent, s)),
                  Cardinality(Of(absent \cap covered, s)), row[s].calculatedAt)

\* A request that no other overlaps leaves every row as the facts give it, and
\* repairs what overlapping ones before it may have left.
AloneFresh == SummaryQuiet /\ ~overlapped => \A s \in Students : row[s].exists => Fresh(s)

\* "No half-old summary": when no request is under way every row is the one that
\* a recalculation would write now.
QuietFresh == SummaryQuiet => \A s \in Students : row[s].exists => Fresh(s)

\* What a reader finds in the rows: numbers that add up, and those of the facts after
\* a request that nothing overlapped.
RowsInvariant == RowAddsUp /\ AloneFresh
=============================================================================
