--------------------------- MODULE AcademicCalendar --------------------------
(***************************************************************************)
(* The academic years and semesters of one school (backend/academics):     *)
(* what its manager changes by hand and what the official calendar of the  *)
(* ministry applies once the school has been put under it.                 *)
(*                                                                         *)
(* Every one of these operations first locks the row of the school         *)
(* (require_manual_calendar, configure_calendar_scope,                     *)
(* apply_school_calendar) and runs in one transaction: a step.  What an    *)
(* operation does is a function on the book of years and terms; one that   *)
(* raises an error leaves the book alone.  Dates are numbers.  A semester  *)
(* is named by its sequence in its year, which is 1 or 2 and stays.        *)
(***************************************************************************)
EXTENDS Integers, FiniteSets, Sequences

CONSTANTS
  MaxYears,      \* rows of years; their ids ascend
  LastDay,
  YearSpans, TermSpans,  \* what a manager enters: [from, to]
  Snapshots,     \* of the source: sequences of calendars
  CalendarSteps  \* bound on the operations

Days == 0..LastDay
Span == [from: Days, to: Days]

\* A calendar of the source; READY ones have passed its checks of the order of dates.
Consistent(c) ==
  c.span.from <= c.terms[1].from /\ c.terms[1].from <= c.terms[1].to
    /\ c.terms[1].to < c.terms[2].from /\ c.terms[2].from <= c.terms[2].to
    /\ c.terms[2].to <= c.span.to

Calendar == [span: Span, terms: [{1, 2} -> Span], ready: BOOLEAN]

ASSUME CalendarBounds == {MaxYears, LastDay, CalendarSteps} \subseteq Nat
ASSUME SnapshotsAreCalendars == Snapshots \subseteq Seq(Calendar)
ASSUME SpansAreDates == YearSpans \cup TermSpans \subseteq Span
ASSUME ReadyIsConsistent ==
  \A snapshot \in Snapshots : \A i \in DOMAIN snapshot : snapshot[i].ready => Consistent(snapshot[i])

VARIABLES
  book,      \* the rows of years and of their two semesters
  today,
  national,  \* the profile of the SchoolCalendarPolicy is NATIONAL
  outcome,   \* its outcome
  checked,   \* the day the official calendar was last applied
  source,    \* the snapshot last fetched
  steps

calendarVars == <<book, today, national, outcome, checked, source, steps>>

Years == 1..MaxYears
Terms == Years \X {1, 2}
NoRow == [status |-> "none", from |-> 0, to |-> 0]
Row(span) == [status |-> "UPCOMING", from |-> span.from, to |-> span.to]

CalendarInit ==
  /\ book = [years |-> [y \in Years |-> NoRow], terms |-> [t \in Terms |-> NoRow]]
  /\ today = 0 /\ national = FALSE /\ outcome = "" /\ checked = 0
  /\ source \in Snapshots /\ steps = 0

-----------------------------------------------------------------------------
\* Mutant: a semester that ended stays ACTIVE when another one starts.
ClosedTerms_Never(b, T) == b

\* The book with those of the terms T that are ACTIVE closed.
ClosedTerms(b, T) ==
  [b EXCEPT !.terms = [t \in Terms |-> IF t \in T /\ b.terms[t].status = "ACTIVE"
                                         THEN [b.terms[t] EXCEPT !.status = "CLOSED"]
                                         ELSE b.terms[t]]]

Overlap(a, s) == a.from <= s.to /\ s.from <= a.to
TermsOf(b, y) == {t \in Terms : t[1] = y /\ b.terms[t].status # "none"}
ExistingYears(b) == {y \in Years : b.years[y].status # "none"}

\* Mutant: the other semesters of the year are not looked at.
TermFits_Overlap(b, t, s) ==
  s.from <= s.to /\ b.years[t[1]].from <= s.from /\ s.to <= b.years[t[1]].to

\* _validate_semester_dates and _validate_no_overlap
TermFits(b, t, s) ==
  /\ s.from <= s.to /\ b.years[t[1]].from <= s.from /\ s.to <= b.years[t[1]].to
  /\ \A k \in TermsOf(b, t[1]) \ {t} : ~Overlap(b.terms[k], s)

\* create_year; the id is the next one.
NextYear(b) == Cardinality(ExistingYears(b)) + 1
WithYear(b, s) == [b EXCEPT !.years[NextYear(b)] = Row(s)]

\* activate_year
CanActivateYear(b, y) == b.years[y].status = "UPCOMING"

WithActiveYear(b, y) ==
  LET closed == ClosedTerms(b, Terms) IN
  [closed EXCEPT !.years = [k \in Years |->
     IF k = y THEN [b.years[k] EXCEPT !.status = "ACTIVE"]
     ELSE IF b.years[k].status = "ACTIVE" THEN [b.years[k] EXCEPT !.status = "CLOSED"]
     ELSE b.years[k]]]

\* Mutant: a semester can be activated in a year that is not.
CanActivateTerm_AnyYear(b, t) == b.terms[t].status = "UPCOMING"

\* Mutant: a semester that was closed can be activated again.
CanActivateTerm_Closed(b, t) ==
  b.terms[t].status # "none" /\ b.years[t[1]].status = "ACTIVE"

\* activate_semester
CanActivateTerm(b, t) ==
  b.terms[t].status = "UPCOMING" /\ b.years[t[1]].status = "ACTIVE"

WithActiveTerm(b, t) == [ClosedTerms(b, Terms) EXCEPT !.terms[t].status = "ACTIVE"]

-----------------------------------------------------------------------------
Operate == steps < CalendarSteps /\ steps' = steps + 1

\* Mutant: a school under the official calendar can still be changed by hand.
ByHand_Always == Operate /\ UNCHANGED <<today, national, outcome, checked, source>>

\* ManualCalendarView and require_manual_calendar
ByHand == ~national /\ Operate /\ UNCHANGED <<today, national, outcome, checked, source>>

CreateYear(s, activate) ==
  /\ ByHand /\ s.from < s.to /\ NextYear(book) \in Years
  /\ book' = IF activate THEN WithActiveYear(WithYear(book, s), NextYear(book))
             ELSE WithYear(book, s)

\* Mutant: the semesters of the year are not looked at.
KeepsTerms_Always(y, s) == TRUE
KeepsTerms(y, s) ==
  \A t \in TermsOf(book, y) : s.from <= book.terms[t].from /\ book.terms[t].to <= s.to

UpdateYear(y, s) ==
  /\ ByHand /\ y \in ExistingYears(book) /\ s.from < s.to /\ KeepsTerms(y, s)
  /\ book' = [book EXCEPT !.years[y].from = s.from, !.years[y].to = s.to]

ActivateYear(y) == ByHand /\ CanActivateYear(book, y) /\ book' = WithActiveYear(book, y)

CloseYear(y) ==
  /\ ByHand /\ book.years[y].status = "ACTIVE"
  /\ book' = [ClosedTerms(book, TermsOf(book, y)) EXCEPT !.years[y].status = "CLOSED"]

ArchiveYear(y) ==
  /\ ByHand /\ book.years[y].status \in {"UPCOMING", "CLOSED"}
  /\ book' = [book EXCEPT !.years[y].status = "ARCHIVED"]

CreateTerm(t, s, activate) ==
  LET created == [book EXCEPT !.terms[t] = Row(s)] IN
  /\ ByHand /\ t[1] \in ExistingYears(book) /\ book.terms[t] = NoRow /\ TermFits(book, t, s)
  /\ activate => CanActivateTerm(created, t)
  /\ book' = IF activate THEN WithActiveTerm(created, t) ELSE created

UpdateTerm(t, s) ==
  /\ ByHand /\ book.terms[t] # NoRow /\ TermFits(book, t, s)
  /\ book' = [book EXCEPT !.terms[t].from = s.from, !.terms[t].to = s.to]

ActivateTerm(t) == ByHand /\ CanActivateTerm(book, t) /\ book' = WithActiveTerm(book, t)

-----------------------------------------------------------------------------
\* The dates of the calendar c put into the year y and its semesters.
Aligned(b, y, c) ==
  LET dated(row, s) == [row EXCEPT !.from = s.from, !.to = s.to] IN
  [b EXCEPT !.years[y] = dated(@, c.span),
            !.terms = [t \in Terms |-> IF t \in TermsOf(b, y)
                                         THEN dated(b.terms[t], c.terms[t[2]]) ELSE b.terms[t]]]

\* _align_future_boundaries: a date moves only from the future to the future.
Movable(row, s) ==
  /\ row.from # s.from => row.from > today /\ s.from > today /\ row.status # "CLOSED"
  /\ row.to # s.to => row.to > today /\ s.to > today /\ row.status # "CLOSED"

Alignable(b, y, c) ==
  /\ Movable(b.years[y], c.span)
  /\ \A t \in TermsOf(b, y) : Movable(b.terms[t], c.terms[t[2]])

\* The last part of _ensure_year: the semesters that are missing, in their order.
WithTerm(acc, y, c, k) ==
  IF ~acc.ok \/ acc.b.terms[<<y, k>>] # NoRow THEN acc
  ELSE IF TermFits(acc.b, <<y, k>>, c.terms[k])
    THEN [acc EXCEPT !.b.terms[<<y, k>>] = Row(c.terms[k])]
  ELSE [acc EXCEPT !.ok = FALSE]

WithTerms(b, y, c) == WithTerm(WithTerm([ok |-> TRUE, b |-> b], y, c, 1), y, c, 2)

\* _ensure_year: the year that starts when the calendar does, made to agree with it.
YearsStarting(b, c) == {y \in ExistingYears(b) : b.years[y].from = c.span.from}

Ensured(b, c) ==
  LET refused == [ok |-> FALSE, b |-> b]
      found == YearsStarting(b, c)
      y == CHOOSE k \in found : TRUE
  IN
  IF Cardinality(found) > 1 THEN refused
  ELSE IF found # {} THEN
    IF b.years[y].status \in {"CLOSED", "ARCHIVED"}
         \/ ~(Aligned(b, y, c) = b \/ Alignable(b, y, c)) THEN refused
    ELSE WithTerms(Aligned(b, y, c), y, c)
  ELSE IF NextYear(b) \notin Years
            \/ \E k \in ExistingYears(b) :
                 b.years[k].status \in {"UPCOMING", "ACTIVE"} /\ Overlap(b.years[k], c.span)
    THEN refused
  ELSE WithTerms(WithYear(b, c.span), NextYear(b), c)

\* A calendar that is READY and not over is ensured, unless an earlier one was refused.
Advance(acc, c) == IF ~acc.ok \/ ~c.ready \/ c.span.to < today THEN acc ELSE Ensured(acc.b, c)

\* The loop over the calendars of the snapshot.
AllEnsured(b) ==
  LET upTo[i \in 0..Len(source)] ==
        IF i = 0 THEN [ok |-> TRUE, b |-> b] ELSE Advance(upTo[i - 1], source[i])
  IN upTo[Len(source)]

\* Mutant: semesters that are over are left ACTIVE.
EndedClosed_Never(b) == b

\* _close_ended_semesters
EndedClosed(b) == ClosedTerms(b, {t \in Terms : b.terms[t].to < today})

\* The activations of apply_school_calendar in the year y, which is the current one.
Activated(b, y) ==
  LET closed == EndedClosed(b)
      year == IF b.years[y].status = "ACTIVE" THEN closed ELSE WithActiveYear(closed, y)
      due == {t \in TermsOf(b, y) : b.terms[t].from <= today /\ today <= b.terms[t].to}
      term == CHOOSE t \in due : TRUE
  IN
  IF due = {} THEN [outcome |-> "BETWEEN_SEMESTERS", b |-> year]
  ELSE IF year.terms[term].status = "ACTIVE" THEN [outcome |-> "APPLIED", b |-> year]
  ELSE IF CanActivateTerm(year, term)
    THEN [outcome |-> "APPLIED", b |-> WithActiveTerm(year, term)]
  ELSE [outcome |-> "CONFLICT", b |-> book]

\* apply_school_calendar.  dayTaken: today's attendance was taken in another year;
\* enrolled: every active student has an enrolment in the current year.
Applied(dayTaken, enrolled) ==
  LET started == {i \in DOMAIN source : source[i].span.from <= today}
      current == source[CHOOSE i \in started : \A k \in started :
                          source[k].span.from <= source[i].span.from]
      ensured == AllEnsured(book)
      again == Ensured(ensured.b, current)
      y == CHOOSE k \in YearsStarting(again.b, current) : TRUE
      waits == again.b.years[y].status # "ACTIVE" /\ (dayTaken \/ ~enrolled)
  IN
  IF ~ensured.ok THEN [outcome |-> "CONFLICT", b |-> book]
  ELSE IF started = {} THEN [outcome |-> "NO_CURRENT_CALENDAR", b |-> ensured.b]
  ELSE IF ~current.ready THEN [outcome |-> "SOURCE_INCOMPLETE", b |-> ensured.b]
  ELSE IF current.span.to < today
    THEN [outcome |-> "BETWEEN_ACADEMIC_YEARS", b |-> EndedClosed(ensured.b)]
  ELSE IF ~again.ok THEN [outcome |-> "CONFLICT", b |-> book]
  ELSE IF waits THEN [outcome |-> "WAITS", b |-> again.b]
  ELSE Activated(again.b, y)

ApplyCalendar ==
  \E dayTaken, enrolled \in BOOLEAN :
    LET result == Applied(dayTaken, enrolled) IN
    /\ national /\ Operate
    /\ book' = result.b /\ outcome' = result.outcome /\ checked' = today
    /\ UNCHANGED <<today, national, source>>

\* configure_calendar_scope
ConfigureScope(profile) ==
  /\ Operate /\ national' = profile /\ outcome' = ""
  /\ UNCHANGED <<book, today, checked, source>>

\* sync_ministry_calendar
SyncSource(snapshot) ==
  /\ snapshot # source /\ Operate /\ source' = snapshot
  /\ UNCHANGED <<book, today, national, outcome, checked>>

DayPasses ==
  /\ today < LastDay /\ today' = today + 1
  /\ UNCHANGED <<book, national, outcome, checked, source, steps>>

CalendarNext ==
  \/ \E s \in YearSpans :
       \/ \E activate \in BOOLEAN : CreateYear(s, activate)
       \/ \E y \in Years : UpdateYear(y, s)
  \/ \E y \in Years : ActivateYear(y) \/ CloseYear(y) \/ ArchiveYear(y)
  \/ \E t \in Terms, s \in TermSpans :
       \/ \E activate \in BOOLEAN : CreateTerm(t, s, activate)
       \/ UpdateTerm(t, s)
  \/ \E t \in Terms : ActivateTerm(t)
  \/ ApplyCalendar
  \/ \E profile \in BOOLEAN : ConfigureScope(profile)
  \/ \E snapshot \in Snapshots : SyncSource(snapshot)
  \/ DayPasses

CalendarSpec == CalendarInit /\ [][CalendarNext]_calendarVars

-----------------------------------------------------------------------------
\* The types of the years, the semesters and the policy.
CalendarTypeOK ==
  /\ book.years \in [Years -> [status: {"none", "UPCOMING", "ACTIVE", "CLOSED", "ARCHIVED"},
                               from: Days, to: Days]]
  /\ book.terms \in [Terms -> [status: {"none", "UPCOMING", "ACTIVE", "CLOSED"},
                               from: Days, to: Days]]
  /\ today \in Days /\ checked \in Days /\ national \in BOOLEAN
  /\ outcome \in {"", "CONFLICT", "NO_CURRENT_CALENDAR", "SOURCE_INCOMPLETE", "WAITS",
                  "BETWEEN_ACADEMIC_YEARS", "BETWEEN_SEMESTERS", "APPLIED"}
  /\ source \in Snapshots /\ steps \in 0..CalendarSteps

\* One year and one semester are ACTIVE at most, and the semester is of that year,
\* whatever was activated, closed, archived or applied before.
ActiveAgree ==
  LET years == {y \in Years : book.years[y].status = "ACTIVE"}
      terms == {t \in Terms : book.terms[t].status = "ACTIVE"}
  IN Cardinality(years) <= 1 /\ Cardinality(terms) <= 1 /\ \A t \in terms : t[1] \in years

\* The semesters of a year lie inside it and apart, also after the year or a semester
\* was moved, or both were moved by the official calendar.
TermsFitYear ==
  \A y \in Years : \A t \in TermsOf(book, y) :
    /\ book.years[y].from <= book.terms[t].from /\ book.terms[t].to <= book.years[y].to
    /\ \A k \in TermsOf(book, y) \ {t} :
         book.terms[t].to < book.terms[k].from \/ book.terms[k].to < book.terms[t].from

\* On a day the official calendar was applied, what is ACTIVE is what it says of that
\* day: its semester, or no semester that is over; no request of the school changes that.
AppliedHolds ==
  national /\ checked = today =>
    /\ outcome = "APPLIED" =>
         \E t \in Terms : /\ book.terms[t].status = "ACTIVE" /\ book.years[t[1]].status = "ACTIVE"
                          /\ book.terms[t].from <= today /\ today <= book.terms[t].to
    /\ outcome \in {"BETWEEN_SEMESTERS", "BETWEEN_ACADEMIC_YEARS"} =>
         \A t \in Terms : book.terms[t].status = "ACTIVE" => today <= book.terms[t].to

\* What is promised of the calendar: what is active agrees, semesters fit, and the
\* official calendar holds.
CalendarInvariant == ActiveAgree /\ TermsFitYear /\ AppliedHolds

\* A year or a semester that was closed never becomes current again, by hand or by the
\* official calendar.
CalendarRests ==
  [][/\ \A y \in Years : book.years[y].status \in {"CLOSED", "ARCHIVED"}
          => book'.years[y].status \in {"CLOSED", "ARCHIVED"}
     /\ \A t \in Terms : book.terms[t].status = "CLOSED" => book'.terms[t].status = "CLOSED"
    ]_calendarVars
=============================================================================
