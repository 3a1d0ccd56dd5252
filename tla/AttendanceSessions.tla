------------------------- MODULE AttendanceSessions -------------------------
(***************************************************************************)
(* Attendance sessions of ONE section on ONE date: opening a period's      *)
(* session, submitting it once, and editing it afterwards under an         *)
(* optimistic version check (backend/attendance/services/sessions.py).     *)
(*                                                                         *)
(* A client is a browser tab.  It opens or loads a session (several        *)
(* queries: the row first, its marks after it), and later submits, edits   *)
(* or corrects from what it saw.  The database steps are the transactions  *)
(* of the services; a row lock is held from SELECT ... FOR UPDATE to       *)
(* commit, so a transaction whose reads are all under that lock is one     *)
(* action.  What the services do after that transaction (excuse coverage,  *)
(* daily summaries, warnings) touches none of this state: it is in         *)
(* ExcuseCoverage, DailySummary and StudentWarnings.                       *)
(***************************************************************************)
EXTENDS Integers, Sequences, FiniteSets

CONSTANTS
  Periods,     \* attendance periods of the day (period_sequence)
  Students,    \* students that may be in the section
  Teachers,    \* clients acting with role TEACHER
  Admins,      \* clients with a role of ADMIN_CORRECTION_ROLES
  MaxVersion   \* bound: how often updated_at of one session may move

ASSUME ClientsDisjoint == Teachers \cap Admins = {}
ASSUME MaxVersionNat == MaxVersion \in Nat

Clients == Teachers \cup Admins

VARIABLES
  session,      \* [Periods -> row of AttendanceSession]
  marks,        \* [Periods -> students with an ABSENT AttendanceMark]
  changes,      \* [Periods -> [Students -> AttendanceChange rows, oldest first]]
  roster,       \* students enrolled in the section now (get_roster)
  enrolledOn,   \* students enrolled in it on the date (enrollments_on_date)
  dateOver,     \* the attendance date is over
  client,       \* [Clients -> what the tab holds]
  firstMarks    \* history: the marks each session was submitted with

vars == <<session, marks, changes, roster, enrolledOn, dateOver, client, firstMarks>>
enrolment == <<roster, enrolledOn, dateOver>>

Status == {"ABSENT", "PRESENT"}
StatusIn(absent, s) == IF s \in absent THEN "ABSENT" ELSE "PRESENT"

\* A row of AttendanceSession.  version stands for updated_at, which every
\* save of the row moves; fingerprint for roster_fingerprint; open says that
\* the teacher's edit window has not run out.
Session == [status: {"NONE", "IN_PROGRESS", "SUBMITTED"},
            fingerprint: SUBSET Students,
            version: 0..MaxVersion,
            by: Clients \cup {"nobody"},
            open: BOOLEAN]

\* A row of AttendanceChange.
Change == [prev: Status, new: Status]

\* pc "start": the lookup found no session, the INSERT is next;
\* "marks": the session row was read, its marks are next;
\* "form": the tab shows the session.
Client == [pc: {"idle", "start", "marks", "form"},
           period: Periods \cup {"none"},
           version: 0..MaxVersion,
           marks: SUBSET Students,
           roster: SUBSET Students]

IdleClient == [pc |-> "idle", period |-> "none", version |-> 0,
               marks |-> {}, roster |-> {}]

NoSession == [status |-> "NONE", fingerprint |-> {}, version |-> 0,
              by |-> "nobody", open |-> FALSE]

Init ==
  /\ session = [p \in Periods |-> NoSession]
  /\ marks = [p \in Periods |-> {}]
  /\ changes = [p \in Periods |-> [s \in Students |-> <<>>]]
  /\ roster \in SUBSET Students
  /\ enrolledOn = roster
  /\ dateOver = FALSE
  /\ client = [c \in Clients |-> IdleClient]
  /\ firstMarks = [p \in Periods |-> {}]

Exists(p) == session[p].status # "NONE"

\* save(update_fields=[..., "updated_at"]): the row changes and updated_at moves.
Saved(p, row) == [row EXCEPT !.version = session[p].version + 1]
CanSave(p) == session[p].version < MaxVersion

\* A read of the row of session p, and of the roster, into c's tab; the marks
\* are a later query.
SawRow(c, p) == client' = [client EXCEPT ![c] =
    [IdleClient EXCEPT !.pc = "marks", !.period = p,
                       !.version = session[p].version, !.roster = roster]]

-----------------------------------------------------------------------------
(* Opening and loading a session.                                          *)

\* _start_session up to the INSERT: an existing session is resumed; otherwise
\* the roster is read for the fingerprint of the new row.  A client opens the
\* current period, which only exists on the day itself.
StartCheck(c, p) ==
  /\ client[c].pc = "idle"
  /\ ~dateOver
  /\ IF Exists(p)
     THEN SawRow(c, p)
     ELSE client' = [client EXCEPT ![c] =
            [IdleClient EXCEPT !.pc = "start", !.period = p, !.roster = roster]]
  /\ UNCHANGED <<session, marks, changes, enrolment, firstMarks>>

\* The INSERT: the unique constraint decides a race, and the loser resumes
\* the winner's row (except IntegrityError).
StartInsert(c) ==
  LET p == client[c].period IN
  /\ client[c].pc = "start"
  /\ IF Exists(p)
     THEN SawRow(c, p) /\ UNCHANGED session
     ELSE /\ CanSave(p)
          /\ session' = [session EXCEPT ![p] =
               Saved(p, [NoSession EXCEPT !.status = "IN_PROGRESS",
                                          !.fingerprint = client[c].roster])]
          /\ client' = [client EXCEPT ![c].pc = "marks",
                                      ![c].version = session[p].version + 1]
  /\ UNCHANGED <<marks, changes, enrolment, firstMarks>>

\* SessionDetailView.get, first query (_load_session).
LoadRow(c, p) ==
  /\ client[c].pc = "idle"
  /\ Exists(p)
  /\ SawRow(c, p)
  /\ UNCHANGED <<session, marks, changes, enrolment, firstMarks>>

\* prefetch_related("marks"): a query of its own, after the one for the row.
LoadMarks(c) ==
  /\ client[c].pc = "marks"
  /\ client' = [client EXCEPT ![c].pc = "form",
                              ![c].marks = marks[client[c].period]]
  /\ UNCHANGED <<session, marks, changes, enrolment, firstMarks>>

\* The tab is closed or reloaded from scratch.
Close(c) ==
  /\ client[c].pc # "idle"
  /\ client' = [client EXCEPT ![c] = IdleClient]
  /\ UNCHANGED <<session, marks, changes, enrolment, firstMarks>>

-----------------------------------------------------------------------------
(* Submitting.                                                             *)

\* AdministrativeSubmitView only reaches submit_session on the day itself
\* (resolve_today_period); a teacher's submission has no such condition.
MaySubmit(c) == c \in Admins => ~dateOver

\* _submit_locked when the roster moved since the fingerprint was taken: the
\* new fingerprint is COMMITTED and the submission is refused (409).  The page
\* that got the error loads the roster again; other tabs learn nothing.
SubmitRosterChanged(c) ==
  LET p == client[c].period IN
  /\ client[c].pc = "form"
  /\ MaySubmit(c)
  /\ session[p].status = "IN_PROGRESS"
  /\ session[p].fingerprint # roster
  /\ CanSave(p)
  /\ session' = [session EXCEPT ![p] = Saved(p, [@ EXCEPT !.fingerprint = roster])]
  /\ client' = [client EXCEPT ![c] = IdleClient]
  /\ UNCHANGED <<marks, changes, enrolment, firstMarks>>

\* _submit_locked when it accepts: not yet SUBMITTED, the roster is the one of
\* the fingerprint, and every mark names a student of it.  An edit window
\* opens for the submitter.
Submit(c, absent) ==
  LET p == client[c].period IN
  /\ client[c].pc = "form"
  /\ MaySubmit(c)
  /\ session[p].status = "IN_PROGRESS"
  /\ session[p].fingerprint = roster
  /\ absent \subseteq roster
  /\ CanSave(p)
  /\ marks' = [marks EXCEPT ![p] = absent]
  /\ session' = [session EXCEPT ![p] =
       Saved(p, [@ EXCEPT !.status = "SUBMITTED", !.by = c, !.open = TRUE])]
  /\ firstMarks' = [firstMarks EXCEPT ![p] = absent]
  /\ client' = [client EXCEPT ![c] = IdleClient]
  /\ UNCHANGED <<changes, enrolment>>

-----------------------------------------------------------------------------
(* Editing a submitted session.                                            *)

\* _can_edit: an administrator always, a teacher only the session that he or
\* she submitted, inside the window.
CanEdit(c, p) == c \in Admins \/ (session[p].by = c /\ session[p].open)

\* Mutant: the version check is left out.
Current_Unchecked(c, p) == c \in Clients /\ p \in Periods

\* _require_current_session, under the row lock of the write.
Current(c, p) == client[c].version = session[p].version

\* Mutant: the change row takes the status of the mark row, empty if there is none.
Logged_MarkStatus(p, absent) == [changes EXCEPT ![p] = [s \in Students |->
    IF StatusIn(marks[p], s) # StatusIn(absent, s)
    THEN Append(changes[p][s], [prev |-> IF s \in marks[p] THEN "ABSENT" ELSE "",
                                new  |-> IF s \in absent THEN "ABSENT" ELSE ""])
    ELSE changes[p][s]]]

\* One AttendanceChange for every student whose status differs.
Logged(p, absent) == [changes EXCEPT ![p] = [s \in Students |->
    IF StatusIn(marks[p], s) # StatusIn(absent, s)
    THEN Append(changes[p][s], [prev |-> StatusIn(marks[p], s),
                                new  |-> StatusIn(absent, s)])
    ELSE changes[p][s]]]

\* Mutant: the marks are replaced without change rows.
WriteMarks_NoLog(c, p, absent) ==
  /\ CanSave(p)
  /\ marks' = [marks EXCEPT ![p] = absent]
  /\ session' = [session EXCEPT ![p] = Saved(p, @)]
  /\ client' = [client EXCEPT ![c] = IdleClient]
  /\ UNCHANGED <<changes, enrolment, firstMarks>>

\* Mutant: session.save(update_fields=["updated_at"]) is forgotten.
WriteMarks_NoTouch(c, p, absent) ==
  /\ Len(changes[p][CHOOSE s \in Students : TRUE]) < MaxVersion
  /\ changes' = Logged(p, absent)
  /\ marks' = [marks EXCEPT ![p] = absent]
  /\ client' = [client EXCEPT ![c] = IdleClient]
  /\ UNCHANGED <<session, enrolment, firstMarks>>

\* The write that an accepted edit or correction makes: the change rows, the
\* marks and updated_at, in one transaction.
WriteMarks(c, p, absent) ==
  /\ CanSave(p)
  /\ changes' = Logged(p, absent)
  /\ marks' = [marks EXCEPT ![p] = absent]
  /\ session' = [session EXCEPT ![p] = Saved(p, @)]
  /\ client' = [client EXCEPT ![c] = IdleClient]
  /\ UNCHANGED <<enrolment, firstMarks>>

\* edit_session with at least one difference: the whole mark list is replaced.
\* _validate_marks compares with the roster of NOW.  (Without a difference the
\* service writes nothing.)
EditSession(c, absent) ==
  LET p == client[c].period IN
  /\ client[c].pc = "form"
  /\ session[p].status = "SUBMITTED"
  /\ CanEdit(c, p)
  /\ Current(c, p)
  /\ absent \subseteq roster
  /\ absent # marks[p]
  /\ WriteMarks(c, p, absent)

\* Mutant: a correction that trusts the tab and does not compare versions.
CorrectStudent_NoVersion(c, s) ==
  LET p == client[c].period IN
  /\ client[c].pc = "form"
  /\ c \in Admins
  /\ session[p].status = "SUBMITTED"
  /\ s \in enrolledOn \/ s \in marks[p]
  /\ WriteMarks(c, p, IF s \in marks[p] THEN marks[p] \ {s} ELSE marks[p] \cup {s})

\* correct_student_attendance: one student, administrators only.  Adding an
\* absence needs an enrolment ON THE DATE; removing one does not.
CorrectStudent(c, s) ==
  LET p == client[c].period IN
  /\ client[c].pc = "form"
  /\ c \in Admins
  /\ session[p].status = "SUBMITTED"
  /\ s \in enrolledOn \/ s \in marks[p]
  /\ Current(c, p)
  /\ WriteMarks(c, p, IF s \in marks[p] THEN marks[p] \ {s} ELSE marks[p] \cup {s})

-----------------------------------------------------------------------------
(* The environment.                                                        *)

\* A student joins or leaves the section.  A transfer of the date itself also
\* moves the enrolment of that date; a later one does not touch the past.
Transfer(s) ==
  LET Moved(S) == IF s \in S THEN S \ {s} ELSE S \cup {s} IN
  /\ roster' = Moved(roster)
  /\ enrolledOn' = IF dateOver THEN enrolledOn ELSE roster'
  /\ UNCHANGED <<session, marks, changes, dateOver, client, firstMarks>>

\* attendance_edit_window_minutes passes after a submission.
WindowExpires(p) ==
  /\ session[p].open
  /\ session' = [session EXCEPT ![p].open = FALSE]
  /\ UNCHANGED <<marks, changes, enrolment, client, firstMarks>>

\* Midnight.
DateEnds ==
  /\ ~dateOver
  /\ dateOver' = TRUE
  /\ UNCHANGED <<session, marks, changes, roster, enrolledOn, client, firstMarks>>

ClientStep(c) ==
  \/ \E p \in Periods : StartCheck(c, p) \/ LoadRow(c, p)
  \/ StartInsert(c)
  \/ LoadMarks(c)
  \/ Close(c)
  \/ SubmitRosterChanged(c)
  \/ \E absent \in SUBSET Students : Submit(c, absent) \/ EditSession(c, absent)
  \/ \E s \in Students : CorrectStudent(c, s)

Next ==
  \/ \E c \in Clients : ClientStep(c)
  \/ \E s \in Students : Transfer(s)
  \/ \E p \in Periods : WindowExpires(p)
  \/ DateEnds

Spec == Init /\ [][Next]_vars

-----------------------------------------------------------------------------
(* Properties.                                                             *)

\* Every variable keeps its type: the columns of AttendanceSession,
\* AttendanceMark and AttendanceChange and the state of a tab.
TypeOK ==
  /\ session \in [Periods -> Session]
  /\ marks \in [Periods -> SUBSET Students]
  /\ changes \in [Periods -> [Students -> Seq(Change)]]
  /\ roster \in SUBSET Students
  /\ enrolledOn \in SUBSET Students
  /\ dateOver \in BOOLEAN
  /\ client \in [Clients -> Client]
  /\ firstMarks \in [Periods -> SUBSET Students]

\* A log leads from one status to another: it starts at the first, each row
\* starts where the one before it ended, no row is empty, and the last row ends
\* at the second.
Explains(log, first, now) ==
  /\ Len(log) = 0 => now = first
  /\ Len(log) > 0 => log[1].prev = first /\ log[Len(log)].new = now
  /\ \A i \in 1..Len(log) : log[i].prev # log[i].new
  /\ \A i \in 1..(Len(log) - 1) : log[i].new = log[i+1].prev

\* The history of a session is never erased silently: for every student the
\* change rows lead from the status that was submitted to the status stored now
\* (models.py, AttendanceChange).
ChangeLogExplains ==
  \A p \in Periods, s \in Students :
    Explains(changes[p][s], StatusIn(firstMarks[p], s), StatusIn(marks[p], s))

\* What makes the version check sound: a tab whose version is still the row's
\* shows the marks the row has now.  It depends on the row being read BEFORE
\* its marks, and on every write of marks moving updated_at.
FormIsCurrent ==
  \A c \in Clients :
    client[c].pc = "form" /\ client[c].version = session[client[c].period].version
      => client[c].marks = marks[client[c].period]

\* No correction is lost: the marks of a submitted session only change at the
\* hands of a tab that was showing exactly the marks it replaces.
NoLostUpdate ==
  [][\A p \in Periods :
       session[p].status = "SUBMITTED" /\ marks'[p] # marks[p]
         => \E c \in Clients :
              /\ client[c].pc = "form" /\ client'[c].pc = "idle"
              /\ client[c].period = p
              /\ client[c].marks = marks[p]]_vars

\* The sessions implement the abstract sheet: a tab looks at a sheet while its
\* form is open, and a sheet is filed when its session is submitted.
Sheet == INSTANCE AttendanceSheet WITH
  sheet <- [p \in Periods |-> [filed |-> session[p].status = "SUBMITTED",
                               absent |-> marks[p]]],
  view <- [c \in Clients |->
             IF client[c].pc = "form"
             THEN [period |-> client[c].period, absent |-> client[c].marks]
             ELSE [period |-> "none", absent |-> {}]]

\* Every run of the services is a run of the abstract sheet: filed once, then
\* changed only by compare-and-set against the content the tab displays.
ImplementsSheet == Sheet!Spec

\* The module's policy: a roster that changed is refreshed on the teacher's page
\* before a submission counts, so nobody is recorded (present, for want of a
\* mark) whom the submitter's page did not list.
SubmitterSawRoster ==
  [][\A p \in Periods :
       session[p].status = "IN_PROGRESS" /\ session'[p].status = "SUBMITTED"
         => roster \subseteq client[session'[p].by].roster]_vars
=============================================================================
