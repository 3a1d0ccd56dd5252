--------------------------- MODULE ExcuseCoverage ---------------------------
(***************************************************************************)
(* Absence excuses on ONE date and the layer of coverages that ties an     *)
(* approved excuse to the absences it excuses                              *)
(* (backend/excuses/services/coverage.py and excuses.py).                  *)
(*                                                                         *)
(* A worker is a request thread.  It changes attendance and then, in a     *)
(* transaction of its own, reconciles the coverages; or it creates,        *)
(* approves or cancels an excuse.  PostgreSQL runs at READ COMMITTED, so   *)
(* every query sees what was committed when it ran: a transaction is cut   *)
(* into one step per group of reads that no lock protects, and one for its *)
(* writes and commit.  A row lock lasts from the SELECT ... FOR UPDATE to  *)
(* the commit.  A row that refers to a student (a mark, a change, an       *)
(* excuse, a coverage) makes its COMMIT wait for whoever locked the row of *)
(* the student: the foreign key takes FOR KEY SHARE on it.                 *)
(***************************************************************************)
EXTENDS Integers, FiniteSets

CONSTANTS
  Periods,    \* attendance periods of the date
  Students,
  Excuses,    \* identities of the AbsenceExcuse rows that may be created
  Workers,    \* request threads
  MaxEdits,   \* bound: submissions and edits of sessions
  Crashes     \* whether a request may die between two of its steps

ASSUME MaxEditsNat == MaxEdits \in Nat
ASSUME CrashesBoolean == Crashes \in BOOLEAN

VARIABLES
  submitted,  \* periods whose session is SUBMITTED
  absent,     \* <<period, student>> pairs with an ABSENT mark in such a session
  edits,      \* how often attendance has changed
  unsettled,  \* history: absences that were taken back, and those that a reconciliation
              \* left uncovered when it was rolled back (nobody repeats it), until they
              \* are recorded anew while no other request is under way
  excuse,     \* [Excuses -> row of AbsenceExcuse with its targets on the date]
  coverage,   \* [Periods \X Students -> the newest AbsenceExcuseCoverage row]
  preview,    \* [Excuses -> the preview an administrator has on screen]
  worker      \* [Workers -> what the transaction of the thread has read]

vars == <<submitted, absent, edits, unsettled, excuse, coverage, preview, worker>>
attendance == <<submitted, absent, edits, unsettled>>

Nobody == "none"
ASSUME NobodyApart == Nobody \notin Excuses
ASSUME ExcusesFinite == IsFiniteSet(Excuses)

\* A full-day target is the scope Periods: target_scope_by_date, _pick_excuse
\* and the overlap test treat it as matching every period.  CREATING is a row
\* (already APPROVED) that its own transaction has not committed.
Excuse == [status: {"NONE", "CREATING", "PENDING", "APPROVED", "REJECTED", "CANCELLED"},
           student: Students \cup {Nobody},
           scope: SUBSET Periods,
           approvedAt: Nat,
           direct: BOOLEAN]

\* The newest row of a (session, student) pair: which row it is, and its excuse
\* while it is ACTIVE.  uniq_active_coverage_per_absence allows one ACTIVE row.
Row == [row: Nat, excuse: Excuses \cup {Nobody}]

Preview == [shown: BOOLEAN, scope: SUBSET Periods,
            absent: SUBSET Periods, others: SUBSET Periods]

\* pc "read", "lock", "write": reconcile_excuse_coverage_for_date;
\* "day": create_excuse after its INSERT; "check", "approve": approve_excuse.
Worker == [pc: {"idle", "day", "read", "lock", "write", "check", "approve"},
           students: SUBSET Students,
           own: Excuses \cup {Nobody},
           targets: SUBSET Excuses,
           rows: SUBSET (Periods \X Students \X Nat),
           absent: SUBSET (Periods \X Students),
           hash: Preview]

NoExcuse == [status |-> "NONE", student |-> Nobody, scope |-> {},
             approvedAt |-> 0, direct |-> FALSE]
NoPreview == [shown |-> FALSE, scope |-> {}, absent |-> {}, others |-> {}]
Idle == [pc |-> "idle", students |-> {}, own |-> Nobody, targets |-> {},
         rows |-> {}, absent |-> {}, hash |-> NoPreview]

Init ==
  /\ submitted = {} /\ absent = {} /\ edits = 0 /\ unsettled = {}
  /\ excuse = [e \in Excuses |-> NoExcuse]
  /\ coverage = [k \in Periods \X Students |-> [row |-> 0, excuse |-> Nobody]]
  /\ preview = [e \in Excuses |-> NoPreview]
  /\ worker = [w \in Workers |-> Idle]

\* The row lock of an excuse: reconciliations and approvals hold it.
HoldsExcuse(w, e) ==
  \/ worker[w].pc = "write" /\ e \in worker[w].targets
  \/ worker[w].pc \in {"check", "approve"} /\ e = worker[w].own
ExcuseFree(e) == \A w \in Workers : ~HoldsExcuse(w, e)

\* Mutant: the student row is not locked.
StudentFree_Unlocked(s) == s \in Students

\* The row lock of a student: create_excuse takes it, and approve_excuse because
\* its FOR UPDATE joins the student (select_related).
StudentFree(s) ==
  /\ \A e \in Excuses : excuse[e].status = "CREATING" => excuse[e].student # s
  /\ \A w \in Workers : worker[w].pc \in {"check", "approve"}
                         => excuse[worker[w].own].student # s
HoldsStudent(w, s) == worker[w].own # Nobody /\ excuse[worker[w].own].student = s

Approved(e) == excuse[e].status = "APPROVED"
Covers(e, p, s) == excuse[e].student = s /\ p \in excuse[e].scope

\* dj_timezone.now(): the first time later than every time given out before.
Times == 1..(Cardinality(Excuses) + 1)
Now(t) == /\ \A e \in Excuses : excuse[e].approvedAt < t
          /\ \A u \in 1..(t - 1) : \E e \in Excuses : excuse[e].approvedAt >= u

\* The given rows are voided; every given key k gets a new row, of excuse by[k].
Voided(cov, rows) == [k \in DOMAIN cov |->
    IF <<k[1], k[2], cov[k].row>> \in rows THEN [cov[k] EXCEPT !.excuse = Nobody]
                                           ELSE cov[k]]
Created(cov, keys, by) == [k \in DOMAIN cov |->
    IF k \in keys THEN [row |-> cov[k].row + 1, excuse |-> by[k]] ELSE cov[k]]

\* The ACTIVE rows, as <<period, student, row>>.
ActiveRows == {<<k[1], k[2], coverage[k].row>> :
                 k \in {j \in DOMAIN coverage : coverage[j].excuse # Nobody}}

-----------------------------------------------------------------------------
(* Attendance changes (sessions.py).  Each is followed by a reconciliation *)
(* in a later transaction of the same request.                             *)

Reconcile(w, S) ==
  worker' = [worker EXCEPT ![w] = [Idle EXCEPT !.pc = "read", !.students = S]]

SubmitSession(w, p, S) ==
  /\ worker[w].pc = "idle"
  /\ p \notin submitted /\ edits < MaxEdits
  /\ \A s \in S : StudentFree(s)
  /\ submitted' = submitted \cup {p}
  /\ absent' = absent \cup ({p} \X S)
  /\ edits' = edits + 1
  /\ Reconcile(w, Students)
  /\ UNCHANGED <<unsettled, excuse, coverage, preview>>

Changed(old, S) == (S \ old) \cup (old \ S)

\* edit_session and correct_student_attendance: S is the new set of absentees;
\* only the students whose mark changed are reconciled.
EditSession(w, p, S) ==
  LET old == {s \in Students : <<p, s>> \in absent}
      alone == \A v \in Workers : worker[v].pc = "idle"
  IN
  /\ worker[w].pc = "idle"
  /\ p \in submitted /\ edits < MaxEdits
  /\ S # old
  /\ \A s \in Changed(old, S) : StudentFree(s)
  /\ absent' = (absent \ ({p} \X Students)) \cup ({p} \X S)
  /\ unsettled' = (unsettled \cup ({p} \X (old \ S)))
                     \ (IF alone THEN {p} \X (S \ old) ELSE {})
  /\ edits' = edits + 1
  /\ Reconcile(w, Changed(old, S))
  /\ UNCHANGED <<submitted, excuse, coverage, preview>>

-----------------------------------------------------------------------------
(* reconcile_excuse_coverage_for_date.                                     *)

\* The excuses whose targets the transaction of w can see.
Visible(w) == {e \in Excuses : Approved(e) \/ e = worker[w].own}

\* When a create_excuse commits its excuse is there for everybody.
Committed(w, exc) ==
  IF worker[w].own = Nobody THEN exc
  ELSE [exc EXCEPT ![worker[w].own].status = "APPROVED"]

\* The approved targets and the ACTIVE rows of the date; nothing to do unless a
\* student of the call has one or the other.
ReconcileRead(w) ==
  LET S == worker[w].students \cap
             ({excuse[e].student : e \in Visible(w)} \cup {r[2] : r \in ActiveRows}) IN
  /\ worker[w].pc = "read"
  /\ IF S = {}
     THEN /\ worker' = [worker EXCEPT ![w] = Idle]
          /\ excuse' = Committed(w, excuse)
     ELSE /\ worker' = [worker EXCEPT ![w].pc = "lock", ![w].students = S,
                                      ![w].targets = Visible(w), ![w].rows = ActiveRows]
          /\ UNCHANGED excuse
  /\ UNCHANGED <<attendance, coverage, preview>>

\* Mutant: the excuses are locked without looking at their status again.
StillApproved_AsRead(w) == worker[w].targets

StillApproved(w) == worker[w].targets \cap Visible(w)

\* SELECT ... FOR UPDATE of the targets that are still APPROVED (it waits for
\* their holders), then the ABSENT marks of the students.
ReconcileLock(w) ==
  /\ worker[w].pc = "lock"
  /\ \A e \in worker[w].targets : Approved(e) => ExcuseFree(e)
  /\ worker' = [worker EXCEPT ![w].pc = "write",
        ![w].targets = StillApproved(w),
        ![w].absent = {k \in absent : k[2] \in worker[w].students}]
  /\ UNCHANGED <<attendance, excuse, coverage, preview>>

\* The oldest approval wins (approvals have distinct times in the model).
PickExcuse(targets, k) ==
  LET matching == {e \in targets : Covers(e, k[1], k[2])} IN
  IF matching = {} THEN Nobody
  ELSE CHOOSE e \in matching :
         \A f \in matching : excuse[e].approvedAt <= excuse[f].approvedAt

\* The rows that were read and whose absence is gone.
Gone(w) == {r \in worker[w].rows : r[2] \in worker[w].students
                                   /\ <<r[1], r[2]>> \notin worker[w].absent}

\* The absences without a row that an excuse matches, unless the unique
\* constraint finds another ACTIVE row (ignore_conflicts).
Fresh(w) ==
  LET kept == {<<r[1], r[2]>> : r \in worker[w].rows \ Gone(w)}
      after == Voided(coverage, Gone(w))
  IN {k \in worker[w].absent \ kept :
        PickExcuse(worker[w].targets, k) # Nobody /\ after[k].excuse = Nobody}

\* Rows are voided by id, then inserted; the commit needs the students of the
\* new rows.
ReconcileWrite(w) ==
  LET pick == [k \in DOMAIN coverage |-> PickExcuse(worker[w].targets, k)] IN
  /\ worker[w].pc = "write"
  /\ \A k \in Fresh(w), v \in Workers \ {w} : ~HoldsStudent(v, k[2])
  /\ coverage' = Created(Voided(coverage, Gone(w)), Fresh(w), pick)
  /\ excuse' = Committed(w, excuse)
  /\ worker' = [worker EXCEPT ![w] = Idle]
  /\ UNCHANGED <<attendance, preview>>

-----------------------------------------------------------------------------
(* The life of an excuse.                                                  *)

Unused(e) == excuse[e].status = "NONE"

\* create_excuse(approve_immediately=True) up to its INSERT: the student row is
\* locked, and the targets may not meet those of another approved excuse.
CreateDirect(w, e, s, scope) ==
  /\ worker[w].pc = "idle" /\ Unused(e)
  /\ StudentFree(s)
  /\ \A f \in Excuses : Approved(f) /\ excuse[f].student = s
                          => excuse[f].scope \cap scope = {}
  /\ \E t \in Times :
       /\ Now(t)
       /\ excuse' = [excuse EXCEPT ![e] =
            [status |-> "CREATING", student |-> s, scope |-> scope,
             approvedAt |-> t, direct |-> TRUE]]
  /\ worker' = [worker EXCEPT ![w] = [Idle EXCEPT !.pc = "day", !.own = e]]
  /\ UNCHANGED <<attendance, coverage, preview>>

\* days_with_absence: without a recorded absence nothing is reconciled and the
\* transaction commits.
CreateDay(w) ==
  LET s == excuse[worker[w].own].student IN
  /\ worker[w].pc = "day"
  /\ IF \E p \in Periods : <<p, s>> \in absent
     THEN /\ worker' = [worker EXCEPT ![w].pc = "read", ![w].students = {s}]
          /\ UNCHANGED excuse
     ELSE /\ worker' = [worker EXCEPT ![w] = Idle]
          /\ excuse' = Committed(w, excuse)
  /\ UNCHANGED <<attendance, coverage, preview>>

\* create_excuse without immediate approval.
CreatePending(e, s, scope) ==
  /\ Unused(e) /\ StudentFree(s)
  /\ excuse' = [excuse EXCEPT ![e] = [NoExcuse EXCEPT
                  !.status = "PENDING", !.student = s, !.scope = scope]]
  /\ UNCHANGED <<attendance, coverage, preview, worker>>

\* Mutant: an approved excuse can be edited too.
UpdateExcuse_AnyStatus(e, scope) ==
  /\ excuse[e].status \in {"PENDING", "APPROVED"} /\ ExcuseFree(e)
  /\ scope # excuse[e].scope
  /\ excuse' = [excuse EXCEPT ![e].scope = scope]
  /\ UNCHANGED <<attendance, coverage, preview, worker>>

\* update_excuse: the targets of a PENDING excuse are replaced.
UpdateExcuse(e, scope) ==
  /\ excuse[e].status = "PENDING" /\ ExcuseFree(e)
  /\ scope # excuse[e].scope
  /\ excuse' = [excuse EXCEPT ![e].scope = scope]
  /\ UNCHANGED <<attendance, coverage, preview, worker>>

\* Mutant: the status of a coverage is written into the excuse.
RejectExcuse_Voided(e) ==
  /\ excuse[e].status = "PENDING" /\ ExcuseFree(e)
  /\ excuse' = [excuse EXCEPT ![e].status = "VOIDED"]
  /\ UNCHANGED <<attendance, coverage, preview, worker>>

RejectExcuse(e) ==
  /\ excuse[e].status = "PENDING" /\ ExcuseFree(e)
  /\ excuse' = [excuse EXCEPT ![e].status = "REJECTED"]
  /\ UNCHANGED <<attendance, coverage, preview, worker>>

\* resolve_coverage_plan: the absences in scope, and those another excuse covers.
AbsentInScope(e) == {p \in excuse[e].scope : <<p, excuse[e].student>> \in absent}
CoveredByOther(e) == {p \in Periods :
    coverage[<<p, excuse[e].student>>].excuse \notin {Nobody, e}}

\* The preview of a PENDING excuse; its hash stands for what it shows.
PreviewExcuse(e) ==
  LET a == AbsentInScope(e) IN
  /\ excuse[e].status = "PENDING"
  /\ preview' = [preview EXCEPT ![e] = [shown |-> TRUE, scope |-> excuse[e].scope,
                   absent |-> a, others |-> a \cap CoveredByOther(e)]]
  /\ UNCHANGED <<attendance, excuse, coverage, worker>>

\* approve_excuse with the hash of a preview: the excuse and its student are
\* locked and its marks are read.
ApproveLock(w, e) ==
  /\ worker[w].pc = "idle"
  /\ excuse[e].status = "PENDING" /\ ExcuseFree(e)
  /\ StudentFree(excuse[e].student)
  /\ preview[e].shown
  /\ worker' = [worker EXCEPT ![w] = [Idle EXCEPT !.pc = "check", !.own = e,
                  !.hash = preview[e],
                  !.absent = AbsentInScope(e) \X {excuse[e].student}]]
  /\ UNCHANGED <<attendance, excuse, coverage, preview>>

\* Mutant: the hash of the preview is not compared.
PlanAccepted_AnyPreview(w, e) ==
  LET a == {k[1] : k \in worker[w].absent} IN
  /\ a \cap CoveredByOther(e) = {}
  /\ a # {} \/ excuse[e].scope \ submitted # {}

\* Then the rows of other excuses: the plan must be the one of the preview, no
\* absence may be excused already, and there must be something to cover now or
\* later.
PlanAccepted(w, e) ==
  LET a == {k[1] : k \in worker[w].absent} IN
  /\ worker[w].hash.scope = excuse[e].scope
  /\ worker[w].hash.absent = a
  /\ worker[w].hash.others = a \cap CoveredByOther(e)
  /\ a \cap CoveredByOther(e) = {}
  /\ a # {} \/ excuse[e].scope \ submitted # {}

\* Mutant: a refused plan leaves the transaction, and its lock, open.
ApproveCheck_KeepsLock(w) ==
  /\ worker[w].pc = "check"
  /\ PlanAccepted(w, worker[w].own)
  /\ worker' = [worker EXCEPT ![w].pc = "approve"]
  /\ UNCHANGED <<attendance, excuse, coverage, preview>>

\* A plan that is not accepted ends the transaction.
ApproveCheck(w) ==
  LET e == worker[w].own IN
  /\ worker[w].pc = "check"
  /\ IF PlanAccepted(w, e)
     THEN worker' = [worker EXCEPT ![w].pc = "approve"]
     ELSE worker' = [worker EXCEPT ![w] = Idle]
  /\ UNCHANGED <<attendance, excuse, coverage, preview>>

\* The rows are inserted and the excuse is APPROVED, unless another ACTIVE row
\* came first: then IntegrityError undoes everything.
ApproveWrite(w) ==
  LET e == worker[w].own
      by == [k \in DOMAIN coverage |-> e]
  IN
  /\ worker[w].pc = "approve"
  /\ IF \A k \in worker[w].absent : coverage[k].excuse = Nobody
     THEN /\ coverage' = Created(coverage, worker[w].absent, by)
          /\ \E t \in Times :
               Now(t) /\ excuse' = [excuse EXCEPT ![e].status = "APPROVED",
                                                  ![e].approvedAt = t]
     ELSE UNCHANGED <<coverage, excuse>>
  /\ worker' = [worker EXCEPT ![w] = Idle]
  /\ UNCHANGED <<attendance, preview>>

\* cancel_excuse: its ACTIVE rows are voided in the same transaction; when there
\* were any, a later one offers the absences to the other approved excuses.
CancelExcuse(w, e) ==
  LET mine == {k \in DOMAIN coverage : coverage[k].excuse = e} IN
  /\ worker[w].pc = "idle"
  /\ Approved(e) /\ ExcuseFree(e)
  /\ excuse' = [excuse EXCEPT ![e].status = "CANCELLED"]
  /\ coverage' = [k \in DOMAIN coverage |->
                    IF k \in mine THEN [coverage[k] EXCEPT !.excuse = Nobody] ELSE coverage[k]]
  /\ IF mine = {} THEN UNCHANGED worker ELSE Reconcile(w, {excuse[e].student})
  /\ UNCHANGED <<attendance, preview>>

\* The open transaction of the request is rolled back.  A reconciliation that
\* follows a change is not repeated; one of create_excuse goes with its excuse.
Rollback(w) ==
  /\ unsettled' = unsettled \cup {k \in absent :
       worker[w].own = Nobody /\ k[2] \in worker[w].students /\ coverage[k].excuse = Nobody}
  /\ excuse' = [e \in Excuses |-> IF e = worker[w].own /\ excuse[e].status = "CREATING"
                                  THEN NoExcuse ELSE excuse[e]]
  /\ worker' = [worker EXCEPT ![w] = Idle]
  /\ UNCHANGED <<submitted, absent, edits, coverage, preview>>

\* The request dies.
Crash(w) == Crashes /\ worker[w].pc # "idle" /\ Rollback(w)

\* w needs a lock that v holds.  An approval waits for the INSERT of the same
\* row by a reconciliation that has not committed.
Waits(w, v) ==
  \/ worker[w].pc = "lock" /\ \E e \in worker[w].targets : Approved(e) /\ HoldsExcuse(v, e)
  \/ worker[w].pc = "write" /\ \E k \in Fresh(w) : HoldsStudent(v, k[2])
  \/ /\ worker[w].pc = "approve" /\ worker[v].pc = "write"
     /\ worker[w].absent \cap Fresh(v) # {}

\* w is in a group in which everybody waits for somebody of the group.
Deadlocked(w) == \E D \in SUBSET Workers :
  w \in D /\ \A v \in D : \E u \in D \ {v} : Waits(v, u)

\* Mutant: nothing breaks a deadlock.
DeadlockVictim_Never(w) == Deadlocked(w) /\ FALSE

\* PostgreSQL breaks a deadlock by rolling back one of its transactions.
DeadlockVictim(w) == Deadlocked(w) /\ Rollback(w)

-----------------------------------------------------------------------------
WorkerStep(w) ==
  \/ ReconcileRead(w) \/ ReconcileLock(w) \/ ReconcileWrite(w)
  \/ CreateDay(w)
  \/ ApproveCheck(w) \/ ApproveWrite(w)
  \/ DeadlockVictim(w)

Request(w) ==
  \/ \E p \in Periods, S \in SUBSET Students : SubmitSession(w, p, S) \/ EditSession(w, p, S)
  \/ \E e \in Excuses :
       \/ \E s \in Students, scope \in SUBSET Periods \ {{}} : CreateDirect(w, e, s, scope)
       \/ ApproveLock(w, e)
       \/ CancelExcuse(w, e)

Office(e) ==
  \/ \E s \in Students, scope \in SUBSET Periods \ {{}} : CreatePending(e, s, scope)
  \/ \E scope \in SUBSET Periods \ {{}} : UpdateExcuse(e, scope)
  \/ RejectExcuse(e)
  \/ PreviewExcuse(e)

Next ==
  \/ \E w \in Workers : WorkerStep(w) \/ Request(w) \/ Crash(w)
  \/ \E e \in Excuses : Office(e)

Spec == Init /\ [][Next]_vars

\* A thread that can go on does, and PostgreSQL breaks deadlocks.  Strong
\* fairness: a transaction that waits for a row is queued before those that ask
\* for it later, so a lock released again and again is granted to it.
FairSpec == Spec /\ \A w \in Workers : SF_vars(WorkerStep(w))

-----------------------------------------------------------------------------
(* Properties.                                                             *)

\* The types of the rows and of what a transaction has read.
TypeOK ==
  /\ submitted \in SUBSET Periods
  /\ absent \in SUBSET (Periods \X Students)
  /\ unsettled \in SUBSET (Periods \X Students)
  /\ edits \in 0..MaxEdits
  /\ excuse \in [Excuses -> Excuse]
  /\ coverage \in [Periods \X Students -> Row]
  /\ preview \in [Excuses -> Preview]
  /\ worker \in [Workers -> Worker]

\* An ACTIVE coverage belongs to an APPROVED excuse of its student whose targets
\* include its period: no interleaving of a reconciliation with a cancellation,
\* an edit of the targets or another approval leaves an absence excused by
\* nothing (the orphan that reconcile_excuse_coverage_for_date's locks prevent).
ActiveIsBacked ==
  \A p \in Periods, s \in Students :
    LET e == coverage[<<p, s>>].excuse IN
    e # Nobody => Approved(e) /\ Covers(e, p, s)

\* Excuses approved at creation never share a period of a student: creations for
\* the same student are serialised by the lock of the student row.
DirectDisjoint ==
  \A e, f \in Excuses :
    /\ e # f /\ Approved(e) /\ Approved(f)
    /\ excuse[e].direct /\ excuse[f].direct
    /\ excuse[e].student = excuse[f].student
    => excuse[e].scope \cap excuse[f].scope = {}

\* An approval does what the administrator saw: it covers exactly the absences
\* of the preview whose hash was sent, within the targets the preview showed.
ApprovedAsPreviewed ==
  [][\A e \in Excuses :
       excuse[e].status = "PENDING" /\ excuse'[e].status = "APPROVED"
         => \E w \in Workers :
              /\ worker[w].own = e
              /\ excuse'[e].scope = worker[w].hash.scope
              /\ {p \in Periods : coverage'[<<p, excuse[e].student>>].excuse = e}
                   = worker[w].hash.absent]_vars

\* A decided excuse is never edited silently: its student, targets and approval
\* stay, and the only way on is APPROVED to CANCELLED.
DecidedIsFinal ==
  [][\A e \in Excuses :
       excuse[e].status \in {"APPROVED", "REJECTED", "CANCELLED"}
         => excuse'[e] = excuse[e]
            \/ /\ Approved(e)
               /\ excuse'[e] = [excuse[e] EXCEPT !.status = "CANCELLED"]]_vars

Quiet == \A w \in Workers : worker[w].pc = "idle"

\* "The order of the actions does not matter": when no request is under way, an
\* absence that an approved excuse targets is covered, whatever was recorded,
\* approved, cancelled or created before or at the same time.  It is not claimed of
\* an absence that was taken back and recorded again while another request was under
\* way, nor of one that a reconciliation left uncovered when it was rolled back (see
\* AbsenceAlwaysCovered).
QuietAbsenceCovered ==
  Quiet => \A k \in absent \ unsettled :
    (\E e \in Excuses : Approved(e) /\ Covers(e, k[1], k[2])) => coverage[k].excuse # Nobody

\* What docs/ABSENCE_EXCUSES.md:173 says of every absence.  The code breaks it when
\* an absence comes back while the reconciliation that voids its coverage runs: the
\* one that should cover it has listed the ACTIVE rows before, and keeps the voided.
AbsenceAlwaysCovered ==
  Quiet => \A k \in absent :
    (\E e \in Excuses : Approved(e) /\ Covers(e, k[1], k[2])) => coverage[k].excuse # Nobody

\* An absence that went away takes its coverage with it: when no request is
\* under way, an ACTIVE row stands for an absence that is recorded.
QuietRowHasAbsence ==
  Quiet => \A k \in Periods \X Students : coverage[k].excuse # Nobody => k \in absent

\* No request waits for ever: whatever locks it needs, every transaction ends.  A
\* reconciliation that holds an excuse and needs the student, and a creation that
\* holds the student and needs the excuse, end because one is the victim.
RequestsEnd == \A w \in Workers : worker[w].pc # "idle" ~> worker[w].pc = "idle"
=============================================================================
