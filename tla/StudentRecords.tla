---------------------------- MODULE StudentRecords ---------------------------
(***************************************************************************)
(* The students of one school, their active enrolments and the two ways    *)
(* out of the table: merging duplicates and the permanent purge            *)
(* (backend/students/services, students/tasks.py, students/api).           *)
(*                                                                         *)
(* A request reads in its view and writes in its service.  A transaction   *)
(* that logs an audit event refers to the school, so its COMMIT waits for  *)
(* a create_student, which holds the school's row.  A merge token carries  *)
(* a hash of every row it was computed from; any write to one of them      *)
(* makes it useless.  An import in progress, which stops merges, is not    *)
(* part of this module, and a merge has one source.                        *)
(***************************************************************************)
EXTENDS Integers, FiniteSets

CONSTANTS
  Pupils,       \* identities of students
  NoPupil,
  Sections,     \* of the active academic year
  NoSection,
  Desks,        \* request threads
  PurgeJobs,    \* StudentPurgeJobs
  SeatLimit,    \* the limit of the contract on active students
  RecordSteps   \* bound on the requests that begin

ASSUME RecordBounds == {SeatLimit, RecordSteps} \subseteq Nat
ASSUME RecordApart == NoPupil \notin Pupils /\ NoSection \notin Sections
ASSUME PupilsFinite == IsFiniteSet(Pupils)

VARIABLES
  pupils,      \* [Pupils -> the row and the section of the active enrolment]
  open,        \* the sections with is_active
  desks,       \* [Desks -> what the request has read]
  merges,      \* confirmation tokens of merges whose hash still agrees
  selection,   \* the purge preview in the cache: students and the statuses shown
  jobs,        \* [PurgeJobs -> the job and how far its task is]
  reactivated, \* history: a student who had left was made ACTIVE again
  begun        \* requests begun so far

recordVars == <<pupils, open, desks, merges, selection, jobs, reactivated, begun>>

Left == {"LEFT", "ARCHIVED"}  \* LEFT: graduated, transferred, withdrawn or inactive

Pupil == [there: BOOLEAN, status: Left \cup {"ACTIVE"}, merged: Pupils \cup {NoPupil},
          seat: Sections \cup {NoSection}]

Gone == [there |-> FALSE, status |-> "LEFT", merged |-> NoPupil, seat |-> NoSection]
Fresh(c) == [there |-> TRUE, status |-> "ACTIVE", merged |-> NoPupil, seat |-> c]

NoErrand == [op |-> "idle", pupil |-> NoPupil, row |-> Gone, to |-> NoSection]

NoJob == [status |-> "none", total |-> 0, left |-> {}, deleted |-> 0, failed |-> 0,
          alive |-> TRUE]
Running == {"PENDING", "RUNNING"}

Active == {p \in Pupils : pupils[p].there /\ pupils[p].status = "ACTIVE"}

RecordInit ==
  /\ \E P \in SUBSET Pupils, c \in Sections :
       /\ Cardinality(P) <= SeatLimit
       /\ pupils = [p \in Pupils |-> IF p \in P THEN Fresh(c) ELSE Gone]
  /\ open = Sections /\ desks = [d \in Desks |-> NoErrand]
  /\ merges = {} /\ selection = << >> /\ jobs = [j \in PurgeJobs |-> NoJob]
  /\ reactivated = FALSE /\ begun = 0

-----------------------------------------------------------------------------
Begin(d, op, p, row, to) ==
  /\ desks[d] = NoErrand /\ begun < RecordSteps
  /\ desks' = [desks EXCEPT ![d] = [op |-> op, pupil |-> p, row |-> row, to |-> to]]
  /\ begun' = begun + 1

Done(d) == desks' = [desks EXCEPT ![d] = NoErrand]

\* Mutant: the limit is checked without the lock.
SchoolFree_Always == TRUE

\* lock_school_capacity: FOR UPDATE on the school from the count to the commit.
SchoolFree == \A d \in Desks : desks[d].op # "enrol"

\* The tokens that a write to the rows of the students S leaves usable.
Unchanged(S) == {k \in merges : k.target \notin S /\ k.source \notin S}

Write(p, row) ==
  /\ pupils' = [pupils EXCEPT ![p] = row]
  /\ merges' = Unchanged({p})

-----------------------------------------------------------------------------
\* StudentListView.post, and create_student up to the check of the limit.
StartCreate(d, p, c) ==
  /\ c \in open /\ Begin(d, "create", p, Gone, c)
  /\ UNCHANGED <<pupils, open, merges, selection, jobs, reactivated>>

CountSeats(d) ==
  /\ desks[d].op = "create" /\ SchoolFree
  /\ desks' = [desks EXCEPT ![d] =
       IF Cardinality(Active) < SeatLimit THEN [@ EXCEPT !.op = "enrol"] ELSE NoErrand]
  /\ UNCHANGED <<pupils, open, merges, selection, jobs, reactivated, begun>>

\* The rest of create_student; the unique hash refuses a student who is there.
Enrol(d) ==
  LET p == desks[d].pupil IN
  /\ desks[d].op = "enrol" /\ Done(d)
  /\ IF pupils[p].there THEN UNCHANGED <<pupils, merges>> ELSE Write(p, Fresh(desks[d].to))
  /\ UNCHANGED <<open, selection, jobs, reactivated, begun>>

\* StudentDetailView.patch reads the section; update_student locks the student.
StartMove(d, p, c) ==
  /\ pupils[p].there /\ c \in open /\ Begin(d, "move", p, Gone, c)
  /\ UNCHANGED <<pupils, open, merges, selection, jobs, reactivated>>

Move(d) ==
  LET p == desks[d].pupil IN
  /\ desks[d].op = "move" /\ SchoolFree /\ Done(d)
  /\ IF pupils[p].there THEN Write(p, [pupils[p] EXCEPT !.seat = desks[d].to])
     ELSE UNCHANGED <<pupils, merges>>
  /\ UNCHANGED <<open, selection, jobs, reactivated, begun>>

\* StudentStatusView and get_students_for_school read the rows without a lock.
StartStatus(d, p) ==
  /\ pupils[p].there /\ Begin(d, "status", p, pupils[p], NoSection)
  /\ UNCHANGED <<pupils, open, merges, selection, jobs, reactivated>>

\* Mutant: the record of a merged student may be activated again.
Classifiable_Merged(row, status) == row.status # status

\* The checks of set_student_status, on the row that the request has read.
Classifiable(row, status) == row.merged = NoPupil /\ row.status # status

\* save() writes every column it read, and inserts the row when it is gone.
SetStatus(d, status) ==
  LET p == desks[d].pupil
      row == desks[d].row
      seat == IF status = "ACTIVE" THEN pupils[p].seat ELSE NoSection
  IN
  /\ desks[d].op = "status" /\ SchoolFree /\ Done(d)
  /\ IF Classifiable(row, status)
       THEN /\ Write(p, [row EXCEPT !.status = status, !.seat = seat])
            /\ reactivated' = (reactivated \/ status = "ACTIVE")
       ELSE UNCHANGED <<pupils, merges, reactivated>>
  /\ UNCHANGED <<open, selection, jobs, begun>>

\* update_section: no current student may sit in a section that is closed.
CloseSection(c) ==
  /\ c \in open /\ \A p \in Active : pupils[p].seat # c
  /\ begun < RecordSteps /\ begun' = begun + 1 /\ open' = open \ {c}
  /\ UNCHANGED <<pupils, desks, merges, selection, jobs, reactivated>>

OpenSection(c) ==
  /\ c \notin open /\ begun < RecordSteps /\ begun' = begun + 1 /\ open' = open \cup {c}
  /\ UNCHANGED <<pupils, desks, merges, selection, jobs, reactivated>>

-----------------------------------------------------------------------------
\* Mutant: the records merged into the source are not looked at.
Mergeable_Chain(t, s) ==
  /\ t # s /\ {t, s} \subseteq Active /\ pupils[t].merged = NoPupil /\ pupils[s].merged = NoPupil
  /\ pupils[t].seat # NoSection /\ pupils[s].seat # NoSection

\* build_manual_merge_plan finds no blocker: two current students, and no row but
\* enrolments and attendance refers to the source.
Mergeable(t, s) ==
  /\ t # s /\ {t, s} \subseteq Active
  /\ \A p \in {t, s} : pupils[p].merged = NoPupil /\ pupils[p].seat # NoSection
  /\ \A p \in Pupils : pupils[p].merged # s

PreviewMerge(t, s) ==
  /\ Mergeable(t, s) /\ merges' = merges \cup {[target |-> t, source |-> s]}
  /\ begun < RecordSteps /\ begun' = begun + 1
  /\ UNCHANGED <<pupils, open, desks, selection, jobs, reactivated>>

\* The source keeps its row, archived; its enrolment goes or becomes history.
Absorb(t, s) ==
  /\ pupils' = [pupils EXCEPT ![s] = [there |-> TRUE, status |-> "ARCHIVED",
                                      merged |-> t, seat |-> NoSection]]
  /\ merges' = Unchanged({t, s})

\* apply_manual_merge locks both students and what belongs to them, makes the plan
\* again and compares the hash.
ApplyMerge(k) ==
  /\ k \in merges /\ SchoolFree /\ Mergeable(k.target, k.source)
  /\ Absorb(k.target, k.source)
  /\ UNCHANGED <<open, desks, selection, jobs, reactivated, begun>>

\* reconcile_group, from the command line: the same section, and no token.
Reconcile(t, s) ==
  /\ SchoolFree /\ Mergeable(t, s) /\ pupils[t].seat = pupils[s].seat
  /\ begun < RecordSteps /\ begun' = begun + 1
  /\ Absorb(t, s)
  /\ UNCHANGED <<open, desks, selection, jobs, reactivated>>

-----------------------------------------------------------------------------
\* merged_into is PROTECT: a student others were merged into cannot be deleted.
Erasable(p) == \A q \in Pupils : pupils[q].merged # p

StartErase(d, p) ==
  /\ pupils[p].there /\ pupils[p].status # "ACTIVE" /\ Begin(d, "erase", p, Gone, NoSection)
  /\ UNCHANGED <<pupils, open, merges, selection, jobs, reactivated>>

\* StudentPurgeView after its check of the status; deleting what is gone is no error.
Erase(d) ==
  LET p == desks[d].pupil IN
  /\ desks[d].op = "erase" /\ Done(d)
  /\ IF Erasable(p) THEN Write(p, Gone) ELSE UNCHANGED <<pupils, merges>>
  /\ UNCHANGED <<open, selection, jobs, reactivated, begun>>

\* Mutant: a job under way does not keep another one from being created.
Busy_Never == FALSE

\* _ensure_no_running_job and the unique constraint behind it.
Busy == \E j \in PurgeJobs : jobs[j].status \in Running

PreviewPurge(S) ==
  /\ S # {} /\ ~Busy /\ \A p \in S : pupils[p].there /\ pupils[p].status # "ACTIVE"
  /\ begun < RecordSteps /\ begun' = begun + 1
  /\ selection' = [p \in S |-> pupils[p].status]
  /\ UNCHANGED <<pupils, open, desks, merges, jobs, reactivated>>

\* create_purge_job: the selection and its statuses are as they were shown.
CreateJob(j) ==
  /\ DOMAIN selection # {} /\ jobs[j] = NoJob /\ ~Busy /\ SchoolFree
  /\ selection' = << >>
  /\ IF \A p \in DOMAIN selection : pupils[p].there /\ pupils[p].status = selection[p]
       THEN jobs' = [jobs EXCEPT ![j] =
              [NoJob EXCEPT !.status = "PENDING", !.left = DOMAIN selection,
                            !.total = Cardinality(DOMAIN selection)]]
       ELSE UNCHANGED jobs
  /\ UNCHANGED <<pupils, open, desks, merges, reactivated, begun>>

\* run_purge_job takes a PENDING job only, whoever delivers it again.
Claimable(job) == job.status = "PENDING"

ClaimJob(j) ==
  /\ Claimable(jobs[j])
  /\ jobs' = [jobs EXCEPT ![j].status = "RUNNING", ![j].alive = TRUE]
  /\ UNCHANGED <<pupils, open, desks, merges, selection, reactivated, begun>>

\* _run_scoped_purge: each student in a transaction of its own, whatever the status
\* is by now.  A protected student counts as failed; one who is gone counts as failed
\* or, when the batch was read before, as deleted.
PurgeOne(j, p, counted) ==
  /\ jobs[j].status = "RUNNING" /\ jobs[j].alive /\ p \in jobs[j].left
  /\ pupils[p].there => counted = Erasable(p)
  /\ jobs' = [jobs EXCEPT ![j].left = @ \ {p},
                          ![j].deleted = IF counted THEN @ + 1 ELSE @,
                          ![j].failed = IF counted THEN @ ELSE @ + 1]
  /\ IF counted THEN Write(p, Gone) ELSE UNCHANGED <<pupils, merges>>
  /\ UNCHANGED <<open, desks, selection, reactivated, begun>>

\* Mutant: the outcome is COMPLETED whatever failed.
Outcome_Completed(job, filesLeft) == "COMPLETED"

Outcome(job, filesLeft) ==
  IF job.deleted = 0 /\ job.failed > 0 THEN "FAILED"
  ELSE IF job.failed > 0 \/ filesLeft THEN "PARTIALLY_FAILED" ELSE "COMPLETED"

\* filesLeft: a file of a deleted student could not be removed from the storage.
FinishJob(j, filesLeft) ==
  /\ jobs[j].status = "RUNNING" /\ jobs[j].alive /\ jobs[j].left = {} /\ SchoolFree
  /\ filesLeft => jobs[j].deleted > 0
  /\ jobs' = [jobs EXCEPT ![j].status = Outcome(jobs[j], filesLeft)]
  /\ UNCHANGED <<pupils, open, desks, merges, selection, reactivated, begun>>

\* The worker is lost; its task comes again and finds the job RUNNING.
WorkerLost(j) ==
  /\ jobs[j].status = "RUNNING" /\ jobs[j].alive
  /\ jobs' = [jobs EXCEPT ![j].alive = FALSE]
  /\ UNCHANGED <<pupils, open, desks, merges, selection, reactivated, begun>>

RecordNext ==
  \/ \E d \in Desks :
       \/ CountSeats(d) \/ Enrol(d) \/ Move(d) \/ Erase(d)
       \/ \E status \in {"ACTIVE", "LEFT"} : SetStatus(d, status)
       \/ \E p \in Pupils :
            \/ StartStatus(d, p) \/ StartErase(d, p)
            \/ \E c \in Sections : StartCreate(d, p, c) \/ StartMove(d, p, c)
  \/ \E c \in Sections : CloseSection(c) \/ OpenSection(c)
  \/ \E t, s \in Pupils : PreviewMerge(t, s) \/ Reconcile(t, s)
  \/ \E k \in merges : ApplyMerge(k)
  \/ \E S \in SUBSET Pupils : PreviewPurge(S)
  \/ \E j \in PurgeJobs :
       \/ CreateJob(j) \/ ClaimJob(j) \/ WorkerLost(j)
       \/ \E answer \in BOOLEAN :
            FinishJob(j, answer) \/ \E p \in Pupils : PurgeOne(j, p, answer)

RecordSpec == RecordInit /\ [][RecordNext]_recordVars

-----------------------------------------------------------------------------
\* The types of the students, the requests, the tokens and the jobs.
RecordTypeOK ==
  /\ pupils \in [Pupils -> Pupil] /\ open \subseteq Sections
  /\ desks \in [Desks -> [op: {"idle", "create", "enrol", "move", "status", "erase"},
                          pupil: Pupils \cup {NoPupil}, row: Pupil,
                          to: Sections \cup {NoSection}]]
  /\ merges \subseteq [target: Pupils, source: Pupils]
  /\ DOMAIN selection \subseteq Pupils
  /\ \A j \in PurgeJobs : jobs[j].left \subseteq Pupils
  /\ reactivated \in BOOLEAN /\ begun \in 0..RecordSteps

\* Merges do not chain, whatever requests overlap: the record a student was merged
\* into is there and is nobody's duplicate, and the duplicate stays archived.
MergesFlat ==
  \A p \in Pupils : pupils[p].merged # NoPupil =>
    /\ pupils[p].status = "ARCHIVED"
    /\ pupils[pupils[p].merged].there /\ pupils[pupils[p].merged].merged = NoPupil

\* Requests that add students at once do not pass the limit of the contract
\* together (reactivating a student is not checked against it).
SeatsWithinLimit == ~reactivated => Cardinality(Active) <= SeatLimit

\* A finished purge accounts for each of its students once; it is COMPLETED only when
\* it counted them all as deleted, and FAILED only when none; one purge runs at a time.
PurgesAddUp ==
  /\ \A j \in PurgeJobs : jobs[j].status \notin Running \cup {"none"} =>
       /\ jobs[j].deleted + jobs[j].failed = jobs[j].total
       /\ jobs[j].status = "COMPLETED" => jobs[j].deleted = jobs[j].total
       /\ jobs[j].status = "FAILED" => jobs[j].deleted = 0
  /\ \A i, j \in PurgeJobs : jobs[i].status \in Running /\ jobs[j].status \in Running => i = j

\* What is promised of the students' records: merges are flat, additions keep to the
\* limit, a purge adds up.
StudentsInvariant == MergesFlat /\ SeatsWithinLimit /\ PurgesAddUp

\* Not kept by the code, each through a row that was read before it changed:
\* a merge is not undone (set_student_status saves merged_into as it read it),
MergeStays ==
  [][\A p \in Pupils : pupils[p].merged # NoPupil /\ pupils'[p].there
        => pupils'[p].merged = pupils[p].merged]_recordVars

\* the purge deletes no active student (docs/DATA_PURGE.md),
ActiveNotPurged ==
  [][\A p \in Active : pupils'[p].there]_recordVars

\* and a student who left has no active enrolment (docs/STUDENT_LIFECYCLE.md; also
\* without overlap: update_student does not ask for the status).
LeftHasNoSeat == \A p \in Pupils : pupils[p].status \in Left => pupils[p].seat = NoSection
=============================================================================
