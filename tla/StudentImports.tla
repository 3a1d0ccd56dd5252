---------------------------- MODULE StudentImports ---------------------------
(***************************************************************************)
(* The import of students from a workbook (backend/students/api/views.py,  *)
(* students/tasks.py, students/services/imports): the jobs of one school,  *)
(* their staged rows and their files, the requests that drive them and the *)
(* two tasks that do the work.                                             *)
(*                                                                         *)
(* The views that start the processing and that cancel read the job        *)
(* without a lock and save it later, each save committed by itself.  The   *)
(* other requests and both tasks lock the job in one transaction, and an   *)
(* import locks the school too, so each of them is a step.  Whether the    *)
(* school still is what the preview compared the rows with is one bit.     *)
(***************************************************************************)
EXTENDS Integers, FiniteSets

CONSTANTS
  Imports,      \* StudentImportJobs
  NoImport,
  Browsers,     \* request threads
  ImportSteps,  \* bound on the requests that begin
  ImportFaults  \* bound on lost messages, dead threads and failed transactions

ASSUME ImportBounds == {ImportSteps, ImportFaults} \subseteq Nat
ASSUME ImportApart == NoImport \notin Imports

VARIABLES
  imports,   \* [Imports -> the job's row, its staged rows and its file]
  clicks,    \* [Browsers -> what the request has read and has still to do]
  parsing,   \* [Imports -> messages for process_import_job]
  applying,  \* [Imports -> messages for commit_student_import_job]
  failing,   \* imports whose commit was rolled back, before the task says so
  yearOpen,  \* the year of the jobs may still be imported into
  abandoned, \* history: imports whose message or request was lost
  broken,    \* history: imports whose task ended in an error it could not write
  inactive,  \* history: imports that were found to name a section that is not active
  applied,   \* history: [Imports -> how often its rows were applied]
  clicked, mishaps  \* requests begun, faults so far

importVars == <<imports, clicks, parsing, applying, failing, yearOpen, abandoned, broken,
                inactive, applied, clicked, mishaps>>

\* file: what the row refers to; stored: what the storage holds; flagged: invalid_rows or
\* duplicate_rows is not zero; fresh: comparing the rows with the school would still say
\* what the preview says.
Import == [status: {"none", "UPLOADED", "PROCESSING", "READY", "IMPORTING", "COMPLETED",
                    "FAILED", "CANCELLED"},
           file: BOOLEAN, stored: BOOLEAN, rows: {"none", "bad", "good"},
           flagged: BOOLEAN, fresh: BOOLEAN]

NoUpload == [status |-> "none", file |-> FALSE, stored |-> FALSE, rows |-> "none",
             flagged |-> FALSE, fresh |-> TRUE]

\* The job after its rows have been compared with the school and counted.
Compared(job, rows) == [job EXCEPT !.rows = rows, !.flagged = rows = "bad", !.fresh = TRUE]

NoClick == [op |-> "rest", import |-> NoImport, file |-> FALSE]

ImportInit ==
  /\ imports = [i \in Imports |-> NoUpload] /\ clicks = [b \in Browsers |-> NoClick]
  /\ parsing = [i \in Imports |-> 0] /\ applying = [i \in Imports |-> 0]
  /\ failing = {} /\ yearOpen = TRUE /\ abandoned = {} /\ broken = {} /\ inactive = {}
  /\ applied = [i \in Imports |-> 0] /\ clicked = 0 /\ mishaps = 0

-----------------------------------------------------------------------------
Working == {"PROCESSING", "IMPORTING"}

\* Mutant: the unique constraint on the imports that run is missing.
Alone_Always(i) == TRUE

\* uniq_running_import_per_school refuses a save that makes a second import run.
Alone(i) == \A k \in Imports \ {i} : imports[k].status \notin Working

Click == clicked < ImportSteps /\ clicked' = clicked + 1
Mishap == mishaps < ImportFaults /\ mishaps' = mishaps + 1

Put(i, status) == imports' = [imports EXCEPT ![i].status = status]
Turn(b, op) == clicks' = [clicks EXCEPT ![b].op = op]
Rest(b) == clicks' = [clicks EXCEPT ![b] = NoClick]

Open(b, op, i) ==
  /\ clicks[b] = NoClick /\ Click
  /\ clicks' = [clicks EXCEPT ![b] = [op |-> op, import |-> i, file |-> imports[i].file]]
  /\ UNCHANGED <<imports, parsing, applying, failing, yearOpen, broken, inactive, abandoned, applied, mishaps>>

\* ImportUploadView.post
Upload(i) ==
  /\ imports[i] = NoUpload /\ yearOpen /\ Click
  /\ imports' = [imports EXCEPT ![i].status = "UPLOADED", ![i].file = TRUE, ![i].stored = TRUE]
  /\ UNCHANGED <<clicks, parsing, applying, failing, yearOpen, broken, inactive, abandoned, applied, mishaps>>

\* ImportProcessView: the check, the save and the message.
ProcessRead(b, i) ==
  imports[i].status \in {"UPLOADED", "READY", "FAILED"} /\ Open(b, "process", i)

ProcessSave(b) ==
  LET i == clicks[b].import IN
  /\ clicks[b].op = "process"
  /\ IF Alone(i) THEN Put(i, "PROCESSING") /\ Turn(b, "send") /\ broken' = broken \ {i}
     ELSE UNCHANGED <<imports, broken>> /\ Rest(b)
  /\ UNCHANGED <<parsing, applying, failing, yearOpen, inactive, abandoned, applied, clicked, mishaps>>

ProcessSend(b) ==
  LET i == clicks[b].import IN
  /\ clicks[b].op = "send"
  /\ parsing' = [parsing EXCEPT ![i] = @ + 1] /\ Rest(b)
  /\ UNCHANGED <<imports, applying, failing, yearOpen, broken, inactive, abandoned, applied, clicked, mishaps>>

\* ImportCancelView: the check, then three statements outside a transaction.
CancelRead(b, i) ==
  imports[i].status \notin {"none", "COMPLETED", "IMPORTING"} /\ Open(b, "cancel", i)

CancelSave(b) ==
  /\ clicks[b].op = "cancel" /\ Put(clicks[b].import, "CANCELLED") /\ Turn(b, "wipe")
  /\ UNCHANGED <<parsing, applying, failing, yearOpen, broken, inactive, abandoned, applied, clicked, mishaps>>

CancelWipe(b) ==
  /\ clicks[b].op = "wipe"
  /\ imports' = [imports EXCEPT ![clicks[b].import].rows = "none", ![clicks[b].import].fresh = TRUE]
  /\ Turn(b, "shred")
  /\ UNCHANGED <<parsing, applying, failing, yearOpen, broken, inactive, abandoned, applied, clicked, mishaps>>

\* The file as the view read it.
CancelShred(b) ==
  LET i == clicks[b].import IN
  /\ clicks[b].op = "shred" /\ Rest(b)
  /\ imports' = IF clicks[b].file
       THEN [imports EXCEPT ![i].file = FALSE, ![i].stored = FALSE] ELSE imports
  /\ UNCHANGED <<parsing, applying, failing, yearOpen, broken, inactive, abandoned, applied, clicked, mishaps>>

\* ImportRowCorrectionView and correct_row: all rows are compared again.
CorrectRow(i) ==
  /\ imports[i].status = "READY" /\ imports[i].rows # "none" /\ Click
  /\ \E rows \in {"bad", "good"} : imports' = [imports EXCEPT ![i] = Compared(@, rows)]
  /\ UNCHANGED <<clicks, parsing, applying, failing, yearOpen, broken, inactive, abandoned, applied, mishaps>>

\* ImportCommitView; the message goes out after the commit, or is lost with the thread.
Confirm(i) ==
  /\ imports[i].status = "READY" /\ ~imports[i].flagged /\ Alone(i) /\ Click
  /\ Put(i, "IMPORTING") /\ broken' = broken \ {i}
  /\ \/ /\ applying' = [applying EXCEPT ![i] = @ + 1]
        /\ UNCHANGED <<abandoned, mishaps>>
     \/ /\ Mishap /\ abandoned' = abandoned \cup {i}
        /\ UNCHANGED applying
  /\ UNCHANGED <<clicks, parsing, failing, yearOpen, inactive, applied>>

-----------------------------------------------------------------------------
\* A task acknowledges its message when it ends; when the worker dies in between the
\* message comes again.
Take(messages, i) == [messages EXCEPT ![i] = @ - 1]

\* process_import_job, when its one transaction commits: also what it catches, an
\* unreadable workbook or an error that is none of the database, commits as FAILED.
Parse(i) ==
  LET job == imports[i]
      readable == job.file /\ job.stored
  IN
  /\ parsing[i] > 0
  /\ \/ parsing' = Take(parsing, i) /\ UNCHANGED mishaps
     \/ Mishap /\ UNCHANGED parsing
  /\ \/ job.status # "PROCESSING" /\ UNCHANGED imports
     \/ /\ job.status = "PROCESSING" /\ readable
        /\ \E rows \in {"bad", "good"} :
             imports' = [imports EXCEPT ![i] = [Compared(job, rows) EXCEPT !.status = "READY"]]
     \/ job.status = "PROCESSING" /\ Put(i, "FAILED")
  /\ UNCHANGED <<clicks, applying, failing, yearOpen, broken, inactive, abandoned, applied, clicked>>

\* Mutant: the task, too, refuses an import that is already confirmed.
Acceptable_ReadyOnly == {"READY"}

\* allow_importing
Acceptable == {"READY", "IMPORTING"}

\* Mutant: the rows are not deleted with the file.
Cleared_KeepsRows(job) == [job EXCEPT !.status = "COMPLETED"]

Cleared(job) ==
  [job EXCEPT !.status = "COMPLETED", !.rows = "none", !.file = FALSE,
              !.stored = IF job.file THEN FALSE ELSE @]

\* The outcomes of _commit_locked, under the locks of the school and of the job: the
\* year is over, the preview is stale and is written again (not the counters that the
\* views go by), rows need review, the limit is reached, or the rows are applied and
\* everything temporary goes.
Commit(i) ==
  LET job == imports[i] IN
  \/ ~yearOpen /\ Put(i, "FAILED") /\ UNCHANGED applied
  \/ /\ yearOpen /\ ~job.fresh
     /\ \E rows \in {"bad", "good"} :
          imports' = [imports EXCEPT ![i].status = "READY", ![i].rows = rows, ![i].fresh = TRUE]
     /\ UNCHANGED applied
  \/ /\ yearOpen /\ job.fresh /\ job.rows # "none" /\ (job.rows = "good" => Alone(i))
     /\ Put(i, "READY") /\ UNCHANGED applied
  \/ /\ yearOpen /\ job.fresh /\ job.rows # "bad" /\ Alone(i)
     /\ imports' = [imports EXCEPT ![i] = Cleared(job)]
     /\ applied' = [applied EXCEPT ![i] = IF job.rows = "good" THEN @ + 1 ELSE @]

\* commit_student_import_job
Apply(i) ==
  /\ applying[i] > 0 /\ i \notin failing
  /\ \/ applying' = Take(applying, i) /\ UNCHANGED mishaps
     \/ Mishap /\ UNCHANGED applying
  /\ IF imports[i].status \in Acceptable THEN Commit(i) ELSE UNCHANGED <<imports, applied>>
  /\ UNCHANGED <<clicks, parsing, failing, yearOpen, broken, inactive, abandoned, clicked>>

\* A row names a section or a grade that is not active: the preview does not look at
\* that.  The error rolls the transaction back and ends the task as one that the
\* service has already written into the job, which is still IMPORTING.
ApplyRefuses(i) ==
  LET job == imports[i] IN
  /\ applying[i] > 0 /\ i \notin failing /\ job.status \in Acceptable
  /\ yearOpen /\ job.fresh /\ job.rows = "good" /\ Alone(i)
  /\ applying' = Take(applying, i) /\ inactive' = inactive \cup {i}
  /\ UNCHANGED <<imports, clicks, parsing, failing, yearOpen, abandoned, broken, applied, clicked, mishaps>>

\* Another exception rolls it back (a deadlock with a request that edits a student,
\* another import that runs), or the worker dies and the message comes again; the
\* storage does not give back what it has deleted by then.
ApplyRaises(i) ==
  LET job == imports[i] IN
  /\ applying[i] > 0 /\ i \notin failing /\ job.status \in Acceptable
  /\ \/ ~Alone(i) /\ failing' = failing \cup {i} /\ UNCHANGED mishaps
     \/ Mishap /\ (failing' = failing \cup {i} \/ UNCHANGED failing)
  /\ \/ UNCHANGED imports
     \/ /\ yearOpen /\ job.fresh /\ job.rows # "bad" /\ job.file /\ Alone(i)
        /\ imports' = [imports EXCEPT ![i].stored = FALSE]
  /\ UNCHANGED <<clicks, parsing, applying, yearOpen, broken, inactive, abandoned, applied, clicked>>

\* _fail_student_commit looks for COMPLETED without a lock and then saves.
ApplyFails(i) ==
  /\ i \in failing /\ failing' = failing \ {i} /\ applying' = Take(applying, i)
  /\ \/ Put(i, "FAILED")
     \/ imports[i].status = "COMPLETED" /\ UNCHANGED imports
  /\ UNCHANGED <<clicks, parsing, yearOpen, broken, inactive, abandoned, applied, clicked, mishaps>>

\* A task ends in an error and its message is not delivered again: the database fails
\* outside its transaction, or at COMMIT, or inside process_import_job's, where the save
\* of _fail then fails as well; or _fail_student_commit raises.  The job stays as it is.
TaskRaises(i) ==
  /\ Mishap /\ broken' = broken \cup {i}
  /\ \/ /\ parsing[i] > 0 /\ parsing' = Take(parsing, i)
        /\ UNCHANGED <<applying, failing>>
     \/ /\ applying[i] > 0 /\ applying' = Take(applying, i) /\ failing' = failing \ {i}
        /\ UNCHANGED parsing
  /\ UNCHANGED <<imports, clicks, yearOpen, abandoned, inactive, applied, clicked>>

-----------------------------------------------------------------------------
\* Any other write to the school's students, enrolments or sections.
SchoolChanges ==
  /\ Click
  /\ imports' = [i \in Imports |-> [imports[i] EXCEPT !.fresh = imports[i].rows = "none"]]
  /\ UNCHANGED <<clicks, parsing, applying, failing, yearOpen, broken, inactive, abandoned, applied, mishaps>>

YearCloses ==
  /\ yearOpen /\ yearOpen' = FALSE /\ Click
  /\ UNCHANGED <<imports, clicks, parsing, applying, failing, abandoned, broken, inactive, applied, mishaps>>

\* A web process dies in a request that has begun to write.
RequestDies(b) ==
  /\ clicks[b].op \in {"send", "wipe", "shred"} /\ Mishap /\ Rest(b)
  /\ abandoned' = abandoned \cup {clicks[b].import}
  /\ UNCHANGED <<imports, parsing, applying, failing, yearOpen, broken, inactive, applied, clicked>>

\* The broker loses a message.
MessageLost(i) ==
  /\ Mishap /\ abandoned' = abandoned \cup {i}
  /\ \/ parsing[i] > 0 /\ parsing' = Take(parsing, i) /\ UNCHANGED applying
     \/ applying[i] > 0 /\ i \notin failing /\ applying' = Take(applying, i) /\ UNCHANGED parsing
  /\ UNCHANGED <<imports, clicks, failing, yearOpen, broken, inactive, applied, clicked>>

ImportNext ==
  \/ \E b \in Browsers :
       \/ ProcessSave(b) \/ ProcessSend(b) \/ CancelSave(b) \/ CancelWipe(b) \/ CancelShred(b)
       \/ RequestDies(b)
       \/ \E i \in Imports : ProcessRead(b, i) \/ CancelRead(b, i)
  \/ \E i \in Imports :
       \/ Upload(i) \/ CorrectRow(i) \/ Confirm(i) \/ Parse(i)
       \/ Apply(i) \/ ApplyRefuses(i) \/ ApplyRaises(i)
       \/ ApplyFails(i) \/ TaskRaises(i) \/ MessageLost(i)
  \/ SchoolChanges \/ YearCloses

ImportSpec == ImportInit /\ [][ImportNext]_importVars

-----------------------------------------------------------------------------
\* The types of the jobs, the requests and the messages.
ImportTypeOK ==
  /\ imports \in [Imports -> Import]
  /\ clicks \in [Browsers -> [op: {"rest", "process", "send", "cancel", "wipe", "shred"},
                              import: Imports \cup {NoImport}, file: BOOLEAN]]
  /\ parsing \in [Imports -> Nat] /\ applying \in [Imports -> Nat]
  /\ failing \subseteq Imports /\ abandoned \subseteq Imports
  /\ broken \subseteq Imports /\ inactive \subseteq Imports
  /\ yearOpen \in BOOLEAN /\ applied \in [Imports -> Nat]
  /\ clicked \in 0..ImportSteps /\ mishaps \in 0..ImportFaults

\* An import that keeps every other import of the school out has its task on the way,
\* whichever saves overtook each other, unless a request or a message was lost, the rows
\* name an inactive section, or a task that was sent for it since ended in an error that
\* could not be written into the job (which then keeps the others out).
WorkIsQueued ==
  \A i \in Imports \ (abandoned \cup broken) :
    /\ imports[i].status = "PROCESSING" =>
         parsing[i] > 0 \/ \E b \in Browsers : clicks[b].op = "send" /\ clicks[b].import = i
    /\ imports[i].status = "IMPORTING" => applying[i] > 0 \/ i \in inactive

\* At most one import of a school runs.
OneRuns == Cardinality({i \in Imports : imports[i].status \in Working}) <= 1

\* The rows of a workbook are applied at most once, although messages come again and
\* a completed job can be put back to PROCESSING or CANCELLED by a late save.
AppliedOnce == \A i \in Imports : applied[i] <= 1

\* Rows and file do not outlive the end of an import (docs/STUDENT_IMPORT.md), whatever
\* was processed between the steps of a cancellation.
NothingLeft ==
  \A i \in Imports \ abandoned :
    /\ imports[i].status = "COMPLETED" => imports[i].rows = "none" /\ ~imports[i].stored
    /\ imports[i].status = "CANCELLED" =>
         \/ imports[i].rows = "none" /\ ~imports[i].stored
         \/ \E b \in Browsers : clicks[b].import = i /\ clicks[b].op \in {"wipe", "shred"}

\* What is promised of imports: one runs, its work is queued, its rows count once, and
\* nothing of it is left.
ImportsInvariant == WorkIsQueued /\ OneRuns /\ AppliedOnce /\ NothingLeft

\* "The service has written business errors into the job" (students/tasks.py): a
\* confirmed import whose task has ended is not IMPORTING any more.  The code does not
\* do it for an inactive section: nothing can be imported into the school then.
ErrorsSettle ==
  \A i \in Imports \ (abandoned \cup broken) : imports[i].status = "IMPORTING" => applying[i] > 0

\* Nor kept by the code: an import whose students were created is not shown as cancelled
\* or failed (the views save over a status they read before),
CommitIsFinal ==
  [][\A i \in Imports : imports[i].status = "COMPLETED" => imports'[i].status = "COMPLETED"]_importVars

\* the counters agree with the rows (a stale preview is written without them),
CountersAgree ==
  \A i \in Imports : imports[i].status = "READY" /\ imports[i].rows # "none"
    => imports[i].flagged = (imports[i].rows = "bad")

\* and a cancelled import is not taken up again.
CancelIsFinal ==
  [][\A i \in Imports : imports[i].status = "CANCELLED" => imports'[i].status = "CANCELLED"]_importVars
=============================================================================
