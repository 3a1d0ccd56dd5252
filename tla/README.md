# TLA+ models of xmansx

xmansx is a multi-school system for student attendance and everything around it:
a Django/DRF backend on PostgreSQL (`src/backend`), a React front end, Celery
workers, and a Python bridge that reads fingerprint devices in a school
(`src/bridge`). This directory models the backend and the bridge: what their
requests, tasks and devices do to shared rows when they overlap, fail in the
middle, or are repeated. Every stage is a separate transaction, PostgreSQL runs
at READ COMMITTED, and two requests for the same row may interleave at every
query; that is where the program is hard to test.

## 1. Inventory

| component | state | operations | interaction | hard behaviour |
|---|---|---|---|---|
| attendance sessions | session rows with `updated_at`, marks, change log, roster fingerprint | start, submit, edit, correct one student | browser tabs; calls coverage, summary and warnings after its commit | tabs with old forms, two teachers opening at once, a roster that changes |
| absence excuses | excuses, targets, coverages | create (direct or pending), update, reject, preview, approve, cancel, reconcile | called by every attendance change; changes summaries | reconciliation against cancellation, approval and creation; foreign-key locks; deadlock |
| daily summary | one row per student and date | recalculate, repair | called by sessions and excuses; ends with the reconciliation of warnings | reads outside the transaction, lost updates |
| student warnings | rules, warnings with their snapshot | update rules, issue, void, reconcile | called inside the summary's transaction; voids documents | check-then-insert, overlapping corrections |
| documents | documents and their files | generate, retry, void | voided with their warning | rendering between two transactions, retries |
| devices and morning arrivals | the bridge's queue, device events, identities, arrivals | poll, flush, ingest a batch, apply events, correct by hand | HTTP from the bridge; reconciles lateness warnings | redelivery, restarts, events out of order, a batch that is refused for ever |
| roster sync | jobs and items, the users on the device | analyse, approve, hand out commands, report, retry | through the bridge's heartbeats | lost answers, requests that overlap, handlers without locks |
| absence SMS | notices, settings | queue, claim, send, finish | reads summaries; Celery | at-least-once tasks, ambiguous answers |
| recovery email | the account's recovery address, deliveries, tokens | enrol, request, prepare, send, verify, reset | Celery, mail provider | one-time tokens, a send between two transactions |
| guardian access | requests, relations, links, invitations | register, decide, issue, complete, accept | triggers of the database; students' contact data | a contact that changes under a link |
| guardian requests and inbox | excuses and corrections asked for, publications, notices | submit, decide, publish, revoke, acknowledge | excuses, sessions, warnings | decisions about what has changed meanwhile |
| account recovery reviews | case, evidence, two reviews | intake, review, cancel | versions raised by triggers | evidence that expires between the reviews |
| referrals, counseling, leaves | cases and their status | one transition per request | students, staff scopes | stale transitions |
| students, imports | pupils, enrolments, purge and import jobs | add, move, merge, purge, import | Celery, contract limits | merges against additions, cancelled imports |
| calendar | years, semesters, official sources | create, activate, close, apply | every dated record | manual changes against the official source |
| contracts and entitlements | contracts, events, the cache | trial, activate, extend, suspend, expire; cached reads | limits used by students and staff | nightly task against administrators, stale cache |
| staff | memberships, roles, scopes, import jobs | hire, invite, suspend, remove, transfer, import | referrals are routed by scopes | the last manager, seats, stale prefetches |
| accounts, platform team, operations, dashboard, analytics, audit, config, front end, infra | none of their own, or append-only, or set-up | reads | – | – |

What makes the modelled ones correct is what the runs check (section 3).
`PROJECT.json` lists every component with its status and, under `hazards`, what
can go wrong at which line.

## 2. Modules

| module | models | composed with |
|---|---|---|
| `AttendanceSheet` | abstract specification: a sheet that is submitted once and replaced as a whole by somebody who has seen its present contents | |
| `AttendanceSessions` | the sessions of one section on one date | implements `AttendanceSheet` (INSTANCE with a refinement mapping) |
| `ExcuseCoverage` | excuses and coverages of one date | its own abstraction of submissions and edits |
| `DailySummary` | the rows of one section on one date | abstracts coverages to a set of pairs |
| `StudentWarnings` | rules and warnings of one student and type | abstracts the summary to the days that count |
| `WarningDocuments` | documents of warnings | EXTENDS `StudentWarnings`; a step that voids a warning voids its documents |
| `DeviceIngest` | one device user's events from the bridge's queue to the arrival of the day | bridge, server and staff in one module |
| `RosterSync` | the users of one device and the jobs that synchronise them | bridge and server in one module |
| `AbsenceSms`, `RecoveryEmail` | what is sent, and the workers that send it | |
| `GuardianAccess`, `FamilyRequests`, `FamilyInbox`, `AccountRecovery` | the parents portal | each has the others' effects as events |
| `StudentReferrals`, `CounselorCases`, `StudentLeaves` | the workflows around a student | |
| `StudentRecords`, `StudentImports`, `AcademicCalendar` | what a school keeps | |
| `SubscriptionContracts`, `EntitlementCache` | the school's contract and its cached limits | |
| `StaffMembers` | staff, scopes, routing, staff imports | |
| `AttendanceSessionsProofs`, `ExcuseCoverageProofs`, `GuardianProofs`, `StaffProofs` | theorems about one component | EXTEND it |
| `DeliveryProofs`, `CasesProofs`, `RecordsProofs`, `SchoolProofs` | theorems about the components of a run, one section for each, and about their composition | EXTEND `MCDelivery`, `MCCases`, `MCRecords` (and `WarningDocuments`), `MCSchool` |
| `MC*` | instances for TLC: symmetry sets, constant tuples, and the components a run takes together | |

How code becomes actions. A worker, client, clerk, desk or manager is a request
thread. At READ COMMITTED a query sees what was committed when it started, so a
service is cut into one action per group of reads no lock protects and one for
its writes and commit; a transaction whose reads are all under a row lock is a
single action. A record variable holds what the request has read, and its `pc`
says what it does next. Row locks are read off those records (`ExcuseFree`,
`StudentFree`, `WarningFree`, `RowFree`), so that they are released by
construction when the transaction ends. A call to a provider, a device or the
broker lies between two transactions and may fail, be repeated or be answered
too late where the code handles that.

`AttendanceSessions`. `version` is `updated_at`, which every save moves;
`fingerprint` the roster fingerprint; the tab reads the row first and the marks
by a later query (`LoadRow`, `LoadMarks`). `Submit`, `EditSession` and
`CorrectStudent` are the three services with their role and version checks;
`SubmitRosterChanged` is the refused submission that still stores the new
fingerprint. `Transfer` moves a student in or out of the section.

`ExcuseCoverage`. A full-day target is the scope of all periods. An excuse of
`create_excuse(approve_immediately=True)` is CREATING until its transaction
commits. `ReconcileRead`, `ReconcileLock` and `ReconcileWrite` are
`reconcile_excuse_coverage_for_date`: the two queries before the lock, the lock
with the query of the marks, and the writes. Inserting a mark, a change, an
excuse or a coverage refers to the student, so its COMMIT takes FOR KEY SHARE on
the student's row (Django declares foreign keys DEFERRABLE INITIALLY DEFERRED)
and waits for `create_excuse`, which locks it, and for `approve_excuse`, whose
FOR UPDATE joins it. These waits matter: without them `QuietAbsenceCovered`
fails in `coverage`. They also close a cycle with the locks of the excuses,
so `DeadlockVictim` rolls one transaction of a deadlock back, as PostgreSQL
does. `Crash` rolls back any. `unsettled` is a history variable: the absences that
were taken back, or that a reconciliation left uncovered when it was rolled back,
until they are recorded anew while no other request is under way.

`DailySummary`. One action per query of
`recalculate_daily_attendance_for_section`, then the lock of the rows and the
commit. The requests that call it are `ChangeAttendance`, `DecideExcuse` and
`Repair`; the coverages they leave are any set, which includes those
`ExcuseCoverage` can reach. `overlapped` is a history variable: it records that
the request that began last found another under way.

`StudentWarnings`. `IssueStart`, `IssueLevels`, `IssueMetric` and `IssueInsert`
are the queries of `issue_student_warning`; `CorrectDay`, `LockWarnings` and
`CommitDay` a recalculation with `reconcile_issued_warnings`, which waits for the
warnings it saw and checks their status again; `LockRules` and `WriteRules` are
`update_rules`.

`WarningDocuments`. `CreateDocument`, `ProduceFile` and `MarkFailed` are the
transactions of a generation, each of which locks the warning first; the
rendering lies between them. `RetryRead` is the view's read before it asks for a
slot. `ProduceFails` are the failures that are caught (rendering, the limit of the
storage); `RequestBreaks` is a death or an exception that nothing catches, such as
an error of the file storage or the database, and the history variable `abandoned`
keeps the documents that it leaves PENDING.

`DeviceIngest`. The bridge persists an event before it acknowledges it to the
device, sends the oldest batch first, and sends it again after a timeout, so two
requests may ingest the same events. On the server the insert of the events, the
matching with an identity, the arrival row (created, then locked, then written)
and the event's state are steps of their own. Staff map identities, enter and
correct arrivals. A mapping reads its list of events once and then saves them one
by one; the history variable `crossed` records that two mappings were between
their lists and their ends at the same time, after which the state that one of
them saves need not be that of an event with an arrival. A refusal of the
credential (`Refuse`) passes and counts as a fault; that of a batch with an event
of `Malformed` (`Reject`) comes every time the batch is sent.

`RosterSync`. Analyse, compare, approve; the commands leave with a heartbeat,
are executed on the device one by one, and their results come back, possibly
late or twice. No handler opens a transaction or takes a lock, so every statement
that writes is a step: `serving` holds, for each thread of the server, the request
of the bridge that it serves and the rows it has read and not yet saved, `manager`
the same for the requests of a manager. `bridge.call` is the thread the bridge
waits for; when its answer is late or an error, the client sends the request again
or, after the last attempt, goes on (`Unanswered`, `Breaks`: `SentAgain`,
`GivenUp`), while the thread runs to its end. Five attempts are not counted: `SentAgain` is
bounded by the faults. An item is kept under its device id and the analysis that
made its row, so that the save of a row that is gone raises as in the code
(`RowGone`). `NoBlindWrite` says that what reaches the device was compared with it
after the approval, or is of a job that a late analysis gave new items when it was
over for them (history variables `confirmed` and `reanalysed`). `SucceededStays`
excepts the items that a request being served has read before they succeeded, and
the jobs whose items a late analysis is to clear (`Overtaken`).

`AbsenceSms`. A desk queues in one transaction and hands the task to the broker
after it; a sender claims the notice, calls the provider outside any
transaction, and stores the answer. A dead worker's task is delivered again.

`RecoveryEmail`. Tokens are used once, end with a change of the password or of
the address, and are made in the transaction before the one that sends them.

`GuardianAccess`. One mobile number, a family of students. Links and invitations
are claimed, sent and stored in two transactions; the triggers of migrations
0002 and 0010 are conditions of the steps they guard.

`FamilyRequests`, `FamilyInbox`, `AccountRecovery`. Every operation locks its
row, so each is one step; what makes them interact is the order of the steps and
the events of the outside (edits, voided warnings, suspended relations, expiry).
The office records an excuse directly (`OfficeExcuse`) or approves one that was
PENDING (`ApprovePending`). The second compares no targets, so that they may
overlap those of a guardian's excuse; `reviewed` remembers it, `ExcusedOnce` excepts
that excuse, and that an absence has one coverage all the same is
`ApprovedAsPreviewed` and the unique constraint of `ExcuseCoverage`.

`StudentReferrals`, `StudentLeaves`. One locked transaction per operation.
`CounselorCases` reads in the view and writes later, so it has a clerk between.

`StudentRecords`. `pupils` are the rows, `closed` and the enrolments what a
merge moves; a merge token is valid only while the rows it was made from are
what they were. `StudentImports` has the task messages as state, because a task
may be delivered twice or never; a preview is stale once rows it was made from
changed, and a cancelled import without rows has none to be stale. `Parse` is the
parsing task when its one transaction commits, which includes the failures it
catches; `TaskRaises` is a task that ends in an error it cannot write into the job,
since the database refuses `_fail`'s save too, and the history variable `broken`
keeps those imports.
`AcademicCalendar` has operations as functions on a book of years and terms, since
every one of them holds the school's row. The loop of the application over the
official years is `AllEnsured`, a recursive function over the snapshot; after it
the code ensures the current year once more, and so does `Applied`.

`SubscriptionContracts`. The nightly task reads all contracts and saves them one
by one; the other operations wait for a row. `EntitlementCache` splits a read
into the pointer, the version, the query and the store.

`StaffMembers`. A tab holds the membership its view has read with its roles; the
service checks and writes that. The scopes keep rows locked, so a transfer is
one step, and so is the routing of a referral after its read.

## 3. Runs

Several runs take components that share no row. A variable `turn` chooses one of
them for the whole behaviour and the others stay at their initial state, so that
the instance is the disjoint union of theirs; constants of different components
may then have the same model values, which lets one symmetry group serve all.
The properties of such a run are conjunctions of the named invariants (action
formulas) of the modules; each part has its own mutant.

Passing runs (TLC explores the whole instance):

| run | instance | shows |
|---|---|---|
| `sessions` | 1 period, 1 student, a teacher and 2 administrators, 4 versions | types, `ChangeLogExplains`, `FormIsCurrent`, `NoLostUpdate`, and that the services implement `AttendanceSheet` |
| `coverage` | 2 periods, 1 student, 2 excuses, 2 threads, 2 attendance changes, crashes | types, `ActiveIsBacked`, `DirectDisjoint`, `ApprovedAsPreviewed`, `DecidedIsFinal`; `QuietAbsenceCovered`: between requests, an absence in the targets of an approved excuse is covered |
| `coverage_live` | 2 periods, 1 student, 2 excuses, 2 threads that do not die, 1 change, strong fairness | `RequestsEnd`: every request ends; the cycle in which a reconciliation holds an excuse and a creation its student is reached, and only `DeadlockVictim` ends it |
| `documents` | 1 warning, 2 documents, 3 clerks of whom any may break off, 2 render slots, strong fairness | `DocInvariant` (types, no document of a voided warning, one live document), `PendingEnds`: a document leaves PENDING unless its own request breaks off |
| `devices_live` | 3 events of which one is malformed, batches of 2, 2 requests, 1 manager, 1 fault, fairness of bridge and requests | `EventsDrain`: every queued event is acknowledged in the end, unless a malformed event comes to the head of the queue with it or before it; from then on nothing is |
| `delivery` | 2 desks and 2 senders; 2 addresses and 2 deliveries; 1 pupil, 1 local user, 2 jobs, 2 threads that serve the bridge, 2 managers; one fault and one change each | `SmsInvariant`, `MailInvariant`, and `DeliveryKept`: no device is written without a comparison after the approval (or a late analysis), links end with the secret they were made for, unknown users stay, and items that succeeded, but for a request that had read the job before |
| `guardians` | 2 siblings, 2 requests, 3 links, 1 invitation, 2 events | `BoundIsVouched`, `LinksInvariant` (one open link, whole families) |
| `cases` | 2 of every kind of actor; 2 referrals, 3 leaves, 2 plans, 2 petitions, 2 notices, one recovery case | `CounselingInvariant`, `LeavesInvariant`, `PortalInvariant`, `ReviewInvariant`, `EndedRests` |
| `records` | 2 days, 2 levels, 2 warnings, 2 threads; 2 periods; 2 contracts, 2 administrators; 2 readers of the cache | `WarningsInvariant`, `RowsInvariant`, `ContractsInvariant`, `RecordsKept` |
| `school` | 2 events and a malformed one, 2 requests, 1 manager; 3 pupils, 2 desks, 2 purge jobs; 2 imports and 2 browsers; 2 years, 2 official calendars | `IngestInvariant`, `StudentsInvariant`, `ImportsInvariant`, `CalendarInvariant`, `SchoolKept` |
| `staff` | 3 people, 2 requests, 1 section, 1 import, a limit of 2 | `StaffInvariant` (one manager, seats, routing, imports counted once), `StaffKept` |

One run ends in a violation (`findings` in `PROJECT.json`): `coverage_orphan`.
Two overlapping reconciliations leave an ACTIVE coverage for a student marked
present, because the second listed the ACTIVE rows before it waited for the lock
under which the first inserted one.

Further places where the code and what is written about it part. The modules
state each as a formula (named in parentheses, where there is one), and no
passing run checks it:

* a refused submission refreshes the fingerprint for every tab, and a stale tab
  is then accepted (`SubmitterSawRoster`; `sessions.py:337`, `docs/ATTENDANCE.md:54`);
* an absence can stay uncovered although an approved excuse targets it
  (`AbsenceAlwaysCovered`; `docs/ABSENCE_EXCUSES.md:173`): when the reconciliation
  that was to cover it dies or is the victim of a deadlock, since nothing repeats
  it (`coverage.py:376`); and when it is taken back and recorded again while the
  reconciliation that voids its coverage still runs, since the second one has
  listed the ACTIVE rows before it waited (`coverage.py:361`) and takes the voided
  one for kept. `QuietAbsenceCovered` excepts these two cases and no other;
* a correction between the check and the INSERT leaves a warning below its
  threshold (`QuietIssuedSupported`; `issuance.py:176` against line 7);
* of two retries one makes the document READY and the other marks it FAILED
  (`ReadyIsFinal`; `generation.py:345`, `docs/GENERATED_DOCUMENTS.md:67`);
* a document whose file cannot be stored, or whose request dies, stays PENDING:
  `generation.py:286` catches `ApiError` only, a retry takes FAILED documents, and a
  new one is refused until somebody voids it (`PendingEnds` excepts it);
* the recalculation that read first writes last (`QuietFresh`;
  `daily_summary.py:168`, `docs/DAILY_ATTENDANCE.md:36`);
* two batches that create the same day keep the later time (`QuietEarliest`;
  `morning.py:113` against line 6);
* of two mappings that overlap one saves IGNORED for an event of which the other
  has made an arrival: each works off the list it read before it began
  (`ArrivalBacked` holds without `crossed` only when mappings do not overlap;
  `ingest.py:202-230`);
* an event that the server does not accept blocks the bridge's queue for ever: the
  batch with it is refused as a whole (`devices/api/serializers.py:230-244`), the
  client raises and does not repeat (`client.py:4-5`, "4xx: no blind retry, to be
  repaired"; `client.py:40`), and `flush` takes the same oldest rows in the next
  cycle (`engine.py:82-97`), where nothing marks or skips them (`EventsDrain`
  excepts it);
* a request of the bridge that was given up, or sent again, and is still served can
  write what it read before: FAILED_RETRYABLE or RUNNING over an item that
  SUCCEEDED, or new items, none of them reviewed, into a job that was approved
  meanwhile (`views.py:794-829`, `846-855`, `926-937`; `client.py:13,49,59-68`),
  against `docs/DEVICE_ROSTER_SYNC.md:77` ("accepted without a second write").
  `SucceededStays` and `NoBlindWrite` except these overlaps and nothing else;
* an import of the roster overwrites the number a device user was known by
  (`KnownIdPreserved`; `roster.py:106-125`, `docs/DEVICE_ROSTER_SYNC.md:24`);
* two requests open two files for a student, and closing a file leaves an item
  open that a request had read before (`OneLiveCase`, `ClosedIsTidy`;
  `cases.py:135-142` against line 6, `cases.py:245`);
* extending a contract counts the present plan's days from the chosen start
  (`ExtensionCounts`; `subscriptions.py:551`, `docs/SUBSCRIPTIONS.md:29-30`);
* the cache may serve limits for its whole lifetime that a reader stored after
  the contract changed (`NoStaleLimits`; `entitlements.py:63`,
  `docs/ENTITLEMENTS.md:20-22`);
* a student merged away can be made active again by a stale request
  (`MergeStays`; `lifecycle.py:62-71`), an active one can be purged
  (`ActiveNotPurged`; `docs/DATA_PURGE.md`), and one who left can hold a seat
  (`LeftHasNoSeat`; `docs/STUDENT_LIFECYCLE.md`);
* a confirmed import whose row names an inactive section stays IMPORTING for ever
  and blocks other imports: `_commit_locked` raises after it has rolled back,
  and `students/tasks.py:159` expects the state to have been written inside
  (`ErrorsSettle`; `commit.py:207`);
* an import whose parsing meets an error of the database stays PROCESSING, with no
  task, and keeps other imports out: `except Exception` calls `_fail` inside the
  aborted transaction (`students/tasks.py:37,121-125,277-291`), its save raises too,
  and the task is not delivered again (`WorkIsQueued` excepts it);
* cancelling an import that is being committed overwrites COMPLETED, or is
  overwritten by it (`CommitIsFinal`, `CancelIsFinal`, `CountersAgree`;
  `students/api/views.py:775`, `commit.py:131-150`); its docstring says that
  rows and file go at FAILED too, where they are kept;
* a vice principal's scope can belong to a member who is no longer one
  (`OwnerIsVice`, `docs/STAFF.md:31`); `remove_role` counts roles that were
  prefetched, so that two requests remove the last two (`docs/STAFF.md:20`); a
  Decline under way overwrites a manager who was just made active; a referral
  routed while a member takes office can fall between both
  (`vice_principal_scopes.py:224-225` rules that out for transfers only);
  accepting an invitation and ending a suspension are not counted against the
  seats; a staff import that completed is overwritten by a stale CANCELLED;
* `edit_session` validates against the roster of now (`sessions.py:423`), while
  `correct_student_attendance` (`sessions.py:530`) asks for membership on the date;
* the value of a warning and its list of days are read by different queries
  (`issuance.py:211` and `216`), against the comment at line 6;
* `classify_daily_attendance` classifies a day as soon as one period is
  submitted; `docs/DAILY_ATTENDANCE.md:21` forbids FULL for an incomplete day.

Bounds. Two requests are enough for every race here, since each is between a pair
of transactions; a third actor is there where a third party is needed (a clerk
that takes a slot, a second administrator). Two periods let a coverage belong to
one absence and not the other; two excuses let one take over from the other; two
referrals, plans, links, imports or contracts are the least for a second one to
be opened next to the first. `MaxVersion`, `MaxEdits`, `MaxFaults`, `MaxEvents`,
the `*Steps`, `*Changes` and `*Faults` constants and the finite sets of rows
bound counters and tables and are guards of the actions that grow them; one fault
or change suffices for each race with a fault, because every check is made again
after it. An absence recorded a second time takes a third change, which `coverage`
does not reach; `AbsencesCovered` does not depend on the bound. `MaxThreshold`
stands for 200. The sessions instance has one student
because the marks of different students are independent except for the version,
which one student already exercises with three tabs. Symmetry is used for
interchangeable threads, people and rows, never in a run with a liveness
property. In `delivery` the synchronisation is taken twice: with one request of the
managers at a time, and then with one job, or a second job and one event (a change
or a fault) at most (`OneByOne`); and with two requests of the managers that
overlap, on one job and with one event (`Overlapped`). The two threads of the server
overlap in both. In `staff` the imports, which multiply the states, belong to schools
without vice principals.

Deadlock checking is off where every request may have been made that the bounds
allow: the system may then be at rest. `sessions` checks it.

Fairness. Threads run on: a web worker executes its request to the end, and
nothing in the code waits for user input inside a request. Strong fairness for
steps that wait for a row lock is justified by PostgreSQL's lock queue: a waiter
is served before those that ask later, so a lock that becomes free again and
again is granted to it. New requests are never assumed. Crashes are excluded
from `coverage_live`; in `documents` any request may break off, and `PendingEnds`
excepts the document of that request and no other. In `devices_live` the bridge's loop and
the requests it sends run on, faults are bounded, and the staff map identities
but type no arrivals (`DrainSpec`); `school` has the whole component.

## 4. Proofs

Checked by TLAPS for every value of the constants: any number of threads, tabs,
desks, workers, rows, students and steps. Every safety invariant and every action
property of a passing run is stated by a theorem, but for what the last list of this
section names.

Assumptions. Bounds are natural numbers, and those that count what there is at
least one of are positive (`MaxVersionNat`, `MaxEditsNat`, `SmsBoundsNat`,
`MailBoundsNat`, `RosterBounds`, `CaseBounds`, `LeaveBounds`, `FamilyBounds`,
`RecoveryBounds`, `BoundsNat`, `SummaryBounds`, `SubBounds`, `CacheBounds`,
`AccessBoundsNat`, `StaffBounds`, `TimesNat`, `SizesNat`, `SettingsNat`,
`RecordBounds`, `ImportBounds`, `CalendarBounds`, `RenderSlotsNat`); sets that the
code counts are finite (`ExcusesFinite`, `PeriodsFinite`, `DaysFinite`,
`PupilsFinite`, `StaffBounds`); names of different kinds differ, as ids of
different tables and None do (`ClientsDisjoint`, `NobodyApart`, `RefBounds`,
`RosterNames`, `InboxSources`, `StaffApart`, `RecordApart`, `ImportApart`); the
default thresholds are valid (`DefaultsValid`). Of the official source: a snapshot is a finite sequence of
calendars, dates are spans, and a calendar marked ready is consistent
(`SnapshotsAreCalendars`, `SpansAreDates`, `ReadyIsConsistent`): READY is what the
order of its dates was checked for. The malformed events are among the events
(`MalformedEvents`). TLC evaluates all of them in the runs.

`AttendanceSessionsProofs`: `TypeCorrect`, `FormCurrent`, `LogExplains`,
`NoUpdateLost`, `SheetImplemented`. `FormIsCurrent` is not inductive alone: a tab
that has read the row but not yet its marks must be known to hold a version not
later than the row's, and marks must change only together with the version. The
change log needs that it is empty before the submission and that each entry
starts at the status the previous one ended with. `NoLostUpdate` follows from
`FormCurrent` step by step. `SheetImplemented` is the refinement: loading marks is
a `Look`, closing or a refusal a `LookAway`, a submission a `File`; an edit or a
correction is a `Revise` because `FormInv` says that the marks of a tab with the
row's version are the row's marks; everything else stutters.

`ExcuseCoverageProofs`: `CoverageTypes`, `CoverageBacked`,
`DirectApprovalsDisjoint`, `DecisionsFinal`, `ApprovalsAsPreviewed`,
`AbsencesCovered`. The inductive invariant `Inv` adds to the types and to `ActiveIsBacked` what a transaction
relies on between its steps (`OwnOK`: the excuse it approves stays PENDING and
covers the absences it has read, the one it creates is its own, the ones it has
locked stay APPROVED) and that no two transactions own the same excuse.
`DirectApprovalsDisjoint` needs in addition that excuses being created share no
period with approved ones (`DirectInv`), and `ApprovalsAsPreviewed` that a plan
that was accepted stays the plan until it is written (`PlanInv`), because the lock
keeps `update_excuse` out. `NextMoves` lists what a step can do to an excuse; both
action properties follow from it. Crashes and deadlock victims are included.
`AbsencesCovered` names, for every settled absence that an approved excuse targets
and that has no coverage, the reconciliation that is on its way to create one
(`OnItsWay`, `Promised`). That no step leaves such an absence alone rests on what
every transaction has read (`Good`): the rows a reconciliation listed stand for
absences it then reads, so that it voids none of them; a creation, holding the
student, has read all its absences and no row covers them; an approval has read
all it is to cover. `CreatingApart` is where the lock of the student enters.

`DeliveryProofs`:
* `OneMessageAtMost` (`SmsInductive`): one sender at most is past its claim, the
  notice is SENDING while it is, and nothing was taken before; a claim needs
  QUEUED, so a duplicated task finds nothing to do.
* `ProvedAndSingle`, `SecretsEndLinks` (`MailInductive`): a link in the inbox and
  the address in a worker's hand are those of their delivery, one link of a
  purpose is open, and none is younger than the password.
* `NoBlindWrites`, `DeviceKept` (`RosterInductive`, which says of the managers'
  requests, of each thread and of the bridge what they may hold: `JobsFine`,
  `ManagersFine`, `ServersFine`, `BridgeFine`, `FaultsFine`): a command that a thread
  or the bridge holds is of a job that was compared again or that a late analysis
  refilled, and of an item that is executed. A job that is RUNNING without either
  has nothing pending, and nobody is about to save it so. Only a thread that listed an
  item before it succeeded, or is to clear its job, takes a success back.
* `DeliveryTypes` and `NothingUndone` carry these to the composition.

`CasesProofs`: one section for each workflow, then `CasesTypes`,
`CounselingHolds`, `PortalHolds` and `NothingReopens` for the composition.
`RefInductive`: who found nothing open holds the student's lock and nothing has
been opened since. `CaseInductive`: what a request has read of a file still holds
where the code relies on it, and only one request asks a teacher.
`LeaveInductive` (`ExitsHaveLeaves`): a leave that a gate request holds stands,
unused, and is held once. `InboxInductive`: what asks for an answer is there, and
an action that was counted is done. `RecInductive` (`ReviewsCount`): decisions are
not of versions to come, and those of this version saw no evidence that is revoked.

`RecordsProofs`:
* `WarningsHold`, `WarningsAreKept` (`WarningsInductive`): a save of the rules holds
  the rules as they are, and what a recalculation saw and is still issued is what it
  has locked.
* `DocumentsHold` (`DocInductive`): the clerk that works on a document works on its
  warning, which was issued.
* `RowsHold` (`SummaryInductive`): a request that nothing overlaps has read the
  facts (`ReadAlone`), query by query; counts are cardinalities of sets of pairs.
* `ContractsHold` (`SubInductive`): a request that holds a row has seen it as it is,
  and one opens a contract at a time.
* `LimitsNotOlder` (`CacheInductive`): the rows a reader holds are not older than
  the version in its key.
* `RecordsTypes`, `RecordsAreKept` for the composition.

`GuardianProofs`: `BoundAccessIsVouched`, `LinksHold`. `AccessInductive` adds that
the rows refer to each other, that one request of a student is open, and that an
approval for the school's contact is of its present revision: the trigger that
raises the revision ends what the old one vouched for.

`StaffProofs`: `StaffHolds`, `StaffIsKept`. `StaffInductive` says what every
request between its read and its write can rely on (`PersonGood`, `ImportGood`,
`ScopeGood`) and which two requests exclude each other (`Exclusive`: the school's
row, the row of a job, each scope). The seats need sums of cardinalities.

`SchoolProofs`:
* `IngestTypes`, `NothingLostOrMadeUp`, `ArrivalsOnlyImprove` (`IngestInductive`):
  a request's batch is the bridge's while it is waited for, its events are stored
  before they are answered, who has read an arrival for update is alone with it,
  and lateness is that of the time.
* `StudentsAddUp` (`RecordsInductive`): the students of a purge are those left, those
  deleted and those failed; one request is between its count of the seats and its
  INSERT.
* `ImportsAddUp` (`ImportInductive`): an import that was applied has nothing left to
  apply, and the work of one under way is queued, abandoned or broken.
* `CalendarAgrees`, `ClosedRest` (`CalendarInductive`): `GoodBook` holds of a book
  after every operation that is applied to a good one, and no operation reopens
  what was closed. For the loop over the official years the induction is by hand:
  the least position after which the book is not good (it exists by `WFMin` on the
  natural numbers) has a good predecessor.
* `SchoolComposes`: a behaviour of the composition is one of each component, which
  gives `SchoolTypes`, `SchoolHolds` and `SchoolIsKept`.

Only model-checked:
* the liveness properties `RequestsEnd`, `PendingEnds` and `EventsDrain`: the prover
  has no rule for fairness, nor for ENABLED; with them the second half of
  `EventsDrain`, that a blocked queue stays blocked;
* the formula of the finding (`QuietRowHasAbsence`) and those of section 3 that state
  what is written and not what the code does.

## 5. Not modelled, and what is abstracted

Wording, audit events, tenancy, several dates of one excuse (each is reconciled
on its own), attachments, late marks, the placement snapshot, the
morning-lateness type of warning (the same code over another count), the roster
of the summary (a fixed set of students), and rendering. Reconciliations lock
several excuses without an order; the model takes them at once, and the
deadlocks this can cause are in `Crash`. Cycles through the lock of a session row
are likewise rollbacks of transactions that had no visible effect. Two approvals
never get the same time, so that the tie-break by id in `_pick_excuse` is not
needed. Each module's header and its entry in `PROJECT.json` name what it leaves
out of its component.

The front end, which is about half of the repository's lines, keeps no record of
the school: its tabs are the actors of these models. Migrations, serializers,
admin pages, read selectors, seed and benchmark commands, settings, deployment
and load tests change no shared state at run time and are not modelled either;
that is why the mapped lines are a minority of the repository.

## 6. Plan

Done: every component of section 1 with shared mutable state, and the proofs of
what their runs check. Left:

1. An abstract specification of the ingest (the earliest accepted event is the
   arrival) and the conditions under which `DeviceIngest` implements it.
2. For `QuietEarliest`, `QuietFresh` and `QuietIssuedSupported`, which fail when
   requests overlap, the form that `QuietAbsenceCovered` has: a history variable that
   names exactly the cases the code does not handle, and the theorem for the others.
