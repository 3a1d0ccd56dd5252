---------------------------- MODULE SchoolProofs ----------------------------
(***************************************************************************)
(* Proofs about DeviceIngest, StudentRecords, StudentImports and           *)
(* AcademicCalendar, for every value of their constants: the types, the    *)
(* invariants and the action properties that MCSchool checks, and that the *)
(* composed behaviour is one of each component.                            *)
(***************************************************************************)
EXTENDS MCSchool, WellFoundedInduction, FiniteSetTheorems, TLAPS

-----------------------------------------------------------------------------
(* Inductive invariants.                                                    *)

\* What a request knows. While it is the one the bridge waits for, it works on the bridge's
\* batch; what it knows and has inserted is stored, at the end its whole batch, unless it was
\* answered as invalid; its events have its row as long as mappings do not cross.
RequestGood(r) ==
  LET q == request[r] IN
  /\ r \in bridge.waits /\ q.pc # "none" => q.batch = bridge.batch
  /\ q.pc \in {"identities", "insert", "rows"} => q.known \subseteq Stored
  /\ q.pc \in {"insert", "rows", "arrival", "write", "unmatched"} => q.row.status # "NONE"
  /\ q.pc \in {"arrival", "write", "unmatched"} => q.batch \subseteq Stored
  /\ q.pc = "done" => q.batch \subseteq Stored \cup refused
  /\ q.pc \in {"none", "start", "keys", "identities", "insert"} => q.inserted = {}
  /\ q.pc = "write" => q.inserted # {} /\ q.row.status = "PROCESSED"
  /\ q.pc \in {"rows", "arrival", "write"} /\ q.row.status = "PROCESSED" /\ ~crossed
       => \A e \in q.inserted : event[e].status = "PROCESSED"
  /\ q.inserted \subseteq Stored

\* What a mapping has still to do is UNMATCHED, but for the event it has just saved.
ManagerGood(m) ==
  LET g == manager[m] IN
  /\ g.pc = "save" /\ ~crossed => \A e \in g.todo : event[e].status = "UNMATCHED"
  /\ g.pc \in {"arrival", "write"} =>
       /\ g.todo # {}
       /\ ~crossed => /\ event[Min(g.todo)].status = "PROCESSED"
                      /\ \A e \in g.todo \ {Min(g.todo)} : event[e].status = "UNMATCHED"

\* Mappings cross or there is one.
OneMapping ==
  crossed \/ \A m, n \in Managers : manager[m].pc \in Mapping /\ manager[n].pc \in Mapping => m = n

\* Who has read the row of s for update sees it as it is, and is alone.
LockedByRequest(r, s) == request[r].row.student = {s} /\ request[r].seen # {}
LockedByManager(m, s) == manager[m].student = {s} /\ manager[m].seen # {}
LocksGood ==
  /\ \A r \in Requests : request[r].seen # {} => request[r].pc = "write"
  /\ \A m \in Managers : manager[m].seen # {} => manager[m].pc = "write"
  /\ \A s \in Students, r \in Requests : LockedByRequest(r, s) =>
       /\ Exists(s) /\ request[r].seen = {arrival[s].at}
       /\ \A q \in Requests : LockedByRequest(q, s) => q = r
       /\ \A m \in Managers : ~LockedByManager(m, s)
  /\ \A s \in Students, m \in Managers : LockedByManager(m, s) =>
       /\ Exists(s) /\ manager[m].seen = {arrival[s].at}
       /\ \A n \in Managers : LockedByManager(n, s) => n = m

\* An arrival is at a time of an event or of the staff, and its lateness is that of its time.
LatenessAgrees ==
  \A s \in Students : Exists(s) => arrival[s].at \in Times /\ arrival[s].late = Lateness(arrival[s].at)

IngestInductive ==
  /\ TypeOK /\ AckedStored /\ ArrivalBacked /\ LatenessAgrees /\ LocksGood /\ OneMapping
  /\ \A r \in Requests : RequestGood(r)
  /\ \A m \in Managers : ManagerGood(m)

JobType == [status: Running \cup {"none", "COMPLETED", "PARTIALLY_FAILED", "FAILED"}, total: Nat,
            left: SUBSET Pupils, deleted: Nat, failed: Nat, alive: BOOLEAN]

\* A request is about a student, and a row that was read for its status was there.
DesksGood ==
  /\ desks \in [Desks -> [op: {"idle", "create", "enrol", "move", "status", "erase"},
                          pupil: Pupils \cup {NoPupil}, row: Pupil, to: Sections \cup {NoSection}]]
  /\ \A d \in Desks : /\ desks[d].op # "idle" => desks[d].pupil \in Pupils
                      /\ desks[d].op = "status" => desks[d].row.there

\* One request at most is between its count and its INSERT, and there is a seat for it.
SeatsHold ==
  /\ \A c, d \in Desks : desks[c].op = "enrol" /\ desks[d].op = "enrol" => c = d
  /\ ~reactivated =>
       /\ Cardinality(Active) <= SeatLimit
       /\ \A d \in Desks : desks[d].op = "enrol" => Cardinality(Active) + 1 <= SeatLimit

\* The students of a purge are those it still has, those it deleted and those it failed on.
JobsGood ==
  /\ jobs \in [PurgeJobs -> JobType]
  /\ \A j \in PurgeJobs :
       /\ jobs[j].status # "none" =>
            jobs[j].deleted + jobs[j].failed + Cardinality(jobs[j].left) = jobs[j].total
       /\ jobs[j].status \notin Running \cup {"none"} => jobs[j].left = {}
       /\ jobs[j].status = "COMPLETED" => jobs[j].failed = 0
       /\ jobs[j].status = "FAILED" => jobs[j].deleted = 0
  /\ \A i, j \in PurgeJobs : jobs[i].status \in Running /\ jobs[j].status \in Running => i = j

RecordsInductive == RecordTypeOK /\ DesksGood /\ MergesFlat /\ SeatsHold /\ JobsGood

\* What is kept of the import i: the file that is stored is the one the row names; once the rows
\* were applied nothing is left to apply again; a commit that failed still has its message; and,
\* unless something of it was lost, its work is queued or somebody is about to clear it.
ImportGood(i) ==
  LET job == imports[i] IN
  /\ job.stored => job.file
  /\ applied[i] > 0 =>
       applied[i] = 1 /\ ~job.file /\ job.rows = "none" /\ job.fresh /\ job.status # "none"
  /\ i \in failing => applying[i] > 0
  /\ job.status = "COMPLETED" => job.rows = "none" /\ ~job.stored
  /\ i \notin abandoned \cup broken =>
       /\ job.status = "PROCESSING" =>
            parsing[i] > 0 \/ \E b \in Browsers : clicks[b].op = "send" /\ clicks[b].import = i
       /\ job.status = "IMPORTING" => applying[i] > 0 \/ i \in inactive
  /\ i \notin abandoned =>
       /\ job.status = "CANCELLED" /\ job.rows # "none" =>
            \E b \in Browsers : clicks[b].op = "wipe" /\ clicks[b].import = i
       /\ job.status = "CANCELLED" /\ job.stored =>
            \E b \in Browsers : clicks[b].op \in {"wipe", "shred"} /\ clicks[b].import = i

\* A request works on an import that was uploaded; when it cancels one and saw no file, there
\* is none.
ClickGood(b) ==
  LET click == clicks[b] IN
  /\ click.op # "rest" => click.import \in Imports /\ imports[click.import].status # "none"
  /\ click.op \in {"cancel", "wipe", "shred"} /\ ~click.file => ~imports[click.import].stored

OneWorks == \A i, k \in Imports : imports[i].status \in Working /\ imports[k].status \in Working => i = k

ImportInductive ==
  /\ ImportTypeOK /\ OneWorks
  /\ \A i \in Imports : ImportGood(i)
  /\ \A b \in Browsers : ClickGood(b)

\* A row of a year or of a semester that is there.
Made(row) == row.status # "none"

YearRow == [status: {"none", "UPCOMING", "ACTIVE", "CLOSED", "ARCHIVED"}, from: Days, to: Days]
TermRow == [status: {"none", "UPCOMING", "ACTIVE", "CLOSED"}, from: Days, to: Days]
Book == [years: [Years -> YearRow], terms: [Terms -> TermRow]]

\* Years get the next id, and no row is deleted.
YearsInOrder(b) == \A y, k \in Years : k < y /\ Made(b.years[y]) => Made(b.years[k])

\* A semester that is not there has no dates; one that is there has its year.
TermsOfYears(b) ==
  \A t \in Terms : /\ ~Made(b.terms[t]) => b.terms[t] = NoRow
                   /\ Made(b.terms[t]) => Made(b.years[t[1]])

\* ActiveAgree without the cardinalities.
OneCurrent(b) ==
  /\ \A y, k \in Years : b.years[y].status = "ACTIVE" /\ b.years[k].status = "ACTIVE" => y = k
  /\ \A t, u \in Terms : b.terms[t].status = "ACTIVE" /\ b.terms[u].status = "ACTIVE" => t = u
  /\ \A t \in Terms : b.terms[t].status = "ACTIVE" => b.years[t[1]].status = "ACTIVE"

\* TermsFitYear, semester by semester.
Inside(year, term) == year.from <= term.from /\ term.to <= year.to
Apart(a, s) == a.to < s.from \/ s.to < a.from
TermsFit(b) ==
  /\ \A t \in Terms : Made(b.terms[t]) => Inside(b.years[t[1]], b.terms[t])
  /\ \A t, u \in Terms : t # u /\ t[1] = u[1] /\ Made(b.terms[t]) /\ Made(b.terms[u])
       => Apart(b.terms[t], b.terms[u])

GoodBook(b) ==
  b \in Book /\ YearsInOrder(b) /\ TermsOfYears(b) /\ OneCurrent(b) /\ TermsFit(b)

\* What CalendarRests asks of two books.
Rests(b, c) ==
  /\ \A y \in Years : b.years[y].status \in {"CLOSED", "ARCHIVED"}
       => c.years[y].status \in {"CLOSED", "ARCHIVED"}
  /\ \A t \in Terms : b.terms[t].status = "CLOSED" => c.terms[t].status = "CLOSED"

\* CalendarInvariant is inductive with what keeps ids and rows apart: a new year must not
\* overwrite one, and the day of the last application does not lie ahead.
CalendarRest ==
  /\ today \in Days /\ checked \in Days /\ checked <= today /\ national \in BOOLEAN
  /\ outcome \in {"", "CONFLICT", "NO_CURRENT_CALENDAR", "SOURCE_INCOMPLETE", "WAITS",
                  "BETWEEN_ACADEMIC_YEARS", "BETWEEN_SEMESTERS", "APPLIED"}
  /\ source \in Snapshots /\ steps \in 0..CalendarSteps

CalendarInductive == GoodBook(book) /\ CalendarRest /\ AppliedHolds
-----------------------------------------------------------------------------
(* Minima and minutes.                                                      *)

\* A set of numbers has a least one.
LEMMA LeastOf ==
  ASSUME NEW S \in SUBSET Nat, S # {}
  PROVE  \E x \in S : \A y \in S : x <= y
<1> DEFINE R == OpToRel(<, Nat)
<1>1. \A x, y \in Nat : <<x, y>> \in R <=> x < y
  BY DEF OpToRel
<1>2. IsWellFoundedOn(R, Nat)
  BY NatLessThanWellFounded
<1> HIDE DEF R
<1>3. PICK x \in S : \A y \in S : ~(<<y, x>> \in R)
  BY <1>2, WFMin
<1>4. ASSUME NEW y \in S PROVE x <= y
  <2>1. <<y, x>> \notin R /\ x \in Nat /\ y \in Nat
    BY <1>3
  <2>2. ~(y < x)
    BY <1>1, <2>1
  <2> QED BY <2>1, <2>2
<1> QED BY <1>4

\* The minimum of times is one of them.
LEMMA MinIn ==
  ASSUME NEW S \in SUBSET Nat, S # {}
  PROVE  Min(S) \in S /\ \A y \in S : Min(S) <= y
BY LeastOf DEF Min

\* Whole minutes grow with the time.
LEMMA MinutesGrow ==
  ASSUME NEW a \in Nat, NEW b \in Nat, a <= b, NEW u \in Nat \ {0}
  PROVE  a \div u \in Nat /\ b \div u \in Nat /\ a \div u <= b \div u
<1> DEFINE p == a \div u
           q == b \div u
<1>1. p \in Int /\ q \in Int
  OBVIOUS
<1>2. u * p <= a /\ a < u * p + u
  OBVIOUS
<1>3. u * q <= b /\ b < u * q + u
  OBVIOUS
<1> HIDE DEF p, q
<1>4. u * p < u * q + u /\ 0 < u * p + u
  BY <1>1, <1>2, <1>3
<1>5. u * (q + 1 - p) > 0 /\ u * (p + 1) > 0 /\ u * (q + 1) > 0
  BY <1>1, <1>2, <1>3, <1>4
<1>6. \A k \in Int : u * k > 0 => k > 0
  OBVIOUS
<1>7. q + 1 - p > 0 /\ p + 1 > 0 /\ q + 1 > 0
  BY <1>1, <1>5, <1>6
<1> QED BY <1>1, <1>7 DEF p, q

\* compute_lateness: an arrival that is not later does not count more minutes.
LEMMA LatenessGrows ==
  ASSUME NEW a \in Nat, NEW b \in Nat, a <= b
  PROVE  /\ Lateness(a) \in LatenessType /\ Lateness(b) \in LatenessType
         /\ Lateness(a).counted <= Lateness(b).counted
<1> DEFINE minutes(t) == (t - DayStart) \div UnitsPerMinute
           raw(t) == IF t > DayStart THEN minutes(t) ELSE 0
           until == DayStart + Grace * UnitsPerMinute
           counted(t) == IF t <= until \/ raw(t) < Grace THEN 0 ELSE raw(t) - Grace
<1>1. DayStart \in Nat /\ Grace \in Nat /\ UnitsPerMinute \in Nat \ {0}
  BY SettingsNat
<1>2. until \in Nat
  BY <1>1
<1>3. \A t \in Nat : t > DayStart => minutes(t) \in Nat
  <2> SUFFICES ASSUME NEW t \in Nat, t > DayStart PROVE minutes(t) \in Nat
    OBVIOUS
  <2>1. t - DayStart \in Nat
    BY <1>1
  <2> QED BY <1>1, <2>1, MinutesGrow
<1>4. a > DayStart => minutes(a) <= minutes(b)
  <2> SUFFICES ASSUME a > DayStart PROVE minutes(a) <= minutes(b)
    OBVIOUS
  <2>1. a - DayStart \in Nat /\ b - DayStart \in Nat /\ a - DayStart <= b - DayStart
    BY <1>1
  <2> QED BY <1>1, <2>1, MinutesGrow
<1>5. \A t \in Nat : Lateness(t) = [raw |-> raw(t), counted |-> counted(t),
                                    status |-> IF t <= until THEN "ON_TIME" ELSE "LATE"]
  BY DEF Lateness
<1> HIDE DEF minutes, until
<1>6. \A t \in Nat : raw(t) \in Nat
  BY <1>1, <1>3
<1>7. raw(a) <= raw(b)
  BY <1>1, <1>3, <1>4
<1> HIDE DEF raw
<1>8. \A t \in Nat : counted(t) \in Nat
  BY <1>1, <1>6
<1>9. counted(a) <= counted(b)
  BY <1>1, <1>2, <1>6, <1>7
<1> HIDE DEF counted
<1> QED BY <1>5, <1>6, <1>8, <1>9 DEF LatenessType

-----------------------------------------------------------------------------
(* What a step leaves alone.                                                *)

\* The types of all but the requests, the events, the arrivals and the managers.
RestTypes ==
  /\ queue \in Seq(Events)
  /\ sent \in [Events -> {"LOG", "PENDING", "FAILED_RETRYABLE", "ACKNOWLEDGED"}]
  /\ bridge \in Bridge /\ device \in BOOLEAN
  /\ identity \in [exists: BOOLEAN, student: Maybe(Students)]
  /\ active \in SUBSET Students /\ refused \in SUBSET Events /\ crossed \in BOOLEAN
  /\ faults \in 0..MaxFaults

\* Events are inserted, and changed by one mapping at a time at most.
EventsStay ==
  /\ \A e \in Stored : event'[e].status # "NONE"
  /\ ~crossed' => /\ ~crossed
                  /\ \A e \in Events : event[e].status = "PROCESSED" => event'[e].status = "PROCESSED"

\* A request that does nothing knows what it knew.
LEMMA RequestStays ==
  ASSUME NEW r \in Requests, RequestGood(r), request'[r] = request[r], EventsStay,
         TypeOK, event' \in [Events -> EventRow],
         refused \subseteq refused',
         r \in bridge'.waits /\ request[r].pc # "none" => r \in bridge.waits /\ bridge'.batch = bridge.batch
  PROVE  RequestGood(r)'
<1>1. Stored \subseteq Stored'
  BY DEF EventsStay, Stored
<1>2. request[r].inserted \subseteq Events
  BY DEF TypeOK, Request
<1> QED BY <1>1, <1>2 DEF RequestGood, EventsStay

\* A mapping that does nothing has the same to do.
LEMMA ManagerStays ==
  ASSUME NEW m \in Managers, ManagerGood(m), manager'[m] = manager[m], TypeOK,
         ~crossed' => /\ ~crossed
                      /\ \A e \in Events : event[e].status \in {"PROCESSED", "UNMATCHED"}
                                             => event'[e].status = event[e].status
  PROVE  ManagerGood(m)'
<1>1. manager[m].todo \subseteq Events
  BY DEF TypeOK, Manager
<1>2. manager[m].todo # {} => Min(manager[m].todo) \in Events
  BY <1>1, MinIn, TimesNat
<1> DEFINE first == Min(manager[m].todo)
<1>3. Min(manager'[m].todo) = first
  OBVIOUS
<1> HIDE DEF first
<1> QED BY <1>1, <1>2, <1>3 DEF ManagerGood, first

\* Arrivals that stay are backed by events that stay.
LEMMA BackedStays ==
  ASSUME ArrivalBacked, LatenessAgrees, EventsStay, UNCHANGED arrival
  PROVE  ArrivalBacked' /\ LatenessAgrees'
BY DEF ArrivalBacked, LatenessAgrees, EventsStay, Exists, Biometric, Lateness

\* Locks that nobody takes stay as they are while the arrivals do.
LEMMA LocksStay ==
  ASSUME LocksGood, UNCHANGED arrival,
         \A r \in Requests : request'[r].seen = {} \/ request'[r] = request[r],
         \A m \in Managers : manager'[m].seen = {} \/ manager'[m] = manager[m]
  PROVE  LocksGood'
<1>1. \A r \in Requests, s \in Students : LockedByRequest(r, s)' => LockedByRequest(r, s) /\ request'[r] = request[r]
  BY DEF LockedByRequest
<1>2. \A m \in Managers, s \in Students : LockedByManager(m, s)' => LockedByManager(m, s) /\ manager'[m] = manager[m]
  BY DEF LockedByManager
<1>3. \A s \in Students : Exists(s)' <=> Exists(s)
  BY DEF Exists
<1>4. /\ \A r \in Requests : request'[r].seen # {} => request'[r].pc = "write"
      /\ \A m \in Managers : manager'[m].seen # {} => manager'[m].pc = "write"
  BY DEF LocksGood
<1> QED BY <1>1, <1>2, <1>3, <1>4 DEF LocksGood

\* A step of one request that writes no event and no arrival and takes no lock.
LEMMA OneRequestMoves ==
  ASSUME IngestInductive, NEW r \in Requests, NEW new \in Request,
         request' = [request EXCEPT ![r] = new], new.seen = {},
         UNCHANGED <<event, arrival, manager, crossed>>,
         RestTypes', AckedStored', RequestGood(r)', refused \subseteq refused',
         \A q \in Requests \ {r} : q \in bridge'.waits /\ request[q].pc # "none"
           => q \in bridge.waits /\ bridge'.batch = bridge.batch
  PROVE  IngestInductive'
<1>1. TypeOK
  BY DEF IngestInductive
<1>2. request' \in [Requests -> Request] /\ \A q \in Requests : request'[q] = IF q = r THEN new ELSE request[q]
  BY <1>1 DEF TypeOK
<1>3. TypeOK'
  BY <1>1, <1>2 DEF TypeOK, RestTypes
<1>4. EventsStay
  BY DEF EventsStay, Stored
<1>5. \A q \in Requests : RequestGood(q)'
  BY <1>1, <1>2, <1>4, RequestStays DEF IngestInductive, TypeOK
<1>6. \A m \in Managers : ManagerGood(m)'
  BY <1>1, ManagerStays DEF IngestInductive
<1>7. ArrivalBacked' /\ LatenessAgrees'
  BY <1>4, BackedStays DEF IngestInductive
<1>8. LocksGood'
  BY <1>2, LocksStay DEF IngestInductive
<1>9. OneMapping'
  BY DEF IngestInductive, OneMapping
<1> QED BY <1>3, <1>5, <1>6, <1>7, <1>8, <1>9 DEF IngestInductive

\* A step that changes neither requests nor managers, events nor arrivals.
LEMMA NobodyMoves ==
  ASSUME IngestInductive, UNCHANGED <<request, event, arrival, manager, crossed, refused>>,
         RestTypes', AckedStored',
         \A q \in Requests : q \in bridge'.waits /\ request[q].pc # "none"
           => q \in bridge.waits /\ bridge'.batch = bridge.batch
  PROVE  IngestInductive'
<1>1. TypeOK
  BY DEF IngestInductive
<1>2. TypeOK'
  BY <1>1 DEF TypeOK, RestTypes
<1>3. EventsStay
  BY DEF EventsStay, Stored
<1>4. \A q \in Requests : RequestGood(q)'
  BY <1>1, <1>3, RequestStays DEF IngestInductive, TypeOK
<1>5. \A m \in Managers : ManagerGood(m)'
  BY <1>1, ManagerStays DEF IngestInductive
<1>6. ArrivalBacked' /\ LatenessAgrees'
  BY <1>3, BackedStays DEF IngestInductive
<1>7. LocksGood'
  BY LocksStay DEF IngestInductive
<1>8. OneMapping'
  BY DEF IngestInductive, OneMapping
<1> QED BY <1>2, <1>4, <1>5, <1>6, <1>7, <1>8 DEF IngestInductive

-----------------------------------------------------------------------------
(* The bridge.                                                              *)

\* The empty rows have their types.
LEMMA IngestRows ==
  /\ NoRequest \in Request /\ Resting \in Bridge /\ Idle \in Manager /\ NoArrival \in Arrival
  /\ NoEvent \in EventRow
<1>1. NoEvent \in EventRow
  BY DEF NoEvent, EventRow, Maybe
<1>2. NoArrival \in Arrival
  BY DEF NoArrival, Arrival, LatenessType, Maybe
<1>3. NoRequest \in Request
  BY <1>1 DEF NoRequest, Request, Maybe
<1>4. Idle \in Manager
  BY <1>2 DEF Idle, Manager, Maybe
<1>5. Resting \in Bridge
  BY DEF Resting, Bridge, Maybe
<1> QED BY <1>1, <1>2, <1>3, <1>4, <1>5

\* A batch is taken from the events of the queue.
LEMMA BatchFromQueue ==
  ASSUME TypeOK
  PROVE  NextBatch \subseteq Events
<1>1. \A i \in DOMAIN queue : queue[i] \in Events
  BY DEF TypeOK
<1> QED BY <1>1 DEF NextBatch

\* poll_devices: a new row of the queue is not acknowledged.
LEMMA PollStep ==
  ASSUME IngestInductive, NEW e \in Events, Poll(e)
  PROVE  IngestInductive'
<1>1. /\ queue' = Append(queue, e) /\ sent' = [sent EXCEPT ![e] = "PENDING"]
      /\ UNCHANGED <<bridge, request, device, identity, active, manager, event, arrival, refused, crossed, faults>>
  BY DEF Poll, adminVars
<1>2. TypeOK
  BY DEF IngestInductive
<1>3. RestTypes'
  BY <1>1, <1>2 DEF TypeOK, RestTypes
<1>4. AckedStored'
  BY <1>1, <1>2 DEF IngestInductive, AckedStored, Stored, TypeOK
<1> QED BY <1>1, <1>3, <1>4, NobodyMoves

\* flush and _post: the request gets the batch of the bridge.
LEMMA ArriveStep ==
  ASSUME IngestInductive, NEW r \in Requests, request[r].pc = "none",
         bridge' \in Bridge, bridge'.waits = {r}, Arrives(r), faults' \in 0..MaxFaults,
         UNCHANGED <<queue, sent, device, identity, active, manager, event, arrival, refused, crossed>>
  PROVE  IngestInductive'
<1> DEFINE new == [NoRequest EXCEPT !.pc = "start", !.batch = bridge'.batch]
<1>1. new \in Request /\ new.pc = "start" /\ new.batch = bridge'.batch /\ new.inserted = {} /\ new.seen = {}
  BY IngestRows DEF NoRequest, Request, Bridge
<1>2. request' = [request EXCEPT ![r] = new]
  BY DEF Arrives
<1> HIDE DEF new
<1>3. TypeOK
  BY DEF IngestInductive
<1>4. RestTypes'
  BY <1>3 DEF TypeOK, RestTypes
<1>5. AckedStored'
  BY DEF IngestInductive, AckedStored, Stored
<1>6. request'[r] = new
  BY <1>2, <1>3 DEF TypeOK
<1>7. RequestGood(r)'
  BY <1>1, <1>6 DEF RequestGood
<1>8. \A q \in Requests \ {r} : q \notin bridge'.waits
  OBVIOUS
<1> QED BY <1>1, <1>2, <1>4, <1>5, <1>7, <1>8, OneRequestMoves

\* BridgeEngine.flush: the oldest batch goes to a free request, or its delivery
\* fails.
LEMMA SendStep ==
  ASSUME IngestInductive, NEW r \in Requests, Send(r)
  PROVE  IngestInductive'
<1>1. TypeOK
  BY DEF IngestInductive
<1>2. /\ request[r].pc = "none" /\ bridge' = [waits |-> {r}, batch |-> NextBatch, attempt |-> 1]
      /\ Arrives(r) /\ faults' = faults
      /\ UNCHANGED <<queue, sent, device, identity, active, manager, event, arrival, refused, crossed>>
  BY DEF Send, adminVars
<1>3. bridge' \in Bridge /\ bridge'.waits = {r}
  BY <1>1, <1>2, BatchFromQueue DEF Bridge, Maybe
<1>4. faults' \in 0..MaxFaults
  BY <1>1, <1>2 DEF TypeOK
<1> QED BY <1>2, <1>3, <1>4, ArriveStep

\* Faults are counted.
LEMMA FaultTypes ==
  ASSUME TypeOK, Fault \/ UNCHANGED faults
  PROVE  faults' \in 0..MaxFaults
BY SizesNat DEF TypeOK, Fault

\* SaaSClient._post: a delivery without an answer is made again by another request.
LEMMA RetryStep ==
  ASSUME IngestInductive, NEW r \in Requests, Retry(r)
  PROVE  IngestInductive'
<1>1. TypeOK
  BY DEF IngestInductive
<1>2. /\ request[r].pc = "none" /\ bridge' = [bridge EXCEPT !.waits = {r}, !.attempt = bridge.attempt + 1]
      /\ Arrives(r) /\ (Fault \/ UNCHANGED faults)
      /\ UNCHANGED <<queue, sent, device, identity, active, manager, event, arrival, refused, crossed>>
  BY DEF Retry, TimedOut, adminVars
<1>3. bridge' \in Bridge /\ bridge'.waits = {r}
  <2> DEFINE next == bridge.attempt + 1
  <2>1. next \in Nat
    BY <1>1 DEF TypeOK, Bridge
  <2>2. bridge' = [bridge EXCEPT !.waits = {r}, !.attempt = next]
    BY <1>2
  <2> HIDE DEF next
  <2> QED BY <1>1, <2>1, <2>2 DEF TypeOK, Bridge, Maybe
<1> QED BY <1>1, <1>2, <1>3, ArriveStep, FaultTypes

\* flush after the last attempt, and a restart: the bridge waits for nothing.
LEMMA BridgeRests ==
  ASSUME IngestInductive, GiveUp \/ Restart
  PROVE  IngestInductive'
<1>1. TypeOK
  BY DEF IngestInductive
<1>2. /\ bridge' = Resting /\ (Fault \/ UNCHANGED faults)
      /\ sent' \in {sent, Mark("FAILED_RETRYABLE")}
      /\ UNCHANGED <<queue, request, device, identity, active, manager, event, arrival, refused, crossed>>
  BY DEF GiveUp, Restart, TimedOut, adminVars
<1>3. /\ sent' \in [Events -> {"LOG", "PENDING", "FAILED_RETRYABLE", "ACKNOWLEDGED"}]
      /\ \A e \in Events : sent'[e] = "ACKNOWLEDGED" => sent[e] = "ACKNOWLEDGED"
  BY <1>1, <1>2 DEF TypeOK, Mark
<1>4. RestTypes'
  BY <1>1, <1>2, <1>3, IngestRows, FaultTypes DEF TypeOK, RestTypes
<1>5. AckedStored'
  BY <1>2, <1>3 DEF IngestInductive, AckedStored, Stored
<1>6. \A q \in Requests : q \notin bridge'.waits
  BY <1>2 DEF Resting
<1> QED BY <1>2, <1>4, <1>5, <1>6, NobodyMoves

\* The answer of the attempt that the bridge waits for is about the bridge's batch, and what
\* it acknowledges is stored or was answered as invalid.
LEMMA AnswerStep ==
  ASSUME IngestInductive, NEW r \in Requests, Answer(r)
  PROVE  IngestInductive'
<1>1. TypeOK
  BY DEF IngestInductive
<1>2. /\ request[r].pc = "done" /\ request' = [request EXCEPT ![r] = NoRequest]
      /\ \/ r \in bridge.waits /\ sent' = Mark("ACKNOWLEDGED") /\ bridge' = Resting
         \/ r \notin bridge.waits /\ UNCHANGED <<sent, bridge>>
      /\ UNCHANGED <<queue, device, identity, active, manager, event, arrival, refused, crossed, faults>>
  BY DEF Answer, adminVars
<1>3. RequestGood(r)
  BY DEF IngestInductive
<1>4. RestTypes'
  <2>1. sent' \in [Events -> {"LOG", "PENDING", "FAILED_RETRYABLE", "ACKNOWLEDGED"}]
    BY <1>1, <1>2 DEF TypeOK, Mark
  <2> QED BY <1>1, <1>2, <2>1, IngestRows DEF TypeOK, RestTypes
<1>5. AckedStored'
  <2>1. CASE r \in bridge.waits /\ sent' = Mark("ACKNOWLEDGED")
    <3>1. bridge.batch \subseteq Stored \cup refused
      BY <1>2, <1>3, <2>1 DEF RequestGood
    <3> QED BY <1>2, <2>1, <3>1 DEF IngestInductive, AckedStored, Mark, Stored
  <2>2. CASE UNCHANGED sent
    BY <1>2, <2>2 DEF IngestInductive, AckedStored, Stored
  <2> QED BY <1>2, <2>1, <2>2
<1>6. RequestGood(r)'
  BY <1>1, <1>2 DEF RequestGood, NoRequest, TypeOK
<1>7. \A q \in Requests \ {r} : q \in bridge'.waits => q \in bridge.waits /\ bridge'.batch = bridge.batch
  BY <1>2 DEF Resting
<1>8. NoRequest \in Request /\ NoRequest.seen = {}
  BY IngestRows DEF NoRequest
<1> QED BY <1>2, <1>4, <1>5, <1>6, <1>7, <1>8, OneRequestMoves

\* A request that is refused, or whose thread dies, leaves everything as it is.
LEMMA DropStep ==
  ASSUME IngestInductive, NEW r \in Requests, Refuse(r) \/ Reject(r) \/ Die(r)
  PROVE  IngestInductive'
<1>1. TypeOK
  BY DEF IngestInductive
<1>2. /\ request' = [request EXCEPT ![r] = NoRequest] /\ (Fault \/ UNCHANGED faults)
      /\ bridge' \in {bridge, Resting}
      /\ UNCHANGED <<queue, sent, device, identity, active, manager, event, arrival, refused, crossed>>
  BY DEF Refuse, Reject, Refused, Die, adminVars, bridgeVars
<1>3. RestTypes'
  <2>1. faults' \in 0..MaxFaults
    BY <1>1, <1>2, FaultTypes DEF TypeOK
  <2> QED BY <1>1, <1>2, <2>1, IngestRows DEF TypeOK, RestTypes
<1>4. AckedStored'
  BY <1>2 DEF IngestInductive, AckedStored, Stored
<1>5. RequestGood(r)'
  BY <1>1, <1>2 DEF RequestGood, NoRequest, TypeOK
<1>6. \A q \in Requests \ {r} : q \in bridge'.waits => q \in bridge.waits /\ bridge'.batch = bridge.batch
  BY <1>2 DEF Resting
<1>7. NoRequest \in Request /\ NoRequest.seen = {}
  BY IngestRows DEF NoRequest
<1> QED BY <1>2, <1>3, <1>4, <1>5, <1>6, <1>7, OneRequestMoves

-----------------------------------------------------------------------------
(* ingest_batch.                                                            *)

\* The first steps of a request, which only read, and its last, which creates the identity
\* to be matched by hand.
LEMMA ReadingStep ==
  ASSUME IngestInductive, NEW r \in Requests,
         Validate(r) \/ ReadKeys(r) \/ ReadIdentities(r) \/ RowsDone(r) \/ CreateIdentity(r)
  PROVE  IngestInductive'
<1>1. TypeOK /\ RequestGood(r) /\ request[r] \in Request /\ request[r].batch \subseteq Events
  BY DEF IngestInductive, TypeOK, Request
<1>2. request[r].pc # "write" /\ request[r].seen = {}
  <2>1. request[r].pc # "write"
    BY DEF Validate, ReadKeys, ReadIdentities, RowsDone, CreateIdentity, Step
  <2> QED BY <2>1 DEF IngestInductive, LocksGood
<1>3. UNCHANGED <<queue, sent, bridge, device, active, manager, event, arrival, crossed, faults>>
  BY DEF Validate, ReadKeys, ReadIdentities, RowsDone, CreateIdentity, bridgeVars, adminVars
<1>4. /\ refused \subseteq refused' /\ refused' \subseteq Events
      /\ identity' \in [exists: BOOLEAN, student: Maybe(Students)]
  <2>1. \/ refused' \in {refused, refused \cup request[r].batch} /\ UNCHANGED identity
        \/ refused' = refused /\ identity' \in {identity, [exists |-> TRUE, student |-> {}]}
    BY DEF Validate, ReadKeys, ReadIdentities, RowsDone, CreateIdentity, bridgeVars, adminVars
  <2>2. refused \subseteq Events /\ identity \in [exists: BOOLEAN, student: Maybe(Students)]
    BY <1>1 DEF TypeOK
  <2>3. [exists |-> TRUE, student |-> {}] \in [exists: BOOLEAN, student: Maybe(Students)]
    BY DEF Maybe
  <2> QED BY <1>1, <2>1, <2>2, <2>3
<1>5. RestTypes'
  BY <1>1, <1>3, <1>4 DEF TypeOK, RestTypes
<1>6. AckedStored'
  BY <1>3, <1>4 DEF IngestInductive, AckedStored, Stored
<1>7. \E new \in Request : request' = [request EXCEPT ![r] = new] /\ new.seen = {} /\ RequestGood(r)'
  <2>1. CASE Validate(r)
    <3>1. PICK pc \in {"keys", "done"} :
            /\ request' = [request EXCEPT ![r] = [request[r] EXCEPT !.pc = pc]]
            /\ pc = "done" => refused' = refused \cup request[r].batch
      BY <2>1 DEF Validate, Only, To
    <3> DEFINE new == [request[r] EXCEPT !.pc = pc]
    <3>2. new \in Request /\ new.pc = pc /\ new.batch = request[r].batch /\ new.inserted = request[r].inserted
          /\ new.seen = {}
      BY <1>1, <1>2 DEF Request
    <3>3. request[r].pc = "start"
      BY <2>1 DEF Validate, Step
    <3>4. request'[r] = new
      BY <1>1, <3>1 DEF TypeOK
    <3> HIDE DEF new
    <3>5. RequestGood(r)'
      BY <1>1, <1>3, <3>1, <3>2, <3>3, <3>4 DEF RequestGood
    <3> QED BY <3>1, <3>2, <3>5 DEF new
  <2>2. CASE ReadKeys(r)
    <3> DEFINE new == [request[r] EXCEPT !.pc = "identities", !.known = Stored \cap request[r].batch]
    <3>1. new \in Request /\ new.pc = "identities" /\ new.batch = request[r].batch
          /\ new.inserted = request[r].inserted /\ new.known \subseteq Stored /\ new.seen = {}
      BY <1>1, <1>2 DEF Request
    <3>2. request' = [request EXCEPT ![r] = new] /\ request[r].pc = "keys"
      BY <2>2 DEF ReadKeys, Step, To
    <3>3. request'[r] = new
      BY <1>1, <3>2 DEF TypeOK
    <3> HIDE DEF new
    <3>4. RequestGood(r)'
      BY <1>1, <1>3, <3>1, <3>2, <3>3 DEF RequestGood, Stored
    <3> QED BY <3>1, <3>2, <3>4
  <2>3. CASE ReadIdentities(r)
    <3> DEFINE row == RowFor(identity.student)
               new == [request[r] EXCEPT !.pc = "insert", !.row = row, !.unseen = ~identity.exists]
    <3>1. row \in EventRow /\ row.status # "NONE"
      BY <1>1 DEF RowFor, EventRow, TypeOK, Maybe
    <3>2. request' = [request EXCEPT ![r] = new] /\ request[r].pc = "identities"
      BY <2>3 DEF ReadIdentities, Step, To
    <3> HIDE DEF row
    <3>3. new \in Request /\ new.pc = "insert" /\ new.batch = request[r].batch /\ new.row = row
          /\ new.inserted = request[r].inserted /\ new.known = request[r].known /\ new.seen = {}
      BY <1>1, <1>2, <3>1 DEF Request
    <3>4. request'[r] = new
      BY <1>1, <3>2 DEF TypeOK
    <3> HIDE DEF new
    <3>5. RequestGood(r)'
      BY <1>1, <1>3, <3>1, <3>2, <3>3, <3>4 DEF RequestGood, Stored
    <3> QED BY <3>2, <3>3, <3>5
  <2>4. CASE RowsDone(r)
    <3> DEFINE new == [request[r] EXCEPT !.pc = "arrival"]
    <3>1. new \in Request /\ new.pc = "arrival" /\ new.batch = request[r].batch /\ new.row = request[r].row
          /\ new.inserted = request[r].inserted /\ new.known = request[r].known /\ new.seen = {}
      BY <1>1, <1>2 DEF Request
    <3>2. request' = [request EXCEPT ![r] = new] /\ request[r].pc = "rows" /\ New(r) \subseteq Stored
      BY <2>4 DEF RowsDone, Step, Only, To
    <3>3. request'[r] = new
      BY <1>1, <3>2 DEF TypeOK
    <3> HIDE DEF new
    <3>4. request[r].batch \subseteq Stored
      BY <1>1, <3>2 DEF RequestGood, New
    <3>5. RequestGood(r)'
      BY <1>1, <1>3, <3>1, <3>2, <3>3, <3>4 DEF RequestGood, Stored
    <3> QED BY <3>1, <3>2, <3>5
  <2>5. CASE CreateIdentity(r)
    <3> DEFINE new == [request[r] EXCEPT !.pc = "done"]
    <3>1. new \in Request /\ new.pc = "done" /\ new.batch = request[r].batch
          /\ new.inserted = request[r].inserted /\ new.seen = {}
      BY <1>1, <1>2 DEF Request
    <3>2. request' = [request EXCEPT ![r] = new] /\ request[r].pc = "unmatched"
      BY <2>5 DEF CreateIdentity, Step, Only, To
    <3>3. request'[r] = new
      BY <1>1, <3>2 DEF TypeOK
    <3> HIDE DEF new
    <3>4. RequestGood(r)'
      BY <1>1, <1>3, <1>4, <3>1, <3>2, <3>3 DEF RequestGood, Stored
    <3> QED BY <3>1, <3>2, <3>4
  <2> QED BY <2>1, <2>2, <2>3, <2>4, <2>5
<1> QED BY <1>3, <1>4, <1>5, <1>6, <1>7, OneRequestMoves

\* Events that were not there get the row of the request; the others stay.
LEMMA InsertRows ==
  ASSUME TypeOK, NEW r \in Requests, NEW S \in SUBSET Events, S \cap Stored = {}, Insert(r, S),
         request[r].row.status # "NONE", UNCHANGED crossed
  PROVE  /\ event' \in [Events -> EventRow]
         /\ \A e \in S : event'[e] = request[r].row
         /\ \A e \in Events \ S : event'[e] = event[e]
         /\ Stored' = Stored \cup S
         /\ EventsStay
         /\ \A e \in Events : event[e].status \in {"PROCESSED", "UNMATCHED"} => event'[e].status = event[e].status
<1>1. event' = [e \in Events |-> IF e \in S THEN request[r].row ELSE event[e]]
  BY DEF Insert
<1>2. request[r].row \in EventRow
  BY DEF TypeOK, Request
<1>3. event' \in [Events -> EventRow]
  BY <1>1, <1>2 DEF TypeOK
<1>4. \A e \in S : event'[e] = request[r].row /\ event[e].status = "NONE"
  BY <1>1 DEF Stored
<1>5. \A e \in Events \ S : event'[e] = event[e]
  BY <1>1
<1>6. Stored' = Stored \cup S
  BY <1>4, <1>5 DEF Stored
<1>7. \A e \in Events : event[e].status \in {"PROCESSED", "UNMATCHED"} => event'[e].status = event[e].status
  BY <1>4, <1>5
<1>8. EventsStay
  BY <1>6, <1>7 DEF EventsStay, Stored
<1> QED BY <1>3, <1>4, <1>5, <1>6, <1>7, <1>8

\* One INSERT or one row: what was inserted is stored with the row of the request.
LEMMA InsertStep ==
  ASSUME IngestInductive, NEW r \in Requests, BulkInsert(r) \/ \E e \in Events : InsertRow(r, e)
  PROVE  IngestInductive'
<1>1. TypeOK /\ RequestGood(r) /\ request[r] \in Request /\ request[r].batch \subseteq Events
  BY DEF IngestInductive, TypeOK, Request
<1>2. request[r].seen = {} /\ request[r].pc \in {"insert", "rows"}
  <2>1. request[r].pc \in {"insert", "rows"}
    BY DEF BulkInsert, InsertRow, Step
  <2> QED BY <2>1 DEF IngestInductive, LocksGood
<1>3. UNCHANGED <<queue, sent, bridge, device, identity, active, manager, arrival, refused, crossed, faults>>
  BY DEF BulkInsert, InsertRow, bridgeVars, adminVars
<1>4. request[r].row.status # "NONE" /\ request[r].known \subseteq Stored
  BY <1>1, <1>2 DEF RequestGood
\* What is inserted, and where the request goes.
<1> DEFINE Inserts(S, new) ==
        /\ S \cap Stored = {} /\ Insert(r, S) /\ request' = [request EXCEPT ![r] = new]
        /\ new.seen = {} /\ new.batch = request[r].batch /\ new.row = request[r].row
        /\ new.known = request[r].known /\ new.inserted = request[r].inserted \cup S
        /\ new.pc \in {"rows", "arrival"}
        /\ new.pc = "arrival" => S = New(r) /\ request[r].inserted = {}
<1>5. \E S \in SUBSET Events, new \in Request : Inserts(S, new)
  <2>1. CASE BulkInsert(r) /\ New(r) \cap Stored = {}
    <3> DEFINE new == [request[r] EXCEPT !.pc = "arrival", !.inserted = New(r)]
    <3>1. request[r].inserted = {}
      BY <1>1, <2>1 DEF BulkInsert, Step, RequestGood
    <3>2. New(r) \in SUBSET Events
      BY <1>1 DEF New
    <3>3. new \in Request /\ new.seen = {} /\ new.batch = request[r].batch /\ new.row = request[r].row
          /\ new.known = request[r].known /\ new.inserted = New(r) /\ new.pc = "arrival"
      BY <1>1, <1>2, <3>2 DEF Request
    <3>4. Insert(r, New(r)) /\ request' = [request EXCEPT ![r] = new]
      BY <2>1 DEF BulkInsert, To
    <3> HIDE DEF new
    <3> QED BY <2>1, <3>1, <3>2, <3>3, <3>4
  <2>2. CASE BulkInsert(r) /\ New(r) \cap Stored # {}
    <3> DEFINE new == [request[r] EXCEPT !.pc = "rows"]
    <3>1. new \in Request /\ new.seen = {} /\ new.batch = request[r].batch /\ new.row = request[r].row
          /\ new.known = request[r].known /\ new.inserted = request[r].inserted /\ new.pc = "rows"
      BY <1>1, <1>2 DEF Request
    <3>2. UNCHANGED event /\ request' = [request EXCEPT ![r] = new]
      BY <2>2 DEF BulkInsert, Only, To
    <3>3. event = [e \in Events |-> event[e]]
      BY <1>1 DEF TypeOK
    <3>4. Insert(r, {})
      BY <3>2, <3>3 DEF Insert
    <3> HIDE DEF new
    <3> QED BY <3>1, <3>2, <3>4
  <2>3. ASSUME NEW e \in Events, InsertRow(r, e)
        PROVE  \E S \in SUBSET Events, new \in Request : Inserts(S, new)
    <3> DEFINE new == [request[r] EXCEPT !.inserted = request[r].inserted \cup {e}]
    <3>1. request[r].pc = "rows" /\ e \in New(r) \ Stored /\ Insert(r, {e})
      BY <2>3 DEF InsertRow, Step
    <3>2. new \in Request /\ new.seen = {} /\ new.batch = request[r].batch /\ new.row = request[r].row
          /\ new.known = request[r].known /\ new.inserted = request[r].inserted \cup {e} /\ new.pc = "rows"
      BY <1>1, <1>2, <3>1 DEF Request
    <3>3. request' = [request EXCEPT ![r] = new]
      BY <1>1, <2>3 DEF InsertRow, To, TypeOK
    <3> HIDE DEF new
    <3> QED BY <3>1, <3>2, <3>3
  <2> QED BY <2>1, <2>2, <2>3
<1>6. PICK S \in SUBSET Events, new \in Request :
        /\ S \cap Stored = {} /\ Insert(r, S) /\ request' = [request EXCEPT ![r] = new]
        /\ new.seen = {} /\ new.batch = request[r].batch /\ new.row = request[r].row
        /\ new.known = request[r].known /\ new.inserted = request[r].inserted \cup S
        /\ new.pc \in {"rows", "arrival"}
        /\ new.pc = "arrival" => S = New(r) /\ request[r].inserted = {}
  BY <1>5
<1>7. /\ event' \in [Events -> EventRow]
      /\ \A e \in S : event'[e] = request[r].row
      /\ \A e \in Events \ S : event'[e] = event[e]
      /\ Stored' = Stored \cup S
      /\ EventsStay
      /\ \A e \in Events : event[e].status \in {"PROCESSED", "UNMATCHED"} => event'[e].status = event[e].status
  BY <1>1, <1>3, <1>4, <1>6, InsertRows
<1>8. request' \in [Requests -> Request] /\ \A q \in Requests : request'[q] = IF q = r THEN new ELSE request[q]
  BY <1>1, <1>6 DEF TypeOK
<1>9. TypeOK'
  BY <1>1, <1>3, <1>7, <1>8 DEF TypeOK
<1>10. AckedStored'
  BY <1>3, <1>7 DEF IngestInductive, AckedStored
<1>11. RequestGood(r)'
  <2>1. request'[r] = new
    BY <1>8
  <2>2. new.pc = "arrival" => new.batch \subseteq Stored'
    BY <1>4, <1>6, <1>7 DEF New
  <2>3. new.inserted \subseteq Stored'
    BY <1>1, <1>6, <1>7 DEF RequestGood
  <2>4. new.row.status = "PROCESSED" /\ ~crossed' => \A e \in new.inserted : event'[e].status = "PROCESSED"
    <3> SUFFICES ASSUME new.row.status = "PROCESSED", ~crossed', NEW e \in new.inserted
                 PROVE  event'[e].status = "PROCESSED"
      OBVIOUS
    <3>1. CASE e \in S
      BY <1>6, <1>7, <3>1
    <3>2. CASE e \in request[r].inserted
      BY <1>1, <1>2, <1>3, <1>6, <1>7, <3>2 DEF RequestGood, Stored
    <3> QED BY <1>6, <3>1, <3>2
  <2>5. new.known \subseteq Stored'
    BY <1>4, <1>6, <1>7
  <2>6. r \in bridge'.waits => new.batch = bridge'.batch
    BY <1>1, <1>2, <1>3, <1>6 DEF RequestGood
  <2> QED BY <1>4, <1>6, <2>1, <2>2, <2>3, <2>4, <2>5, <2>6 DEF RequestGood
<1>12. \A q \in Requests : RequestGood(q)'
  BY <1>1, <1>3, <1>7, <1>8, <1>11, RequestStays DEF IngestInductive
<1>13. \A m \in Managers : ManagerGood(m)'
  BY <1>1, <1>3, <1>7, ManagerStays DEF IngestInductive
<1>14. ArrivalBacked' /\ LatenessAgrees'
  BY <1>3, <1>7, BackedStays DEF IngestInductive
<1>15. LocksGood'
  BY <1>3, <1>6, <1>8, LocksStay DEF IngestInductive
<1>16. OneMapping'
  BY <1>3 DEF IngestInductive, OneMapping
<1> QED BY <1>9, <1>10, <1>12, <1>13, <1>14, <1>15, <1>16 DEF IngestInductive

-----------------------------------------------------------------------------
(* The arrivals.                                                            *)

\* Who reads the row of s for update finds it free, and holds it alone.
LEMMA LockTaken ==
  ASSUME TypeOK, LocksGood, NEW s \in Students, Exists(s), Free(s), UNCHANGED arrival,
         \/ \E r \in Requests :
              /\ request'[r].row.student = {s} /\ request'[r].seen = {arrival[s].at} /\ request'[r].pc = "write"
              /\ \A q \in Requests \ {r} : request'[q] = request[q]
              /\ UNCHANGED manager
         \/ \E m \in Managers :
              /\ manager'[m].student = {s} /\ manager'[m].seen = {arrival[s].at} /\ manager'[m].pc = "write"
              /\ \A n \in Managers \ {m} : manager'[n] = manager[n]
              /\ UNCHANGED request
  PROVE  LocksGood'
<1>1. \A q \in Requests : ~LockedByRequest(q, s)
  BY DEF Free, LockedByRequest
<1>2. \A n \in Managers : ~LockedByManager(n, s)
  BY DEF Free, LockedByManager
<1>3. \A t \in Students : Exists(t)' <=> Exists(t)
  BY DEF Exists
<1>4. CASE \E r \in Requests :
              /\ request'[r].row.student = {s} /\ request'[r].seen = {arrival[s].at} /\ request'[r].pc = "write"
              /\ \A q \in Requests \ {r} : request'[q] = request[q]
              /\ UNCHANGED manager
  <2>1. PICK r \in Requests :
              /\ request'[r].row.student = {s} /\ request'[r].seen = {arrival[s].at} /\ request'[r].pc = "write"
              /\ \A q \in Requests \ {r} : request'[q] = request[q]
              /\ UNCHANGED manager
    BY <1>4
  <2>2. \A n \in Managers, t \in Students : LockedByManager(n, t)' <=> LockedByManager(n, t)
    BY <2>1 DEF LockedByManager
  <2>3. \A q \in Requests, t \in Students :
          LockedByRequest(q, t)' <=> ((q = r /\ t = s) \/ (q # r /\ LockedByRequest(q, t)))
    BY <2>1 DEF LockedByRequest
  <2>4. /\ \A q \in Requests : request'[q].seen # {} => request'[q].pc = "write"
        /\ \A n \in Managers : manager'[n].seen # {} => manager'[n].pc = "write"
    BY <2>1 DEF LocksGood
  <2>5. \A t \in Students, q \in Requests : LockedByRequest(q, t)' =>
          /\ Exists(t)' /\ request'[q].seen = {arrival'[t].at}
          /\ \A p \in Requests : LockedByRequest(p, t)' => p = q
          /\ \A m \in Managers : ~LockedByManager(m, t)'
    <3> SUFFICES ASSUME NEW t \in Students, NEW q \in Requests, LockedByRequest(q, t)'
                 PROVE  /\ Exists(t)' /\ request'[q].seen = {arrival'[t].at}
                        /\ \A p \in Requests : LockedByRequest(p, t)' => p = q
                        /\ \A m \in Managers : ~LockedByManager(m, t)'
      OBVIOUS
    <3>1. CASE t = s
      BY <1>1, <1>2, <1>3, <2>1, <2>2, <2>3, <3>1
    <3>2. CASE t # s
      BY <1>3, <2>1, <2>2, <2>3, <3>2 DEF LocksGood
    <3> QED BY <3>1, <3>2
  <2>6. \A t \in Students, m \in Managers : LockedByManager(m, t)' =>
          /\ Exists(t)' /\ manager'[m].seen = {arrival'[t].at}
          /\ \A n \in Managers : LockedByManager(n, t)' => n = m
    BY <1>3, <2>1, <2>2 DEF LocksGood
  <2> QED BY <2>4, <2>5, <2>6 DEF LocksGood
<1>5. CASE \E m \in Managers :
              /\ manager'[m].student = {s} /\ manager'[m].seen = {arrival[s].at} /\ manager'[m].pc = "write"
              /\ \A n \in Managers \ {m} : manager'[n] = manager[n]
              /\ UNCHANGED request
  <2>1. PICK m \in Managers :
              /\ manager'[m].student = {s} /\ manager'[m].seen = {arrival[s].at} /\ manager'[m].pc = "write"
              /\ \A n \in Managers \ {m} : manager'[n] = manager[n]
              /\ UNCHANGED request
    BY <1>5
  <2>2. \A q \in Requests, t \in Students : LockedByRequest(q, t)' <=> LockedByRequest(q, t)
    BY <2>1 DEF LockedByRequest
  <2>3. \A n \in Managers, t \in Students :
          LockedByManager(n, t)' <=> ((n = m /\ t = s) \/ (n # m /\ LockedByManager(n, t)))
    BY <2>1 DEF LockedByManager
  <2>4. /\ \A q \in Requests : request'[q].seen # {} => request'[q].pc = "write"
        /\ \A n \in Managers : manager'[n].seen # {} => manager'[n].pc = "write"
    BY <2>1 DEF LocksGood
  <2>5. \A t \in Students, q \in Requests : LockedByRequest(q, t)' =>
          /\ Exists(t)' /\ request'[q].seen = {arrival'[t].at}
          /\ \A p \in Requests : LockedByRequest(p, t)' => p = q
          /\ \A n \in Managers : ~LockedByManager(n, t)'
    <3> SUFFICES ASSUME NEW t \in Students, NEW q \in Requests, LockedByRequest(q, t)
                 PROVE  /\ Exists(t)' /\ request'[q].seen = {arrival'[t].at}
                        /\ \A p \in Requests : LockedByRequest(p, t)' => p = q
                        /\ \A n \in Managers : ~LockedByManager(n, t)'
      BY <2>2
    <3>1. t # s
      BY <1>1
    <3> QED BY <1>3, <2>1, <2>2, <2>3, <3>1 DEF LocksGood
  <2>6. \A t \in Students, n \in Managers : LockedByManager(n, t)' =>
          /\ Exists(t)' /\ manager'[n].seen = {arrival'[t].at}
          /\ \A p \in Managers : LockedByManager(p, t)' => p = n
    <3> SUFFICES ASSUME NEW t \in Students, NEW n \in Managers, LockedByManager(n, t)'
                 PROVE  /\ Exists(t)' /\ manager'[n].seen = {arrival'[t].at}
                        /\ \A p \in Managers : LockedByManager(p, t)' => p = n
      OBVIOUS
    <3>1. CASE t = s
      BY <1>2, <1>3, <2>1, <2>3, <3>1
    <3>2. CASE t # s
      BY <1>3, <2>1, <2>3, <3>2 DEF LocksGood
    <3> QED BY <3>1, <3>2
  <2> QED BY <2>4, <2>5, <2>6 DEF LocksGood
<1> QED BY <1>4, <1>5

\* A write of the row of s leaves the locks on other rows.
LEMMA LocksAfterWrite ==
  ASSUME LocksGood, NEW s \in Students, \A t \in Students \ {s} : arrival'[t] = arrival[t],
         \A r \in Requests : ~LockedByRequest(r, s)', \A m \in Managers : ~LockedByManager(m, s)',
         \A r \in Requests : request'[r].seen = {} \/ request'[r] = request[r],
         \A m \in Managers : manager'[m].seen = {} \/ manager'[m] = manager[m]
  PROVE  LocksGood'
<1>1. \A r \in Requests, t \in Students :
        LockedByRequest(r, t)' => t # s /\ LockedByRequest(r, t) /\ request'[r] = request[r]
  BY DEF LockedByRequest
<1>2. \A m \in Managers, t \in Students :
        LockedByManager(m, t)' => t # s /\ LockedByManager(m, t) /\ manager'[m] = manager[m]
  BY DEF LockedByManager
<1>3. \A t \in Students \ {s} : Exists(t)' <=> Exists(t)
  BY DEF Exists
<1>4. /\ \A r \in Requests : request'[r].seen # {} => request'[r].pc = "write"
      /\ \A m \in Managers : manager'[m].seen # {} => manager'[m].pc = "write"
  BY DEF LocksGood
<1> QED BY <1>1, <1>2, <1>3, <1>4 DEF LocksGood

\* What an arrival may become: an earlier biometric one, or one the staff typed.
Earlier(s) ==
  Exists(s) /\ arrival'[s] # arrival[s] /\ arrival'[s].source = "BIOMETRIC"
    => arrival'[s].at < arrival[s].at /\ arrival'[s].late.counted <= arrival[s].late.counted

\* A biometric arrival that improves the row is backed by its event, and is earlier.
LEMMA BiometricWritten ==
  ASSUME TypeOK, ArrivalBacked, LatenessAgrees, NEW s \in Students, NEW e \in Events,
         arrival' = [arrival EXCEPT ![s] = Biometric(e)], UNCHANGED <<event, crossed>>,
         crossed \/ event[e].status = "PROCESSED",
         Exists(s) => e < arrival[s].at
  PROVE  /\ arrival' \in [Students -> Arrival] /\ ArrivalBacked' /\ LatenessAgrees'
         /\ \A t \in Students : Earlier(t)
<1>1. e \in Nat
  BY TimesNat
<1>2. /\ Biometric(e).source = "BIOMETRIC" /\ Biometric(e).at = e /\ Biometric(e).late = Lateness(e)
      /\ Biometric(e) \in Arrival
  BY <1>1, LatenessGrows DEF Biometric, Arrival, Maybe
<1>3. arrival' \in [Students -> Arrival] /\ \A t \in Students : arrival'[t] = IF t = s THEN Biometric(e) ELSE arrival[t]
  BY <1>2 DEF TypeOK
<1>4. \A x \in Events : Biometric(x)' = Biometric(x)
  BY DEF Biometric, Lateness
<1>5. ArrivalBacked'
  BY <1>3, <1>4 DEF ArrivalBacked
<1>6. \A x \in Nat : Lateness(x)' = Lateness(x)
  BY DEF Lateness
<1>7. LatenessAgrees'
  BY <1>1, <1>2, <1>3, <1>6 DEF LatenessAgrees, Exists, Lateness, Times
<1>8. Exists(s) => Lateness(e).counted <= arrival[s].late.counted
  <2> SUFFICES ASSUME Exists(s) PROVE Lateness(e).counted <= arrival[s].late.counted
    OBVIOUS
  <2>1. arrival[s].at \in Nat /\ arrival[s].late = Lateness(arrival[s].at)
    BY DEF TypeOK, Arrival, LatenessAgrees
  <2>2. e <= arrival[s].at
    BY <1>1, <2>1
  <2> QED BY <1>1, <2>1, <2>2, LatenessGrows
<1>9. \A t \in Students : Earlier(t)
  BY <1>2, <1>3, <1>8 DEF Earlier
<1> QED BY <1>3, <1>5, <1>7, <1>9

\* apply_arrival_events_bulk reads the row for update when there is something to write.
LEMMA LockArrivalStep ==
  ASSUME IngestInductive, NEW r \in Requests, LockArrival(r)
  PROVE  IngestInductive'
<1>1. TypeOK /\ RequestGood(r) /\ request[r] \in Request /\ request[r].seen = {} /\ request[r].pc = "arrival"
  BY DEF IngestInductive, TypeOK, LocksGood, LockArrival, Step
<1>2. UNCHANGED <<queue, sent, bridge, device, identity, active, manager, event, arrival, refused, crossed, faults>>
  BY DEF LockArrival, bridgeVars, adminVars
<1>3. RestTypes' /\ AckedStored'
  BY <1>1, <1>2 DEF RestTypes, TypeOK, IngestInductive, AckedStored, Stored
<1>4. CASE ~Counted(r)
  <2> DEFINE new == [request[r] EXCEPT !.pc = "unmatched"]
  <2>1. request' = [request EXCEPT ![r] = new]
    BY <1>4 DEF LockArrival, Only, To
  <2>2. new \in Request /\ new.pc = "unmatched" /\ new.batch = request[r].batch /\ new.row = request[r].row
        /\ new.inserted = request[r].inserted /\ new.seen = {}
    BY <1>1 DEF Request
  <2>3. request'[r] = new
    BY <1>1, <2>1 DEF TypeOK
  <2> HIDE DEF new
  <2>4. RequestGood(r)'
    BY <1>1, <1>2, <2>2, <2>3 DEF RequestGood, Stored
  <2> QED BY <1>2, <1>3, <2>1, <2>2, <2>4, OneRequestMoves
<1>5. CASE Counted(r)
  <2>1. PICK s \in request[r].row.student :
          MayRead(s) /\ request' = [request EXCEPT ![r] = [request[r] EXCEPT !.pc = "write", !.seen = Seen(s)]]
    BY <1>5 DEF LockArrival, To
  <2>2. s \in Students /\ request[r].row.student = {s}
    BY <1>1, <2>1 DEF Request, EventRow, Maybe
  <2> DEFINE new == [request[r] EXCEPT !.pc = "write", !.seen = Seen(s)]
  <2>3. Seen(s) \in Maybe(Times)
    BY <2>2 DEF Seen, Maybe, IngestInductive, LatenessAgrees
  <2>4. new \in Request /\ new.pc = "write" /\ new.batch = request[r].batch /\ new.row = request[r].row
        /\ new.inserted = request[r].inserted /\ new.seen = Seen(s)
    BY <1>1, <2>3 DEF Request
  <2>5. request' = [request EXCEPT ![r] = new]
    BY <2>1
  <2> HIDE DEF new
  <2>6. request' \in [Requests -> Request] /\ \A q \in Requests : request'[q] = IF q = r THEN new ELSE request[q]
    BY <1>1, <2>4, <2>5 DEF TypeOK
  <2>7. RequestGood(r)'
    BY <1>1, <1>2, <1>5, <2>4, <2>6 DEF RequestGood, Stored, Counted
  <2>8. CASE ~Exists(s)
    <3>1. new.seen = {}
      BY <2>4, <2>8 DEF Seen
    <3> QED BY <1>2, <1>3, <2>4, <2>5, <2>7, <3>1, OneRequestMoves
  <2>9. CASE Exists(s)
    <3>1. Free(s) /\ Seen(s) = {arrival[s].at}
      BY <2>1, <2>9 DEF MayRead, Seen
    <3>2. LocksGood'
      BY <1>1, <1>2, <2>2, <2>4, <2>6, <2>9, <3>1, LockTaken DEF IngestInductive
    <3>3. EventsStay
      BY <1>2 DEF EventsStay, Stored
    <3>4. \A q \in Requests : RequestGood(q)'
      BY <1>1, <1>2, <2>6, <2>7, <3>3, RequestStays DEF IngestInductive, TypeOK
    <3>5. \A m \in Managers : ManagerGood(m)'
      BY <1>1, <1>2, ManagerStays DEF IngestInductive
    <3>6. ArrivalBacked' /\ LatenessAgrees'
      BY <1>2, <3>3, BackedStays DEF IngestInductive
    <3>7. OneMapping' /\ TypeOK'
      BY <1>1, <1>2, <1>3, <2>6 DEF IngestInductive, OneMapping, TypeOK, RestTypes
    <3> QED BY <1>3, <3>2, <3>4, <3>5, <3>6, <3>7 DEF IngestInductive
  <2> QED BY <2>8, <2>9
<1> QED BY <1>4, <1>5

\* The row of s is written by a request or by a member of staff who is at the end of what it
\* did; nobody else holds it.
LEMMA WriteStep ==
  ASSUME IngestInductive, TypeOK', UNCHANGED <<event, crossed, refused, sent, bridge>>, NEW s \in Students,
         \A r \in Requests : request'[r] = request[r] \/ (request'[r].seen = {} /\ RequestGood(r)'),
         \A m \in Managers : manager'[m] = manager[m] \/ (manager'[m].seen = {} /\ ManagerGood(m)'),
         \A m \in Managers : manager'[m].pc \in Mapping => manager[m].pc \in Mapping,
         \A r \in Requests : ~LockedByRequest(r, s)',
         \A m \in Managers : ~LockedByManager(m, s)',
         ArrivalBacked', LatenessAgrees',
         \A t \in Students \ {s} : arrival'[t] = arrival[t]
  PROVE  IngestInductive'
<1>1. TypeOK /\ EventsStay
  BY DEF IngestInductive, EventsStay, Stored
<1>2. AckedStored'
  BY DEF IngestInductive, AckedStored, Stored
<1>3. LocksGood'
  BY LocksAfterWrite DEF IngestInductive
<1>4. \A q \in Requests : RequestGood(q)'
  BY <1>1, RequestStays DEF IngestInductive, TypeOK
<1>5. \A m \in Managers : ManagerGood(m)'
  BY <1>1, ManagerStays DEF IngestInductive
<1>6. OneMapping'
  BY DEF IngestInductive, OneMapping
<1> QED BY <1>2, <1>3, <1>4, <1>5, <1>6 DEF IngestInductive

\* The earliest event of the batch is written: the request sees the row as it is, or finds one
\* that somebody has created meanwhile and leaves it.
LEMMA WriteArrivalStep ==
  ASSUME IngestInductive, NEW r \in Requests, WriteArrival(r)
  PROVE  IngestInductive' /\ \A t \in Students : Earlier(t)
<1> DEFINE e == Min(request[r].inserted)
           new == [request[r] EXCEPT !.pc = "unmatched", !.seen = {}]
<1>1. TypeOK /\ RequestGood(r) /\ request[r] \in Request /\ request[r].pc = "write"
  BY DEF IngestInductive, TypeOK, WriteArrival, Step
<1>2. PICK s \in request[r].row.student :
        arrival' = IF Improves(e, request[r].seen, s) THEN [arrival EXCEPT ![s] = Biometric(e)] ELSE arrival
  BY DEF WriteArrival
<1>3. s \in Students /\ request[r].row.student = {s}
  BY <1>1, <1>2 DEF Request, EventRow, Maybe
<1>4. /\ request' = [request EXCEPT ![r] = new]
      /\ UNCHANGED <<queue, sent, bridge, device, identity, active, manager, event, refused, crossed, faults>>
  BY DEF WriteArrival, To, bridgeVars, adminVars
<1>5. new \in Request /\ new.pc = "unmatched" /\ new.batch = request[r].batch /\ new.row = request[r].row
      /\ new.inserted = request[r].inserted /\ new.seen = {}
  BY <1>1 DEF Request, Maybe
<1>6. e \in Events /\ (crossed \/ event[e].status = "PROCESSED")
  <2>1. request[r].inserted # {} /\ request[r].inserted \subseteq Events
    BY <1>1 DEF RequestGood, Request
  <2>2. e \in request[r].inserted
    BY <2>1, MinIn, TimesNat
  <2> QED BY <1>1, <2>1, <2>2 DEF RequestGood
<1> HIDE DEF new, e
<1>7. request' \in [Requests -> Request] /\ \A q \in Requests : request'[q] = IF q = r THEN new ELSE request[q]
  BY <1>1, <1>4, <1>5 DEF TypeOK
<1>8. RestTypes' /\ AckedStored'
  BY <1>1, <1>4 DEF RestTypes, TypeOK, IngestInductive, AckedStored, Stored
<1>9. RequestGood(r)'
  BY <1>1, <1>4, <1>5, <1>7 DEF RequestGood, Stored
<1>10. CASE ~Improves(e, request[r].seen, s)
  <2>1. UNCHANGED arrival
    BY <1>2, <1>10
  <2>2. IngestInductive'
    BY <1>4, <1>5, <1>8, <1>9, <2>1, OneRequestMoves
  <2> QED BY <2>1, <2>2 DEF Earlier
<1>11. CASE Improves(e, request[r].seen, s)
  <2>1. arrival' = [arrival EXCEPT ![s] = Biometric(e)]
    BY <1>2, <1>11
  <2>2. request[r].seen # {} => LockedByRequest(r, s)
    BY <1>3 DEF LockedByRequest
  <2>3. Exists(s) => e < arrival[s].at
    BY <1>3, <1>11, <2>2 DEF Improves, IngestInductive, LocksGood
  <2>4. /\ arrival' \in [Students -> Arrival] /\ ArrivalBacked' /\ LatenessAgrees'
        /\ \A t \in Students : Earlier(t)
    BY <1>1, <1>3, <1>4, <1>6, <2>1, <2>3, BiometricWritten DEF IngestInductive
  <2>5. TypeOK'
    BY <1>1, <1>4, <1>7, <1>8, <2>4 DEF TypeOK, RestTypes
  <2>6. /\ \A q \in Requests : q # r => ~LockedByRequest(q, s)
        /\ \A m \in Managers : ~LockedByManager(m, s)
    <3>1. CASE request[r].seen = {}
      BY <1>3, <1>11, <3>1 DEF Improves, IngestInductive, LocksGood
    <3>2. CASE request[r].seen # {}
      BY <1>3, <2>2, <3>2 DEF IngestInductive, LocksGood
    <3> QED BY <3>1, <3>2
  <2>7. \A q \in Requests : ~LockedByRequest(q, s)'
    BY <1>5, <1>7, <2>6 DEF LockedByRequest
  <2>8. \A m \in Managers : ~LockedByManager(m, s)'
    BY <1>4, <2>6 DEF LockedByManager
  <2>9. \A t \in Students \ {s} : arrival'[t] = arrival[t]
    BY <1>1, <2>1 DEF TypeOK
  <2>10. \A q \in Requests : request'[q] = request[q] \/ (request'[q].seen = {} /\ RequestGood(q)')
    BY <1>5, <1>7, <1>9
  <2>11. IngestInductive'
    BY <1>3, <1>4, <2>4, <2>5, <2>7, <2>8, <2>9, <2>10, WriteStep
  <2> QED BY <2>4, <2>11
<1> QED BY <1>10, <1>11

-----------------------------------------------------------------------------
(* The staff.                                                               *)

\* A step of one manager that writes no event and no arrival and takes no lock.
LEMMA OneManagerMoves ==
  ASSUME IngestInductive, NEW m \in Managers, NEW new \in Manager,
         manager' = [manager EXCEPT ![m] = new], new.seen = {},
         UNCHANGED <<event, arrival, request, refused, sent, bridge>>,
         RestTypes', ~crossed' => ~crossed, OneMapping', ManagerGood(m)'
  PROVE  IngestInductive'
<1>1. TypeOK
  BY DEF IngestInductive
<1>2. manager' \in [Managers -> Manager] /\ \A n \in Managers : manager'[n] = IF n = m THEN new ELSE manager[n]
  BY <1>1 DEF TypeOK
<1>3. TypeOK'
  BY <1>1, <1>2 DEF TypeOK, RestTypes
<1>4. EventsStay
  BY DEF EventsStay, Stored
<1>5. \A q \in Requests : RequestGood(q)'
  BY <1>1, <1>4, RequestStays DEF IngestInductive, TypeOK
<1>6. \A n \in Managers : ManagerGood(n)'
  BY <1>1, <1>2, ManagerStays DEF IngestInductive
<1>7. ArrivalBacked' /\ LatenessAgrees'
  BY <1>4, BackedStays DEF IngestInductive
<1>8. LocksGood'
  BY <1>2, LocksStay DEF IngestInductive
<1>9. AckedStored'
  BY DEF IngestInductive, AckedStored, Stored
<1> QED BY <1>3, <1>5, <1>6, <1>7, <1>8, <1>9 DEF IngestInductive

\* A manager that is at no mapping, or was at one, makes no second one.
LEMMA MappingStays ==
  ASSUME OneMapping, UNCHANGED crossed,
         \A n \in Managers : manager'[n].pc \in Mapping => manager[n].pc \in Mapping
  PROVE  OneMapping'
BY DEF OneMapping

\* IdentityMapView: when another mapping is under way, they cross.
LEMMA MapStep ==
  ASSUME IngestInductive, NEW m \in Managers, NEW s \in Students, MapIdentity(m, s)
  PROVE  IngestInductive'
<1> DEFINE on == s \in active
           new == [Idle EXCEPT !.pc = "list", !.student = {s}, !.active = on]
<1>1. TypeOK
  BY DEF IngestInductive
<1>2. /\ manager' = [manager EXCEPT ![m] = new]
      /\ crossed' = (crossed \/ \E n \in Managers : manager[n].pc \in Mapping)
      /\ identity' = [exists |-> TRUE, student |-> {s}]
      /\ UNCHANGED <<queue, sent, bridge, request, device, active, event, arrival, refused, faults>>
  BY DEF MapIdentity, Set, bridgeVars
<1>3. on \in BOOLEAN
  OBVIOUS
<1> HIDE DEF on
<1>4. new \in Manager /\ new.pc = "list" /\ new.seen = {}
  BY <1>3, IngestRows DEF Idle, Manager, Maybe
<1> HIDE DEF new
<1>5. \A n \in Managers : manager'[n] = IF n = m THEN new ELSE manager[n]
  BY <1>1, <1>2 DEF TypeOK
<1>6. crossed' \in BOOLEAN /\ (~crossed' => ~crossed)
  BY <1>1, <1>2 DEF TypeOK
<1>7. RestTypes'
  <2>1. identity' \in [exists: BOOLEAN, student: Maybe(Students)]
    BY <1>2 DEF Maybe
  <2> QED BY <1>1, <1>2, <1>6, <2>1 DEF TypeOK, RestTypes
<1>8. OneMapping'
  <2> SUFFICES ASSUME ~crossed', NEW x \in Managers, NEW y \in Managers,
                      manager'[x].pc \in Mapping, manager'[y].pc \in Mapping
               PROVE  x = y
    BY DEF OneMapping
  <2>1. \A n \in Managers : manager[n].pc \notin Mapping
    BY <1>2
  <2> QED BY <1>5, <2>1
<1>9. ManagerGood(m)'
  BY <1>5, <1>4 DEF ManagerGood
<1> QED BY <1>2, <1>4, <1>6, <1>7, <1>8, <1>9, OneManagerMoves

\* The checks and reads of the staff: they change only what the thread knows.
LEMMA StaffReads ==
  ASSUME IngestInductive, NEW m \in Managers,
         ListUnmatched(m) \/ (\E s \in Students : CheckManual(m, s) \/ ReadForCorrection(m, s))
  PROVE  IngestInductive'
<1>1. TypeOK /\ manager[m] \in Manager /\ manager[m].pc # "write" /\ manager[m].seen = {}
  <2>1. manager[m].pc # "write"
    BY DEF ListUnmatched, CheckManual, ReadForCorrection
  <2> QED BY <2>1 DEF IngestInductive, TypeOK, LocksGood
<1>2. UNCHANGED <<queue, sent, bridge, request, device, identity, active, event, arrival, refused, crossed, faults>>
  BY DEF ListUnmatched, CheckManual, ReadForCorrection, bridgeVars
<1>3. \E new \in Manager :
        /\ manager' = [manager EXCEPT ![m] = new] /\ new.seen = {}
        /\ \/ new.pc \in {"create", "correct"}
           \/ /\ new.pc = "save" /\ manager[m].pc = "list"
              /\ \A e \in new.todo : event[e].status = "UNMATCHED"
  <2>1. CASE ListUnmatched(m)
    <3> DEFINE todo == {e \in Events : event[e].status = "UNMATCHED"}
               new == [manager[m] EXCEPT !.pc = "save", !.todo = todo]
    <3>1. manager' = [manager EXCEPT ![m] = new] /\ manager[m].pc = "list"
      BY <2>1 DEF ListUnmatched, Set
    <3>2. todo \subseteq Events /\ \A e \in todo : event[e].status = "UNMATCHED"
      OBVIOUS
    <3> HIDE DEF todo
    <3>3. new \in Manager /\ new.pc = "save" /\ new.seen = {} /\ new.todo = todo
      BY <1>1, <3>2 DEF Manager
    <3> HIDE DEF new
    <3> QED BY <3>1, <3>2, <3>3
  <2>2. ASSUME NEW s \in Students, CheckManual(m, s)
        PROVE  \E new \in Manager : manager' = [manager EXCEPT ![m] = new] /\ new.seen = {} /\ new.pc = "create"
    <3> DEFINE new == [Idle EXCEPT !.pc = "create", !.student = {s}]
    <3>1. manager' = [manager EXCEPT ![m] = new]
      BY <2>2 DEF CheckManual, Set
    <3>2. new \in Manager /\ new.pc = "create" /\ new.seen = {}
      BY IngestRows DEF Idle, Manager, Maybe
    <3> QED BY <3>1, <3>2
  <2>3. ASSUME NEW s \in Students, ReadForCorrection(m, s)
        PROVE  \E new \in Manager : manager' = [manager EXCEPT ![m] = new] /\ new.seen = {} /\ new.pc = "correct"
    <3> DEFINE new == [Idle EXCEPT !.pc = "correct", !.student = {s}, !.was = arrival[s]]
    <3>1. manager' = [manager EXCEPT ![m] = new]
      BY <2>3 DEF ReadForCorrection, Set
    <3>2. arrival[s] \in Arrival
      BY <1>1 DEF TypeOK
    <3>3. new \in Manager /\ new.pc = "correct" /\ new.seen = {}
      BY <3>2, IngestRows DEF Idle, Manager, Maybe
    <3> QED BY <3>1, <3>3
  <2> QED BY <2>1, <2>2, <2>3
<1>4. PICK new \in Manager :
        /\ manager' = [manager EXCEPT ![m] = new] /\ new.seen = {}
        /\ \/ new.pc \in {"create", "correct"}
           \/ /\ new.pc = "save" /\ manager[m].pc = "list"
              /\ \A e \in new.todo : event[e].status = "UNMATCHED"
  BY <1>3
<1>5. \A n \in Managers : manager'[n] = IF n = m THEN new ELSE manager[n]
  BY <1>1, <1>4 DEF TypeOK
<1>6. RestTypes'
  BY <1>1, <1>2 DEF TypeOK, RestTypes
<1>7. OneMapping'
  BY <1>2, <1>4, <1>5, MappingStays DEF IngestInductive, Mapping
<1>8. ManagerGood(m)'
  BY <1>2, <1>4, <1>5 DEF ManagerGood
<1> QED BY <1>2, <1>4, <1>6, <1>7, <1>8, OneManagerMoves

\* reprocess_unmatched saves one event: while mappings do not cross it is still UNMATCHED.
LEMMA SaveStep ==
  ASSUME IngestInductive, NEW m \in Managers, SaveEvent(m)
  PROVE  IngestInductive'
<1> DEFINE e == Min(manager[m].todo)
<1>1. /\ TypeOK /\ manager[m] \in Manager /\ manager[m].pc = "save" /\ manager[m].seen = {} /\ ManagerGood(m)
      /\ manager[m].todo \subseteq Events /\ manager[m].student \in Maybe(Students)
  BY DEF IngestInductive, TypeOK, LocksGood, SaveEvent, Manager
<1>2. UNCHANGED <<queue, sent, bridge, request, device, identity, active, arrival, refused, crossed, faults>>
  BY DEF SaveEvent, bridgeVars
<1>3. RestTypes'
  BY <1>1, <1>2 DEF TypeOK, RestTypes
<1>4. CASE manager[m].todo = {} /\ manager' = [manager EXCEPT ![m] = Idle] /\ UNCHANGED event
  <2>1. Idle \in Manager /\ Idle.seen = {} /\ Idle.pc = "idle"
    BY IngestRows DEF Idle
  <2>2. \A n \in Managers : manager'[n] = IF n = m THEN Idle ELSE manager[n]
    BY <1>1, <1>4 DEF TypeOK
  <2>3. OneMapping'
    BY <1>2, <2>1, <2>2, MappingStays DEF IngestInductive, Mapping
  <2>4. ManagerGood(m)'
    BY <2>1, <2>2 DEF ManagerGood
  <2> QED BY <1>2, <1>3, <1>4, <2>1, <2>3, <2>4, OneManagerMoves
<1>5. CASE /\ manager[m].todo # {}
           /\ event' = [event EXCEPT ![e] = [status |-> IF manager[m].active THEN "PROCESSED" ELSE "IGNORED",
                                             student |-> manager[m].student]]
           /\ manager' = [manager EXCEPT ![m] = IF manager[m].active THEN [manager[m] EXCEPT !.pc = "arrival"]
                                                ELSE [manager[m] EXCEPT !.todo = @ \ {Min(@)}]]
  <2> DEFINE row == [status |-> IF manager[m].active THEN "PROCESSED" ELSE "IGNORED",
                     student |-> manager[m].student]
             new == IF manager[m].active THEN [manager[m] EXCEPT !.pc = "arrival"]
                    ELSE [manager[m] EXCEPT !.todo = @ \ {Min(@)}]
  <2>1. e \in manager[m].todo /\ e \in Events
    BY <1>1, <1>5, MinIn, TimesNat
  <2>2. row \in EventRow /\ row.status # "NONE" /\ (manager[m].active => row.status = "PROCESSED")
    BY <1>1 DEF EventRow
  <2>3. /\ new \in Manager /\ new.seen = {} /\ new.pc \in Mapping
        /\ \/ manager[m].active /\ new.pc = "arrival" /\ new.todo = manager[m].todo
           \/ new.pc = "save" /\ new.todo = manager[m].todo \ {e}
    BY <1>1 DEF Manager, Mapping
  <2>4. event' = [event EXCEPT ![e] = row] /\ manager' = [manager EXCEPT ![m] = new]
    BY <1>5
  <2> HIDE DEF new, row
  <2>5. /\ manager' \in [Managers -> Manager]
        /\ \A n \in Managers : manager'[n] = IF n = m THEN new ELSE manager[n]
    BY <1>1, <2>3, <2>4 DEF TypeOK
  <2>6. /\ event' \in [Events -> EventRow]
        /\ \A x \in Events : event'[x] = IF x = e THEN row ELSE event[x]
    BY <1>1, <2>1, <2>2, <2>4 DEF TypeOK
  <2>7. TypeOK'
    BY <1>1, <1>2, <1>3, <2>5, <2>6 DEF TypeOK, RestTypes
  <2>8. ~crossed => event[e].status = "UNMATCHED"
    BY <1>1, <2>1 DEF ManagerGood
  <2>9. EventsStay
    <3>1. \A x \in Stored : event'[x].status # "NONE"
      BY <2>2, <2>6 DEF Stored
    <3>2. ~crossed => \A x \in Events : event[x].status = "PROCESSED" => event'[x].status = "PROCESSED"
      BY <2>6, <2>8
    <3> QED BY <1>2, <3>1, <3>2 DEF EventsStay
  <2>10. \A q \in Requests : RequestGood(q)'
    BY <1>1, <1>2, <2>6, <2>9, RequestStays DEF IngestInductive, TypeOK
  <2>11. ManagerGood(m)'
    <3>1. manager'[m] = new
      BY <2>5
    <3>2. ~crossed => \A x \in manager[m].todo : event[x].status = "UNMATCHED"
      BY <1>1 DEF ManagerGood
    <3>3. CASE manager[m].active /\ new.pc = "arrival" /\ new.todo = manager[m].todo
      <4>1. Min(manager'[m].todo) = e
        BY <3>1, <3>3
      <4> HIDE DEF e
      <4> QED BY <1>1, <1>2, <1>5, <2>1, <2>2, <2>6, <3>1, <3>2, <3>3, <4>1 DEF ManagerGood
    <3>4. CASE new.pc = "save" /\ new.todo = manager[m].todo \ {e}
      <4> HIDE DEF e
      <4> QED BY <1>1, <1>2, <2>6, <3>1, <3>2, <3>4 DEF ManagerGood
    <3> QED BY <2>3, <3>3, <3>4
  <2>12. ASSUME NEW n \in Managers, n # m
         PROVE  ManagerGood(n)'
    <3>1. manager'[n] = manager[n] /\ ManagerGood(n)
      BY <2>5, <2>12 DEF IngestInductive
    <3>2. ~crossed => manager[n].pc \notin Mapping
      BY <1>1, <2>12 DEF IngestInductive, OneMapping, Mapping
    <3> QED BY <1>2, <3>1, <3>2 DEF ManagerGood, Mapping
  <2>13. ArrivalBacked' /\ LatenessAgrees'
    BY <1>2, <2>9, BackedStays DEF IngestInductive
  <2>14. AckedStored'
    BY <1>2, <2>9 DEF IngestInductive, AckedStored, EventsStay, Stored
  <2>15. LocksGood'
    BY <1>2, <2>3, <2>5, LocksStay DEF IngestInductive
  <2>16. OneMapping'
    BY <1>1, <1>2, <2>5, MappingStays DEF IngestInductive, Mapping
  <2> QED BY <2>7, <2>10, <2>11, <2>12, <2>13, <2>14, <2>15, <2>16 DEF IngestInductive
<1> QED BY <1>4, <1>5 DEF SaveEvent, Set

\* apply_arrival_event reads the row for update.
LEMMA LockForEventStep ==
  ASSUME IngestInductive, NEW m \in Managers, LockForEvent(m)
  PROVE  IngestInductive'
<1>1. TypeOK /\ ManagerGood(m) /\ manager[m] \in Manager /\ manager[m].pc = "arrival"
  BY DEF IngestInductive, TypeOK, LockForEvent
<1>2. UNCHANGED <<queue, sent, bridge, request, device, identity, active, event, arrival, refused, crossed, faults>>
  BY DEF LockForEvent, bridgeVars
<1>3. RestTypes'
  BY <1>1, <1>2 DEF RestTypes, TypeOK
<1>4. PICK s \in manager[m].student :
        MayRead(s) /\ manager' = [manager EXCEPT ![m] = [manager[m] EXCEPT !.pc = "write", !.seen = Seen(s)]]
  BY DEF LockForEvent, Set
<1>5. s \in Students /\ manager[m].student = {s}
  BY <1>1, <1>4 DEF Manager, Maybe
<1> DEFINE new == [manager[m] EXCEPT !.pc = "write", !.seen = Seen(s)]
<1>6. Seen(s) \in Maybe(Times)
  BY <1>5 DEF Seen, Maybe, IngestInductive, LatenessAgrees
<1>7. new \in Manager /\ new.pc = "write" /\ new.todo = manager[m].todo /\ new.student = manager[m].student
      /\ new.seen = Seen(s)
  BY <1>1, <1>6 DEF Manager
<1>8. manager' = [manager EXCEPT ![m] = new]
  BY <1>4
<1> HIDE DEF new
<1>9. /\ manager' \in [Managers -> Manager]
      /\ \A n \in Managers : manager'[n] = IF n = m THEN new ELSE manager[n]
  BY <1>1, <1>7, <1>8 DEF TypeOK
<1>10. ManagerGood(m)'
  <2> DEFINE first == Min(manager[m].todo)
  <2>1. Min(manager'[m].todo) = first
    BY <1>7, <1>9
  <2> HIDE DEF first
  <2> QED BY <1>1, <1>2, <1>7, <1>9, <2>1 DEF ManagerGood, first
<1>11. OneMapping'
  BY <1>1, <1>2, <1>9, MappingStays DEF IngestInductive, Mapping
<1>12. CASE ~Exists(s)
  <2>1. new.seen = {}
    BY <1>7, <1>12 DEF Seen
  <2> QED BY <1>2, <1>3, <1>7, <1>8, <1>10, <1>11, <2>1, OneManagerMoves
<1>13. CASE Exists(s)
  <2>1. Free(s) /\ Seen(s) = {arrival[s].at}
    BY <1>4, <1>13 DEF MayRead, Seen
  <2>2. LocksGood'
    BY <1>1, <1>2, <1>5, <1>7, <1>9, <1>13, <2>1, LockTaken DEF IngestInductive
  <2>3. EventsStay
    BY <1>2 DEF EventsStay, Stored
  <2>4. \A q \in Requests : RequestGood(q)'
    BY <1>1, <1>2, <2>3, RequestStays DEF IngestInductive, TypeOK
  <2>5. \A n \in Managers : ManagerGood(n)'
    BY <1>1, <1>2, <1>9, <1>10, ManagerStays DEF IngestInductive
  <2>6. ArrivalBacked' /\ LatenessAgrees'
    BY <1>2, <2>3, BackedStays DEF IngestInductive
  <2>7. TypeOK'
    BY <1>1, <1>2, <1>3, <1>9 DEF TypeOK, RestTypes
  <2>8. AckedStored'
    BY <1>2 DEF IngestInductive, AckedStored, Stored
  <2> QED BY <1>11, <2>2, <2>4, <2>5, <2>6, <2>7, <2>8 DEF IngestInductive
<1> QED BY <1>12, <1>13

\* The event of a mapping is written: the row is seen as it is, or has been created meanwhile.
LEMMA WriteForEventStep ==
  ASSUME IngestInductive, NEW m \in Managers, WriteForEvent(m)
  PROVE  IngestInductive' /\ \A t \in Students : Earlier(t)
<1> DEFINE e == Min(manager[m].todo)
           next == [manager[m] EXCEPT !.pc = "save", !.todo = manager[m].todo \ {e}, !.seen = {}]
<1>1. TypeOK /\ ManagerGood(m) /\ manager[m] \in Manager /\ manager[m].pc = "write"
  BY DEF IngestInductive, TypeOK, WriteForEvent
<1>2. PICK s \in manager[m].student :
        /\ arrival' = IF Improves(e, manager[m].seen, s) THEN [arrival EXCEPT ![s] = Biometric(e)] ELSE arrival
        /\ manager' = [manager EXCEPT ![m] = IF manager[m].seen = {} /\ Exists(s) THEN Idle ELSE next]
  BY DEF WriteForEvent, Set
<1> DEFINE new == IF manager[m].seen = {} /\ Exists(s) THEN Idle ELSE next
<1>3. s \in Students /\ manager[m].student = {s}
  BY <1>1, <1>2 DEF Manager, Maybe
<1>4. /\ manager' = [manager EXCEPT ![m] = new]
      /\ UNCHANGED <<queue, sent, bridge, request, device, identity, active, event, refused, crossed, faults>>
  BY <1>2 DEF WriteForEvent, bridgeVars
<1>5. /\ new \in Manager /\ new.seen = {}
      /\ \/ new.pc = "idle"
         \/ new.pc = "save" /\ new.todo = manager[m].todo \ {e}
  <2>1. next \in Manager /\ next.seen = {} /\ next.pc = "save" /\ next.todo = manager[m].todo \ {e}
    BY <1>1 DEF Manager, Maybe
  <2>2. Idle \in Manager /\ Idle.seen = {} /\ Idle.pc = "idle"
    BY IngestRows DEF Idle
  <2> HIDE DEF next
  <2> QED BY <2>1, <2>2
<1>6. manager[m].todo # {} /\ manager[m].todo \subseteq Events
  BY <1>1 DEF ManagerGood, Manager
<1>7. e \in Events /\ e \in manager[m].todo
  BY <1>6, MinIn, TimesNat
<1>8. /\ crossed \/ event[e].status = "PROCESSED"
      /\ ~crossed => \A x \in manager[m].todo \ {e} : event[x].status = "UNMATCHED"
  BY <1>1 DEF ManagerGood
<1> HIDE DEF new, e
<1>9. /\ manager' \in [Managers -> Manager]
      /\ \A n \in Managers : manager'[n] = IF n = m THEN new ELSE manager[n]
  BY <1>1, <1>4, <1>5 DEF TypeOK
<1>10. RestTypes'
  BY <1>1, <1>4 DEF RestTypes, TypeOK
<1>11. ManagerGood(m)'
  BY <1>4, <1>5, <1>8, <1>9 DEF ManagerGood
<1>12. OneMapping'
  BY <1>1, <1>4, <1>9, MappingStays DEF IngestInductive, Mapping
<1>13. CASE ~Improves(e, manager[m].seen, s)
  <2>1. UNCHANGED arrival
    BY <1>2, <1>13 DEF e
  <2>2. IngestInductive'
    BY <1>4, <1>5, <1>10, <1>11, <1>12, <2>1, OneManagerMoves
  <2> QED BY <2>1, <2>2 DEF Earlier
<1>14. CASE Improves(e, manager[m].seen, s)
  <2>1. arrival' = [arrival EXCEPT ![s] = Biometric(e)]
    BY <1>2, <1>14 DEF e
  <2>2. manager[m].seen # {} => LockedByManager(m, s)
    BY <1>3 DEF LockedByManager
  <2>3. Exists(s) => e < arrival[s].at
    BY <1>3, <1>14, <2>2 DEF Improves, IngestInductive, LocksGood
  <2>4. /\ arrival' \in [Students -> Arrival] /\ ArrivalBacked' /\ LatenessAgrees'
        /\ \A t \in Students : Earlier(t)
    BY <1>1, <1>3, <1>4, <1>7, <1>8, <2>1, <2>3, BiometricWritten DEF IngestInductive
  <2>5. TypeOK'
    BY <1>1, <1>4, <1>9, <1>10, <2>4 DEF TypeOK, RestTypes
  <2>6. /\ \A q \in Requests : ~LockedByRequest(q, s)
        /\ \A n \in Managers : n # m => ~LockedByManager(n, s)
    <3>1. CASE manager[m].seen = {}
      BY <1>3, <1>14, <3>1 DEF Improves, IngestInductive, LocksGood
    <3>2. CASE manager[m].seen # {}
      BY <1>3, <2>2, <3>2 DEF IngestInductive, LocksGood
    <3> QED BY <3>1, <3>2
  <2>7. \A q \in Requests : ~LockedByRequest(q, s)'
    BY <1>4, <2>6 DEF LockedByRequest
  <2>8. \A n \in Managers : ~LockedByManager(n, s)'
    BY <1>5, <1>9, <2>6 DEF LockedByManager
  <2>9. \A t \in Students \ {s} : arrival'[t] = arrival[t]
    BY <1>1, <2>1 DEF TypeOK
  <2>10. \A n \in Managers : manager'[n] = manager[n] \/ (manager'[n].seen = {} /\ ManagerGood(n)')
    BY <1>5, <1>9, <1>11
  <2>11. \A n \in Managers : manager'[n].pc \in Mapping => manager[n].pc \in Mapping
    BY <1>1, <1>9 DEF Mapping
  <2>12. IngestInductive'
    BY <1>3, <1>4, <2>4, <2>5, <2>7, <2>8, <2>9, <2>10, <2>11, WriteStep
  <2> QED BY <2>4, <2>12
<1> QED BY <1>13, <1>14

\* What the staff type is an arrival with the lateness of its time.
LEMMA ManualRow ==
  ASSUME NEW was \in Arrival, NEW t \in ManualTimes
  PROVE  /\ Manual(was, t) \in Arrival /\ Manual(was, t).source = "MANUAL"
         /\ Manual(was, t).at = t /\ Manual(was, t).late = Lateness(t)
<1>1. t \in Nat
  BY TimesNat
<1> QED BY <1>1, LatenessGrows DEF Manual, Arrival

\* create_manual_arrival and correct_arrival write a row that nobody holds: it is not there, or
\* it is free.
LEMMA ManualStep ==
  ASSUME IngestInductive, NEW m \in Managers, NEW t \in ManualTimes, ManualEntry(m, t)
  PROVE  IngestInductive' /\ \A s \in Students : Earlier(s)
<1>1. TypeOK /\ manager[m] \in Manager /\ manager[m].pc \notin Mapping
  BY DEF IngestInductive, TypeOK, ManualEntry, CreateManual, CorrectArrival, Mapping
<1>2. /\ manager' = [manager EXCEPT ![m] = Idle]
      /\ UNCHANGED <<queue, sent, bridge, request, device, identity, active, event, refused, crossed, faults>>
  BY DEF ManualEntry, CreateManual, CorrectArrival, Set, bridgeVars
<1>3. /\ manager' \in [Managers -> Manager]
      /\ \A n \in Managers : manager'[n] = IF n = m THEN Idle ELSE manager[n]
  BY <1>1, <1>2, IngestRows DEF TypeOK
<1>4. RestTypes'
  BY <1>1, <1>2 DEF RestTypes, TypeOK
<1>5. Idle.seen = {} /\ Idle.pc = "idle" /\ Idle.student = {}
  BY DEF Idle
<1>6. ManagerGood(m)'
  BY <1>3, <1>5 DEF ManagerGood
<1>7. \A n \in Managers : manager'[n].pc \in Mapping => manager[n].pc \in Mapping
  BY <1>3, <1>5 DEF Mapping
<1>8. CASE UNCHANGED arrival
  <2>1. OneMapping'
    BY <1>2, <1>7, MappingStays DEF IngestInductive
  <2>2. IngestInductive'
    BY <1>2, <1>4, <1>5, <1>6, <1>8, <2>1, IngestRows, OneManagerMoves
  <2> QED BY <1>8, <2>2 DEF Earlier
<1>9. ASSUME NEW s \in Students, NEW was \in Arrival, Exists(s) => Free(s),
             arrival' = [arrival EXCEPT ![s] = Manual(was, t)]
      PROVE  IngestInductive' /\ \A x \in Students : Earlier(x)
  <2>1. /\ arrival' \in [Students -> Arrival]
        /\ \A x \in Students : arrival'[x] = IF x = s THEN Manual(was, t) ELSE arrival[x]
    BY <1>1, <1>9, ManualRow DEF TypeOK
  <2>2. TypeOK'
    BY <1>1, <1>2, <1>3, <1>4, <2>1 DEF TypeOK, RestTypes
  <2> DEFINE typed == Manual(was, t)
  <2>3. typed.source = "MANUAL" /\ typed.at = t /\ typed.late = Lateness(t)
    BY <1>9, ManualRow
  <2>4. \A x \in Students : arrival'[x] = IF x = s THEN typed ELSE arrival[x]
    BY <2>1
  <2> HIDE DEF typed
  <2>5. ArrivalBacked'
    <3>1. \A x \in Events : Biometric(x)' = Biometric(x)
      BY DEF Biometric, Lateness
    <3> QED BY <1>2, <2>3, <2>4, <3>1 DEF IngestInductive, ArrivalBacked
  <2>6. LatenessAgrees'
    <3>1. \A x : Lateness(x)' = Lateness(x)
      BY DEF Lateness
    <3> QED BY <2>3, <2>4, <3>1 DEF IngestInductive, LatenessAgrees, Exists, Times
  <2>7. (\A q \in Requests : ~LockedByRequest(q, s)) /\ (\A n \in Managers : ~LockedByManager(n, s))
    <3>1. CASE Exists(s)
      BY <1>9, <3>1 DEF Free, LockedByRequest, LockedByManager
    <3>2. CASE ~Exists(s)
      BY <3>2 DEF IngestInductive, LocksGood
    <3> QED BY <3>1, <3>2
  <2>8. \A q \in Requests : ~LockedByRequest(q, s)'
    BY <1>2, <2>7 DEF LockedByRequest
  <2>9. \A n \in Managers : ~LockedByManager(n, s)'
    BY <1>3, <1>5, <2>7 DEF LockedByManager
  <2>10. \A n \in Managers : manager'[n] = manager[n] \/ (manager'[n].seen = {} /\ ManagerGood(n)')
    BY <1>3, <1>5, <1>6
  <2>11. \A x \in Students \ {s} : arrival'[x] = arrival[x]
    BY <2>1
  <2>12. IngestInductive'
    BY <1>2, <1>7, <2>2, <2>5, <2>6, <2>8, <2>9, <2>10, <2>11, WriteStep
  <2>13. \A x \in Students : Earlier(x)
    BY <2>1, ManualRow DEF Earlier
  <2> QED BY <2>12, <2>13
<1>10. CASE CreateManual(m, t)
  <2>1. PICK s \in manager[m].student :
          arrival' = IF Exists(s) THEN arrival ELSE [arrival EXCEPT ![s] = Manual(NoArrival, t)]
    BY <1>10 DEF CreateManual
  <2>2. s \in Students
    BY <1>1, <2>1 DEF Manager, Maybe
  <2> QED BY <1>8, <1>9, <2>1, <2>2, IngestRows
<1>11. CASE CorrectArrival(m, t)
  <2>1. PICK s \in manager[m].student :
          Free(s) /\ arrival' = [arrival EXCEPT ![s] = Manual(manager[m].was, t)]
    BY <1>11 DEF CorrectArrival
  <2>2. s \in Students /\ manager[m].was \in Arrival
    BY <1>1, <2>1 DEF Manager, Maybe
  <2> QED BY <1>9, <2>1, <2>2
<1> QED BY <1>10, <1>11 DEF ManualEntry

\* The steps that change an identity, the device or the status of a student.
LEMMA AdminStep ==
  ASSUME IngestInductive,
         (\E m \in Managers : UnmapIdentity(m)) \/ ToggleDevice \/ (\E s \in Students : Withdraw(s))
  PROVE  IngestInductive'
<1>1. TypeOK
  BY DEF IngestInductive
<1>2. UNCHANGED <<queue, sent, bridge, request, manager, event, arrival, refused, crossed>>
  BY DEF UnmapIdentity, ToggleDevice, Withdraw, bridgeVars
<1>3. Fault \/ UNCHANGED faults
  BY DEF UnmapIdentity, ToggleDevice, Withdraw
<1>4. /\ identity' \in {identity, [exists |-> TRUE, student |-> {}]}
      /\ device' \in {device, ~device} /\ active' \subseteq active
  BY DEF UnmapIdentity, ToggleDevice, Withdraw
<1>5. [exists |-> TRUE, student |-> {}] \in [exists: BOOLEAN, student: Maybe(Students)]
  BY DEF Maybe
<1>6. RestTypes'
  BY <1>1, <1>2, <1>3, <1>4, <1>5, FaultTypes DEF RestTypes, TypeOK
<1>7. AckedStored'
  BY <1>2 DEF IngestInductive, AckedStored, Stored
<1> QED BY <1>2, <1>6, <1>7, NobodyMoves

-----------------------------------------------------------------------------
(* The specification.                                                       *)

\* An empty queue, no rows, and nobody at work.
LEMMA IngestInit ==
  ASSUME Init
  PROVE  IngestInductive
<1>1. TypeOK
  <2>1. faults \in 0..MaxFaults
    BY SizesNat DEF Init
  <2>2. queue \in Seq(Events)
    BY DEF Init
  <2>3. identity \in [exists: BOOLEAN, student: Maybe(Students)]
    BY DEF Init, Maybe
  <2> QED BY <2>1, <2>2, <2>3, IngestRows DEF Init, TypeOK
<1>2. AckedStored /\ ArrivalBacked /\ LatenessAgrees /\ OneMapping
  BY DEF Init, AckedStored, ArrivalBacked, LatenessAgrees, Exists, OneMapping, NoArrival, Idle, Mapping
<1>3. LocksGood
  BY DEF Init, LocksGood, LockedByRequest, LockedByManager, NoRequest, Idle
<1>4. \A r \in Requests : RequestGood(r)
  BY DEF Init, RequestGood, NoRequest, Resting
<1>5. \A m \in Managers : ManagerGood(m)
  BY DEF Init, ManagerGood, Idle
<1> QED BY <1>1, <1>2, <1>3, <1>4, <1>5 DEF IngestInductive

\* Every step keeps it, and replaces an arrival by an earlier one only.
LEMMA IngestStep ==
  ASSUME IngestInductive, [Next]_vars
  PROVE  IngestInductive' /\ \A s \in Students : Earlier(s)
<1>1. CASE UNCHANGED vars
  <2>1. UNCHANGED <<queue, sent, bridge, request, device, identity, active, event, arrival,
                    manager, refused, crossed, faults>>
    BY <1>1 DEF vars
  <2>2. RestTypes' /\ AckedStored'
    BY <2>1 DEF IngestInductive, TypeOK, RestTypes, AckedStored, Stored
  <2>3. IngestInductive'
    BY <2>1, <2>2, NobodyMoves
  <2> QED BY <2>1, <2>3 DEF Earlier
<1>2. ASSUME UNCHANGED arrival
      PROVE  \A s \in Students : Earlier(s)
  BY <1>2 DEF Earlier
<1>3. CASE BridgeStep
  <2>1. UNCHANGED arrival
    BY <1>3 DEF BridgeStep, Poll, Send, Retry, GiveUp, Restart
  <2>2. IngestInductive'
    BY <1>3, PollStep, SendStep, RetryStep, BridgeRests DEF BridgeStep
  <2> QED BY <1>2, <2>1, <2>2
<1>4. ASSUME NEW r \in Requests, Ingest(r)
      PROVE  IngestInductive' /\ \A s \in Students : Earlier(s)
  <2>1. CASE Validate(r) \/ ReadKeys(r) \/ ReadIdentities(r) \/ RowsDone(r) \/ CreateIdentity(r)
    <3>1. UNCHANGED arrival
      BY <2>1 DEF Validate, ReadKeys, ReadIdentities, RowsDone, CreateIdentity
    <3> QED BY <1>2, <2>1, <3>1, ReadingStep
  <2>2. CASE BulkInsert(r) \/ (\E e \in Events : InsertRow(r, e))
    <3>1. UNCHANGED arrival
      BY <2>2 DEF BulkInsert, InsertRow
    <3> QED BY <1>2, <2>2, <3>1, InsertStep
  <2>3. CASE LockArrival(r)
    <3>1. UNCHANGED arrival
      BY <2>3 DEF LockArrival
    <3> QED BY <1>2, <2>3, <3>1, LockArrivalStep
  <2>4. CASE WriteArrival(r)
    BY <2>4, WriteArrivalStep
  <2>5. CASE Reject(r)
    <3>1. UNCHANGED arrival
      BY <2>5 DEF Reject, Refused
    <3> QED BY <1>2, <2>5, <3>1, DropStep
  <2> QED BY <1>4, <2>1, <2>2, <2>3, <2>4, <2>5 DEF Ingest
<1>5. ASSUME NEW r \in Requests, Answer(r) \/ Refuse(r) \/ Die(r)
      PROVE  IngestInductive' /\ \A s \in Students : Earlier(s)
  <2>1. UNCHANGED arrival
    BY <1>5 DEF Answer, Refuse, Refused, Die
  <2> QED BY <1>2, <1>5, <2>1, AnswerStep, DropStep
<1>6. ASSUME NEW m \in Managers, Staff(m)
      PROVE  IngestInductive' /\ \A s \in Students : Earlier(s)
  <2>1. ASSUME NEW s \in Students, MapIdentity(m, s)
        PROVE  IngestInductive' /\ UNCHANGED arrival
    BY <2>1, MapStep DEF MapIdentity
  <2>2. CASE ListUnmatched(m) \/ (\E s \in Students : CheckManual(m, s) \/ ReadForCorrection(m, s))
    <3>1. UNCHANGED arrival
      BY <2>2 DEF ListUnmatched, CheckManual, ReadForCorrection
    <3> QED BY <1>2, <2>2, <3>1, StaffReads
  <2>3. CASE UnmapIdentity(m)
    <3>1. UNCHANGED arrival
      BY <2>3 DEF UnmapIdentity
    <3> QED BY <1>2, <2>3, <3>1, AdminStep
  <2>4. CASE SaveEvent(m) \/ LockForEvent(m)
    <3>1. UNCHANGED arrival
      BY <2>4 DEF SaveEvent, LockForEvent
    <3> QED BY <1>2, <2>4, <3>1, SaveStep, LockForEventStep
  <2>5. CASE WriteForEvent(m)
    BY <2>5, WriteForEventStep
  <2>6. CASE \E t \in ManualTimes : ManualEntry(m, t)
    BY <2>6, ManualStep
  <2> QED BY <1>2, <1>6, <2>1, <2>2, <2>3, <2>4, <2>5, <2>6 DEF Staff, Reprocess
<1>7. CASE ToggleDevice \/ \E s \in Students : Withdraw(s)
  <2>1. UNCHANGED arrival
    BY <1>7 DEF ToggleDevice, Withdraw
  <2> QED BY <1>2, <1>7, <2>1, AdminStep
<1> QED BY <1>1, <1>3, <1>4, <1>5, <1>6, <1>7 DEF Next

\* The events and the arrivals of every behaviour have their types.
THEOREM IngestTypes == Spec => []TypeOK
<1>1. IngestInductive => TypeOK
  BY DEF IngestInductive
<1> QED BY IngestInit, IngestStep, <1>1, PTL DEF Spec

\* From the queue of the bridge to the arrival nothing is lost or made up, however timeouts,
\* attempts that overlap, lost answers, deaths, restarts, mappings and entries interleave: what
\* flush marks as acknowledged is stored or was answered as invalid, and a biometric arrival has
\* the time and the lateness of one event, a processed one unless mappings crossed.
THEOREM NothingLostOrMadeUp == Spec => []IngestInvariant
<1>1. IngestInductive => IngestInvariant
  BY DEF IngestInductive, IngestInvariant
<1> QED BY IngestInit, IngestStep, <1>1, PTL DEF Spec

\* apply_arrival_event and its bulk form replace an arrival only by an earlier one, which counts
\* no more minutes, although the row may have been created or corrected since the event was read:
\* this is what SELECT ... FOR UPDATE and ignore_conflicts are for.
THEOREM ArrivalsOnlyImprove == Spec => OnlyEarlier
<1>1. IngestInductive /\ [Next]_vars =>
        [\A s \in Students :
           (Exists(s) /\ arrival'[s] # arrival[s] /\ arrival'[s].source = "BIOMETRIC")
           => /\ arrival'[s].at < arrival[s].at
              /\ arrival'[s].late.counted <= arrival[s].late.counted]_vars
  BY IngestStep DEF Earlier
<1> QED BY IngestInit, IngestStep, <1>1, PTL DEF Spec, OnlyEarlier

-----------------------------------------------------------------------------
(* The students.                                                            *)

\* The types of the rest.
RecordRest ==
  /\ open \subseteq Sections /\ merges \subseteq [target: Pupils, source: Pupils]
  /\ DOMAIN selection \subseteq Pupils /\ reactivated \in BOOLEAN /\ begun \in 0..RecordSteps

\* The parts make the whole.
LEMMA RecordParts ==
  ASSUME pupils' \in [Pupils -> Pupil], RecordRest', DesksGood', MergesFlat', SeatsHold', JobsGood'
  PROVE  RecordsInductive'
<1>1. \A j \in PurgeJobs : jobs'[j].left \subseteq Pupils
  BY DEF JobsGood, JobType
<1>2. RecordTypeOK'
  BY <1>1 DEF RecordTypeOK, RecordRest, DesksGood
<1> QED BY <1>2 DEF RecordsInductive

\* What does not change stays good.
LEMMA PartsStay ==
  /\ MergesFlat /\ UNCHANGED pupils => MergesFlat'
  /\ JobsGood /\ UNCHANGED jobs => JobsGood'
  /\ DesksGood /\ UNCHANGED desks => DesksGood'
  /\ SeatsHold /\ UNCHANGED <<pupils, desks, reactivated>> => SeatsHold'
<1>1. MergesFlat /\ UNCHANGED pupils => MergesFlat'
  BY DEF MergesFlat
<1>2. JobsGood /\ UNCHANGED jobs => JobsGood'
  BY DEF JobsGood
<1>3. DesksGood /\ UNCHANGED desks => DesksGood'
  BY DEF DesksGood
<1>4. SeatsHold /\ UNCHANGED <<pupils, desks, reactivated>> => SeatsHold'
  BY DEF SeatsHold, Active
<1> QED BY <1>1, <1>2, <1>3, <1>4

\* A request that ends, or becomes another errand.
LEMMA DeskMoves ==
  ASSUME DesksGood, NEW d \in Desks,
         NEW errand \in [op: {"idle", "create", "enrol", "move", "status", "erase"},
                         pupil: Pupils \cup {NoPupil}, row: Pupil, to: Sections \cup {NoSection}],
         desks' = [desks EXCEPT ![d] = errand],
         errand.op # "idle" => errand.pupil \in Pupils, errand.op = "status" => errand.row.there
  PROVE  DesksGood' /\ \A c \in Desks : desks'[c] = IF c = d THEN errand ELSE desks[c]
BY DEF DesksGood

\* A student without a row is not active and not merged, and a desk at rest has
\* no errand.
LEMMA EmptyRows ==
  /\ Gone \in Pupil /\ ~Gone.there /\ Gone.merged = NoPupil /\ Gone.status # "ACTIVE"
  /\ NoErrand \in [op: {"idle", "create", "enrol", "move", "status", "erase"},
                   pupil: Pupils \cup {NoPupil}, row: Pupil, to: Sections \cup {NoSection}]
  /\ NoErrand.op = "idle"
<1>1. Gone \in Pupil /\ ~Gone.there /\ Gone.merged = NoPupil /\ Gone.status # "ACTIVE"
  BY DEF Gone, Pupil, Left
<1> QED BY <1>1 DEF NoErrand

\* A request that answers leaves its desk at rest and touches no other.
LEMMA RequestEnds ==
  ASSUME DesksGood, NEW d \in Desks, Done(d)
  PROVE  DesksGood' /\ \A c \in Desks : desks'[c] = IF c = d THEN NoErrand ELSE desks[c]
BY EmptyRows, DeskMoves DEF Done

\* The active students are finitely many, and their number follows the set.
LEMMA SeatsFollow ==
  /\ IsFiniteSet(Active) /\ Cardinality(Active) \in Nat
  /\ Active' \subseteq Active => Cardinality(Active') <= Cardinality(Active)
  /\ \A p : Active' \subseteq Active \cup {p} => Cardinality(Active') <= Cardinality(Active) + 1
  /\ Cardinality(Active') \in Nat
<1>1. Active \subseteq Pupils /\ Active' \subseteq Pupils
  BY DEF Active
<1>2. /\ IsFiniteSet(Active) /\ IsFiniteSet(Active')
      /\ Cardinality(Active) \in Nat /\ Cardinality(Active') \in Nat
  BY <1>1, PupilsFinite, FS_Subset, FS_CardinalityType
<1>3. Active' \subseteq Active => Cardinality(Active') <= Cardinality(Active)
  BY <1>2, FS_Subset
<1>4. ASSUME NEW p, Active' \subseteq Active \cup {p}
      PROVE  Cardinality(Active') <= Cardinality(Active) + 1
  <2>1. /\ IsFiniteSet(Active \cup {p})
        /\ Cardinality(Active \cup {p}) = IF p \in Active THEN Cardinality(Active) ELSE Cardinality(Active) + 1
    BY <1>2, FS_AddElement
  <2>2. Cardinality(Active') <= Cardinality(Active \cup {p})
    BY <1>4, <2>1, FS_Subset
  <2>3. Cardinality(Active \cup {p}) \in Nat
    BY <2>1, FS_CardinalityType
  <2> QED BY <1>2, <2>1, <2>2, <2>3
<1> QED BY <1>2, <1>3, <1>4

\* Nobody more is active, or a reactivation is noted, and no new request is between its count
\* and its INSERT.
LEMMA SeatsStay ==
  ASSUME SeatsHold, reactivated' \/ Active' \subseteq Active, reactivated => reactivated',
         \A d \in Desks : desks'[d].op = "enrol" => desks[d].op = "enrol"
  PROVE  SeatsHold'
<1>1. \A c, d \in Desks : desks'[c].op = "enrol" /\ desks'[d].op = "enrol" => c = d
  BY DEF SeatsHold
<1>2. ASSUME ~reactivated'
      PROVE  /\ Cardinality(Active') <= SeatLimit
             /\ \A d \in Desks : desks'[d].op = "enrol" => Cardinality(Active') + 1 <= SeatLimit
  <2>1. Cardinality(Active') <= Cardinality(Active)
    BY <1>2, SeatsFollow
  <2>2. /\ Cardinality(Active) <= SeatLimit
        /\ \A d \in Desks : desks[d].op = "enrol" => Cardinality(Active) + 1 <= SeatLimit
    BY <1>2 DEF SeatsHold
  <2>3. Cardinality(Active) \in Nat /\ Cardinality(Active') \in Nat /\ SeatLimit \in Nat
    BY SeatsFollow, RecordBounds
  <2> QED BY <2>1, <2>2, <2>3
<1> QED BY <1>1, <1>2 DEF SeatsHold

\* Who is current after a write.
LEMMA ActiveAfter ==
  ASSUME NEW p \in Pupils, \A q \in Pupils \ {p} : pupils'[q] = pupils[q]
  PROVE  /\ Active' \subseteq Active \cup {p}
         /\ ~(pupils'[p].there /\ pupils'[p].status = "ACTIVE") \/ p \in Active => Active' \subseteq Active
BY DEF Active

\* A write of a student that merges can bear: the row is there and merged into nobody; or it
\* goes, and nobody is merged into it; or it keeps what merges go by; or it is merged into a
\* student who is there, and nobody into it.
Bearable(p, row) ==
  \/ row.there /\ row.merged = NoPupil
  \/ row = Gone /\ (Erasable(p) \/ ~pupils[p].there)
  \/ row.there = pupils[p].there /\ row.merged = pupils[p].merged /\ row.status = pupils[p].status
  \/ /\ row.status = "ARCHIVED" /\ row.merged \in Pupils \ {p} /\ Erasable(p)
     /\ pupils[row.merged].there /\ pupils[row.merged].merged = NoPupil

\* A row written for one student keeps the merges flat: nobody is merged into a
\* student who is merged.
LEMMA FlatAfter ==
  ASSUME MergesFlat, pupils \in [Pupils -> Pupil], NEW p \in Pupils, NEW row \in Pupil,
         pupils' = [pupils EXCEPT ![p] = row], Bearable(p, row)
  PROVE  pupils' \in [Pupils -> Pupil] /\ MergesFlat'
<1>1. /\ pupils' \in [Pupils -> Pupil] /\ \A q \in Pupils : pupils'[q] = IF q = p THEN row ELSE pupils[q]
      /\ \A q \in Pupils : pupils[q].merged # NoPupil => pupils[q].merged \in Pupils
  BY DEF Pupil
<1>2. CASE row.there /\ row.merged = NoPupil
  BY <1>1, <1>2 DEF MergesFlat
<1>3. CASE row = Gone /\ (Erasable(p) \/ ~pupils[p].there)
  <2>1. Gone.merged = NoPupil
    BY EmptyRows
  <2>2. \A q \in Pupils : pupils[q].merged # p
    BY <1>3, RecordApart DEF Erasable, MergesFlat
  <2> QED BY <1>1, <1>3, <2>1, <2>2 DEF MergesFlat
<1>4. CASE row.there = pupils[p].there /\ row.merged = pupils[p].merged /\ row.status = pupils[p].status
  BY <1>1, <1>4 DEF MergesFlat
<1>5. CASE /\ row.status = "ARCHIVED" /\ row.merged \in Pupils \ {p} /\ Erasable(p)
           /\ pupils[row.merged].there /\ pupils[row.merged].merged = NoPupil
  <2>1. \A q \in Pupils : pupils[q].merged # p
    BY <1>5 DEF Erasable
  <2> QED BY <1>1, <1>5, <2>1 DEF MergesFlat
<1> QED BY <1>2, <1>3, <1>4, <1>5 DEF Bearable

\* A request that reads begins, or counts the seats under the lock of the school.
LEMMA BeginStep ==
  ASSUME RecordsInductive, NEW d \in Desks, NEW p \in Pupils,
         \/ StartStatus(d, p) \/ StartErase(d, p)
         \/ \E c \in Sections : StartCreate(d, p, c) \/ StartMove(d, p, c)
  PROVE  RecordsInductive'
<1>1. pupils \in [Pupils -> Pupil] /\ RecordRest /\ DesksGood /\ MergesFlat /\ SeatsHold /\ JobsGood
  BY DEF RecordsInductive, RecordTypeOK, RecordRest
<1>2. UNCHANGED <<pupils, open, merges, selection, jobs, reactivated>>
  BY DEF StartStatus, StartErase, StartCreate, StartMove
<1>3. PICK op \in {"create", "move", "status", "erase"}, row \in Pupil, to \in Sections \cup {NoSection} :
        Begin(d, op, p, row, to) /\ (op = "status" => row.there)
  <2>1. pupils[p] \in Pupil /\ Gone \in Pupil
    BY <1>1, EmptyRows
  <2>2. CASE StartStatus(d, p)
    BY <2>1, <2>2 DEF StartStatus
  <2>3. CASE StartErase(d, p)
    BY <2>1, <2>3 DEF StartErase
  <2>4. ASSUME NEW c \in Sections, StartCreate(d, p, c) \/ StartMove(d, p, c)
        PROVE  Begin(d, "create", p, Gone, c) \/ Begin(d, "move", p, Gone, c)
    BY <2>4 DEF StartCreate, StartMove
  <2> QED BY <2>1, <2>2, <2>3, <2>4
<1> DEFINE errand == [op |-> op, pupil |-> p, row |-> row, to |-> to]
<1>4. /\ errand \in [op: {"idle", "create", "enrol", "move", "status", "erase"},
                     pupil: Pupils \cup {NoPupil}, row: Pupil, to: Sections \cup {NoSection}]
      /\ errand.op = op /\ errand.pupil = p /\ errand.row = row
  OBVIOUS
<1>5. desks' = [desks EXCEPT ![d] = errand] /\ begun < RecordSteps /\ begun' = begun + 1
  BY <1>3 DEF Begin
<1> HIDE DEF errand
<1>6. DesksGood' /\ \A c \in Desks : desks'[c] = IF c = d THEN errand ELSE desks[c]
  BY <1>1, <1>3, <1>4, <1>5, DeskMoves
<1>7. \A c \in Desks : desks'[c].op = "enrol" => desks[c].op = "enrol"
  BY <1>4, <1>6
<1>8. SeatsHold'
  BY <1>1, <1>2, <1>7, SeatsStay DEF Active
<1>9. RecordRest'
  BY <1>1, <1>2, <1>5, RecordBounds DEF RecordRest
<1>10. MergesFlat' /\ JobsGood' /\ pupils' \in [Pupils -> Pupil]
  BY <1>1, <1>2, PartsStay
<1> QED BY <1>6, <1>8, <1>9, <1>10, RecordParts

\* create_student counts under the lock of the school: nobody else is about to add a student.
LEMMA CountStep ==
  ASSUME RecordsInductive, NEW d \in Desks, CountSeats(d)
  PROVE  RecordsInductive'
<1>1. pupils \in [Pupils -> Pupil] /\ RecordRest /\ DesksGood /\ MergesFlat /\ SeatsHold /\ JobsGood
  BY DEF RecordsInductive, RecordTypeOK, RecordRest
<1>2. /\ UNCHANGED <<pupils, open, merges, selection, jobs, reactivated, begun>>
      /\ desks[d].op = "create" /\ \A c \in Desks : desks[c].op # "enrol"
  BY DEF CountSeats, SchoolFree
<1>3. RecordRest' /\ MergesFlat' /\ JobsGood' /\ pupils' \in [Pupils -> Pupil]
  <2>1. RecordRest'
    BY <1>1, <1>2 DEF RecordRest
  <2>2. MergesFlat' /\ JobsGood'
    BY <1>1, <1>2, PartsStay
  <2> QED BY <1>1, <1>2, <2>1, <2>2
<1>4. CASE Cardinality(Active) < SeatLimit /\ desks' = [desks EXCEPT ![d] = [desks[d] EXCEPT !.op = "enrol"]]
  <2> DEFINE errand == [desks[d] EXCEPT !.op = "enrol"]
  <2>1. /\ errand \in [op: {"idle", "create", "enrol", "move", "status", "erase"},
                       pupil: Pupils \cup {NoPupil}, row: Pupil, to: Sections \cup {NoSection}]
        /\ errand.op = "enrol" /\ errand.pupil \in Pupils
    BY <1>1, <1>2 DEF DesksGood
  <2>2. desks' = [desks EXCEPT ![d] = errand]
    BY <1>4
  <2> HIDE DEF errand
  <2>3. DesksGood' /\ \A c \in Desks : desks'[c] = IF c = d THEN errand ELSE desks[c]
    <3>1. errand.op # "status"
      BY <2>1
    <3> QED BY <1>1, <2>1, <2>2, <3>1, DeskMoves
  <2>4. Active' = Active /\ Cardinality(Active) \in Nat /\ SeatLimit \in Nat
    BY <1>2, SeatsFollow, RecordBounds DEF Active
  <2>5. SeatsHold'
    BY <1>2, <1>4, <2>3, <2>4 DEF SeatsHold
  <2> QED BY <1>3, <2>3, <2>5, RecordParts
<1>5. CASE Done(d)
  <2>1. DesksGood' /\ \A c \in Desks : desks'[c] = IF c = d THEN NoErrand ELSE desks[c]
    BY <1>1, <1>5, RequestEnds
  <2>2. \A c \in Desks : desks'[c].op = "enrol" => desks[c].op = "enrol"
    BY <2>1, EmptyRows
  <2>3. SeatsHold'
    BY <1>1, <1>2, <2>2, SeatsStay DEF Active
  <2> QED BY <1>3, <2>1, <2>3, RecordParts
<1> QED BY <1>4, <1>5 DEF CountSeats, Done

\* create_student inserts the student it has a seat for, unless he is there.
LEMMA EnrolStep ==
  ASSUME RecordsInductive, NEW d \in Desks, Enrol(d)
  PROVE  RecordsInductive'
<1>1. pupils \in [Pupils -> Pupil] /\ RecordRest /\ DesksGood /\ MergesFlat /\ SeatsHold /\ JobsGood
  BY DEF RecordsInductive, RecordTypeOK, RecordRest
<1>2. /\ desks[d].op = "enrol" /\ Done(d)
      /\ UNCHANGED <<open, selection, jobs, reactivated, begun>>
  BY DEF Enrol
<1>3. PICK p \in Pupils : p = desks[d].pupil
  BY <1>1, <1>2 DEF DesksGood
<1>4. PICK to \in Sections \cup {NoSection} : to = desks[d].to
  BY <1>1 DEF DesksGood
<1>5. DesksGood' /\ \A c \in Desks : desks'[c] = IF c = d THEN NoErrand ELSE desks[c]
  BY <1>1, <1>2, RequestEnds
<1>6. JobsGood'
  BY <1>1, <1>2, PartsStay
<1>7. \A c \in Desks : desks'[c].op # "enrol"
  BY <1>1, <1>2, <1>5, EmptyRows DEF SeatsHold
<1>8. CASE pupils[p].there
  <2>1. UNCHANGED <<pupils, merges>>
    BY <1>3, <1>8 DEF Enrol
  <2>2. RecordRest' /\ MergesFlat'
    BY <1>1, <1>2, <2>1, PartsStay DEF RecordRest
  <2>3. SeatsHold'
    BY <1>1, <1>2, <1>7, <2>1, SeatsStay DEF Active
  <2> QED BY <1>1, <1>5, <1>6, <2>1, <2>2, <2>3, RecordParts
<1>9. CASE ~pupils[p].there
  <2>1. pupils' = [pupils EXCEPT ![p] = Fresh(to)] /\ merges' \subseteq merges
    BY <1>3, <1>4, <1>9 DEF Enrol, Write, Unchanged
  <2>2. Fresh(to) \in Pupil /\ Fresh(to).there /\ Fresh(to).merged = NoPupil
    BY DEF Fresh, Pupil
  <2>3. pupils' \in [Pupils -> Pupil] /\ MergesFlat'
    BY <1>1, <2>1, <2>2, FlatAfter DEF Bearable
  <2>4. RecordRest'
    BY <1>1, <1>2, <2>1 DEF RecordRest
  <2>5. SeatsHold'
    <3>1. \A q \in Pupils \ {p} : pupils'[q] = pupils[q]
      BY <1>1, <2>1
    <3>2. Cardinality(Active') <= Cardinality(Active) + 1
      BY <3>1, ActiveAfter, SeatsFollow
    <3>3. ~reactivated => Cardinality(Active) + 1 <= SeatLimit
      BY <1>1, <1>2 DEF SeatsHold
    <3>4. Cardinality(Active) \in Nat /\ Cardinality(Active') \in Nat /\ SeatLimit \in Nat
      BY SeatsFollow, RecordBounds
    <3>5. ~reactivated' => Cardinality(Active') <= SeatLimit
      BY <1>2, <3>2, <3>3, <3>4
    <3> QED BY <1>7, <3>5 DEF SeatsHold
  <2> QED BY <1>5, <1>6, <2>3, <2>4, <2>5, RecordParts
<1> QED BY <1>8, <1>9

\* A write that makes nobody current, or notes that it does.
LEMMA PupilWritten ==
  ASSUME RecordsInductive, NEW p \in Pupils, NEW row \in Pupil, Bearable(p, row),
         pupils' = [pupils EXCEPT ![p] = row], RecordRest', DesksGood', JobsGood',
         \A d \in Desks : desks'[d].op = "enrol" => desks[d].op = "enrol",
         reactivated => reactivated',
         reactivated' \/ p \in Active \/ ~row.there \/ row.status # "ACTIVE"
  PROVE  RecordsInductive'
<1>1. pupils \in [Pupils -> Pupil] /\ MergesFlat /\ SeatsHold
  BY DEF RecordsInductive, RecordTypeOK
<1>2. pupils' \in [Pupils -> Pupil] /\ MergesFlat'
  BY <1>1, FlatAfter
<1>3. pupils'[p] = row /\ \A q \in Pupils \ {p} : pupils'[q] = pupils[q]
  BY <1>1
<1>4. reactivated' \/ Active' \subseteq Active
  BY <1>3, ActiveAfter
<1>5. SeatsHold'
  BY <1>1, <1>4, SeatsStay
<1> QED BY <1>2, <1>5, RecordParts

\* A step that writes no student.
LEMMA PupilsStay ==
  ASSUME RecordsInductive, UNCHANGED pupils, RecordRest', DesksGood', JobsGood', reactivated => reactivated',
         \A d \in Desks : desks'[d].op = "enrol" => desks[d].op = "enrol"
  PROVE  RecordsInductive'
<1>1. pupils \in [Pupils -> Pupil] /\ MergesFlat /\ SeatsHold
  BY DEF RecordsInductive, RecordTypeOK
<1>2. SeatsHold'
  BY <1>1, SeatsStay DEF Active
<1>3. MergesFlat'
  BY <1>1, PartsStay
<1> QED BY <1>1, <1>2, <1>3, RecordParts

\* update_student, set_student_status and the purge of one student end their request.
LEMMA DeskWrites ==
  ASSUME RecordsInductive, NEW d \in Desks,
         Move(d) \/ Erase(d) \/ \E status \in {"ACTIVE", "LEFT"} : SetStatus(d, status)
  PROVE  RecordsInductive'
<1>1. pupils \in [Pupils -> Pupil] /\ RecordRest /\ DesksGood /\ MergesFlat /\ SeatsHold /\ JobsGood
  BY DEF RecordsInductive, RecordTypeOK, RecordRest
<1>2. /\ desks[d].op \in {"move", "erase", "status"} /\ Done(d)
      /\ UNCHANGED <<open, selection, jobs, begun>>
  BY DEF Move, Erase, SetStatus
<1>3. DesksGood' /\ \A c \in Desks : desks'[c] = IF c = d THEN NoErrand ELSE desks[c]
  BY <1>1, <1>2, RequestEnds
<1>4. \A c \in Desks : desks'[c].op = "enrol" => desks[c].op = "enrol"
  BY <1>3, EmptyRows
<1>5. JobsGood'
  BY <1>1, <1>2, PartsStay
<1>6. PICK p \in Pupils : p = desks[d].pupil
  BY <1>1, <1>2 DEF DesksGood
<1>7. PICK to \in Sections \cup {NoSection}, row \in Pupil :
        to = desks[d].to /\ row = desks[d].row /\ (desks[d].op = "status" => row.there)
  BY <1>1 DEF DesksGood
<1>8. pupils[p] \in Pupil
  BY <1>1
<1>9. merges' \subseteq merges /\ reactivated' \in BOOLEAN /\ (reactivated => reactivated')
  BY <1>1 DEF Move, Erase, SetStatus, Write, Unchanged, RecordRest
<1>10. RecordRest'
  BY <1>1, <1>2, <1>9 DEF RecordRest
<1>11. CASE UNCHANGED pupils
  BY <1>3, <1>4, <1>5, <1>9, <1>10, <1>11, PupilsStay
<1>12. CASE pupils' = [pupils EXCEPT ![p] = [pupils[p] EXCEPT !.seat = to]]
  <2> DEFINE moved == [pupils[p] EXCEPT !.seat = to]
  <2>1. /\ moved \in Pupil /\ moved.there = pupils[p].there /\ moved.merged = pupils[p].merged
        /\ moved.status = pupils[p].status
    BY <1>8 DEF Pupil
  <2>2. pupils' = [pupils EXCEPT ![p] = moved]
    BY <1>12
  <2> HIDE DEF moved
  <2>3. p \in Active \/ ~moved.there \/ moved.status # "ACTIVE"
    BY <2>1 DEF Active
  <2> QED BY <1>3, <1>4, <1>5, <1>9, <1>10, <2>1, <2>2, <2>3, PupilWritten DEF Bearable
<1>13. CASE Erasable(p) /\ pupils' = [pupils EXCEPT ![p] = Gone]
  BY <1>3, <1>4, <1>5, <1>9, <1>10, <1>13, EmptyRows, PupilWritten DEF Bearable
<1>14. ASSUME NEW status \in {"ACTIVE", "LEFT"}, SetStatus(d, status), Classifiable(row, status)
       PROVE  RecordsInductive'
  <2>1. PICK seat \in Sections \cup {NoSection} :
          seat = IF status = "ACTIVE" THEN pupils[p].seat ELSE NoSection
    BY <1>8 DEF Pupil
  <2> DEFINE classified == [row EXCEPT !.status = status, !.seat = seat]
  <2>2. pupils' = [pupils EXCEPT ![p] = classified] /\ desks[d].op = "status"
        /\ (status = "ACTIVE" => reactivated')
    BY <1>6, <1>7, <1>14, <2>1 DEF SetStatus, Write
  <2>3. row.there /\ row.merged = NoPupil
    BY <1>7, <1>14, <2>2 DEF Classifiable
  <2>4. classified \in Pupil /\ classified.there /\ classified.merged = NoPupil /\ classified.status = status
    BY <2>3 DEF Pupil, Left
  <2> HIDE DEF classified
  <2> QED BY <1>3, <1>4, <1>5, <1>9, <1>10, <2>2, <2>4, PupilWritten DEF Bearable
<1>15. CASE Move(d)
  BY <1>6, <1>7, <1>11, <1>12, <1>15 DEF Move, Write
<1>16. CASE Erase(d)
  BY <1>6, <1>11, <1>13, <1>16 DEF Erase, Write
<1>17. ASSUME NEW status \in {"ACTIVE", "LEFT"}, SetStatus(d, status), ~Classifiable(row, status)
       PROVE  UNCHANGED pupils
  BY <1>7, <1>17 DEF SetStatus
<1> QED BY <1>11, <1>14, <1>15, <1>16, <1>17

\* A merge makes its source the archived duplicate of a student who is nobody's.
LEMMA MergeStep ==
  ASSUME RecordsInductive,
         (\E t, s \in Pupils : Reconcile(t, s)) \/ \E k \in merges : ApplyMerge(k)
  PROVE  RecordsInductive'
<1>1. pupils \in [Pupils -> Pupil] /\ RecordRest /\ DesksGood /\ MergesFlat /\ SeatsHold /\ JobsGood
  BY DEF RecordsInductive, RecordTypeOK, RecordRest
<1>2. PICK t \in Pupils, s \in Pupils :
        /\ Mergeable(t, s) /\ Absorb(t, s) /\ begun' \in {begun, begun + 1}
        /\ begun' = begun + 1 => begun < RecordSteps
  BY <1>1, RecordBounds DEF Reconcile, ApplyMerge, RecordRest
<1>3. UNCHANGED <<open, desks, selection, jobs, reactivated>>
  BY DEF Reconcile, ApplyMerge
<1> DEFINE row == [there |-> TRUE, status |-> "ARCHIVED", merged |-> t, seat |-> NoSection]
<1>4. pupils' = [pupils EXCEPT ![s] = row] /\ merges' \subseteq merges
  BY <1>2 DEF Absorb, Unchanged
<1>5. row \in Pupil /\ row.status = "ARCHIVED" /\ row.merged = t
  BY DEF Pupil, Left
<1> HIDE DEF row
<1>6. Bearable(s, row)
  BY <1>2, <1>5 DEF Mergeable, Bearable, Erasable, Active
<1>7. RecordRest'
  BY <1>1, <1>2, <1>3, <1>4, RecordBounds DEF RecordRest
<1>8. DesksGood' /\ JobsGood'
  BY <1>1, <1>3, PartsStay
<1> QED BY <1>3, <1>4, <1>5, <1>6, <1>7, <1>8, PupilWritten

\* Sections, the previews of merges and the preview of a purge.
LEMMA PreviewStep ==
  ASSUME RecordsInductive,
         \/ \E c \in Sections : CloseSection(c) \/ OpenSection(c)
         \/ \E t, s \in Pupils : PreviewMerge(t, s)
         \/ \E S \in SUBSET Pupils : PreviewPurge(S)
         \/ UNCHANGED recordVars
  PROVE  RecordsInductive'
<1>1. pupils \in [Pupils -> Pupil] /\ RecordRest /\ DesksGood /\ JobsGood
  BY DEF RecordsInductive, RecordTypeOK, RecordRest
<1>2. UNCHANGED <<pupils, desks, jobs, reactivated>>
  BY DEF CloseSection, OpenSection, PreviewMerge, PreviewPurge, recordVars
<1>3. (begun < RecordSteps /\ begun' = begun + 1) \/ UNCHANGED begun
  BY DEF CloseSection, OpenSection, PreviewMerge, PreviewPurge, recordVars
<1>4. open' \subseteq Sections
  BY <1>1 DEF CloseSection, OpenSection, PreviewMerge, PreviewPurge, recordVars, RecordRest
<1>5. merges' \subseteq [target: Pupils, source: Pupils]
  BY <1>1 DEF CloseSection, OpenSection, PreviewMerge, PreviewPurge, recordVars, RecordRest
<1>6. DOMAIN selection' \subseteq Pupils
  BY <1>1 DEF CloseSection, OpenSection, PreviewMerge, PreviewPurge, recordVars, RecordRest
<1>7. begun' \in 0..RecordSteps
  BY <1>1, <1>3, RecordBounds DEF RecordRest
<1>8. RecordRest'
  BY <1>1, <1>2, <1>4, <1>5, <1>6, <1>7 DEF RecordRest
<1>9. DesksGood' /\ JobsGood'
  BY <1>1, <1>2, PartsStay
<1> QED BY <1>2, <1>8, <1>9, PupilsStay

-----------------------------------------------------------------------------
(* The purges.                                                              *)

\* A step of one job.
LEMMA JobMoves ==
  ASSUME JobsGood, NEW j \in PurgeJobs, NEW job \in JobType, jobs' = [jobs EXCEPT ![j] = job],
         job.status # "none" => job.deleted + job.failed + Cardinality(job.left) = job.total,
         job.status \notin Running \cup {"none"} => job.left = {},
         job.status = "COMPLETED" => job.failed = 0, job.status = "FAILED" => job.deleted = 0,
         job.status \in Running => jobs[j].status \in Running \/ ~Busy
  PROVE  JobsGood'
<1>1. jobs' \in [PurgeJobs -> JobType] /\ \A i \in PurgeJobs : jobs'[i] = IF i = j THEN job ELSE jobs[i]
  BY DEF JobsGood
<1>2. \A i, k \in PurgeJobs : jobs'[i].status \in Running /\ jobs'[k].status \in Running => i = k
  BY <1>1 DEF JobsGood, Busy
<1>3. ASSUME NEW i \in PurgeJobs
      PROVE  /\ jobs'[i].status # "none" =>
                  jobs'[i].deleted + jobs'[i].failed + Cardinality(jobs'[i].left) = jobs'[i].total
             /\ jobs'[i].status \notin Running \cup {"none"} => jobs'[i].left = {}
             /\ jobs'[i].status = "COMPLETED" => jobs'[i].failed = 0
             /\ jobs'[i].status = "FAILED" => jobs'[i].deleted = 0
  <2>1. CASE i = j
    BY <1>1, <2>1
  <2>2. CASE i # j
    BY <1>1, <2>2 DEF JobsGood
  <2> QED BY <2>1, <2>2
<1> QED BY <1>1, <1>2, <1>3 DEF JobsGood

\* create_purge_job, the claim of the task, its end and its loss.
LEMMA JobStep ==
  ASSUME RecordsInductive, NEW j \in PurgeJobs,
         \/ CreateJob(j) \/ ClaimJob(j) \/ WorkerLost(j)
         \/ \E filesLeft \in BOOLEAN : FinishJob(j, filesLeft)
  PROVE  RecordsInductive'
<1> DEFINE old == jobs[j]
<1>1. pupils \in [Pupils -> Pupil] /\ RecordRest /\ DesksGood /\ JobsGood
  BY DEF RecordsInductive, RecordTypeOK, RecordRest
<1>2. UNCHANGED <<pupils, open, desks, merges, reactivated, begun>>
  BY DEF CreateJob, ClaimJob, WorkerLost, FinishJob
<1>3. DOMAIN selection' \subseteq Pupils
  <2>1. DOMAIN << >> = {}
    OBVIOUS
  <2> QED BY <1>1, <2>1 DEF CreateJob, ClaimJob, WorkerLost, FinishJob, RecordRest
<1>4. RecordRest' /\ DesksGood'
  BY <1>1, <1>2, <1>3, PartsStay DEF RecordRest
<1>5. old \in JobType
  BY <1>1 DEF JobsGood
<1>6. JobsGood'
  <2>1. CASE CreateJob(j)
    <3>1. CASE UNCHANGED jobs
      BY <1>1, <3>1, PartsStay
    <3>2. CASE jobs' = [jobs EXCEPT ![j] =
                 [NoJob EXCEPT !.status = "PENDING", !.left = DOMAIN selection, !.total = Cardinality(DOMAIN selection)]]
      <4> DEFINE chosen == DOMAIN selection
                 total == Cardinality(chosen)
                 job == [NoJob EXCEPT !.status = "PENDING", !.left = chosen, !.total = total]
      <4>1. chosen \in SUBSET Pupils /\ total \in Nat
        BY <1>1, PupilsFinite, FS_Subset, FS_CardinalityType DEF RecordRest
      <4>2. total = Cardinality(chosen)
        OBVIOUS
      <4>3. jobs' = [jobs EXCEPT ![j] = job]
        BY <3>2
      <4> HIDE DEF total, chosen
      <4>4. /\ job \in JobType /\ job.status = "PENDING" /\ job.left = chosen /\ job.total = total
            /\ job.deleted = 0 /\ job.failed = 0
        BY <4>1 DEF NoJob, JobType, Running
      <4> HIDE DEF job
      <4>5. ~Busy
        BY <2>1 DEF CreateJob
      <4>6. job.deleted + job.failed + Cardinality(job.left) = job.total
        BY <4>1, <4>2, <4>4
      <4> QED BY <1>1, <4>3, <4>4, <4>5, <4>6, JobMoves DEF Running
    <3> QED BY <2>1, <3>1, <3>2 DEF CreateJob
  <2>2. CASE ClaimJob(j)
    <3> DEFINE job == [old EXCEPT !.status = "RUNNING", !.alive = TRUE]
    <3>1. /\ job \in JobType /\ job.status = "RUNNING" /\ job.left = old.left /\ job.total = old.total
          /\ job.deleted = old.deleted /\ job.failed = old.failed
      BY <1>5 DEF JobType, Running
    <3>2. jobs' = [jobs EXCEPT ![j] = job] /\ old.status = "PENDING"
      BY <1>1, <2>2 DEF ClaimJob, Claimable, JobsGood
    <3> HIDE DEF job
    <3> QED BY <1>1, <3>1, <3>2, JobMoves DEF JobsGood, Running
  <2>3. CASE WorkerLost(j)
    <3> DEFINE job == [old EXCEPT !.alive = FALSE]
    <3>1. /\ job \in JobType /\ job.status = old.status /\ job.left = old.left /\ job.total = old.total
          /\ job.deleted = old.deleted /\ job.failed = old.failed
      BY <1>5 DEF JobType, Running
    <3>2. jobs' = [jobs EXCEPT ![j] = job] /\ old.status = "RUNNING"
      BY <1>1, <2>3 DEF WorkerLost, JobsGood
    <3> HIDE DEF job
    <3> QED BY <1>1, <3>1, <3>2, JobMoves DEF JobsGood, Running
  <2>4. ASSUME NEW filesLeft \in BOOLEAN, FinishJob(j, filesLeft)
        PROVE  JobsGood'
    <3> DEFINE ending == Outcome(old, filesLeft)
               job == [old EXCEPT !.status = ending]
    <3>1. /\ ending \in {"COMPLETED", "PARTIALLY_FAILED", "FAILED"}
          /\ ending = "COMPLETED" => old.failed = 0
          /\ ending = "FAILED" => old.deleted = 0
      BY <1>5 DEF Outcome, JobType
    <3>2. jobs' = [jobs EXCEPT ![j] = job] /\ old.status = "RUNNING" /\ old.left = {}
      BY <1>1, <2>4 DEF FinishJob, JobsGood
    <3> HIDE DEF ending
    <3>3. /\ job \in JobType /\ job.status = ending /\ job.left = old.left /\ job.total = old.total
          /\ job.deleted = old.deleted /\ job.failed = old.failed
      BY <1>5, <3>1 DEF JobType
    <3> HIDE DEF job
    <3> QED BY <1>1, <3>1, <3>2, <3>3, JobMoves DEF JobsGood, Running
  <2> QED BY <2>1, <2>2, <2>3, <2>4
<1> QED BY <1>2, <1>4, <1>6, PupilsStay

\* A student who leaves the rest of a purge enters one of its two counts: their
\* sum with the rest stays the total.
LEMMA CountsMove ==
  ASSUME NEW a \in Nat, NEW b \in Nat, NEW n \in Nat, NEW total \in Nat,
         NEW x \in Nat, NEW y \in Nat, NEW rest,
         a + b + n = total, x + y = a + b + 1, rest = n - 1
  PROVE  x + y + rest = total
OBVIOUS

\* _run_scoped_purge: a student of the job is deleted or counts as failed.
LEMMA PurgeStep ==
  ASSUME RecordsInductive, NEW j \in PurgeJobs, NEW p \in Pupils, NEW counted \in BOOLEAN,
         PurgeOne(j, p, counted)
  PROVE  RecordsInductive'
<1> DEFINE old == jobs[j]
           left == old.left \ {p}
           deleted == IF counted THEN old.deleted + 1 ELSE old.deleted
           failed == IF counted THEN old.failed ELSE old.failed + 1
           job == [old EXCEPT !.left = left, !.deleted = deleted, !.failed = failed]
<1>1. pupils \in [Pupils -> Pupil] /\ RecordRest /\ DesksGood /\ JobsGood
  BY DEF RecordsInductive, RecordTypeOK, RecordRest
<1>2. /\ UNCHANGED <<open, desks, selection, reactivated, begun>>
      /\ old.status = "RUNNING" /\ p \in old.left /\ (pupils[p].there => counted = Erasable(p))
  BY DEF PurgeOne
<1>3. old \in JobType /\ old.deleted \in Nat /\ old.failed \in Nat /\ old.total \in Nat /\ old.left \subseteq Pupils
  BY <1>1 DEF JobsGood, JobType
<1>4. IsFiniteSet(old.left) /\ Cardinality(old.left) \in Nat /\ Cardinality(left) = Cardinality(old.left) - 1
  BY <1>2, <1>3, PupilsFinite, FS_Subset, FS_RemoveElement, FS_CardinalityType
<1>5. jobs' = [jobs EXCEPT ![j] = job]
  BY <1>1 DEF PurgeOne, JobsGood
<1>6. deleted \in Nat /\ failed \in Nat /\ left \in SUBSET Pupils /\ deleted + failed = old.deleted + old.failed + 1
  BY <1>3
<1> HIDE DEF left, deleted, failed
<1>7. /\ job \in JobType /\ job.left = left /\ job.deleted = deleted /\ job.failed = failed
      /\ job.total = old.total /\ job.status = "RUNNING"
  BY <1>2, <1>3, <1>6 DEF JobType
<1> HIDE DEF job
<1>8. JobsGood'
  <2>1. old.deleted + old.failed + Cardinality(old.left) = old.total
    BY <1>1, <1>2 DEF JobsGood
  <2>2. PICK a \in Nat, b \in Nat, n \in Nat, total \in Nat :
          a = old.deleted /\ b = old.failed /\ n = Cardinality(old.left) /\ total = old.total
    BY <1>3, <1>4
  <2>3. PICK x \in Nat, y \in Nat : x = deleted /\ y = failed
    BY <1>6
  <2>4. PICK rest : rest = Cardinality(left)
    OBVIOUS
  <2>5. a + b + n = total
    BY <2>1, <2>2
  <2>6. x + y = a + b + 1
    BY <1>6, <2>2, <2>3
  <2>7. rest = n - 1
    BY <1>4, <2>2, <2>4
  <2>8. x + y + rest = total
    BY <2>5, <2>6, <2>7, CountsMove
  <2>9. deleted + failed + Cardinality(left) = old.total
    BY <2>2, <2>3, <2>4, <2>8
  <2> QED BY <1>1, <1>2, <1>5, <1>7, <2>9, JobMoves DEF Running
<1>9. merges' \subseteq merges /\ pupils' \in {pupils, [pupils EXCEPT ![p] = Gone]}
      /\ (~counted => UNCHANGED pupils)
  BY DEF PurgeOne, Write, Unchanged
<1>10. RecordRest' /\ DesksGood'
  BY <1>1, <1>2, <1>9, PartsStay DEF RecordRest
<1>11. CASE UNCHANGED pupils
  BY <1>2, <1>8, <1>10, <1>11, PupilsStay
<1>12. CASE counted /\ pupils' = [pupils EXCEPT ![p] = Gone]
  <2>1. Bearable(p, Gone)
    BY <1>2, <1>12 DEF Bearable
  <2> QED BY <1>2, <1>8, <1>10, <1>12, <2>1, EmptyRows, PupilWritten
<1> QED BY <1>9, <1>11, <1>12

\* Active students within the limit, nobody merged, no job.
LEMMA RecordInitHolds ==
  ASSUME RecordInit
  PROVE  RecordsInductive
<1>1. PICK P \in SUBSET Pupils, c \in Sections :
        Cardinality(P) <= SeatLimit /\ pupils = [p \in Pupils |-> IF p \in P THEN Fresh(c) ELSE Gone]
  BY DEF RecordInit
<1>2. Fresh(c) \in Pupil /\ Fresh(c).there /\ Fresh(c).status = "ACTIVE" /\ Fresh(c).merged = NoPupil
  BY DEF Fresh, Pupil
<1>3. pupils \in [Pupils -> Pupil] /\ \A p \in Pupils : pupils[p].merged = NoPupil
  BY <1>1, <1>2, EmptyRows
<1>4. Active = P
  BY <1>1, <1>2, EmptyRows DEF Active
<1>5. MergesFlat
  BY <1>3 DEF MergesFlat
<1>6. DesksGood
  BY EmptyRows DEF RecordInit, DesksGood
<1>7. SeatsHold
  BY <1>1, <1>4, EmptyRows DEF RecordInit, SeatsHold
<1>8. JobsGood
  <2>1. NoJob \in JobType /\ NoJob.status = "none"
    BY DEF NoJob, JobType, Running
  <2> QED BY <2>1 DEF RecordInit, JobsGood, Running
<1>9. RecordTypeOK
  <2>1. DOMAIN << >> = {}
    OBVIOUS
  <2>2. \A j \in PurgeJobs : jobs[j].left \subseteq Pupils
    BY <1>8 DEF JobsGood, JobType
  <2>3. begun \in 0..RecordSteps
    BY RecordBounds DEF RecordInit
  <2> QED BY <1>3, <1>6, <2>1, <2>2, <2>3 DEF RecordInit, RecordTypeOK, DesksGood
<1> QED BY <1>5, <1>6, <1>7, <1>8, <1>9 DEF RecordsInductive

\* Every operation on students, enrolments, merges and purges keeps the inductive
\* invariant.
LEMMA RecordStep ==
  ASSUME RecordsInductive, [RecordNext]_recordVars
  PROVE  RecordsInductive'
<1>1. ASSUME NEW d \in Desks,
             \/ CountSeats(d) \/ Enrol(d) \/ Move(d) \/ Erase(d)
             \/ \E status \in {"ACTIVE", "LEFT"} : SetStatus(d, status)
             \/ \E p \in Pupils :
                  \/ StartStatus(d, p) \/ StartErase(d, p)
                  \/ \E c \in Sections : StartCreate(d, p, c) \/ StartMove(d, p, c)
      PROVE  RecordsInductive'
  BY <1>1, CountStep, EnrolStep, DeskWrites, BeginStep
<1>2. ASSUME NEW j \in PurgeJobs,
             \/ CreateJob(j) \/ ClaimJob(j) \/ WorkerLost(j)
             \/ \E answer \in BOOLEAN :
                  FinishJob(j, answer) \/ \E p \in Pupils : PurgeOne(j, p, answer)
      PROVE  RecordsInductive'
  BY <1>2, JobStep, PurgeStep
<1> QED BY <1>1, <1>2, MergeStep, PreviewStep DEF RecordNext

\* What it says of the students.
LEMMA StudentsHold ==
  ASSUME RecordsInductive
  PROVE  StudentsInvariant
<1>1. SeatsWithinLimit
  BY DEF RecordsInductive, SeatsHold, SeatsWithinLimit
<1>2. PurgesAddUp
  <2>1. ASSUME NEW j \in PurgeJobs, jobs[j].status \notin Running \cup {"none"}
        PROVE  /\ jobs[j].deleted + jobs[j].failed = jobs[j].total
               /\ jobs[j].status = "COMPLETED" => jobs[j].deleted = jobs[j].total
               /\ jobs[j].status = "FAILED" => jobs[j].deleted = 0
    <3>1. /\ jobs[j].deleted + jobs[j].failed + Cardinality(jobs[j].left) = jobs[j].total
          /\ jobs[j].left = {}
          /\ jobs[j].status = "COMPLETED" => jobs[j].failed = 0
          /\ jobs[j].status = "FAILED" => jobs[j].deleted = 0
      BY <2>1 DEF RecordsInductive, JobsGood
    <3>2. jobs[j].deleted \in Nat /\ jobs[j].failed \in Nat /\ jobs[j].total \in Nat
      BY DEF RecordsInductive, JobsGood, JobType
    <3>3. Cardinality(jobs[j].left) = 0
      BY <3>1, FS_EmptySet
    <3> QED BY <3>1, <3>2, <3>3
  <2>2. \A i, j \in PurgeJobs : jobs[i].status \in Running /\ jobs[j].status \in Running => i = j
    BY DEF RecordsInductive, JobsGood
  <2> QED BY <2>1, <2>2 DEF PurgesAddUp
<1> QED BY <1>1, <1>2 DEF RecordsInductive, StudentsInvariant

\* The students of a school: merges do not chain, requests that add students keep to the limit
\* of the contract together, and a purge accounts for each of its students, however requests
\* that read without a lock, merges, purges and the deaths of their workers interleave.
THEOREM StudentsAddUp == RecordSpec => []StudentsInvariant
BY RecordInitHolds, RecordStep, StudentsHold, PTL DEF RecordSpec

-----------------------------------------------------------------------------
(* The imports.                                                             *)

\* What an import has keeps while a step is about others.
LEMMA ImportStays ==
  ASSUME NEW i \in Imports, ImportGood(i), imports'[i] = imports[i], applied'[i] = applied[i],
         parsing'[i] = parsing[i], applying'[i] = applying[i],
         i \in failing' => i \in failing, abandoned \subseteq abandoned', inactive \subseteq inactive',
         i \in broken => i \in broken',
         \A b \in Browsers : clicks[b].import = i /\ clicks[b].op # "rest" => clicks'[b] = clicks[b]
  PROVE  ImportGood(i)'
BY DEF ImportGood

\* The types of all but the jobs.
ImportRest ==
  /\ clicks \in [Browsers -> [op: {"rest", "process", "send", "cancel", "wipe", "shred"},
                              import: Imports \cup {NoImport}, file: BOOLEAN]]
  /\ parsing \in [Imports -> Nat] /\ applying \in [Imports -> Nat]
  /\ failing \subseteq Imports /\ abandoned \subseteq Imports
  /\ broken \subseteq Imports /\ inactive \subseteq Imports
  /\ yearOpen \in BOOLEAN /\ applied \in [Imports -> Nat]
  /\ clicked \in 0..ImportSteps /\ mishaps \in 0..ImportFaults

\* A step about one import, by a request that is about it or by a task.
LEMMA ImportMoves ==
  ASSUME ImportInductive, NEW i \in Imports, NEW job \in Import,
         imports' = [imports EXCEPT ![i] = job],
         imports[i].status # "none" => job.status # "none" /\ (job.stored => imports[i].stored),
         job.status \in Working => Alone(i) \/ imports[i].status \in Working,
         ImportRest', ImportGood(i)',
         \A k \in Imports \ {i} : /\ applied'[k] = applied[k] /\ parsing'[k] = parsing[k]
                                  /\ applying'[k] = applying[k] /\ (k \in failing' => k \in failing),
         abandoned \subseteq abandoned', inactive \subseteq inactive', broken \ {i} \subseteq broken',
         \A b \in Browsers : clicks'[b] = clicks[b]
                               \/ ((clicks[b].import = i \/ clicks[b].op = "rest") /\ ClickGood(b)')
  PROVE  ImportInductive'
<1>1. ImportTypeOK
  BY DEF ImportInductive
<1>2. imports' \in [Imports -> Import] /\ \A k \in Imports : imports'[k] = IF k = i THEN job ELSE imports[k]
  BY <1>1 DEF ImportTypeOK
<1>3. ImportTypeOK'
  BY <1>2 DEF ImportTypeOK, ImportRest
<1>4. OneWorks'
  BY <1>2 DEF ImportInductive, OneWorks, Alone
<1>5. ASSUME NEW k \in Imports
      PROVE  ImportGood(k)'
  <2>1. CASE k = i
    BY <2>1
  <2>2. CASE k # i
    <3>1. \A b \in Browsers : clicks[b].import = k /\ clicks[b].op # "rest" => clicks'[b] = clicks[b]
      BY <2>2
    <3> QED BY <1>2, <1>5, <2>2, <3>1, ImportStays DEF ImportInductive
  <2> QED BY <2>1, <2>2
<1>6. ASSUME NEW b \in Browsers
      PROVE  ClickGood(b)'
  <2>1. CASE clicks'[b] = clicks[b]
    <3>1. ClickGood(b)
      BY DEF ImportInductive
    <3>2. CASE clicks[b].op = "rest"
      BY <2>1, <3>2 DEF ClickGood
    <3>3. CASE clicks[b].op # "rest"
      <4>1. clicks[b].import \in Imports
        BY <3>1, <3>3 DEF ClickGood
      <4> QED BY <1>2, <2>1, <3>1, <4>1 DEF ClickGood
    <3> QED BY <3>2, <3>3
  <2> QED BY <2>1
<1> QED BY <1>3, <1>4, <1>5, <1>6 DEF ImportInductive

\* A step that changes no job.
LEMMA JobsStay ==
  ASSUME ImportInductive, NEW i \in Imports, UNCHANGED imports,
         ImportRest', ImportGood(i)',
         \A k \in Imports \ {i} : /\ applied'[k] = applied[k] /\ parsing'[k] = parsing[k]
                                  /\ applying'[k] = applying[k] /\ (k \in failing' => k \in failing),
         abandoned \subseteq abandoned', inactive \subseteq inactive', broken \ {i} \subseteq broken',
         \A b \in Browsers : clicks'[b] = clicks[b]
                               \/ ((clicks[b].import = i \/ clicks[b].op = "rest") /\ ClickGood(b)')
  PROVE  ImportInductive'
<1> DEFINE job == imports[i]
<1>1. job \in Import /\ imports' = [imports EXCEPT ![i] = job]
  BY DEF ImportInductive, ImportTypeOK
<1>2. imports[i].status # "none" => job.status # "none" /\ (job.stored => imports[i].stored)
  OBVIOUS
<1>3. job.status \in Working => Alone(i) \/ imports[i].status \in Working
  OBVIOUS
<1> HIDE DEF job
<1> QED BY <1>1, <1>2, <1>3, ImportMoves

\* The counters of requests and faults.
LEMMA ImportCounts ==
  ASSUME ImportTypeOK
  PROVE  /\ Click => clicked' \in 0..ImportSteps
         /\ Mishap => mishaps' \in 0..ImportFaults
BY ImportBounds DEF ImportTypeOK, Click, Mishap

\* The views that read a job without a lock.
LEMMA OpenStep ==
  ASSUME ImportInductive, NEW b \in Browsers, NEW i \in Imports, ProcessRead(b, i) \/ CancelRead(b, i)
  PROVE  ImportInductive'
<1>1. PICK op \in {"process", "cancel"} : Open(b, op, i) /\ imports[i].status # "none"
  BY DEF ProcessRead, CancelRead
<1> DEFINE click == [op |-> op, import |-> i, file |-> imports[i].file]
<1>2. /\ clicks[b].op = "rest" /\ clicks' = [clicks EXCEPT ![b] = click] /\ Click
      /\ UNCHANGED <<imports, parsing, applying, failing, yearOpen, broken, inactive, abandoned, applied, mishaps>>
  BY <1>1 DEF Open, NoClick
<1>3. ImportTypeOK /\ ImportGood(i) /\ imports[i] \in Import
  BY DEF ImportInductive, ImportTypeOK
<1>4. /\ click \in [op: {"rest", "process", "send", "cancel", "wipe", "shred"},
                    import: Imports \cup {NoImport}, file: BOOLEAN]
      /\ click.import = i /\ click.op = op /\ click.file = imports[i].file
  BY <1>3 DEF Import
<1> HIDE DEF click
<1>5. \A c \in Browsers : clicks'[c] = IF c = b THEN click ELSE clicks[c]
  BY <1>2, <1>3 DEF ImportTypeOK
<1>6. ImportRest'
  BY <1>2, <1>3, <1>4, ImportCounts DEF ImportTypeOK, ImportRest
<1>7. ClickGood(b)'
  BY <1>1, <1>2, <1>3, <1>4, <1>5 DEF ClickGood, ImportGood
<1>8. ImportGood(i)'
  <2>1. \A c \in Browsers : clicks[c].import = i /\ clicks[c].op # "rest" => clicks'[c] = clicks[c]
    BY <1>2, <1>5
  <2> QED BY <1>2, <1>3, <2>1, ImportStays
<1>9. \A c \in Browsers : clicks'[c] = clicks[c] \/ (clicks[c].op = "rest" /\ ClickGood(c)')
  BY <1>2, <1>5, <1>7
<1> QED BY <1>2, <1>6, <1>8, <1>9, JobsStay

\* A request that has begun goes on, or stops.
LEMMA ClickStep ==
  ASSUME ImportInductive, NEW b \in Browsers,
         ProcessSave(b) \/ ProcessSend(b) \/ CancelSave(b) \/ CancelWipe(b) \/ CancelShred(b) \/ RequestDies(b)
  PROVE  ImportInductive'
<1>1. ImportTypeOK /\ ClickGood(b) /\ clicks[b].op # "rest"
  BY DEF ImportInductive, ProcessSave, ProcessSend, CancelSave, CancelWipe, CancelShred, RequestDies
<1>2. PICK i \in Imports : i = clicks[b].import
  BY <1>1 DEF ClickGood
<1> DEFINE old == imports[i]
<1>3. old.status # "none" /\ ImportGood(i) /\ old \in Import
  BY <1>1, <1>2 DEF ClickGood, ImportInductive, ImportTypeOK
<1>4. clicks[b].op \in {"cancel", "wipe", "shred"} /\ ~clicks[b].file => ~old.stored
  BY <1>1, <1>2 DEF ClickGood
<1>5. PICK op \in {"rest", "send", "wipe", "shred"} :
        /\ clicks' = [clicks EXCEPT ![b] = IF op = "rest" THEN NoClick ELSE [clicks[b] EXCEPT !.op = op]]
        /\ op = "send" => clicks[b].op = "process"
        /\ op = "wipe" => clicks[b].op = "cancel"
        /\ op = "shred" => clicks[b].op = "wipe"
  BY DEF ProcessSave, ProcessSend, CancelSave, CancelWipe, CancelShred, RequestDies, Turn, Rest
<1> DEFINE click == IF op = "rest" THEN NoClick ELSE [clicks[b] EXCEPT !.op = op]
<1>6. /\ click \in [op: {"rest", "process", "send", "cancel", "wipe", "shred"},
                    import: Imports \cup {NoImport}, file: BOOLEAN]
      /\ click.op = op /\ (op # "rest" => click.import = i /\ click.file = clicks[b].file)
  BY <1>1, <1>2 DEF NoClick, ImportTypeOK
<1>7. clicks' = [clicks EXCEPT ![b] = click]
  BY <1>5
<1> HIDE DEF click
<1>8. /\ clicks' \in [Browsers -> [op: {"rest", "process", "send", "cancel", "wipe", "shred"},
                                    import: Imports \cup {NoImport}, file: BOOLEAN]]
      /\ \A c \in Browsers : clicks'[c] = IF c = b THEN click ELSE clicks[c]
  BY <1>1, <1>6, <1>7 DEF ImportTypeOK
<1>9. UNCHANGED <<applying, failing, yearOpen, inactive, applied, clicked>>
  BY DEF ProcessSave, ProcessSend, CancelSave, CancelWipe, CancelShred, RequestDies
<1> HIDE DEF old
<1>10. ASSUME NEW job \in Import, imports' = [imports EXCEPT ![i] = job],
              job.status # "none", job.stored => old.stored,
              job.status \in Working => Alone(i) \/ old.status \in Working,
              parsing' \in [Imports -> Nat], \A k \in Imports \ {i} : parsing'[k] = parsing[k],
              abandoned \subseteq abandoned', abandoned' \subseteq Imports, mishaps' \in 0..ImportFaults,
              broken' \in {broken, broken \ {i}}, ImportGood(i)'
       PROVE  ImportInductive'
  <2>1. ImportRest'
    BY <1>1, <1>8, <1>9, <1>10 DEF ImportTypeOK, ImportRest
  <2>2. imports'[i] = job
    BY <1>1, <1>2, <1>10 DEF ImportTypeOK
  <2>3. clicks[b].import = i /\ ClickGood(b)'
    <3>1. clicks'[b] = click
      BY <1>8
    <3> QED BY <1>2, <1>3, <1>4, <1>5, <1>6, <1>10, <2>2, <3>1 DEF ClickGood
  <2>4. \A c \in Browsers : clicks'[c] = clicks[c] \/ (clicks[c].import = i /\ ClickGood(c)')
    BY <1>8, <2>3
  <2> QED BY <1>2, <1>9, <1>10, <2>1, <2>4, ImportMoves DEF old
<1>11. \A job \in Import : imports' = [imports EXCEPT ![i] = job] => imports'[i] = job
  BY <1>1, <1>2 DEF ImportTypeOK
<1>12. CASE ProcessSave(b)
  <2>1. UNCHANGED <<parsing, abandoned, mishaps>>
    BY <1>12 DEF ProcessSave
  <2>2. CASE Alone(i) /\ Put(i, "PROCESSING") /\ Turn(b, "send")
    <3> DEFINE job == [old EXCEPT !.status = "PROCESSING"]
    <3>1. /\ job \in Import /\ job.status = "PROCESSING" /\ job.stored = old.stored /\ job.file = old.file
          /\ job.rows = old.rows /\ job.fresh = old.fresh
      BY <1>3 DEF Import
    <3>2. imports' = [imports EXCEPT ![i] = job]
      BY <2>2 DEF Put, old
    <3> HIDE DEF job
    <3>3. clicks'[b].op = "send" /\ clicks'[b].import = i
      BY <1>1, <1>2, <2>2 DEF Turn, ImportTypeOK
    <3>4. ImportGood(i)'
      BY <1>2, <1>3, <1>9, <1>11, <2>1, <3>1, <3>2, <3>3 DEF ImportGood, old
    <3>5. broken' \in {broken, broken \ {i}}
      BY <1>2, <1>12 DEF ProcessSave
    <3> QED BY <1>1, <1>10, <2>1, <2>2, <3>1, <3>2, <3>4, <3>5 DEF ImportTypeOK
  <2>3. CASE UNCHANGED <<imports, broken>> /\ Rest(b)
    <3>1. imports' = [imports EXCEPT ![i] = old]
      BY <1>1, <1>2, <2>3 DEF ImportTypeOK, old
    <3>2. clicks[b].op = "process"
      BY <1>12 DEF ProcessSave
    <3>3. ImportGood(i)'
      BY <1>2, <1>3, <1>8, <1>9, <2>1, <2>3, <3>2 DEF ImportGood
    <3> QED BY <1>1, <1>2, <1>3, <1>10, <2>1, <2>3, <3>1, <3>3 DEF ImportTypeOK
  <2> QED BY <1>2, <1>12, <2>2, <2>3 DEF ProcessSave
<1>13. CASE ProcessSend(b)
  <2>1. /\ UNCHANGED <<imports, abandoned, broken, mishaps>> /\ parsing' = [parsing EXCEPT ![i] = parsing[i] + 1]
        /\ clicks[b].op = "send"
    BY <1>2, <1>13 DEF ProcessSend
  <2>2. imports' = [imports EXCEPT ![i] = old]
    BY <1>1, <1>2, <2>1 DEF ImportTypeOK, old
  <2>3. /\ parsing' \in [Imports -> Nat] /\ \A k \in Imports \ {i} : parsing'[k] = parsing[k]
        /\ parsing'[i] > 0
    BY <1>1, <1>2, <2>1 DEF ImportTypeOK
  <2>4. ImportGood(i)'
    BY <1>2, <1>3, <1>8, <1>9, <2>1, <2>3 DEF ImportGood
  <2> QED BY <1>1, <1>2, <1>3, <1>10, <2>1, <2>2, <2>3, <2>4 DEF ImportTypeOK
<1>14. CASE CancelSave(b)
  <2>1. UNCHANGED <<parsing, abandoned, broken, mishaps>> /\ Put(i, "CANCELLED") /\ Turn(b, "wipe")
    BY <1>2, <1>14 DEF CancelSave
  <2> DEFINE job == [old EXCEPT !.status = "CANCELLED"]
  <2>2. /\ job \in Import /\ job.status = "CANCELLED" /\ job.stored = old.stored /\ job.file = old.file
        /\ job.rows = old.rows /\ job.fresh = old.fresh
    BY <1>3 DEF Import
  <2>3. imports' = [imports EXCEPT ![i] = job]
    BY <2>1 DEF Put, old
  <2> HIDE DEF job
  <2>4. clicks'[b].op = "wipe" /\ clicks'[b].import = i
    BY <1>1, <1>2, <2>1 DEF Turn, ImportTypeOK
  <2>5. ImportGood(i)'
    BY <1>2, <1>3, <1>9, <1>11, <2>1, <2>2, <2>3, <2>4 DEF ImportGood, old
  <2> QED BY <1>1, <1>10, <2>1, <2>2, <2>3, <2>5 DEF ImportTypeOK, Working
<1>15. CASE CancelWipe(b)
  <2>1. /\ UNCHANGED <<parsing, abandoned, broken, mishaps>> /\ Turn(b, "shred")
        /\ imports' = [imports EXCEPT ![i].rows = "none", ![i].fresh = TRUE]
    BY <1>2, <1>15 DEF CancelWipe
  <2> DEFINE job == [old EXCEPT !.rows = "none", !.fresh = TRUE]
  <2>2. /\ job \in Import /\ job.status = old.status /\ job.stored = old.stored /\ job.file = old.file
        /\ job.rows = "none" /\ job.fresh
    BY <1>3 DEF Import
  <2>3. imports' = [imports EXCEPT ![i] = job]
    BY <1>1, <1>2, <2>1 DEF ImportTypeOK, old
  <2> HIDE DEF job
  <2>4. clicks'[b].op = "shred" /\ clicks'[b].import = i /\ clicks[b].op = "wipe"
    BY <1>1, <1>2, <1>15, <2>1 DEF Turn, ImportTypeOK, CancelWipe
  <2>5. ImportGood(i)'
    <3>1. \A c \in Browsers : clicks[c].op = "send" /\ clicks[c].import = i =>
            clicks'[c].op = "send" /\ clicks'[c].import = i
      BY <1>8, <2>4
    <3>2. imports'[i] = job
      BY <1>11, <2>2, <2>3
    <3> QED BY <1>3, <1>9, <2>1, <2>2, <2>4, <3>1, <3>2 DEF ImportGood, old
  <2> QED BY <1>1, <1>2, <1>3, <1>10, <2>1, <2>2, <2>3, <2>5 DEF ImportTypeOK
<1>16. CASE CancelShred(b)
  <2>1. /\ UNCHANGED <<parsing, abandoned, broken, mishaps>> /\ clicks[b].op = "shred"
        /\ imports' = IF clicks[b].file THEN [imports EXCEPT ![i].file = FALSE, ![i].stored = FALSE] ELSE imports
    BY <1>2, <1>16 DEF CancelShred
  <2> DEFINE job == IF clicks[b].file THEN [old EXCEPT !.file = FALSE, !.stored = FALSE] ELSE old
  <2>2. /\ job \in Import /\ job.status = old.status /\ ~job.stored
        /\ job.rows = old.rows /\ job.fresh = old.fresh /\ (~old.file => ~job.file)
    BY <1>3, <1>4, <2>1 DEF Import
  <2>3. imports' = [imports EXCEPT ![i] = job]
    BY <1>1, <1>2, <2>1 DEF ImportTypeOK, old
  <2> HIDE DEF job
  <2>4. ImportGood(i)'
    <3>1. \A c \in Browsers : clicks[c].op \in {"send", "wipe"} /\ clicks[c].import = i =>
            clicks'[c].op = clicks[c].op /\ clicks'[c].import = i
      BY <1>8, <2>1
    <3>2. imports'[i] = job
      BY <1>11, <2>2, <2>3
    <3> QED BY <1>3, <1>9, <2>1, <2>2, <3>1, <3>2 DEF ImportGood, old
  <2> QED BY <1>1, <1>2, <1>3, <1>10, <2>1, <2>2, <2>3, <2>4 DEF ImportTypeOK
<1>17. CASE RequestDies(b)
  <2>1. /\ UNCHANGED <<imports, parsing, broken>> /\ Mishap /\ abandoned' = abandoned \cup {i}
    BY <1>2, <1>17 DEF RequestDies
  <2>2. imports' = [imports EXCEPT ![i] = old]
    BY <1>1, <1>2, <2>1 DEF ImportTypeOK, old
  <2>3. ImportGood(i)'
    BY <1>2, <1>3, <1>9, <2>1 DEF ImportGood
  <2>4. mishaps' \in 0..ImportFaults
    BY <1>1, <2>1, ImportCounts
  <2> QED BY <1>1, <1>2, <1>3, <1>10, <2>1, <2>2, <2>3, <2>4 DEF ImportTypeOK
<1> QED BY <1>12, <1>13, <1>14, <1>15, <1>16, <1>17

\* The requests and the tasks that lock the job: what they make of it, and of its messages.
LEMMA LockedStep ==
  ASSUME ImportInductive, NEW i \in Imports, NEW job \in Import,
         imports' = [imports EXCEPT ![i] = job], UNCHANGED clicks, yearOpen' \in BOOLEAN,
         imports[i].status # "none" => job.status # "none" /\ (job.stored => imports[i].stored),
         job.status \in Working => Alone(i) \/ imports[i].status \in Working,
         parsing' \in [Imports -> Nat] /\ applying' \in [Imports -> Nat] /\ applied' \in [Imports -> Nat],
         \A k \in Imports \ {i} : applied'[k] = applied[k] /\ parsing'[k] = parsing[k] /\ applying'[k] = applying[k],
         failing' \subseteq failing \cup {i},
         abandoned \subseteq abandoned', abandoned' \subseteq abandoned \cup {i},
         inactive \subseteq inactive', inactive' \subseteq inactive \cup {i},
         broken \ {i} \subseteq broken', broken' \subseteq broken \cup {i},
         Click \/ UNCHANGED clicked, Mishap \/ UNCHANGED mishaps,
         ImportGood(i)'
  PROVE  ImportInductive'
<1>1. ImportTypeOK
  BY DEF ImportInductive
<1>2. clicked' \in 0..ImportSteps /\ mishaps' \in 0..ImportFaults
  BY <1>1, ImportCounts DEF ImportTypeOK
<1>3. failing' \subseteq Imports /\ abandoned' \subseteq Imports /\ inactive' \subseteq Imports /\ broken' \subseteq Imports
  BY <1>1 DEF ImportTypeOK
<1>4. ImportRest'
  BY <1>1, <1>2, <1>3 DEF ImportTypeOK, ImportRest
<1>5. \A k \in Imports \ {i} : k \in failing' => k \in failing
  OBVIOUS
<1> QED BY <1>4, <1>5, ImportMoves

\* ImportUploadView: a new import, and the message for its parser.
LEMMA UploadStep ==
  ASSUME ImportInductive, NEW i \in Imports, Upload(i)
  PROVE  ImportInductive'
<1> DEFINE job == [NoUpload EXCEPT !.status = "UPLOADED", !.file = TRUE, !.stored = TRUE]
<1>1. ImportTypeOK /\ ImportGood(i)
  BY DEF ImportInductive
<1>2. /\ imports[i] = NoUpload /\ Click
      /\ UNCHANGED <<clicks, parsing, applying, failing, yearOpen, broken, inactive, abandoned, applied, mishaps>>
  BY DEF Upload
<1>3. imports' = [imports EXCEPT ![i] = job]
  BY <1>1, <1>2 DEF Upload, ImportTypeOK, NoUpload
<1>4. job \in Import /\ job.status = "UPLOADED" /\ job.file
  BY DEF NoUpload, Import
<1> HIDE DEF job
<1>5. imports[i].status = "none"
  BY <1>2 DEF NoUpload
<1>6. imports'[i] = job
  BY <1>1, <1>3 DEF ImportTypeOK
<1>7. ImportGood(i)'
  BY <1>1, <1>2, <1>4, <1>5, <1>6 DEF ImportGood, ImportTypeOK
<1>8. job.status \notin Working
  BY <1>4 DEF Working
<1> QED BY <1>1, <1>2, <1>3, <1>4, <1>5, <1>7, <1>8, LockedStep DEF ImportTypeOK

\* correct_row: all staged rows of a READY import are compared again.
LEMMA CorrectStep ==
  ASSUME ImportInductive, NEW i \in Imports, CorrectRow(i)
  PROVE  ImportInductive'
<1>1. ImportTypeOK /\ ImportGood(i) /\ imports[i] \in Import
  BY DEF ImportInductive, ImportTypeOK
<1>2. /\ imports[i].status = "READY" /\ imports[i].rows # "none" /\ Click
      /\ UNCHANGED <<clicks, parsing, applying, failing, yearOpen, broken, inactive, abandoned, applied, mishaps>>
  BY DEF CorrectRow
<1>3. PICK rows \in {"bad", "good"} : imports' = [imports EXCEPT ![i] = Compared(imports[i], rows)]
  BY DEF CorrectRow
<1> DEFINE job == Compared(imports[i], rows)
<1>4. job \in Import /\ job.status = "READY" /\ job.file = imports[i].file /\ job.stored = imports[i].stored
  BY <1>1, <1>2 DEF Import, Compared
<1>5. imports' = [imports EXCEPT ![i] = job]
  BY <1>3
<1> HIDE DEF job
<1>6. imports'[i] = job
  BY <1>1, <1>5 DEF ImportTypeOK
<1>7. ImportGood(i)'
  BY <1>1, <1>2, <1>4, <1>6 DEF ImportGood, ImportTypeOK
<1>8. job.status \notin Working
  BY <1>4 DEF Working
<1> QED BY <1>1, <1>2, <1>4, <1>5, <1>7, <1>8, LockedStep DEF ImportTypeOK

\* The confirmation takes an import to IMPORTING under the lock of the school,
\* alone, and hands its task over.
LEMMA ConfirmStep ==
  ASSUME ImportInductive, NEW i \in Imports, Confirm(i)
  PROVE  ImportInductive'
<1> DEFINE job == [imports[i] EXCEPT !.status = "IMPORTING"]
<1>1. ImportTypeOK /\ ImportGood(i) /\ imports[i] \in Import
  BY DEF ImportInductive, ImportTypeOK
<1>2. /\ imports[i].status = "READY" /\ Alone(i) /\ Click
      /\ UNCHANGED <<clicks, parsing, failing, yearOpen, inactive, applied>> /\ broken' = broken \ {i}
      /\ \/ applying' = [applying EXCEPT ![i] = applying[i] + 1] /\ UNCHANGED <<abandoned, mishaps>>
         \/ Mishap /\ abandoned' = abandoned \cup {i} /\ UNCHANGED applying
  BY DEF Confirm
<1>3. imports' = [imports EXCEPT ![i] = job]
  BY <1>1 DEF Confirm, Put, ImportTypeOK
<1>4. /\ job \in Import /\ job.status = "IMPORTING" /\ job.file = imports[i].file /\ job.stored = imports[i].stored
      /\ job.rows = imports[i].rows /\ job.fresh = imports[i].fresh
  BY <1>1 DEF Import
<1> HIDE DEF job
<1>5. imports'[i] = job
  BY <1>1, <1>3 DEF ImportTypeOK
<1>6. /\ applying' \in [Imports -> Nat] /\ \A k \in Imports \ {i} : applying'[k] = applying[k]
      /\ applying'[i] >= applying[i] /\ (i \notin abandoned' => applying'[i] > 0)
  BY <1>1, <1>2 DEF ImportTypeOK
<1>7. ImportGood(i)'
  <2>1. applying[i] \in Nat /\ applying'[i] \in Nat
    BY <1>1, <1>6 DEF ImportTypeOK
  <2> QED BY <1>1, <1>2, <1>4, <1>5, <1>6, <2>1 DEF ImportGood
<1>8. (Mishap \/ UNCHANGED mishaps) /\ abandoned \subseteq abandoned' /\ abandoned' \subseteq abandoned \cup {i}
  BY <1>2
<1> QED BY <1>1, <1>2, <1>3, <1>4, <1>6, <1>7, <1>8, LockedStep DEF ImportTypeOK

\* A message that a task ends with, or that is lost, was there.
LEMMA TakeTypes ==
  ASSUME NEW messages \in [Imports -> Nat], NEW i \in Imports, messages[i] > 0
  PROVE  /\ Take(messages, i) \in [Imports -> Nat] /\ \A k \in Imports \ {i} : Take(messages, i)[k] = messages[k]
<1> DEFINE fewer == messages[i] - 1
<1>1. fewer \in Nat
  OBVIOUS
<1>2. Take(messages, i) = [messages EXCEPT ![i] = fewer]
  BY DEF Take
<1> HIDE DEF fewer
<1> QED BY <1>1, <1>2

\* process_import_job: an import that is PROCESSING is READY or FAILED after it.
LEMMA ParseStep ==
  ASSUME ImportInductive, NEW i \in Imports, Parse(i)
  PROVE  ImportInductive'
<1> DEFINE old == imports[i]
<1>1. ImportTypeOK /\ ImportGood(i) /\ old \in Import
  BY DEF ImportInductive, ImportTypeOK
<1>2. /\ UNCHANGED <<clicks, applying, failing, yearOpen, broken, inactive, abandoned, applied, clicked>>
      /\ parsing[i] > 0
      /\ \/ parsing' = Take(parsing, i) /\ UNCHANGED mishaps
         \/ Mishap /\ UNCHANGED parsing
  BY DEF Parse
<1>3. /\ parsing' \in [Imports -> Nat] /\ (Mishap \/ UNCHANGED mishaps)
      /\ \A k \in Imports \ {i} : parsing'[k] = parsing[k]
  BY <1>1, <1>2, TakeTypes DEF ImportTypeOK
<1>4. \E job \in Import :
        /\ imports' = [imports EXCEPT ![i] = job]
        /\ job.file = old.file /\ job.stored = old.stored
        /\ \/ job = old /\ old.status # "PROCESSING"
           \/ job.status = "READY" /\ old.file /\ old.status = "PROCESSING"
           \/ /\ job.status = "FAILED" /\ job.rows = old.rows /\ job.fresh = old.fresh /\ old.status = "PROCESSING"
  <2>1. CASE old.status # "PROCESSING" /\ UNCHANGED imports
    <3>1. imports' = [imports EXCEPT ![i] = old]
      BY <1>1, <2>1 DEF ImportTypeOK
    <3> QED BY <1>1, <2>1, <3>1
  <2>2. ASSUME NEW rows \in {"bad", "good"}, old.status = "PROCESSING", old.file,
               imports' = [imports EXCEPT ![i] = [Compared(old, rows) EXCEPT !.status = "READY"]]
        PROVE  \E job \in Import :
                 /\ imports' = [imports EXCEPT ![i] = job]
                 /\ job.file = old.file /\ job.stored = old.stored /\ job.status = "READY"
    <3> DEFINE job == [Compared(old, rows) EXCEPT !.status = "READY"]
    <3>1. job \in Import /\ job.status = "READY" /\ job.file = old.file /\ job.stored = old.stored
      BY <1>1 DEF Compared, Import
    <3> QED BY <2>2, <3>1
  <2>3. CASE old.status = "PROCESSING" /\ Put(i, "FAILED")
    <3> DEFINE job == [old EXCEPT !.status = "FAILED"]
    <3>1. /\ job \in Import /\ job.status = "FAILED" /\ job.file = old.file /\ job.stored = old.stored
          /\ job.rows = old.rows /\ job.fresh = old.fresh
      BY <1>1 DEF Import
    <3>2. imports' = [imports EXCEPT ![i] = job]
      BY <1>1, <2>3 DEF Put, ImportTypeOK
    <3> QED BY <2>3, <3>1, <3>2
  <2> QED BY <2>1, <2>2, <2>3 DEF Parse
<1>5. PICK job \in Import :
        /\ imports' = [imports EXCEPT ![i] = job]
        /\ job.file = old.file /\ job.stored = old.stored
        /\ \/ job = old /\ old.status # "PROCESSING"
           \/ job.status = "READY" /\ old.file /\ old.status = "PROCESSING"
           \/ /\ job.status = "FAILED" /\ job.rows = old.rows /\ job.fresh = old.fresh /\ old.status = "PROCESSING"
  BY <1>4
<1>6. imports'[i] = job
  BY <1>1, <1>5 DEF ImportTypeOK
<1>7. ImportGood(i)'
  <2>1. applied[i] \in Nat
    BY <1>1 DEF ImportTypeOK
  <2> QED BY <1>1, <1>2, <1>5, <1>6, <2>1 DEF ImportGood
<1>8. (job.status \in Working => old.status \in Working) /\ (old.status # "none" => job.status # "none")
  BY <1>5 DEF Working
<1> QED BY <1>1, <1>2, <1>3, <1>5, <1>7, <1>8, LockedStep DEF ImportTypeOK

\* _commit_locked ends with a job that no longer is IMPORTING: rows are applied from a preview
\* that there is, and with them go the rows and the file.
LEMMA CommitMakes ==
  ASSUME ImportTypeOK, NEW i \in Imports, ImportGood(i), Commit(i), imports[i].status \in Acceptable
  PROVE  \E job \in Import :
           /\ imports' = [imports EXCEPT ![i] = job]
           /\ job.status \in {"READY", "FAILED", "COMPLETED"}
           /\ job.stored => imports[i].stored /\ job.file
           /\ job.status = "COMPLETED" => job.rows = "none" /\ ~job.stored
           /\ applied' \in [Imports -> Nat] /\ \A k \in Imports \ {i} : applied'[k] = applied[k]
           /\ applied'[i] > 0 => applied'[i] = 1 /\ ~job.file /\ job.rows = "none" /\ job.fresh
<1> DEFINE old == imports[i]
           Result(job) ==
             /\ imports' = [imports EXCEPT ![i] = job]
             /\ job.status \in {"READY", "FAILED", "COMPLETED"}
             /\ job.stored => imports[i].stored /\ job.file
             /\ job.status = "COMPLETED" => job.rows = "none" /\ ~job.stored
             /\ applied' \in [Imports -> Nat] /\ \A k \in Imports \ {i} : applied'[k] = applied[k]
             /\ applied'[i] > 0 => applied'[i] = 1 /\ ~job.file /\ job.rows = "none" /\ job.fresh
<1>1. old \in Import /\ applied \in [Imports -> Nat] /\ imports \in [Imports -> Import]
  BY DEF ImportTypeOK
<1>2. (old.stored => old.file) /\ (applied[i] > 0 => applied[i] = 1 /\ ~old.file /\ old.rows = "none" /\ old.fresh)
  BY DEF ImportGood
<1>3. CASE \E status \in {"READY", "FAILED"} : Put(i, status) /\ UNCHANGED applied
  <2>1. PICK status \in {"READY", "FAILED"} : Put(i, status) /\ UNCHANGED applied
    BY <1>3
  <2> DEFINE job == [old EXCEPT !.status = status]
  <2>2. /\ job \in Import /\ job.status = status /\ job.file = old.file /\ job.stored = old.stored
        /\ job.rows = old.rows /\ job.fresh = old.fresh
    BY <1>1 DEF Import
  <2>3. imports' = [imports EXCEPT ![i] = job]
    BY <1>1, <2>1 DEF Put
  <2> HIDE DEF job
  <2>4. Result(job)
    BY <1>1, <1>2, <2>1, <2>2, <2>3
  <2> QED BY <2>2, <2>4
<1>4. CASE /\ ~old.fresh /\ UNCHANGED applied
           /\ \E rows \in {"bad", "good"} :
                imports' = [imports EXCEPT ![i].status = "READY", ![i].rows = rows, ![i].fresh = TRUE]
  <2>1. PICK rows \in {"bad", "good"} :
          imports' = [imports EXCEPT ![i].status = "READY", ![i].rows = rows, ![i].fresh = TRUE]
    BY <1>4
  <2> DEFINE job == [old EXCEPT !.status = "READY", !.rows = rows, !.fresh = TRUE]
  <2>2. job \in Import /\ job.status = "READY" /\ job.file = old.file /\ job.stored = old.stored
    BY <1>1 DEF Import
  <2>3. imports' = [imports EXCEPT ![i] = job]
    BY <1>1, <2>1
  <2> HIDE DEF job
  <2>4. Result(job)
    BY <1>1, <1>2, <1>4, <2>2, <2>3
  <2> QED BY <2>2, <2>4
<1>5. CASE /\ old.fresh /\ imports' = [imports EXCEPT ![i] = Cleared(old)]
           /\ applied' = [applied EXCEPT ![i] = IF old.rows = "good" THEN applied[i] + 1 ELSE applied[i]]
  <2> DEFINE job == Cleared(old)
             count == IF old.rows = "good" THEN applied[i] + 1 ELSE applied[i]
  <2>1. /\ job \in Import /\ job.status = "COMPLETED" /\ ~job.file /\ job.rows = "none" /\ job.fresh = old.fresh
        /\ job.stored = IF old.file THEN FALSE ELSE old.stored
    BY <1>1 DEF Import, Cleared
  <2>2. count \in Nat /\ (count > 0 => count = 1)
    BY <1>1, <1>2
  <2> HIDE DEF job, count
  <2>3. applied' = [applied EXCEPT ![i] = count] /\ imports' = [imports EXCEPT ![i] = job]
    BY <1>5 DEF job, count
  <2>4. /\ applied' \in [Imports -> Nat] /\ applied'[i] = count
        /\ \A k \in Imports \ {i} : applied'[k] = applied[k]
    BY <1>1, <2>2, <2>3
  <2>5. Result(job)
    BY <1>2, <1>5, <2>1, <2>2, <2>3, <2>4
  <2> QED BY <2>1, <2>5
<1> QED BY <1>3, <1>4, <1>5 DEF Commit

\* commit_student_import_job, also for a message that comes again.
LEMMA ApplyStep ==
  ASSUME ImportInductive, NEW i \in Imports, Apply(i)
  PROVE  ImportInductive'
<1> DEFINE old == imports[i]
<1>1. ImportTypeOK /\ ImportGood(i) /\ old \in Import
  BY DEF ImportInductive, ImportTypeOK
<1>2. /\ UNCHANGED <<clicks, parsing, failing, yearOpen, broken, inactive, abandoned, clicked>>
      /\ applying[i] > 0 /\ i \notin failing
      /\ \/ applying' = Take(applying, i) /\ UNCHANGED mishaps
         \/ Mishap /\ UNCHANGED applying
  BY DEF Apply
<1>3. /\ applying' \in [Imports -> Nat] /\ (Mishap \/ UNCHANGED mishaps)
      /\ \A k \in Imports \ {i} : applying'[k] = applying[k]
  BY <1>1, <1>2, TakeTypes DEF ImportTypeOK
<1>4. CASE old.status \in Acceptable /\ Commit(i)
  <2>1. PICK job \in Import :
           /\ imports' = [imports EXCEPT ![i] = job]
           /\ job.status \in {"READY", "FAILED", "COMPLETED"}
           /\ job.stored => imports[i].stored /\ job.file
           /\ job.status = "COMPLETED" => job.rows = "none" /\ ~job.stored
           /\ applied' \in [Imports -> Nat] /\ \A k \in Imports \ {i} : applied'[k] = applied[k]
           /\ applied'[i] > 0 => applied'[i] = 1 /\ ~job.file /\ job.rows = "none" /\ job.fresh
    BY <1>1, <1>4, CommitMakes
  <2>2. imports'[i] = job
    BY <1>1, <2>1 DEF ImportTypeOK
  <2>3. ImportGood(i)'
    BY <1>2, <2>1, <2>2 DEF ImportGood
  <2>4. job.status \notin Working /\ job.status # "none"
    BY <2>1 DEF Working
  <2> QED BY <1>1, <1>2, <1>3, <2>1, <2>3, <2>4, LockedStep DEF ImportTypeOK
<1>5. CASE old.status \notin Acceptable /\ UNCHANGED <<imports, applied>>
  <2>1. imports' = [imports EXCEPT ![i] = old]
    BY <1>1, <1>5 DEF ImportTypeOK
  <2>2. ImportGood(i)'
    BY <1>1, <1>2, <1>5 DEF ImportGood, Acceptable
  <2> QED BY <1>1, <1>2, <1>3, <1>5, <2>1, <2>2, LockedStep DEF ImportTypeOK
<1> QED BY <1>4, <1>5 DEF Apply

\* A commit that is rolled back leaves the job, but perhaps not its file, as it was.
LEMMA RolledBack ==
  ASSUME ImportInductive, NEW i \in Imports, ApplyRefuses(i) \/ ApplyRaises(i)
  PROVE  ImportInductive'
<1> DEFINE old == imports[i]
<1>1. ImportTypeOK /\ ImportGood(i) /\ old \in Import
  BY DEF ImportInductive, ImportTypeOK
<1>2. CASE ApplyRefuses(i)
  <2>1. /\ applying[i] > 0 /\ i \notin failing /\ applying' = Take(applying, i) /\ inactive' = inactive \cup {i}
        /\ UNCHANGED <<imports, clicks, parsing, failing, yearOpen, abandoned, broken, applied, clicked, mishaps>>
    BY <1>2 DEF ApplyRefuses
  <2>2. applying' \in [Imports -> Nat] /\ \A k \in Imports \ {i} : applying'[k] = applying[k]
    BY <1>1, <2>1, TakeTypes DEF ImportTypeOK
  <2>3. imports' = [imports EXCEPT ![i] = old]
    BY <1>1, <2>1 DEF ImportTypeOK
  <2>4. ImportGood(i)'
    BY <1>1, <2>1 DEF ImportGood
  <2> QED BY <1>1, <2>1, <2>2, <2>3, <2>4, LockedStep DEF ImportTypeOK
<1>3. CASE ApplyRaises(i)
  <2>1. /\ applying[i] > 0 /\ failing' \in {failing, failing \cup {i}} /\ (Mishap \/ UNCHANGED mishaps)
        /\ UNCHANGED <<clicks, parsing, applying, yearOpen, broken, inactive, abandoned, applied, clicked>>
        /\ \/ UNCHANGED imports
           \/ imports' = [imports EXCEPT ![i].stored = FALSE] /\ old.status \in Acceptable
    BY <1>3 DEF ApplyRaises
  <2>2. PICK stored \in BOOLEAN :
          imports' = [imports EXCEPT ![i] = [old EXCEPT !.stored = stored]] /\ (stored => old.stored)
    <3>1. CASE UNCHANGED imports
      <4>1. imports' = [imports EXCEPT ![i] = [old EXCEPT !.stored = old.stored]]
        BY <1>1, <3>1 DEF ImportTypeOK, Import
      <4>2. old.stored \in BOOLEAN
        BY <1>1 DEF Import
      <4> QED BY <4>1, <4>2
    <3>2. CASE imports' = [imports EXCEPT ![i].stored = FALSE]
      <4>1. imports' = [imports EXCEPT ![i] = [old EXCEPT !.stored = FALSE]]
        BY <1>1, <3>2 DEF ImportTypeOK
      <4> QED BY <4>1
    <3> QED BY <2>1, <3>1, <3>2
  <2> DEFINE job == [old EXCEPT !.stored = stored]
  <2>3. /\ job \in Import /\ job.status = old.status /\ job.stored = stored /\ job.file = old.file
        /\ job.rows = old.rows /\ job.fresh = old.fresh
    BY <1>1 DEF Import
  <2>4. imports' = [imports EXCEPT ![i] = job]
    BY <2>2
  <2> HIDE DEF job
  <2>5. imports'[i] = job
    BY <1>1, <2>4 DEF ImportTypeOK
  <2>6. ImportGood(i)'
    BY <1>1, <2>1, <2>2, <2>3, <2>5 DEF ImportGood
  <2>7. failing' \subseteq failing \cup {i}
    BY <2>1
  <2> QED BY <1>1, <2>1, <2>2, <2>3, <2>4, <2>6, <2>7, LockedStep DEF ImportTypeOK
<1> QED BY <1>2, <1>3

\* _fail_student_commit, a message that the broker loses, and a task that ends in an error.
LEMMA MessageEnds ==
  ASSUME ImportInductive, NEW i \in Imports, ApplyFails(i) \/ MessageLost(i) \/ TaskRaises(i)
  PROVE  ImportInductive'
<1> DEFINE old == imports[i]
<1>1. ImportTypeOK /\ ImportGood(i) /\ old \in Import
  BY DEF ImportInductive, ImportTypeOK
<1>2. CASE ApplyFails(i)
  <2>1. /\ i \in failing /\ failing' = failing \ {i} /\ applying' = Take(applying, i)
        /\ UNCHANGED <<clicks, parsing, yearOpen, broken, inactive, abandoned, applied, clicked, mishaps>>
    BY <1>2 DEF ApplyFails
  <2>2. applying' \in [Imports -> Nat] /\ \A k \in Imports \ {i} : applying'[k] = applying[k]
    BY <1>1, <2>1, TakeTypes DEF ImportTypeOK, ImportGood
  <2>3. CASE Put(i, "FAILED")
    <3> DEFINE job == [old EXCEPT !.status = "FAILED"]
    <3>1. /\ job \in Import /\ job.status = "FAILED" /\ job.file = old.file /\ job.stored = old.stored
          /\ job.rows = old.rows /\ job.fresh = old.fresh
      BY <1>1 DEF Import
    <3>2. imports' = [imports EXCEPT ![i] = job]
      BY <1>1, <2>3 DEF Put, ImportTypeOK
    <3> HIDE DEF job
    <3>3. imports'[i] = job
      BY <1>1, <3>2 DEF ImportTypeOK
    <3>4. ImportGood(i)'
      BY <1>1, <2>1, <3>1, <3>3 DEF ImportGood
    <3>5. job.status \notin Working
      BY <3>1 DEF Working
    <3> QED BY <1>1, <2>1, <2>2, <3>1, <3>2, <3>4, <3>5, LockedStep DEF ImportTypeOK
  <2>4. CASE old.status = "COMPLETED" /\ UNCHANGED imports
    <3>1. imports' = [imports EXCEPT ![i] = old]
      BY <1>1, <2>4 DEF ImportTypeOK
    <3>2. ImportGood(i)'
      BY <1>1, <2>1, <2>4 DEF ImportGood
    <3> QED BY <1>1, <2>1, <2>2, <3>1, <3>2, LockedStep DEF ImportTypeOK
  <2> QED BY <1>2, <2>3, <2>4 DEF ApplyFails
<1>3. CASE MessageLost(i)
  <2>1. /\ Mishap /\ abandoned' = abandoned \cup {i}
        /\ UNCHANGED <<imports, clicks, failing, yearOpen, broken, inactive, applied, clicked>>
        /\ \/ parsing[i] > 0 /\ parsing' = Take(parsing, i) /\ UNCHANGED applying
           \/ applying[i] > 0 /\ i \notin failing /\ applying' = Take(applying, i) /\ UNCHANGED parsing
    BY <1>3 DEF MessageLost
  <2>2. /\ parsing' \in [Imports -> Nat] /\ \A k \in Imports \ {i} : parsing'[k] = parsing[k]
        /\ applying' \in [Imports -> Nat] /\ \A k \in Imports \ {i} : applying'[k] = applying[k]
    BY <1>1, <2>1, TakeTypes DEF ImportTypeOK
  <2>3. imports' = [imports EXCEPT ![i] = old]
    BY <1>1, <2>1 DEF ImportTypeOK
  <2>4. ImportGood(i)'
    BY <1>1, <2>1 DEF ImportGood
  <2> QED BY <1>1, <2>1, <2>2, <2>3, <2>4, LockedStep DEF ImportTypeOK
<1>4. CASE TaskRaises(i)
  <2>1. /\ Mishap /\ broken' = broken \cup {i}
        /\ UNCHANGED <<imports, clicks, yearOpen, abandoned, inactive, applied, clicked>>
        /\ \/ parsing[i] > 0 /\ parsing' = Take(parsing, i) /\ UNCHANGED <<applying, failing>>
           \/ applying[i] > 0 /\ applying' = Take(applying, i) /\ failing' = failing \ {i} /\ UNCHANGED parsing
    BY <1>4 DEF TaskRaises
  <2>2. /\ parsing' \in [Imports -> Nat] /\ \A k \in Imports \ {i} : parsing'[k] = parsing[k]
        /\ applying' \in [Imports -> Nat] /\ \A k \in Imports \ {i} : applying'[k] = applying[k]
    BY <1>1, <2>1, TakeTypes DEF ImportTypeOK
  <2>3. imports' = [imports EXCEPT ![i] = old]
    BY <1>1, <2>1 DEF ImportTypeOK
  <2>4. ImportGood(i)'
    BY <1>1, <2>1 DEF ImportGood
  <2>5. failing' \subseteq failing \cup {i}
    BY <2>1
  <2> QED BY <1>1, <2>1, <2>2, <2>3, <2>4, <2>5, LockedStep DEF ImportTypeOK
<1> QED BY <1>2, <1>3, <1>4

\* Another write to the school makes the previews stale; the year may close.
LEMMA OutsideStep ==
  ASSUME ImportInductive, SchoolChanges \/ YearCloses \/ UNCHANGED importVars
  PROVE  ImportInductive'
<1>1. ImportTypeOK
  BY DEF ImportInductive
<1>2. UNCHANGED <<clicks, parsing, applying, failing, broken, inactive, abandoned, applied, mishaps>>
  BY DEF SchoolChanges, YearCloses, importVars
<1>3. yearOpen' \in {yearOpen, FALSE} /\ (Click \/ UNCHANGED clicked)
  BY DEF SchoolChanges, YearCloses, importVars
<1>4. /\ imports' \in [Imports -> Import]
      /\ \A i \in Imports : /\ imports'[i].status = imports[i].status /\ imports'[i].file = imports[i].file
                            /\ imports'[i].stored = imports[i].stored /\ imports'[i].rows = imports[i].rows
                            /\ imports'[i].fresh = imports[i].fresh \/ imports'[i].fresh = (imports[i].rows = "none")
  <2>1. CASE UNCHANGED imports
    BY <1>1, <2>1 DEF ImportTypeOK
  <2>2. CASE imports' = [i \in Imports |-> [imports[i] EXCEPT !.fresh = imports[i].rows = "none"]]
    <3>1. ASSUME NEW i \in Imports
          PROVE  LET job == [imports[i] EXCEPT !.fresh = imports[i].rows = "none"] IN
                 /\ job \in Import /\ job.status = imports[i].status /\ job.file = imports[i].file
                 /\ job.stored = imports[i].stored /\ job.rows = imports[i].rows
                 /\ job.fresh = (imports[i].rows = "none")
      <4> DEFINE none == imports[i].rows = "none"
      <4>1. none \in BOOLEAN /\ imports[i] \in Import
        BY <1>1 DEF ImportTypeOK
      <4> HIDE DEF none
      <4>2. LET job == [imports[i] EXCEPT !.fresh = none] IN
              /\ job \in Import /\ job.status = imports[i].status /\ job.file = imports[i].file
              /\ job.stored = imports[i].stored /\ job.rows = imports[i].rows /\ job.fresh = none
        BY <4>1 DEF Import
      <4> QED BY <4>2 DEF none
    <3> QED BY <2>2, <3>1
  <2> QED BY <2>1, <2>2 DEF SchoolChanges, YearCloses, importVars
<1>5. ImportTypeOK'
  BY <1>1, <1>2, <1>3, <1>4, ImportCounts DEF ImportTypeOK
<1>6. OneWorks'
  BY <1>4 DEF ImportInductive, OneWorks
<1>7. ASSUME NEW i \in Imports
      PROVE  ImportGood(i)'
  <2>1. ImportGood(i)
    BY DEF ImportInductive
  <2> QED BY <1>2, <1>4, <2>1 DEF ImportGood
<1>8. ASSUME NEW b \in Browsers
      PROVE  ClickGood(b)'
  <2>1. ClickGood(b)
    BY DEF ImportInductive
  <2> QED BY <1>2, <1>4, <2>1 DEF ClickGood
<1> QED BY <1>5, <1>6, <1>7, <1>8 DEF ImportInductive

\* No import, no task and no browser at work.
LEMMA ImportInitHolds ==
  ASSUME ImportInit
  PROVE  ImportInductive
<1>1. NoUpload \in Import /\ NoUpload.status = "none" /\ ~NoUpload.stored
  BY DEF NoUpload, Import
<1>2. ImportTypeOK
  BY <1>1, ImportBounds DEF ImportInit, ImportTypeOK, NoClick
<1>3. OneWorks
  BY <1>1 DEF ImportInit, OneWorks, Working
<1>4. \A i \in Imports : ImportGood(i)
  BY <1>1 DEF ImportInit, ImportGood
<1>5. \A b \in Browsers : ClickGood(b)
  BY DEF ImportInit, ClickGood, NoClick
<1> QED BY <1>2, <1>3, <1>4, <1>5 DEF ImportInductive

\* Every request, task and sweep of the imports keeps the inductive invariant.
LEMMA ImportStep ==
  ASSUME ImportInductive, [ImportNext]_importVars
  PROVE  ImportInductive'
<1>1. ASSUME NEW b \in Browsers,
             \/ ProcessSave(b) \/ ProcessSend(b) \/ CancelSave(b) \/ CancelWipe(b) \/ CancelShred(b)
             \/ RequestDies(b)
             \/ \E i \in Imports : ProcessRead(b, i) \/ CancelRead(b, i)
      PROVE  ImportInductive'
  BY <1>1, ClickStep, OpenStep
<1>2. ASSUME NEW i \in Imports,
             \/ Upload(i) \/ CorrectRow(i) \/ Confirm(i) \/ Parse(i)
             \/ Apply(i) \/ ApplyRefuses(i) \/ ApplyRaises(i)
             \/ ApplyFails(i) \/ TaskRaises(i) \/ MessageLost(i)
      PROVE  ImportInductive'
  BY <1>2, UploadStep, CorrectStep, ConfirmStep, ParseStep, ApplyStep, RolledBack, MessageEnds
<1> QED BY <1>1, <1>2, OutsideStep DEF ImportNext

\* What it says of the imports.
LEMMA ImportsHold ==
  ASSUME ImportInductive
  PROVE  ImportsInvariant
<1>1. WorkIsQueued
  BY DEF ImportInductive, ImportGood, WorkIsQueued
<1>2. OneRuns
  <2> DEFINE W == {i \in Imports : imports[i].status \in Working}
  <2>1. CASE W = {}
    BY <2>1, FS_EmptySet DEF OneRuns
  <2>2. CASE W # {}
    <3>1. PICK i \in Imports : W = {i}
      BY <2>2 DEF ImportInductive, OneWorks
    <3>2. Cardinality(W) = 1
      BY <3>1, FS_Singleton
    <3> QED BY <3>2 DEF OneRuns
  <2> QED BY <2>1, <2>2
<1>3. AppliedOnce
  BY DEF ImportInductive, ImportGood, ImportTypeOK, AppliedOnce
<1>4. NothingLeft
  <2> SUFFICES ASSUME NEW i \in Imports \ abandoned
               PROVE  /\ imports[i].status = "COMPLETED" => imports[i].rows = "none" /\ ~imports[i].stored
                      /\ imports[i].status = "CANCELLED" =>
                           \/ imports[i].rows = "none" /\ ~imports[i].stored
                           \/ \E b \in Browsers : clicks[b].import = i /\ clicks[b].op \in {"wipe", "shred"}
    BY DEF NothingLeft
  <2>1. ImportGood(i)
    BY DEF ImportInductive
  <2> QED BY <2>1 DEF ImportGood
<1> QED BY <1>1, <1>2, <1>3, <1>4 DEF ImportsInvariant

\* The imports of a school: one runs at a time, its work is queued, the rows of a workbook are
\* applied at most once and nothing of it is left, although the views save a status they read
\* without a lock and messages come again.
THEOREM ImportsAddUp == ImportSpec => []ImportsInvariant
BY ImportInitHolds, ImportStep, ImportsHold, PTL DEF ImportSpec

-----------------------------------------------------------------------------
(* Rows of the calendar.                                                    *)

\* A semester is named by its year and its sequence.
LEMMA TermNames ==
  /\ \A t \in Terms : t[1] \in Years /\ t[2] \in {1, 2} /\ t = <<t[1], t[2]>>
  /\ \A y \in Years, k \in {1, 2} : <<y, k>> \in Terms
BY DEF Terms

\* What a type says of the rows of a book.
LEMMA BookRows ==
  ASSUME NEW b \in Book
  PROVE  /\ b.years \in [Years -> YearRow] /\ b.terms \in [Terms -> TermRow]
         /\ \A y \in Years : b.years[y] \in YearRow
         /\ \A t \in Terms : b.terms[t] \in TermRow
BY DEF Book

\* An empty row has dates, a row that is made from dates is UPCOMING.
LEMMA NewRows ==
  /\ NoRow \in YearRow /\ NoRow \in TermRow /\ ~Made(NoRow)
  /\ \A s \in Span : /\ Row(s) \in YearRow /\ Row(s) \in TermRow /\ Made(Row(s))
                     /\ Row(s).status = "UPCOMING" /\ Row(s).from = s.from /\ Row(s).to = s.to
<1>1. 0 \in Days
  BY CalendarBounds DEF Days
<1> QED BY <1>1 DEF NoRow, Row, YearRow, TermRow, Span, Made

\* A year becomes another row of the same book.
LEMMA YearPut ==
  ASSUME NEW b \in Book, NEW y \in Years, NEW row \in YearRow
  PROVE  LET c == [b EXCEPT !.years[y] = row] IN
         /\ c \in Book /\ c.terms = b.terms
         /\ \A k \in Years : c.years[k] = IF k = y THEN row ELSE b.years[k]
BY BookRows DEF Book

\* A semester becomes another row of the same book.
LEMMA TermPut ==
  ASSUME NEW b \in Book, NEW t \in Terms, NEW row \in TermRow
  PROVE  LET c == [b EXCEPT !.terms[t] = row] IN
         /\ c \in Book /\ c.years = b.years
         /\ \A u \in Terms : c.terms[u] = IF u = t THEN row ELSE b.terms[u]
BY BookRows DEF Book

\* All semesters become other rows.
LEMMA TermsPut ==
  ASSUME NEW b \in Book, NEW T \in [Terms -> TermRow]
  PROVE  LET c == [b EXCEPT !.terms = T] IN c \in Book /\ c.years = b.years /\ c.terms = T
BY DEF Book

\* All years become other rows.
LEMMA YearsPut ==
  ASSUME NEW b \in Book, NEW Y \in [Years -> YearRow]
  PROVE  LET c == [b EXCEPT !.years = Y] IN c \in Book /\ c.years = Y /\ c.terms = b.terms
BY DEF Book

\* The row of a semester before and after those of T were closed.
ClosedFrom(old, new, inT) ==
  /\ new \in TermRow /\ new.from = old.from /\ new.to = old.to
  /\ inT /\ old.status = "ACTIVE" => new.status = "CLOSED"
  /\ ~(inT /\ old.status = "ACTIVE") => new = old

\* ClosedTerms: ACTIVE semesters of T become CLOSED, and nothing else moves.
LEMMA ClosedRows ==
  ASSUME NEW b \in Book, NEW T
  PROVE  /\ ClosedTerms(b, T) \in Book /\ ClosedTerms(b, T).years = b.years
         /\ \A t \in Terms : ClosedFrom(b.terms[t], ClosedTerms(b, T).terms[t], t \in T)
<1> DEFINE new(t) == IF t \in T /\ b.terms[t].status = "ACTIVE"
                       THEN [b.terms[t] EXCEPT !.status = "CLOSED"] ELSE b.terms[t]
           rows == [t \in Terms |-> new(t)]
<1>1. ASSUME NEW t \in Terms PROVE ClosedFrom(b.terms[t], new(t), t \in T)
  <2>1. b.terms[t] \in TermRow
    BY BookRows
  <2> QED BY <2>1 DEF TermRow, ClosedFrom
<1>2. rows \in [Terms -> TermRow]
  BY <1>1 DEF ClosedFrom
<1>3. ClosedTerms(b, T) = [b EXCEPT !.terms = rows] /\ \A t \in Terms : rows[t] = new(t)
  BY DEF ClosedTerms
<1> HIDE DEF rows, new
<1>4. ClosedTerms(b, T) \in Book /\ ClosedTerms(b, T).years = b.years /\ ClosedTerms(b, T).terms = rows
  BY <1>2, <1>3, TermsPut
<1> QED BY <1>1, <1>3, <1>4

\* Closing semesters keeps a book good.
LEMMA ClosedGood ==
  ASSUME NEW b, GoodBook(b), NEW T
  PROVE  GoodBook(ClosedTerms(b, T)) /\ Rests(b, ClosedTerms(b, T))
<1> DEFINE c == ClosedTerms(b, T)
<1>1. /\ b \in Book /\ c \in Book /\ c.years = b.years
      /\ \A t \in Terms : ClosedFrom(b.terms[t], c.terms[t], t \in T)
  BY ClosedRows DEF GoodBook
<1> HIDE DEF c
<1>2. \A t \in Terms : /\ c.terms[t].from = b.terms[t].from /\ c.terms[t].to = b.terms[t].to
                       /\ Made(c.terms[t]) <=> Made(b.terms[t])
                       /\ ~Made(b.terms[t]) => c.terms[t] = b.terms[t]
                       /\ c.terms[t].status = "ACTIVE" => b.terms[t].status = "ACTIVE"
                       /\ b.terms[t].status = "CLOSED" => c.terms[t].status = "CLOSED"
  BY <1>1 DEF ClosedFrom, Made
<1>3. YearsInOrder(c)
  BY <1>1 DEF GoodBook, YearsInOrder
<1>4. TermsOfYears(c)
  BY <1>1, <1>2 DEF GoodBook, TermsOfYears
<1>5. OneCurrent(c)
  BY <1>1, <1>2 DEF GoodBook, OneCurrent
<1>6. TermsFit(c)
  BY <1>1, <1>2 DEF GoodBook, TermsFit, Inside, Apart
<1>7. Rests(b, c)
  BY <1>1, <1>2 DEF Rests
<1> QED BY <1>1, <1>3, <1>4, <1>5, <1>6, <1>7 DEF GoodBook, c

\* The dates of rows and their existence decide whether semesters fit.
LEMMA SameDates ==
  ASSUME NEW b, NEW c, TermsFit(b),
         \A y \in Years : c.years[y].from = b.years[y].from /\ c.years[y].to = b.years[y].to,
         \A t \in Terms : /\ c.terms[t].from = b.terms[t].from /\ c.terms[t].to = b.terms[t].to
                          /\ Made(c.terms[t]) => Made(b.terms[t])
  PROVE  TermsFit(c)
BY TermNames DEF TermsFit, Inside, Apart

\* The row of a year before and after the year y was activated.
ActivatedFrom(old, new, chosen) ==
  /\ new \in YearRow /\ new.from = old.from /\ new.to = old.to
  /\ chosen => new.status = "ACTIVE"
  /\ ~chosen /\ old.status = "ACTIVE" => new.status = "CLOSED"
  /\ ~chosen /\ old.status # "ACTIVE" => new = old

\* WithActiveYear: the year becomes ACTIVE and the one before it CLOSED with its semesters.
LEMMA ActiveYearRows ==
  ASSUME NEW b \in Book, NEW y
  PROVE  /\ WithActiveYear(b, y) \in Book
         /\ WithActiveYear(b, y).terms = ClosedTerms(b, Terms).terms
         /\ \A k \in Years : ActivatedFrom(b.years[k], WithActiveYear(b, y).years[k], k = y)
<1> DEFINE closed == ClosedTerms(b, Terms)
           new(k) == IF k = y THEN [b.years[k] EXCEPT !.status = "ACTIVE"]
                     ELSE IF b.years[k].status = "ACTIVE" THEN [b.years[k] EXCEPT !.status = "CLOSED"]
                     ELSE b.years[k]
           rows == [k \in Years |-> new(k)]
<1>1. ASSUME NEW k \in Years PROVE ActivatedFrom(b.years[k], new(k), k = y)
  <2>1. b.years[k] \in YearRow
    BY BookRows
  <2> QED BY <2>1 DEF YearRow, ActivatedFrom
<1>2. rows \in [Years -> YearRow]
  BY <1>1 DEF ActivatedFrom
<1>3. WithActiveYear(b, y) = [closed EXCEPT !.years = rows] /\ \A k \in Years : rows[k] = new(k)
  BY DEF WithActiveYear
<1>4. closed \in Book
  BY ClosedRows
<1> HIDE DEF closed, rows, new
<1>5. /\ WithActiveYear(b, y) \in Book /\ WithActiveYear(b, y).years = rows
      /\ WithActiveYear(b, y).terms = closed.terms
  BY <1>2, <1>3, <1>4, YearsPut
<1> QED BY <1>1, <1>3, <1>5 DEF closed

\* activate_year keeps a book good.
LEMMA ActiveYearGood ==
  ASSUME NEW b, GoodBook(b), NEW y \in Years, CanActivateYear(b, y)
  PROVE  /\ GoodBook(WithActiveYear(b, y)) /\ Rests(b, WithActiveYear(b, y))
         /\ WithActiveYear(b, y).years[y].status = "ACTIVE"
         /\ \A t \in Terms : /\ WithActiveYear(b, y).terms[t].status # "ACTIVE"
                             /\ WithActiveYear(b, y).terms[t].from = b.terms[t].from
                             /\ WithActiveYear(b, y).terms[t].to = b.terms[t].to
<1> DEFINE c == WithActiveYear(b, y)
<1>1. /\ b \in Book /\ c \in Book /\ b.years[y].status = "UPCOMING"
      /\ \A k \in Years : ActivatedFrom(b.years[k], c.years[k], k = y)
      /\ \A t \in Terms : ClosedFrom(b.terms[t], c.terms[t], TRUE)
  BY ActiveYearRows, ClosedRows DEF GoodBook, CanActivateYear
<1> HIDE DEF c
<1>2. \A k \in Years : /\ c.years[k].from = b.years[k].from /\ c.years[k].to = b.years[k].to
                       /\ Made(c.years[k]) <=> Made(b.years[k])
                       /\ c.years[k].status = "ACTIVE" <=> k = y
                       /\ b.years[k].status \in {"CLOSED", "ARCHIVED"} => c.years[k] = b.years[k]
  BY <1>1 DEF ActivatedFrom, Made
<1>3. \A t \in Terms : /\ c.terms[t].from = b.terms[t].from /\ c.terms[t].to = b.terms[t].to
                       /\ Made(c.terms[t]) <=> Made(b.terms[t])
                       /\ ~Made(b.terms[t]) => c.terms[t] = b.terms[t]
                       /\ c.terms[t].status # "ACTIVE"
                       /\ b.terms[t].status = "CLOSED" => c.terms[t].status = "CLOSED"
  BY <1>1 DEF ClosedFrom, Made
<1>4. YearsInOrder(c)
  BY <1>2 DEF GoodBook, YearsInOrder
<1>5. TermsOfYears(c)
  BY <1>2, <1>3, TermNames DEF GoodBook, TermsOfYears
<1>6. OneCurrent(c)
  BY <1>2, <1>3 DEF OneCurrent
<1>7. TermsFit(c)
  BY <1>2, <1>3, SameDates DEF GoodBook
<1>8. Rests(b, c)
  BY <1>2, <1>3 DEF Rests
<1> QED BY <1>1, <1>2, <1>3, <1>4, <1>5, <1>6, <1>7, <1>8 DEF GoodBook, c

\* activate_semester keeps a book good: the semester before it is closed.
LEMMA ActiveTermGood ==
  ASSUME NEW b, GoodBook(b), NEW t \in Terms, CanActivateTerm(b, t)
  PROVE  /\ GoodBook(WithActiveTerm(b, t)) /\ Rests(b, WithActiveTerm(b, t))
         /\ WithActiveTerm(b, t).years = b.years
         /\ WithActiveTerm(b, t).terms[t].status = "ACTIVE"
         /\ WithActiveTerm(b, t).terms[t].from = b.terms[t].from
         /\ WithActiveTerm(b, t).terms[t].to = b.terms[t].to
<1> DEFINE closed == ClosedTerms(b, Terms)
           row == [closed.terms[t] EXCEPT !.status = "ACTIVE"]
           c == WithActiveTerm(b, t)
<1>1. /\ b \in Book /\ closed \in Book /\ closed.years = b.years
      /\ b.terms[t].status = "UPCOMING" /\ b.years[t[1]].status = "ACTIVE"
      /\ \A u \in Terms : ClosedFrom(b.terms[u], closed.terms[u], TRUE)
  BY ClosedRows DEF GoodBook, CanActivateTerm
<1>2. c = [closed EXCEPT !.terms[t] = row]
  BY <1>1, BookRows DEF WithActiveTerm
<1> HIDE DEF closed
<1>3. row \in TermRow /\ row.status = "ACTIVE" /\ row.from = b.terms[t].from /\ row.to = b.terms[t].to
  BY <1>1 DEF ClosedFrom, TermRow
<1> HIDE DEF row
<1>4. c \in Book /\ c.years = b.years /\ \A u \in Terms : c.terms[u] = IF u = t THEN row ELSE closed.terms[u]
  BY <1>1, <1>2, <1>3, TermPut
<1> HIDE DEF c
<1>5. \A u \in Terms : /\ c.terms[u].from = b.terms[u].from /\ c.terms[u].to = b.terms[u].to
                       /\ Made(c.terms[u]) <=> Made(b.terms[u])
                       /\ ~Made(b.terms[u]) => c.terms[u] = b.terms[u]
                       /\ c.terms[u].status = "ACTIVE" <=> u = t
                       /\ b.terms[u].status = "CLOSED" => c.terms[u].status = "CLOSED"
  BY <1>1, <1>3, <1>4 DEF ClosedFrom, Made
<1>6. YearsInOrder(c)
  BY <1>4 DEF GoodBook, YearsInOrder
<1>7. TermsOfYears(c)
  BY <1>4, <1>5 DEF GoodBook, TermsOfYears
<1>8. OneCurrent(c)
  BY <1>1, <1>4, <1>5 DEF GoodBook, OneCurrent
<1>9. TermsFit(c)
  BY <1>4, <1>5, SameDates DEF GoodBook
<1>10. Rests(b, c)
  BY <1>4, <1>5 DEF Rests
<1> QED BY <1>4, <1>5, <1>6, <1>7, <1>8, <1>9, <1>10 DEF GoodBook, c

-----------------------------------------------------------------------------
(* What changes the rows of a book.                                         *)

\* create_year: ids are given in their order, so that the next one is free.
LEMMA NextIsFree ==
  ASSUME NEW b, GoodBook(b)
  PROVE  /\ NextYear(b) \in Nat \ {0}
         /\ \A k \in Years : Made(b.years[k]) <=> k < NextYear(b)
<1> DEFINE E == ExistingYears(b)
<1>1. E \subseteq Years /\ \A k \in Years : k \in E <=> Made(b.years[k])
  BY DEF ExistingYears, Made
<1>2. MaxYears \in Nat /\ Years = 1..MaxYears
  BY CalendarBounds DEF Years
<1>3. IsFiniteSet(E) /\ Cardinality(E) \in Nat
  <2>1. IsFiniteSet(1..MaxYears)
    BY <1>2, FS_Interval
  <2>2. IsFiniteSet(E)
    BY <1>1, <1>2, <2>1, FS_Subset
  <2> QED BY <2>2, FS_CardinalityType
<1>4. ASSUME NEW k \in Years, k \in E PROVE k <= Cardinality(E)
  <2>1. 1..k \subseteq E
    BY <1>1, <1>2, <1>4 DEF GoodBook, YearsInOrder
  <2>2. Cardinality(1..k) = k
    BY <1>2, FS_Interval
  <2> QED BY <1>3, <2>1, <2>2, FS_Subset
<1>5. ASSUME NEW k \in Years, k \notin E PROVE Cardinality(E) < k
  <2>1. E \subseteq 1..(k - 1)
    BY <1>1, <1>2, <1>5 DEF GoodBook, YearsInOrder
  <2>2. IsFiniteSet(1..(k - 1)) /\ Cardinality(1..(k - 1)) = k - 1
    BY <1>2, FS_Interval
  <2>3. Cardinality(E) <= k - 1
    BY <2>1, <2>2, FS_Subset
  <2> QED BY <1>2, <1>3, <2>3
<1>6. NextYear(b) = Cardinality(E) + 1
  BY DEF NextYear
<1> HIDE DEF E
<1>7. \A k \in Years : k \in E <=> k < NextYear(b)
  BY <1>2, <1>3, <1>4, <1>5, <1>6
<1> QED BY <1>1, <1>3, <1>6, <1>7

\* create_year adds a year without semesters.
LEMMA NewYearGood ==
  ASSUME NEW b, GoodBook(b), NEW s \in Span, NextYear(b) \in Years
  PROVE  /\ GoodBook(WithYear(b, s)) /\ Rests(b, WithYear(b, s))
         /\ ~Made(b.years[NextYear(b)]) /\ WithYear(b, s).terms = b.terms
         /\ \A k \in Years : WithYear(b, s).years[k] = IF k = NextYear(b) THEN Row(s) ELSE b.years[k]
<1> DEFINE c == WithYear(b, s)
<1>1. PICK y \in Years : y = NextYear(b)
  OBVIOUS
<1>2. /\ b \in Book /\ c \in Book /\ c.terms = b.terms
      /\ \A k \in Years : c.years[k] = IF k = y THEN Row(s) ELSE b.years[k]
  BY <1>1, NewRows, YearPut DEF GoodBook, WithYear
<1>3. \A k \in Years : Made(b.years[k]) <=> k < y
  BY <1>1, NextIsFree
<1>4. y \in Nat /\ Years \subseteq Nat /\ ~Made(b.years[y])
  BY <1>3, CalendarBounds DEF Years
<1> HIDE DEF c
<1>5. Made(Row(s)) /\ Row(s).status = "UPCOMING"
  BY NewRows
<1>6. YearsInOrder(c)
  BY <1>2, <1>3, <1>4, <1>5 DEF YearsInOrder
<1>7. \A t \in Terms : Made(c.terms[t]) => c.terms[t] = b.terms[t] /\ c.years[t[1]] = b.years[t[1]]
  BY <1>2, <1>4, TermNames DEF GoodBook, TermsOfYears
<1>8. TermsOfYears(c)
  BY <1>2, <1>7 DEF GoodBook, TermsOfYears
<1>9. OneCurrent(c)
  <2>1. \A k \in Years : c.years[k].status = "ACTIVE" => k # y /\ b.years[k].status = "ACTIVE"
    BY <1>2, <1>5
  <2>2. \A t \in Terms : c.terms[t].status = "ACTIVE" => Made(c.terms[t])
    BY DEF Made
  <2> QED BY <1>2, <1>7, <2>1, <2>2 DEF GoodBook, OneCurrent
<1>10. TermsFit(c)
  BY <1>2, <1>7 DEF GoodBook, TermsFit
<1>11. Rests(b, c)
  BY <1>2, <1>4 DEF Rests, Made
<1> QED BY <1>1, <1>2, <1>4, <1>6, <1>8, <1>9, <1>10, <1>11 DEF GoodBook, c

\* A book in which only dates of rows that are there have moved.
LEMMA MovedGood ==
  ASSUME NEW b, GoodBook(b), NEW c \in Book, TermsFit(c),
         \A y \in Years : c.years[y].status = b.years[y].status,
         \A t \in Terms : /\ c.terms[t].status = b.terms[t].status
                          /\ ~Made(b.terms[t]) => c.terms[t] = b.terms[t]
  PROVE  GoodBook(c) /\ Rests(b, c)
<1>1. YearsInOrder(c)
  BY DEF GoodBook, YearsInOrder, Made
<1>2. TermsOfYears(c)
  BY TermNames DEF GoodBook, TermsOfYears, Made
<1>3. OneCurrent(c)
  BY TermNames DEF GoodBook, OneCurrent
<1>4. Rests(b, c)
  BY DEF Rests
<1> QED BY <1>1, <1>2, <1>3, <1>4 DEF GoodBook

\* Dates of a row are numbers.
LEMMA DatesAreNumbers ==
  /\ Days \subseteq Int
  /\ \A b \in Book : /\ \A y \in Years : b.years[y].from \in Int /\ b.years[y].to \in Int
                     /\ \A t \in Terms : b.terms[t].from \in Int /\ b.terms[t].to \in Int
  /\ \A s \in Span : s.from \in Int /\ s.to \in Int
<1>1. Days \subseteq Int
  BY CalendarBounds DEF Days
<1> QED BY <1>1, BookRows DEF YearRow, TermRow, Span

\* update_year: the semesters of the year stay inside it.
LEMMA UpdatedYearGood ==
  ASSUME NEW b, GoodBook(b), NEW y \in Years, NEW s \in Span,
         \A t \in TermsOf(b, y) : s.from <= b.terms[t].from /\ b.terms[t].to <= s.to
  PROVE  LET c == [b EXCEPT !.years[y].from = s.from, !.years[y].to = s.to] IN
         GoodBook(c) /\ Rests(b, c)
<1> DEFINE row == [b.years[y] EXCEPT !.from = s.from, !.to = s.to]
           c == [b EXCEPT !.years[y] = row]
<1>1. b \in Book /\ b.years[y] \in YearRow
  BY BookRows DEF GoodBook
<1>2. c = [b EXCEPT !.years[y].from = s.from, !.years[y].to = s.to]
  BY <1>1, BookRows DEF Book
<1>3. row \in YearRow /\ row.status = b.years[y].status /\ row.from = s.from /\ row.to = s.to
  BY <1>1 DEF YearRow, Span
<1> HIDE DEF row
<1>4. c \in Book /\ c.terms = b.terms /\ \A k \in Years : c.years[k] = IF k = y THEN row ELSE b.years[k]
  BY <1>1, <1>3, YearPut
<1> HIDE DEF c
<1>5. \A t \in Terms : Made(b.terms[t]) => Inside(c.years[t[1]], b.terms[t])
  BY <1>3, <1>4, TermNames DEF GoodBook, TermsFit, TermsOf, Inside, Made
<1>6. TermsFit(c)
  BY <1>4, <1>5 DEF GoodBook, TermsFit
<1> QED BY <1>2, <1>3, <1>4, <1>6, MovedGood

\* TermFits: the dates lie in the year and apart from its other semesters.
LEMMA FitsApart ==
  ASSUME NEW b \in Book, NEW t \in Terms, NEW s \in Span, TermFits(b, t, s)
  PROVE  /\ b.years[t[1]].from <= s.from /\ s.to <= b.years[t[1]].to
         /\ \A u \in Terms : u # t /\ u[1] = t[1] /\ Made(b.terms[u])
              => Apart(b.terms[u], s) /\ Apart(s, b.terms[u])
<1>1. ASSUME NEW u \in Terms, u # t, u[1] = t[1], Made(b.terms[u])
      PROVE  Apart(b.terms[u], s) /\ Apart(s, b.terms[u])
  <2>1. ~Overlap(b.terms[u], s)
    BY <1>1 DEF TermFits, TermsOf, Made
  <2> QED BY <2>1, DatesAreNumbers DEF Overlap, Apart
<1> QED BY <1>1 DEF TermFits

\* update_semester
LEMMA UpdatedTermGood ==
  ASSUME NEW b, GoodBook(b), NEW t \in Terms, NEW s \in Span, b.terms[t] # NoRow, TermFits(b, t, s)
  PROVE  LET c == [b EXCEPT !.terms[t].from = s.from, !.terms[t].to = s.to] IN
         GoodBook(c) /\ Rests(b, c)
<1> DEFINE row == [b.terms[t] EXCEPT !.from = s.from, !.to = s.to]
           c == [b EXCEPT !.terms[t] = row]
<1>1. b \in Book /\ b.terms[t] \in TermRow /\ Made(b.terms[t])
  BY BookRows DEF GoodBook, TermsOfYears
<1>2. c = [b EXCEPT !.terms[t].from = s.from, !.terms[t].to = s.to]
  BY <1>1, BookRows DEF Book
<1>3. row \in TermRow /\ row.status = b.terms[t].status /\ row.from = s.from /\ row.to = s.to
  BY <1>1 DEF TermRow, Span
<1> HIDE DEF row
<1>4. c \in Book /\ c.years = b.years /\ \A u \in Terms : c.terms[u] = IF u = t THEN row ELSE b.terms[u]
  BY <1>1, <1>3, TermPut
<1> HIDE DEF c
<1>5. /\ b.years[t[1]].from <= row.from /\ row.to <= b.years[t[1]].to
      /\ \A u \in Terms : u # t /\ u[1] = t[1] /\ Made(b.terms[u])
           => Apart(b.terms[u], row) /\ Apart(row, b.terms[u])
  BY <1>1, <1>3, FitsApart DEF Apart
<1>6. TermsFit(c)
  BY <1>1, <1>3, <1>4, <1>5 DEF GoodBook, TermsFit, Inside, Made
<1> QED BY <1>1, <1>2, <1>3, <1>4, <1>6, MovedGood

\* create_semester
LEMMA NewTermGood ==
  ASSUME NEW b, GoodBook(b), NEW t \in Terms, NEW s \in Span,
         Made(b.years[t[1]]), b.terms[t] = NoRow, TermFits(b, t, s)
  PROVE  LET c == [b EXCEPT !.terms[t] = Row(s)] IN
         GoodBook(c) /\ Rests(b, c) /\ c.years = b.years /\ c.terms[t] = Row(s)
<1> DEFINE c == [b EXCEPT !.terms[t] = Row(s)]
<1>1. PICK row \in TermRow : row = Row(s) /\ Made(row) /\ row.status = "UPCOMING"
                               /\ row.from = s.from /\ row.to = s.to
  BY NewRows
<1>2. b \in Book /\ ~Made(b.terms[t])
  BY NewRows DEF GoodBook
<1>3. c \in Book /\ c.years = b.years /\ \A u \in Terms : c.terms[u] = IF u = t THEN row ELSE b.terms[u]
  BY <1>1, <1>2, TermPut
<1> HIDE DEF c
<1>4. /\ b.years[t[1]].from <= row.from /\ row.to <= b.years[t[1]].to
      /\ \A u \in Terms : u # t /\ u[1] = t[1] /\ Made(b.terms[u])
           => Apart(b.terms[u], row) /\ Apart(row, b.terms[u])
  BY <1>1, <1>2, FitsApart DEF Apart
<1>5. YearsInOrder(c)
  BY <1>3 DEF GoodBook, YearsInOrder
<1>6. TermsOfYears(c)
  BY <1>1, <1>3 DEF GoodBook, TermsOfYears
<1>7. OneCurrent(c)
  BY <1>1, <1>3 DEF GoodBook, OneCurrent
<1>8. TermsFit(c)
  BY <1>1, <1>2, <1>3, <1>4 DEF GoodBook, TermsFit, Inside
<1>9. Rests(b, c)
  BY <1>2, <1>3, NewRows DEF Rests, GoodBook, TermsOfYears, NoRow
<1> QED BY <1>1, <1>3, <1>5, <1>6, <1>7, <1>8, <1>9 DEF GoodBook, c

-----------------------------------------------------------------------------
(* The official calendar.                                                   *)

\* What the checks of a READY calendar give.
LEMMA ReadyDates ==
  ASSUME NEW c \in Calendar
  PROVE  c.span \in Span /\ \A k \in {1, 2} : c.terms[k] \in Span
BY DEF Calendar

\* Its two semesters lie in it and apart.
LEMMA ReadyTerms ==
  ASSUME NEW c \in Calendar, Consistent(c)
  PROVE  /\ \A k \in {1, 2} : c.span.from <= c.terms[k].from /\ c.terms[k].to <= c.span.to
         /\ \A j, k \in {1, 2} : j # k => Apart(c.terms[j], c.terms[k])
BY ReadyDates, DatesAreNumbers DEF Consistent, Apart

\* _align_future_boundaries: the year and its semesters take the dates of the calendar.
LEMMA AlignedGood ==
  ASSUME NEW b, GoodBook(b), NEW y \in Years, Made(b.years[y]), NEW c \in Calendar, Consistent(c)
  PROVE  /\ GoodBook(Aligned(b, y, c)) /\ Rests(b, Aligned(b, y, c))
         /\ \A k \in Years : /\ Aligned(b, y, c).years[k].status = b.years[k].status
                             /\ Aligned(b, y, c).years[k].from =
                                  IF k = y THEN c.span.from ELSE b.years[k].from
<1> DEFINE row == [b.years[y] EXCEPT !.from = c.span.from, !.to = c.span.to]
           new(t) == IF t \in TermsOf(b, y)
                       THEN [b.terms[t] EXCEPT !.from = c.terms[t[2]].from, !.to = c.terms[t[2]].to]
                       ELSE b.terms[t]
           rows == [t \in Terms |-> new(t)]
           dated == [b EXCEPT !.years[y] = row]
           d == Aligned(b, y, c)
<1>1. b \in Book /\ b.years[y] \in YearRow /\ c.span \in Span
  BY BookRows, ReadyDates DEF GoodBook
<1>2. row \in YearRow /\ row.status = b.years[y].status /\ row.from = c.span.from /\ row.to = c.span.to
  BY <1>1 DEF YearRow, Span
<1>3. \A t \in Terms : /\ new(t) \in TermRow /\ new(t).status = b.terms[t].status
                       /\ t[1] = y /\ Made(b.terms[t]) =>
                            new(t).from = c.terms[t[2]].from /\ new(t).to = c.terms[t[2]].to
                       /\ ~(t[1] = y /\ Made(b.terms[t])) => new(t) = b.terms[t]
  <2>1. SUFFICES ASSUME NEW t \in Terms
                 PROVE  /\ new(t) \in TermRow /\ new(t).status = b.terms[t].status
                        /\ t[1] = y /\ Made(b.terms[t]) =>
                             new(t).from = c.terms[t[2]].from /\ new(t).to = c.terms[t[2]].to
                        /\ ~(t[1] = y /\ Made(b.terms[t])) => new(t) = b.terms[t]
    OBVIOUS
  <2>2. b.terms[t] \in TermRow /\ c.terms[t[2]] \in Span
    BY <1>1, BookRows, TermNames, ReadyDates
  <2> QED BY <2>2 DEF TermsOf, TermRow, Span, Made
<1>4. rows \in [Terms -> TermRow] /\ \A t \in Terms : rows[t] = new(t)
  BY <1>3
<1>5. d = [dated EXCEPT !.terms = rows]
  BY <1>1, BookRows DEF Aligned, Book
<1> HIDE DEF row, new, rows
<1>6. dated \in Book /\ \A k \in Years : dated.years[k] = IF k = y THEN row ELSE b.years[k]
  BY <1>1, <1>2, YearPut
<1> HIDE DEF dated
<1>7. d \in Book /\ d.years = dated.years /\ d.terms = rows
  BY <1>4, <1>5, <1>6, TermsPut
<1> HIDE DEF d
<1>8. \A t \in Terms : /\ d.terms[t].status = b.terms[t].status
                       /\ Made(d.terms[t]) <=> Made(b.terms[t])
                       /\ ~(t[1] = y /\ Made(b.terms[t])) => d.terms[t] = b.terms[t]
                       /\ t[1] = y /\ Made(b.terms[t]) =>
                            d.terms[t].from = c.terms[t[2]].from /\ d.terms[t].to = c.terms[t[2]].to
  BY <1>3, <1>4, <1>7 DEF Made
<1>9. TermsFit(d)
  <2>1. ASSUME NEW t \in Terms, Made(d.terms[t]) PROVE Inside(d.years[t[1]], d.terms[t])
    <3>1. CASE t[1] = y
      BY <1>2, <1>6, <1>7, <1>8, <2>1, <3>1, TermNames, ReadyTerms DEF Inside
    <3>2. CASE t[1] # y
      BY <1>6, <1>7, <1>8, <2>1, <3>2, TermNames DEF GoodBook, TermsFit
    <3> QED BY <3>1, <3>2
  <2>2. ASSUME NEW t \in Terms, NEW u \in Terms, t # u, t[1] = u[1], Made(d.terms[t]), Made(d.terms[u])
        PROVE  Apart(d.terms[t], d.terms[u])
    <3>1. CASE t[1] = y
      <4>1. t[2] # u[2] /\ t[2] \in {1, 2} /\ u[2] \in {1, 2}
        BY <2>2, TermNames
      <4> QED BY <1>8, <2>2, <3>1, <4>1, ReadyTerms DEF Apart
    <3>2. CASE t[1] # y
      BY <1>8, <2>2, <3>2 DEF GoodBook, TermsFit
    <3> QED BY <3>1, <3>2
  <2> QED BY <2>1, <2>2 DEF TermsFit
<1>10. GoodBook(d) /\ Rests(b, d)
  BY <1>2, <1>6, <1>7, <1>8, <1>9, MovedGood
<1> QED BY <1>2, <1>6, <1>7, <1>10 DEF d

\* Books agree in their years when only semesters were added.
LEMMA WithTermGood ==
  ASSUME NEW acc, acc \in [ok: BOOLEAN, b: Book], GoodBook(acc.b),
         NEW y \in Years, Made(acc.b.years[y]), NEW c \in Calendar, NEW k \in {1, 2}
  PROVE  /\ WithTerm(acc, y, c, k) \in [ok: BOOLEAN, b: Book]
         /\ GoodBook(WithTerm(acc, y, c, k).b) /\ Rests(acc.b, WithTerm(acc, y, c, k).b)
         /\ WithTerm(acc, y, c, k).b.years = acc.b.years
<1> DEFINE t == <<y, k>>
           made == [acc.b EXCEPT !.terms[t] = Row(c.terms[k])]
<1>1. t \in Terms /\ t[1] = y /\ c.terms[k] \in Span
  BY TermNames, ReadyDates
<1>2. Rests(acc.b, acc.b)
  BY DEF Rests
<1>3. CASE ~acc.ok \/ acc.b.terms[t] # NoRow
  BY <1>2, <1>3 DEF WithTerm
<1>4. CASE acc.ok /\ acc.b.terms[t] = NoRow /\ TermFits(acc.b, t, c.terms[k])
  <2>1. GoodBook(made) /\ Rests(acc.b, made) /\ made.years = acc.b.years
    BY <1>1, <1>4, NewTermGood
  <2>2. WithTerm(acc, y, c, k) = [acc EXCEPT !.b = made]
    BY <1>4 DEF WithTerm
  <2> HIDE DEF made
  <2> QED BY <2>1, <2>2 DEF GoodBook
<1>5. CASE acc.ok /\ acc.b.terms[t] = NoRow /\ ~TermFits(acc.b, t, c.terms[k])
  BY <1>2, <1>5 DEF WithTerm
<1> QED BY <1>3, <1>4, <1>5

\* What rests in two steps rests.
LEMMA RestsOn ==
  ASSUME NEW b, NEW c, NEW d, Rests(b, c), Rests(c, d)
  PROVE  Rests(b, d)
BY DEF Rests

\* The semesters that are missing in a year are added, or the book stays good.
LEMMA WithTermsGood ==
  ASSUME NEW b, GoodBook(b), NEW y \in Years, Made(b.years[y]), NEW c \in Calendar
  PROVE  /\ WithTerms(b, y, c) \in [ok: BOOLEAN, b: Book]
         /\ GoodBook(WithTerms(b, y, c).b) /\ Rests(b, WithTerms(b, y, c).b)
         /\ WithTerms(b, y, c).b.years = b.years
<1> DEFINE none == [ok |-> TRUE, b |-> b]
           one == WithTerm(none, y, c, 1)
           two == WithTerm(one, y, c, 2)
<1>1. none \in [ok: BOOLEAN, b: Book] /\ none.b = b
  BY DEF GoodBook
<1> HIDE DEF none
<1>2. one \in [ok: BOOLEAN, b: Book] /\ GoodBook(one.b) /\ Rests(b, one.b) /\ one.b.years = b.years
  BY <1>1, WithTermGood
<1> HIDE DEF one
<1>3. two \in [ok: BOOLEAN, b: Book] /\ GoodBook(two.b) /\ Rests(one.b, two.b) /\ two.b.years = one.b.years
  BY <1>2, WithTermGood
<1>4. WithTerms(b, y, c) = two
  BY DEF WithTerms, one, none
<1> HIDE DEF two
<1> QED BY <1>2, <1>3, <1>4, RestsOn

\* Of a set that has no two members all members are the same.
LEMMA NoTwo ==
  ASSUME NEW S, IsFiniteSet(S), ~(Cardinality(S) > 1), NEW x \in S, NEW y \in S
  PROVE  x = y
<1>1. Cardinality(S) \in Nat /\ Cardinality(S \ {x}) = Cardinality(S) - 1 /\ IsFiniteSet(S \ {x})
  BY FS_RemoveElement, FS_CardinalityType
<1>2. Cardinality(S \ {x}) \in Nat
  BY <1>1, FS_CardinalityType
<1>3. Cardinality(S \ {x}) = 0
  BY <1>1, <1>2
<1> QED BY <1>1, <1>3, FS_EmptySet

\* The years of the school are finitely many.
LEMMA YearsFinite == IsFiniteSet(Years)
BY CalendarBounds, FS_Interval DEF Years

\* A year of the calendar c that can take its days.
Adopted(b, c) == \E y \in Years : YearsStarting(b, c) = {y} /\ b.years[y].status \in {"UPCOMING", "ACTIVE"}

\* _ensure_year: a calendar that is not rejected has its year, one alone and not closed.
LEMMA EnsuredGood ==
  ASSUME NEW b, GoodBook(b), NEW c \in Calendar, Consistent(c)
  PROVE  /\ Ensured(b, c) \in [ok: BOOLEAN, b: Book]
         /\ GoodBook(Ensured(b, c).b) /\ Rests(b, Ensured(b, c).b)
         /\ Ensured(b, c).ok => Adopted(Ensured(b, c).b, c)
<1> DEFINE rejected == [ok |-> FALSE, b |-> b]
           found == YearsStarting(b, c)
           r == Ensured(b, c)
<1>1. rejected \in [ok: BOOLEAN, b: Book] /\ rejected.b = b /\ rejected.ok = FALSE /\ Rests(b, b)
  BY DEF GoodBook, Rests
<1>2. found \subseteq Years /\ \A k \in Years : k \in found <=> Made(b.years[k]) /\ b.years[k].from = c.span.from
  BY DEF YearsStarting, ExistingYears, Made
<1>3. IsFiniteSet(found)
  BY <1>2, YearsFinite, FS_Subset
<1>4. CASE r = rejected
  BY <1>1, <1>4
<1>5. CASE r # rejected /\ found # {}
  <2>1. PICK y \in Years : y = CHOOSE k \in found : TRUE
    BY <1>2, <1>5
  <2>2. y \in found
    BY <1>5, <2>1
  <2> DEFINE d == Aligned(b, y, c)
  <2>3. /\ ~(Cardinality(found) > 1) /\ b.years[y].status \notin {"CLOSED", "ARCHIVED"}
        /\ r = WithTerms(d, y, c)
    BY <1>5, <2>1 DEF Ensured
  <2>4. Made(b.years[y]) /\ b.years[y].status \in {"UPCOMING", "ACTIVE"}
    BY <1>2, <2>2, <2>3, BookRows DEF GoodBook, YearRow, Made
  <2>5. /\ GoodBook(d) /\ Rests(b, d)
        /\ \A k \in Years : /\ d.years[k].status = b.years[k].status
                            /\ d.years[k].from = IF k = y THEN c.span.from ELSE b.years[k].from
    BY <2>4, AlignedGood
  <2> HIDE DEF d
  <2>6. Made(d.years[y])
    BY <2>4, <2>5 DEF Made
  <2>7. r \in [ok: BOOLEAN, b: Book] /\ GoodBook(r.b) /\ Rests(d, r.b) /\ r.b.years = d.years
    BY <2>3, <2>5, <2>6, WithTermsGood
  <2> HIDE DEF r
  <2>8. YearsStarting(r.b, c) = {y}
    <3>1. \A k \in found : k = y
      BY <1>3, <2>2, <2>3, NoTwo
    <3>2. \A k \in Years : Made(r.b.years[k]) /\ r.b.years[k].from = c.span.from <=> k = y
      BY <1>2, <2>2, <2>5, <2>7, <3>1 DEF Made
    <3> QED BY <3>2 DEF YearsStarting, ExistingYears, Made
  <2> QED BY <2>4, <2>5, <2>7, <2>8, RestsOn DEF Adopted, r
<1>6. CASE r # rejected /\ found = {}
  <2>1. PICK y : y = NextYear(b)
    OBVIOUS
  <2> DEFINE d == WithYear(b, c.span)
  <2>2. y \in Years /\ r = WithTerms(d, y, c)
    BY <1>6, <2>1 DEF Ensured
  <2>3. /\ GoodBook(d) /\ Rests(b, d)
        /\ \A k \in Years : d.years[k] = IF k = y THEN Row(c.span) ELSE b.years[k]
    BY <2>1, <2>2, NewYearGood, ReadyDates
  <2> HIDE DEF d
  <2>4. Made(d.years[y]) /\ d.years[y].status = "UPCOMING" /\ d.years[y].from = c.span.from
    BY <2>2, <2>3, NewRows, ReadyDates
  <2>5. r \in [ok: BOOLEAN, b: Book] /\ GoodBook(r.b) /\ Rests(d, r.b) /\ r.b.years = d.years
    BY <2>2, <2>3, <2>4, WithTermsGood
  <2> HIDE DEF r
  <2>6. YearsStarting(r.b, c) = {y}
    <3>1. \A k \in Years : Made(r.b.years[k]) /\ r.b.years[k].from = c.span.from <=> k = y
      BY <1>2, <1>6, <2>2, <2>3, <2>4, <2>5
    <3> QED BY <2>2, <3>1 DEF YearsStarting, ExistingYears, Made
  <2> QED BY <2>2, <2>3, <2>4, <2>5, <2>6, RestsOn DEF Adopted, r
<1> QED BY <1>4, <1>5, <1>6

\* The calendars of a snapshot that are READY are consistent.
LEMMA SourceCalendars ==
  ASSUME source \in Snapshots
  PROVE  /\ Len(source) \in Nat /\ DOMAIN source = 1..Len(source)
         /\ \A i \in 1..Len(source) : source[i] \in Calendar /\ (source[i].ready => Consistent(source[i]))
<1>1. source \in Seq(Calendar)
  BY SnapshotsAreCalendars
<1> QED BY <1>1, ReadyIsConsistent

\* What the loop over the snapshot has reached.
Reached(b, acc) == acc \in [ok: BOOLEAN, b: Book] /\ GoodBook(acc.b) /\ Rests(b, acc.b)

\* One turn of the loop.
LEMMA AdvanceGood ==
  ASSUME NEW b, GoodBook(b), NEW acc, Reached(b, acc), NEW c \in Calendar, c.ready => Consistent(c)
  PROVE  Reached(b, Advance(acc, c))
<1>1. CASE ~acc.ok \/ ~c.ready \/ c.span.to < today
  BY <1>1 DEF Advance
<1>2. CASE ~(~acc.ok \/ ~c.ready \/ c.span.to < today)
  <2>1. Advance(acc, c) = Ensured(acc.b, c)
    BY <1>2 DEF Advance
  <2>2. /\ Ensured(acc.b, c) \in [ok: BOOLEAN, b: Book]
        /\ GoodBook(Ensured(acc.b, c).b) /\ Rests(acc.b, Ensured(acc.b, c).b)
    BY <1>2, EnsuredGood DEF Reached
  <2> QED BY <2>1, <2>2, RestsOn DEF Reached
<1> QED BY <1>1, <1>2

\* The function of the first n turns.
Turns(b, n, f) ==
  f = [i \in 0..n |-> IF i = 0 THEN [ok |-> TRUE, b |-> b] ELSE Advance(f[i - 1], source[i])]

\* It exists: a least number of turns without one would have one before it.
LEMMA TurnsExist ==
  ASSUME NEW b, NEW n \in Nat
  PROVE  \E f : Turns(b, n, f)
<1> DEFINE bad == {k \in Nat : ~\E f : Turns(b, k, f)}
<1>1. SUFFICES ASSUME bad # {} PROVE FALSE
  OBVIOUS
<1>2. PICK k \in bad : \A j \in bad : k <= j
  BY <1>1, LeastOf
<1>3. CASE k = 0
  <2> DEFINE f == [i \in 0..0 |-> [ok |-> TRUE, b |-> b]]
  <2>1. Turns(b, 0, f)
    BY DEF Turns
  <2> QED BY <1>3, <2>1
<1>4. CASE k # 0
  <2>1. k - 1 \in Nat /\ k - 1 \notin bad
    BY <1>2, <1>4
  <2>2. PICK g : Turns(b, k - 1, g)
    BY <2>1
  <2> DEFINE f == [i \in 0..k |-> IF i = k THEN Advance(g[k - 1], source[k]) ELSE g[i]]
  <2>3. \A i \in 0..(k - 1) : g[i] = IF i = 0 THEN [ok |-> TRUE, b |-> b] ELSE Advance(g[i - 1], source[i])
    BY <2>2 DEF Turns
  <2>4. \A i \in 0..k : f[i] = IF i = 0 THEN [ok |-> TRUE, b |-> b] ELSE Advance(f[i - 1], source[i])
    <3>1. TAKE i \in 0..k
    <3>2. CASE i = k
      BY <1>4, <2>1, <3>2
    <3>3. CASE i # k
      <4>1. i \in 0..(k - 1) /\ f[i] = g[i] /\ (i # 0 => i - 1 \in 0..k /\ f[i - 1] = g[i - 1])
        BY <2>1, <3>3
      <4> HIDE DEF f
      <4> QED BY <2>3, <4>1
    <3> QED BY <3>2, <3>3
  <2>5. f = [i \in 0..k |-> f[i]]
    OBVIOUS
  <2> HIDE DEF f
  <2>6. Turns(b, k, f)
    BY <2>4, <2>5 DEF Turns
  <2> QED BY <2>6
<1> QED BY <1>3, <1>4

\* apply_school_calendar: the loop leaves a good book, whatever it rejected on its way.
LEMMA AllEnsuredGood ==
  ASSUME NEW b, GoodBook(b), source \in Snapshots
  PROVE  Reached(b, AllEnsured(b))
<1> DEFINE n == Len(source)
           f == CHOOSE g : Turns(b, n, g)
<1>1. n \in Nat /\ Turns(b, n, f)
  BY SourceCalendars, TurnsExist
<1>2. AllEnsured(b) = f[n]
  BY DEF AllEnsured, Turns
<1> HIDE DEF f
<1>3. \A i \in 0..n : f[i] = IF i = 0 THEN [ok |-> TRUE, b |-> b] ELSE Advance(f[i - 1], source[i])
  BY <1>1 DEF Turns
<1> DEFINE bad == {k \in 0..n : ~Reached(b, f[k])}
<1>4. SUFFICES ASSUME bad # {} PROVE FALSE
  BY <1>1, <1>2
<1>5. bad \in SUBSET Nat
  BY <1>1
<1>6. PICK k \in bad : \A j \in bad : k <= j
  BY <1>4, <1>5, LeastOf
<1>7. k # 0
  <2>1. Reached(b, [ok |-> TRUE, b |-> b])
    BY DEF Reached, GoodBook, Rests
  <2> QED BY <1>1, <1>3, <1>6, <2>1
<1>8. k \in 1..n /\ k - 1 \in 0..n /\ k - 1 \notin bad
  BY <1>1, <1>6, <1>7
<1>9. Reached(b, f[k - 1]) /\ f[k] = Advance(f[k - 1], source[k])
  BY <1>3, <1>6, <1>7, <1>8
<1>10. source[k] \in Calendar /\ (source[k].ready => Consistent(source[k]))
  BY <1>8, SourceCalendars
<1>11. Reached(b, f[k])
  BY <1>9, <1>10, AdvanceGood
<1> QED BY <1>6, <1>11

\* _close_ended_semesters: what is ACTIVE afterwards is not over.
LEMMA EndedGood ==
  ASSUME NEW b, GoodBook(b), today \in Days
  PROVE  /\ GoodBook(EndedClosed(b)) /\ Rests(b, EndedClosed(b)) /\ EndedClosed(b).years = b.years
         /\ \A t \in Terms : /\ EndedClosed(b).terms[t].from = b.terms[t].from
                             /\ EndedClosed(b).terms[t].to = b.terms[t].to
                             /\ EndedClosed(b).terms[t].status = "ACTIVE" => today <= b.terms[t].to
                             /\ Made(b.terms[t]) <=> Made(EndedClosed(b).terms[t])
<1> DEFINE T == {t \in Terms : b.terms[t].to < today}
           c == ClosedTerms(b, T)
<1>1. c = EndedClosed(b) /\ GoodBook(c) /\ Rests(b, c)
  BY ClosedGood DEF EndedClosed
<1>2. c.years = b.years /\ \A t \in Terms : ClosedFrom(b.terms[t], c.terms[t], t \in T)
  BY ClosedRows DEF GoodBook
<1> HIDE DEF c
<1>3. today \in Int /\ \A t \in Terms : b.terms[t].to \in Int
  BY DatesAreNumbers DEF GoodBook
<1>4. \A t \in Terms : c.terms[t].status = "ACTIVE" => t \notin T
  BY <1>2 DEF ClosedFrom
<1>5. \A t \in Terms : t \notin T => today <= b.terms[t].to
  BY <1>3
<1> HIDE DEF T
<1>6. \A t \in Terms : /\ c.terms[t].from = b.terms[t].from /\ c.terms[t].to = b.terms[t].to
                       /\ Made(b.terms[t]) <=> Made(c.terms[t])
  BY <1>2 DEF ClosedFrom, Made
<1> QED BY <1>1, <1>2, <1>4, <1>5, <1>6

\* What AppliedHolds asks of the result of an application on a day.
Holds(result) ==
  /\ result.outcome = "APPLIED" =>
       \E t \in Terms : /\ result.b.terms[t].status = "ACTIVE" /\ result.b.years[t[1]].status = "ACTIVE"
                        /\ result.b.terms[t].from <= today /\ today <= result.b.terms[t].to
  /\ result.outcome \in {"BETWEEN_SEMESTERS", "BETWEEN_ACADEMIC_YEARS"} =>
       \A t \in Terms : result.b.terms[t].status = "ACTIVE" => today <= result.b.terms[t].to

Outcomes == {"", "CONFLICT", "NO_CURRENT_CALENDAR", "SOURCE_INCOMPLETE", "WAITS",
             "BETWEEN_ACADEMIC_YEARS", "BETWEEN_SEMESTERS", "APPLIED"}

\* What an application of the calendar to the present book comes to.
Result(result) ==
  /\ result.outcome \in Outcomes /\ GoodBook(result.b) /\ Rests(book, result.b)
  /\ Holds(result)

\* The activations of the current year and of the semester of the day.
LEMMA ActivatedGood ==
  ASSUME GoodBook(book), today \in Days, NEW b, GoodBook(b), Rests(book, b),
         NEW y \in Years, b.years[y].status \in {"UPCOMING", "ACTIVE"}
  PROVE  Result(Activated(b, y))
<1> DEFINE closed == EndedClosed(b)
           year == IF b.years[y].status = "ACTIVE" THEN closed ELSE WithActiveYear(closed, y)
           due == {t \in TermsOf(b, y) : b.terms[t].from <= today /\ today <= b.terms[t].to}
           r == Activated(b, y)
<1>1. /\ GoodBook(closed) /\ Rests(b, closed) /\ closed.years = b.years
      /\ \A t \in Terms : /\ closed.terms[t].from = b.terms[t].from /\ closed.terms[t].to = b.terms[t].to
                          /\ closed.terms[t].status = "ACTIVE" => today <= b.terms[t].to
  BY EndedGood
<1> HIDE DEF closed
<1>2. /\ GoodBook(year) /\ Rests(closed, year) /\ year.years[y].status = "ACTIVE"
      /\ \A t \in Terms : /\ year.terms[t].from = b.terms[t].from /\ year.terms[t].to = b.terms[t].to
                          /\ year.terms[t].status = "ACTIVE" => today <= b.terms[t].to
  <2>1. CASE b.years[y].status = "ACTIVE"
    BY <1>1, <2>1 DEF Rests
  <2>2. CASE b.years[y].status # "ACTIVE"
    <3>1. CanActivateYear(closed, y)
      BY <1>1, <2>2 DEF CanActivateYear
    <3> QED BY <1>1, <2>2, <3>1, ActiveYearGood
  <2> QED BY <2>1, <2>2
<1>3. Rests(book, year)
  <2>1. Rests(book, closed)
    BY <1>1, RestsOn
  <2> QED BY <1>2, <2>1, RestsOn
<1>4. CASE due = {}
  <2>1. r = [outcome |-> "BETWEEN_SEMESTERS", b |-> year]
    BY <1>4 DEF Activated, closed
  <2> HIDE DEF year, r
  <2> QED BY <1>2, <1>3, <2>1 DEF Result, Holds, Outcomes, r
<1>5. CASE due # {}
  <2>1. PICK t : t = CHOOSE u \in due : TRUE
    OBVIOUS
  <2>2. t \in due
    BY <1>5, <2>1
  <2>3. t \in Terms /\ t[1] = y /\ b.terms[t].from <= today /\ today <= b.terms[t].to
    BY <2>2 DEF TermsOf
  <2>4. r = IF year.terms[t].status = "ACTIVE" THEN [outcome |-> "APPLIED", b |-> year]
            ELSE IF CanActivateTerm(year, t) THEN [outcome |-> "APPLIED", b |-> WithActiveTerm(year, t)]
            ELSE [outcome |-> "CONFLICT", b |-> book]
    BY <1>5, <2>1 DEF Activated, closed
  <2> HIDE DEF year, r, due
  <2>5. CASE year.terms[t].status = "ACTIVE"
    BY <1>2, <1>3, <2>3, <2>4, <2>5 DEF Result, Holds, Outcomes, r
  <2>6. CASE year.terms[t].status # "ACTIVE" /\ CanActivateTerm(year, t)
    <3> DEFINE d == WithActiveTerm(year, t)
    <3>1. /\ GoodBook(d) /\ Rests(year, d) /\ d.years = year.years /\ d.terms[t].status = "ACTIVE"
          /\ d.terms[t].from = year.terms[t].from /\ d.terms[t].to = year.terms[t].to
      BY <1>2, <2>3, <2>6, ActiveTermGood
    <3>2. r = [outcome |-> "APPLIED", b |-> d]
      BY <2>4, <2>6
    <3> HIDE DEF d
    <3>3. Rests(book, d)
      BY <1>3, <3>1, RestsOn
    <3> QED BY <1>2, <2>3, <3>1, <3>2, <3>3 DEF Result, Holds, Outcomes, r
  <2>7. CASE year.terms[t].status # "ACTIVE" /\ ~CanActivateTerm(year, t)
    <3>1. r = [outcome |-> "CONFLICT", b |-> book]
      BY <2>4, <2>7
    <3> QED BY <3>1 DEF Result, Holds, Outcomes, Rests, r
  <2> QED BY <2>5, <2>6, <2>7
<1> QED BY <1>4, <1>5

\* apply_school_calendar, whatever attendance and enrolments say.
LEMMA AppliedGood ==
  ASSUME GoodBook(book), today \in Days, source \in Snapshots,
         NEW dayTaken \in BOOLEAN, NEW enrolled \in BOOLEAN
  PROVE  Result(Applied(dayTaken, enrolled))
<1> DEFINE started == {i \in DOMAIN source : source[i].span.from <= today}
           current == source[CHOOSE i \in started : \A k \in started :
                               source[k].span.from <= source[i].span.from]
           ensured == AllEnsured(book)
           again == Ensured(ensured.b, current)
           y == CHOOSE k \in YearsStarting(again.b, current) : TRUE
           r == Applied(dayTaken, enrolled)
<1>1. Reached(book, ensured)
  BY AllEnsuredGood
<1>2. GoodBook(ensured.b) /\ Rests(book, ensured.b) /\ Rests(book, book)
  BY <1>1 DEF Reached, Rests
<1>3. CASE ~ensured.ok
  <2>1. r = [outcome |-> "CONFLICT", b |-> book]
    BY <1>3 DEF Applied
  <2> QED BY <1>2, <2>1 DEF Result, Holds, Outcomes
<1>4. CASE ensured.ok /\ started = {}
  <2>1. r = [outcome |-> "NO_CURRENT_CALENDAR", b |-> ensured.b]
    BY <1>4 DEF Applied
  <2> HIDE DEF ensured
  <2> QED BY <1>2, <2>1 DEF Result, Holds, Outcomes
<1>5. CASE ensured.ok /\ started # {} /\ ~current.ready
  <2>1. r = [outcome |-> "SOURCE_INCOMPLETE", b |-> ensured.b]
    BY <1>5 DEF Applied
  <2> HIDE DEF ensured
  <2> QED BY <1>2, <2>1 DEF Result, Holds, Outcomes
<1>6. CASE ensured.ok /\ started # {} /\ current.ready /\ current.span.to < today
  <2> DEFINE d == EndedClosed(ensured.b)
  <2>1. r = [outcome |-> "BETWEEN_ACADEMIC_YEARS", b |-> d]
    BY <1>6 DEF Applied
  <2> HIDE DEF ensured
  <2>2. /\ GoodBook(d) /\ Rests(ensured.b, d)
        /\ \A t \in Terms : /\ d.terms[t].to = ensured.b.terms[t].to
                            /\ d.terms[t].status = "ACTIVE" => today <= ensured.b.terms[t].to
    BY <1>2, EndedGood
  <2> HIDE DEF d
  <2>3. Rests(book, d)
    BY <1>2, <2>2, RestsOn
  <2> QED BY <2>1, <2>2, <2>3 DEF Result, Holds, Outcomes
<1>7. CASE ensured.ok /\ started # {} /\ current.ready /\ ~(current.span.to < today)
  <2>1. current \in Calendar /\ Consistent(current)
    <3> DEFINE S == {source[i].span.from : i \in started}
    <3>1. \E i \in started : \A k \in started : source[k].span.from <= source[i].span.from
      <4>1. \A i \in started : source[i].span.from \in Nat /\ source[i].span.from <= LastDay
        BY SourceCalendars, ReadyDates, CalendarBounds DEF Span, Days
      <4> DEFINE G == {LastDay - source[i].span.from : i \in started}
      <4>2. G \in SUBSET Nat /\ G # {}
        BY <1>7, <4>1, CalendarBounds
      <4>3. PICK g \in G : \A h \in G : g <= h
        BY <4>2, LeastOf
      <4>4. PICK i \in started : g = LastDay - source[i].span.from
        BY <4>3
      <4>5. ASSUME NEW k \in started PROVE source[k].span.from <= source[i].span.from
        <5>1. LastDay - source[i].span.from <= LastDay - source[k].span.from
          BY <4>3, <4>4
        <5> QED BY <4>1, <5>1, CalendarBounds
      <4> QED BY <4>5
    <3>2. \E i \in started : current = source[i]
      BY <3>1
    <3> QED BY <1>7, <3>2, SourceCalendars
  <2>2. /\ GoodBook(again.b) /\ Rests(ensured.b, again.b)
        /\ again.ok => Adopted(again.b, current)
    BY <1>2, <2>1, EnsuredGood
  <2>3. Rests(book, again.b)
    BY <1>2, <2>2, RestsOn
  <2>4. CASE ~again.ok
    <3>1. r = [outcome |-> "CONFLICT", b |-> book]
      BY <1>7, <2>4 DEF Applied
    <3> QED BY <1>2, <3>1 DEF Result, Holds, Outcomes
  <2>5. CASE again.ok
    <3>1. y \in Years /\ again.b.years[y].status \in {"UPCOMING", "ACTIVE"}
      BY <2>2, <2>5 DEF Adopted
    <3>2. r = [outcome |-> "WAITS", b |-> again.b] \/ r = Activated(again.b, y)
      BY <1>7, <2>5 DEF Applied
    <3> HIDE DEF again, y, r
    <3>3. Result(Activated(again.b, y))
      BY <2>2, <2>3, <3>1, ActivatedGood
    <3>4. CASE r = [outcome |-> "WAITS", b |-> again.b]
      BY <2>2, <2>3, <3>4 DEF Result, Holds, Outcomes, r
    <3> QED BY <3>2, <3>3, <3>4 DEF r
  <2> QED BY <2>4, <2>5
<1> QED BY <1>3, <1>4, <1>5, <1>6, <1>7

\* The bounds are numbers, and the dates and steps lie within them.
LEMMA WithinBounds ==
  ASSUME CalendarRest
  PROVE  /\ LastDay \in Nat /\ Days = 0..LastDay /\ today \in 0..LastDay /\ checked \in 0..LastDay
         /\ CalendarSteps \in Nat /\ steps \in 0..CalendarSteps
         /\ Operate => steps' \in 0..CalendarSteps
<1>1. LastDay \in Nat /\ CalendarSteps \in Nat
  BY CalendarBounds
<1>2. today \in Days /\ checked \in Days /\ steps \in 0..CalendarSteps
  BY DEF CalendarRest
<1> QED BY <1>1, <1>2 DEF Days, Operate

\* Steps that leave the book, or that staff take by hand while the school is not under
\* the official calendar, promise nothing of the outcome that was not there before.
LEMMA ByHandGood ==
  ASSUME CalendarRest, ByHand
  PROVE  CalendarRest' /\ AppliedHolds'
<1>1. steps' \in 0..CalendarSteps
  BY WithinBounds DEF ByHand
<1>2. ~national' /\ UNCHANGED <<today, national, outcome, checked, source>>
  BY DEF ByHand
<1> QED BY <1>1, <1>2 DEF CalendarRest, AppliedHolds

\* create_year, with or without its activation.
LEMMA CreateYearStep ==
  ASSUME GoodBook(book), NEW s \in Span, NEW activate \in BOOLEAN, CreateYear(s, activate)
  PROVE  GoodBook(book)' /\ Rests(book, book')
<1> DEFINE b == WithYear(book, s)
<1>1. PICK n \in Years : n = NextYear(book)
  BY DEF CreateYear
<1>2. /\ GoodBook(b) /\ Rests(book, b) /\ b.years[n] = Row(s)
      /\ book' = IF activate THEN WithActiveYear(b, n) ELSE b
  BY <1>1, NewYearGood DEF CreateYear
<1> HIDE DEF b
<1>3. CASE ~activate
  BY <1>2, <1>3 DEF GoodBook, YearsInOrder, TermsOfYears, OneCurrent, TermsFit
<1>4. CASE activate
  <2>1. CanActivateYear(b, n)
    BY <1>2, NewRows DEF CanActivateYear
  <2> DEFINE c == WithActiveYear(b, n)
  <2>2. GoodBook(c) /\ Rests(b, c)
    BY <1>2, <2>1, ActiveYearGood
  <2>3. book' = c
    BY <1>2, <1>4
  <2> HIDE DEF c
  <2> QED BY <1>2, <2>2, <2>3, RestsOn DEF GoodBook, YearsInOrder, TermsOfYears, OneCurrent, TermsFit
<1> QED BY <1>3, <1>4

\* A book that is good is good as the next one.
LEMMA NextBook ==
  ASSUME NEW b, GoodBook(b), book' = b
  PROVE  GoodBook(book)'
BY DEF GoodBook, YearsInOrder, TermsOfYears, OneCurrent, TermsFit

\* close_year
LEMMA CloseYearStep ==
  ASSUME GoodBook(book), NEW y \in Years, CloseYear(y)
  PROVE  GoodBook(book)' /\ Rests(book, book')
<1> DEFINE b == ClosedTerms(book, TermsOf(book, y))
           row == [b.years[y] EXCEPT !.status = "CLOSED"]
           c == [b EXCEPT !.years[y] = row]
<1>1. /\ GoodBook(b) /\ Rests(book, b) /\ b.years = book.years /\ b \in Book /\ book \in Book
      /\ \A t \in Terms : ClosedFrom(book.terms[t], b.terms[t], t \in TermsOf(book, y))
  BY ClosedGood, ClosedRows DEF GoodBook
<1>2. book' = c /\ book.years[y].status = "ACTIVE"
  BY <1>1, BookRows DEF CloseYear
<1> HIDE DEF b
<1>3. b.years[y] \in YearRow
  BY <1>1, BookRows
<1>4. row \in YearRow /\ row.status = "CLOSED" /\ row.from = b.years[y].from /\ row.to = b.years[y].to
  BY <1>3 DEF YearRow
<1> HIDE DEF row
<1>5. c \in Book /\ c.terms = b.terms /\ \A k \in Years : c.years[k] = IF k = y THEN row ELSE b.years[k]
  BY <1>1, <1>4, YearPut
<1> HIDE DEF c
<1>6. \A t \in Terms : b.terms[t].status # "ACTIVE"
  <2>1. SUFFICES ASSUME NEW t \in Terms, b.terms[t].status = "ACTIVE" PROVE FALSE
    OBVIOUS
  <2>2. book.terms[t].status = "ACTIVE" /\ t \notin TermsOf(book, y)
    BY <1>1, <2>1 DEF ClosedFrom
  <2>3. t[1] # y
    BY <2>2 DEF TermsOf
  <2> QED BY <1>2, <2>2, <2>3, TermNames DEF GoodBook, OneCurrent
<1>7. \A k \in Years : /\ c.years[k].from = b.years[k].from /\ c.years[k].to = b.years[k].to
                       /\ Made(c.years[k]) <=> Made(b.years[k])
                       /\ c.years[k].status = "ACTIVE" => b.years[k].status = "ACTIVE"
                       /\ b.years[k].status \in {"CLOSED", "ARCHIVED"}
                            => c.years[k].status \in {"CLOSED", "ARCHIVED"}
  BY <1>1, <1>2, <1>4, <1>5 DEF Made
<1>8. YearsInOrder(c)
  BY <1>1, <1>7 DEF GoodBook, YearsInOrder
<1>9. TermsOfYears(c)
  BY <1>1, <1>5, <1>7, TermNames DEF GoodBook, TermsOfYears
<1>10. OneCurrent(c)
  BY <1>1, <1>5, <1>6, <1>7 DEF GoodBook, OneCurrent
<1>11. TermsFit(c)
  BY <1>1, <1>5, <1>7, SameDates DEF GoodBook
<1>12. Rests(b, c)
  BY <1>5, <1>7 DEF Rests
<1> QED BY <1>1, <1>2, <1>5, <1>8, <1>9, <1>10, <1>11, <1>12, NextBook, RestsOn DEF GoodBook

\* archive_year
LEMMA ArchiveYearStep ==
  ASSUME GoodBook(book), NEW y \in Years, ArchiveYear(y)
  PROVE  GoodBook(book)' /\ Rests(book, book')
<1> DEFINE row == [book.years[y] EXCEPT !.status = "ARCHIVED"]
           c == [book EXCEPT !.years[y] = row]
<1>1. /\ book \in Book /\ book.years[y].status \in {"UPCOMING", "CLOSED"} /\ book.years[y] \in YearRow
      /\ book' = c
  BY BookRows DEF ArchiveYear, GoodBook
<1>2. row \in YearRow /\ row.status = "ARCHIVED" /\ row.from = book.years[y].from /\ row.to = book.years[y].to
  BY <1>1 DEF YearRow
<1> HIDE DEF row
<1>3. c \in Book /\ c.terms = book.terms /\ \A k \in Years : c.years[k] = IF k = y THEN row ELSE book.years[k]
  BY <1>1, <1>2, YearPut
<1> HIDE DEF c
<1>4. \A k \in Years : /\ c.years[k].from = book.years[k].from /\ c.years[k].to = book.years[k].to
                       /\ Made(c.years[k]) <=> Made(book.years[k])
                       /\ c.years[k].status = "ACTIVE" <=> book.years[k].status = "ACTIVE"
                       /\ book.years[k].status \in {"CLOSED", "ARCHIVED"}
                            => c.years[k].status \in {"CLOSED", "ARCHIVED"}
  BY <1>1, <1>2, <1>3 DEF Made
<1>5. YearsInOrder(c)
  BY <1>4 DEF GoodBook, YearsInOrder
<1>6. TermsOfYears(c)
  BY <1>3, <1>4, TermNames DEF GoodBook, TermsOfYears
<1>7. OneCurrent(c)
  BY <1>3, <1>4, TermNames DEF GoodBook, OneCurrent
<1>8. TermsFit(c)
  BY <1>3, <1>4, SameDates DEF GoodBook
<1>9. Rests(book, c)
  BY <1>3, <1>4 DEF Rests
<1> QED BY <1>1, <1>3, <1>5, <1>6, <1>7, <1>8, <1>9, NextBook DEF GoodBook

\* create_semester, with or without its activation.
LEMMA CreateTermStep ==
  ASSUME GoodBook(book), NEW t \in Terms, NEW s \in Span, NEW activate \in BOOLEAN,
         CreateTerm(t, s, activate)
  PROVE  GoodBook(book)' /\ Rests(book, book')
<1> DEFINE b == [book EXCEPT !.terms[t] = Row(s)]
<1>1. /\ Made(book.years[t[1]]) /\ book.terms[t] = NoRow /\ TermFits(book, t, s)
      /\ activate => CanActivateTerm(b, t)
      /\ book' = IF activate THEN WithActiveTerm(b, t) ELSE b
  BY DEF CreateTerm, ExistingYears, Made
<1>2. GoodBook(b) /\ Rests(book, b)
  BY <1>1, NewTermGood
<1> HIDE DEF b
<1>3. CASE ~activate
  BY <1>1, <1>2, <1>3, NextBook
<1>4. CASE activate
  <2> DEFINE c == WithActiveTerm(b, t)
  <2>1. GoodBook(c) /\ Rests(b, c) /\ book' = c
    BY <1>1, <1>2, <1>4, ActiveTermGood
  <2> HIDE DEF c
  <2> QED BY <1>2, <2>1, NextBook, RestsOn
<1> QED BY <1>3, <1>4

\* What staff do by hand keeps the book good, and closed rows closed.
LEMMA HandStep ==
  ASSUME GoodBook(book),
         \/ \E s \in YearSpans : \/ \E activate \in BOOLEAN : CreateYear(s, activate)
                                 \/ \E y \in Years : UpdateYear(y, s)
         \/ \E y \in Years : ActivateYear(y) \/ CloseYear(y) \/ ArchiveYear(y)
         \/ \E t \in Terms, s \in TermSpans : \/ \E activate \in BOOLEAN : CreateTerm(t, s, activate)
                                              \/ UpdateTerm(t, s)
         \/ \E t \in Terms : ActivateTerm(t)
  PROVE  ByHand /\ GoodBook(book)' /\ Rests(book, book')
<1>1. YearSpans \subseteq Span /\ TermSpans \subseteq Span
  BY SpansAreDates
<1>2. ASSUME NEW s \in Span, NEW activate \in BOOLEAN, CreateYear(s, activate)
      PROVE  ByHand /\ GoodBook(book)' /\ Rests(book, book')
  BY <1>2, CreateYearStep DEF CreateYear
<1>3. ASSUME NEW s \in Span, NEW y \in Years, UpdateYear(y, s)
      PROVE  ByHand /\ GoodBook(book)' /\ Rests(book, book')
  BY <1>3, UpdatedYearGood, NextBook DEF UpdateYear, KeepsTerms
<1>4. ASSUME NEW y \in Years, ActivateYear(y)
      PROVE  ByHand /\ GoodBook(book)' /\ Rests(book, book')
  BY <1>4, ActiveYearGood, NextBook DEF ActivateYear
<1>5. ASSUME NEW y \in Years, CloseYear(y) \/ ArchiveYear(y)
      PROVE  ByHand /\ GoodBook(book)' /\ Rests(book, book')
  BY <1>5, CloseYearStep, ArchiveYearStep DEF CloseYear, ArchiveYear
<1>6. ASSUME NEW t \in Terms, NEW s \in Span, NEW activate \in BOOLEAN, CreateTerm(t, s, activate)
      PROVE  ByHand /\ GoodBook(book)' /\ Rests(book, book')
  BY <1>6, CreateTermStep DEF CreateTerm
<1>7. ASSUME NEW t \in Terms, NEW s \in Span, UpdateTerm(t, s)
      PROVE  ByHand /\ GoodBook(book)' /\ Rests(book, book')
  BY <1>7, UpdatedTermGood, NextBook DEF UpdateTerm
<1>8. ASSUME NEW t \in Terms, ActivateTerm(t)
      PROVE  ByHand /\ GoodBook(book)' /\ Rests(book, book')
  BY <1>8, ActiveTermGood, NextBook DEF ActivateTerm
<1> QED BY <1>1, <1>2, <1>3, <1>4, <1>5, <1>6, <1>7, <1>8

\* apply_school_calendar
LEMMA CalendarApplied ==
  ASSUME CalendarInductive, ApplyCalendar
  PROVE  CalendarInductive' /\ Rests(book, book')
<1>1. PICK dayTaken \in BOOLEAN, enrolled \in BOOLEAN :
        /\ national /\ Operate
        /\ book' = Applied(dayTaken, enrolled).b /\ outcome' = Applied(dayTaken, enrolled).outcome
        /\ checked' = today /\ UNCHANGED <<today, national, source>>
  BY DEF ApplyCalendar
<1>2. PICK result : result = Applied(dayTaken, enrolled)
  OBVIOUS
<1>3. Result(result)
  BY <1>2, AppliedGood DEF CalendarInductive, CalendarRest
<1>4. GoodBook(book)' /\ Rests(book, book')
  BY <1>1, <1>2, <1>3, NextBook DEF Result
<1>5. AppliedHolds'
  BY <1>1, <1>2, <1>3 DEF Result, Holds, AppliedHolds
<1>6. steps' \in 0..CalendarSteps
  BY <1>1, WithinBounds DEF CalendarInductive
<1>7. CalendarRest'
  <2>1. checked' <= today'
    BY <1>1, WithinBounds DEF CalendarInductive
  <2> QED BY <1>1, <1>2, <1>3, <1>6, <2>1 DEF CalendarInductive, CalendarRest, Result, Outcomes
<1> QED BY <1>4, <1>5, <1>7 DEF CalendarInductive

\* The scope, the source and the clock leave the rows alone; a new day has no outcome yet.
LEMMA AroundStep ==
  ASSUME CalendarInductive,
         \/ \E profile \in BOOLEAN : ConfigureScope(profile)
         \/ \E snapshot \in Snapshots : SyncSource(snapshot)
         \/ DayPasses
         \/ UNCHANGED calendarVars
  PROVE  CalendarInductive' /\ Rests(book, book')
<1>1. /\ book' = book /\ GoodBook(book)
      /\ today \in 0..LastDay /\ checked \in 0..LastDay /\ checked <= today /\ LastDay \in Nat
      /\ steps \in 0..CalendarSteps /\ CalendarSteps \in Nat
  <2>1. book' = book
    BY DEF ConfigureScope, SyncSource, DayPasses, calendarVars
  <2> QED BY <2>1, WithinBounds DEF CalendarInductive, CalendarRest
<1>2. GoodBook(book)' /\ Rests(book, book')
  BY <1>1, NextBook DEF Rests
<1>3. CASE \E profile \in BOOLEAN : ConfigureScope(profile)
  <2>1. Operate /\ outcome' = "" /\ national' \in BOOLEAN /\ UNCHANGED <<today, checked, source>>
    BY <1>3 DEF ConfigureScope
  <2>2. steps' \in 0..CalendarSteps
    BY <2>1, WithinBounds DEF CalendarInductive
  <2> QED BY <1>2, <2>1, <2>2 DEF CalendarInductive, CalendarRest, AppliedHolds
<1>4. CASE \E snapshot \in Snapshots : SyncSource(snapshot)
  <2>1. steps' \in 0..CalendarSteps /\ source' \in Snapshots /\ UNCHANGED <<today, checked, national, outcome>>
    BY <1>1, <1>4 DEF SyncSource, Operate
  <2> QED BY <1>1, <1>2, <2>1 DEF CalendarInductive, CalendarRest, AppliedHolds
<1>5. CASE DayPasses
  <2>1. /\ today' \in 0..LastDay /\ checked < today' /\ checked' = checked
        /\ UNCHANGED <<steps, national, outcome, source>>
    BY <1>1, <1>5 DEF DayPasses
  <2>2. checked' <= today' /\ checked' # today'
    BY <1>1, <2>1
  <2> QED BY <1>2, <2>1, <2>2 DEF CalendarInductive, CalendarRest, AppliedHolds, Days
<1>6. CASE UNCHANGED calendarVars
  BY <1>1, <1>2, <1>6 DEF CalendarInductive, CalendarRest, AppliedHolds, calendarVars
<1> QED BY <1>3, <1>4, <1>5, <1>6

\* Every operation on the calendar keeps the inductive invariant.
LEMMA CalendarStep ==
  ASSUME CalendarInductive, [CalendarNext]_calendarVars
  PROVE  CalendarInductive' /\ Rests(book, book')
<1>1. CASE \/ \E s \in YearSpans : \/ \E activate \in BOOLEAN : CreateYear(s, activate)
                                   \/ \E y \in Years : UpdateYear(y, s)
           \/ \E y \in Years : ActivateYear(y) \/ CloseYear(y) \/ ArchiveYear(y)
           \/ \E t \in Terms, s \in TermSpans : \/ \E activate \in BOOLEAN : CreateTerm(t, s, activate)
                                                \/ UpdateTerm(t, s)
           \/ \E t \in Terms : ActivateTerm(t)
  BY <1>1, HandStep, ByHandGood DEF CalendarInductive
<1>2. CASE ApplyCalendar
  BY <1>2, CalendarApplied
<1>3. CASE \/ \E profile \in BOOLEAN : ConfigureScope(profile)
           \/ \E snapshot \in Snapshots : SyncSource(snapshot)
           \/ DayPasses
           \/ UNCHANGED calendarVars
  BY <1>3, AroundStep
<1> QED BY <1>1, <1>2, <1>3 DEF CalendarNext

\* Empty books are good.
LEMMA CalendarInitHolds ==
  ASSUME CalendarInit
  PROVE  CalendarInductive
<1>1. /\ book \in Book /\ \A y \in Years : book.years[y] = NoRow
      /\ \A t \in Terms : book.terms[t] = NoRow
  BY NewRows DEF CalendarInit, Book
<1>2. GoodBook(book)
  BY <1>1, NewRows, TermNames
     DEF GoodBook, YearsInOrder, TermsOfYears, OneCurrent, TermsFit, Made, NoRow
<1>3. CalendarRest /\ AppliedHolds
  <2>1. 0 \in Days /\ 0 \in 0..CalendarSteps
    BY CalendarBounds DEF Days
  <2>2. today = 0 /\ checked = 0
    BY DEF CalendarInit
  <2>3. checked <= today
    BY <2>2
  <2>4. steps = 0 /\ national = FALSE /\ outcome = "" /\ source \in Snapshots
    BY DEF CalendarInit
  <2> QED BY <2>1, <2>2, <2>3, <2>4 DEF CalendarRest, AppliedHolds
<1> QED BY <1>2, <1>3 DEF CalendarInductive

\* What is ACTIVE is one at most, counted.
LEMMA CalendarHolds ==
  ASSUME CalendarInductive
  PROVE  CalendarInvariant /\ CalendarTypeOK
<1>1. /\ book \in Book /\ OneCurrent(book) /\ TermsFit(book) /\ AppliedHolds /\ CalendarRest
  BY DEF CalendarInductive, GoodBook
<1>2. ASSUME NEW S, \A x, y \in S : x = y PROVE Cardinality(S) <= 1
  <2>1. CASE S = {}
    BY <2>1, FS_EmptySet
  <2>2. CASE S # {}
    <3>1. PICK x \in S : S = {x}
      BY <1>2, <2>2
    <3> QED BY <3>1, FS_Singleton
  <2> QED BY <2>1, <2>2
<1> DEFINE years == {y \in Years : book.years[y].status = "ACTIVE"}
           terms == {t \in Terms : book.terms[t].status = "ACTIVE"}
<1>3. ActiveAgree
  <2>1. Cardinality(years) <= 1
    BY <1>1, <1>2 DEF OneCurrent
  <2>2. Cardinality(terms) <= 1
    BY <1>1, <1>2 DEF OneCurrent
  <2>3. \A t \in terms : t[1] \in years
    BY <1>1, TermNames DEF OneCurrent
  <2> QED BY <2>1, <2>2, <2>3 DEF ActiveAgree
<1>4. TermsFitYear
  BY <1>1 DEF TermsFitYear, TermsFit, TermsOf, Inside, Apart, Made
<1>5. CalendarTypeOK
  BY <1>1, BookRows DEF CalendarTypeOK, CalendarRest, YearRow, TermRow
<1> QED BY <1>1, <1>3, <1>4, <1>5 DEF CalendarInvariant

\* One year and one semester are ACTIVE, semesters fit their year, and the official calendar
\* holds on the day it was applied, for any number of years and any consistent source.
THEOREM CalendarAgrees == CalendarSpec => [](CalendarInvariant /\ CalendarTypeOK)
<1>1. CalendarInductive /\ [CalendarNext]_calendarVars => CalendarInductive'
  BY CalendarStep
<1> QED BY CalendarInitHolds, CalendarHolds, <1>1, PTL DEF CalendarSpec

\* Years and semesters that were closed are never current again, by hand or by the source.
THEOREM ClosedRest == CalendarSpec => CalendarRests
<1>1. CalendarInductive /\ [CalendarNext]_calendarVars => CalendarInductive'
  BY CalendarStep
<1>2. CalendarInductive /\ [CalendarNext]_calendarVars =>
        [/\ \A y \in Years : book.years[y].status \in {"CLOSED", "ARCHIVED"}
              => book'.years[y].status \in {"CLOSED", "ARCHIVED"}
         /\ \A t \in Terms : book.terms[t].status = "CLOSED" => book'.terms[t].status = "CLOSED"
        ]_calendarVars
  BY CalendarStep DEF Rests
<1> QED BY CalendarInitHolds, <1>1, <1>2, PTL DEF CalendarSpec, CalendarRests

-----------------------------------------------------------------------------
(* The composition.                                                         *)

\* The components share no row: a behaviour of the school is one of each of them.
THEOREM SchoolComposes == SchoolSpec => Spec /\ RecordSpec /\ ImportSpec /\ CalendarSpec
<1>1. SchoolInit => Init /\ RecordInit /\ ImportInit /\ CalendarInit
  BY DEF SchoolInit
<1>2. [SchoolNext]_SchoolVars =>
        [Next]_vars /\ [RecordNext]_recordVars /\ [ImportNext]_importVars /\ [CalendarNext]_calendarVars
  BY DEF SchoolNext, SchoolVars
<1> QED BY <1>1, <1>2, PTL DEF SchoolSpec, Spec, RecordSpec, ImportSpec, CalendarSpec

\* The four components keep their types in every composed behaviour.
THEOREM SchoolTypes == SchoolSpec => []SchoolTypeOK
<1>1. RecordsInductive => RecordTypeOK
  BY DEF RecordsInductive
<1>2. ImportInductive => ImportTypeOK
  BY DEF ImportInductive
<1>3. RecordSpec => []RecordTypeOK
  BY RecordInitHolds, RecordStep, <1>1, PTL DEF RecordSpec
<1>4. ImportSpec => []ImportTypeOK
  BY ImportInitHolds, ImportStep, <1>2, PTL DEF ImportSpec
<1>5. TypeOK /\ RecordTypeOK /\ ImportTypeOK /\ CalendarTypeOK => SchoolTypeOK
  BY DEF SchoolTypeOK
<1> QED BY <1>3, <1>4, <1>5, SchoolComposes, IngestTypes, CalendarAgrees, PTL

\* What is promised of devices, students, imports and the calendar holds of the composed
\* behaviour.
THEOREM SchoolHolds ==
  SchoolSpec => [](IngestInvariant /\ StudentsInvariant /\ ImportsInvariant /\ CalendarInvariant)
BY SchoolComposes, NothingLostOrMadeUp, StudentsAddUp, ImportsAddUp, CalendarAgrees, PTL

\* No step of a device, a desk, an import or the calendar takes back what must stay.
THEOREM SchoolIsKept == SchoolSpec => SchoolKept
<1>1. SchoolSpec => OnlyEarlier
  BY SchoolComposes, ArrivalsOnlyImprove, PTL
<1>2. SchoolSpec => CalendarRests
  BY SchoolComposes, ClosedRest, PTL
<1> QED BY <1>1, <1>2 DEF SchoolKept
=============================================================================
