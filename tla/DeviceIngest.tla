---------------------------- MODULE DeviceIngest ----------------------------
(***************************************************************************)
(* The events of one attendance device on one school day, all of one       *)
(* device user: from the durable queue of the bridge                       *)
(* (bridge/bridge_core), through the requests that ingest a batch          *)
(* (backend/devices/services/ingest.py), to the morning arrival of a       *)
(* student (backend/devices/services/morning.py).                          *)
(*                                                                         *)
(* An event is the time it occurred at.  A request is a server thread; the *)
(* bridge may give up on one and send again while it still runs.  Queries  *)
(* outside a transaction are steps of their own; a transaction that locks  *)
(* the arrival row is a step that locks and a step that commits.  A        *)
(* manager is a request of a member of staff.                              *)
(***************************************************************************)
EXTENDS Integers, FiniteSets, Sequences, FiniteSetsExt, Functions

CONSTANTS
  Events,       \* the times of the events in the device's log
  Malformed,    \* those of them that BridgeEventSerializer does not accept
  Students,
  Requests,     \* server threads for batches: a bound
  Managers,     \* request threads of the staff
  BatchSize,    \* batch_size of the engine
  MaxAttempts,  \* MAX_ATTEMPTS of the client
  MaxFaults,    \* bound: losses, deaths, premature timeouts, passing refusals
  ManualTimes,  \* the times the staff may enter
  UnitsPerMinute, DayStart, Grace  \* school_day_start_time, morning_late_grace_minutes

ASSUME TimesNat == Events \cup ManualTimes \subseteq Nat
ASSUME MalformedEvents == Malformed \subseteq Events
ASSUME SizesNat == BatchSize \in Nat \ {0} /\ MaxAttempts \in Nat \ {0} /\ MaxFaults \in Nat
ASSUME SettingsNat == UnitsPerMinute \in Nat \ {0} /\ DayStart \in Nat /\ Grace \in Nat

VARIABLES
  queue,     \* the event_queue table, in the order of its ids
  sent,      \* [Events -> state of its row in the queue]
  bridge,    \* what the engine is doing
  request,   \* [Requests -> what the thread has read]
  device,    \* AttendanceDevice.is_active
  identity,  \* the StudentDeviceIdentity of the device user
  active,    \* the students whose status is ACTIVE
  event,     \* [Events -> DeviceEvent row]
  arrival,   \* [Students -> SchoolArrival row of the day]
  manager,   \* [Managers -> what the thread has read]
  refused,   \* history: events answered as invalid
  crossed,   \* history: two mappings of the identity were under way at once
  faults     \* how many faults there have been

vars == <<queue, sent, bridge, request, device, identity, active, event, arrival,
          manager, refused, crossed, faults>>
bridgeVars == <<queue, sent, bridge>>
adminVars == <<device, identity, active, manager>>

Maybe(S) == {{}} \cup {{x} : x \in S}
Times == Events \cup ManualTimes

\* A row exists when its status is not NONE.
EventRow == [status: {"NONE", "PROCESSED", "UNMATCHED", "IGNORED"}, student: Maybe(Students)]
LatenessType == [raw: Nat, counted: Nat, status: {"ON_TIME", "LATE"}]

\* Mutant: minutes before the start of the day are not cut off at zero.
Lateness_Negative(at) ==
  LET raw == (at - DayStart) \div UnitsPerMinute
      onTime == at <= DayStart + Grace * UnitsPerMinute
  IN [raw |-> raw, counted |-> IF onTime THEN 0 ELSE raw - Grace,
      status |-> IF onTime THEN "ON_TIME" ELSE "LATE"]

\* compute_lateness, with times in units of a part of a minute.
Lateness(at) ==
  LET raw == IF at > DayStart THEN (at - DayStart) \div UnitsPerMinute ELSE 0
      onTime == at <= DayStart + Grace * UnitsPerMinute
  IN [raw |-> raw,
      counted |-> IF onTime \/ raw < Grace THEN 0 ELSE raw - Grace,
      status |-> IF onTime THEN "ON_TIME" ELSE "LATE"]
Arrival == [source: {"NONE", "BIOMETRIC", "MANUAL"}, at: Nat, event: Maybe(Events),
            late: LatenessType]
Bridge == [waits: Maybe(Requests), batch: SUBSET Events, attempt: Nat]
Request == [pc: {"none", "start", "keys", "identities", "insert", "rows", "arrival",
                 "write", "unmatched", "done"},
            batch: SUBSET Events, known: SUBSET Events, row: EventRow,
            unseen: BOOLEAN, inserted: SUBSET Events, seen: Maybe(Times)]
Manager == [pc: {"idle", "list", "save", "arrival", "write", "create", "correct"},
            student: Maybe(Students), active: BOOLEAN, todo: SUBSET Events,
            seen: Maybe(Times), was: Arrival]

NoEvent == [status |-> "NONE", student |-> {}]
NoArrival == [source |-> "NONE", at |-> 0, event |-> {},
              late |-> [raw |-> 0, counted |-> 0, status |-> "ON_TIME"]]
NoRequest == [pc |-> "none", batch |-> {}, known |-> {}, row |-> NoEvent, unseen |-> FALSE,
              inserted |-> {}, seen |-> {}]
Resting == [waits |-> {}, batch |-> {}, attempt |-> 0]
Idle == [pc |-> "idle", student |-> {}, active |-> FALSE, todo |-> {}, seen |-> {},
         was |-> NoArrival]

Init ==
  /\ queue = <<>> /\ sent = [e \in Events |-> "LOG"] /\ bridge = Resting
  /\ request = [r \in Requests |-> NoRequest]
  /\ device = TRUE /\ identity = [exists |-> FALSE, student |-> {}] /\ active = Students
  /\ event = [e \in Events |-> NoEvent]
  /\ arrival = [s \in Students |-> NoArrival]
  /\ manager = [m \in Managers |-> Idle]
  /\ refused = {} /\ crossed = FALSE /\ faults = 0

Fault == faults < MaxFaults /\ faults' = faults + 1
Stored == {e \in Events : event[e].status # "NONE"}

-----------------------------------------------------------------------------
(* The bridge: bridge_core/queue.py, engine.py and client.py.              *)

\* poll_devices and enqueue: an event that is in the queue already is ignored.
Poll(e) ==
  /\ bridge.waits = {} /\ sent[e] = "LOG"
  /\ queue' = Append(queue, e)
  /\ sent' = [sent EXCEPT ![e] = "PENDING"]
  /\ UNCHANGED <<bridge, request, adminVars, event, arrival, refused, crossed, faults>>

\* Mutant: a batch that failed is not taken again.
Retryable_PendingOnly == {"PENDING"}

\* RETRYABLE.
Retryable == {"PENDING", "FAILED_RETRYABLE"}

\* next_batch: the oldest BatchSize rows that are not acknowledged.
NextBatch ==
  LET open == {i \in DOMAIN queue : sent[queue[i]] \in Retryable}
  IN {queue[i] : i \in {j \in open : Cardinality({k \in open : k < j}) < BatchSize}}

Arrives(r) == request' = [request EXCEPT ![r] = [NoRequest EXCEPT !.pc = "start", !.batch = bridge'.batch]]

\* flush sends a batch.
Send(r) ==
  /\ bridge.waits = {} /\ NextBatch # {} /\ request[r].pc = "none"
  /\ bridge' = [waits |-> {r}, batch |-> NextBatch, attempt |-> 1]
  /\ Arrives(r)
  /\ UNCHANGED <<queue, sent, adminVars, event, arrival, refused, crossed, faults>>

\* The answer is not coming, or has not come in time.
TimedOut ==
  /\ bridge.waits # {}
  /\ \/ (\A r \in bridge.waits : request[r].pc = "none") /\ UNCHANGED faults
     \/ (\E r \in bridge.waits : request[r].pc # "none") /\ Fault

\* _post sends the same batch again; the request before may still be running.
Retry(r) ==
  /\ TimedOut /\ bridge.attempt < MaxAttempts /\ request[r].pc = "none"
  /\ bridge' = [bridge EXCEPT !.waits = {r}, !.attempt = @ + 1]
  /\ Arrives(r)
  /\ UNCHANGED <<queue, sent, adminVars, event, arrival, refused, crossed>>

Mark(state) == [e \in Events |-> IF e \in bridge.batch THEN state ELSE sent[e]]

\* Mutant: the batch counts as delivered when the attempts are used up.
GiveUp_Acknowledges ==
  /\ TimedOut /\ bridge.attempt = MaxAttempts
  /\ sent' = Mark("ACKNOWLEDGED") /\ bridge' = Resting
  /\ UNCHANGED <<queue, request, adminVars, event, arrival, refused, crossed>>

\* flush after RetryableError.
GiveUp ==
  /\ TimedOut /\ bridge.attempt = MaxAttempts
  /\ sent' = Mark("FAILED_RETRYABLE") /\ bridge' = Resting
  /\ UNCHANGED <<queue, request, adminVars, event, arrival, refused, crossed>>

\* The results arrive: the whole batch is acknowledged, whatever they say.  The
\* answer to an attempt that was given up goes nowhere.
Answer(r) ==
  /\ request[r].pc = "done"
  /\ request' = [request EXCEPT ![r] = NoRequest]
  /\ IF r \in bridge.waits
     THEN sent' = Mark("ACKNOWLEDGED") /\ bridge' = Resting
     ELSE UNCHANGED <<sent, bridge>>
  /\ UNCHANGED <<queue, adminVars, event, arrival, refused, crossed, faults>>

\* A 4xx answer: _post does not try again and flush leaves the rows as they are, for
\* the next cycle to send.
Refused(r) ==
  /\ request' = [request EXCEPT ![r] = NoRequest]
  /\ bridge' = IF r \in bridge.waits THEN Resting ELSE bridge
  /\ UNCHANGED <<queue, sent, adminVars, event, arrival, refused, crossed>>

\* authenticate_bridge: the credential or the subscription has to be put in order.
Refuse(r) == request[r].pc = "start" /\ Fault /\ Refused(r)

\* BridgeBatchSerializer: one malformed event, and the whole batch is invalid.
WellFormed(batch) == batch \cap Malformed = {}

\* The same answer every time the batch is sent.
Reject(r) ==
  /\ request[r].pc = "start" /\ ~WellFormed(request[r].batch)
  /\ Refused(r) /\ UNCHANGED faults

\* The bridge is restarted; its queue is on disk.
Restart ==
  /\ bridge.waits # {} /\ Fault
  /\ bridge' = Resting
  /\ UNCHANGED <<queue, sent, request, adminVars, event, arrival, refused, crossed>>

-----------------------------------------------------------------------------
(* ingest_batch.                                                           *)

Step(r, pc) == request[r].pc = pc
To(r, rec) == request' = [request EXCEPT ![r] = rec]
Only(r, pc) == To(r, [request[r] EXCEPT !.pc = pc])

\* (1): the events of an inactive device are answered as invalid.
Validate(r) ==
  /\ Step(r, "start") /\ WellFormed(request[r].batch)
  /\ \/ device /\ Only(r, "keys") /\ UNCHANGED refused
     \/ ~device /\ Only(r, "done") /\ refused' = refused \cup request[r].batch
  /\ UNCHANGED <<bridgeVars, adminVars, event, arrival, crossed, faults>>

\* (2)
ReadKeys(r) ==
  /\ Step(r, "keys")
  /\ To(r, [request[r] EXCEPT !.pc = "identities", !.known = Stored \cap request[r].batch])
  /\ UNCHANGED <<bridgeVars, adminVars, event, arrival, refused, crossed, faults>>

\* (3) and (4): what the row of a new event will be.
RowFor(student) ==
  IF student = {} THEN [status |-> "UNMATCHED", student |-> {}]
  ELSE [status |-> IF student \subseteq active THEN "PROCESSED" ELSE "IGNORED",
        student |-> student]

ReadIdentities(r) ==
  /\ Step(r, "identities")
  /\ To(r, [request[r] EXCEPT !.pc = "insert", !.row = RowFor(identity.student),
                              !.unseen = ~identity.exists])
  /\ UNCHANGED <<bridgeVars, adminVars, event, arrival, refused, crossed, faults>>

New(r) == request[r].batch \ request[r].known
Insert(r, S) == event' = [e \in Events |-> IF e \in S THEN request[r].row ELSE event[e]]

\* (5): one INSERT for all; when the key of one is taken, row by row.
BulkInsert(r) ==
  /\ Step(r, "insert")
  /\ IF New(r) \cap Stored = {}
     THEN /\ Insert(r, New(r))
          /\ To(r, [request[r] EXCEPT !.pc = "arrival", !.inserted = New(r)])
     ELSE Only(r, "rows") /\ UNCHANGED event
  /\ UNCHANGED <<bridgeVars, adminVars, arrival, refused, crossed, faults>>

\* A savepoint per row: what another request stored first is a duplicate.
InsertRow(r, e) ==
  /\ Step(r, "rows") /\ e \in New(r) \ Stored
  /\ Insert(r, {e})
  /\ To(r, [request[r] EXCEPT !.inserted = @ \cup {e}])
  /\ UNCHANGED <<bridgeVars, adminVars, arrival, refused, crossed, faults>>

RowsDone(r) ==
  /\ Step(r, "rows") /\ New(r) \subseteq Stored
  /\ Only(r, "arrival")
  /\ UNCHANGED <<bridgeVars, adminVars, event, arrival, refused, crossed, faults>>

\* No transaction holds the row of s with SELECT ... FOR UPDATE.
Free(s) ==
  /\ \A r \in Requests : request[r].row.student = {s} => request[r].seen = {}
  /\ \A m \in Managers : manager[m].student = {s} => manager[m].seen = {}
Exists(s) == arrival[s].source # "NONE"
Seen(s) == IF Exists(s) THEN {arrival[s].at} ELSE {}

\* Mutant: the row is read without FOR UPDATE.
MayRead_NoLock(s) == TRUE

\* A row that is there can be read for update when nobody holds it.
MayRead(s) == Exists(s) => Free(s)

\* Mutant: the status of the student is not looked at.
Counted_AnyStudent(r) == request[r].inserted # {} /\ request[r].row.student # {}

\* The events that are items of the call.
Counted(r) == request[r].inserted # {} /\ request[r].row.status = "PROCESSED"

\* (6), apply_arrival_events_bulk: the rows there are.
LockArrival(r) ==
  /\ Step(r, "arrival")
  /\ IF ~Counted(r)
     THEN Only(r, "unmatched")
     ELSE \E s \in request[r].row.student :
            /\ MayRead(s)
            /\ To(r, [request[r] EXCEPT !.pc = "write", !.seen = Seen(s)])
  /\ UNCHANGED <<bridgeVars, adminVars, event, arrival, refused, crossed, faults>>

Biometric(e) == [source |-> "BIOMETRIC", at |-> e, event |-> {e}, late |-> Lateness(e)]

\* Whether an event at e changes the row, as it was seen: a missing row is created
\* unless somebody else has been first.
Improves(e, seen, s) == IF seen = {} THEN ~Exists(s) ELSE \A at \in seen : e < at

\* The earliest event of the batch: created unless somebody else was first
\* (ignore_conflicts), or an earlier time for the row that was read.
WriteArrival(r) ==
  /\ Step(r, "write")
  /\ \E s \in request[r].row.student :
       LET e == Min(request[r].inserted) IN
       arrival' = IF Improves(e, request[r].seen, s)
                  THEN [arrival EXCEPT ![s] = Biometric(e)] ELSE arrival
  /\ To(r, [request[r] EXCEPT !.pc = "unmatched", !.seen = {}])
  /\ UNCHANGED <<bridgeVars, adminVars, event, refused, crossed, faults>>

\* (7): an identity to be matched by hand.
CreateIdentity(r) ==
  /\ Step(r, "unmatched")
  /\ identity' = IF request[r].unseen /\ New(r) # {} /\ ~identity.exists
                 THEN [exists |-> TRUE, student |-> {}] ELSE identity
  /\ Only(r, "done")
  /\ UNCHANGED <<bridgeVars, device, active, manager, event, arrival, refused, crossed, faults>>

\* The thread dies, or its answer is lost; an open transaction is rolled back.
Die(r) ==
  /\ request[r].pc # "none" /\ Fault
  /\ request' = [request EXCEPT ![r] = NoRequest]
  /\ UNCHANGED <<bridgeVars, adminVars, event, arrival, refused, crossed>>

-----------------------------------------------------------------------------
(* The staff.                                                              *)

Set(m, rec) == manager' = [manager EXCEPT ![m] = rec]

\* A mapping is under way.
Mapping == {"list", "save", "arrival", "write"}

\* IdentityMapView: the identity is saved, then its events are reprocessed.
MapIdentity(m, s) ==
  /\ manager[m].pc = "idle" /\ identity.exists
  /\ crossed' = (crossed \/ \E n \in Managers : manager[n].pc \in Mapping)
  /\ identity' = [exists |-> TRUE, student |-> {s}]
  /\ Set(m, [Idle EXCEPT !.pc = "list", !.student = {s}, !.active = s \in active])
  /\ UNCHANGED <<bridgeVars, request, device, active, event, arrival, refused, faults>>

\* IdentityUnmapView.
UnmapIdentity(m) ==
  /\ manager[m].pc = "idle" /\ identity.student # {}
  /\ identity' = [exists |-> TRUE, student |-> {}]
  /\ UNCHANGED <<bridgeVars, request, device, active, manager, event, arrival, refused, crossed, faults>>

\* reprocess_unmatched: the events of the identity that are UNMATCHED.
ListUnmatched(m) ==
  /\ manager[m].pc = "list"
  /\ Set(m, [manager[m] EXCEPT !.pc = "save",
                               !.todo = {e \in Events : event[e].status = "UNMATCHED"}])
  /\ UNCHANGED <<bridgeVars, request, device, identity, active, event, arrival, refused, crossed, faults>>

\* The oldest of them is saved, as the list has it.
SaveEvent(m) ==
  /\ manager[m].pc = "save"
  /\ \/ /\ manager[m].todo # {}
        /\ LET e == Min(manager[m].todo) IN
           event' = [event EXCEPT ![e] =
             [status |-> IF manager[m].active THEN "PROCESSED" ELSE "IGNORED",
              student |-> manager[m].student]]
        /\ Set(m, IF manager[m].active THEN [manager[m] EXCEPT !.pc = "arrival"]
                  ELSE [manager[m] EXCEPT !.todo = @ \ {Min(@)}])
     \/ manager[m].todo = {} /\ Set(m, Idle) /\ UNCHANGED event
  /\ UNCHANGED <<bridgeVars, request, device, identity, active, arrival, refused, crossed, faults>>

\* apply_arrival_event: the row of the student is read for update.
LockForEvent(m) ==
  /\ manager[m].pc = "arrival"
  /\ \E s \in manager[m].student :
       /\ MayRead(s)
       /\ Set(m, [manager[m] EXCEPT !.pc = "write", !.seen = Seen(s)])
  /\ UNCHANGED <<bridgeVars, request, device, identity, active, event, arrival, refused, crossed, faults>>

\* The row is created or corrected.  When somebody else has created it, the
\* IntegrityError has ended the transaction: the query after it fails and the
\* request with it, its other events still to do.
WriteForEvent(m) ==
  /\ manager[m].pc = "write"
  /\ \E s \in manager[m].student :
       LET e == Min(manager[m].todo)
           next == [manager[m] EXCEPT !.pc = "save", !.todo = @ \ {e}, !.seen = {}]
       IN /\ arrival' = IF Improves(e, manager[m].seen, s) THEN [arrival EXCEPT ![s] = Biometric(e)] ELSE arrival
          /\ Set(m, IF manager[m].seen = {} /\ Exists(s) THEN Idle ELSE next)
  /\ UNCHANGED <<bridgeVars, request, device, identity, active, event, refused, crossed, faults>>

\* create_manual_arrival: the check that there is no arrival, and the INSERT.
CheckManual(m, s) ==
  /\ manager[m].pc = "idle" /\ ManualTimes # {} /\ ~Exists(s)
  /\ Set(m, [Idle EXCEPT !.pc = "create", !.student = {s}])
  /\ UNCHANGED <<bridgeVars, request, device, identity, active, event, arrival, refused, crossed, faults>>

Manual(was, t) == [source |-> "MANUAL", at |-> t, event |-> was.event, late |-> Lateness(t)]

CreateManual(m, t) ==
  /\ manager[m].pc = "create"
  /\ \E s \in manager[m].student :
       arrival' = IF Exists(s) THEN arrival ELSE [arrival EXCEPT ![s] = Manual(NoArrival, t)]
  /\ Set(m, Idle)
  /\ UNCHANGED <<bridgeVars, request, device, identity, active, event, refused, crossed, faults>>

\* ArrivalCorrectView reads the arrival; correct_arrival saves every field of it.
ReadForCorrection(m, s) ==
  /\ manager[m].pc = "idle" /\ ManualTimes # {} /\ Exists(s)
  /\ Set(m, [Idle EXCEPT !.pc = "correct", !.student = {s}, !.was = arrival[s]])
  /\ UNCHANGED <<bridgeVars, request, device, identity, active, event, arrival, refused, crossed, faults>>

CorrectArrival(m, t) ==
  /\ manager[m].pc = "correct"
  /\ \E s \in manager[m].student :
       Free(s) /\ arrival' = [arrival EXCEPT ![s] = Manual(manager[m].was, t)]
  /\ Set(m, Idle)
  /\ UNCHANGED <<bridgeVars, request, device, identity, active, event, refused, crossed, faults>>

\* The device is switched off or on; a student leaves the school.
ToggleDevice ==
  /\ Fault /\ device' = ~device
  /\ UNCHANGED <<bridgeVars, request, identity, active, manager, event, arrival, refused, crossed>>

Withdraw(s) ==
  /\ Fault /\ s \in active /\ active' = active \ {s}
  /\ UNCHANGED <<bridgeVars, request, device, identity, manager, event, arrival, refused, crossed>>

-----------------------------------------------------------------------------
BridgeStep ==
  \/ \E e \in Events : Poll(e)
  \/ \E r \in Requests : Send(r) \/ Retry(r)
  \/ GiveUp \/ Restart

Ingest(r) ==
  \/ Reject(r) \/ Validate(r) \/ ReadKeys(r) \/ ReadIdentities(r) \/ BulkInsert(r)
  \/ (\E e \in Events : InsertRow(r, e)) \/ RowsDone(r)
  \/ LockArrival(r) \/ WriteArrival(r) \/ CreateIdentity(r)

Reprocess(m) == ListUnmatched(m) \/ SaveEvent(m) \/ LockForEvent(m) \/ WriteForEvent(m)

ManualEntry(m, t) == CreateManual(m, t) \/ CorrectArrival(m, t)

Staff(m) ==
  \/ \E s \in Students : MapIdentity(m, s) \/ CheckManual(m, s) \/ ReadForCorrection(m, s)
  \/ UnmapIdentity(m) \/ Reprocess(m)
  \/ \E t \in ManualTimes : ManualEntry(m, t)

Next ==
  \/ BridgeStep
  \/ \E r \in Requests : Ingest(r) \/ Answer(r) \/ Refuse(r) \/ Die(r)
  \/ \E m \in Managers : Staff(m)
  \/ ToggleDevice \/ \E s \in Students : Withdraw(s)

Spec == Init /\ [][Next]_vars

\* The bridge runs for ever, a request that does not die runs on and its answer
\* arrives; row locks are queued, so that a request gets the one it waits for
\* however often others take it (hence SF).  Faults are finitely many.
Fairness ==
  /\ WF_vars(\E r \in Requests : Send(r)) /\ WF_vars(\E r \in Requests : Retry(r))
  /\ WF_vars(GiveUp)
  /\ \A r \in Requests : WF_vars(Answer(r)) /\ SF_vars(Ingest(r))
  /\ \A m \in Managers : SF_vars(Reprocess(m)) /\ WF_vars(\E t \in ManualTimes : ManualEntry(m, t))

FairSpec == Spec /\ Fairness

-----------------------------------------------------------------------------
(* Properties.                                                             *)

\* The types of the rows and of what the threads have read.
TypeOK ==
  /\ queue \in Seq(Events)
  /\ sent \in [Events -> {"LOG", "PENDING", "FAILED_RETRYABLE", "ACKNOWLEDGED"}]
  /\ bridge \in Bridge /\ request \in [Requests -> Request]
  /\ device \in BOOLEAN /\ identity \in [exists: BOOLEAN, student: Maybe(Students)]
  /\ active \in SUBSET Students /\ event \in [Events -> EventRow]
  /\ arrival \in [Students -> Arrival] /\ manager \in [Managers -> Manager]
  /\ refused \in SUBSET Events /\ crossed \in BOOLEAN /\ faults \in 0..MaxFaults

\* An event that the bridge will not send again is stored, or was answered as
\* invalid: no sequence of timeouts, overlapping attempts, lost answers, deaths
\* and restarts loses one.
AckedStored == \A e \in Events : sent[e] = "ACKNOWLEDGED" => e \in Stored \cup refused

\* The time and the lateness of a biometric arrival are those of one stored and
\* processed event, also when requests for overlapping batches raced.  Two mappings at
\* once may save over each other: the event of an arrival is then the other one's.
ArrivalBacked ==
  \A s \in Students : arrival[s].source = "BIOMETRIC" =>
    \E e \in Events : /\ arrival[s] = Biometric(e)
                      /\ crossed \/ event[e].status = "PROCESSED"

\* A biometric event replaces an arrival only by an earlier one, which never
\* counts more minutes late, whoever else wrote the row in between.
OnlyEarlier ==
  [][\A s \in Students :
       (Exists(s) /\ arrival'[s] # arrival[s] /\ arrival'[s].source = "BIOMETRIC")
       => /\ arrival'[s].at < arrival[s].at
          /\ arrival'[s].late.counted <= arrival[s].late.counted]_vars

\* The batch at the head of the queue holds a malformed event.
Blocked == ~WellFormed(NextBatch)

\* Every event in the queue is acknowledged in the end, however the batches before it
\* fare, unless a malformed event comes to the head of the queue with it or before it:
\* that batch is refused and sent again for ever, and nothing more is acknowledged.
EventsDrain ==
  /\ \A e \in Events : sent[e] = "PENDING" ~> sent[e] = "ACKNOWLEDGED" \/ Blocked
  /\ [][Blocked => Blocked' /\ \A e \in Events :
                     sent'[e] = "ACKNOWLEDGED" => sent[e] = "ACKNOWLEDGED"]_vars

Quiet == (\A r \in Requests : request[r].pc = "none") /\ (\A m \in Managers : manager[m].pc = "idle")

\* "An earlier event that arrives late corrects the arrival": when no request is
\* under way, no processed event of a student is earlier than the arrival.
QuietEarliest ==
  Quiet => \A s \in Students, e \in Events :
    (event[e].status = "PROCESSED" /\ event[e].student = {s} /\ arrival[s].source # "MANUAL")
    => Exists(s) /\ arrival[s].at <= e

\* From the queue to the arrival nothing is lost or made up: what was acknowledged is
\* stored, and a biometric arrival is a processed event.
IngestInvariant == AckedStored /\ ArrivalBacked
=============================================================================
