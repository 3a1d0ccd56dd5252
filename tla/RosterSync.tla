----------------------------- MODULE RosterSync -----------------------------
(***************************************************************************)
(* The synchronisation of the students with the users of one device        *)
(* (backend/devices/services/roster.py, api/views.py,                      *)
(* bridge/bridge_core/engine.py and client.py).                            *)
(*                                                                         *)
(* A manager asks for an analysis, reviews it and approves it; the bridge  *)
(* reads the device, is handed the commands with its heartbeat, executes   *)
(* them and reports each result.  The server's handlers open no            *)
(* transaction and take no lock: each statement is a step of its own.  The *)
(* client sends a request again when its answer does not come in time,     *)
(* while the thread that took it goes on, so requests of the one bridge    *)
(* overlap.  Reads with no write between them are one step, and so is a    *)
(* handler's last write with its answer.                                   *)
(***************************************************************************)
EXTENDS Integers, FiniteSets, Sequences

CONSTANTS
  Pupils,         \* students; the stable id of a student is the student
  Locals,         \* ids of users that were enrolled at the device by hand
  Titles,         \* display names
  Managers,       \* requests of the school manager
  Servers,        \* threads of the server that answer the bridge
  MaxJobs,        \* bound: analyses
  RosterChanges,  \* bound: changes of students, identities and of the device by hand
  RosterFaults    \* bound: answers lost or late, failing commands, deaths of the bridge or a thread

ASSUME RosterBounds == {MaxJobs, RosterChanges, RosterFaults} \subseteq Nat
ASSUME RosterNames == Pupils \cap (Locals \cup {"none", "unmatched", "blank"}) = {}

VARIABLES
  pupils,    \* [Pupils -> lifecycle and name]
  identity,  \* [Ids -> StudentDeviceIdentity: the student, "unmatched", "blank" (MATCHED to
             \*  nobody) or "none"]
  users,     \* the users of the device: id -> name
  jobs,      \* the DeviceRosterSyncJobs in the order of their ids
  manager,   \* [Managers -> what the request does next]
  serving,   \* [Servers -> the request of the bridge that the thread is serving]
  bridge,    \* the cycle of the bridge; call: the thread whose answer it waits for
  rosterChanges, rosterFaults,
  mapped,     \* history: ids that were ever a student's
  confirmed,  \* history: jobs whose preview was compared with the device after approval
  reanalysed  \* history: jobs that an analysis gave new items when it was over for them

around == <<pupils, identity, users, rosterChanges, mapped>>
compared == <<confirmed, reanalysed>>
rosterVars == <<around, jobs, manager, serving, bridge, rosterFaults, compared>>

Ids == Pupils \cup Locals
Users == UNION {[S -> Titles] : S \in SUBSET Ids}

\* LEFT: graduated, transferred, withdrawn or inactive; OTHER: archived, or
\* active without an active enrolment.
Lifecycle == {"ELIGIBLE", "LEFT", "OTHER"}
Executed == {"CREATE", "UPDATE", "DELETE"}
Actions == Executed \cup {"MATCHED", "CONFLICT"}
ItemStatus == {"PENDING", "RUNNING", "SUCCEEDED", "FAILED_RETRYABLE", "FAILED_FINAL", "SKIPPED"}

\* The items of a job are kept by their primary keys: the device id and which of the
\* job's analyses made the row.  named: command_id was given at the approval.
Rows == Ids \X Nat
Item == [action: Actions, pupil: Pupils \cup {"none"}, title: Titles, status: ItemStatus,
         named: BOOLEAN]
OpenJob == {"ANALYZING", "APPROVED", "RUNNING"}
JobStatus == OpenJob \cup {"READY_FOR_REVIEW", "COMPLETED", "PARTIALLY_FAILED", "STALE"}
Command == [job: 1..MaxJobs, row: Rows, action: Executed, title: Titles, named: BOOLEAN]

NewJob == [status |-> "ANALYZING", roster |-> {}, device |-> <<>>, items |-> <<>>, made |-> 0]
Unoccupied == [pc |-> "idle", job |-> 0, rows |-> {}, status |-> "STALE"]
Resting == [pc |-> "idle", job |-> 0, seen |-> <<>>, commands |-> {}, report |-> <<>>, call |-> {}]

\* first: read_job; job: the job it reads and writes; rows: the items it read and will
\* still save, with the status it read; found: the analysis; status: what it will
\* write to the job, or the status it read.
NoAnalysis == [roster |-> {}, device |-> <<>>, items |-> <<>>]
Free == [pc |-> "free", first |-> 0, job |-> 0, rows |-> <<>>, commands |-> {}, pupil |-> "none",
         result |-> "SUCCEEDED", found |-> NoAnalysis, status |-> "STALE"]

\* A device with users of its own, some of them mapped to a student by hand.
RosterInit ==
  /\ \E t \in Titles, S \in SUBSET Locals :
       /\ pupils = [s \in Pupils |-> [state |-> "ELIGIBLE", title |-> t]]
       /\ users = [i \in S |-> t]
  /\ identity \in [Ids -> Pupils \cup {"none"}] /\ \A s \in Pupils : identity[s] = "none"
  /\ mapped = {i \in Ids : identity[i] # "none"}
  /\ jobs = <<>> /\ manager = [m \in Managers |-> Unoccupied]
  /\ serving = [h \in Servers |-> Free] /\ bridge = Resting
  /\ rosterChanges = 0 /\ rosterFaults = 0 /\ confirmed = {} /\ reanalysed = {}

RosterFault == rosterFaults < RosterFaults /\ rosterFaults' = rosterFaults + 1
RosterChange == rosterChanges < RosterChanges /\ rosterChanges' = rosterChanges + 1
Idx == 1..Len(jobs)

-----------------------------------------------------------------------------
(* What changes around a synchronisation.                                  *)

PupilChanges(s, state, t) ==
  /\ RosterChange /\ (state = pupils[s].state \/ t = pupils[s].title)
  /\ pupils' = [pupils EXCEPT ![s] = [state |-> state, title |-> t]]
  /\ UNCHANGED <<identity, users, mapped, jobs, manager, serving, bridge, rosterFaults, compared>>

\* The first event of an unknown user.
UnknownScan(i) ==
  /\ RosterChange /\ i \in DOMAIN users /\ identity[i] = "none"
  /\ identity' = [identity EXCEPT ![i] = "unmatched"]
  /\ UNCHANGED <<pupils, users, mapped, jobs, manager, serving, bridge, rosterFaults, compared>>

\* IdentityMapView and IdentityUnmapView.
MapIdentity(i, s) ==
  /\ RosterChange /\ identity[i] # "none"
  /\ identity' = [identity EXCEPT ![i] = s]
  /\ mapped' = mapped \cup {i}
  /\ UNCHANGED <<pupils, users, jobs, manager, serving, bridge, rosterFaults, compared>>

UnmapIdentity(i) ==
  /\ RosterChange /\ identity[i] \in Pupils
  /\ identity' = [identity EXCEPT ![i] = "unmatched"]
  /\ UNCHANGED <<pupils, users, mapped, jobs, manager, serving, bridge, rosterFaults, compared>>

\* Somebody edits the users at the device.
EditedByHand(u) ==
  /\ RosterChange
  /\ users' = u
  /\ UNCHANGED <<pupils, identity, mapped, jobs, manager, serving, bridge, rosterFaults, compared>>

-----------------------------------------------------------------------------
(* compare_device_roster.                                                  *)

\* active_student_roster.
Desired == {s \in Pupils : pupils[s].state = "ELIGIBLE"}

\* Mutant: a user that no student stands behind is removed.
Unlisted_Delete(i) == "DELETE"

\* A device user that the roster does not ask for.
Unlisted(i) ==
  IF identity[i] \in Pupils /\ pupils[identity[i]].state = "LEFT" THEN "DELETE" ELSE "CONFLICT"

\* The rows asked for are keyed by the stable ids: desired_by_id is built before
\* the ids of known identities are filled in.
ActionFor(i, seen) ==
  IF i \notin DOMAIN seen THEN "CREATE"
  ELSE IF identity[i] = "unmatched" THEN "CONFLICT"
  ELSE IF i \in Desired THEN IF seen[i] = pupils[i].title THEN "MATCHED" ELSE "UPDATE"
  ELSE Unlisted(i)

Compare(seen) == [i \in DOMAIN seen \cup Desired |-> ActionFor(i, seen)]

\* The ids of known identities do count in the version that is stored; of several,
\* any may come last.
KnownId(s) == LET known == {i \in Ids : identity[i] = s} IN IF known = {} THEN {s} ELSE known
StoredVersions == {{<<id[s], pupils[s].title>> : s \in Desired} :
                     id \in {f \in [Desired -> Ids] : \A s \in Desired : f[s] \in KnownId(s)}}
CurrentVersion == {<<s, pupils[s].title>> : s \in Desired}

ItemFor(i, action, seen) ==
  [action |-> action,
   pupil |-> CASE action = "CONFLICT" -> "none" [] action = "DELETE" -> identity[i] [] OTHER -> i,
   title |-> IF i \in Desired THEN pupils[i].title ELSE seen[i],
   status |-> IF action \in {"MATCHED", "CONFLICT"} THEN "SKIPPED" ELSE "PENDING",
   named |-> FALSE]

Found(version, seen) ==
  LET new == Compare(seen) IN
  [roster |-> version, device |-> seen, items |-> [i \in DOMAIN new |-> ItemFor(i, new[i], seen)]]

-----------------------------------------------------------------------------
(* The manager.                                                            *)

\* A step of the manager touches jobs and the request it is a step of.
ByManager == UNCHANGED <<around, serving, bridge, rosterFaults, compared>>

\* DeviceRosterAnalyzeView: the check and the INSERT are separate.
AnalyzeCheck(m) ==
  /\ Len(jobs) + Cardinality({n \in Managers : manager[n].pc = "create"}) < MaxJobs
  /\ manager[m].pc = "idle" /\ \A j \in Idx : jobs[j].status \notin OpenJob
  /\ manager' = [manager EXCEPT ![m].pc = "create"]
  /\ UNCHANGED jobs /\ ByManager

AnalyzeCreate(m) ==
  /\ manager[m].pc = "create" /\ Len(jobs) < MaxJobs
  /\ jobs' = Append(jobs, NewJob)
  /\ manager' = [manager EXCEPT ![m] = Unoccupied]
  /\ ByManager

\* What an approval names and a heartbeat hands out.
Waiting(j) == {k \in DOMAIN jobs[j].items : jobs[j].items[k].status = "PENDING"
                                            /\ jobs[j].items[k].action \in Executed}

\* approve_job: the job, the version of the students and the items to name are read.
ApproveCheck(m, j) ==
  /\ manager[m].pc = "idle" /\ jobs[j].status = "READY_FOR_REVIEW"
  /\ manager' = [manager EXCEPT ![m] =
       IF CurrentVersion = jobs[j].roster
       THEN [Unoccupied EXCEPT !.pc = "name", !.job = j,
                               !.rows = {k \in Waiting(j) : ~jobs[j].items[k].named}]
       ELSE [Unoccupied EXCEPT !.pc = "save", !.job = j, !.status = "STALE"]]
  /\ UNCHANGED jobs /\ ByManager

\* The items are named one by one; the save of one that is gone raises.
NameItem(m, k) ==
  /\ manager[m].pc = "name" /\ k \in manager[m].rows
  /\ IF k \in DOMAIN jobs[manager[m].job].items
     THEN /\ jobs' = [jobs EXCEPT ![manager[m].job].items[k].named = TRUE]
          /\ manager' = [manager EXCEPT ![m].rows = @ \ {k}]
     ELSE UNCHANGED jobs /\ manager' = [manager EXCEPT ![m] = Unoccupied]
  /\ ByManager

\* Nothing to execute: the job waits for the last reading at once.
ApproveDecides(m) ==
  /\ manager[m].pc = "name" /\ manager[m].rows = {}
  /\ manager' = [manager EXCEPT ![m] = [@ EXCEPT !.pc = "save", !.status =
       IF \E k \in DOMAIN jobs[manager[m].job].items :
            jobs[manager[m].job].items[k].status = "PENDING" THEN "APPROVED" ELSE "RUNNING"]]
  /\ UNCHANGED jobs /\ ByManager

\* DeviceRosterRetryView: the items, and then the job.
Retry(m, j) ==
  /\ manager[m].pc = "idle" /\ jobs[j].status = "PARTIALLY_FAILED"
  /\ jobs' = [jobs EXCEPT ![j].items =
       [k \in DOMAIN @ |->
          IF @[k].status = "FAILED_RETRYABLE" THEN [@[k] EXCEPT !.status = "PENDING"] ELSE @[k]]]
  /\ manager' = [manager EXCEPT ![m] = [Unoccupied EXCEPT !.pc = "save", !.job = j, !.status = "APPROVED"]]
  /\ ByManager

\* The manager's request saves the status of the job as it decided it.
SaveDecision(m) ==
  /\ manager[m].pc = "save"
  /\ jobs' = [jobs EXCEPT ![manager[m].job].status = manager[m].status]
  /\ manager' = [manager EXCEPT ![m] = Unoccupied]
  /\ ByManager

-----------------------------------------------------------------------------
(* The bridge's requests (client.py, _post).                               *)

\* A thread takes the request that the bridge makes, and gives its answer: the bridge
\* hears it when it still waits for this thread.
Takes(h, request) ==
  /\ serving[h] = Free
  /\ serving' = [serving EXCEPT ![h] = request] /\ bridge' = [bridge EXCEPT !.call = {h}]
Answers(h, heard) ==
  /\ serving' = [serving EXCEPT ![h] = Free]
  /\ bridge' = IF bridge.call = {h} THEN heard ELSE bridge

\* What the bridge does when it was told its work, when a request is over, and when a
\* report was refused: it reports a failure in its place, once.
Told(first, commands) == [Resting EXCEPT !.pc = "read", !.job = first, !.commands = commands]
Working == [Resting EXCEPT !.pc = "work", !.commands = bridge.commands]
Refused ==
  {[bridge EXCEPT !.call = {}, !.report = <<bridge.report[1], "FAILED_RETRYABLE">>]}
    \cup (IF bridge.report[2] = "FAILED_RETRYABLE" THEN {Working} ELSE {})

\* No answer in time, or an error of the server: the request is sent again or, after
\* the last attempt, given up.
SentAgain == [bridge EXCEPT !.call = {}]
GivenUp == CASE bridge.pc = "idle" -> {Resting} [] bridge.pc = "send" -> {Working}
             [] bridge.pc = "report" -> Refused

Unanswered ==
  /\ bridge.pc \in {"send", "report"} \/ bridge.call # {}
  /\ RosterFault
  /\ bridge' \in {SentAgain} \cup GivenUp
  /\ UNCHANGED <<around, jobs, manager, serving, compared>>

\* An item that the thread read and wants to save is gone: the save raises.
RowGone(h) == /\ serving[h].pc \in {"hand", "item"}
              /\ \E k \in DOMAIN serving[h].rows : k \notin DOMAIN jobs[serving[h].job].items

Breaks(h) ==
  /\ serving[h] # Free
  /\ RosterFault \/ (RowGone(h) /\ UNCHANGED rosterFaults)
  /\ serving' = [serving EXCEPT ![h] = Free]
  /\ bridge' \in IF bridge.call = {h} THEN {SentAgain} \cup GivenUp ELSE {bridge}
  /\ UNCHANGED <<around, jobs, manager, compared>>

-----------------------------------------------------------------------------
(* The heartbeat (_bridge_device_configs).                                 *)

FirstOf(statuses) ==
  LET of == {j \in Idx : jobs[j].status \in statuses}
  IN  IF of = {} THEN 0 ELSE CHOOSE j \in of : \A k \in of : j <= k

\* Mutant: an approved job is executed without a second reading.
CommandJob_Approved == FirstOf({"APPROVED", "RUNNING"})

CommandJob == FirstOf({"RUNNING"})

Heartbeat(h) ==
  /\ bridge.pc = "idle" /\ bridge.call = {} /\ FirstOf(OpenJob) # 0
  /\ IF CommandJob = 0 THEN bridge' = Told(FirstOf(OpenJob), {}) /\ UNCHANGED serving
     ELSE Takes(h, [Free EXCEPT !.pc = "list", !.first = FirstOf(OpenJob), !.job = CommandJob])
  /\ UNCHANGED <<around, jobs, manager, rosterFaults, compared>>

\* Mutant: matched users and conflicts are handed out like the others.
Handed_Skipped(j) == {k \in DOMAIN jobs[j].items : jobs[j].items[k].status \in {"PENDING", "SKIPPED"}}

Handed(j) == Waiting(j)

Order(j, k) == [job |-> j, row |-> k, action |-> jobs[j].items[k].action,
                title |-> jobs[j].items[k].title, named |-> jobs[j].items[k].named]

ListItems(h) ==
  /\ serving[h].pc = "list"
  /\ LET j == serving[h].job IN
     serving' = [serving EXCEPT ![h] =
                   [@ EXCEPT !.pc = "hand",
                             !.rows = [k \in Handed(j) |-> jobs[j].items[k].status],
                             !.commands = {Order(j, k) : k \in Handed(j)}]]
  /\ UNCHANGED <<around, jobs, manager, bridge, rosterFaults, compared>>

Without(f, x) == [k \in DOMAIN f \ {x} |-> f[k]]
With(f, x, y) == [k \in DOMAIN f \cup {x} |-> IF k = x THEN y ELSE f[k]]

\* What is handed out is RUNNING, whether the answer arrives or not.
HandOut(h, k) ==
  /\ serving[h].pc = "hand" /\ k \in DOMAIN serving[h].rows
  /\ k \in DOMAIN jobs[serving[h].job].items
  /\ jobs' = [jobs EXCEPT ![serving[h].job].items[k].status = "RUNNING"]
  /\ serving' = [serving EXCEPT ![h].rows = Without(@, k)]
  /\ UNCHANGED <<around, manager, bridge, rosterFaults, compared>>

HeartbeatAnswered(h) ==
  /\ serving[h].pc = "hand" /\ DOMAIN serving[h].rows = {}
  /\ Answers(h, Told(serving[h].first, serving[h].commands))
  /\ UNCHANGED <<around, jobs, manager, rosterFaults, compared>>

-----------------------------------------------------------------------------
(* The reading of the device (BridgeRosterReadView, save_analysis).        *)

\* read_users, or the device does not answer.
ReadUsers ==
  /\ bridge.pc = "read"
  /\ \/ bridge' = [bridge EXCEPT !.pc = "send", !.seen = users] /\ UNCHANGED rosterFaults
     \/ RosterFault /\ bridge' = Working
  /\ UNCHANGED <<around, jobs, manager, serving, compared>>

\* The job is read, and compared with the device when it is approved.
Reading(h) ==
  /\ bridge.pc = "send" /\ bridge.call = {}
  /\ LET j == bridge.job
         same == bridge.seen = jobs[j].device
     IN  CASE jobs[j].status = "APPROVED" ->
                /\ Takes(h, [Free EXCEPT !.pc = "job", !.job = j,
                                         !.status = IF same THEN "RUNNING" ELSE "STALE"])
                /\ confirmed' = IF same THEN confirmed \cup {j} ELSE confirmed
           [] jobs[j].status \in {"RUNNING", "ANALYZING"} ->
                /\ Takes(h, [Free EXCEPT !.pc = "compare", !.job = j, !.status = jobs[j].status,
                                         !.found.device = bridge.seen])
                /\ UNCHANGED confirmed
           [] OTHER -> bridge' = Working /\ UNCHANGED <<serving, confirmed>>
  /\ UNCHANGED <<around, jobs, manager, rosterFaults, reanalysed>>

\* A RUNNING job is COMPLETED when nothing is left to do; an analysis is saved.
CompareReading(h) ==
  /\ serving[h].pc = "compare"
  /\ LET seen == serving[h].found.device
         new == Compare(seen)
     IN  IF serving[h].status = "RUNNING"
         THEN IF \A i \in DOMAIN new : new[i] = "MATCHED"
              THEN /\ serving' = [serving EXCEPT ![h] = [@ EXCEPT !.pc = "job", !.status = "COMPLETED"]]
                   /\ UNCHANGED bridge
              ELSE Answers(h, Working)
         ELSE /\ \E version \in StoredVersions :
                   serving' = [serving EXCEPT ![h] =
                                 [@ EXCEPT !.pc = "clear", !.found = Found(version, seen)]]
              /\ UNCHANGED bridge
  /\ UNCHANGED <<around, jobs, manager, rosterFaults, compared>>

ClearItems(h) ==
  /\ serving[h].pc = "clear"
  /\ jobs' = [jobs EXCEPT ![serving[h].job].items = <<>>]
  /\ serving' = [serving EXCEPT ![h].pc = "fill"]
  /\ UNCHANGED <<around, manager, bridge, rosterFaults, compared>>

\* The rows it inserts stand beside those another analysis inserted meanwhile.
Filled(old, n, items) ==
  [k \in DOMAIN old \cup ((DOMAIN items) \X {n}) |-> IF k \in DOMAIN old THEN old[k] ELSE items[k[1]]]

FillItems(h) ==
  /\ serving[h].pc = "fill"
  /\ LET j == serving[h].job IN
     /\ jobs' = [jobs EXCEPT ![j] =
                   [@ EXCEPT !.items = Filled(jobs[j].items, jobs[j].made + 1, serving[h].found.items),
                             !.made = jobs[j].made + 1]]
     /\ reanalysed' = IF jobs[j].status = "ANALYZING" THEN reanalysed ELSE reanalysed \cup {j}
  /\ serving' = [serving EXCEPT ![h] = [@ EXCEPT !.pc = "ready", !.found.items = <<>>]]
  /\ UNCHANGED <<around, manager, bridge, rosterFaults, confirmed>>

SaveAnalysis(h) ==
  /\ serving[h].pc = "ready"
  /\ jobs' = [jobs EXCEPT ![serving[h].job] =
                [@ EXCEPT !.status = "READY_FOR_REVIEW", !.roster = serving[h].found.roster,
                          !.device = serving[h].found.device]]
  /\ Answers(h, Working)
  /\ UNCHANGED <<around, manager, rosterFaults, compared>>

\* The last write of a reading and of a result.
SaveJob(h) ==
  /\ serving[h].pc = "job"
  /\ jobs' = [jobs EXCEPT ![serving[h].job].status = serving[h].status]
  /\ Answers(h, Working)
  /\ UNCHANGED <<around, manager, rosterFaults, compared>>

-----------------------------------------------------------------------------
(* The commands and their results.                                         *)

\* create_user, update_user and delete_user of the connector.
Applied(c) ==
  LET i == c.row[1] IN
  CASE c.action = "CREATE" -> IF i \in DOMAIN users THEN users ELSE With(users, i, c.title)
    [] c.action = "UPDATE" -> With(users, i, c.title)
    [] c.action = "DELETE" -> Without(users, i)

\* A command is executed, or it raises, before or after the device took it.
Execute(c) ==
  /\ bridge.pc = "work" /\ c \in bridge.commands
  /\ \/ users' = Applied(c) /\ UNCHANGED rosterFaults
        /\ bridge' = [bridge EXCEPT !.pc = "report", !.commands = @ \ {c},
                                    !.report = <<c, "SUCCEEDED">>]
     \/ RosterFault /\ users' \in {users, Applied(c)}
        /\ bridge' = [bridge EXCEPT !.pc = "report", !.commands = @ \ {c},
                                    !.report = <<c, "FAILED_RETRYABLE">>]
     \/ RosterFault /\ UNCHANGED users
        /\ bridge' = [bridge EXCEPT !.pc = "report", !.commands = @ \ {c},
                                    !.report = <<c, "FAILED_FINAL">>]
  /\ UNCHANGED <<pupils, identity, rosterChanges, mapped, jobs, manager, serving, compared>>

\* Mutant: a result that was stored already is stored again.
Settled_Never(item) == FALSE

Settled(item) == item.status \in {"SUCCEEDED", "FAILED_FINAL"}

\* BridgeRosterCommandResultView reads the job and the item.  A blank command_id, a
\* job that is over and an item that is gone are refused.
ResultArrives(h) ==
  /\ bridge.pc = "report" /\ bridge.call = {}
  /\ LET c == bridge.report[1]
         items == jobs[c.job].items
     IN  IF ~c.named \/ jobs[c.job].status \notin {"APPROVED", "RUNNING"} \/ c.row \notin DOMAIN items
         THEN bridge' \in Refused /\ UNCHANGED serving
         ELSE IF Settled(items[c.row]) THEN bridge' = Working /\ UNCHANGED serving
         ELSE Takes(h, [Free EXCEPT !.pc = "item", !.job = c.job, !.commands = {c},
                          !.rows = [k \in {c.row} |-> items[k].status],
                          !.pupil = items[c.row].pupil, !.result = bridge.report[2]])
  /\ UNCHANGED <<around, jobs, manager, rosterFaults, compared>>

StoreItem(h) ==
  /\ serving[h].pc = "item"
  /\ \E k \in DOMAIN serving[h].rows :
       /\ k \in DOMAIN jobs[serving[h].job].items
       /\ jobs' = [jobs EXCEPT ![serving[h].job].items[k].status = serving[h].result]
  /\ serving' = [serving EXCEPT ![h] =
       IF @.result = "SUCCEEDED" /\ @.pupil # "none" THEN [@ EXCEPT !.pc = "identity"]
       ELSE [Free EXCEPT !.pc = "count", !.job = serving[h].job]]
  /\ UNCHANGED <<around, manager, bridge, rosterFaults, compared>>

StoreIdentity(h) ==
  /\ serving[h].pc = "identity"
  /\ \E c \in serving[h].commands :
       IF c.action = "DELETE"
       THEN /\ identity' = IF identity[c.row[1]] = "unmatched"
                            THEN [identity EXCEPT ![c.row[1]] = "blank"] ELSE identity
            /\ UNCHANGED mapped
       ELSE /\ identity' = [identity EXCEPT ![c.row[1]] = serving[h].pupil]
            /\ mapped' = mapped \cup {c.row[1]}
  /\ serving' = [serving EXCEPT ![h] = [Free EXCEPT !.pc = "count", !.job = serving[h].job]]
  /\ UNCHANGED <<pupils, users, rosterChanges, jobs, manager, bridge, rosterFaults, compared>>

\* The status of the job from what its items are now.
JobOutcome(statuses) ==
  IF statuses \cap {"PENDING", "RUNNING"} = {} /\ statuses \cap {"FAILED_FINAL", "FAILED_RETRYABLE"} # {}
  THEN "PARTIALLY_FAILED" ELSE "RUNNING"

CountItems(h) ==
  /\ serving[h].pc = "count"
  /\ LET items == jobs[serving[h].job].items IN
     serving' = [serving EXCEPT ![h] =
                   [Free EXCEPT !.pc = "job", !.job = serving[h].job,
                                !.status = JobOutcome({items[k].status : k \in DOMAIN items})]]
  /\ UNCHANGED <<around, jobs, manager, bridge, rosterFaults, compared>>

CycleEnds ==
  /\ bridge.pc = "work" /\ bridge.commands = {}
  /\ bridge' = Resting
  /\ UNCHANGED <<around, jobs, manager, serving, rosterFaults, compared>>

\* The bridge is restarted: it keeps nothing of a cycle.
BridgeDies ==
  /\ bridge # Resting /\ RosterFault
  /\ bridge' = Resting
  /\ UNCHANGED <<around, jobs, manager, serving, compared>>

-----------------------------------------------------------------------------
RosterNext ==
  \/ \E s \in Pupils, l \in Lifecycle, t \in Titles : PupilChanges(s, l, t)
  \/ \E i \in Ids : UnknownScan(i) \/ UnmapIdentity(i) \/ \E s \in Pupils : MapIdentity(i, s)
  \/ \E i \in Ids : \/ EditedByHand(Without(users, i))
                    \/ \E t \in Titles : EditedByHand(With(users, i, t))
  \/ \E m \in Managers :
       \/ AnalyzeCheck(m) \/ AnalyzeCreate(m) \/ ApproveDecides(m) \/ SaveDecision(m)
       \/ \E k \in manager[m].rows : NameItem(m, k)
       \/ \E j \in Idx : ApproveCheck(m, j) \/ Retry(m, j)
  \/ \E h \in Servers :
       \/ Heartbeat(h) \/ ListItems(h) \/ HeartbeatAnswered(h)
       \/ \E k \in DOMAIN serving[h].rows : HandOut(h, k)
       \/ Reading(h) \/ CompareReading(h) \/ ClearItems(h) \/ FillItems(h) \/ SaveAnalysis(h)
       \/ SaveJob(h) \/ ResultArrives(h) \/ StoreItem(h) \/ StoreIdentity(h) \/ CountItems(h)
       \/ Breaks(h)
  \/ ReadUsers \/ Unanswered \/ CycleEnds \/ BridgeDies
  \/ \E c \in bridge.commands : Execute(c)

RosterSpec == RosterInit /\ [][RosterNext]_rosterVars

-----------------------------------------------------------------------------
(* Properties.                                                             *)

\* The types of the jobs, their items, the device, the requests and the bridge.
RosterTypeOK ==
  /\ pupils \in [Pupils -> [state: Lifecycle, title: Titles]]
  /\ identity \in [Ids -> Pupils \cup {"none", "unmatched", "blank"}] /\ users \in Users
  /\ \A j \in Idx : /\ jobs[j].status \in JobStatus /\ jobs[j].device \in Users
                    /\ \A k \in DOMAIN jobs[j].items : jobs[j].items[k] \in Item
  /\ \A m \in Managers : manager[m].job \in 0..MaxJobs /\ manager[m].status \in JobStatus
  /\ \A h \in Servers : /\ serving[h].job \in 0..MaxJobs /\ serving[h].status \in JobStatus
                        /\ serving[h].commands \subseteq Command
  /\ bridge.commands \subseteq Command /\ bridge.seen \in Users
  /\ rosterChanges \in 0..RosterChanges /\ rosterFaults \in 0..RosterFaults

\* A user that was enrolled at the device by hand and never mapped to a student
\* is not touched by the platform, whatever students, identities and previews went
\* through and however requests overlapped.
UnknownKept ==
  [][\A i \in Locals \ mapped :
       bridge' # bridge =>
         (i \in DOMAIN users <=> i \in DOMAIN users') /\ (i \in DOMAIN users => users'[i] = users[i])
    ]_rosterVars

\* A request that is still being served read the item before it succeeded and is to
\* save it, or is to clear the items of the job for an analysis.
Overtaken(j, k) ==
  \E h \in Servers :
    /\ serving[h].job = j
    /\ \/ serving[h].pc = "clear"
       \/ /\ serving[h].pc \in {"hand", "item"} /\ k \in DOMAIN serving[h].rows
          /\ serving[h].rows[k] # "SUCCEEDED"

\* Results are delivered twice, late and in contradiction (a lost answer ends in
\* FAILED_RETRYABLE), jobs are retried and approved twice: an item that succeeded
\* stays succeeded, unless a request that overlapped the success undoes it.
SucceededStays ==
  [][\A j \in Idx : \A k \in DOMAIN jobs[j].items :
       jobs[j].items[k].status = "SUCCEEDED" /\ ~Overtaken(j, k) =>
         k \in DOMAIN jobs'[j].items /\ jobs'[j].items[k].status = "SUCCEEDED"]_rosterVars

\* No blind write: the bridge holds commands only of jobs whose preview was compared
\* with the device once more after the approval, and of those that a late analysis
\* gave new items after their own was over.
NoBlindWrite == \A c \in bridge.commands : c.job \in confirmed \cup reanalysed

\* The device id that a student is known by is preserved: no preview creates a
\* second user for a student whose identity on this device is known.
KnownIdPreserved ==
  [][\A h \in Servers : serving[h].pc = "compare" /\ serving'[h].pc = "clear" =>
       \A i \in DOMAIN serving'[h].found.items :
         serving'[h].found.items[i].action = "CREATE" =>
           ~\E k \in Ids \ {i} : identity[k] = i]_rosterVars

\* What lost, repeated and late answers do not undo: users of the device the school
\* does not know, and items that succeeded.
RosterKept == UnknownKept /\ SucceededStays
=============================================================================
