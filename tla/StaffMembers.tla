---------------------------- MODULE StaffMembers -----------------------------
(***************************************************************************)
(* The staff of one school (backend/staff, the managers of                 *)
(* subscriptions/services/school_accounts.py, the invitations of           *)
(* accounts/api/views.py): memberships with their roles and profiles, the  *)
(* vice principals' scopes with the routing of referrals, and the import   *)
(* of teachers.                                                            *)
(*                                                                         *)
(* A view reads the membership with its roles and hands it to a service,   *)
(* which checks what was read and writes in one transaction; only the      *)
(* counting of members and the search for a manager hold the school's row, *)
(* and only the scopes lock the rows of grades and sections.  Classes     *)
(* belong to one grade.  Capabilities, names, counselors' sections (as the *)
(* scopes, without grades) and passwords are left out.  The platform can   *)
(* suspend a manager only next to a second active one, and reactivate a    *)
(* suspended one: neither exists here.  A cancellation is one action,      *)
(* though its three statements are three transactions.                     *)
(***************************************************************************)
EXTENDS Integers, FiniteSets

CONSTANTS
  People, NoOne,
  Classes,      \* the sections of the school, of one grade
  Tabs,         \* request threads
  StaffJobs,    \* StaffImportJobs
  StaffLimit,   \* MAX_STAFF of the contract
  StaffSteps    \* bound on the requests that begin

ASSUME StaffBounds == {StaffLimit, StaffSteps} \subseteq Nat /\ IsFiniteSet(People)
ASSUME StaffApart == NoOne \notin People /\ "grade" \notin Classes

VARIABLES
  accounts,  \* people with a User, of this school or another
  staff,     \* [People -> membership, roles and profile]
  scope,     \* [Scopes -> the vice principal it is assigned to]
  tabs,      \* [Tabs -> what the request has read]
  staffJobs,      \* [StaffJobs -> the import, its staged rows and its file]
  staffParsing,   \* imports with a message for process_staff_import_job
  could,     \* history: [Tabs -> the answers a routing could have got since it locked]
  answered,  \* history: an invitation was accepted, a suspension ended, or the
             \* contract was for more members before
  imported,  \* history: [StaffJobs -> how often its rows were applied]
  staffBegun

staffVars == <<accounts, staff, scope, tabs, staffJobs, staffParsing, could, answered, imported, staffBegun>>

Scopes == {"grade"} \cup Classes
Roles == {"MANAGER", "VICE", "TEACHER"}
Membership == [status: {"NONE", "ACTIVE", "INVITED", "DECLINED", "SUSPENDED", "LEFT"},
               roles: SUBSET Roles, profile: BOOLEAN]
Stranger == [status |-> "NONE", roles |-> {}, profile |-> FALSE]
AManager == [status |-> "ACTIVE", roles |-> {"MANAGER"}, profile |-> FALSE]

NoTab == [step |-> "idle", who |-> NoOne, saw |-> Stranger, role |-> "TEACHER",
          want |-> {}, sure |-> FALSE, job |-> "none"]
\* Whom a file lists.
Files == {{p} : p \in People} \cup {People}
NoStaffJob == [status |-> "none", rows |-> [p \in People |-> "absent"], file |-> FALSE]
Uploaded(listed) == [status |-> "UPLOADED", file |-> TRUE,
                     rows |-> [p \in People |-> IF p \in listed THEN "listed" ELSE "absent"]]

VicePrincipal == [status |-> "ACTIVE", roles |-> {"VICE"}, profile |-> TRUE]

\* An older school without a manager, a school as create_school leaves it, or one whose
\* vice principals share the scopes, perhaps under a contract for more members.
StaffInit ==
  /\ accounts \in SUBSET People
  /\ \E managers \in SUBSET accounts, vices \in SUBSET accounts :
       /\ Cardinality(managers) <= 1 /\ managers \cap vices = {} /\ (managers = {} => vices = {})
       /\ answered = (Cardinality(managers \cup vices) > StaffLimit)
       /\ staff = [p \in People |-> IF p \in managers THEN AManager
                                    ELSE IF p \in vices THEN VicePrincipal ELSE Stranger]
       /\ scope \in [Scopes -> vices \cup {NoOne}]
  /\ tabs = [t \in Tabs |-> NoTab]
  /\ staffJobs \in [StaffJobs -> {NoStaffJob} \cup {Uploaded(listed) : listed \in Files}]
  /\ staffParsing = {}
  /\ could = [t \in Tabs |-> {}]
  /\ imported = [j \in StaffJobs |-> 0] /\ staffBegun = 0

-----------------------------------------------------------------------------
AtStep(set) == {t \in Tabs : tabs[t].step \in set}
SchoolManagers == {p \in People : "MANAGER" \in staff[p].roles}
ActiveStaff == {p \in People : staff[p].status = "ACTIVE"}

\* Mutant: the seat that is asked for is not counted.
HasSeats_Off(adding) == Cardinality(ActiveStaff) <= StaffLimit

\* Mutant: nobody waits for the row of the school.
CapacityFree_Always(t) == TRUE

\* lock_school_capacity waits for the other transactions that hold the school's row.
CapacityFree(t) == AtStep({"creating", "appointing", "importing"}) \subseteq {t}

\* require_capacity for so many more members.
HasSeats(adding) == Cardinality(ActiveStaff) + adding <= StaffLimit

\* add_manager holds the membership it has found; who writes it, or gives it a role, waits.
RowFree(t, p) ==
  staff[p].status = "NONE" \/ \A u \in AtStep({"appointing"}) \ {t} : tabs[u].who # p

\* Mutant: grades and sections are read without a lock.
ScopesFree_Always(t, wanted) == TRUE

\* The rows of grades and sections a transaction wants are not locked by another.
ScopesFree(t, wanted) ==
  \A u \in AtStep({"scoping", "routing"}) \ {t} : tabs[u].want \cap wanted = {}

\* Mutant: nobody waits for the row of the job.
JobFree_Always(j) == TRUE

\* No transaction holds the row of the job.
JobFree(j) == \A t \in AtStep({"sorted", "importing"}) : tabs[t].job # j

OpenTab(t, record) ==
  /\ tabs[t] = NoTab /\ staffBegun < StaffSteps /\ staffBegun' = staffBegun + 1
  /\ tabs' = [tabs EXCEPT ![t] = record]

CloseTab(t) == tabs' = [tabs EXCEPT ![t] = NoTab]
Goto(t, step) == tabs' = [tabs EXCEPT ![t].step = step]
Unscoped(p) == [s \in Scopes |-> IF scope[s] = p THEN NoOne ELSE scope[s]]

-----------------------------------------------------------------------------
(* One member of staff.                                                      *)

\* SchoolScopedAPIView and get_object: the manager of the school opens a profile.
OpenProfile(t, p) ==
  /\ SchoolManagers \cap ActiveStaff # {} /\ staff[p].profile
  /\ OpenTab(t, [NoTab EXCEPT !.step = "opened", !.who = p, !.saw = staff[p]])
  /\ UNCHANGED <<accounts, staff, scope, staffJobs, staffParsing, answered, imported>>

\* Mutant: the school manages its manager's account too.
Manageable_Any(t) == tabs[t].step = "opened"

\* _manager_account_requires_platform, with the roles the view has read.
Manageable(t) == tabs[t].step = "opened" /\ "MANAGER" \notin tabs[t].saw.roles

AddRole(t, role) ==
  LET p == tabs[t].who IN
  /\ Manageable(t) /\ role # "MANAGER" /\ role \notin staff[p].roles /\ RowFree(t, p)
  /\ staff' = [staff EXCEPT ![p].roles = @ \cup {role}] /\ CloseTab(t)
  /\ UNCHANGED <<accounts, scope, staffJobs, staffParsing, answered, imported, staffBegun>>

\* remove_role counts the roles that the view has prefetched.
RemoveRole(t, role) ==
  LET p == tabs[t].who IN
  /\ Manageable(t) /\ role \in staff[p].roles /\ Cardinality(tabs[t].saw.roles) # 1
  /\ RowFree(t, p) /\ CloseTab(t)
  /\ staff' = [staff EXCEPT ![p].roles = @ \ {role}]
  /\ scope' = IF role = "VICE" THEN Unscoped(p) ELSE scope
  /\ UNCHANGED <<accounts, staffJobs, staffParsing, answered, imported, staffBegun>>

Suspend(t) ==
  LET p == tabs[t].who IN
  /\ Manageable(t) /\ tabs[t].saw.status = "ACTIVE" /\ RowFree(t, p) /\ CloseTab(t)
  /\ staff' = [staff EXCEPT ![p].status = "SUSPENDED"] /\ scope' = Unscoped(p)
  /\ UNCHANGED <<accounts, staffJobs, staffParsing, answered, imported, staffBegun>>

Reactivate(t) ==
  LET p == tabs[t].who IN
  /\ Manageable(t) /\ tabs[t].saw.status = "SUSPENDED" /\ RowFree(t, p) /\ CloseTab(t)
  /\ staff' = [staff EXCEPT ![p].status = "ACTIVE"] /\ answered' = TRUE
  /\ UNCHANGED <<accounts, scope, staffJobs, staffParsing, imported, staffBegun>>

Reinvite(t) ==
  LET p == tabs[t].who IN
  /\ Manageable(t) /\ tabs[t].saw.status = "DECLINED" /\ RowFree(t, p) /\ CloseTab(t)
  /\ staff' = [staff EXCEPT ![p].status = "INVITED"]
  /\ UNCHANGED <<accounts, scope, staffJobs, staffParsing, answered, imported, staffBegun>>

\* delete_staff keeps the membership as LEFT.
DeleteStaff(t) ==
  LET p == tabs[t].who IN
  /\ Manageable(t) /\ RowFree(t, p) /\ CloseTab(t) /\ scope' = Unscoped(p)
  /\ staff' = [staff EXCEPT ![p] = [status |-> "LEFT", roles |-> {}, profile |-> FALSE]]
  /\ UNCHANGED <<accounts, staffJobs, staffParsing, answered, imported, staffBegun>>

\* InvitationAcceptView and InvitationDeclineView: the read, then the save.
OpenInvitation(t, p) ==
  /\ staff[p].status = "INVITED"
  /\ OpenTab(t, [NoTab EXCEPT !.step = "answering", !.who = p])
  /\ UNCHANGED <<accounts, staff, scope, staffJobs, staffParsing, answered, imported>>

Accept(t) ==
  /\ tabs[t].step = "answering" /\ RowFree(t, tabs[t].who) /\ CloseTab(t) /\ answered' = TRUE
  /\ staff' = [staff EXCEPT ![tabs[t].who].status = "ACTIVE"]
  /\ UNCHANGED <<accounts, scope, staffJobs, staffParsing, imported, staffBegun>>

Decline(t) ==
  /\ tabs[t].step = "answering" /\ RowFree(t, tabs[t].who) /\ CloseTab(t)
  /\ staff' = [staff EXCEPT ![tabs[t].who].status = "DECLINED"]
  /\ UNCHANGED <<accounts, scope, staffJobs, staffParsing, answered, imported, staffBegun>>

\* Another school gives the person a User.
HiredElsewhere(p) ==
  /\ p \notin accounts /\ staffBegun < StaffSteps /\ staffBegun' = staffBegun + 1
  /\ accounts' = accounts \cup {p}
  /\ UNCHANGED <<staff, scope, tabs, staffJobs, staffParsing, answered, imported>>

-----------------------------------------------------------------------------
(* Scopes.                                                                   *)

\* A grade that is wanted covers its sections.
Normal(want) == IF "grade" \in want THEN {"grade"} ELSE want
\* Mutant: a conflict with the assignment of a section is not seen.
Conflicts_Grades(p, want) == {s \in want \cap {"grade"} : scope[s] \notin {p, NoOne}}

Conflicts(p, want) == {s \in want : scope[s] \notin {p, NoOne}}
Assigned(p, want) ==
  [s \in Scopes |-> IF s \in want THEN p ELSE IF scope[s] = p THEN NoOne ELSE scope[s]]

\* set_vice_principal_scopes: the locks and the conflicts, then the writes.
LockScopes(t, asked, sure) ==
  LET p == tabs[t].who IN
  /\ tabs[t].step = "opened" /\ "VICE" \in staff[p].roles /\ ScopesFree(t, asked)
  /\ sure \/ Conflicts(p, Normal(asked)) = {}
  /\ tabs' = [tabs EXCEPT ![t].step = "scoping", ![t].want = asked, ![t].sure = sure]
  /\ UNCHANGED <<accounts, staff, scope, staffJobs, staffParsing, answered, imported, staffBegun>>

WriteScopes(t) ==
  /\ tabs[t].step = "scoping" /\ CloseTab(t)
  /\ scope' = Assigned(tabs[t].who, Normal(tabs[t].want))
  /\ UNCHANGED <<accounts, staff, staffJobs, staffParsing, answered, imported, staffBegun>>

Serving(p) == p # NoOne /\ p \in ActiveStaff /\ "VICE" \in staff[p].roles

\* Who is responsible for the students of section s: the section's assignment comes first.
Responsible(s) ==
  IF Serving(scope[s]) THEN scope[s]
  ELSE IF Serving(scope["grade"]) THEN scope["grade"] ELSE NoOne

\* responsible_vice_for_student: the locks and the first query, then the second one.
StartRouting(t, s) ==
  /\ ScopesFree(t, {"grade", s})
  /\ OpenTab(t, [NoTab EXCEPT !.step = "routing", !.want = {"grade", s},
                 !.who = IF Serving(scope[s]) THEN scope[s] ELSE NoOne])
  /\ UNCHANGED <<accounts, staff, scope, staffJobs, staffParsing, answered, imported>>

Routed(t) ==
  IF tabs[t].who # NoOne THEN tabs[t].who
  ELSE IF Serving(scope["grade"]) THEN scope["grade"] ELSE NoOne

EndRouting(t) ==
  /\ tabs[t].step = "routing"
  /\ tabs' = [tabs EXCEPT ![t].step = "routed", ![t].who = Routed(t)]
  /\ UNCHANGED <<accounts, staff, scope, staffJobs, staffParsing, answered, imported, staffBegun>>

\* The referral is created for the answer, and the transaction ends.
Refer(t) ==
  /\ tabs[t].step = "routed" /\ CloseTab(t)
  /\ UNCHANGED <<accounts, staff, scope, staffJobs, staffParsing, answered, imported, staffBegun>>

-----------------------------------------------------------------------------
(* New members and managers.                                                 *)

\* create_staff reads the account and the membership before it waits for the school.
AskHire(t, p, role, asked, sure) ==
  /\ SchoolManagers \cap ActiveStaff # {} /\ ~staff[p].profile
  /\ role # "VICE" => asked = {}
  /\ OpenTab(t, [NoTab EXCEPT !.step = "hiring", !.who = p, !.saw = staff[p], !.role = role,
                  !.want = asked, !.sure = sure])
  /\ UNCHANGED <<accounts, staff, scope, staffJobs, staffParsing, answered, imported>>

LockHire(t) ==
  /\ tabs[t].step = "hiring" /\ tabs[t].saw.status = "NONE" /\ CapacityFree(t) /\ HasSeats(1)
  /\ Goto(t, "creating")
  /\ UNCHANGED <<accounts, staff, scope, staffJobs, staffParsing, answered, imported, staffBegun>>

\* A new account is a member at once, one the platform knows is invited.
Joined(p) == IF p \in accounts THEN "INVITED" ELSE "ACTIVE"

\* The unique membership, the unique profile and unconfirmed conflicts undo the request.
Hire(t) ==
  LET p == tabs[t].who  saw == tabs[t].saw  want == Normal(tabs[t].want)
      new == [status |-> IF saw.status = "NONE" THEN Joined(p)
                         ELSE IF saw.status = "LEFT" THEN "INVITED" ELSE staff[p].status,
              roles |-> staff[p].roles \cup {tabs[t].role}, profile |-> TRUE] IN
  /\ tabs[t].step = "creating" \/ (tabs[t].step = "hiring" /\ saw.status # "NONE")
  /\ saw.status = "NONE" => staff[p].status = "NONE"
  /\ ~staff[p].profile /\ RowFree(t, p) /\ ScopesFree(t, tabs[t].want)
  /\ tabs[t].sure \/ Conflicts(p, want) = {}
  /\ staff' = [staff EXCEPT ![p] = new] /\ accounts' = accounts \cup {p}
  /\ scope' = IF tabs[t].role = "VICE" THEN Assigned(p, want) ELSE scope
  /\ CloseTab(t)
  /\ UNCHANGED <<staffJobs, staffParsing, answered, imported, staffBegun>>

\* add_manager holds the school's row and the account's until it commits.
LockAppointment(t, p) ==
  /\ CapacityFree(t) /\ SchoolManagers = {} /\ RowFree(t, p)
  /\ p \in ActiveStaff \/ HasSeats(1)
  /\ OpenTab(t, [NoTab EXCEPT !.step = "appointing", !.who = p, !.saw = staff[p]])
  /\ UNCHANGED <<accounts, staff, scope, staffJobs, staffParsing, answered, imported>>

Appoint(t) ==
  LET p == tabs[t].who IN
  /\ tabs[t].step = "appointing" /\ CloseTab(t)
  /\ staff' = [staff EXCEPT ![p].status = "ACTIVE", ![p].roles = @ \cup {"MANAGER"}]
  /\ accounts' = accounts \cup {p}
  /\ UNCHANGED <<scope, staffJobs, staffParsing, answered, imported, staffBegun>>

\* A refusal, an error or a crash before the commit.
Abort(t) ==
  /\ tabs[t].step \notin {"idle", "routed"} /\ CloseTab(t)
  /\ UNCHANGED <<accounts, staff, scope, staffJobs, staffParsing, answered, imported, staffBegun>>

-----------------------------------------------------------------------------
(* The import of teachers.                                                   *)

\* categorize_rows.
Category(p) ==
  CASE p \notin accounts -> "NEW"
    [] p \in accounts /\ staff[p].status = "NONE" -> "INVITE"
    [] staff[p].status = "INVITED" -> "PENDING"
    [] staff[p].status \in {"DECLINED", "SUSPENDED", "LEFT"} -> "MANUAL"
    [] staff[p].status = "ACTIVE" /\ "TEACHER" \notin staff[p].roles -> "ADD_ROLE"
    [] staff[p].status = "ACTIVE" /\ "TEACHER" \in staff[p].roles -> "PROFILE"

Categories(rows) == [p \in People |-> IF rows[p] = "absent" THEN "absent" ELSE Category(p)]
Adding(rows) == {p \in People : rows[p] \in {"NEW", "INVITE"}}
Applicable(rows) == {p \in People : rows[p] \in {"NEW", "INVITE", "ADD_ROLE", "PROFILE"}}
OtherRuns(j) == \E k \in StaffJobs \ {j} : staffJobs[k].status = "PROCESSING"

UploadStaff(j, listed) ==
  /\ staffJobs[j].status = "none" /\ staffBegun < StaffSteps /\ staffBegun' = staffBegun + 1
  /\ staffJobs' = [staffJobs EXCEPT ![j] = Uploaded(listed)]
  /\ UNCHANGED <<accounts, staff, scope, tabs, staffParsing, answered, imported>>

\* StaffImportProcessView and StaffImportCancelView read the job without a lock.
OpenImport(t, j, step) ==
  /\ \/ step = "submitting" /\ staffJobs[j].status \in {"UPLOADED", "READY", "FAILED"}
     \/ step = "cancelling" /\ staffJobs[j].status \notin {"none", "COMPLETED"}
  /\ OpenTab(t, [NoTab EXCEPT !.step = step, !.job = j])
  /\ UNCHANGED <<accounts, staff, scope, staffJobs, staffParsing, answered, imported>>

\* uniq_running_staff_import_per_school; the broker may not answer after the save.
SubmitImport(t, sent) ==
  LET j == tabs[t].job IN
  /\ tabs[t].step = "submitting" /\ JobFree(j) /\ ~OtherRuns(j) /\ CloseTab(t)
  /\ staffJobs' = [staffJobs EXCEPT ![j].status = "PROCESSING"]
  /\ staffParsing' = IF sent THEN staffParsing \cup {j} ELSE staffParsing
  /\ UNCHANGED <<accounts, staff, scope, answered, imported, staffBegun>>

\* The status, the rows and the file.
CancelImport(t) ==
  LET j == tabs[t].job IN
  /\ tabs[t].step = "cancelling" /\ JobFree(j) /\ CloseTab(t)
  /\ staffJobs' = [staffJobs EXCEPT ![j] = [NoStaffJob EXCEPT !.status = "CANCELLED"]]
  /\ UNCHANGED <<accounts, staff, scope, staffParsing, answered, imported, staffBegun>>

\* process_staff_import_job: a file that is gone, or that does not parse, fails.
ParseImport(j, legible) ==
  /\ j \in staffParsing /\ JobFree(j) /\ staffParsing' = staffParsing \ {j}
  /\ staffJobs' =
       IF staffJobs[j].status # "PROCESSING" THEN staffJobs
       ELSE IF legible /\ staffJobs[j].file
       THEN [staffJobs EXCEPT ![j].status = "READY", ![j].rows = Categories(staffJobs[j].rows)]
       ELSE [staffJobs EXCEPT ![j].status = "FAILED"]
  /\ UNCHANGED <<accounts, staff, scope, tabs, answered, imported, staffBegun>>

\* commit_import of a preview that is stale: the preview is refreshed.
RefreshPreview(j) ==
  /\ staffJobs[j].status = "READY" /\ JobFree(j) /\ Categories(staffJobs[j].rows) # staffJobs[j].rows
  /\ staffJobs' = [staffJobs EXCEPT ![j].rows = Categories(@)]
  /\ UNCHANGED <<accounts, staff, scope, tabs, staffParsing, answered, imported, staffBegun>>

\* commit_import with the job's row, the rows sorted anew and found as shown.
SortRows(t, j) ==
  /\ staffJobs[j].status = "READY" /\ JobFree(j) /\ ~OtherRuns(j)
  /\ Categories(staffJobs[j].rows) = staffJobs[j].rows
  /\ OpenTab(t, [NoTab EXCEPT !.step = "sorted", !.job = j])
  /\ UNCHANGED <<accounts, staff, scope, staffJobs, staffParsing, answered, imported>>

\* A refusal leaves the import READY_FOR_REVIEW, as Abort does.
LockImport(t) ==
  LET added == Adding(staffJobs[tabs[t].job].rows) IN
  /\ tabs[t].step = "sorted" /\ added # {} /\ CapacityFree(t) /\ HasSeats(Cardinality(added))
  /\ Goto(t, "importing")
  /\ UNCHANGED <<accounts, staff, scope, staffJobs, staffParsing, answered, imported, staffBegun>>

\* _apply_new, _apply_invite and _apply_existing_member: a mobile or a membership that
\* appeared in between is used as it is.
AfterImport(p, category) ==
  [status |-> IF staff[p].status # "NONE" THEN staff[p].status
              ELSE IF category = "NEW" THEN Joined(p) ELSE "INVITED",
   roles |-> staff[p].roles \cup {"TEACHER"}, profile |-> TRUE]

ApplyImport(t) ==
  LET j == tabs[t].job  rows == staffJobs[j].rows IN
  /\ tabs[t].step = "importing" \/ (tabs[t].step = "sorted" /\ Adding(rows) = {})
  /\ \A p \in Applicable(rows) : RowFree(t, p)
  /\ staff' = [p \in People |-> IF p \in Applicable(rows) THEN AfterImport(p, rows[p]) ELSE staff[p]]
  /\ accounts' = accounts \cup Applicable(rows)
  /\ staffJobs' = [staffJobs EXCEPT ![j] = [NoStaffJob EXCEPT !.status = "COMPLETED"]]
  /\ imported' = [imported EXCEPT ![j] = @ + 1] /\ CloseTab(t)
  /\ UNCHANGED <<scope, staffParsing, answered, staffBegun>>

-----------------------------------------------------------------------------
OneMember(t) ==
  \/ \E p \in People : OpenProfile(t, p) \/ OpenInvitation(t, p) \/ LockAppointment(t, p)
  \/ \E role \in Roles : AddRole(t, role) \/ RemoveRole(t, role)
  \/ Suspend(t) \/ Reactivate(t) \/ Reinvite(t) \/ DeleteStaff(t) \/ Accept(t) \/ Decline(t)
  \/ \E p \in People, role \in Roles \ {"MANAGER"}, asked \in SUBSET Scopes, sure \in BOOLEAN :
       AskHire(t, p, role, asked, sure)
  \/ LockHire(t) \/ Hire(t) \/ Appoint(t) \/ Abort(t)

ScopesStep(t) ==
  \/ \E asked \in SUBSET Scopes, sure \in BOOLEAN : LockScopes(t, asked, sure)
  \/ \E s \in Classes : StartRouting(t, s)
  \/ WriteScopes(t) \/ EndRouting(t) \/ Refer(t)

ImportStep ==
  \/ \E j \in StaffJobs : (\E listed \in Files : UploadStaff(j, listed)) \/ RefreshPreview(j)
  \/ \E j \in StaffJobs, legible \in BOOLEAN : ParseImport(j, legible)
  \/ \E t \in Tabs, j \in StaffJobs : SortRows(t, j) \/ \E step \in {"submitting", "cancelling"} : OpenImport(t, j, step)
  \/ \E t \in Tabs, sent \in BOOLEAN : SubmitImport(t, sent)
  \/ \E t \in Tabs : CancelImport(t) \/ LockImport(t) \/ ApplyImport(t)

ServingStaff == {p \in People : Serving(p)}

\* Who is responsible for the students of the section that a request routes.
RouteNow(t) == Responsible(CHOOSE s \in Classes : s \in tabs[t].want)

\* A member who begins to serve while a request routes may be its answer or hide it.
Possible ==
  could' = [t \in Tabs |-> IF t \notin AtStep({"routing", "routed"})' THEN {}
                           ELSE IF ServingStaff' \subseteq ServingStaff THEN could[t] \cup {RouteNow(t)'}
                           ELSE People \cup {NoOne}]

StaffNext ==
  /\ \/ \E t \in Tabs : OneMember(t) \/ ScopesStep(t)
     \/ \E p \in People : HiredElsewhere(p)
     \/ ImportStep
  /\ Possible

StaffSpec == StaffInit /\ [][StaffNext]_staffVars

-----------------------------------------------------------------------------
(* Properties.                                                               *)

StaffTypeOK ==
  /\ accounts \subseteq People /\ staff \in [People -> Membership]
  /\ scope \in [Scopes -> People \cup {NoOne}] /\ staffParsing \subseteq StaffJobs
  /\ could \in [Tabs -> SUBSET (People \cup {NoOne})] /\ answered \in BOOLEAN
  /\ imported \in [StaffJobs -> Nat] /\ staffBegun \in 0..StaffSteps

\* The school has one manager, however requests to add one overlap (school_accounts.py:78).
OneManager == Cardinality(SchoolManagers) <= 1

\* Additions that overlap fill no more seats than MAX_STAFF; accepting an invitation and
\* ending a suspension ask for none.
WithinSeats == answered \/ Cardinality(ActiveStaff) <= StaffLimit

\* Transfers of scopes that overlap a referral give it the old owner or the new one,
\* and do not lose it between them (vice_principal_scopes.py:224-225).
RoutedWhole == \A t \in AtStep({"routed"}) : tabs[t].who \in could[t]

\* An import is applied at most once (commit.py:1).
StaffImportedOnce == \A j \in StaffJobs : imported[j] <= 1

StaffInvariant ==
  StaffTypeOK /\ OneManager /\ WithinSeats /\ RoutedWhole /\ StaffImportedOnce

\* A scope passes from one vice principal to another only in a request that confirmed it
\* (vice_principal_scopes.py:123).
TransfersConfirmed ==
  [][\A s \in Scopes : scope[s] # NoOne /\ scope'[s] \notin {NoOne, scope[s]}
       => \E t \in Tabs : tabs[t].sure /\ tabs'[t] = NoTab]_staffVars

\* The school does not take its manager's role away, from whatever page its requests were
\* opened (management.py:3-6).
ManagerStays == [][SchoolManagers \subseteq SchoolManagers']_staffVars

StaffKept == TransfersConfirmed /\ ManagerStays
=============================================================================
