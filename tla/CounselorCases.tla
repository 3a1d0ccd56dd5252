--------------------------- MODULE CounselorCases ---------------------------
(***************************************************************************)
(* The follow-up cases of one student                                      *)
(* (backend/counseling/services/cases.py, plans.py, sessions.py,           *)
(* teacher_requests.py).                                                   *)
(*                                                                         *)
(* Closing a case locks its row.  The other operations read the case (or   *)
(* the plan, or the request) first and write later, in a transaction of    *)
(* their own: a clerk is a request between these two steps.                *)
(***************************************************************************)
EXTENDS Integers, FiniteSets

CONSTANTS
  CaseReferrals,  \* referrals of the student; a case is known by its referral
  Plans,          \* plans and activities of a case
  Clerks,         \* requests
  CaseSteps       \* bound: requests that are started

ASSUME CaseBounds == CaseSteps \in Nat

VARIABLES
  received,  \* the referrals that are ACKNOWLEDGED
  cases,     \* [CaseReferrals -> the CounselorCase]
  clerk,     \* [Clerks -> what the request is about to write]
  caseSteps

caseVars == <<received, cases, clerk, caseSteps>>

LiveStatus == {"OPEN", "UNDER_ASSESSMENT", "FOLLOW_UP_ACTIVE", "RESOLVED"}
PlanStatus == {"none", "DRAFT", "ACTIVE", "COMPLETED", "CANCELLED"}
Finished == {"COMPLETED", "CANCELLED"}

\* activity: of each plan, its FollowUpActivity; ask: the TeacherFollowUpRequest;
\* answers: its TeacherFollowUpResponses; meetings: sessions that count, and voided.
Case == [status: LiveStatus \cup {"none", "CLOSED"}, plans: [Plans -> PlanStatus],
         activity: [Plans -> {"none", "PENDING", "COMPLETED", "CANCELLED"}],
         ask: {"none", "PENDING", "ANSWERED", "CANCELLED"}, answers: Nat,
         meeting: {"none", "RECORDED", "VOIDED"}]
NoCase == [status |-> "none", plans |-> [p \in Plans |-> "none"],
           activity |-> [p \in Plans |-> "none"], ask |-> "none", answers |-> 0,
           meeting |-> "none"]

AtRest == [op |-> "none"]

CaseInit ==
  /\ received \in SUBSET CaseReferrals
  /\ cases = [r \in CaseReferrals |-> NoCase] /\ clerk = [k \in Clerks |-> AtRest]
  /\ caseSteps = 0

Live(r) == cases[r].status \in LiveStatus
OtherLive(r) == \E s \in CaseReferrals \ {r} : Live(s)

\* A request reads and remembers; it writes, or gives up.
Begin(k, intent) ==
  /\ clerk[k] = AtRest /\ caseSteps < CaseSteps
  /\ clerk' = [clerk EXCEPT ![k] = intent] /\ caseSteps' = caseSteps + 1
  /\ UNCHANGED <<received, cases>>
Write(k, r, row) ==
  /\ cases' = [cases EXCEPT ![r] = row]
  /\ clerk' = [clerk EXCEPT ![k] = AtRest]
  /\ UNCHANGED <<received, caseSteps>>

\* A new row is nobody else's: the rows of the model are created by one request each.
NoneInFlight(op, r) == \A k \in Clerks : ~(clerk[k].op = op /\ clerk[k].ref = r)
NoneInFlightOn(op, r, p) ==
  \A k \in Clerks : ~(clerk[k].op = op /\ clerk[k].ref = r /\ clerk[k].plan = p)

\* acknowledge_referral and close_referral.
ReferralMoves(r) ==
  /\ caseSteps < CaseSteps /\ caseSteps' = caseSteps + 1
  /\ received' = IF r \in received THEN received \ {r} ELSE received \cup {r}
  /\ UNCHANGED <<cases, clerk>>

-----------------------------------------------------------------------------
(* open_counselor_case.                                                    *)

\* The referral is read first; the lock on a live case of the student locks
\* nothing when there is none.
OpenCheck(k, r) ==
  /\ r \in received /\ ~OtherLive(r)
  /\ Begin(k, [op |-> "open", ref |-> r])

\* Mutant: without the unique constraint on the referral the file is opened anew.
Unopened_Any(r) == TRUE

\* uniq_case_per_referral.
Unopened(r) == cases[r].status = "none"

OpenSave(k) ==
  /\ clerk[k].op = "open"
  /\ LET r == clerk[k].ref
     IN  Write(k, r, IF Unopened(r) THEN [NoCase EXCEPT !.status = "OPEN"] ELSE cases[r])

-----------------------------------------------------------------------------
(* The status of a case.                                                   *)

\* ALLOWED_STATUS_FLOW.
Flow == [OPEN |-> {"UNDER_ASSESSMENT", "FOLLOW_UP_ACTIVE"},
         UNDER_ASSESSMENT |-> {"FOLLOW_UP_ACTIVE", "RESOLVED"},
         FOLLOW_UP_ACTIVE |-> {"UNDER_ASSESSMENT", "RESOLVED"},
         RESOLVED |-> {"FOLLOW_UP_ACTIVE"}]

StatusCheck(k, r, to) ==
  /\ Live(r) /\ to \in Flow[cases[r].status]
  /\ Begin(k, [op |-> "status", ref |-> r, to |-> to])

StatusSave(k) ==
  /\ clerk[k].op = "status"
  /\ Write(k, clerk[k].ref, [cases[clerk[k].ref] EXCEPT !.status = clerk[k].to])

\* Mutant: every request to a teacher is cancelled, answered or not.
Withdrawn_All(ask) == IF ask = "none" THEN "none" ELSE "CANCELLED"

Withdrawn(ask) == IF ask = "PENDING" THEN "CANCELLED" ELSE ask

\* Mutant: the plan is closed with the case.
Completed_Closed(plan) == IF plan = "ACTIVE" THEN "CLOSED" ELSE plan

Completed(plan) == IF plan = "ACTIVE" THEN "COMPLETED" ELSE plan

\* close_case: the locked row, its active plans, activities and requests.
CloseCase(r) ==
  /\ Live(r) /\ caseSteps < CaseSteps /\ caseSteps' = caseSteps + 1
  /\ LET row == cases[r]
     IN  cases' = [cases EXCEPT ![r] =
           [row EXCEPT !.status = "CLOSED",
                       !.plans = [p \in Plans |-> Completed(row.plans[p])],
                       !.activity = [p \in Plans |-> IF row.activity[p] = "PENDING" THEN "CANCELLED"
                                                     ELSE row.activity[p]],
                       !.ask = Withdrawn(row.ask)]]
  /\ UNCHANGED <<received, clerk>>

\* reopen_case holds the row until it saves; the other cases of the student are
\* read without a lock.
ReopenCheck(k, r) ==
  /\ cases[r].status = "CLOSED" /\ ~OtherLive(r)
  /\ NoneInFlight("reopen", r)
  /\ Begin(k, [op |-> "reopen", ref |-> r])

ReopenSave(k) ==
  /\ clerk[k].op = "reopen"
  /\ Write(k, clerk[k].ref, [cases[clerk[k].ref] EXCEPT !.status = "OPEN"])

-----------------------------------------------------------------------------
(* Plans and activities.                                                   *)

\* Mutant: without the partial unique constraint two plans are active.
MayActivate_Always(row, p) == TRUE

\* uniq_active_plan_per_case.
MayActivate(row, p) == \A q \in Plans \ {p} : row.plans[q] # "ACTIVE"

\* create_plan and change_plan_status: the plan as it was read.
PlanCheck(k, r, p, to) ==
  /\ cases[r].status # "none" /\ cases[r].plans[p] \notin Finished
  /\ to = "ACTIVE" => Live(r)
  /\ cases[r].plans[p] = "none" => Live(r) /\ NoneInFlightOn("plan", r, p)
  /\ to \in IF cases[r].plans[p] = "none" THEN {"DRAFT", "ACTIVE"} ELSE {"ACTIVE"} \cup Finished
  /\ Begin(k, [op |-> "plan", ref |-> r, plan |-> p, to |-> to])

\* A unique violation gives the transaction up.
PlanSave(k) ==
  /\ clerk[k].op = "plan"
  /\ LET row == cases[clerk[k].ref] p == clerk[k].plan to == clerk[k].to
     IN  Write(k, clerk[k].ref,
               IF to # "ACTIVE" \/ MayActivate(row, p)
               THEN [row EXCEPT !.plans[p] = to] ELSE row)

\* add_activity and complete_activity.
ActivityCheck(k, r, p, to) ==
  /\ \/ to = "PENDING" /\ Live(r) /\ cases[r].activity[p] = "none"
        /\ NoneInFlightOn("activity", r, p) /\ cases[r].plans[p] \in {"DRAFT", "ACTIVE"}
     \/ to = "COMPLETED" /\ cases[r].activity[p] = "PENDING"
  /\ Begin(k, [op |-> "activity", ref |-> r, plan |-> p, to |-> to])

ActivitySave(k) ==
  /\ clerk[k].op = "activity"
  /\ Write(k, clerk[k].ref, [cases[clerk[k].ref] EXCEPT !.activity[clerk[k].plan] = clerk[k].to])

-----------------------------------------------------------------------------
(* Sessions and the requests to teachers.                                  *)

\* add_session; void_session locks the session.
SessionCheck(k, r) ==
  /\ Live(r) /\ cases[r].meeting = "none" /\ NoneInFlight("session", r)
  /\ Begin(k, [op |-> "session", ref |-> r])

SessionSave(k) ==
  /\ clerk[k].op = "session"
  /\ Write(k, clerk[k].ref, [cases[clerk[k].ref] EXCEPT !.meeting = "RECORDED"])

VoidSession(r) ==
  /\ cases[r].meeting = "RECORDED" /\ caseSteps < CaseSteps /\ caseSteps' = caseSteps + 1
  /\ cases' = [cases EXCEPT ![r].meeting = "VOIDED"]
  /\ UNCHANGED <<received, clerk>>

\* request_teacher_follow_up.
AskCheck(k, r) ==
  /\ Live(r) /\ cases[r].ask = "none" /\ NoneInFlight("ask", r)
  /\ Begin(k, [op |-> "ask", ref |-> r])

AskSave(k) ==
  /\ clerk[k].op = "ask"
  /\ Write(k, clerk[k].ref, [cases[clerk[k].ref] EXCEPT !.ask = "PENDING"])

\* TeacherFollowUpResponse.request is one to one.
Unanswered(row) == row.answers = 0

\* respond_to_request.
AnswerCheck(k, r) ==
  /\ cases[r].ask \notin {"none", "CANCELLED"}
  /\ Begin(k, [op |-> "answer", ref |-> r])

AnswerSave(k) ==
  /\ clerk[k].op = "answer"
  /\ LET row == cases[clerk[k].ref]
     IN  Write(k, clerk[k].ref,
               IF Unanswered(row)
               THEN [row EXCEPT !.answers = row.answers + 1, !.ask = "ANSWERED"] ELSE row)

-----------------------------------------------------------------------------
CaseNext ==
  \/ \E r \in CaseReferrals : ReferralMoves(r) \/ CloseCase(r) \/ VoidSession(r)
  \/ \E k \in Clerks :
       \/ OpenSave(k) \/ StatusSave(k) \/ ReopenSave(k) \/ PlanSave(k) \/ ActivitySave(k)
       \/ SessionSave(k) \/ AskSave(k) \/ AnswerSave(k)
       \/ \E r \in CaseReferrals :
            \/ OpenCheck(k, r) \/ ReopenCheck(k, r) \/ SessionCheck(k, r) \/ AskCheck(k, r)
            \/ AnswerCheck(k, r)
            \/ \E to \in LiveStatus : StatusCheck(k, r, to)
            \/ \E p \in Plans, to \in PlanStatus : PlanCheck(k, r, p, to)
            \/ \E p \in Plans, to \in {"PENDING", "COMPLETED"} : ActivityCheck(k, r, p, to)

CaseSpec == CaseInit /\ [][CaseNext]_caseVars

-----------------------------------------------------------------------------
(* Properties.                                                             *)

\* The types of the cases and what the requests are about to write.
CaseTypeOK ==
  /\ received \subseteq CaseReferrals /\ cases \in [CaseReferrals -> Case]
  /\ \A k \in Clerks : clerk[k] = AtRest \/ clerk[k].ref \in CaseReferrals
  /\ caseSteps \in 0..CaseSteps

\* Requests that race to create or to activate plans, and the closing of the case,
\* leave one active plan at most.
OneActivePlan ==
  \A r \in CaseReferrals : Cardinality({p \in Plans : cases[r].plans[p] = "ACTIVE"}) <= 1

\* An answer that was sent is not changed, repeated or lost: the request stays
\* ANSWERED when the case is closed, reopened or answered again at that moment.
AnswerKept ==
  \A r \in CaseReferrals : cases[r].answers <= 1 /\ (cases[r].answers = 1 <=> cases[r].ask = "ANSWERED")

\* The file of a referral is opened once: no later request to open it takes back
\* what was written into it.
OpenedOnce ==
  [][\A r \in CaseReferrals : cases[r].status # "none" =>
       /\ cases'[r].status # "none"
       /\ \A p \in Plans : cases[r].plans[p] # "none" => cases'[r].plans[p] # "none"]_caseVars

\* "No second live file for the same student."
OneLiveCase == \A r, s \in CaseReferrals : Live(r) /\ Live(s) => r = s

\* "Closing tidies up what the counselor left behind: no plans, no pending requests."
ClosedIsTidy ==
  \A r \in CaseReferrals : cases[r].status = "CLOSED" =>
    cases[r].ask # "PENDING" /\ \A p \in Plans : cases[r].plans[p] # "ACTIVE"

\* What racing requests leave of a file: one active plan, and answers as they were sent.
FilesInvariant == OneActivePlan /\ AnswerKept
=============================================================================
