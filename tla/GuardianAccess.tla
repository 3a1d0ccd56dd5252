---------------------------- MODULE GuardianAccess --------------------------
(***************************************************************************)
(* How one guardian gets and loses access to the students of a school      *)
(* (backend/parents/services.py, activation_email.py,                      *)
(* family_invitation_services.py, contact_api.py and the database triggers *)
(* of migrations 0002 and 0010).                                           *)
(*                                                                         *)
(* The guardian is one mobile number.  Every operation is one transaction  *)
(* that locks the student first.  Messages are sent between two            *)
(* transactions: the first claims the delivery, the second stores the      *)
(* answer, and a worker that dies leaves it claimed.                       *)
(***************************************************************************)
EXTENDS Integers, FiniteSets

CONSTANTS
  Students,
  Applications,  \* identities of GuardianRegistrationRequest rows: a bound
  Links,         \* identities of GuardianActivation rows: a bound
  Invitations,   \* identities of GuardianFamilyInvitation rows: a bound
  MaxRevision,   \* bound: revisions of a student's contact
  MaxEvents      \* bound: decisions, changes and expiries around the links

ASSUME AccessBoundsNat == MaxRevision \in Nat \ {0} /\ MaxEvents \in Nat

VARIABLES
  contact,     \* [Students -> the Student row]
  application, \* [Applications -> row]
  activation,        \* [Links -> row]
  invitation,  \* [Invitations -> row]
  relation,    \* [Students -> the guardian's GuardianStudentRelation]
  vouched,     \* history: the contact revision at which staff last approved the guardian
  events       \* how many of the bounded events have happened

accessVars == <<contact, application, activation, invitation, relation, vouched, events>>

Optional(S) == {{}} \cup {{x} : x \in S}
OpenStatus == {"PENDING", "NEEDS_INFO", "APPROVED"}
Attempt == {"PENDING", "SENDING", "SENT", "FAILED"}
Channels == {"SMS", "EMAIL"}

\* ours: the school has the guardian's number; barred: the number is blocked, or the
\* student is not ACTIVE.  SENT is UNKNOWN too, which every guard treats
\* alike; no guard reads the delivery of a link sent by SMS or by hand.
Contact == [revision: 1..MaxRevision, ours: BOOLEAN, barred: BOOLEAN]
Application == [status: {"NONE", "REJECTED", "ACTIVATED", "CANCELLED"} \cup OpenStatus,
                student: Optional(Students), revision: 1..MaxRevision, bound: BOOLEAN]
\* DEAD is revoked or expired: a link is good for nothing after either.
Link == [status: {"NONE", "LIVE", "USED", "DEAD"}, of: Optional(Applications),
         family: Optional(Invitations), revision: 1..MaxRevision, channel: Channels,
         delivery: Attempt]
Invitation == [status: {"NONE", "LIVE", "CONSUMED", "REVOKED"}, delivery: Attempt]
Relation == [status: {"NONE", "ACTIVE", "SUSPENDED", "REVOKED"}, revision: 1..MaxRevision, bound: BOOLEAN]

NoApplication == [status |-> "NONE", student |-> {}, revision |-> 1, bound |-> TRUE]
NoLink == [status |-> "NONE", of |-> {}, family |-> {}, revision |-> 1,
           channel |-> "SMS", delivery |-> "PENDING"]
NoInvitation == [status |-> "NONE", delivery |-> "PENDING"]

AccessInit ==
  /\ contact \in [Students -> [revision: {1}, ours: {TRUE}, barred: {FALSE}]]
  /\ application = [a \in Applications |-> NoApplication]
  /\ activation = [l \in Links |-> NoLink]
  /\ invitation = [i \in Invitations |-> NoInvitation]
  /\ relation = [s \in Students |-> [status |-> "NONE", revision |-> 1, bound |-> TRUE]]
  /\ vouched = [s \in Students |-> 0] /\ events = 0

Event == events < MaxEvents /\ events' = events + 1

-----------------------------------------------------------------------------
(* Requests and links.                                                     *)

\* uniq_open_guardian_registration.
HasOpen(rows, s) == \E a \in Applications : rows[a].status \in OpenStatus /\ rows[a].student = {s}

\* The student of a request.
Child(a) == CHOOSE s \in Students : application[a].student = {s}

\* submit_registration: a second open request is dropped without a word.
Submit(a, s) ==
  /\ application[a].status = "NONE" /\ ~HasOpen(application, s)
  /\ application' = [application EXCEPT ![a] = [NoApplication EXCEPT !.status = "PENDING", !.student = {s}]]
  /\ UNCHANGED <<contact, activation, invitation, relation, vouched, events>>

\* receipt_status with the applicant's note.
AddNote(a) ==
  /\ application[a].status = "NEEDS_INFO"
  /\ application' = [application EXCEPT ![a].status = "PENDING"]
  /\ UNCHANGED <<contact, activation, invitation, relation, vouched, events>>

\* Mutant: the links issued before stay valid.
RevokeLinks_None(a) == activation

\* The unused links of the request are revoked.
RevokeLinks(a) ==
  [l \in Links |-> IF activation[l].status = "LIVE" /\ activation[l].of = {a}
                   THEN [activation[l] EXCEPT !.status = "DEAD"] ELSE activation[l]]

NewLink(a, family, s, channel) ==
  [NoLink EXCEPT !.status = "LIVE", !.of = {a}, !.family = family,
                 !.revision = contact[s].revision, !.channel = channel,
                 !.delivery = IF channel = "EMAIL" THEN "PENDING" ELSE "SENT"]

\* decide_registration: APPROVE, with the first link, in one transaction.
Approve(a, l, bound, channel) ==
  LET s == Child(a) IN
  /\ application[a].status \in {"PENDING", "NEEDS_INFO"} /\ activation[l].status = "NONE"
  /\ bound => contact[s].ours
  /\ application' = [application EXCEPT ![a] =
       [@ EXCEPT !.status = "APPROVED", !.revision = contact[s].revision, !.bound = bound]]
  /\ activation' = [RevokeLinks(a) EXCEPT ![l] = NewLink(a, {}, s, channel)]
  /\ vouched' = [vouched EXCEPT ![s] = contact[s].revision]
  /\ UNCHANGED <<contact, invitation, relation, events>>

Refuse(a, status) ==
  /\ application[a].status \in {"PENDING", "NEEDS_INFO"}
  /\ application' = [application EXCEPT ![a].status = status]
  /\ UNCHANGED <<contact, activation, invitation, relation, vouched, events>>

\* reissue_activation.
Reissue(a, l, channel) ==
  LET s == Child(a) IN
  /\ application[a].status = "APPROVED" /\ activation[l].status = "NONE"
  /\ application[a].bound => application[a].revision = contact[s].revision
  /\ activation' = [RevokeLinks(a) EXCEPT ![l] = NewLink(a, {}, s, channel)]
  /\ UNCHANGED <<contact, application, invitation, relation, vouched, events>>

\* _validate_activation but for the channel.
Approved(l) ==
  /\ activation[l].status = "LIVE"
  /\ \E a \in activation[l].of :
       /\ application[a].status = "APPROVED"
       /\ application[a].bound => activation[l].revision = contact[Child(a)].revision

\* prepare_activation_email: the link is claimed, or FAILED because the approval
\* has changed or the broker did not take the task.
ClaimLink(l) ==
  /\ activation[l].status = "LIVE" /\ activation[l].delivery = "PENDING"
  /\ \/ Approved(l) /\ activation' = [activation EXCEPT ![l].delivery = "SENDING"]
     \/ activation' = [activation EXCEPT ![l].delivery = "FAILED"]
  /\ UNCHANGED <<contact, application, invitation, relation, vouched, events>>

\* Mutant: the provider's own word for the outcome.
Answers_Raw == {"SUBMITTED_TO_PROVIDER"}

Answers == {"SENT", "FAILED"}

\* send_parent_activation_email: the email is sent if the approval still stands,
\* while its rows are locked.
SettleLink(l, answer) ==
  /\ activation[l].delivery = "SENDING"
  /\ ~Approved(l) => answer = "FAILED"
  /\ activation' = [activation EXCEPT ![l].delivery = answer]
  /\ UNCHANGED <<contact, application, invitation, relation, vouched, events>>

\* Mutant: a child's link of an invitation opens by itself.
Single_Family(l) == TRUE

Single(l) == activation[l].family = {}

Opens(l) ==
  /\ Approved(l)
  /\ activation[l].channel = "EMAIL" => activation[l].delivery \in {"SENDING", "SENT"}

\* apply_activation_relation.
Activated(s, a) == [status |-> "ACTIVE", revision |-> contact[s].revision, bound |-> application[a].bound]

\* complete_activation.
Complete(l) ==
  /\ Single(l) /\ Opens(l)
  /\ \E a \in activation[l].of : LET s == Child(a) IN
       /\ relation' = [relation EXCEPT ![s] = Activated(s, a)]
       /\ activation' = [activation EXCEPT ![l].status = "USED"]
       /\ application' = [application EXCEPT ![a].status = "ACTIVATED"]
  /\ UNCHANGED <<contact, invitation, vouched, events>>

\* decide_relation.
DecideRelation(s, status, bound) ==
  /\ Event
  /\ relation[s].status # "NONE"
  /\ IF status = "ACTIVE"
     THEN /\ bound => contact[s].ours
          /\ relation' = [relation EXCEPT ![s] =
               [status |-> status, revision |-> contact[s].revision, bound |-> bound]]
          /\ vouched' = [vouched EXCEPT ![s] = contact[s].revision]
     ELSE /\ bound = relation[s].bound
          /\ relation' = [relation EXCEPT ![s].status = status]
          /\ UNCHANGED vouched
  /\ UNCHANGED <<contact, application, activation, invitation>>

-----------------------------------------------------------------------------
(* Family invitations.                                                     *)

ChildrenOf(i) == {l \in Links : activation[l].family = {i}}
StudentOf(l) == Child(CHOOSE a \in Applications : activation[l].of = {a})

Replaced(i) == invitation[i].status = "LIVE"

\* The requests that create_invitation cancels with the invitation it replaces.
CancelApplications ==
  [a \in Applications |->
     IF application[a].status \in OpenStatus
        /\ \E l \in Links : activation[l].of = {a} /\ \E i \in activation[l].family : Replaced(i)
     THEN [application[a] EXCEPT !.status = "CANCELLED"] ELSE application[a]]

RevokeChildren ==
  [l \in Links |-> IF activation[l].status = "LIVE" /\ \E i \in activation[l].family : Replaced(i)
                   THEN [activation[l] EXCEPT !.status = "DEAD"] ELSE activation[l]]

\* create_invitation for a set of siblings: it replaces the one that is out, and
\* the unique index refuses it when a child has another open request.
Invite(i, request, child) ==
  LET siblings == DOMAIN request IN
  /\ invitation[i].status = "NONE" /\ siblings # {}
  /\ \A s \in siblings : contact[s].ours /\ ~contact[s].barred
  /\ \A s \in siblings :
       /\ application[request[s]].status = "NONE" /\ activation[child[s]].status = "NONE"
       /\ ~HasOpen(CancelApplications, s)
  /\ invitation' = [j \in Invitations |->
       IF j = i THEN [NoInvitation EXCEPT !.status = "LIVE"]
       ELSE IF Replaced(j) THEN [invitation[j] EXCEPT !.status = "REVOKED"] ELSE invitation[j]]
  /\ application' = [a \in Applications |->
       IF \E s \in siblings : request[s] = a
       THEN LET s == CHOOSE s \in siblings : request[s] = a IN
            [status |-> "APPROVED", student |-> {s}, revision |-> contact[s].revision, bound |-> TRUE]
       ELSE CancelApplications[a]]
  /\ activation' = [l \in Links |->
       IF \E s \in siblings : child[s] = l
       THEN LET s == CHOOSE s \in siblings : child[s] = l IN NewLink(request[s], {i}, s, "SMS")
       ELSE RevokeChildren[l]]
  /\ vouched' = [s \in Students |-> IF s \in siblings THEN contact[s].revision ELSE vouched[s]]
  /\ UNCHANGED <<contact, relation, events>>

\* _valid_locked but for the delivery.
Standing(i) ==
  /\ invitation[i].status = "LIVE"
  /\ \A l \in ChildrenOf(i) : Opens(l) /\ contact[StudentOf(l)].ours /\ ~contact[StudentOf(l)].barred

\* deliver_invitation up to the call of the provider; safe_delivery when it fails.
ClaimInvitation(i) ==
  /\ invitation[i].status # "NONE" /\ invitation[i].delivery = "PENDING"
  /\ \/ Standing(i) /\ invitation' = [invitation EXCEPT ![i].delivery = "SENDING"]
     \/ invitation' = [invitation EXCEPT ![i].delivery = "FAILED"]
  /\ UNCHANGED <<contact, application, activation, relation, vouched, events>>

\* The provider's answer, or safe_delivery when storing it fails.
SettleInvitation(i, answer) ==
  /\ invitation[i].delivery = "SENDING"
  /\ invitation' = [invitation EXCEPT ![i].delivery = answer]
  /\ UNCHANGED <<contact, application, activation, relation, vouched, events>>

\* complete_invitation: every child or none.
CompleteInvitation(i) ==
  LET open == {a \in Applications : \E l \in ChildrenOf(i) : activation[l].of = {a}}
      requestOf(s) == CHOOSE a \in open : application[a].student = {s}
  IN
  /\ Standing(i) /\ invitation[i].delivery \in {"SENDING", "SENT"}
  /\ relation' = [s \in Students |->
       IF \E a \in open : application[a].student = {s} THEN Activated(s, requestOf(s)) ELSE relation[s]]
  /\ activation' = [l \in Links |->
       IF l \in ChildrenOf(i) THEN [activation[l] EXCEPT !.status = "USED"] ELSE activation[l]]
  /\ application' = [a \in Applications |->
       IF a \in open THEN [application[a] EXCEPT !.status = "ACTIVATED"] ELSE application[a]]
  /\ invitation' = [invitation EXCEPT ![i].status = "CONSUMED"]
  /\ UNCHANGED <<contact, vouched, events>>

-----------------------------------------------------------------------------
(* The school's data of the student.                                       *)

\* Mutant: the guardian of a changed contact keeps access.
Suspended_Never(r) == r

Suspended(r) == IF r.bound /\ r.status = "ACTIVE" THEN [r EXCEPT !.status = "SUSPENDED"] ELSE r

\* xmansx_parent_contact_guard: any write that changes the guardian's number or
\* name, whatever code it comes from.
ContactChange(s, ours) ==
  LET bound == {a \in Applications : application[a].student = {s} /\ application[a].bound} IN
  /\ Event
  /\ contact[s].revision < MaxRevision
  /\ contact' = [contact EXCEPT ![s].revision = @ + 1, ![s].ours = ours]
  /\ relation' = [relation EXCEPT ![s] = Suspended(@)]
  /\ activation' = [l \in Links |->
       IF activation[l].status = "LIVE" /\ \E a \in bound : activation[l].of = {a}
       THEN [activation[l] EXCEPT !.status = "DEAD"] ELSE activation[l]]
  /\ application' = [a \in Applications |->
       IF a \in bound /\ application[a].status = "APPROVED"
       THEN [application[a] EXCEPT !.status = "NEEDS_INFO"] ELSE application[a]]
  /\ UNCHANGED <<invitation, vouched>>

\* RecipientBlockCreateView and RecipientBlockResolveView for the guardian's
\* number; the student leaves or comes back.
Bar(s) ==
  /\ Event
  /\ contact' = [contact EXCEPT ![s].barred = ~@]
  /\ UNCHANGED <<application, activation, invitation, relation, vouched>>

\* Links reach the end of their time: those of an invitation together, with it.
LinksExpire(links) ==
  /\ Event /\ links # {} /\ \A l \in links : activation[l].status = "LIVE"
  /\ activation' = [l \in Links |-> IF l \in links THEN [activation[l] EXCEPT !.status = "DEAD"] ELSE activation[l]]
  /\ UNCHANGED <<contact, application, invitation, relation, vouched>>

-----------------------------------------------------------------------------
Injective(f) == \A x, y \in DOMAIN f : f[x] = f[y] => x = y

AccessNext ==
  \/ \E a \in Applications :
       \/ \E s \in Students : Submit(a, s)
       \/ AddNote(a)
       \/ \E status \in {"REJECTED", "NEEDS_INFO"} : Refuse(a, status)
       \/ \E l \in Links, channel \in Channels :
            Reissue(a, l, channel) \/ \E bound \in BOOLEAN : Approve(a, l, bound, channel)
  \/ \E l \in Links :
       ClaimLink(l) \/ Complete(l) \/ (Single(l) /\ LinksExpire({l})) \/ \E answer \in Answers : SettleLink(l, answer)
  \/ \E i \in Invitations :
       \/ \E siblings \in SUBSET Students :
            \E request \in [siblings -> Applications], child \in [siblings -> Links] :
              Injective(request) /\ Injective(child) /\ Invite(i, request, child)
       \/ ClaimInvitation(i) \/ CompleteInvitation(i) \/ LinksExpire(ChildrenOf(i))
       \/ \E answer \in Answers : SettleInvitation(i, answer)
  \/ \E s \in Students :
       \/ \E status \in {"ACTIVE", "SUSPENDED", "REVOKED"}, bound \in BOOLEAN :
            DecideRelation(s, status, bound)
       \/ \E ours \in BOOLEAN : ContactChange(s, ours)
       \/ Bar(s)

AccessSpec == AccessInit /\ [][AccessNext]_accessVars

-----------------------------------------------------------------------------
(* Properties.                                                             *)

\* The types of the rows.
AccessTypeOK ==
  /\ contact \in [Students -> Contact] /\ application \in [Applications -> Application]
  /\ activation \in [Links -> Link] /\ invitation \in [Invitations -> Invitation]
  /\ relation \in [Students -> Relation] /\ vouched \in [Students -> 0..MaxRevision]
  /\ events \in 0..MaxEvents

\* A guardian whose access is bound to the school's contact has it only at the
\* revision at which staff approved it, whichever way it was given or the
\* contact changed: by a link, an invitation or a decision, in any order.
BoundIsVouched ==
  \A s \in Students : relation[s].status = "ACTIVE" /\ relation[s].bound
    => relation[s].revision = contact[s].revision /\ vouched[s] = contact[s].revision

\* At most one link opens a student, however requests, reissues and invitations follow
\* each other.
OneOpenLink ==
  \A l, m \in Links : Opens(l) /\ Opens(m) /\ StudentOf(l) = StudentOf(m) => l = m

\* An invitation opens all of its children or none: while it is not consumed no
\* child's link has been used, also when staff reissue a child's link alone.
WholeFamily ==
  \A i \in Invitations : \A l \in ChildrenOf(i) :
    (activation[l].status = "USED") <=> (invitation[i].status = "CONSUMED")

\* Which links open what, in every order of approvals, reissues, invitations and uses:
\* one link a student, and the children of an invitation together.
LinksInvariant == AccessTypeOK /\ OneOpenLink /\ WholeFamily
=============================================================================
