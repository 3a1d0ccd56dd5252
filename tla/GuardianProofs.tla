--------------------------- MODULE GuardianProofs ---------------------------
(***************************************************************************)
(* Proofs about a guardian's access: the inductive strengthening of        *)
(* BoundIsVouched and LinksInvariant, and the two invariants for every     *)
(* number of students, requests, links and invitations.                    *)
(***************************************************************************)
EXTENDS GuardianAccess, TLAPS

-----------------------------------------------------------------------------
(* The invariant.                                                           *)

\* The rows refer to each other: a request that was made has its student, a link its
\* request, and an invitation that has children was made.
AccessRows ==
  /\ \A a \in Applications : application[a].status = "NONE" <=> application[a].student = {}
  /\ \A l \in Links : /\ activation[l].status = "NONE" <=> activation[l].of = {}
                      /\ activation[l].status = "NONE" => activation[l].family = {}
  /\ \A l \in Links, a \in Applications : activation[l].of = {a} => application[a].status # "NONE"
  /\ \A l \in Links, i \in Invitations : activation[l].family = {i} => invitation[i].status # "NONE"

\* At most one request of a student is open, and at most one link of a request is LIVE.
OneRequest ==
  \A a, b \in Applications :
    /\ application[a].status \in OpenStatus /\ application[b].status \in OpenStatus
    /\ application[a].student = application[b].student
    => a = b
OneLiveLink ==
  \A l, m \in Links :
    activation[l].status = "LIVE" /\ activation[m].status = "LIVE" /\ activation[l].of = activation[m].of => l = m

\* A request that is approved for the school's contact is approved for its present revision.
ApprovedIsVouched ==
  \A a \in Applications, s \in Students :
    application[a].status = "APPROVED" /\ application[a].bound /\ application[a].student = {s}
      => vouched[s] = contact[s].revision

AccessInductive ==
  AccessTypeOK /\ AccessRows /\ OneRequest /\ OneLiveLink /\ ApprovedIsVouched /\ BoundIsVouched /\ WholeFamily
-----------------------------------------------------------------------------
(* The rows.                                                                *)

\* The empty rows have their types.
LEMMA EmptyRows ==
  /\ NoApplication \in Application /\ NoLink \in Link /\ NoInvitation \in Invitation
  /\ 1 \in 1..MaxRevision
<1>1. 1 \in 1..MaxRevision
  BY AccessBoundsNat
<1>2. NoApplication \in Application
  BY <1>1 DEF NoApplication, Application, Optional
<1>3. NoLink \in Link
  BY <1>1 DEF NoLink, Link, Optional, Channels, Attempt
<1>4. NoInvitation \in Invitation
  BY DEF NoInvitation, Invitation, Attempt
<1> QED BY <1>1, <1>2, <1>3, <1>4

\* A request that was made has one student, which is its Child.
LEMMA ChildOf ==
  ASSUME AccessInductive, NEW a \in Applications, application[a].status # "NONE"
  PROVE  Child(a) \in Students /\ application[a].student = {Child(a)}
<1>1. application[a].student \in Optional(Students) /\ application[a].student # {}
  BY DEF AccessInductive, AccessTypeOK, AccessRows, Application
<1>2. PICK s \in Students : application[a].student = {s}
  BY <1>1 DEF Optional
<1> QED BY <1>2 DEF Child

\* A link that was issued has one request, and StudentOf is the student of that request.
LEMMA RequestOf ==
  ASSUME AccessInductive, NEW l \in Links, activation[l].status # "NONE"
  PROVE  \E a \in Applications :
           /\ activation[l].of = {a} /\ application[a].status # "NONE"
           /\ StudentOf(l) = Child(a)
<1>1. activation[l].of \in Optional(Applications) /\ activation[l].of # {}
  BY DEF AccessInductive, AccessTypeOK, AccessRows, Link
<1>2. PICK a \in Applications : activation[l].of = {a}
  BY <1>1 DEF Optional
<1>3. (CHOOSE b \in Applications : activation[l].of = {b}) = a
  BY <1>2
<1>4. application[a].status # "NONE"
  BY <1>2 DEF AccessInductive, AccessRows
<1> QED BY <1>2, <1>3, <1>4 DEF StudentOf

\* A link that opens has an approved request.
LEMMA OpensApproved ==
  ASSUME AccessInductive, NEW l \in Links, Approved(l)
  PROVE  \E a \in Applications :
           /\ activation[l].of = {a} /\ application[a].status = "APPROVED" /\ StudentOf(l) = Child(a)
<1>1. activation[l].status = "LIVE"
  BY DEF Approved
<1>2. PICK a \in Applications :
        activation[l].of = {a} /\ application[a].status # "NONE" /\ StudentOf(l) = Child(a)
  BY <1>1, RequestOf
<1>3. application[a].status = "APPROVED"
  BY <1>2 DEF Approved
<1> QED BY <1>2, <1>3

\* One link opens a student: two that open have approved requests of that student.
LEMMA OneOpens == AccessInductive => OneOpenLink
<1> SUFFICES ASSUME AccessInductive, NEW l \in Links, NEW m \in Links,
                    Opens(l), Opens(m), StudentOf(l) = StudentOf(m)
             PROVE  l = m
  BY DEF OneOpenLink
<1>1. PICK a \in Applications :
        activation[l].of = {a} /\ application[a].status = "APPROVED" /\ StudentOf(l) = Child(a)
  BY OpensApproved DEF Opens
<1>2. PICK b \in Applications :
        activation[m].of = {b} /\ application[b].status = "APPROVED" /\ StudentOf(m) = Child(b)
  BY OpensApproved DEF Opens
<1>3. application[a].student = application[b].student
  BY <1>1, <1>2, ChildOf
<1>4. a = b
  BY <1>1, <1>2, <1>3 DEF AccessInductive, OneRequest, OpenStatus
<1> QED BY <1>1, <1>2, <1>4 DEF AccessInductive, OneLiveLink, Opens, Approved

-----------------------------------------------------------------------------
(* Steps that make no request and no link.                                  *)

\* Requests and links keep whom they are for, none appears, none opens again, and the
\* children of an invitation are used with it.
Settles ==
  /\ \A a \in Applications :
       /\ application'[a].student = application[a].student
       /\ application'[a].status = "NONE" <=> application[a].status = "NONE"
       /\ application'[a].status \in OpenStatus => application[a].status \in OpenStatus
  /\ \A l \in Links :
       /\ activation'[l].of = activation[l].of /\ activation'[l].family = activation[l].family
       /\ activation'[l].status = "NONE" <=> activation[l].status = "NONE"
       /\ activation'[l].status = "LIVE" => activation[l].status = "LIVE"
  /\ \A i \in Invitations : invitation[i].status # "NONE" => invitation'[i].status # "NONE"
  /\ \A i \in Invitations, l \in Links : activation[l].family = {i} =>
       /\ activation'[l].status = "USED" <=> activation[l].status = "USED"
       /\ invitation'[i].status = "CONSUMED" <=> invitation[i].status = "CONSUMED"

\* Such a step keeps all but the types and what is vouched for.
LEMMA SettlesKeeps ==
  ASSUME AccessInductive, Settles
  PROVE  AccessRows' /\ OneRequest' /\ OneLiveLink' /\ WholeFamily'
<1>1. AccessRows'
  BY DEF AccessInductive, AccessRows, Settles
<1>2. OneRequest'
  BY DEF AccessInductive, OneRequest, Settles
<1>3. OneLiveLink'
  BY DEF AccessInductive, OneLiveLink, Settles
<1>4. WholeFamily'
  BY DEF AccessInductive, WholeFamily, Settles, ChildrenOf
<1> QED BY <1>1, <1>2, <1>3, <1>4

\* While contacts, relations and what was vouched for stay, it is enough that no request is
\* approved.
LEMMA VouchedStays ==
  ASSUME AccessInductive, UNCHANGED <<contact, relation, vouched>>,
         \A a \in Applications :
           /\ application'[a].student = application[a].student
           /\ application'[a].status = "APPROVED"
                => application[a].status = "APPROVED" /\ application'[a].bound = application[a].bound
  PROVE  ApprovedIsVouched' /\ BoundIsVouched'
<1>1. ApprovedIsVouched'
  BY DEF AccessInductive, ApprovedIsVouched
<1>2. BoundIsVouched'
  BY DEF AccessInductive, BoundIsVouched
<1> QED BY <1>1, <1>2

\* receipt_status and decide_registration without an approval change one request.
LEMMA RequestStep ==
  ASSUME AccessInductive, NEW a \in Applications, AddNote(a) \/ \E status \in {"REJECTED", "NEEDS_INFO"} : Refuse(a, status)
  PROVE  AccessInductive'
<1>1. PICK status \in {"REJECTED", "NEEDS_INFO", "PENDING"} :
        /\ application' = [application EXCEPT ![a].status = status]
        /\ application[a].status \in {"PENDING", "NEEDS_INFO"}
        /\ UNCHANGED <<contact, activation, invitation, relation, vouched, events>>
  BY DEF AddNote, Refuse
<1>2. \A b \in Applications :
        /\ application'[b] \in Application /\ application'[b].student = application[b].student
        /\ application'[b].bound = application[b].bound
        /\ application'[b].status # application[b].status => b = a /\ application'[b].status = status
  BY <1>1 DEF AccessInductive, AccessTypeOK, Application, OpenStatus
<1>3. AccessTypeOK'
  BY <1>1, <1>2 DEF AccessInductive, AccessTypeOK
<1>4. Settles
  BY <1>1, <1>2 DEF Settles, OpenStatus
<1>5. ApprovedIsVouched' /\ BoundIsVouched'
  BY <1>1, <1>2, VouchedStays
<1> QED BY <1>3, <1>4, <1>5, SettlesKeeps DEF AccessInductive

\* The two halves of sending a link change its delivery.
LEMMA LinkDelivery ==
  ASSUME AccessInductive, NEW l \in Links, ClaimLink(l) \/ \E answer \in Answers : SettleLink(l, answer)
  PROVE  AccessInductive'
<1>1. PICK d \in Attempt :
        /\ activation' = [activation EXCEPT ![l].delivery = d]
        /\ UNCHANGED <<contact, application, invitation, relation, vouched, events>>
  BY DEF ClaimLink, SettleLink, Answers, Attempt
<1>2. \A m \in Links : activation'[m] \in Link /\ activation'[m].of = activation[m].of
        /\ activation'[m].family = activation[m].family /\ activation'[m].status = activation[m].status
  BY <1>1 DEF AccessInductive, AccessTypeOK, Link
<1>3. AccessTypeOK'
  BY <1>1, <1>2 DEF AccessInductive, AccessTypeOK
<1>4. Settles
  BY <1>1, <1>2 DEF Settles
<1>5. ApprovedIsVouched' /\ BoundIsVouched'
  BY <1>1, VouchedStays
<1> QED BY <1>3, <1>4, <1>5, SettlesKeeps DEF AccessInductive

\* deliver_invitation and safe_delivery change the delivery of an invitation that was made.
LEMMA InvitationDelivery ==
  ASSUME AccessInductive, NEW i \in Invitations,
         ClaimInvitation(i) \/ \E answer \in Answers : SettleInvitation(i, answer)
  PROVE  AccessInductive'
<1>1. PICK d \in Attempt :
        /\ invitation' = [invitation EXCEPT ![i].delivery = d]
        /\ UNCHANGED <<contact, application, activation, relation, vouched, events>>
  BY DEF ClaimInvitation, SettleInvitation, Answers, Attempt
<1>2. \A j \in Invitations : invitation'[j] \in Invitation /\ invitation'[j].status = invitation[j].status
  BY <1>1 DEF AccessInductive, AccessTypeOK, Invitation
<1>3. AccessTypeOK'
  BY <1>1, <1>2 DEF AccessInductive, AccessTypeOK
<1>4. Settles
  BY <1>1, <1>2 DEF Settles
<1>5. ApprovedIsVouched' /\ BoundIsVouched'
  BY <1>1, VouchedStays
<1> QED BY <1>3, <1>4, <1>5, SettlesKeeps DEF AccessInductive

\* Links that expire are dead.
LEMMA ExpireStep ==
  ASSUME AccessInductive, NEW links, LinksExpire(links)
  PROVE  AccessInductive'
<1>1. /\ activation' = [l \in Links |-> IF l \in links THEN [activation[l] EXCEPT !.status = "DEAD"] ELSE activation[l]]
      /\ \A l \in links : activation[l].status = "LIVE"
      /\ events < MaxEvents /\ events' = events + 1
      /\ UNCHANGED <<contact, application, invitation, relation, vouched>>
  BY DEF LinksExpire, Event
<1>2. \A m \in Links : activation'[m] \in Link /\ activation'[m].of = activation[m].of
        /\ activation'[m].family = activation[m].family
        /\ activation'[m].status # activation[m].status
             => activation[m].status = "LIVE" /\ activation'[m].status = "DEAD"
  BY <1>1 DEF AccessInductive, AccessTypeOK, Link
<1>3. AccessTypeOK'
  <2>1. events' \in 0..MaxEvents
    BY <1>1, AccessBoundsNat DEF AccessInductive, AccessTypeOK
  <2>2. activation' \in [Links -> Link]
    <3>1. \A m \in Links :
            (IF m \in links THEN [activation[m] EXCEPT !.status = "DEAD"] ELSE activation[m]) \in Link
      BY DEF AccessInductive, AccessTypeOK, Link
    <3> QED BY <1>1, <3>1
  <2> QED BY <1>1, <2>1, <2>2 DEF AccessInductive, AccessTypeOK
<1>4. Settles
  BY <1>1, <1>2 DEF Settles
<1>5. ApprovedIsVouched' /\ BoundIsVouched'
  BY <1>1, VouchedStays
<1> QED BY <1>3, <1>4, <1>5, SettlesKeeps DEF AccessInductive

\* A number that is barred, or no longer, is no other number.
LEMMA BarStep ==
  ASSUME AccessInductive, NEW s \in Students, Bar(s)
  PROVE  AccessInductive'
<1>1. /\ contact' = [contact EXCEPT ![s].barred = ~contact[s].barred]
      /\ events < MaxEvents /\ events' = events + 1
      /\ UNCHANGED <<application, activation, invitation, relation, vouched>>
  BY DEF Bar, Event
<1>2. \A t \in Students : contact'[t] \in Contact /\ contact'[t].revision = contact[t].revision
  BY <1>1 DEF AccessInductive, AccessTypeOK, Contact
<1>3. AccessTypeOK'
  <2>1. events' \in 0..MaxEvents
    BY <1>1, AccessBoundsNat DEF AccessInductive, AccessTypeOK
  <2>2. contact' \in [Students -> Contact]
    BY <1>1, <1>2 DEF AccessInductive, AccessTypeOK
  <2> QED BY <1>1, <2>1, <2>2 DEF AccessInductive, AccessTypeOK
<1>4. Settles
  BY <1>1 DEF Settles
<1>5. ApprovedIsVouched' /\ BoundIsVouched'
  BY <1>1, <1>2 DEF AccessInductive, ApprovedIsVouched, BoundIsVouched
<1> QED BY <1>3, <1>4, <1>5, SettlesKeeps DEF AccessInductive

\* decide_relation approves for the contact of the moment.
LEMMA RelationStep ==
  ASSUME AccessInductive, NEW s \in Students, NEW status \in {"ACTIVE", "SUSPENDED", "REVOKED"},
         NEW bound \in BOOLEAN, DecideRelation(s, status, bound)
  PROVE  AccessInductive'
<1>1. /\ events < MaxEvents /\ events' = events + 1
      /\ UNCHANGED <<contact, application, activation, invitation>>
  BY DEF DecideRelation, Event
<1>2. events' \in 0..MaxEvents /\ \A t \in Students : contact[t].revision \in 1..MaxRevision
  BY <1>1, AccessBoundsNat DEF AccessInductive, AccessTypeOK, Contact
<1>3. Settles
  BY <1>1 DEF Settles
<1>4. CASE status = "ACTIVE"
  <2>1. /\ relation' = [relation EXCEPT ![s] =
             [status |-> status, revision |-> contact[s].revision, bound |-> bound]]
        /\ vouched' = [vouched EXCEPT ![s] = contact[s].revision]
    BY <1>4 DEF DecideRelation
  <2>2. relation' \in [Students -> Relation] /\ vouched' \in [Students -> 0..MaxRevision]
    BY <1>2, <1>4, <2>1 DEF AccessInductive, AccessTypeOK, Relation
  <2>3. AccessTypeOK'
    BY <1>1, <1>2, <2>2 DEF AccessInductive, AccessTypeOK
  <2>4. \A t \in Students :
          \/ vouched'[t] = contact[t].revision /\ relation'[t].revision = contact[t].revision
          \/ vouched'[t] = vouched[t] /\ relation'[t] = relation[t]
    BY <2>1 DEF AccessInductive, AccessTypeOK
  <2>5. ApprovedIsVouched' /\ BoundIsVouched'
    BY <1>1, <2>4 DEF AccessInductive, ApprovedIsVouched, BoundIsVouched
  <2> QED BY <1>3, <2>3, <2>5, SettlesKeeps DEF AccessInductive
<1>5. CASE status # "ACTIVE"
  <2>1. relation' = [relation EXCEPT ![s].status = status] /\ UNCHANGED vouched
    BY <1>5 DEF DecideRelation
  <2>2. \A t \in Students :
          relation'[t] \in Relation /\ (relation'[t].status = "ACTIVE" => relation'[t] = relation[t])
    BY <1>5, <2>1 DEF AccessInductive, AccessTypeOK, Relation
  <2>3. AccessTypeOK'
    BY <1>1, <1>2, <2>1, <2>2 DEF AccessInductive, AccessTypeOK
  <2>4. ApprovedIsVouched' /\ BoundIsVouched'
    BY <1>1, <2>1, <2>2 DEF AccessInductive, ApprovedIsVouched, BoundIsVouched
  <2> QED BY <1>3, <2>3, <2>4, SettlesKeeps DEF AccessInductive
<1> QED BY <1>4, <1>5

\* A change of the contact leaves no access, link or approval bound to the old one.
LEMMA ContactStep ==
  ASSUME AccessInductive, NEW s \in Students, NEW ours \in BOOLEAN, ContactChange(s, ours)
  PROVE  AccessInductive'
<1> DEFINE bound == {a \in Applications : application[a].student = {s} /\ application[a].bound}
<1>1. /\ events < MaxEvents /\ events' = events + 1 /\ contact[s].revision < MaxRevision
      /\ contact' = [contact EXCEPT ![s] = [contact[s] EXCEPT !.revision = contact[s].revision + 1, !.ours = ours]]
      /\ relation' = [relation EXCEPT ![s] = Suspended(relation[s])]
      /\ activation' = [l \in Links |->
           IF activation[l].status = "LIVE" /\ \E a \in bound : activation[l].of = {a}
           THEN [activation[l] EXCEPT !.status = "DEAD"] ELSE activation[l]]
      /\ application' = [a \in Applications |->
           IF a \in bound /\ application[a].status = "APPROVED"
           THEN [application[a] EXCEPT !.status = "NEEDS_INFO"] ELSE application[a]]
      /\ UNCHANGED <<invitation, vouched>>
  BY DEF ContactChange, Event, AccessInductive, AccessTypeOK
<1>2. AccessTypeOK
  BY DEF AccessInductive
<1>3. events' \in 0..MaxEvents /\ contact' \in [Students -> Contact]
      /\ \A t \in Students : t # s => contact'[t] = contact[t]
  <2>1. contact[s].revision + 1 \in 1..MaxRevision /\ events + 1 \in 0..MaxEvents
    BY <1>1, <1>2, AccessBoundsNat DEF AccessTypeOK, Contact
  <2> DEFINE next == contact[s].revision + 1
  <2>2. next \in 1..MaxRevision
    BY <2>1
  <2>3. contact' = [contact EXCEPT ![s] = [contact[s] EXCEPT !.revision = next, !.ours = ours]]
    BY <1>1
  <2> HIDE DEF next
  <2>4. [contact[s] EXCEPT !.revision = next, !.ours = ours] \in Contact
    BY <1>2, <2>2 DEF AccessTypeOK, Contact
  <2> QED BY <1>1, <1>2, <2>1, <2>3, <2>4 DEF AccessTypeOK
<1>4. relation' \in [Students -> Relation]
      /\ \A t \in Students : /\ relation'[t].status = "ACTIVE" => relation'[t] = relation[t]
                             /\ t = s => ~(relation'[t].status = "ACTIVE" /\ relation'[t].bound)
  BY <1>1, <1>2 DEF AccessTypeOK, Relation, Suspended
<1>5. activation' \in [Links -> Link]
      /\ \A m \in Links : /\ activation'[m].of = activation[m].of /\ activation'[m].family = activation[m].family
                          /\ activation'[m].status # activation[m].status
                               => activation[m].status = "LIVE" /\ activation'[m].status = "DEAD"
  BY <1>1, <1>2 DEF AccessTypeOK, Link
<1>6. application' \in [Applications -> Application]
      /\ \A a \in Applications :
           /\ application'[a].student = application[a].student /\ application'[a].bound = application[a].bound
           /\ application'[a].status # application[a].status
                => application[a].status = "APPROVED" /\ application'[a].status = "NEEDS_INFO"
           /\ a \in bound => application'[a].status # "APPROVED"
  <2> HIDE DEF bound
  <2>1. ASSUME NEW a \in Applications
        PROVE  \/ /\ application'[a] = application[a]
                  /\ a \in bound => application[a].status # "APPROVED"
               \/ /\ application[a].status = "APPROVED"
                  /\ application'[a] = [application[a] EXCEPT !.status = "NEEDS_INFO"]
    BY <1>1
  <2>2. \A a \in Applications : [application[a] EXCEPT !.status = "NEEDS_INFO"] \in Application
    BY <1>2 DEF AccessTypeOK, Application, OpenStatus
  <2>3. \A a \in Applications : application'[a] \in Application
    BY <1>2, <2>1, <2>2 DEF AccessTypeOK
  <2>4. application' \in [Applications -> Application]
    BY <1>1, <2>3
  <2>5. \A a \in Applications :
           /\ application'[a].student = application[a].student /\ application'[a].bound = application[a].bound
           /\ application'[a].status # application[a].status
                => application[a].status = "APPROVED" /\ application'[a].status = "NEEDS_INFO"
           /\ a \in bound => application'[a].status # "APPROVED"
    <3> SUFFICES ASSUME NEW a \in Applications
                 PROVE  /\ application'[a].student = application[a].student
                        /\ application'[a].bound = application[a].bound
                        /\ application'[a].status # application[a].status
                             => application[a].status = "APPROVED" /\ application'[a].status = "NEEDS_INFO"
                        /\ a \in bound => application'[a].status # "APPROVED"
      OBVIOUS
    <3>1. application[a] \in Application
      BY <1>2 DEF AccessTypeOK
    <3>2. CASE application'[a] = application[a] /\ (a \in bound => application[a].status # "APPROVED")
      BY <3>2
    <3>3. CASE /\ application[a].status = "APPROVED"
               /\ application'[a] = [application[a] EXCEPT !.status = "NEEDS_INFO"]
      BY <3>1, <3>3 DEF Application
    <3> QED BY <2>1, <3>2, <3>3
  <2> QED BY <2>4, <2>5
<1>7. AccessTypeOK'
  BY <1>1, <1>2, <1>3, <1>4, <1>5, <1>6 DEF AccessTypeOK
<1>8. Settles
  BY <1>1, <1>5, <1>6 DEF Settles, OpenStatus
<1>9. ApprovedIsVouched'
  BY <1>1, <1>3, <1>6 DEF AccessInductive, ApprovedIsVouched
<1>10. BoundIsVouched'
  BY <1>1, <1>3, <1>4 DEF AccessInductive, BoundIsVouched
<1> QED BY <1>7, <1>8, <1>9, <1>10, SettlesKeeps DEF AccessInductive

\* A request that is approved for the school's contact gives access that is vouched for.
LEMMA ActivatedRow ==
  ASSUME AccessInductive, NEW a \in Applications, NEW s \in Students, application[a].student = {s},
         application[a].status = "APPROVED"
  PROVE  /\ Activated(s, a) \in Relation
         /\ Activated(s, a).revision = contact[s].revision
         /\ Activated(s, a).bound => vouched[s] = contact[s].revision
<1>1. Activated(s, a) \in Relation
  BY DEF Activated, AccessInductive, AccessTypeOK, Relation, Contact, Application
<1> QED BY <1>1 DEF Activated, AccessInductive, ApprovedIsVouched

\* complete_activation uses one link.
LEMMA CompleteStep ==
  ASSUME AccessInductive, NEW l \in Links, Complete(l)
  PROVE  AccessInductive'
<1>1. PICK a \in Applications : activation[l].of = {a} /\ application[a].status = "APPROVED"
  BY OpensApproved DEF Complete, Opens
<1>2. activation[l].family = {} /\ activation[l].status = "LIVE"
  BY DEF Complete, Single, Opens, Approved
<1> DEFINE s == Child(a)
<1>3. s \in Students /\ application[a].student = {s}
  BY <1>1, ChildOf
<1>4. /\ relation' = [relation EXCEPT ![s] = Activated(s, a)]
      /\ activation' = [activation EXCEPT ![l].status = "USED"]
      /\ application' = [application EXCEPT ![a].status = "ACTIVATED"]
      /\ UNCHANGED <<contact, invitation, vouched, events>>
  BY <1>1 DEF Complete
<1> HIDE DEF s
<1>5. AccessTypeOK
  BY DEF AccessInductive
<1>6. relation' \in [Students -> Relation]
      /\ \A t \in Students : relation'[t] = relation[t] \/ (t = s /\ relation'[t] = Activated(s, a))
  <2>1. Activated(s, a) \in Relation
    BY <1>1, <1>3, ActivatedRow
  <2> QED BY <1>3, <1>4, <1>5, <2>1 DEF AccessTypeOK
<1>7. activation' \in [Links -> Link]
      /\ \A m \in Links : /\ activation'[m].of = activation[m].of /\ activation'[m].family = activation[m].family
                          /\ activation'[m].status # activation[m].status => m = l /\ activation'[m].status = "USED"
  BY <1>4, <1>5 DEF AccessTypeOK, Link
<1>8. application' \in [Applications -> Application]
      /\ \A b \in Applications :
           /\ application'[b].student = application[b].student /\ application'[b].bound = application[b].bound
           /\ application'[b].status # application[b].status => b = a /\ application'[b].status = "ACTIVATED"
  BY <1>4, <1>5 DEF AccessTypeOK, Application
<1>9. AccessTypeOK'
  BY <1>4, <1>5, <1>6, <1>7, <1>8 DEF AccessTypeOK
<1>10. Settles
  BY <1>1, <1>2, <1>4, <1>7, <1>8 DEF Settles, OpenStatus
<1>11. ApprovedIsVouched'
  BY <1>4, <1>8 DEF AccessInductive, ApprovedIsVouched
<1>12. BoundIsVouched'
  BY <1>1, <1>3, <1>4, <1>6, ActivatedRow DEF AccessInductive, BoundIsVouched
<1> QED BY <1>9, <1>10, <1>11, <1>12, SettlesKeeps DEF AccessInductive

\* complete_invitation uses every child of the invitation.
LEMMA CompleteInvitationStep ==
  ASSUME AccessInductive, NEW i \in Invitations, CompleteInvitation(i)
  PROVE  AccessInductive'
<1> DEFINE open == {a \in Applications : \E l \in ChildrenOf(i) : activation[l].of = {a}}
           requestOf(s) == CHOOSE a \in open : application[a].student = {s}
<1>1. /\ invitation[i].status = "LIVE"
      /\ \A l \in ChildrenOf(i) : Approved(l)
      /\ relation' = [s \in Students |->
           IF \E a \in open : application[a].student = {s} THEN Activated(s, requestOf(s)) ELSE relation[s]]
      /\ activation' = [l \in Links |->
           IF l \in ChildrenOf(i) THEN [activation[l] EXCEPT !.status = "USED"] ELSE activation[l]]
      /\ application' = [a \in Applications |->
           IF a \in open THEN [application[a] EXCEPT !.status = "ACTIVATED"] ELSE application[a]]
      /\ invitation' = [invitation EXCEPT ![i].status = "CONSUMED"]
      /\ UNCHANGED <<contact, vouched, events>>
  BY DEF CompleteInvitation, Standing, Opens
<1>2. AccessTypeOK
  BY DEF AccessInductive
<1>3. \A a \in open : a \in Applications /\ application[a].status = "APPROVED"
  BY <1>1, OpensApproved DEF ChildrenOf
<1> HIDE DEF open
<1>4. ASSUME NEW s \in Students
      PROVE  \/ relation'[s] = relation[s]
             \/ \E a \in open : application[a].student = {s} /\ relation'[s] = Activated(s, a)
  BY <1>1
<1> HIDE DEF requestOf
<1>5. \A s \in Students : \/ relation'[s] = relation[s]
                          \/ /\ relation'[s] \in Relation /\ relation'[s].revision = contact[s].revision
                             /\ relation'[s].bound => vouched[s] = contact[s].revision
  BY <1>3, <1>4, ActivatedRow
<1>6. relation' \in [Students -> Relation]
  BY <1>1, <1>2, <1>5 DEF AccessTypeOK
<1>7. activation' \in [Links -> Link]
      /\ \A m \in Links : /\ activation'[m].of = activation[m].of /\ activation'[m].family = activation[m].family
                          /\ activation'[m].status
                               = IF activation[m].family = {i} THEN "USED" ELSE activation[m].status
  BY <1>1, <1>2 DEF AccessTypeOK, Link, ChildrenOf
<1>8. application' \in [Applications -> Application]
      /\ \A b \in Applications :
           /\ application'[b].student = application[b].student /\ application'[b].bound = application[b].bound
           /\ application'[b].status # application[b].status
                => application[b].status = "APPROVED" /\ application'[b].status = "ACTIVATED"
  BY <1>1, <1>2, <1>3 DEF AccessTypeOK, Application
<1>9. invitation' \in [Invitations -> Invitation]
      /\ \A j \in Invitations : invitation'[j].status = IF j = i THEN "CONSUMED" ELSE invitation[j].status
  BY <1>1, <1>2 DEF AccessTypeOK, Invitation
<1>10. AccessTypeOK'
  BY <1>1, <1>2, <1>6, <1>7, <1>8, <1>9 DEF AccessTypeOK
<1>11. AccessRows' /\ OneRequest' /\ OneLiveLink' /\ WholeFamily'
  <2>1. \A l \in Links : activation[l].family = {i} => activation[l].status # "NONE"
    BY DEF AccessInductive, AccessRows
  <2>2. AccessRows'
    BY <1>1, <1>7, <1>8, <1>9, <2>1 DEF AccessInductive, AccessRows
  <2>3. OneRequest'
    BY <1>8 DEF AccessInductive, OneRequest, OpenStatus
  <2>4. OneLiveLink'
    BY <1>7 DEF AccessInductive, OneLiveLink
  <2>5. WholeFamily'
    <3> SUFFICES ASSUME NEW j \in Invitations, NEW l \in Links, activation[l].family = {j}
                 PROVE  activation'[l].status = "USED" <=> invitation'[j].status = "CONSUMED"
      BY <1>7 DEF WholeFamily, ChildrenOf
    <3>1. activation[l].status = "USED" <=> invitation[j].status = "CONSUMED"
      BY DEF AccessInductive, WholeFamily, ChildrenOf
    <3>2. activation[l].family = {i} <=> j = i
      OBVIOUS
    <3> QED BY <1>7, <1>9, <3>1, <3>2
  <2> QED BY <2>2, <2>3, <2>4, <2>5
<1>12. ApprovedIsVouched'
  BY <1>1, <1>8 DEF AccessInductive, ApprovedIsVouched
<1>13. BoundIsVouched'
  BY <1>1, <1>5 DEF AccessInductive, BoundIsVouched
<1> QED BY <1>10, <1>11, <1>12, <1>13 DEF AccessInductive

-----------------------------------------------------------------------------
(* Steps that make requests and links.                                      *)

\* submit_registration makes a request for a student who has no open one.
LEMMA SubmitStep ==
  ASSUME AccessInductive, NEW a \in Applications, NEW s \in Students, Submit(a, s)
  PROVE  AccessInductive'
<1> DEFINE new == [NoApplication EXCEPT !.status = "PENDING", !.student = {s}]
<1>1. new \in Application /\ new.status = "PENDING" /\ new.student = {s}
  BY EmptyRows DEF NoApplication, Application, Optional, OpenStatus
<1>2. /\ application' = [application EXCEPT ![a] = new]
      /\ application[a].status = "NONE" /\ ~HasOpen(application, s)
      /\ UNCHANGED <<contact, activation, invitation, relation, vouched, events>>
  BY DEF Submit
<1> HIDE DEF new
<1>3. AccessTypeOK
  BY DEF AccessInductive
<1>4. application' \in [Applications -> Application]
      /\ \A b \in Applications : application'[b] = IF b = a THEN new ELSE application[b]
  BY <1>1, <1>2, <1>3 DEF AccessTypeOK
<1>5. AccessTypeOK'
  BY <1>2, <1>3, <1>4 DEF AccessTypeOK
<1>6. AccessRows'
  BY <1>1, <1>2, <1>4 DEF AccessInductive, AccessRows
<1>7. OneRequest'
  BY <1>1, <1>2, <1>4 DEF AccessInductive, OneRequest, HasOpen
<1>8. OneLiveLink' /\ WholeFamily' /\ BoundIsVouched'
  BY <1>2 DEF AccessInductive, OneLiveLink, WholeFamily, ChildrenOf, BoundIsVouched
<1>9. ApprovedIsVouched'
  BY <1>1, <1>2, <1>4 DEF AccessInductive, ApprovedIsVouched
<1> QED BY <1>5, <1>6, <1>7, <1>8, <1>9 DEF AccessInductive

\* A new link of a request that was made replaces the open ones of that request.
LEMMA NewLinkStep ==
  ASSUME AccessInductive, NEW a \in Applications, application[a].status # "NONE",
         NEW l \in Links, activation[l].status = "NONE", NEW channel \in Channels,
         activation' = [RevokeLinks(a) EXCEPT ![l] = NewLink(a, {}, Child(a), channel)],
         \A b \in Applications :
           /\ application'[b].student = application[b].student
           /\ application'[b].status = "NONE" <=> application[b].status = "NONE"
           /\ application'[b].status \in OpenStatus => application[b].status \in OpenStatus,
         UNCHANGED invitation
  PROVE  /\ activation' \in [Links -> Link]
         /\ AccessRows' /\ OneRequest' /\ OneLiveLink' /\ WholeFamily'
<1> DEFINE new == NewLink(a, {}, Child(a), channel)
<1>1. AccessTypeOK
  BY DEF AccessInductive
<1>2. contact[Child(a)].revision \in 1..MaxRevision
  BY <1>1, ChildOf DEF AccessTypeOK, Contact
<1>3. new \in Link /\ new.status = "LIVE" /\ new.of = {a} /\ new.family = {}
  BY <1>2 DEF NewLink, NoLink, Link, Optional, Attempt, Channels
<1>4. activation' = [RevokeLinks(a) EXCEPT ![l] = new]
  OBVIOUS
<1> HIDE DEF new
<1>5. /\ RevokeLinks(a) \in [Links -> Link]
      /\ \A m \in Links : /\ RevokeLinks(a)[m].of = activation[m].of
                          /\ RevokeLinks(a)[m].family = activation[m].family
                          /\ RevokeLinks(a)[m].status
                               = IF activation[m].status = "LIVE" /\ activation[m].of = {a}
                                 THEN "DEAD" ELSE activation[m].status
  BY <1>1 DEF AccessTypeOK, Link, RevokeLinks
<1>6. activation' \in [Links -> Link]
      /\ \A m \in Links : activation'[m] = IF m = l THEN new ELSE RevokeLinks(a)[m]
  BY <1>3, <1>4, <1>5
<1>7. activation[l].of = {} /\ activation[l].family = {}
  BY DEF AccessInductive, AccessRows
<1>8. AccessRows'
  BY <1>3, <1>5, <1>6, <1>7 DEF AccessInductive, AccessRows
<1>9. OneRequest'
  BY DEF AccessInductive, OneRequest
<1>10. OneLiveLink'
  BY <1>3, <1>5, <1>6 DEF AccessInductive, OneLiveLink
<1>11. WholeFamily'
  BY <1>3, <1>5, <1>6, <1>7 DEF AccessInductive, WholeFamily, ChildrenOf
<1> QED BY <1>6, <1>8, <1>9, <1>10, <1>11

\* decide_registration approves for the contact of the moment.
LEMMA ApproveStep ==
  ASSUME AccessInductive, NEW a \in Applications, NEW l \in Links, NEW bound \in BOOLEAN,
         NEW channel \in Channels, Approve(a, l, bound, channel)
  PROVE  AccessInductive'
<1> DEFINE s == Child(a)
           new == [application[a] EXCEPT !.status = "APPROVED", !.revision = contact[s].revision, !.bound = bound]
<1>1. AccessTypeOK
  BY DEF AccessInductive
<1>2. /\ application[a].status \in {"PENDING", "NEEDS_INFO"} /\ activation[l].status = "NONE"
      /\ activation' = [RevokeLinks(a) EXCEPT ![l] = NewLink(a, {}, s, channel)]
      /\ vouched' = [vouched EXCEPT ![s] = contact[s].revision]
      /\ UNCHANGED <<contact, invitation, relation, events>>
  BY DEF Approve
<1>3. application' = [application EXCEPT ![a] = new]
  BY <1>1 DEF Approve, AccessTypeOK
<1>4. s \in Students /\ application[a].student = {s}
  BY <1>2, ChildOf
<1>5. contact[s].revision \in 1..MaxRevision
  BY <1>1, <1>4 DEF AccessTypeOK, Contact
<1> HIDE DEF s
<1>6. new \in Application /\ new.status = "APPROVED" /\ new.student = {s}
  BY <1>1, <1>4, <1>5 DEF AccessTypeOK, Application, OpenStatus
<1> HIDE DEF new
<1>7. application' \in [Applications -> Application]
      /\ \A b \in Applications : application'[b] = IF b = a THEN new ELSE application[b]
  BY <1>1, <1>3, <1>6 DEF AccessTypeOK
<1>8. \A b \in Applications :
           /\ application'[b].student = application[b].student
           /\ application'[b].status = "NONE" <=> application[b].status = "NONE"
           /\ application'[b].status \in OpenStatus => application[b].status \in OpenStatus
  BY <1>2, <1>4, <1>6, <1>7 DEF OpenStatus
<1>9. /\ activation' \in [Links -> Link]
      /\ AccessRows' /\ OneRequest' /\ OneLiveLink' /\ WholeFamily'
  BY <1>2, <1>8, NewLinkStep DEF s
<1>10. vouched' \in [Students -> 0..MaxRevision]
       /\ \A t \in Students : vouched'[t] = IF t = s THEN contact[s].revision ELSE vouched[t]
  <2>1. contact[s].revision \in 0..MaxRevision
    BY <1>5, AccessBoundsNat
  <2> QED BY <1>1, <1>2, <2>1 DEF AccessTypeOK
<1>11. AccessTypeOK'
  BY <1>1, <1>2, <1>7, <1>9, <1>10 DEF AccessTypeOK
<1>12. ApprovedIsVouched'
  BY <1>2, <1>6, <1>7, <1>10 DEF AccessInductive, ApprovedIsVouched
<1>13. BoundIsVouched'
  BY <1>2, <1>10 DEF AccessInductive, BoundIsVouched
<1> QED BY <1>9, <1>11, <1>12, <1>13 DEF AccessInductive

\* reissue_activation replaces the link of an approved request.
LEMMA ReissueStep ==
  ASSUME AccessInductive, NEW a \in Applications, NEW l \in Links, NEW channel \in Channels,
         Reissue(a, l, channel)
  PROVE  AccessInductive'
<1>1. /\ application[a].status = "APPROVED" /\ activation[l].status = "NONE"
      /\ activation' = [RevokeLinks(a) EXCEPT ![l] = NewLink(a, {}, Child(a), channel)]
      /\ UNCHANGED <<contact, application, invitation, relation, vouched, events>>
  BY DEF Reissue
<1>2. /\ activation' \in [Links -> Link]
      /\ AccessRows' /\ OneRequest' /\ OneLiveLink' /\ WholeFamily'
  BY <1>1, NewLinkStep
<1>3. AccessTypeOK'
  BY <1>1, <1>2 DEF AccessInductive, AccessTypeOK
<1>4. ApprovedIsVouched' /\ BoundIsVouched'
  BY <1>1, VouchedStays
<1> QED BY <1>2, <1>3, <1>4 DEF AccessInductive

\* What replacing an invitation does to the rows that were there.
LEMMA ReplacedRows ==
  ASSUME AccessInductive
  PROVE  /\ \A a \in Applications :
              /\ CancelApplications[a] \in Application
              /\ CancelApplications[a].student = application[a].student
              /\ CancelApplications[a].bound = application[a].bound
              /\ CancelApplications[a].status # application[a].status
                   => application[a].status \in OpenStatus /\ CancelApplications[a].status = "CANCELLED"
         /\ \A l \in Links :
              /\ RevokeChildren[l] \in Link
              /\ RevokeChildren[l].of = activation[l].of /\ RevokeChildren[l].family = activation[l].family
              /\ RevokeChildren[l].status # activation[l].status
                   => activation[l].status = "LIVE" /\ RevokeChildren[l].status = "DEAD"
<1>1. AccessTypeOK
  BY DEF AccessInductive
<1>2. ASSUME NEW a \in Applications
      PROVE  /\ CancelApplications[a] \in Application
             /\ CancelApplications[a].student = application[a].student
             /\ CancelApplications[a].bound = application[a].bound
             /\ CancelApplications[a].status # application[a].status
                  => application[a].status \in OpenStatus /\ CancelApplications[a].status = "CANCELLED"
  <2>1. application[a] \in Application
    BY <1>1 DEF AccessTypeOK
  <2>2. \/ CancelApplications[a] = application[a]
        \/ /\ application[a].status \in OpenStatus
           /\ CancelApplications[a] = [application[a] EXCEPT !.status = "CANCELLED"]
    BY DEF CancelApplications
  <2> QED BY <2>1, <2>2 DEF Application
<1>3. ASSUME NEW l \in Links
      PROVE  /\ RevokeChildren[l] \in Link
             /\ RevokeChildren[l].of = activation[l].of /\ RevokeChildren[l].family = activation[l].family
             /\ RevokeChildren[l].status # activation[l].status
                  => activation[l].status = "LIVE" /\ RevokeChildren[l].status = "DEAD"
  <2>1. activation[l] \in Link
    BY <1>1 DEF AccessTypeOK
  <2>2. \/ RevokeChildren[l] = activation[l]
        \/ /\ activation[l].status = "LIVE"
           /\ RevokeChildren[l] = [activation[l] EXCEPT !.status = "DEAD"]
    BY DEF RevokeChildren
  <2> QED BY <2>1, <2>2 DEF Link
<1> QED BY <1>2, <1>3

\* create_invitation makes one request and one link for every sibling, and for no student
\* who has another open request.
LEMMA InviteStep ==
  ASSUME AccessInductive, NEW i \in Invitations, NEW siblings \in SUBSET Students,
         NEW request \in [siblings -> Applications], NEW child \in [siblings -> Links],
         Injective(request), Injective(child), Invite(i, request, child)
  PROVE  AccessInductive'
<1> DEFINE approved(s) == [status |-> "APPROVED", student |-> {s}, revision |-> contact[s].revision, bound |-> TRUE]
           issued(s) == NewLink(request[s], {i}, s, "SMS")
<1>1. AccessTypeOK
  BY DEF AccessInductive
<1>2. /\ DOMAIN request = siblings /\ DOMAIN child = siblings
      /\ \A s, t \in siblings : (request[s] = request[t] => s = t) /\ (child[s] = child[t] => s = t)
  BY DEF Injective
<1>3. /\ invitation[i].status = "NONE"
      /\ \A s \in siblings :
           /\ application[request[s]].status = "NONE" /\ activation[child[s]].status = "NONE"
           /\ ~HasOpen(CancelApplications, s)
      /\ UNCHANGED <<contact, relation, events>>
  BY <1>2 DEF Invite
<1>4. /\ application' = [a \in Applications |->
           IF \E s \in siblings : request[s] = a
           THEN approved(CHOOSE s \in siblings : request[s] = a) ELSE CancelApplications[a]]
      /\ activation' = [l \in Links |->
           IF \E s \in siblings : child[s] = l
           THEN issued(CHOOSE s \in siblings : child[s] = l) ELSE RevokeChildren[l]]
      /\ vouched' = [s \in Students |-> IF s \in siblings THEN contact[s].revision ELSE vouched[s]]
  BY <1>2 DEF Invite
<1>5. \A s \in siblings : /\ (CHOOSE t \in siblings : request[t] = request[s]) = s
                          /\ (CHOOSE t \in siblings : child[t] = child[s]) = s
  BY <1>2
<1>6. \A s \in siblings : contact[s].revision \in 1..MaxRevision /\ contact[s].revision \in 0..MaxRevision
  BY <1>1, AccessBoundsNat DEF AccessTypeOK, Contact
<1>7. \A s \in siblings :
        /\ approved(s) \in Application /\ approved(s).status = "APPROVED" /\ approved(s).student = {s}
        /\ issued(s) \in Link /\ issued(s).status = "LIVE" /\ issued(s).of = {request[s]} /\ issued(s).family = {i}
  <2> SUFFICES ASSUME NEW s \in siblings
               PROVE  /\ approved(s) \in Application /\ approved(s).status = "APPROVED" /\ approved(s).student = {s}
                      /\ issued(s) \in Link /\ issued(s).status = "LIVE" /\ issued(s).of = {request[s]}
                      /\ issued(s).family = {i}
    OBVIOUS
  <2>1. approved(s) \in Application /\ approved(s).status = "APPROVED" /\ approved(s).student = {s}
    BY <1>6 DEF Application, OpenStatus, Optional
  <2>2. issued(s) \in Link /\ issued(s).status = "LIVE" /\ issued(s).of = {request[s]} /\ issued(s).family = {i}
    BY <1>6 DEF NewLink, NoLink, Link, Optional, Attempt, Channels
  <2> QED BY <2>1, <2>2
<1> HIDE DEF approved, issued
<1>8. \A a \in Applications :
        \/ \E s \in siblings : a = request[s] /\ application'[a] = approved(s)
        \/ (\A s \in siblings : a # request[s]) /\ application'[a] = CancelApplications[a]
  BY <1>4, <1>5
<1>9. \A l \in Links :
        \/ \E s \in siblings : l = child[s] /\ activation'[l] = issued(s)
        \/ (\A s \in siblings : l # child[s]) /\ activation'[l] = RevokeChildren[l]
  BY <1>4, <1>5
<1>10. invitation' \in [Invitations -> Invitation]
       /\ \A j \in Invitations :
            /\ j = i => invitation'[j].status = "LIVE"
            /\ j # i => \/ invitation'[j].status = invitation[j].status
                        \/ invitation[j].status = "LIVE" /\ invitation'[j].status = "REVOKED"
  BY <1>1, EmptyRows DEF AccessTypeOK, Invite, Invitation, NoInvitation, Replaced
<1>11. AccessTypeOK'
  <2>1. application' \in [Applications -> Application]
    <3>1. \A a \in Applications : application'[a] \in Application
      BY <1>7, <1>8, ReplacedRows
    <3> QED BY <1>4, <3>1
  <2>2. activation' \in [Links -> Link]
    <3>1. \A l \in Links : activation'[l] \in Link
      BY <1>7, <1>9, ReplacedRows
    <3> QED BY <1>4, <3>1
  <2>3. vouched' \in [Students -> 0..MaxRevision]
    BY <1>1, <1>4, <1>6 DEF AccessTypeOK
  <2> QED BY <1>1, <1>3, <1>10, <2>1, <2>2, <2>3 DEF AccessTypeOK
\* The rows of the new requests and links were empty, and nothing referred to them.
<1>12. \A s \in siblings :
         /\ application[request[s]].student = {}
         /\ activation[child[s]].of = {} /\ activation[child[s]].family = {}
         /\ \A l \in Links : activation[l].of # {request[s]} /\ activation[l].family # {i}
  BY <1>3 DEF AccessInductive, AccessRows
<1>13. \A a \in Applications :
         \/ \E s \in siblings :
              /\ a = request[s] /\ application'[a].status = "APPROVED" /\ application'[a].student = {s}
         \/ /\ \A s \in siblings : a # request[s]
            /\ application'[a].student = application[a].student
            /\ application'[a].bound = application[a].bound
            /\ \/ application'[a].status = application[a].status
               \/ application[a].status \in OpenStatus /\ application'[a].status = "CANCELLED"
  BY <1>7, <1>8, ReplacedRows
<1>14. \A l \in Links :
         \/ \E s \in siblings :
              /\ l = child[s] /\ activation'[l].status = "LIVE" /\ activation'[l].of = {request[s]}
              /\ activation'[l].family = {i}
         \/ /\ activation'[l].of = activation[l].of /\ activation'[l].family = activation[l].family
            /\ \/ activation'[l].status = activation[l].status
               \/ activation[l].status = "LIVE" /\ activation'[l].status = "DEAD"
  BY <1>7, <1>9, ReplacedRows
<1>15. AccessRows'
  <2>1. \A a \in Applications : application'[a].status = "NONE" <=> application'[a].student = {}
    <3> SUFFICES ASSUME NEW a \in Applications
                 PROVE  application'[a].status = "NONE" <=> application'[a].student = {}
      OBVIOUS
    <3>1. CASE \E s \in siblings : application'[a].status = "APPROVED" /\ application'[a].student = {s}
      BY <3>1
    <3>2. CASE /\ application'[a].student = application[a].student
               /\ \/ application'[a].status = application[a].status
                  \/ application[a].status \in OpenStatus /\ application'[a].status = "CANCELLED"
      BY <3>2 DEF AccessInductive, AccessRows, OpenStatus
    <3> QED BY <1>13, <3>1, <3>2
  <2>2. \A l \in Links : /\ activation'[l].status = "NONE" <=> activation'[l].of = {}
                         /\ activation'[l].status = "NONE" => activation'[l].family = {}
    <3> SUFFICES ASSUME NEW l \in Links
                 PROVE  /\ activation'[l].status = "NONE" <=> activation'[l].of = {}
                        /\ activation'[l].status = "NONE" => activation'[l].family = {}
      OBVIOUS
    <3>1. CASE \E s \in siblings : activation'[l].status = "LIVE" /\ activation'[l].of = {request[s]}
      BY <3>1
    <3>2. CASE /\ activation'[l].of = activation[l].of /\ activation'[l].family = activation[l].family
               /\ \/ activation'[l].status = activation[l].status
                  \/ activation[l].status = "LIVE" /\ activation'[l].status = "DEAD"
      BY <3>2 DEF AccessInductive, AccessRows
    <3> QED BY <1>14, <3>1, <3>2
  <2>3. \A l \in Links, a \in Applications : activation'[l].of = {a} => application'[a].status # "NONE"
    <3> SUFFICES ASSUME NEW l \in Links, NEW a \in Applications, activation'[l].of = {a}
                 PROVE  application'[a].status # "NONE"
      OBVIOUS
    <3>1. (\E s \in siblings : a = request[s]) \/ activation[l].of = {a}
      BY <1>14
    <3> QED BY <1>13, <3>1 DEF AccessInductive, AccessRows, OpenStatus
  <2>4. \A l \in Links, j \in Invitations : activation'[l].family = {j} => invitation'[j].status # "NONE"
    <3> SUFFICES ASSUME NEW l \in Links, NEW j \in Invitations, activation'[l].family = {j}
                 PROVE  invitation'[j].status # "NONE"
      OBVIOUS
    <3>1. j = i \/ activation[l].family = {j}
      BY <1>14
    <3> QED BY <1>10, <3>1 DEF AccessInductive, AccessRows
  <2> QED BY <2>1, <2>2, <2>3, <2>4 DEF AccessRows
<1>16. OneRequest'
  <2> SUFFICES ASSUME NEW a \in Applications, NEW b \in Applications,
                      application'[a].status \in OpenStatus, application'[b].status \in OpenStatus,
                      application'[a].student = application'[b].student
               PROVE  a = b
    BY DEF OneRequest
  <2>1. ASSUME NEW c \in Applications, \A s \in siblings : c # request[s], application'[c].status \in OpenStatus
        PROVE  /\ \A s \in siblings : application'[c].student # {s}
               /\ application[c].status \in OpenStatus /\ application'[c].student = application[c].student
    <3>1. application'[c] = CancelApplications[c]
      BY <1>8, <2>1
    <3>2. \A s \in siblings : application'[c].student # {s}
      BY <1>3, <2>1, <3>1 DEF HasOpen
    <3> QED BY <1>13, <2>1, <3>2 DEF OpenStatus
  <2>2. CASE \E s \in siblings : a = request[s]
    <3>1. PICK s \in siblings : a = request[s]
      BY <2>2
    <3>2. application'[a].student = {s}
      BY <1>2, <1>13, <3>1
    <3>3. PICK t \in siblings : b = request[t]
      BY <2>1, <3>2
    <3>4. application'[b].student = {t}
      BY <1>2, <1>13, <3>3
    <3> QED BY <3>1, <3>2, <3>3, <3>4
  <2>3. CASE \A s \in siblings : a # request[s]
    <3>1. \A s \in siblings : b # request[s]
      <4> SUFFICES ASSUME NEW t \in siblings, b = request[t] PROVE FALSE
        OBVIOUS
      <4>1. application'[b].student = {t}
        BY <1>2, <1>13
      <4> QED BY <2>1, <2>3, <4>1
    <3> QED BY <2>1, <2>3, <3>1 DEF AccessInductive, OneRequest
  <2> QED BY <2>2, <2>3
<1>17. OneLiveLink'
  <2> SUFFICES ASSUME NEW l \in Links, NEW m \in Links, activation'[l].status = "LIVE",
                      activation'[m].status = "LIVE", activation'[l].of = activation'[m].of
               PROVE  l = m
    BY DEF OneLiveLink
  <2>1. CASE \E s \in siblings : l = child[s] /\ activation'[l].of = {request[s]}
    <3>1. PICK s \in siblings : l = child[s] /\ activation'[l].of = {request[s]}
      BY <2>1
    <3>2. PICK t \in siblings : m = child[t] /\ activation'[m].of = {request[t]}
      BY <1>12, <1>14, <3>1
    <3> QED BY <1>2, <3>1, <3>2
  <2>2. CASE activation'[l].of = activation[l].of /\ activation[l].status = "LIVE"
    <3>1. activation'[m].of = activation[m].of /\ activation[m].status = "LIVE"
      <4>1. CASE \E s \in siblings : activation'[m].of = {request[s]}
        BY <1>12, <2>2, <4>1
      <4>2. CASE /\ activation'[m].of = activation[m].of
                 /\ \/ activation'[m].status = activation[m].status
                    \/ activation[m].status = "LIVE" /\ activation'[m].status = "DEAD"
        BY <4>2
      <4> QED BY <1>14, <4>1, <4>2
    <3> QED BY <2>2, <3>1 DEF AccessInductive, OneLiveLink
  <2> QED BY <1>14, <2>1, <2>2
<1>18. WholeFamily'
  <2> SUFFICES ASSUME NEW j \in Invitations, NEW l \in Links, activation'[l].family = {j}
               PROVE  activation'[l].status = "USED" <=> invitation'[j].status = "CONSUMED"
    BY DEF WholeFamily, ChildrenOf
  <2>1. CASE j = i
    <3>1. activation'[l].status = "LIVE"
      <4>1. activation[l].family # {i} \/ siblings = {}
        BY <1>12
      <4>2. siblings # {}
        BY <1>2 DEF Invite
      <4> QED BY <1>14, <2>1, <4>1, <4>2
    <3> QED BY <1>10, <2>1, <3>1
  <2>2. CASE j # i
    <3>1. /\ activation[l].family = {j}
          /\ activation'[l].status = "USED" <=> activation[l].status = "USED"
      BY <1>14, <2>2
    <3>2. activation[l].status = "USED" <=> invitation[j].status = "CONSUMED"
      BY <3>1 DEF AccessInductive, WholeFamily, ChildrenOf
    <3> QED BY <1>10, <2>2, <3>1, <3>2
  <2> QED BY <2>1, <2>2
<1>19. ApprovedIsVouched'
  <2> SUFFICES ASSUME NEW a \in Applications, NEW s \in Students, application'[a].status = "APPROVED",
                      application'[a].bound, application'[a].student = {s}
               PROVE  vouched'[s] = contact'[s].revision
    BY DEF ApprovedIsVouched
  <2>1. s \in siblings \/ vouched[s] = contact[s].revision
    <3>1. CASE \E t \in siblings : application'[a].student = {t}
      BY <3>1
    <3>2. CASE /\ application'[a].student = application[a].student /\ application'[a].bound = application[a].bound
               /\ \/ application'[a].status = application[a].status
                  \/ application[a].status \in OpenStatus /\ application'[a].status = "CANCELLED"
      BY <3>2 DEF AccessInductive, ApprovedIsVouched
    <3> QED BY <1>13, <3>1, <3>2
  <2> QED BY <1>3, <1>4, <2>1
<1>20. BoundIsVouched'
  BY <1>3, <1>4 DEF AccessInductive, BoundIsVouched
<1> QED BY <1>11, <1>15, <1>16, <1>17, <1>18, <1>19, <1>20 DEF AccessInductive

-----------------------------------------------------------------------------
(* The theorems.                                                            *)

\* No rows, and the contacts at their first revision.
LEMMA AccessStart == AccessInit => AccessInductive
<1> SUFFICES ASSUME AccessInit PROVE AccessInductive
  OBVIOUS
<1>1. /\ application = [a \in Applications |-> NoApplication] /\ activation = [l \in Links |-> NoLink]
      /\ invitation = [i \in Invitations |-> NoInvitation]
      /\ relation = [s \in Students |-> [status |-> "NONE", revision |-> 1, bound |-> TRUE]]
      /\ vouched = [s \in Students |-> 0] /\ events = 0
  BY DEF AccessInit
<1>2. AccessTypeOK
  <2>1. contact \in [Students -> Contact]
    BY EmptyRows DEF AccessInit, Contact
  <2>2. relation \in [Students -> Relation]
    BY <1>1, EmptyRows DEF Relation
  <2>3. vouched \in [Students -> 0..MaxRevision] /\ events \in 0..MaxEvents
    BY <1>1, AccessBoundsNat
  <2> QED BY <1>1, <2>1, <2>2, <2>3, EmptyRows DEF AccessTypeOK
<1>3. AccessRows
  BY <1>1 DEF AccessRows, NoApplication, NoLink
<1>4. OneRequest /\ OneLiveLink /\ ApprovedIsVouched
  BY <1>1 DEF OneRequest, OneLiveLink, ApprovedIsVouched, NoApplication, NoLink, OpenStatus
<1>5. BoundIsVouched /\ WholeFamily
  BY <1>1 DEF BoundIsVouched, WholeFamily, ChildrenOf, NoLink
<1> QED BY <1>2, <1>3, <1>4, <1>5 DEF AccessInductive

\* Every operation on the guardian's access keeps the invariant.
LEMMA AccessStep == AccessInductive /\ [AccessNext]_accessVars => AccessInductive'
<1> SUFFICES ASSUME AccessInductive, [AccessNext]_accessVars PROVE AccessInductive'
  OBVIOUS
<1>1. ASSUME NEW a \in Applications, NEW s \in Students, Submit(a, s) PROVE AccessInductive'
  BY <1>1, SubmitStep
<1>2. ASSUME NEW a \in Applications, AddNote(a) \/ \E status \in {"REJECTED", "NEEDS_INFO"} : Refuse(a, status)
      PROVE  AccessInductive'
  BY <1>2, RequestStep
<1>3. ASSUME NEW a \in Applications, NEW l \in Links, NEW channel \in Channels,
             Reissue(a, l, channel) \/ \E bound \in BOOLEAN : Approve(a, l, bound, channel)
      PROVE  AccessInductive'
  BY <1>3, ReissueStep, ApproveStep
<1>4. ASSUME NEW l \in Links,
             ClaimLink(l) \/ Complete(l) \/ LinksExpire({l}) \/ \E answer \in Answers : SettleLink(l, answer)
      PROVE  AccessInductive'
  BY <1>4, LinkDelivery, CompleteStep, ExpireStep
<1>5. ASSUME NEW i \in Invitations,
             \E siblings \in SUBSET Students :
               \E request \in [siblings -> Applications], child \in [siblings -> Links] :
                 Injective(request) /\ Injective(child) /\ Invite(i, request, child)
      PROVE  AccessInductive'
  BY <1>5, InviteStep
<1>6. ASSUME NEW i \in Invitations,
             \/ ClaimInvitation(i) \/ CompleteInvitation(i) \/ LinksExpire(ChildrenOf(i))
             \/ \E answer \in Answers : SettleInvitation(i, answer)
      PROVE  AccessInductive'
  BY <1>6, InvitationDelivery, CompleteInvitationStep, ExpireStep
<1>7. ASSUME NEW s \in Students,
             \/ \E status \in {"ACTIVE", "SUSPENDED", "REVOKED"}, bound \in BOOLEAN :
                  DecideRelation(s, status, bound)
             \/ \E ours \in BOOLEAN : ContactChange(s, ours)
             \/ Bar(s)
      PROVE  AccessInductive'
  BY <1>7, RelationStep, ContactStep, BarStep
<1>8. CASE UNCHANGED accessVars
  BY <1>8 DEF accessVars, AccessInductive, AccessTypeOK, AccessRows, OneRequest, OneLiveLink,
              ApprovedIsVouched, BoundIsVouched, WholeFamily, ChildrenOf
<1> QED BY <1>1, <1>2, <1>3, <1>4, <1>5, <1>6, <1>7, <1>8 DEF AccessNext

\* A guardian bound to the school's contact has access only at the revision staff vouched
\* for, in every order of approvals, decisions, invitations and changes of the contact.
THEOREM BoundAccessIsVouched == AccessSpec => []BoundIsVouched
<1>1. AccessInductive => BoundIsVouched
  BY DEF AccessInductive
<1> QED BY AccessStart, AccessStep, <1>1, PTL DEF AccessSpec

\* One link opens a student, and the children of an invitation are used together.
THEOREM LinksHold == AccessSpec => []LinksInvariant
<1>1. AccessInductive => LinksInvariant
  BY OneOpens DEF AccessInductive, LinksInvariant
<1> QED BY AccessStart, AccessStep, <1>1, PTL DEF AccessSpec
=============================================================================
