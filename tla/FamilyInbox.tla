----------------------------- MODULE FamilyInbox -----------------------------
(***************************************************************************)
(* What the school sends to the guardians of one student and the inbox of  *)
(* each guardian (backend/parents/request_services.py publish_family,      *)
(* revoke_publication, sync_activity_notifications; request_api.py).       *)
(*                                                                         *)
(* Warnings reach the inbox when the guardian opens it, publications when  *)
(* they are published.  Every operation locks the student or the relation, *)
(* and the warning, before it reads: one step each.                        *)
(***************************************************************************)
EXTENDS Integers, FiniteSets

CONSTANTS
  Parents,   \* GuardianStudentRelations
  Alerts,    \* StudentWarnings
  Bulletins  \* FamilyPublications

\* A notice names one source: a warning or a publication.
ASSUME InboxSources == Alerts \cap Bulletins = {}

VARIABLES
  partaking,    \* relations that are ACTIVE
  alerts,       \* [Alerts -> "none", "ISSUED" or "VOIDED"]
  bulletins,    \* [Bulletins -> the publication]
  acks,         \* WarningAcknowledgements and FamilyPublicationAcknowledgements
  notices,      \* [Parents, sources -> the ParentNotification]
  completions   \* [Parents, Bulletins -> FAMILY_ACTION_COMPLETED events of the case]

inboxVars == <<partaking, alerts, bulletins, acks, notices, completions>>

Sources == Alerts \cup Bulletins
Bulletin == [status: {"none", "PUBLISHED", "REVOKED"}, asks: BOOLEAN]
Notice == [exists: BOOLEAN, asks: BOOLEAN, done: BOOLEAN, read: BOOLEAN]

InboxInit ==
  /\ partaking = Parents /\ acks = {}
  /\ alerts = [w \in Alerts |-> "none"]
  /\ bulletins = [b \in Bulletins |-> [status |-> "none", asks |-> FALSE]]
  /\ notices = [x \in Parents \X Sources |->
                  [exists |-> FALSE, asks |-> FALSE, done |-> FALSE, read |-> FALSE]]
  /\ completions = [x \in Parents \X Bulletins |-> 0]

-----------------------------------------------------------------------------
(* The school.                                                             *)

\* Issuing and voiding a warning (external: StudentWarnings).
SetAlert(w) ==
  /\ alerts[w] # "VOIDED"
  /\ alerts' = [alerts EXCEPT ![w] = IF @ = "none" THEN "ISSUED" ELSE "VOIDED"]
  /\ UNCHANGED <<partaking, bulletins, acks, notices, completions>>

\* Suspending and restoring a relation (external: GuardianAccess).
SetParent(p) ==
  /\ partaking' = IF p \in partaking THEN partaking \ {p} ELSE partaking \cup {p}
  /\ UNCHANGED <<alerts, bulletins, acks, notices, completions>>

\* publish_family, with the notices of the guardians of the moment.
Publish(b, asks) ==
  /\ bulletins[b].status = "none"
  /\ bulletins' = [bulletins EXCEPT ![b] = [status |-> "PUBLISHED", asks |-> asks]]
  /\ notices' = [x \in Parents \X Sources |->
                   IF x[1] \in partaking /\ x[2] = b
                   THEN [notices[x] EXCEPT !.exists = TRUE, !.asks = asks] ELSE notices[x]]
  /\ UNCHANGED <<partaking, alerts, acks, completions>>

\* Mutant: only the notices of relations that are active now are withdrawn.
Addressed_Active(p) == p \in partaking

Addressed(p) == p \in Parents

\* revoke_publication.
Revoke(b) ==
  /\ bulletins[b].status = "PUBLISHED"
  /\ bulletins' = [bulletins EXCEPT ![b].status = "REVOKED"]
  /\ notices' = [x \in Parents \X Sources |->
                   IF Addressed(x[1]) /\ x[2] = b /\ notices[x].exists
                   THEN [notices[x] EXCEPT !.asks = FALSE, !.done = TRUE] ELSE notices[x]]
  /\ UNCHANGED <<partaking, alerts, acks, completions>>

-----------------------------------------------------------------------------
(* The guardian.                                                           *)

\* Mutant: the inbox does not look at acknowledgements given elsewhere.
Answered_Own(p, w) == notices[<<p, w>>].done

Answered(p, w) == notices[<<p, w>>].done \/ <<p, w>> \in acks

\* A warning after the guardian has opened the inbox.
Caught(p, w) ==
  LET n == notices[<<p, w>>]
      new == IF alerts[w] = "ISSUED" THEN [n EXCEPT !.exists = TRUE, !.asks = TRUE] ELSE n
      answered == IF new.exists THEN [new EXCEPT !.done = Answered(p, w)] ELSE new
  IN IF alerts[w] = "VOIDED" /\ answered.asks
     THEN [answered EXCEPT !.asks = FALSE, !.done = TRUE] ELSE answered

\* sync_activity_notifications, on opening the inbox.
OpenInbox(p) ==
  /\ p \in partaking
  /\ notices' = [x \in Parents \X Sources |->
                   IF x[1] = p /\ x[2] \in Alerts THEN Caught(p, x[2]) ELSE notices[x]]
  /\ UNCHANGED <<partaking, alerts, bulletins, acks, completions>>

\* ParentWarningAcknowledgeView.
AckAlert(p, w) ==
  /\ p \in partaking /\ alerts[w] = "ISSUED"
  /\ acks' = acks \cup {<<p, w>>}
  /\ notices' = [notices EXCEPT ![<<p, w>>].done = notices[<<p, w>>].exists]
  /\ UNCHANGED <<partaking, alerts, bulletins, completions>>

\* ParentPublicationAcknowledgeView.
AckBulletin(p, b) ==
  /\ p \in partaking /\ bulletins[b].status = "PUBLISHED"
  /\ acks' = acks \cup {<<p, b>>}
  /\ UNCHANGED <<partaking, alerts, bulletins, notices, completions>>

\* ParentNotificationReadView.
ReadNotice(p, s) ==
  /\ p \in partaking /\ notices[<<p, s>>].exists
  /\ notices' = [notices EXCEPT ![<<p, s>>].read = TRUE]
  /\ UNCHANGED <<partaking, alerts, bulletins, acks, completions>>

\* Mutant: the action may be completed unseen.
Ready_Unseen(p, s) == notices[<<p, s>>].asks

\* The source stands and was acknowledged.
Ready(p, s) ==
  /\ notices[<<p, s>>].asks /\ <<p, s>> \in acks
  /\ IF s \in Alerts THEN alerts[s] = "ISSUED" ELSE bulletins[s].status = "PUBLISHED"

\* Mutant: every press of the button counts as a completion.
FirstTime_Always(p, s) == 1

FirstTime(p, s) == IF notices[<<p, s>>].done THEN 0 ELSE 1

\* ParentNotificationCompleteView.
CompleteNotice(p, s) ==
  /\ p \in partaking /\ notices[<<p, s>>].exists /\ Ready(p, s)
  /\ notices' = [notices EXCEPT ![<<p, s>>].done = TRUE]
  /\ completions' = [x \in Parents \X Bulletins |->
                       IF x = <<p, s>> THEN completions[x] + FirstTime(p, s) ELSE completions[x]]
  /\ UNCHANGED <<partaking, alerts, bulletins, acks>>

InboxNext ==
  \/ \E w \in Alerts : SetAlert(w)
  \/ \E b \in Bulletins : Revoke(b) \/ \E asks \in BOOLEAN : Publish(b, asks)
  \/ \E p \in Parents :
       \/ SetParent(p) \/ OpenInbox(p)
       \/ \E w \in Alerts : AckAlert(p, w)
       \/ \E b \in Bulletins : AckBulletin(p, b)
       \/ \E s \in Sources : ReadNotice(p, s) \/ CompleteNotice(p, s)

InboxSpec == InboxInit /\ [][InboxNext]_inboxVars

-----------------------------------------------------------------------------
(* Properties.                                                             *)

\* The types of the publications and of the notices.
InboxTypeOK ==
  /\ partaking \subseteq Parents /\ acks \subseteq Parents \X Sources
  /\ alerts \in [Alerts -> {"none", "ISSUED", "VOIDED"}]
  /\ bulletins \in [Bulletins -> Bulletin] /\ notices \in [Parents \X Sources -> Notice]
  /\ completions \in [Parents \X Bulletins -> 0..1]

\* A warning that the guardian acknowledged, before or after its notice appeared in
\* the inbox, does not ask for an answer.
AckSettles ==
  \A p \in Parents, w \in Alerts :
    <<p, w>> \in acks /\ notices[<<p, w>>].exists => notices[<<p, w>>].done

\* A notice is settled for a reason: the guardian acknowledged its source, or the
\* school withdrew it.
SettledForReason ==
  \A p \in Parents, s \in Sources :
    notices[<<p, s>>].done =>
      \/ <<p, s>> \in acks
      \/ s \in Alerts /\ alerts[s] = "VOIDED"
      \/ s \in Bulletins /\ bulletins[s].status = "REVOKED"

\* A publication that was revoked asks nothing of any guardian, of one whose relation
\* was suspended at that moment and restored later neither.
RevokedIsQuiet ==
  \A p \in Parents, b \in Bulletins :
    bulletins[b].status = "REVOKED" => ~notices[<<p, b>>].asks

\* What the inbox asks of a guardian: nothing that was answered or withdrawn, and
\* everything that was not.
InboxInvariant == AckSettles /\ SettledForReason /\ RevokedIsQuiet
=============================================================================
