---------------------------- MODULE RecoveryEmail ---------------------------
(***************************************************************************)
(* The recovery email of one account and the links sent to it              *)
(* (backend/parents/email_recovery_services.py, email_recovery_tasks.py).  *)
(*                                                                         *)
(* Every operation is one transaction that locks the user first.  A mailer *)
(* is a Celery worker: one transaction prepares the delivery and makes its *)
(* token, a second one checks it again and sends while it holds the locks. *)
(* Numbers stand for the fingerprints of passwords and mobile numbers.     *)
(***************************************************************************)
EXTENDS Integers, FiniteSets

CONSTANTS
  Emails,
  Deliveries,    \* identities of AccountRecoveryEmailDelivery rows: a bound
  Mailers,
  MaxPasswords,  \* bound: passwords the account has had
  MailFaults     \* bound: deaths of workers and broker errors

ASSUME MailBoundsNat == MaxPasswords \in Nat \ {0} /\ MailFaults \in Nat

VARIABLES
  account,   \* the User: active, and its password and mobile
  recovery,  \* the AccountRecoveryEmail
  delivery,  \* [Deliveries -> row]
  tasks,     \* deliveries whose task the broker holds
  mailer,    \* [Mailers -> the delivery it is sending and the address it read]
  inbox,     \* <<delivery, address>>: links that have arrived somewhere
  mailFaults

mailVars == <<account, recovery, delivery, tasks, mailer, inbox, mailFaults>>

Perhaps(S) == {{}} \cup {{x} : x \in S}
Purposes == {"VERIFY", "RESET"}
Recovery == [current: Perhaps(Emails), revision: Nat, pending: Perhaps(Emails), pendingRevision: Nat]
Delivery == [status: {"NONE", "PENDING", "SENDING", "SUBMITTED", "FAILED", "UNKNOWN", "CANCELLED"},
             purpose: Purposes, email: Perhaps(Emails), revision: Nat,
             password: Nat, mobile: Nat,
             revoked: BOOLEAN, consumed: BOOLEAN, recent: BOOLEAN, expired: BOOLEAN]
Mailer == [delivery: Perhaps(Deliveries), address: Perhaps(Emails)]

NoDelivery == [status |-> "NONE", purpose |-> "VERIFY", email |-> {}, revision |-> 0,
               password |-> 0, mobile |-> 0, revoked |-> FALSE, consumed |-> FALSE,
               recent |-> FALSE, expired |-> FALSE]
Unemployed == [delivery |-> {}, address |-> {}]

MailInit ==
  /\ account = [active |-> TRUE, password |-> 1, mobile |-> 1]
  /\ recovery = [current |-> {}, revision |-> 1, pending |-> {}, pendingRevision |-> 1]
  /\ delivery = [d \in Deliveries |-> NoDelivery]
  /\ tasks = {} /\ mailer = [k \in Mailers |-> Unemployed] /\ inbox = {} /\ mailFaults = 0

MailFault == mailFaults < MailFaults /\ mailFaults' = mailFaults + 1

-----------------------------------------------------------------------------
(* Queueing.                                                               *)

Open(x) == x.status # "NONE" /\ ~x.revoked /\ ~x.consumed

\* Mutant: the links that are out stay valid when another one is requested.
Revoke_None(rows, purposes) == rows

\* UPDATE ... SET revoked_at of what is neither revoked nor consumed.
Revoke(rows, purposes) ==
  [d \in Deliveries |-> IF Open(rows[d]) /\ rows[d].purpose \in purposes
                        THEN [rows[d] EXCEPT !.revoked = TRUE] ELSE rows[d]]

NewDelivery(item, purpose) ==
  [NoDelivery EXCEPT
     !.status = "PENDING", !.purpose = purpose,
     !.email = IF purpose = "VERIFY" THEN item.pending ELSE item.current,
     !.revision = IF purpose = "VERIFY" THEN item.pendingRevision ELSE item.revision,
     !.password = account.password, !.mobile = account.mobile, !.recent = TRUE]

\* _queue_delivery over the rows as the operation has left them: nothing within
\* a minute of an open one, else it takes the place of the open ones.  The task
\* is handed to the broker at commit; when that fails the delivery is FAILED.
QueueDelivery(item, rows, purpose) ==
  \/ /\ \E d \in Deliveries : Open(rows[d]) /\ rows[d].purpose = purpose /\ rows[d].recent
     /\ delivery' = rows /\ UNCHANGED <<tasks, mailFaults>>
  \/ /\ ~\E d \in Deliveries : Open(rows[d]) /\ rows[d].purpose = purpose /\ rows[d].recent
     /\ \E d \in Deliveries :
          /\ rows[d].status = "NONE"
          /\ \/ /\ delivery' = [Revoke(rows, {purpose}) EXCEPT ![d] = NewDelivery(item, purpose)]
                /\ tasks' = tasks \cup {d} /\ UNCHANGED mailFaults
             \/ /\ MailFault
                /\ delivery' = [Revoke(rows, {purpose}) EXCEPT ![d] =
                     [NewDelivery(item, purpose) EXCEPT !.status = "FAILED", !.revoked = TRUE]]
                /\ UNCHANGED tasks

\* enroll_recovery_email and _enroll_locked: a new address waits to be verified
\* and every link that is out is revoked.
Enroll(e) ==
  LET fresh == recovery.pending # {e}
      item == IF fresh THEN [recovery EXCEPT !.pending = {e}, !.pendingRevision = @ + 1]
              ELSE recovery
  IN
  /\ account.active /\ recovery.current # {e}
  /\ recovery' = item
  /\ QueueDelivery(item, IF fresh THEN Revoke(delivery, Purposes) ELSE delivery, "VERIFY")
  /\ UNCHANGED <<account, mailer, inbox>>

\* resend_verification.
Resend ==
  /\ account.active /\ recovery.pending # {}
  /\ QueueDelivery(recovery, delivery, "VERIFY")
  /\ UNCHANGED <<account, recovery, mailer, inbox>>

\* request_password_recovery, for an account with a verified address.
RequestReset ==
  /\ account.active /\ recovery.current # {}
  /\ QueueDelivery(recovery, delivery, "RESET")
  /\ UNCHANGED <<account, recovery, mailer, inbox>>

-----------------------------------------------------------------------------
(* Sending.                                                                *)

\* Mutant: the password the account had when the link was requested is not compared.
Current_NoFingerprint(d) ==
  LET x == delivery[d] IN
  /\ Open(x) /\ account.active
  /\ IF x.purpose = "VERIFY"
     THEN recovery.pending # {} /\ x.email = recovery.pending /\ x.revision = recovery.pendingRevision
     ELSE recovery.current # {} /\ x.email = recovery.current /\ x.revision = recovery.revision

\* _delivery_current.
Current(d) ==
  LET x == delivery[d] IN
  /\ Open(x) /\ account.active
  /\ x.password = account.password /\ x.mobile = account.mobile
  /\ IF x.purpose = "VERIFY"
     THEN recovery.pending # {} /\ x.email = recovery.pending /\ x.revision = recovery.pendingRevision
     ELSE recovery.current # {} /\ x.email = recovery.current /\ x.revision = recovery.revision

Cancelled(x) == [x EXCEPT !.status = "CANCELLED", !.revoked = TRUE]

\* Mutant: the link goes to the verified address if there is one.
Address_Current(purpose) == IF recovery.current # {} THEN recovery.current ELSE recovery.pending

Address(purpose) == IF purpose = "VERIFY" THEN recovery.pending ELSE recovery.current

\* prepare_email_delivery: only a PENDING delivery is sent; one that a lost
\* worker left SENDING for ten minutes becomes UNKNOWN.
Prepare(k, d) ==
  /\ mailer[k].delivery = {} /\ d \in tasks
  /\ tasks' = tasks \ {d}
  /\ \/ /\ delivery[d].status = "PENDING" /\ Current(d)
        /\ delivery' = [delivery EXCEPT ![d].status = "SENDING"]
        /\ mailer' = [mailer EXCEPT ![k] =
             [delivery |-> {d}, address |-> Address(delivery[d].purpose)]]
     \/ /\ delivery[d].status = "PENDING" /\ ~Current(d)
        /\ delivery' = [delivery EXCEPT ![d] = Cancelled(@)]
        /\ UNCHANGED mailer
     \/ /\ delivery[d].status = "SENDING"
        /\ \/ delivery' = [delivery EXCEPT ![d].status = "UNKNOWN"]
           \/ UNCHANGED delivery
        /\ UNCHANGED mailer
     \/ /\ delivery[d].status \notin {"PENDING", "SENDING"}
        /\ UNCHANGED <<delivery, mailer>>
  /\ UNCHANGED <<account, recovery, inbox, mailFaults>>

Permitted(d) == delivery[d].status = "SENDING" /\ ~delivery[d].expired /\ Current(d)

\* Mutant: an answer of the provider is kept as it is.
Outcome_Raw == {"OK"}

\* What the provider's answer becomes.
Outcome == {"SUBMITTED", "FAILED", "UNKNOWN"}

\* email_delivery_send_scope, send_recovery_email and finalize_email_delivery, in
\* one transaction.
SendLink(k) ==
  \E d \in mailer[k].delivery :
    /\ IF Permitted(d)
       THEN \E answer \in Outcome :
              /\ delivery' = [delivery EXCEPT ![d].status = answer,
                                              ![d].revoked = @ \/ answer = "FAILED"]
              /\ inbox' \in IF answer = "FAILED" THEN {inbox}
                            ELSE {inbox, inbox \cup ({d} \X mailer[k].address)}
       ELSE delivery' = [delivery EXCEPT ![d] = Cancelled(@)] /\ UNCHANGED inbox
    /\ mailer' = [mailer EXCEPT ![k] = Unemployed]
    /\ UNCHANGED <<account, recovery, tasks, mailFaults>>

\* The worker dies: the provider may have the mail, the transaction is rolled
\* back, and the broker delivers the task again.
MailerDies(k) ==
  \E d \in mailer[k].delivery :
    /\ MailFault
    /\ inbox' \in IF Permitted(d) THEN {inbox, inbox \cup ({d} \X mailer[k].address)} ELSE {inbox}
    /\ tasks' = tasks \cup {d}
    /\ mailer' = [mailer EXCEPT ![k] = Unemployed]
    /\ UNCHANGED <<account, recovery, delivery>>

-----------------------------------------------------------------------------
(* Using a link.                                                           *)

\* What _locked_token requires of the delivery of a token.
Usable(d) ==
  /\ delivery[d].status \in {"SENDING", "SUBMITTED", "UNKNOWN"}
  /\ ~delivery[d].expired /\ Current(d)

Arrived(d) == \E e \in Emails : <<d, e>> \in inbox

\* verify_recovery_email.
Verify(d) ==
  /\ Arrived(d) /\ delivery[d].purpose = "VERIFY" /\ Usable(d)
  /\ recovery' = [recovery EXCEPT !.current = recovery.pending, !.pending = {}, !.revision = @ + 1]
  /\ delivery' = Revoke([delivery EXCEPT ![d].consumed = TRUE], Purposes)
  /\ UNCHANGED <<account, tasks, mailer, inbox, mailFaults>>

\* complete_password_recovery.
Reset(d) ==
  /\ Arrived(d) /\ delivery[d].purpose = "RESET" /\ Usable(d)
  /\ account.password < MaxPasswords
  /\ account' = [account EXCEPT !.password = @ + 1]
  /\ delivery' = Revoke([delivery EXCEPT ![d].consumed = TRUE], Purposes)
  /\ UNCHANGED <<recovery, tasks, mailer, inbox, mailFaults>>

\* The account is changed elsewhere: its password, its mobile, its activity.
AccountChanges ==
  /\ \/ account.password < MaxPasswords /\ account' = [account EXCEPT !.password = @ + 1]
     \/ account.mobile = 1 /\ account' = [account EXCEPT !.mobile = 2]
     \/ account.active /\ account' = [account EXCEPT !.active = FALSE]
  /\ UNCHANGED <<recovery, delivery, tasks, mailer, inbox, mailFaults>>

\* A minute passes; a link reaches the end of its time.
MinutePasses ==
  /\ \E d \in Deliveries : delivery[d].recent
  /\ delivery' = [d \in Deliveries |-> [delivery[d] EXCEPT !.recent = FALSE]]
  /\ UNCHANGED <<account, recovery, tasks, mailer, inbox, mailFaults>>

LinkExpires(d) ==
  /\ delivery[d].status \in {"SENDING", "SUBMITTED", "UNKNOWN"} /\ ~delivery[d].expired
  /\ delivery' = [delivery EXCEPT ![d].expired = TRUE]
  /\ UNCHANGED <<account, recovery, tasks, mailer, inbox, mailFaults>>

-----------------------------------------------------------------------------
MailNext ==
  \/ \E e \in Emails : Enroll(e)
  \/ Resend \/ RequestReset \/ AccountChanges \/ MinutePasses
  \/ \E k \in Mailers : (\E d \in Deliveries : Prepare(k, d)) \/ SendLink(k) \/ MailerDies(k)
  \/ \E d \in Deliveries : Verify(d) \/ Reset(d) \/ LinkExpires(d)

MailSpec == MailInit /\ [][MailNext]_mailVars

-----------------------------------------------------------------------------
(* Properties.                                                             *)

\* The types of the account, its deliveries and the workers.
MailTypeOK ==
  /\ account \in [active: BOOLEAN, password: 1..MaxPasswords, mobile: 1..2]
  /\ recovery \in Recovery /\ delivery \in [Deliveries -> Delivery]
  /\ tasks \in SUBSET Deliveries /\ mailer \in [Mailers -> Mailer]
  /\ inbox \in SUBSET (Deliveries \X Emails) /\ mailFaults \in 0..MailFaults

\* The verified address is one at which a verification link has arrived,
\* whatever addresses were entered in between.
VerifiedWasProved ==
  \A e \in recovery.current : \E d \in Deliveries :
    <<d, e>> \in inbox /\ delivery[d].purpose = "VERIFY" /\ delivery[d].consumed

\* At most one link of each purpose can be used, counting links still being sent.
OneUsableLink ==
  \A d, e \in Deliveries :
    Usable(d) /\ Usable(e) /\ delivery[d].purpose = delivery[e].purpose => d = e

\* A change of the password, by a link or elsewhere, ends every link that was
\* out, and so does a change of the verified address.
ChangeEndsLinks ==
  [][account'.password # account.password \/ recovery'.current # recovery.current
     => \A d \in Deliveries : delivery[d].status # "NONE" => ~Usable(d)']_mailVars

\* What the links that are out can do: prove the address they went to, and one of a
\* purpose at a time.
MailInvariant == VerifiedWasProved /\ OneUsableLink
=============================================================================
