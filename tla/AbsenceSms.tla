----------------------------- MODULE AbsenceSms -----------------------------
(***************************************************************************)
(* The absence message of one student for one day                          *)
(* (backend/school_sms/services.py, tasks.py, providers.py).               *)
(*                                                                         *)
(* A desk is a request of the staff: one transaction queues the notice,    *)
(* the task is handed to the broker after its commit.  A sender is a       *)
(* Celery worker: one transaction claims the notice, the provider is       *)
(* called outside any transaction and another transaction stores the       *)
(* result.  Tasks are acknowledged late: a dead worker's task is delivered *)
(* again.                                                                  *)
(***************************************************************************)
EXTENDS Integers, FiniteSets, Sequences

CONSTANTS
  Desks, Senders,
  Providers,   \* SmsProvider
  Mobiles,     \* valid numbers the guardian may have
  SmsQueued,   \* bound: how often the notice is queued
  SmsChanges,  \* bound: changes of the facts around it
  SmsFaults    \* bound: deaths, duplicates and broker errors

ASSUME SmsBoundsNat == {SmsQueued, SmsChanges, SmsFaults} \subseteq Nat

VARIABLES
  notice,     \* the AbsenceSmsNotice of (school, student, date)
  link,       \* the SchoolSmsIntegration: active and provider
  pupil,      \* the facts read from the student: absence, number, blocks, plan
  broker,     \* how many copies of the task are waiting
  desk,       \* [Desks -> what the request does next]
  sender,     \* [Senders -> what the task is doing]
  taken,      \* history: the messages the provider took, in order
  smsChanges, smsFaults

smsVars == <<notice, link, pupil, broker, desk, sender, taken, smsChanges, smsFaults>>

Outcomes == {"accepted", "refused", "ambiguous"}
Notice == [status: {"NONE", "QUEUED", "SENDING", "ACCEPTED", "FAILED", "UNKNOWN"},
           provider: Providers, recipient: Mobiles, attempts: Nat]
Pupil == [eligible: BOOLEAN, mobile: Mobiles, blocked: SUBSET Mobiles, entitled: BOOLEAN]
Sender == [pc: {"idle", "claim", "send", "finish"}, mobile: Mobiles, outcome: Outcomes]

SmsInit ==
  /\ \E p \in Providers, n \in Mobiles :
       /\ notice = [status |-> "NONE", provider |-> p, recipient |-> n, attempts |-> 0]
       /\ link = [active |-> TRUE, provider |-> p]
       /\ pupil = [eligible |-> TRUE, mobile |-> n, blocked |-> {}, entitled |-> TRUE]
       /\ sender = [t \in Senders |-> [pc |-> "idle", mobile |-> n, outcome |-> "ambiguous"]]
  /\ broker = 0 /\ desk = [d \in Desks |-> "idle"] /\ taken = <<>>
  /\ smsChanges = 0 /\ smsFaults = 0

SmsFault == smsFaults < SmsFaults /\ smsFaults' = smsFaults + 1
SmsChange == smsChanges < SmsChanges /\ smsChanges' = smsChanges + 1

-----------------------------------------------------------------------------
(* The facts the message depends on.                                       *)

\* save_integration.
SaveIntegration(active, p) ==
  /\ SmsChange
  /\ link' = [active |-> active, provider |-> p]
  /\ UNCHANGED <<notice, pupil, broker, desk, sender, taken, smsFaults>>

\* An excuse or a correction, another number of the guardian, a
\* RecipientContactBlock, the plan of the school.
FactsChange(facts) ==
  /\ SmsChange
  /\ pupil' = facts
  /\ UNCHANGED <<notice, link, broker, desk, sender, taken, smsFaults>>

-----------------------------------------------------------------------------
(* queue_absence_sms.                                                      *)

\* eligible_absences, recipient_issue and blocked_student_ids.
MayNotify ==
  pupil.entitled /\ link.active /\ pupil.eligible /\ pupil.mobile \notin pupil.blocked

\* get_or_create, and the lock on a row that is there: only FAILED is queued again.
Requeueable == notice.status \in {"NONE", "FAILED"}

QueueNotice(d) ==
  /\ desk[d] = "idle" /\ MayNotify /\ Requeueable /\ notice.attempts < SmsQueued
  /\ notice' = [status |-> "QUEUED", provider |-> link.provider, recipient |-> pupil.mobile,
                attempts |-> notice.attempts + 1]
  /\ desk' = [desk EXCEPT ![d] = "delay"]
  /\ UNCHANGED <<link, pupil, broker, sender, taken, smsChanges, smsFaults>>

\* send_absence_notice.delay.
Delay(d) ==
  /\ desk[d] = "delay"
  /\ broker' = broker + 1
  /\ desk' = [desk EXCEPT ![d] = "idle"]
  /\ UNCHANGED <<notice, link, pupil, sender, taken, smsChanges, smsFaults>>

\* The broker answers with an error; it may have kept the task.
DelayFails(d) ==
  /\ desk[d] = "delay" /\ SmsFault
  /\ broker' \in {broker, broker + 1}
  /\ desk' = [desk EXCEPT ![d] = "undo"]
  /\ UNCHANGED <<notice, link, pupil, sender, taken, smsChanges>>

\* UPDATE ... WHERE status = QUEUED.
Undoable == notice.status = "QUEUED"

QueueUnavailable(d) ==
  /\ desk[d] = "undo"
  /\ notice' = IF Undoable THEN [notice EXCEPT !.status = "FAILED"] ELSE notice
  /\ desk' = [desk EXCEPT ![d] = "idle"]
  /\ UNCHANGED <<link, pupil, broker, sender, taken, smsChanges, smsFaults>>

DeskDies(d) ==
  /\ desk[d] # "idle" /\ SmsFault
  /\ desk' = [desk EXCEPT ![d] = "idle"]
  /\ UNCHANGED <<notice, link, pupil, broker, sender, taken, smsChanges>>

-----------------------------------------------------------------------------
(* send_absence_notice.                                                    *)

Deliver(t) ==
  /\ sender[t].pc = "idle" /\ broker > 0
  /\ \/ broker' = broker - 1 /\ UNCHANGED smsFaults
     \/ SmsFault /\ UNCHANGED broker
  /\ sender' = [sender EXCEPT ![t].pc = "claim"]
  /\ UNCHANGED <<notice, link, pupil, desk, taken, smsChanges>>

\* Mutant: the number is not compared with the one that was confirmed.
Unchanged_AnyNumber == MayNotify /\ link.provider = notice.provider

\* What was confirmed when the notice was queued still holds.
Unchanged ==
  MayNotify /\ link.provider = notice.provider /\ pupil.mobile = notice.recipient

\* Mutant: a notice that another task is sending is taken over.
Claimable_Sending == notice.status \in {"QUEUED", "SENDING"}

Claimable == notice.status = "QUEUED"

\* The notice is claimed, or FAILED before anything is sent; the secret may not
\* be readable.
Claim(t) ==
  /\ sender[t].pc = "claim"
  /\ \/ /\ ~Claimable
        /\ sender' = [sender EXCEPT ![t].pc = "idle"]
        /\ UNCHANGED notice
     \/ /\ Claimable
        /\ notice' = [notice EXCEPT !.status = "FAILED"]
        /\ sender' = [sender EXCEPT ![t].pc = "idle"]
     \/ /\ Claimable /\ Unchanged
        /\ notice' = [notice EXCEPT !.status = "SENDING"]
        /\ sender' = [sender EXCEPT ![t].pc = "send", ![t].mobile = pupil.mobile]
  /\ UNCHANGED <<link, pupil, broker, desk, taken, smsChanges, smsFaults>>

\* send_sms: what may be answered when the provider took the message or did not.
\* 5xx, a broken connection and an answer that is not understood are ambiguous.
Classify(took) == IF took THEN {"accepted", "ambiguous"} ELSE {"refused", "ambiguous"}

SendSms(t) ==
  /\ sender[t].pc = "send"
  /\ \E took \in BOOLEAN : \E answer \in Classify(took) :
       /\ taken' = IF took THEN Append(taken, sender[t].mobile) ELSE taken
       /\ sender' = [sender EXCEPT ![t].pc = "finish", ![t].outcome = answer]
  /\ UNCHANGED <<notice, link, pupil, broker, desk, smsChanges, smsFaults>>

\* Mutant: the answer is stored as it came.
Result_Raw(outcome) == outcome

Result(outcome) == CASE outcome = "accepted" -> "ACCEPTED"
                     [] outcome = "refused" -> "FAILED"
                     [] outcome = "ambiguous" -> "UNKNOWN"

\* _finish.
Finish(t) ==
  /\ sender[t].pc = "finish"
  /\ notice' = IF notice.status = "SENDING"
               THEN [notice EXCEPT !.status = Result(sender[t].outcome)] ELSE notice
  /\ sender' = [sender EXCEPT ![t].pc = "idle"]
  /\ UNCHANGED <<link, pupil, broker, desk, taken, smsChanges, smsFaults>>

\* The worker dies, before or after the provider took the message; the broker
\* delivers the task again.
SenderDies(t) ==
  /\ sender[t].pc # "idle" /\ SmsFault
  /\ sender' = [sender EXCEPT ![t].pc = "idle"]
  /\ broker' = broker + 1
  /\ UNCHANGED <<notice, link, pupil, desk, taken, smsChanges>>

-----------------------------------------------------------------------------
SmsNext ==
  \/ \E a \in BOOLEAN, p \in Providers : SaveIntegration(a, p)
  \/ \E facts \in Pupil : FactsChange(facts)
  \/ \E d \in Desks :
       QueueNotice(d) \/ Delay(d) \/ DelayFails(d) \/ QueueUnavailable(d) \/ DeskDies(d)
  \/ \E t \in Senders : Deliver(t) \/ Claim(t) \/ SendSms(t) \/ Finish(t) \/ SenderDies(t)

SmsSpec == SmsInit /\ [][SmsNext]_smsVars

-----------------------------------------------------------------------------
(* Properties.                                                             *)

\* The types of the notice, of the tasks and of the requests.
SmsTypeOK ==
  /\ notice \in Notice /\ link \in [active: BOOLEAN, provider: Providers] /\ pupil \in Pupil
  /\ broker \in Nat /\ desk \in [Desks -> {"idle", "delay", "undo"}]
  /\ sender \in [Senders -> Sender] /\ taken \in Seq(Mobiles)
  /\ smsChanges \in 0..SmsChanges /\ smsFaults \in 0..SmsFaults

\* A guardian gets one message for a day at most, however often the notice is
\* queued, the task delivered again or late, or a worker lost: a notice that may
\* be queued again, or is queued, has not been taken by the provider.
OneMessage ==
  /\ Len(taken) <= 1
  /\ notice.status \in {"NONE", "QUEUED", "FAILED"} => taken = <<>>

\* The message went to the number that the staff confirmed, although the number
\* can change between queueing, claiming and sending.
ToConfirmedNumber == \A i \in 1..Len(taken) : taken[i] = notice.recipient

\* What a guardian gets: one message at most, at the confirmed number.
SmsInvariant == OneMessage /\ ToConfirmedNumber
=============================================================================
