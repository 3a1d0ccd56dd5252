--------------------------- MODULE DeliveryProofs ---------------------------
(***************************************************************************)
(* Proofs about AbsenceSms, RecoveryEmail and RosterSync, and about the    *)
(* composition MCDelivery that the model checker runs: the types, one      *)
(* message at most at the confirmed number, one usable link that proves    *)
(* its address, and no command that a device did not confirm.              *)
(***************************************************************************)
EXTENDS MCDelivery, TLAPS, SequenceTheorems, WellFoundedInduction

-----------------------------------------------------------------------------
(* The absence message.                                                    *)

\* Sends a message, or has sent it and not stored the answer.
Sending(t) == sender[t].pc \in {"send", "finish"}

\* One sender at a time is past its claim, the notice says SENDING while it is, and
\* nothing was taken before; "refused" is only answered when nothing was taken.
SmsInductive ==
  /\ SmsTypeOK
  /\ \A t \in Senders : Sending(t) => notice.status = "SENDING"
  /\ \A t, u \in Senders : Sending(t) /\ Sending(u) => t = u
  /\ \A t \in Senders : sender[t].pc = "send" => taken = <<>> /\ sender[t].mobile = notice.recipient
  /\ \A t \in Senders : sender[t].pc = "finish" /\ sender[t].outcome = "refused" => taken = <<>>
  /\ SmsInvariant

\* Nothing is queued, claimed or taken at first.
LEMMA SmsStart == SmsInit => SmsInductive
<1> SUFFICES ASSUME SmsInit PROVE SmsInductive
  OBVIOUS
<1> USE DEF SmsInit
<1>1. SmsTypeOK
  BY SmsBoundsNat DEF SmsTypeOK, Notice, Pupil, Sender, Outcomes
<1>2. SmsInvariant
  BY DEF SmsInvariant, OneMessage, ToConfirmedNumber
<1> QED BY <1>1, <1>2 DEF SmsInductive, Sending

\* Every step of a desk, a sender or the facts around them keeps the strengthening:
\* a claim needs QUEUED, so nobody else is sending and nothing has been taken.
LEMMA SmsStep == SmsInductive /\ [SmsNext]_smsVars => SmsInductive'
<1> SUFFICES ASSUME SmsInductive, [SmsNext]_smsVars PROVE SmsInductive'
  OBVIOUS
<1> USE DEF SmsInductive, SmsTypeOK, SmsInvariant, OneMessage, ToConfirmedNumber, Sending
<1>1. ASSUME NEW a \in BOOLEAN, NEW p \in Providers, SaveIntegration(a, p) PROVE SmsInductive'
  BY <1>1, SmsBoundsNat DEF SaveIntegration, SmsChange
<1>2. ASSUME NEW facts \in Pupil, FactsChange(facts) PROVE SmsInductive'
  BY <1>2, SmsBoundsNat DEF FactsChange, SmsChange
<1>3. ASSUME NEW d \in Desks, QueueNotice(d) PROVE SmsInductive'
  BY <1>3 DEF QueueNotice, Requeueable, Notice, Pupil
<1>4. ASSUME NEW d \in Desks, Delay(d) PROVE SmsInductive'
  BY <1>4 DEF Delay
<1>5. ASSUME NEW d \in Desks, DelayFails(d) PROVE SmsInductive'
  BY <1>5, SmsBoundsNat DEF DelayFails, SmsFault
<1>6. ASSUME NEW d \in Desks, QueueUnavailable(d) PROVE SmsInductive'
  BY <1>6 DEF QueueUnavailable, Undoable, Notice
<1>7. ASSUME NEW d \in Desks, DeskDies(d) PROVE SmsInductive'
  BY <1>7, SmsBoundsNat DEF DeskDies, SmsFault
<1>8. ASSUME NEW t \in Senders, Deliver(t) PROVE SmsInductive'
  BY <1>8, SmsBoundsNat DEF Deliver, SmsFault, Sender
<1>9. ASSUME NEW t \in Senders, Claim(t) PROVE SmsInductive'
  <2>1. sender[t].pc = "claim" /\ sender[t] \in Sender
    BY <1>9 DEF Claim
  <2>2. CASE notice' = notice /\ sender' = [sender EXCEPT ![t].pc = "idle"]
    <3>1. \A u \in Senders : sender'[u] = IF u = t THEN [sender[t] EXCEPT !.pc = "idle"] ELSE sender[u]
      BY <2>2
    <3> QED BY <1>9, <2>1, <2>2, <3>1 DEF Claim, Sender
  <2>3. CASE /\ Claimable /\ notice' = [notice EXCEPT !.status = "FAILED"]
             /\ sender' = [sender EXCEPT ![t].pc = "idle"]
    <3>1. \A u \in Senders : sender'[u] = IF u = t THEN [sender[t] EXCEPT !.pc = "idle"] ELSE sender[u]
      BY <2>3
    <3>2. \A u \in Senders : ~Sending(u)
      BY <2>3 DEF Claimable
    <3> QED BY <1>9, <2>1, <2>3, <3>1, <3>2 DEF Claim, Claimable, Sender, Notice
  <2>4. CASE /\ Claimable /\ Unchanged /\ notice' = [notice EXCEPT !.status = "SENDING"]
             /\ sender' = [sender EXCEPT ![t].pc = "send", ![t].mobile = pupil.mobile]
    <3>1. \A u \in Senders :
            sender'[u] = IF u = t THEN [sender[t] EXCEPT !.pc = "send", !.mobile = pupil.mobile]
                         ELSE sender[u]
      BY <2>4
    <3>2. \A u \in Senders : ~Sending(u)
      BY <2>4 DEF Claimable
    <3>3. pupil.mobile \in Mobiles /\ pupil.mobile = notice.recipient /\ taken = <<>>
      BY <2>4 DEF Claimable, Unchanged, Pupil
    <3> QED BY <1>9, <2>1, <2>4, <3>1, <3>2, <3>3 DEF Claim, Sender, Notice
  <2> QED BY <1>9, <2>2, <2>3, <2>4 DEF Claim
<1>10. ASSUME NEW t \in Senders, SendSms(t) PROVE SmsInductive'
  <2>1. PICK took \in BOOLEAN : \E answer \in Classify(took) :
          /\ taken' = IF took THEN Append(taken, sender[t].mobile) ELSE taken
          /\ sender' = [sender EXCEPT ![t].pc = "finish", ![t].outcome = answer]
    BY <1>10 DEF SendSms
  <2>2. PICK answer \in Classify(took) :
          /\ taken' = IF took THEN Append(taken, sender[t].mobile) ELSE taken
          /\ sender' = [sender EXCEPT ![t].pc = "finish", ![t].outcome = answer]
    BY <2>1
  <2>3. /\ sender[t].pc = "send" /\ sender[t] \in Sender /\ taken = <<>>
        /\ sender[t].mobile = notice.recipient /\ sender[t].mobile \in Mobiles
        /\ notice.status = "SENDING"
    BY <1>10 DEF SendSms, Sender
  <2>4. \A u \in Senders :
          sender'[u] = IF u = t THEN [sender[t] EXCEPT !.pc = "finish", !.outcome = answer] ELSE sender[u]
    BY <2>2
  <2>5. answer \in Outcomes /\ (answer = "refused" => ~took)
    BY DEF Classify, Outcomes
  <2>6. taken' = <<sender[t].mobile>> \/ taken' = <<>>
    BY <2>2, <2>3
  <2>7. taken' \in Seq(Mobiles) /\ (~took => taken' = <<>>)
    BY <2>2, <2>3, <2>6
  <2>8. sender' \in [Senders -> Sender]
    BY <2>2, <2>3, <2>5 DEF Sender
  <2>9. UNCHANGED <<notice, link, pupil, broker, desk, smsChanges, smsFaults>>
    BY <1>10 DEF SendSms
  <2>10. \A u \in Senders : sender'[u].pc = "finish" /\ sender'[u].outcome = "refused" => taken' = <<>>
    <3> SUFFICES ASSUME NEW u \in Senders, sender'[u].pc = "finish", sender'[u].outcome = "refused"
                 PROVE  taken' = <<>>
      OBVIOUS
    <3>1. u = t
      BY <2>3, <2>4
    <3> QED BY <2>3, <2>4, <2>5, <2>7, <3>1 DEF Sender
  <2>11. \A u \in Senders : Sending(u)' => u = t
    BY <2>3, <2>4
  <2>12. \A u \in Senders : sender'[u].pc # "send"
    BY <2>3, <2>4, <2>11 DEF Sender
  <2>13. Len(taken') <= 1 /\ \A i \in 1..Len(taken') : taken'[i] = notice'.recipient
    <3>1. CASE taken' = <<>>
      BY <3>1
    <3>2. CASE taken' = <<sender[t].mobile>>
      BY <2>3, <2>9, <3>2
    <3> QED BY <2>6, <3>1, <3>2
  <2> QED BY <2>3, <2>7, <2>8, <2>9, <2>10, <2>11, <2>12, <2>13
<1>11. ASSUME NEW t \in Senders, Finish(t) PROVE SmsInductive'
  BY <1>11 DEF Finish, Result, Sender, Outcomes, Notice
<1>12. ASSUME NEW t \in Senders, SenderDies(t) PROVE SmsInductive'
  BY <1>12, SmsBoundsNat DEF SenderDies, SmsFault, Sender
<1>13. CASE UNCHANGED smsVars
  BY <1>13 DEF smsVars
<1> QED BY <1>1, <1>2, <1>3, <1>4, <1>5, <1>6, <1>7, <1>8, <1>9, <1>10, <1>11, <1>12, <1>13 DEF SmsNext

\* A guardian gets one message for a day at most, at the number the staff confirmed
\* (queue_absence_sms, send_absence_notice and _finish of school_sms/services.py).
THEOREM OneMessageAtMost == SmsSpec => []SmsInvariant
<1>1. SmsInductive => SmsInvariant
  BY DEF SmsInductive
<1> QED BY SmsStart, SmsStep, <1>1, PTL DEF SmsSpec

-----------------------------------------------------------------------------
(* The recovery email.                                                     *)

\* Deliveries of which one of a purpose at most is open, none younger than the password.
RowsGood(rows) ==
  /\ rows \in [Deliveries -> Delivery]
  /\ \A d \in Deliveries : rows[d].status = "NONE" => ~rows[d].consumed
  /\ \A d, e \in Deliveries :
       Open(rows[d]) /\ Open(rows[e]) /\ rows[d].purpose = rows[e].purpose => d = e

NoneYounger == \A d \in Deliveries : delivery[d].status # "NONE" => delivery[d].password <= account.password

\* What becomes of the row of a delivery that was made.
Kept(x, y) ==
  x.status # "NONE" =>
    /\ y.status # "NONE" /\ y.purpose = x.purpose /\ y.email = x.email
    /\ y.password = x.password /\ (x.consumed => y.consumed)

\* A worker and the inbox have the address the delivery was made for.
Addressed ==
  /\ \A k \in Mailers : \A d \in mailer[k].delivery :
       delivery[d].status # "NONE" /\ mailer[k].address = delivery[d].email
  /\ \A d \in Deliveries, e \in Emails :
       <<d, e>> \in inbox => delivery[d].status # "NONE" /\ delivery[d].email = {e}

MailInductive == MailTypeOK /\ RowsGood(delivery) /\ NoneYounger /\ Addressed /\ VerifiedWasProved

\* Revoking closes the deliveries of some purposes and changes nothing else.
LEMMA RevokeCloses ==
  ASSUME NEW rows, rows \in [Deliveries -> Delivery], NEW purposes
  PROVE  /\ Revoke(rows, purposes) \in [Deliveries -> Delivery]
         /\ \A d \in Deliveries : Kept(rows[d], Revoke(rows, purposes)[d])
         /\ \A d \in Deliveries :
              /\ Revoke(rows, purposes)[d].status = rows[d].status
              /\ Revoke(rows, purposes)[d].consumed = rows[d].consumed
              /\ Revoke(rows, purposes)[d].purpose = rows[d].purpose
              /\ Revoke(rows, purposes)[d].password = rows[d].password
              /\ Open(Revoke(rows, purposes)[d]) => Open(rows[d]) /\ rows[d].purpose \notin purposes
<1>1. ASSUME NEW d \in Deliveries
      PROVE  Revoke(rows, purposes)[d] = IF Open(rows[d]) /\ rows[d].purpose \in purposes
                                         THEN [rows[d] EXCEPT !.revoked = TRUE] ELSE rows[d]
  BY DEF Revoke
<1>2. ASSUME NEW d \in Deliveries
      PROVE  /\ Revoke(rows, purposes)[d] \in Delivery
             /\ Kept(rows[d], Revoke(rows, purposes)[d])
             /\ Revoke(rows, purposes)[d].status = rows[d].status
             /\ Revoke(rows, purposes)[d].consumed = rows[d].consumed
             /\ Revoke(rows, purposes)[d].purpose = rows[d].purpose
             /\ Revoke(rows, purposes)[d].password = rows[d].password
             /\ Open(Revoke(rows, purposes)[d]) => Open(rows[d]) /\ rows[d].purpose \notin purposes
  <2>1. rows[d] \in Delivery
    OBVIOUS
  <2>2. CASE Open(rows[d]) /\ rows[d].purpose \in purposes
    BY <1>1, <2>1, <2>2 DEF Delivery, Kept, Open
  <2>3. CASE ~(Open(rows[d]) /\ rows[d].purpose \in purposes)
    BY <1>1, <2>1, <2>3 DEF Kept
  <2> QED BY <2>2, <2>3
<1>3. Revoke(rows, purposes) \in [Deliveries -> Delivery]
  BY <1>1, <1>2 DEF Revoke
<1> QED BY <1>2, <1>3

\* Revoking leaves the rows as good as they were.
LEMMA RevokeGood ==
  ASSUME NEW rows, RowsGood(rows), NEW purposes
  PROVE  RowsGood(Revoke(rows, purposes))
<1>1. rows \in [Deliveries -> Delivery]
  BY DEF RowsGood
<1> QED BY <1>1, RevokeCloses DEF RowsGood

\* A new delivery has a row of its own and is the only open one of its purpose.
LEMMA QueueKeeps ==
  ASSUME MailTypeOK, NEW item \in Recovery, NEW rows, RowsGood(rows), NEW purpose \in Purposes,
         QueueDelivery(item, rows, purpose)
  PROVE  /\ RowsGood(delivery') /\ tasks' \in SUBSET Deliveries /\ mailFaults' \in 0..MailFaults
         /\ \A d \in Deliveries : Kept(rows[d], delivery'[d])
         /\ \A d \in Deliveries : rows[d].status = "NONE" =>
              delivery'[d].status = "NONE" \/ delivery'[d].password = account.password
<1>0. rows \in [Deliveries -> Delivery]
  BY DEF RowsGood
<1>1. CASE delivery' = rows /\ UNCHANGED <<tasks, mailFaults>>
  BY <1>0, <1>1 DEF Kept, MailTypeOK
<1>2. CASE \E d \in Deliveries :
             /\ rows[d].status = "NONE"
             /\ \/ /\ delivery' = [Revoke(rows, {purpose}) EXCEPT ![d] = NewDelivery(item, purpose)]
                   /\ tasks' = tasks \cup {d} /\ UNCHANGED mailFaults
                \/ /\ MailFault
                   /\ delivery' = [Revoke(rows, {purpose}) EXCEPT ![d] =
                        [NewDelivery(item, purpose) EXCEPT !.status = "FAILED", !.revoked = TRUE]]
                   /\ UNCHANGED tasks
  <2>1. PICK d \in Deliveries :
             /\ rows[d].status = "NONE"
             /\ \/ /\ delivery' = [Revoke(rows, {purpose}) EXCEPT ![d] = NewDelivery(item, purpose)]
                   /\ tasks' = tasks \cup {d} /\ UNCHANGED mailFaults
                \/ /\ MailFault
                   /\ delivery' = [Revoke(rows, {purpose}) EXCEPT ![d] =
                        [NewDelivery(item, purpose) EXCEPT !.status = "FAILED", !.revoked = TRUE]]
                   /\ UNCHANGED tasks
    BY <1>2
  <2> DEFINE old == Revoke(rows, {purpose})
  <2>2. /\ old \in [Deliveries -> Delivery]
        /\ \A e \in Deliveries : Kept(rows[e], old[e])
        /\ \A e \in Deliveries :
             /\ old[e].status = rows[e].status /\ old[e].consumed = rows[e].consumed
             /\ old[e].purpose = rows[e].purpose
             /\ Open(old[e]) => Open(rows[e]) /\ rows[e].purpose # purpose
    BY <1>0, RevokeCloses
  <2> HIDE DEF old
  <2>3. /\ NewDelivery(item, purpose) \in Delivery
        /\ NewDelivery(item, purpose).status = "PENDING" /\ NewDelivery(item, purpose).purpose = purpose
        /\ ~NewDelivery(item, purpose).consumed
        /\ NewDelivery(item, purpose).password = account.password
    <3> DEFINE email == IF purpose = "VERIFY" THEN item.pending ELSE item.current
               revision == IF purpose = "VERIFY" THEN item.pendingRevision ELSE item.revision
               password == account.password
               mobile == account.mobile
               x == [NoDelivery EXCEPT !.status = "PENDING", !.purpose = purpose, !.email = email,
                      !.revision = revision, !.password = password, !.mobile = mobile,
                      !.recent = TRUE]
    <3>1. email \in Perhaps(Emails) /\ revision \in Nat
      BY DEF Recovery
    <3>2. password \in Nat /\ mobile \in Nat
      BY DEF MailTypeOK
    <3>3. NewDelivery(item, purpose) = x
      BY DEF NewDelivery
    <3>4. password = account.password
      OBVIOUS
    <3> HIDE DEF email, revision, password, mobile
    <3>5. x \in Delivery /\ x.status = "PENDING" /\ x.purpose = purpose /\ ~x.consumed
          /\ x.password = password
      BY <3>1, <3>2 DEF NoDelivery, Delivery
    <3> HIDE DEF x
    <3> QED BY <3>3, <3>4, <3>5
  <2>4. PICK new \in Delivery :
          /\ delivery' = [old EXCEPT ![d] = new]
          /\ new.status # "NONE" /\ new.purpose = purpose /\ ~new.consumed
          /\ new.password = account.password
    <3>1. CASE delivery' = [old EXCEPT ![d] = NewDelivery(item, purpose)]
      BY <2>3, <3>1
    <3>2. CASE delivery' = [old EXCEPT ![d] =
                 [NewDelivery(item, purpose) EXCEPT !.status = "FAILED", !.revoked = TRUE]]
      <4> DEFINE fresh == NewDelivery(item, purpose)
                 made == [fresh EXCEPT !.status = "FAILED", !.revoked = TRUE]
      <4> HIDE DEF fresh
      <4>1. made \in Delivery /\ made.status = "FAILED" /\ made.purpose = purpose /\ ~made.consumed
            /\ made.password = account.password
        BY <2>3 DEF fresh, Delivery
      <4>2. delivery' = [old EXCEPT ![d] = made]
        BY <3>2 DEF fresh
      <4> QED BY <4>1, <4>2
    <3> QED BY <2>1, <3>1, <3>2 DEF old
  <2>5. \A e \in Deliveries : delivery'[e] = IF e = d THEN new ELSE old[e]
    BY <2>2, <2>4
  <2>6. delivery' \in [Deliveries -> Delivery]
    BY <2>2, <2>4
  <2>7. \A e \in Deliveries : delivery'[e].status = "NONE" => ~delivery'[e].consumed
    BY <2>2, <2>4, <2>5 DEF RowsGood
  <2>8. ASSUME NEW e \in Deliveries, NEW f \in Deliveries, Open(delivery'[e]), Open(delivery'[f]),
               delivery'[e].purpose = delivery'[f].purpose
        PROVE  e = f
    BY <2>2, <2>4, <2>5, <2>8 DEF RowsGood
  <2>9. RowsGood(delivery')
    BY <2>6, <2>7, <2>8 DEF RowsGood
  <2>10. \A e \in Deliveries : Kept(rows[e], delivery'[e])
    BY <2>1, <2>2, <2>5 DEF Kept
  <2>11. tasks' \in SUBSET Deliveries /\ mailFaults' \in 0..MailFaults
    BY <2>1, MailBoundsNat DEF MailTypeOK, MailFault
  <2>12. \A e \in Deliveries : rows[e].status = "NONE" =>
           delivery'[e].status = "NONE" \/ delivery'[e].password = account.password
    BY <2>2, <2>4, <2>5
  <2> QED BY <2>9, <2>10, <2>11, <2>12
<1> QED BY <1>1, <1>2 DEF QueueDelivery

\* What every step does to the rows of the deliveries.
RowsStep ==
  /\ MailTypeOK' /\ RowsGood(delivery')
  /\ \A d \in Deliveries : Kept(delivery[d], delivery'[d])
  /\ \A d \in Deliveries : delivery[d].status = "NONE" =>
       delivery'[d].status = "NONE" \/ delivery'[d].password = account.password
  /\ account'.password >= account.password

\* One row is changed, and is neither made nor opened by it.
LEMMA OneRow ==
  ASSUME MailInductive, NEW d \in Deliveries, NEW row \in Delivery,
         delivery' = [delivery EXCEPT ![d] = row],
         delivery[d].status # "NONE" <=> row.status # "NONE",
         row.purpose = delivery[d].purpose, row.email = delivery[d].email,
         row.password = delivery[d].password, row.consumed = delivery[d].consumed,
         Open(row) => Open(delivery[d]),
         UNCHANGED <<account, recovery>>, tasks' \in SUBSET Deliveries,
         mailer' \in [Mailers -> Mailer], inbox' \in SUBSET (Deliveries \X Emails),
         mailFaults' \in 0..MailFaults
  PROVE  RowsStep
<1>1. delivery \in [Deliveries -> Delivery] /\ MailTypeOK /\ RowsGood(delivery)
  BY DEF MailInductive, MailTypeOK
<1>2. \A e \in Deliveries : delivery'[e] = IF e = d THEN row ELSE delivery[e]
  BY <1>1
<1>3. delivery' \in [Deliveries -> Delivery]
  BY <1>1
<1>4. \A e \in Deliveries : Kept(delivery[e], delivery'[e])
  BY <1>2 DEF Kept
<1>5. RowsGood(delivery')
  BY <1>1, <1>2, <1>3 DEF RowsGood
<1>6. \A e \in Deliveries : delivery[e].status = "NONE" => delivery'[e].status = "NONE"
  BY <1>2
<1>7. MailTypeOK'
  BY <1>1, <1>3 DEF MailTypeOK
<1>8. account'.password >= account.password
  BY <1>1 DEF MailTypeOK
<1> QED BY <1>4, <1>5, <1>6, <1>7, <1>8 DEF RowsStep

\* Enroll, the rows: a new address closes every link before it queues its own.
LEMMA EnrollRows ==
  ASSUME MailInductive, NEW e \in Emails, Enroll(e)
  PROVE  RowsStep
<1> DEFINE fresh == recovery.pending # {e}
           item == IF fresh THEN [recovery EXCEPT !.pending = {e}, !.pendingRevision = @ + 1]
                   ELSE recovery
           rows == IF fresh THEN Revoke(delivery, Purposes) ELSE delivery
<1>1. /\ recovery' = item /\ QueueDelivery(item, rows, "VERIFY")
      /\ UNCHANGED <<account, mailer, inbox>>
  BY DEF Enroll
<1>2. MailTypeOK /\ recovery \in Recovery /\ delivery \in [Deliveries -> Delivery] /\ RowsGood(delivery)
  BY DEF MailInductive, MailTypeOK
<1>3. item \in Recovery
  <2>1. {e} \in Perhaps(Emails)
    BY DEF Perhaps
  <2>2. recovery.pendingRevision + 1 \in Nat
    BY <1>2 DEF Recovery
  <2>3. [recovery EXCEPT !.pending = {e}, !.pendingRevision = @ + 1] \in Recovery
    BY <1>2, <2>1, <2>2 DEF Recovery
  <2> QED BY <1>2, <2>3
<1>4. RowsGood(rows) /\ \A d \in Deliveries : Kept(delivery[d], rows[d]) /\ rows[d].status = delivery[d].status
  <2>1. CASE fresh
    BY <1>2, <2>1, RevokeGood, RevokeCloses
  <2>2. CASE ~fresh
    BY <1>2, <2>2 DEF Kept
  <2> QED BY <2>1, <2>2
<1> HIDE DEF item, rows
<1>5. /\ RowsGood(delivery') /\ tasks' \in SUBSET Deliveries /\ mailFaults' \in 0..MailFaults
      /\ \A d \in Deliveries : Kept(rows[d], delivery'[d])
      /\ \A d \in Deliveries : rows[d].status = "NONE" =>
           delivery'[d].status = "NONE" \/ delivery'[d].password = account.password
  BY <1>1, <1>2, <1>3, <1>4, QueueKeeps DEF Purposes
<1>6. MailTypeOK'
  BY <1>1, <1>2, <1>3, <1>5 DEF MailTypeOK, RowsGood
<1>7. \A d \in Deliveries : Kept(delivery[d], delivery'[d])
  BY <1>4, <1>5 DEF Kept
<1>8. account'.password >= account.password
  BY <1>1, <1>2 DEF MailTypeOK
<1> QED BY <1>4, <1>5, <1>6, <1>7, <1>8 DEF RowsStep

\* Resend and RequestReset, the rows: the queued link replaces the open one of its purpose.
LEMMA ResendRows ==
  ASSUME MailInductive, NEW purpose \in Purposes, QueueDelivery(recovery, delivery, purpose),
         UNCHANGED <<account, recovery, mailer, inbox>>
  PROVE  RowsStep
<1>1. MailTypeOK /\ recovery \in Recovery /\ RowsGood(delivery)
  BY DEF MailInductive, MailTypeOK
<1>2. /\ RowsGood(delivery') /\ tasks' \in SUBSET Deliveries /\ mailFaults' \in 0..MailFaults
      /\ \A d \in Deliveries : Kept(delivery[d], delivery'[d])
      /\ \A d \in Deliveries : delivery[d].status = "NONE" =>
           delivery'[d].status = "NONE" \/ delivery'[d].password = account.password
  BY <1>1, QueueKeeps
<1>3. MailTypeOK'
  BY <1>1, <1>2 DEF MailTypeOK, RowsGood
<1>4. account'.password >= account.password
  BY <1>1 DEF MailTypeOK
<1> QED BY <1>2, <1>3, <1>4 DEF RowsStep

\* A cancelled delivery is the same one, closed.
LEMMA CancelledRow ==
  ASSUME NEW x \in Delivery
  PROVE  /\ Cancelled(x) \in Delivery /\ Cancelled(x).status # "NONE"
         /\ Cancelled(x).purpose = x.purpose /\ Cancelled(x).email = x.email
         /\ Cancelled(x).password = x.password /\ Cancelled(x).consumed = x.consumed
         /\ ~Open(Cancelled(x))
BY DEF Delivery, Open, Cancelled

\* Prepare, the rows: only the status of one delivery changes, or it is cancelled.
LEMMA PrepareRows ==
  ASSUME MailInductive, NEW k \in Mailers, NEW d \in Deliveries, Prepare(k, d)
  PROVE  RowsStep
<1>1. /\ MailTypeOK /\ RowsGood(delivery) /\ delivery \in [Deliveries -> Delivery]
      /\ delivery[d] \in Delivery /\ recovery \in Recovery /\ account'.password >= account.password
      /\ inbox' \in SUBSET (Deliveries \X Emails) /\ mailFaults' \in 0..MailFaults
  BY DEF MailInductive, MailTypeOK, Prepare
<1>2. UNCHANGED <<account, recovery, inbox, mailFaults>> /\ tasks' \in SUBSET Deliveries
  BY <1>1 DEF Prepare, MailTypeOK
<1>3. \A x \in Deliveries : Kept(delivery[x], delivery[x])
  BY DEF Kept
<1>4. mailer' \in [Mailers -> Mailer]
  <2>1. Address(delivery[d].purpose) \in Perhaps(Emails) /\ {d} \in Perhaps(Deliveries)
    BY <1>1 DEF Address, Recovery, Perhaps
  <2>2. [delivery |-> {d}, address |-> Address(delivery[d].purpose)] \in Mailer
    BY <2>1 DEF Mailer
  <2> QED BY <1>1, <2>2 DEF Prepare, MailTypeOK
<1>5. CASE delivery' = delivery
  <2>1. MailTypeOK'
    BY <1>1, <1>2, <1>4, <1>5 DEF MailTypeOK
  <2> QED BY <1>1, <1>3, <1>5, <2>1 DEF RowsStep
<1>6. ASSUME NEW s \in {"SENDING", "UNKNOWN"}, delivery' = [delivery EXCEPT ![d].status = s],
             delivery[d].status # "NONE"
      PROVE  RowsStep
  <2> DEFINE row == [delivery[d] EXCEPT !.status = s]
  <2>1. row \in Delivery
    BY <1>1 DEF Delivery
  <2>2. /\ row.status # "NONE" /\ row.purpose = delivery[d].purpose /\ row.email = delivery[d].email
        /\ row.password = delivery[d].password /\ row.consumed = delivery[d].consumed
        /\ Open(row) => Open(delivery[d])
    BY <1>1, <1>6 DEF Delivery, Open
  <2>3. delivery' = [delivery EXCEPT ![d] = row]
    BY <1>6
  <2> HIDE DEF row
  <2> QED BY <1>1, <1>2, <1>4, <1>6, <2>1, <2>2, <2>3, OneRow
<1>7. ASSUME delivery' = [delivery EXCEPT ![d] = Cancelled(@)], delivery[d].status # "NONE"
      PROVE  RowsStep
  BY <1>1, <1>2, <1>4, <1>7, CancelledRow, OneRow
<1> QED BY <1>5, <1>6, <1>7 DEF Prepare

\* SendLink, the rows: the answer of the provider, or the delivery is cancelled.
LEMMA SendLinkRows ==
  ASSUME MailInductive, NEW k \in Mailers, SendLink(k)
  PROVE  RowsStep
<1>1. MailTypeOK /\ delivery \in [Deliveries -> Delivery] /\ mailer[k] \in Mailer
  BY DEF MailInductive, MailTypeOK
<1>2. PICK d \in mailer[k].delivery :
        /\ IF Permitted(d)
           THEN \E answer \in Outcome :
                  /\ delivery' = [delivery EXCEPT ![d].status = answer,
                                                  ![d].revoked = @ \/ answer = "FAILED"]
                  /\ inbox' \in IF answer = "FAILED" THEN {inbox}
                                ELSE {inbox, inbox \cup ({d} \X mailer[k].address)}
           ELSE delivery' = [delivery EXCEPT ![d] = Cancelled(@)] /\ UNCHANGED inbox
        /\ mailer' = [mailer EXCEPT ![k] = Unemployed]
        /\ UNCHANGED <<account, recovery, tasks, mailFaults>>
  BY DEF SendLink
<1>3. /\ d \in Deliveries /\ mailer[k].address \subseteq Emails /\ delivery[d] \in Delivery
      /\ delivery[d].status # "NONE"
  BY <1>1 DEF MailInductive, Addressed, Mailer, Perhaps
<1>4. /\ inbox' \in SUBSET (Deliveries \X Emails) /\ tasks' \in SUBSET Deliveries
      /\ mailer' \in [Mailers -> Mailer] /\ mailFaults' \in 0..MailFaults
  <2>1. {d} \X mailer[k].address \subseteq Deliveries \X Emails
    BY <1>3
  <2>2. Unemployed \in Mailer
    BY DEF Unemployed, Mailer, Perhaps
  <2> QED BY <1>1, <1>2, <2>1, <2>2 DEF MailTypeOK
<1>5. CASE Permitted(d)
  <2>1. PICK answer \in Outcome : delivery' = [delivery EXCEPT ![d].status = answer,
                                                  ![d].revoked = @ \/ answer = "FAILED"]
    BY <1>2, <1>5
  <2> DEFINE row == [delivery[d] EXCEPT !.status = answer, !.revoked = @ \/ answer = "FAILED"]
  <2>2. (delivery[d].revoked \/ answer = "FAILED") \in BOOLEAN
    OBVIOUS
  <2>3. row \in Delivery
    BY <1>3, <2>2 DEF Delivery, Outcome
  <2>4. /\ row.status # "NONE" /\ row.purpose = delivery[d].purpose /\ row.email = delivery[d].email
        /\ row.password = delivery[d].password /\ row.consumed = delivery[d].consumed
        /\ Open(row) => Open(delivery[d])
    BY <1>3 DEF Delivery, Open, Outcome
  <2>5. delivery' = [delivery EXCEPT ![d] = row]
    BY <2>1
  <2> HIDE DEF row
  <2> QED BY <1>2, <1>3, <1>4, <2>3, <2>4, <2>5, OneRow
<1>6. CASE ~Permitted(d)
  BY <1>2, <1>3, <1>4, <1>6, CancelledRow, OneRow
<1> QED BY <1>5, <1>6

\* MailerDies, the rows: nothing of the rolled back transaction is left.
LEMMA MailerDiesRows ==
  ASSUME MailInductive, NEW k \in Mailers, MailerDies(k)
  PROVE  RowsStep
<1>1. MailTypeOK /\ RowsGood(delivery) /\ mailer[k] \in Mailer
  BY DEF MailInductive, MailTypeOK
<1>2. PICK d \in mailer[k].delivery :
        /\ inbox' \in IF Permitted(d) THEN {inbox, inbox \cup ({d} \X mailer[k].address)} ELSE {inbox}
        /\ tasks' = tasks \cup {d}
  BY DEF MailerDies
<1>3. d \in Deliveries /\ mailer[k].address \subseteq Emails
  BY <1>1 DEF Mailer, Perhaps
<1>4. inbox' \in SUBSET (Deliveries \X Emails) /\ tasks' \in SUBSET Deliveries
  <2>1. {d} \X mailer[k].address \subseteq Deliveries \X Emails
    BY <1>3
  <2> QED BY <1>1, <1>2, <1>3, <2>1 DEF MailTypeOK
<1>5. mailer' \in [Mailers -> Mailer] /\ mailFaults' \in 0..MailFaults
  <2>1. Unemployed \in Mailer
    BY DEF Unemployed, Mailer, Perhaps
  <2> QED BY <1>1, <2>1, MailBoundsNat DEF MailTypeOK, MailerDies, MailFault
<1>6. UNCHANGED <<account, recovery, delivery>>
  BY DEF MailerDies
<1>7. \A x \in Deliveries : Kept(delivery[x], delivery[x])
  BY DEF Kept
<1>8. account'.password >= account.password
  BY <1>1, <1>6 DEF MailTypeOK
<1>9. MailTypeOK'
  BY <1>1, <1>4, <1>5, <1>6 DEF MailTypeOK
<1> QED BY <1>1, <1>6, <1>7, <1>8, <1>9 DEF RowsStep

\* Using a link closes all that are open.
LEMMA UseRows ==
  ASSUME MailInductive, NEW d \in Deliveries, delivery[d].status # "NONE",
         delivery' = Revoke([delivery EXCEPT ![d].consumed = TRUE], Purposes),
         account' \in [active: BOOLEAN, password: 1..MaxPasswords, mobile: 1..2],
         account'.password >= account.password, recovery' \in Recovery,
         UNCHANGED <<tasks, mailer, inbox, mailFaults>>
  PROVE  RowsStep /\ (\A e \in Deliveries : ~Open(delivery'[e])) /\ delivery'[d].consumed
<1> DEFINE row == [delivery[d] EXCEPT !.consumed = TRUE]
           rows == [delivery EXCEPT ![d] = row]
<1>1. MailTypeOK /\ RowsGood(delivery) /\ delivery \in [Deliveries -> Delivery] /\ delivery[d] \in Delivery
  BY DEF MailInductive, MailTypeOK
<1>2. /\ row \in Delivery /\ row.consumed /\ row.status = delivery[d].status /\ Kept(delivery[d], row)
      /\ ~Open(row)
  BY <1>1 DEF Delivery, Kept, Open
<1>3. delivery' = Revoke(rows, Purposes)
  OBVIOUS
<1> HIDE DEF row
<1>4. \A e \in Deliveries : rows[e] = IF e = d THEN row ELSE delivery[e]
  BY <1>1
<1>5. rows \in [Deliveries -> Delivery]
  BY <1>1, <1>2
<1>6. RowsGood(rows)
  BY <1>1, <1>2, <1>4, <1>5 DEF RowsGood
<1>7. \A e \in Deliveries : Kept(delivery[e], rows[e]) /\ rows[e].status = delivery[e].status
  BY <1>2, <1>4 DEF Kept
<1> HIDE DEF rows
<1>8. /\ RowsGood(delivery') /\ \A e \in Deliveries : Kept(rows[e], delivery'[e])
      /\ \A e \in Deliveries : delivery'[e].status = rows[e].status
      /\ \A e \in Deliveries : ~Open(delivery'[e])
      /\ delivery'[d].consumed = rows[d].consumed
  <2>1. \A e \in Deliveries : rows[e].purpose \in Purposes
    BY <1>5 DEF Delivery
  <2>2. RowsGood(delivery')
    BY <1>3, <1>6, RevokeGood
  <2>3. ASSUME NEW e \in Deliveries
        PROVE  /\ Kept(rows[e], delivery'[e]) /\ delivery'[e].status = rows[e].status
               /\ ~Open(delivery'[e]) /\ delivery'[e].consumed = rows[e].consumed
    BY <1>3, <1>5, <2>1, RevokeCloses
  <2> QED BY <2>2, <2>3
<1>9. MailTypeOK'
  BY <1>1, <1>8 DEF MailTypeOK, RowsGood
<1>10. ASSUME NEW e \in Deliveries PROVE Kept(delivery[e], delivery'[e])
  <2>1. Kept(delivery[e], rows[e]) /\ Kept(rows[e], delivery'[e])
    BY <1>7, <1>8
  <2> QED BY <2>1 DEF Kept
<1> QED BY <1>2, <1>4, <1>7, <1>8, <1>9, <1>10 DEF RowsStep

\* Verify, the rows: the link is consumed and all are closed.
LEMMA VerifyRows ==
  ASSUME MailInductive, NEW d \in Deliveries, Verify(d)
  PROVE  RowsStep /\ (\A e \in Deliveries : ~Open(delivery'[e])) /\ delivery'[d].consumed
<1>1. recovery \in Recovery /\ account \in [active: BOOLEAN, password: 1..MaxPasswords, mobile: 1..2]
  BY DEF MailInductive, MailTypeOK
<1>2. recovery' \in Recovery
  <2>1. {} \in Perhaps(Emails)
    BY DEF Perhaps
  <2>2. recovery.revision + 1 \in Nat /\ recovery.pending \in Perhaps(Emails)
    BY <1>1 DEF Recovery
  <2>3. recovery' = [recovery EXCEPT !.current = recovery.pending, !.pending = {}, !.revision = @ + 1]
    BY DEF Verify
  <2> QED BY <1>1, <2>1, <2>2, <2>3 DEF Recovery
<1>3. account' \in [active: BOOLEAN, password: 1..MaxPasswords, mobile: 1..2] /\ account'.password >= account.password
  BY <1>1 DEF Verify
<1> QED BY <1>2, <1>3, UseRows DEF Verify, Usable

\* Reset, the rows: the link is consumed and all are closed.
LEMMA ResetRows ==
  ASSUME MailInductive, NEW d \in Deliveries, Reset(d)
  PROVE  RowsStep /\ (\A e \in Deliveries : ~Open(delivery'[e])) /\ delivery'[d].consumed
<1>1. recovery \in Recovery /\ account \in [active: BOOLEAN, password: 1..MaxPasswords, mobile: 1..2]
  BY DEF MailInductive, MailTypeOK
<1>2. account' \in [active: BOOLEAN, password: 1..MaxPasswords, mobile: 1..2] /\ account'.password >= account.password
  BY <1>1, MailBoundsNat DEF Reset
<1>3. recovery' \in Recovery
  BY <1>1 DEF Reset
<1> QED BY <1>2, <1>3, UseRows DEF Reset, Usable

\* AccountChanges, the rows: the password only grows older for them.
LEMMA AccountChangesRows ==
  ASSUME MailInductive, AccountChanges
  PROVE  RowsStep
<1>1. /\ MailTypeOK /\ RowsGood(delivery)
      /\ account \in [active: BOOLEAN, password: 1..MaxPasswords, mobile: 1..2]
  BY DEF MailInductive, MailTypeOK
<1>2. account' \in [active: BOOLEAN, password: 1..MaxPasswords, mobile: 1..2] /\ account'.password >= account.password
  <2>1. CASE account.password < MaxPasswords /\ account' = [account EXCEPT !.password = @ + 1]
    BY <1>1, <2>1, MailBoundsNat
  <2>2. CASE account' = [account EXCEPT !.mobile = 2]
    BY <1>1, <2>2, MailBoundsNat
  <2>3. CASE account' = [account EXCEPT !.active = FALSE]
    <3>1. account' \in [active: BOOLEAN, password: 1..MaxPasswords, mobile: 1..2]
      BY <1>1, <2>3
    <3>2. account'.password = account.password
      BY <1>1, <2>3
    <3> QED BY <1>1, <3>1, <3>2, MailBoundsNat
  <2> QED BY <2>1, <2>2, <2>3 DEF AccountChanges
<1>3. UNCHANGED <<recovery, delivery, tasks, mailer, inbox, mailFaults>>
  BY DEF AccountChanges
<1>4. \A x \in Deliveries : Kept(delivery[x], delivery[x])
  BY DEF Kept
<1>5. MailTypeOK'
  BY <1>1, <1>2, <1>3 DEF MailTypeOK
<1> QED BY <1>1, <1>2, <1>3, <1>4, <1>5 DEF RowsStep

\* MinutePasses, the rows: nothing but their age changes.
LEMMA MinutePassesRows ==
  ASSUME MailInductive, MinutePasses
  PROVE  RowsStep
<1>1. /\ MailTypeOK /\ RowsGood(delivery) /\ delivery \in [Deliveries -> Delivery]
      /\ account'.password >= account.password
  BY DEF MailInductive, MailTypeOK, MinutePasses
<1>2. ASSUME NEW d \in Deliveries
      PROVE  /\ delivery'[d] \in Delivery /\ Kept(delivery[d], delivery'[d])
             /\ delivery'[d].status = delivery[d].status /\ delivery'[d].consumed = delivery[d].consumed
             /\ delivery'[d].purpose = delivery[d].purpose
             /\ Open(delivery'[d]) => Open(delivery[d])
  <2>1. delivery[d] \in Delivery /\ delivery'[d] = [delivery[d] EXCEPT !.recent = FALSE]
    BY <1>1 DEF MinutePasses
  <2> QED BY <2>1 DEF Delivery, Kept, Open
<1>3. delivery' \in [Deliveries -> Delivery]
  BY <1>2 DEF MinutePasses
<1>4. RowsGood(delivery')
  BY <1>1, <1>2, <1>3 DEF RowsGood
<1>5. MailTypeOK'
  BY <1>1, <1>3 DEF MailTypeOK, MinutePasses
<1> QED BY <1>1, <1>2, <1>4, <1>5 DEF RowsStep

\* LinkExpires, the rows: one of them has reached its end.
LEMMA LinkExpiresRows ==
  ASSUME MailInductive, NEW d \in Deliveries, LinkExpires(d)
  PROVE  RowsStep
<1>1. MailTypeOK /\ delivery[d] \in Delivery
  BY DEF MailInductive, MailTypeOK
<1> DEFINE row == [delivery[d] EXCEPT !.expired = TRUE]
<1>2. row \in Delivery
  BY <1>1 DEF Delivery
<1>3. /\ row.status = delivery[d].status /\ row.purpose = delivery[d].purpose /\ row.email = delivery[d].email
      /\ row.password = delivery[d].password /\ row.consumed = delivery[d].consumed
      /\ Open(row) => Open(delivery[d])
  BY <1>1 DEF Delivery, Open
<1>4. delivery' = [delivery EXCEPT ![d] = row]
  BY DEF LinkExpires
<1> HIDE DEF row
<1>5. /\ UNCHANGED <<account, recovery, tasks, mailer, inbox, mailFaults>>
      /\ tasks' \in SUBSET Deliveries /\ mailer' \in [Mailers -> Mailer]
      /\ inbox' \in SUBSET (Deliveries \X Emails) /\ mailFaults' \in 0..MailFaults
  BY <1>1 DEF LinkExpires, MailTypeOK
<1> QED BY <1>2, <1>3, <1>4, <1>5, OneRow

\* Every step does to the rows what RowsStep says.
LEMMA MailRows == MailInductive /\ MailNext => RowsStep
<1> SUFFICES ASSUME MailInductive, MailNext PROVE RowsStep
  OBVIOUS
<1>1. ASSUME NEW e \in Emails, Enroll(e) PROVE RowsStep
  BY <1>1, EnrollRows
<1>2. ASSUME Resend PROVE RowsStep
  BY <1>2, ResendRows DEF Resend, Purposes
<1>3. ASSUME RequestReset PROVE RowsStep
  BY <1>3, ResendRows DEF RequestReset, Purposes
<1> QED BY <1>1, <1>2, <1>3, AccountChangesRows, MinutePassesRows, PrepareRows, SendLinkRows,
           MailerDiesRows, VerifyRows, ResetRows, LinkExpiresRows DEF MailNext

\* The worker reads the address its delivery was made for.
LEMMA PreparedAddress ==
  ASSUME MailInductive, NEW d \in Deliveries, Current(d)
  PROVE  Address(delivery[d].purpose) = delivery[d].email /\ delivery[d].status # "NONE"
BY DEF Current, Address, Open

\* No delivery is made, no address entered at first.
LEMMA MailStart == MailInit => MailInductive
<1> SUFFICES ASSUME MailInit PROVE MailInductive
  OBVIOUS
<1>1. NoDelivery \in Delivery
  BY DEF NoDelivery, Delivery, Purposes, Perhaps
<1>2. recovery \in Recovery
  BY DEF MailInit, Recovery, Perhaps
<1>3. Unemployed \in Mailer
  BY DEF Unemployed, Mailer, Perhaps
<1>4. account \in [active: BOOLEAN, password: 1..MaxPasswords, mobile: 1..2]
  BY MailBoundsNat DEF MailInit
<1>5. MailTypeOK
  BY <1>1, <1>2, <1>3, <1>4, MailBoundsNat DEF MailTypeOK, MailInit
<1>6. RowsGood(delivery) /\ NoneYounger
  BY <1>1 DEF MailInit, RowsGood, NoneYounger, NoDelivery, Open
<1>7. Addressed /\ VerifiedWasProved
  BY DEF MailInit, Addressed, VerifiedWasProved, Unemployed
<1> QED BY <1>5, <1>6, <1>7 DEF MailInductive

\* Every step keeps the strengthening; what it says of addresses is needed for the
\* proof that a verified address is one where a link arrived.
LEMMA MailStep == MailInductive /\ [MailNext]_mailVars => MailInductive'
<1> SUFFICES ASSUME MailInductive, [MailNext]_mailVars PROVE MailInductive'
  OBVIOUS
<1>1. CASE UNCHANGED mailVars
  BY <1>1 DEF mailVars, MailInductive, MailTypeOK, RowsGood, NoneYounger, Addressed,
              VerifiedWasProved, Open
<1>2. CASE MailNext
  <2>1. RowsStep
    BY <1>2, MailRows
  <2>2. /\ delivery \in [Deliveries -> Delivery] /\ delivery' \in [Deliveries -> Delivery]
        /\ account.password \in Nat /\ account'.password \in Nat /\ account'.password >= account.password
    BY <2>1 DEF RowsStep, MailInductive, MailTypeOK
  <2>3. NoneYounger'
    <3> SUFFICES ASSUME NEW d \in Deliveries, delivery'[d].status # "NONE"
                 PROVE  delivery'[d].password <= account'.password
      BY DEF NoneYounger
    <3>1. CASE delivery[d].status = "NONE"
      BY <2>1, <2>2, <3>1 DEF RowsStep
    <3>2. CASE delivery[d].status # "NONE"
      <4>1. delivery[d].password <= account.password /\ delivery[d].password \in Nat
        BY <2>2, <3>2 DEF MailInductive, NoneYounger, Delivery
      <4>2. delivery'[d].password = delivery[d].password
        BY <2>1, <3>2 DEF RowsStep, Kept
      <4> QED BY <2>2, <4>1, <4>2
    <3> QED BY <3>1, <3>2
  <2>4. Addressed'
    <3>1. ASSUME NEW k \in Mailers, NEW d \in mailer'[k].delivery
          PROVE  delivery'[d].status # "NONE" /\ mailer'[k].address = delivery'[d].email
      <4>1. ASSUME d \in mailer[k].delivery, mailer'[k] = mailer[k]
            PROVE  delivery'[d].status # "NONE" /\ mailer'[k].address = delivery'[d].email
        <5>1. /\ d \in Deliveries /\ delivery[d].status # "NONE"
              /\ mailer[k].address = delivery[d].email
          BY <4>1 DEF MailInductive, MailTypeOK, Addressed, Mailer, Perhaps
        <5> QED BY <2>1, <4>1, <5>1 DEF RowsStep, Kept
      <4>2. mailer \in [Mailers -> Mailer]
        BY DEF MailInductive, MailTypeOK
      <4>3. ASSUME NEW l \in Mailers, mailer' = [mailer EXCEPT ![l] = Unemployed]
            PROVE  mailer'[k] = mailer[k]
        BY <4>2, <4>3 DEF Unemployed
      <4>4. ASSUME NEW l \in Mailers, NEW x \in Deliveries, Prepare(l, x), mailer'[k] # mailer[k]
            PROVE  delivery'[d].status # "NONE" /\ mailer'[k].address = delivery'[d].email
        <5>1. /\ Current(x) /\ l = k /\ d = x
              /\ mailer'[k] = [delivery |-> {x}, address |-> Address(delivery[x].purpose)]
          BY <4>2, <4>4 DEF Prepare
        <5>2. Address(delivery[x].purpose) = delivery[x].email /\ delivery[x].status # "NONE"
          BY <5>1, PreparedAddress
        <5> QED BY <2>1, <5>1, <5>2 DEF RowsStep, Kept
      <4>5. ASSUME mailer'[k] = mailer[k]
            PROVE  delivery'[d].status # "NONE" /\ mailer'[k].address = delivery'[d].email
        BY <4>1, <4>5
      <4>6. CASE UNCHANGED mailer
        BY <4>5, <4>6
      <4>7. CASE \E l \in Mailers, x \in Deliveries : Prepare(l, x)
        BY <4>4, <4>5, <4>7
      <4>8. CASE \E l \in Mailers : SendLink(l) \/ MailerDies(l)
        BY <4>3, <4>5, <4>8 DEF SendLink, MailerDies
      <4> QED BY <1>2, <4>6, <4>7, <4>8 DEF MailNext, Enroll, Resend, RequestReset, AccountChanges,
                 MinutePasses, Verify, Reset, LinkExpires
    <3>2. ASSUME NEW d \in Deliveries, NEW e \in Emails, <<d, e>> \in inbox'
          PROVE  delivery'[d].status # "NONE" /\ delivery'[d].email = {e}
      <4>1. ASSUME <<d, e>> \in inbox
            PROVE  delivery'[d].status # "NONE" /\ delivery'[d].email = {e}
        BY <2>1, <4>1 DEF RowsStep, Kept, MailInductive, Addressed
      <4>2. ASSUME NEW k \in Mailers, d \in mailer[k].delivery, e \in mailer[k].address
            PROVE  delivery'[d].status # "NONE" /\ delivery'[d].email = {e}
        <5>1. mailer[k].address = {e}
          BY <4>2 DEF MailInductive, MailTypeOK, Mailer, Perhaps
        <5>2. delivery[d].status # "NONE" /\ delivery[d].email = {e}
          BY <4>2, <5>1 DEF MailInductive, Addressed
        <5> QED BY <2>1, <5>2 DEF RowsStep, Kept
      <4>3. ASSUME NEW k \in Mailers, SendLink(k) \/ MailerDies(k)
            PROVE  delivery'[d].status # "NONE" /\ delivery'[d].email = {e}
        <5>1. <<d, e>> \in inbox \/ \E x \in mailer[k].delivery : <<d, e>> \in {x} \X mailer[k].address
          BY <3>2, <4>3 DEF SendLink, MailerDies
        <5> QED BY <4>1, <4>2, <5>1
      <4>4. CASE UNCHANGED inbox
        BY <3>2, <4>1, <4>4
      <4> QED BY <1>2, <4>3, <4>4 DEF MailNext, Enroll, Resend, RequestReset, AccountChanges,
                 MinutePasses, Verify, Reset, LinkExpires, Prepare
    <3> QED BY <3>1, <3>2 DEF Addressed
  <2>5. VerifiedWasProved'
    <3>1. inbox \subseteq inbox'
      BY <1>2 DEF MailNext, Enroll, Resend, RequestReset, AccountChanges, MinutePasses, Prepare,
                  SendLink, MailerDies, Verify, Reset, LinkExpires
    <3>2. ASSUME recovery'.current = recovery.current
          PROVE  VerifiedWasProved'
      <4> SUFFICES ASSUME NEW e \in recovery.current
                   PROVE  \E d \in Deliveries :
                            <<d, e>> \in inbox' /\ delivery'[d].purpose = "VERIFY" /\ delivery'[d].consumed
        BY <3>2 DEF VerifiedWasProved
      <4>1. PICK d \in Deliveries : <<d, e>> \in inbox /\ delivery[d].purpose = "VERIFY" /\ delivery[d].consumed
        BY DEF MailInductive, VerifiedWasProved
      <4>2. delivery[d].status # "NONE"
        BY <4>1 DEF MailInductive, RowsGood
      <4> QED BY <2>1, <3>1, <4>1, <4>2 DEF RowsStep, Kept
    <3>3. ASSUME NEW d \in Deliveries, Verify(d)
          PROVE  VerifiedWasProved'
      <4>1. PICK e \in Emails : <<d, e>> \in inbox
        BY <3>3 DEF Verify, Arrived
      <4>2. delivery[d].email = {e} /\ delivery[d].status # "NONE"
        BY <4>1 DEF MailInductive, Addressed
      <4>3. recovery'.current = {e}
        <5>1. recovery.pending = {e}
          BY <3>3, <4>2 DEF Verify, Usable, Current
        <5>2. recovery \in Recovery
          BY DEF MailInductive, MailTypeOK
        <5> QED BY <3>3, <5>1, <5>2 DEF Verify, Recovery
      <4>4. delivery'[d].purpose = "VERIFY" /\ delivery'[d].consumed
        BY <2>1, <3>3, <4>2, VerifyRows DEF RowsStep, Kept, Verify
      <4> QED BY <3>1, <4>1, <4>3, <4>4 DEF VerifiedWasProved
    <3>4. ASSUME NEW e \in Emails, Enroll(e)
          PROVE  recovery'.current = recovery.current
      <4>1. recovery \in Recovery
        BY DEF MailInductive, MailTypeOK
      <4> QED BY <3>4, <4>1 DEF Enroll, Recovery
    <3> QED BY <1>2, <3>2, <3>3, <3>4 DEF MailNext, Resend, RequestReset, AccountChanges, MinutePasses,
               Prepare, SendLink, MailerDies, Reset, LinkExpires
  <2> QED BY <2>1, <2>3, <2>4, <2>5 DEF RowsStep, MailInductive
<1> QED BY <1>1, <1>2

\* The strengthening gives the types and the invariant the runs check.
LEMMA MailGives == MailInductive => MailTypeOK /\ MailInvariant
BY DEF MailInductive, MailInvariant, OneUsableLink, Usable, Current, RowsGood

\* A verified address is one at which a verification link arrived, and one link of a
\* purpose at most can be used (_queue_delivery, _delivery_current and
\* verify_recovery_email of parents/email_recovery_services.py).
THEOREM ProvedAndSingle == MailSpec => []MailInvariant
<1>1. MailInductive => MailInvariant
  BY MailGives
<1> QED BY MailStart, MailStep, <1>1, PTL DEF MailSpec

\* What a step may do to the links that are out.
LEMMA LinksEnd ==
  MailInductive /\ [MailNext]_mailVars
    => (account'.password # account.password \/ recovery'.current # recovery.current
          => \A d \in Deliveries : delivery[d].status # "NONE" => ~Usable(d)')
<1> SUFFICES ASSUME MailInductive, [MailNext]_mailVars,
                    account'.password # account.password \/ recovery'.current # recovery.current,
                    NEW d \in Deliveries, delivery[d].status # "NONE"
             PROVE  ~Usable(d)'
  OBVIOUS
<1>1. ASSUME ~Open(delivery'[d]) PROVE ~Usable(d)'
  BY <1>1 DEF Usable, Current
<1>2. CASE \E e \in Deliveries : Verify(e) \/ Reset(e)
  BY <1>1, <1>2, VerifyRows, ResetRows
<1>3. CASE AccountChanges
  <2>1. account \in [active: BOOLEAN, password: 1..MaxPasswords, mobile: 1..2]
    BY DEF MailInductive, MailTypeOK
  <2>2. recovery' = recovery /\ delivery' = delivery
    BY <1>3 DEF AccountChanges
  <2>3. account'.password = account.password + 1
    BY <1>3, <2>1, <2>2 DEF AccountChanges
  <2>4. delivery[d].password <= account.password /\ delivery[d].password \in Nat
    BY DEF MailInductive, MailTypeOK, NoneYounger, Delivery
  <2>5. delivery'[d].password # account'.password
    BY <2>1, <2>2, <2>3, <2>4, MailBoundsNat
  <2> QED BY <2>5 DEF Usable, Current
<1>4. ASSUME NEW e \in Emails, Enroll(e) PROVE FALSE
  <2>1. recovery \in Recovery
    BY DEF MailInductive, MailTypeOK
  <2> QED BY <1>4, <2>1 DEF Enroll, Recovery
<1> QED BY <1>2, <1>3, <1>4 DEF MailNext, mailVars, Resend, RequestReset, MinutePasses, Prepare, SendLink,
           MailerDies, LinkExpires

\* A change of the password or of the verified address ends every link that was out
\* (_delivery_current compares fingerprints; complete_password_recovery revokes).
THEOREM SecretsEndLinks == MailSpec => ChangeEndsLinks
<1>1. MailInductive /\ [MailNext]_mailVars
        => [account'.password # account.password \/ recovery'.current # recovery.current
              => \A d \in Deliveries : delivery[d].status # "NONE" => ~Usable(d)']_mailVars
  BY LinksEnd
<1> QED BY MailStart, MailStep, <1>1, PTL DEF MailSpec, ChangeEndsLinks

-----------------------------------------------------------------------------
(* The users of a device.                                                  *)

Items == UNION {[S -> Item] : S \in SUBSET Rows}
Analysed == UNION {[S -> Item] : S \in SUBSET Ids}
Reads == UNION {[S -> ItemStatus] : S \in SUBSET Rows}
Versions == SUBSET (Ids \X Titles)
Results == {"SUCCEEDED", "FAILED_RETRYABLE", "FAILED_FINAL"}
Analysis == [roster: Versions, device: Users, items: Analysed]
Job == [status: JobStatus, roster: Versions, device: Users, items: Items, made: Nat]
Identities == Pupils \cup {"none", "unmatched", "blank"}
Decision == [pc: {"idle", "create", "name", "save"}, job: 0..MaxJobs, rows: SUBSET Rows,
             status: JobStatus \ {"ANALYZING"}]
Serving == {"free", "list", "hand", "compare", "clear", "fill", "ready", "job", "item", "identity", "count"}
Request == [pc: Serving, first: 0..MaxJobs, job: 0..MaxJobs, rows: Reads, commands: SUBSET Command,
            pupil: Pupils \cup {"none"}, result: Results, found: Analysis, status: JobStatus]
Bridge == [pc: {"idle", "read", "send", "work", "report"}, job: 0..MaxJobs, seen: Users,
           commands: SUBSET Command, report: {<<>>} \cup (Command \X Results), call: SUBSET Servers]

\* The job was compared with the device after its approval, or a late analysis gave it
\* new items; until then nothing of it is handed out, so nothing of it failed.
Compared(j) == j \in confirmed \cup reanalysed
NonePending(items) == \A k \in DOMAIN items : items[k].status # "PENDING"
NoneFailed(items) == \A k \in DOMAIN items : items[k].status # "FAILED_RETRYABLE"
Calm(j) == Compared(j) \/ (jobs[j].status # "ANALYZING" /\ NonePending(jobs[j].items))

\* An item that is executed names a student's user: one of ours, or mapped by hand.
ItemsGood(items, ids) == \A k \in DOMAIN items : items[k].action \in Executed => k[1] \in Pupils \cup ids
CommandGood(c) == c.job \in Idx /\ Compared(c.job) /\ c.row[1] \in Pupils \cup mapped
AnalysedGood(items) ==
  \A i \in DOMAIN items : /\ items[i].status \in {"PENDING", "SKIPPED"}
                          /\ items[i].action \in Executed => i \in Pupils \cup mapped

JobGood(j) ==
  /\ jobs[j].status = "RUNNING" => Calm(j)
  /\ Compared(j) \/ NoneFailed(jobs[j].items)
  /\ ItemsGood(jobs[j].items, mapped)

DecisionGood(r) ==
  /\ r.pc \in {"name", "save"} => r.job \in Idx /\ jobs[r.job].status # "ANALYZING"
  /\ r.pc = "save" /\ r.status = "RUNNING" => Calm(r.job)

RequestGood(r) ==
  /\ r.pc # "free" => r.job \in Idx
  /\ r.pc \in {"list", "hand"} => r.first \in Idx
  /\ r.pc = "list" => Calm(r.job)
  /\ r.pc = "hand" /\ DOMAIN r.rows # {} => Compared(r.job)
  /\ r.pc \in {"item", "identity", "count"} => Compared(r.job)
  /\ r.pc = "job" => r.status # "ANALYZING" /\ (r.status = "RUNNING" => Compared(r.job))
  /\ r.pc \in {"hand", "item"} => \A k \in DOMAIN r.rows : r.rows[k] # "SUCCEEDED"
  /\ \A c \in r.commands : CommandGood(c)
  /\ AnalysedGood(r.found.items)

BridgeGood(b) ==
  /\ b.call # {} => b.pc \in {"idle", "send", "report"}
  /\ b.pc \in {"read", "send"} => b.job \in Idx
  /\ \A c \in b.commands : CommandGood(c)
  /\ b.pc = "report" => b.report \in Command \X Results /\ CommandGood(b.report[1])

AroundFine ==
  /\ pupils \in [Pupils -> [state: Lifecycle, title: Titles]]
  /\ identity \in [Ids -> Identities] /\ users \in Users
  /\ rosterChanges \in 0..RosterChanges
  /\ mapped \subseteq Ids /\ \A i \in Ids : identity[i] \in Pupils => i \in mapped
JobsFine == jobs \in Seq(Job) /\ Len(jobs) <= MaxJobs /\ \A j \in Idx : JobGood(j)
ManagersFine == manager \in [Managers -> Decision] /\ \A m \in Managers : DecisionGood(manager[m])
ServersFine == serving \in [Servers -> Request] /\ \A h \in Servers : RequestGood(serving[h])
BridgeFine == bridge \in Bridge /\ BridgeGood(bridge)
FaultsFine == rosterFaults \in 0..RosterFaults

RosterInductive == AroundFine /\ JobsFine /\ ManagersFine /\ ServersFine /\ BridgeFine /\ FaultsFine

\* What happens to an item that succeeded.
ItemsStay(j, new) ==
  \A k \in DOMAIN jobs[j].items :
    jobs[j].items[k].status = "SUCCEEDED" /\ ~Overtaken(j, k) =>
      k \in DOMAIN new /\ new[k].status = "SUCCEEDED"

\* What every step does to the jobs: they are as good as before, what was compared
\* stays so, and items that succeeded are kept.
Grows == mapped \subseteq mapped' /\ confirmed \subseteq confirmed' /\ reanalysed \subseteq reanalysed'
JobsStep ==
  /\ JobsFine' /\ Len(jobs) <= Len(jobs') /\ Grows
  /\ \A j \in Idx : /\ jobs[j].status # "ANALYZING" => jobs'[j].status # "ANALYZING"
                    /\ Calm(j) => Calm(j)'
                    /\ ItemsStay(j, jobs'[j].items)

\* A device without users, a job without items and a request without rows.
LEMMA NoUsers == <<>> \in Users /\ <<>> \in Items /\ <<>> \in Analysed /\ <<>> \in Reads /\ DOMAIN <<>> = {}
<1>1. DOMAIN <<>> = {}
  OBVIOUS
<1>2. <<>> \in [{} -> Titles] /\ <<>> \in [{} -> Item] /\ <<>> \in [{} -> ItemStatus]
  OBVIOUS
<1> QED BY <1>1, <1>2 DEF Users, Items, Analysed, Reads

\* The first of the jobs with one of the statuses, if there is one.
LEMMA FirstOfFinds ==
  ASSUME NEW statuses, jobs \in Seq(Job), FirstOf(statuses) # 0
  PROVE  FirstOf(statuses) \in Idx /\ jobs[FirstOf(statuses)].status \in statuses
<1> DEFINE of == {j \in Idx : jobs[j].status \in statuses}
<1>1. of # {} /\ FirstOf(statuses) = CHOOSE j \in of : \A k \in of : j <= k
  BY DEF FirstOf
<1>2. of \subseteq Nat
  BY DEF Idx
<1> HIDE DEF of
<1>3. PICK j \in of : \A k \in of : <<k, j>> \notin OpToRel(<, Nat)
  BY <1>1, <1>2, NatLessThanWellFounded, WFMin, Zenon
<1>4. \A k \in of : j <= k
  <2>1. ASSUME NEW k \in of, k < j PROVE <<k, j>> \in OpToRel(<, Nat)
    BY <1>2, <2>1, Zenon DEF OpToRel
  <2>2. \A k \in of : ~(k < j)
    BY <1>3, <2>1, Zenon
  <2> QED BY <1>2, <2>2
<1>5. FirstOf(statuses) \in of
  BY <1>1, <1>4
<1> QED BY <1>5 DEF of

\* The users of a device and what the connector makes of them.
LEMMA UsersFacts ==
  ASSUME NEW u \in Users
  PROVE  /\ DOMAIN u \subseteq Ids /\ \A i \in DOMAIN u : u[i] \in Titles
         /\ \A i \in Ids : Without(u, i) \in Users
         /\ \A i \in Ids, t \in Titles : With(u, i, t) \in Users
<1>1. PICK S \in SUBSET Ids : u \in [S -> Titles]
  BY DEF Users
<1>2. ASSUME NEW i \in Ids PROVE Without(u, i) \in Users
  <2>1. Without(u, i) \in [S \ {i} -> Titles]
    BY <1>1 DEF Without
  <2> QED BY <2>1 DEF Users
<1>3. ASSUME NEW i \in Ids, NEW t \in Titles PROVE With(u, i, t) \in Users
  <2>1. With(u, i, t) \in [S \cup {i} -> Titles]
    BY <1>1 DEF With
  <2>2. S \cup {i} \in SUBSET Ids
    OBVIOUS
  <2> QED BY <2>1, <2>2 DEF Users
<1> QED BY <1>1, <1>2, <1>3

\* What the items of a job are, and what is built as a function to items.
LEMMA ItemsFacts ==
  ASSUME NEW f \in Items
  PROVE  DOMAIN f \subseteq Rows /\ (\A k \in DOMAIN f : f[k] \in Item)
BY DEF Items

\* What is built as a function to items is the items of a job.
LEMMA ItemsBuilt ==
  ASSUME NEW S \in SUBSET Rows, NEW f, f \in [S -> Item]
  PROVE  f \in Items
BY DEF Items

\* A job of the table.
LEMMA JobFacts ==
  ASSUME JobsFine, NEW j \in Idx
  PROVE  /\ jobs[j] \in Job /\ jobs[j].items \in Items /\ jobs[j].status \in JobStatus
         /\ jobs[j].device \in Users /\ JobGood(j)
         /\ j \in 1..MaxJobs /\ Len(jobs) \in Nat
<1>1. jobs \in Seq(Job) /\ Len(jobs) \in Nat /\ Len(jobs) <= MaxJobs /\ JobGood(j)
  BY DEF JobsFine
<1>2. jobs[j] \in Job
  BY <1>1 DEF Idx
<1>3. j \in 1..MaxJobs
  BY <1>1, RosterBounds DEF Idx
<1> QED BY <1>1, <1>2, <1>3 DEF Job

\* What was good for a request, a decision or the bridge stays good.
LEMMA GoodStays ==
  ASSUME JobsFine, JobsStep
  PROVE  /\ \A c : CommandGood(c) => CommandGood(c)'
         /\ \A r \in Decision : DecisionGood(r) => DecisionGood(r)'
         /\ \A r \in Request : RequestGood(r) => RequestGood(r)'
         /\ \A b \in Bridge : BridgeGood(b) => BridgeGood(b)'
<1>1. Len(jobs) \in Nat /\ Len(jobs') \in Nat /\ Len(jobs) <= Len(jobs')
  BY DEF JobsFine, JobsStep
<1>2. Idx \subseteq Idx'
  BY <1>1 DEF Idx
<1>3. \A j : Compared(j) => Compared(j)'
  BY DEF JobsStep, Grows, Compared
<1>4. \A j \in Idx : /\ Calm(j) => Calm(j)'
                     /\ jobs[j].status # "ANALYZING" => jobs'[j].status # "ANALYZING"
  BY DEF JobsStep
<1>5. mapped \subseteq mapped'
  BY DEF JobsStep, Grows
<1>6. ASSUME NEW c, CommandGood(c) PROVE CommandGood(c)'
  BY <1>2, <1>3, <1>5, <1>6 DEF CommandGood
<1>7. ASSUME NEW r \in Decision, DecisionGood(r) PROVE DecisionGood(r)'
  BY <1>2, <1>4, <1>7 DEF DecisionGood
<1>8. ASSUME NEW r \in Request, RequestGood(r) PROVE RequestGood(r)'
  <2>1. \A c \in r.commands : CommandGood(c)'
    BY <1>6, <1>8 DEF RequestGood
  <2>2. AnalysedGood(r.found.items)'
    BY <1>5, <1>8 DEF RequestGood, AnalysedGood
  <2>3. /\ r.pc # "free" => r.job \in Idx'
        /\ r.pc \in {"list", "hand"} => r.first \in Idx'
    BY <1>2, <1>8 DEF RequestGood
  <2>4. r.pc = "list" => Calm(r.job)'
    <3>1. r.pc = "list" => r.job \in Idx /\ Calm(r.job)
      BY <1>8 DEF RequestGood
    <3> QED BY <1>4, <3>1
  <2>5. /\ r.pc = "hand" /\ DOMAIN r.rows # {} => Compared(r.job)'
        /\ r.pc \in {"item", "identity", "count"} => Compared(r.job)'
        /\ r.pc = "job" => r.status # "ANALYZING" /\ (r.status = "RUNNING" => Compared(r.job)')
        /\ r.pc \in {"hand", "item"} => \A k \in DOMAIN r.rows : r.rows[k] # "SUCCEEDED"
    BY <1>3, <1>8 DEF RequestGood
  <2> QED BY <2>1, <2>2, <2>3, <2>4, <2>5 DEF RequestGood
<1>9. ASSUME NEW b \in Bridge, BridgeGood(b) PROVE BridgeGood(b)'
  BY <1>2, <1>6, <1>9 DEF BridgeGood
<1> QED BY <1>6, <1>7, <1>8, <1>9

\* The managers' requests after a step: as they were, or one with a good row.
LEMMA Managed ==
  ASSUME RosterInductive, JobsStep,
         \/ UNCHANGED manager
         \/ \E m \in Managers, r \in Decision : DecisionGood(r) /\ manager' = [manager EXCEPT ![m] = r]
  PROVE  ManagersFine'
<1>1. manager \in [Managers -> Decision] /\ \A m \in Managers : DecisionGood(manager[m])
  BY DEF RosterInductive, ManagersFine
<1>2. \A r \in Decision : DecisionGood(r) => DecisionGood(r)'
  BY GoodStays DEF RosterInductive
<1>3. manager' \in [Managers -> Decision]
  BY <1>1
<1>4. ASSUME NEW m \in Managers PROVE DecisionGood(manager[m])'
  <2>1. PICK r \in Decision : DecisionGood(r) /\ manager'[m] = r
    BY <1>1
  <2>2. DecisionGood(r)'
    BY <1>2, <2>1
  <2> QED BY <2>1, <2>2 DEF DecisionGood
<1> QED BY <1>3, <1>4 DEF ManagersFine

\* The requests of the bridge after a step, alike.
LEMMA Served ==
  ASSUME RosterInductive, JobsStep,
         \/ UNCHANGED serving
         \/ \E h \in Servers, r \in Request : /\ RequestGood(r) \/ RequestGood(r)'
                                              /\ serving' = [serving EXCEPT ![h] = r]
  PROVE  ServersFine'
<1>1. serving \in [Servers -> Request] /\ \A h \in Servers : RequestGood(serving[h])
  BY DEF RosterInductive, ServersFine
<1>2. \A r \in Request : RequestGood(r) => RequestGood(r)'
  BY GoodStays DEF RosterInductive
<1>3. serving' \in [Servers -> Request]
  BY <1>1
<1>4. ASSUME NEW h \in Servers PROVE RequestGood(serving[h])'
  <2>1. PICK r \in Request : (RequestGood(r) \/ RequestGood(r)') /\ serving'[h] = r
    <3>1. CASE UNCHANGED serving
      BY <1>1, <3>1
    <3>2. ASSUME NEW g \in Servers, NEW r \in Request, RequestGood(r) \/ RequestGood(r)',
                 serving' = [serving EXCEPT ![g] = r]
          PROVE  \E q \in Request : (RequestGood(q) \/ RequestGood(q)') /\ serving'[h] = q
      <4>1. CASE g = h
        BY <1>1, <3>2, <4>1
      <4>2. CASE g # h
        BY <1>1, <3>2, <4>2
      <4> QED BY <4>1, <4>2
    <3> QED BY <3>1, <3>2
  <2>2. RequestGood(r)'
    BY <1>2, <2>1
  <2> QED BY <2>1, <2>2 DEF RequestGood
<1> QED BY <1>3, <1>4 DEF ServersFine

\* The bridge after a step: it holds good commands.
LEMMA Bridged ==
  ASSUME RosterInductive, JobsStep, NEW b \in Bridge, BridgeGood(b), bridge' = b
  PROVE  BridgeFine'
<1>1. BridgeGood(b)'
  BY GoodStays DEF RosterInductive
<1> QED BY <1>1 DEF BridgeFine, BridgeGood

\* The bridge that a step leaves alone.
LEMMA BridgeStays ==
  ASSUME RosterInductive, JobsStep, UNCHANGED bridge
  PROVE  BridgeFine'
BY Bridged DEF RosterInductive, BridgeFine

\* The bound of the faults is kept.
LEMMA Faults ==
  ASSUME RosterInductive, RosterFault \/ UNCHANGED rosterFaults
  PROVE  FaultsFine'
BY RosterBounds DEF RosterInductive, FaultsFine, RosterFault

\* What surrounds a synchronisation, when it is left alone.
LEMMA AroundStays ==
  ASSUME RosterInductive, UNCHANGED around
  PROVE  AroundFine'
BY DEF RosterInductive, AroundFine, around

\* A step that leaves the jobs alone, and forgets nothing, keeps them good.
LEMMA SameJobs ==
  ASSUME RosterInductive, jobs' = jobs, Grows
  PROVE  JobsStep
<1>1. jobs \in Seq(Job) /\ Len(jobs) <= MaxJobs /\ Len(jobs) \in Nat /\ \A j \in Idx : JobGood(j)
  BY DEF RosterInductive, JobsFine
<1>2. \A j : Compared(j) => Compared(j)'
  BY DEF Grows, Compared
<1>3. \A j : Calm(j) => Calm(j)'
  BY <1>2 DEF Calm
<1>4. ASSUME NEW j \in Idx' PROVE JobGood(j)'
  <2>1. JobGood(j)
    BY <1>1, <1>4 DEF Idx
  <2> QED BY <1>2, <1>3, <2>1 DEF JobGood, ItemsGood, Grows
<1>5. JobsFine'
  BY <1>1, <1>4 DEF JobsFine
<1>6. \A j \in Idx : ItemsStay(j, jobs'[j].items)
  BY DEF ItemsStay
<1> QED BY <1>1, <1>3, <1>5, <1>6 DEF JobsStep

\* A step that changes one job keeps them good, when the new row is good.
LEMMA OneJob ==
  ASSUME RosterInductive, Grows, NEW j \in Idx, NEW new \in Job, jobs' = [jobs EXCEPT ![j] = new],
         new.status = "ANALYZING" => jobs[j].status = "ANALYZING",
         \/ Compared(j)'
         \/ /\ NoneFailed(new.items)
            /\ new.status = "RUNNING" \/ Calm(j) => new.status # "ANALYZING" /\ NonePending(new.items),
         ItemsGood(new.items, mapped'), ItemsStay(j, new.items)
  PROVE  JobsStep
<1>1. jobs \in Seq(Job) /\ Len(jobs) <= MaxJobs /\ Len(jobs) \in Nat /\ \A k \in Idx : JobGood(k)
  BY DEF RosterInductive, JobsFine
<1>2. /\ jobs' \in Seq(Job) /\ Len(jobs') = Len(jobs) /\ Idx' = Idx
      /\ \A k \in Idx : jobs'[k] = IF k = j THEN new ELSE jobs[k]
  BY <1>1 DEF Idx
<1>3. \A k : Compared(k) => Compared(k)'
  BY DEF Grows, Compared
<1>4. Calm(j) \/ new.status = "RUNNING" => Calm(j)'
  BY <1>2 DEF Calm
<1>5. ASSUME NEW k \in Idx, k # j, Calm(k) PROVE Calm(k)'
  BY <1>2, <1>3, <1>5 DEF Calm
<1>6. ASSUME NEW k \in Idx PROVE JobGood(k)'
  <2>1. CASE k = j
    BY <1>2, <1>4, <2>1 DEF JobGood
  <2>2. CASE k # j
    <3>1. JobGood(k) /\ jobs'[k] = jobs[k]
      BY <1>1, <1>2, <2>2
    <3> QED BY <1>3, <1>5, <2>2, <3>1 DEF JobGood, ItemsGood, Grows
  <2> QED BY <2>1, <2>2
<1>7. JobsFine'
  BY <1>1, <1>2, <1>6 DEF JobsFine
<1>8. ASSUME NEW k \in Idx
      PROVE  /\ jobs[k].status # "ANALYZING" => jobs'[k].status # "ANALYZING"
             /\ Calm(k) => Calm(k)'
             /\ ItemsStay(k, jobs'[k].items)
  <2>1. CASE k = j
    BY <1>2, <1>4, <2>1
  <2>2. CASE k # j
    <3>1. jobs'[k] = jobs[k]
      BY <1>2, <2>2
    <3>2. ItemsStay(k, jobs'[k].items)
      BY <3>1 DEF ItemsStay
    <3> QED BY <1>5, <2>2, <3>1, <3>2
  <2> QED BY <2>1, <2>2
<1> QED BY <1>1, <1>2, <1>7, <1>8 DEF JobsStep

\* A step that changes the status of one job, and what it says of the device.
LEMMA OneStatus ==
  ASSUME RosterInductive, Grows, NEW j \in Idx, NEW new \in Job, jobs' = [jobs EXCEPT ![j] = new],
         new.status # "ANALYZING", new.items = jobs[j].items,
         new.status = "RUNNING" => Calm(j)
  PROVE  JobsStep
<1>1. JobGood(j)
  BY JobFacts DEF RosterInductive
<1>2. ItemsGood(new.items, mapped')
  BY <1>1 DEF JobGood, ItemsGood, Grows
<1>3. ItemsStay(j, new.items)
  BY DEF ItemsStay
<1>4. Compared(j) => Compared(j)'
  BY DEF Compared, Grows
<1>5. \/ Compared(j)'
      \/ /\ NoneFailed(new.items)
         /\ new.status = "RUNNING" \/ Calm(j) => new.status # "ANALYZING" /\ NonePending(new.items)
  BY <1>1, <1>4 DEF JobGood, Calm
<1> QED BY <1>2, <1>3, <1>5, OneJob

\* A step that changes one item of a job, but not what it does.
LEMMA OneItem ==
  ASSUME RosterInductive, Grows, NEW j \in Idx, NEW k \in DOMAIN jobs[j].items, NEW item \in Item,
         jobs' = [jobs EXCEPT ![j] = [jobs[j] EXCEPT !.items = [jobs[j].items EXCEPT ![k] = item]]],
         item.action = jobs[j].items[k].action,
         Compared(j) \/ item.status = jobs[j].items[k].status,
         jobs[j].items[k].status = "SUCCEEDED" => item.status = "SUCCEEDED" \/ Overtaken(j, k)
  PROVE  JobsStep
<1> DEFINE old == jobs[j].items
           items == [old EXCEPT ![k] = item]
           new == [jobs[j] EXCEPT !.items = items]
<1>1. jobs[j] \in Job /\ old \in Items /\ JobGood(j)
  BY JobFacts DEF RosterInductive
<1>2. DOMAIN old \subseteq Rows /\ \A x \in DOMAIN old : old[x] \in Item
  BY <1>1, ItemsFacts
<1>3. DOMAIN items = DOMAIN old /\ \A x \in DOMAIN old : items[x] = IF x = k THEN item ELSE old[x]
  BY <1>1 DEF Items
<1>4. items \in Items
  <2>1. items \in [DOMAIN old -> Item]
    BY <1>2, <1>3
  <2> QED BY <1>2, <2>1, ItemsBuilt
<1> HIDE DEF items
<1>5. new \in Job /\ new.items = items /\ new.status = jobs[j].status
  BY <1>1, <1>4 DEF Job
<1>6. jobs' = [jobs EXCEPT ![j] = new]
  BY DEF items
<1>7. ItemsGood(items, mapped')
  BY <1>1, <1>3 DEF JobGood, ItemsGood, Grows
<1>8. ItemsStay(j, items)
  BY <1>3 DEF ItemsStay
<1>9. \/ Compared(j)'
      \/ /\ NoneFailed(items)
         /\ jobs[j].status = "RUNNING" \/ Calm(j) => jobs[j].status # "ANALYZING" /\ NonePending(items)
  <2>1. CASE Compared(j)
    BY <2>1 DEF Compared, Grows
  <2>2. CASE ~Compared(j)
    <3>1. \A x \in DOMAIN old : items[x].status = old[x].status
      BY <1>3, <2>2
    <3>2. NoneFailed(old) /\ (jobs[j].status = "RUNNING" => Calm(j))
      BY <1>1, <2>2 DEF JobGood
    <3> QED BY <1>3, <2>2, <3>1, <3>2 DEF NoneFailed, NonePending, Calm
  <2> QED BY <2>1, <2>2
<1> HIDE DEF new
<1> QED BY <1>5, <1>6, <1>7, <1>8, <1>9, OneJob

-----------------------------------------------------------------------------
(* Students, identities and the device by hand.                            *)

\* The jobs and all requests are left alone.
LEMMA FactsStep ==
  ASSUME RosterInductive, UNCHANGED <<jobs, manager, serving, bridge, rosterFaults, compared>>,
         AroundFine', mapped \subseteq mapped'
  PROVE  RosterInductive' /\ JobsStep
<1>1. Grows
  BY DEF compared, Grows
<1>2. JobsStep
  BY <1>1, SameJobs
<1>3. ManagersFine' /\ ServersFine' /\ BridgeFine' /\ FaultsFine'
  BY <1>2, Managed, Served, BridgeStays, Faults
<1> QED BY <1>2, <1>3 DEF RosterInductive, JobsStep

\* The actions of that kind.
LEMMA FactsChanges ==
  ASSUME RosterInductive
  PROVE  /\ \A s \in Pupils, l \in Lifecycle, t \in Titles :
              PupilChanges(s, l, t) => RosterInductive' /\ JobsStep
         /\ \A i \in Ids : UnknownScan(i) => RosterInductive' /\ JobsStep
         /\ \A i \in Ids : UnmapIdentity(i) => RosterInductive' /\ JobsStep
         /\ \A i \in Ids, s \in Pupils : MapIdentity(i, s) => RosterInductive' /\ JobsStep
         /\ \A u \in Users : EditedByHand(u) => RosterInductive' /\ JobsStep
<1>1. AroundFine
  BY DEF RosterInductive
<1>2. RosterChange => rosterChanges' \in 0..RosterChanges
  BY <1>1, RosterBounds DEF RosterChange, AroundFine
<1>3. ASSUME NEW s \in Pupils, NEW l \in Lifecycle, NEW t \in Titles, PupilChanges(s, l, t)
      PROVE  RosterInductive' /\ JobsStep
  <2>1. AroundFine'
    BY <1>1, <1>2, <1>3 DEF PupilChanges, AroundFine
  <2> QED BY <1>3, <2>1, FactsStep DEF PupilChanges
<1>4. ASSUME NEW i \in Ids, UnknownScan(i) \/ UnmapIdentity(i) PROVE RosterInductive' /\ JobsStep
  <2>1. AroundFine'
    BY <1>1, <1>2, <1>4, RosterNames DEF UnknownScan, UnmapIdentity, AroundFine, Identities
  <2> QED BY <1>4, <2>1, FactsStep DEF UnknownScan, UnmapIdentity
<1>5. ASSUME NEW i \in Ids, NEW s \in Pupils, MapIdentity(i, s) PROVE RosterInductive' /\ JobsStep
  <2>1. AroundFine'
    BY <1>1, <1>2, <1>5 DEF MapIdentity, AroundFine, Identities
  <2> QED BY <1>5, <2>1, FactsStep DEF MapIdentity
<1>6. ASSUME NEW u \in Users, EditedByHand(u) PROVE RosterInductive' /\ JobsStep
  <2>1. AroundFine'
    BY <1>1, <1>2, <1>6 DEF EditedByHand, AroundFine
  <2> QED BY <1>6, <2>1, FactsStep DEF EditedByHand
<1> QED BY <1>3, <1>4, <1>5, <1>6

-----------------------------------------------------------------------------
(* The manager.                                                            *)

\* A step of the manager: one request, and the jobs.
LEMMA ManagerStep ==
  ASSUME RosterInductive, JobsStep, ByManager, NEW m \in Managers, NEW r \in Decision, DecisionGood(r),
         manager' = [manager EXCEPT ![m] = r]
  PROVE  RosterInductive' /\ JobsStep
<1>1. ManagersFine'
  BY Managed
<1>2. AroundFine' /\ ServersFine' /\ BridgeFine' /\ FaultsFine'
  BY AroundStays, Served, BridgeStays, Faults DEF ByManager
<1> QED BY <1>1, <1>2 DEF RosterInductive, JobsStep

\* A request that is over.
LEMMA Over == Unoccupied \in Decision /\ DecisionGood(Unoccupied)
<1>1. 0 \in 0..MaxJobs /\ "STALE" \in JobStatus \ {"ANALYZING"} /\ {} \in SUBSET Rows
  BY RosterBounds DEF JobStatus, OpenJob
<1>2. Unoccupied \in Decision
  BY <1>1 DEF Unoccupied, Decision
<1>3. Unoccupied.pc = "idle"
  BY DEF Unoccupied
<1> QED BY <1>2, <1>3 DEF DecisionGood

\* A request that names items or saves a decision.
Naming(j, S) == [Unoccupied EXCEPT !.pc = "name", !.job = j, !.rows = S]
Saving(j, s) == [Unoccupied EXCEPT !.pc = "save", !.job = j, !.status = s]

\* What such a request holds.
LEMMA Decided ==
  ASSUME NEW j \in 1..MaxJobs, NEW S \in SUBSET Rows, NEW s \in JobStatus \ {"ANALYZING"}
  PROVE  /\ Naming(j, S) \in Decision /\ Saving(j, s) \in Decision
         /\ Naming(j, S).job = j /\ Naming(j, S).status = "STALE" /\ Naming(j, S).pc = "name"
         /\ Saving(j, s).job = j /\ Saving(j, s).status = s /\ Saving(j, s).pc = "save"
<1>1. j \in 0..MaxJobs
  BY RosterBounds
<1>2. Unoccupied \in Decision
  BY Over
<1>3. Naming(j, S) \in Decision /\ Saving(j, s) \in Decision
  BY <1>1, <1>2 DEF Decision, Naming, Saving
<1>4. /\ Naming(j, S).job = j /\ Naming(j, S).status = "STALE" /\ Naming(j, S).pc = "name"
      /\ Saving(j, s).job = j /\ Saving(j, s).status = s /\ Saving(j, s).pc = "save"
  BY DEF Unoccupied, Naming, Saving
<1> QED BY <1>3, <1>4

\* Analyses are asked for.
LEMMA AnalyzeSteps ==
  ASSUME RosterInductive, NEW m \in Managers, AnalyzeCheck(m) \/ AnalyzeCreate(m)
  PROVE  RosterInductive' /\ JobsStep
<1>1. /\ manager \in [Managers -> Decision] /\ manager[m] \in Decision /\ ByManager
      /\ jobs \in Seq(Job) /\ Len(jobs) \in Nat /\ MaxJobs \in Nat
  BY RosterBounds DEF RosterInductive, ManagersFine, JobsFine, AnalyzeCheck, AnalyzeCreate
<1>2. Grows
  BY <1>1 DEF ByManager, around, compared, Grows
<1>3. CASE AnalyzeCheck(m)
  <2> DEFINE r == [manager[m] EXCEPT !.pc = "create"]
  <2>1. manager' = [manager EXCEPT ![m] = r] /\ jobs' = jobs
    BY <1>3 DEF AnalyzeCheck
  <2>2. r \in Decision /\ DecisionGood(r)
    BY <1>1 DEF Decision, DecisionGood
  <2>3. JobsStep
    BY <1>2, <2>1, SameJobs
  <2> HIDE DEF r
  <2> QED BY <1>1, <2>1, <2>2, <2>3, ManagerStep
<1>4. CASE AnalyzeCreate(m)
  <2>1. jobs' = Append(jobs, NewJob) /\ Len(jobs) < MaxJobs /\ manager' = [manager EXCEPT ![m] = Unoccupied]
    BY <1>4 DEF AnalyzeCreate
  <2>2. NewJob \in Job /\ NewJob.status = "ANALYZING" /\ NewJob.items = <<>>
    BY NoUsers DEF NewJob, Job, JobStatus, OpenJob, Versions
  <2>3. /\ jobs' \in Seq(Job) /\ Len(jobs') = Len(jobs) + 1 /\ jobs'[Len(jobs) + 1] = NewJob
        /\ \A k \in Idx : jobs'[k] = jobs[k]
    BY <1>1, <2>1, <2>2, AppendProperties DEF Idx
  <2>4. \A k \in Idx : Calm(k) => Calm(k)'
    BY <1>2, <2>3 DEF Calm, Compared, Grows
  <2>5. ASSUME NEW k \in Idx' PROVE JobGood(k)'
    <3>1. CASE k \in Idx
      <4>1. JobGood(k) /\ jobs'[k] = jobs[k]
        BY <2>3, <3>1 DEF RosterInductive, JobsFine
      <4> QED BY <1>2, <2>4, <3>1, <4>1 DEF JobGood, ItemsGood, Grows, Compared
    <3>2. CASE k \notin Idx
      <4>1. jobs'[k] = NewJob
        BY <1>1, <2>3, <3>2 DEF Idx
      <4> QED BY <2>2, <4>1, NoUsers DEF JobGood, ItemsGood, NoneFailed
    <3> QED BY <3>1, <3>2
  <2>6. Len(jobs) <= Len(jobs') /\ Len(jobs') <= MaxJobs
    BY <1>1, <2>1, <2>3
  <2>7. \A k \in Idx : ItemsStay(k, jobs'[k].items)
    BY <2>3 DEF ItemsStay
  <2>8. JobsStep
    BY <1>2, <2>3, <2>4, <2>5, <2>6, <2>7 DEF JobsStep, JobsFine
  <2> QED BY <1>1, <2>1, <2>8, Over, ManagerStep
<1> QED BY <1>3, <1>4

\* ApproveCheck and ApproveDecides leave the jobs alone.
LEMMA ApproveSteps ==
  ASSUME RosterInductive, NEW m \in Managers
  PROVE  /\ \A j \in Idx : ApproveCheck(m, j) => RosterInductive' /\ JobsStep
         /\ ApproveDecides(m) => RosterInductive' /\ JobsStep
<1>1. manager[m] \in Decision /\ DecisionGood(manager[m])
  BY DEF RosterInductive, ManagersFine
<1>2. ASSUME ByManager, jobs' = jobs PROVE JobsStep
  <2>1. Grows
    BY <1>2 DEF ByManager, around, compared, Grows
  <2> QED BY <1>2, <2>1, SameJobs
<1>3. ASSUME NEW j \in Idx, ApproveCheck(m, j) PROVE RosterInductive' /\ JobsStep
  <2> DEFINE S == {k \in Waiting(j) : ~jobs[j].items[k].named}
             r == IF CurrentVersion = jobs[j].roster THEN Naming(j, S) ELSE Saving(j, "STALE")
  <2>1. manager' = [manager EXCEPT ![m] = r] /\ jobs' = jobs /\ ByManager /\ jobs[j].status # "ANALYZING"
    BY <1>3 DEF ApproveCheck, Naming, Saving
  <2>2. j \in 1..MaxJobs /\ jobs[j].items \in Items
    BY JobFacts DEF RosterInductive
  <2>3. S \in SUBSET Rows
    BY <2>2, ItemsFacts DEF Waiting
  <2> HIDE DEF S
  <2>4. r \in Decision /\ r.job = j /\ r.status = "STALE"
    <3>1. "STALE" \in JobStatus \ {"ANALYZING"}
      BY DEF JobStatus, OpenJob
    <3> QED BY <2>2, <2>3, <3>1, Decided
  <2> HIDE DEF r
  <2>5. DecisionGood(r)
    BY <2>1, <2>4 DEF DecisionGood
  <2> QED BY <1>2, <2>1, <2>4, <2>5, ManagerStep
<1>4. ASSUME ApproveDecides(m) PROVE RosterInductive' /\ JobsStep
  <2> DEFINE j == manager[m].job
             s == IF \E k \in DOMAIN jobs[j].items : jobs[j].items[k].status = "PENDING"
                  THEN "APPROVED" ELSE "RUNNING"
             r == [manager[m] EXCEPT !.pc = "save", !.status = s]
  <2>1. manager' = [manager EXCEPT ![m] = r] /\ jobs' = jobs /\ ByManager /\ manager[m].pc = "name"
    BY <1>4 DEF ApproveDecides
  <2>2. s \in JobStatus \ {"ANALYZING"} /\ (s = "RUNNING" => NonePending(jobs[j].items))
    BY DEF JobStatus, OpenJob, NonePending
  <2>3. j \in Idx /\ jobs[j].status # "ANALYZING"
    BY <1>1, <2>1 DEF DecisionGood
  <2> HIDE DEF s
  <2>4. r \in Decision /\ r.job = j /\ r.status = s
    BY <1>1, <2>2 DEF Decision
  <2> HIDE DEF r, j
  <2>5. DecisionGood(r)
    BY <2>2, <2>3, <2>4 DEF DecisionGood, Calm
  <2> QED BY <1>2, <2>1, <2>4, <2>5, ManagerStep
<1> QED BY <1>3, <1>4

\* NameItem gives one item its command id.
LEMMA NameStep ==
  ASSUME RosterInductive, NEW m \in Managers, NEW k \in manager[m].rows, NameItem(m, k)
  PROVE  RosterInductive' /\ JobsStep
<1> DEFINE j == manager[m].job
<1>1. /\ manager[m] \in Decision /\ j \in Idx /\ jobs[j].status # "ANALYZING" /\ ByManager
      /\ manager[m].pc = "name"
  BY DEF RosterInductive, ManagersFine, DecisionGood, NameItem
<1>2. Grows
  BY <1>1 DEF ByManager, around, compared, Grows
<1>3. CASE k \in DOMAIN jobs[j].items
  <2> DEFINE item == [jobs[j].items[k] EXCEPT !.named = TRUE]
             r == [manager[m] EXCEPT !.rows = @ \ {k}]
  <2>1. jobs[j] \in Job /\ jobs[j].items \in Items
    BY <1>1, JobFacts DEF RosterInductive
  <2>2. jobs[j].items[k] \in Item
    BY <1>3, <2>1, ItemsFacts
  <2>3. item \in Item /\ item.action = jobs[j].items[k].action /\ item.status = jobs[j].items[k].status
    BY <2>2 DEF Item
  <2>4. /\ jobs' = [jobs EXCEPT ![j] = [jobs[j] EXCEPT !.items = [jobs[j].items EXCEPT ![k] = item]]]
        /\ manager' = [manager EXCEPT ![m] = r]
    BY <1>3 DEF NameItem
  <2>5. r \in Decision /\ DecisionGood(r)
    BY <1>1 DEF Decision, DecisionGood
  <2> HIDE DEF item, r, j
  <2>6. JobsStep
    BY <1>1, <1>2, <1>3, <2>3, <2>4, OneItem
  <2> QED BY <1>1, <2>4, <2>5, <2>6, ManagerStep
<1>4. CASE k \notin DOMAIN jobs[j].items
  <2>1. jobs' = jobs /\ manager' = [manager EXCEPT ![m] = Unoccupied]
    BY <1>4 DEF NameItem
  <2>2. JobsStep
    BY <1>2, <2>1, SameJobs
  <2> QED BY <1>1, <2>1, <2>2, Over, ManagerStep
<1> QED BY <1>3, <1>4

\* A retry makes FAILED_RETRYABLE items PENDING, of a job that was compared.
LEMMA RetryStep ==
  ASSUME RosterInductive, NEW m \in Managers, NEW j \in Idx, Retry(m, j)
  PROVE  RosterInductive' /\ JobsStep
<1> DEFINE old == jobs[j].items
           items == [k \in DOMAIN old |-> IF old[k].status = "FAILED_RETRYABLE"
                                          THEN [old[k] EXCEPT !.status = "PENDING"] ELSE old[k]]
           new == [jobs[j] EXCEPT !.items = items]
           r == Saving(j, "APPROVED")
<1>1. jobs[j] \in Job /\ old \in Items /\ JobGood(j) /\ j \in 1..MaxJobs
  BY JobFacts DEF RosterInductive
<1>2. jobs' = [jobs EXCEPT ![j] = new] /\ manager' = [manager EXCEPT ![m] = r] /\ ByManager
      /\ jobs[j].status = "PARTIALLY_FAILED"
  BY DEF Retry, Saving
<1>3. Grows
  BY <1>2 DEF ByManager, around, compared, Grows
<1>4. DOMAIN items = DOMAIN old /\ DOMAIN old \subseteq Rows
  BY <1>1, ItemsFacts
<1>5. ASSUME NEW k \in DOMAIN old
      PROVE  /\ items[k] \in Item /\ items[k].action = old[k].action
             /\ items[k].status = IF old[k].status = "FAILED_RETRYABLE" THEN "PENDING" ELSE old[k].status
  <2>1. old[k] \in Item
    BY <1>1, ItemsFacts
  <2> QED BY <2>1 DEF Item, ItemStatus
<1>6. items \in Items
  <2>1. items \in [DOMAIN old -> Item]
    BY <1>5
  <2> QED BY <1>4, <2>1, ItemsBuilt
<1> HIDE DEF items
<1>7. new \in Job /\ new.items = items /\ new.status = "PARTIALLY_FAILED"
  BY <1>1, <1>2, <1>6 DEF Job
<1> HIDE DEF new
<1>8. ItemsGood(items, mapped') /\ ItemsStay(j, items)
  <2>1. ItemsGood(items, mapped')
    BY <1>1, <1>3, <1>4, <1>5 DEF JobGood, ItemsGood, Grows
  <2>2. ItemsStay(j, items)
    BY <1>4, <1>5 DEF ItemsStay
  <2> QED BY <2>1, <2>2
<1>9. \/ Compared(j)'
      \/ NoneFailed(items) /\ (Calm(j) => NonePending(items))
  <2>1. CASE Compared(j)
    BY <1>3, <2>1 DEF Compared, Grows
  <2>2. CASE ~Compared(j)
    <3>1. NoneFailed(old)
      BY <1>1, <2>2 DEF JobGood
    <3>2. \A k \in DOMAIN old : items[k].status = old[k].status
      BY <1>5, <3>1 DEF NoneFailed
    <3> QED BY <1>4, <2>2, <3>1, <3>2 DEF NoneFailed, NonePending, Calm
  <2> QED BY <2>1, <2>2
<1>10. JobsStep
  BY <1>2, <1>3, <1>7, <1>8, <1>9, OneJob
<1>11. r \in Decision /\ DecisionGood(r)
  <2>1. "APPROVED" \in JobStatus \ {"ANALYZING"} /\ {} \in SUBSET Rows
    BY DEF JobStatus, OpenJob
  <2>2. r \in Decision /\ r.job = j /\ r.status = "APPROVED"
    BY <1>1, <2>1, Decided
  <2> HIDE DEF r
  <2> QED BY <1>2, <2>2 DEF DecisionGood
<1> HIDE DEF r
<1> QED BY <1>2, <1>10, <1>11, ManagerStep

\* SaveDecision: RUNNING only what has nothing to execute or was compared.
LEMMA DecisionStep ==
  ASSUME RosterInductive, NEW m \in Managers, SaveDecision(m)
  PROVE  RosterInductive' /\ JobsStep
<1> DEFINE j == manager[m].job
           new == [jobs[j] EXCEPT !.status = manager[m].status]
<1>1. /\ manager[m] \in Decision /\ j \in Idx /\ ByManager
      /\ manager[m].status = "RUNNING" => Calm(j)
  BY DEF RosterInductive, ManagersFine, DecisionGood, SaveDecision
<1>2. Grows
  BY <1>1 DEF ByManager, around, compared, Grows
<1>3. jobs[j] \in Job /\ manager[m].status \in JobStatus \ {"ANALYZING"}
  <2>1. jobs[j] \in Job
    BY <1>1, JobFacts DEF RosterInductive
  <2> QED BY <1>1, <2>1 DEF Decision
<1>4. new \in Job /\ new.status = manager[m].status /\ new.items = jobs[j].items
  BY <1>3 DEF Job
<1>5. jobs' = [jobs EXCEPT ![j] = new] /\ manager' = [manager EXCEPT ![m] = Unoccupied]
  BY DEF SaveDecision
<1> HIDE DEF new, j
<1>6. JobsStep
  BY <1>1, <1>2, <1>3, <1>4, <1>5, OneStatus
<1> QED BY <1>1, <1>5, <1>6, Over, ManagerStep

-----------------------------------------------------------------------------
(* The bridge and the threads that answer it.                              *)

\* What the bridge becomes when a request is over, is refused or is not answered.
LEMMA BridgeAfter ==
  ASSUME BridgeFine
  PROVE  /\ Resting \in Bridge /\ BridgeGood(Resting)
         /\ Working \in Bridge /\ BridgeGood(Working)
         /\ bridge.pc \in {"idle", "send", "report"} =>
              /\ \A h \in Servers : [bridge EXCEPT !.call = {h}] \in Bridge
                                    /\ BridgeGood([bridge EXCEPT !.call = {h}])
              /\ \A b \in {SentAgain} \cup GivenUp : b \in Bridge /\ BridgeGood(b)
         /\ bridge.pc = "report" => \A b \in Refused : b \in Bridge /\ BridgeGood(b)
<1>1. 0 \in 0..MaxJobs /\ <<>> \in Users
  BY RosterBounds, NoUsers
<1>2. bridge \in Bridge /\ BridgeGood(bridge)
  BY DEF BridgeFine
<1>3. Resting \in Bridge /\ BridgeGood(Resting)
  BY <1>1 DEF Resting, Bridge, BridgeGood
<1>4. Working \in Bridge /\ BridgeGood(Working)
  <2>1. /\ Working \in Bridge /\ Working.pc = "work" /\ Working.commands = bridge.commands
        /\ Working.call = {}
    BY <1>1, <1>2 DEF Working, Resting, Bridge
  <2> QED BY <1>2, <2>1 DEF BridgeGood
<1>5. ASSUME NEW S \in SUBSET Servers, S = {} \/ bridge.pc \in {"idle", "send", "report"}
      PROVE  [bridge EXCEPT !.call = S] \in Bridge /\ BridgeGood([bridge EXCEPT !.call = S])
  <2> DEFINE b == [bridge EXCEPT !.call = S]
  <2>1. b \in Bridge /\ b.pc = bridge.pc /\ b.job = bridge.job /\ b.commands = bridge.commands
        /\ b.report = bridge.report /\ b.call = S
    BY <1>2 DEF Bridge
  <2> HIDE DEF b
  <2>2. BridgeGood(b)
    BY <1>2, <1>5, <2>1 DEF BridgeGood
  <2> QED BY <2>1, <2>2 DEF b
<1>6. SentAgain \in Bridge /\ BridgeGood(SentAgain)
  BY <1>5 DEF SentAgain
<1>7. ASSUME bridge.pc = "report", NEW b \in Refused PROVE b \in Bridge /\ BridgeGood(b)
  <2> DEFINE c == bridge.report[1]
             f == [bridge EXCEPT !.call = {}, !.report = <<c, "FAILED_RETRYABLE">>]
  <2>1. bridge.report \in Command \X Results /\ CommandGood(c)
    BY <1>2, <1>7 DEF BridgeGood
  <2>2. <<c, "FAILED_RETRYABLE">> \in Command \X Results /\ <<c, "FAILED_RETRYABLE">>[1] = c
    BY <2>1 DEF Results
  <2>3. f \in Bridge /\ f.pc = "report" /\ f.commands = bridge.commands
        /\ f.call = {} /\ f.report = <<c, "FAILED_RETRYABLE">>
    BY <1>2, <1>7, <2>2 DEF Bridge
  <2>4. BridgeGood(f)
    <3> HIDE DEF f
    <3> QED BY <1>2, <2>1, <2>2, <2>3 DEF BridgeGood
  <2>5. b = f \/ b = Working
    BY DEF Refused
  <2> HIDE DEF f
  <2> QED BY <1>4, <2>3, <2>4, <2>5
<1>8. ASSUME bridge.pc \in {"idle", "send", "report"}, NEW b \in {SentAgain} \cup GivenUp
      PROVE  b \in Bridge /\ BridgeGood(b)
  <2>1. bridge.pc = "idle" => GivenUp = {Resting}
    BY DEF GivenUp
  <2>2. bridge.pc = "send" => GivenUp = {Working}
    BY DEF GivenUp
  <2>3. bridge.pc = "report" => GivenUp = Refused
    BY DEF GivenUp
  <2> QED BY <1>3, <1>4, <1>6, <1>7, <1>8, <2>1, <2>2, <2>3
<1>9. ASSUME bridge.pc \in {"idle", "send", "report"}, NEW h \in Servers
      PROVE  [bridge EXCEPT !.call = {h}] \in Bridge /\ BridgeGood([bridge EXCEPT !.call = {h}])
  BY <1>5, <1>9
<1> QED BY <1>3, <1>4, <1>7, <1>8, <1>9

\* A step of the bridge alone.
LEMMA BridgeOnly ==
  ASSUME RosterInductive, UNCHANGED <<jobs, manager, serving, compared>>,
         AroundFine', Grows, RosterFault \/ UNCHANGED rosterFaults,
         NEW b \in Bridge, BridgeGood(b), bridge' = b
  PROVE  RosterInductive' /\ JobsStep
<1>1. JobsStep
  BY SameJobs
<1>2. ManagersFine' /\ ServersFine' /\ BridgeFine' /\ FaultsFine'
  BY <1>1, Managed, Served, Bridged, Faults
<1> QED BY <1>1, <1>2 DEF RosterInductive, JobsStep

\* A step of a thread, and what the bridge hears of it.
LEMMA ServerStep ==
  ASSUME RosterInductive, JobsStep, UNCHANGED manager, AroundFine',
         RosterFault \/ UNCHANGED rosterFaults,
         NEW h \in Servers, NEW r \in Request, RequestGood(r) \/ RequestGood(r)',
         serving' = [serving EXCEPT ![h] = r],
         NEW b \in Bridge, BridgeGood(b), bridge' = b
  PROVE  RosterInductive' /\ JobsStep
<1>1. ManagersFine' /\ ServersFine' /\ BridgeFine' /\ FaultsFine'
  BY Managed, Served, Bridged, Faults
<1> QED BY <1>1 DEF RosterInductive, JobsStep

\* A thread that is free.
LEMMA FreeGood == Free \in Request /\ RequestGood(Free)
<1>1. 0 \in 0..MaxJobs
  BY RosterBounds
<1>2. NoAnalysis \in Analysis /\ NoAnalysis.items = <<>>
  BY NoUsers DEF NoAnalysis, Analysis, Versions
<1>3. "STALE" \in JobStatus /\ "SUCCEEDED" \in Results
  BY DEF JobStatus, OpenJob, Results
<1>4. /\ Free \in Request /\ Free.pc = "free" /\ Free.commands = {} /\ Free.found.items = <<>>
  BY <1>1, <1>2, <1>3, NoUsers DEF Free, Request, Serving
<1>5. AnalysedGood(<<>>)
  BY NoUsers DEF AnalysedGood
<1> QED BY <1>4, <1>5 DEF RequestGood

\* A thread's request, and what a step leaves alone.
LEMMA Thread ==
  ASSUME RosterInductive, NEW h \in Servers
  PROVE  serving[h] \in Request /\ RequestGood(serving[h])
BY DEF RosterInductive, ServersFine

\* A step that forgets nothing, and may change the jobs.
LEMMA Untouched ==
  ASSUME RosterInductive, UNCHANGED <<around, compared>>
  PROVE  Grows /\ AroundFine' /\ (jobs' = jobs => JobsStep)
<1>1. Grows
  BY DEF around, compared, Grows
<1>2. AroundFine'
  BY AroundStays
<1> QED BY <1>1, <1>2, SameJobs

\* A thread goes on, and the bridge waits.
LEMMA GoesOn ==
  ASSUME RosterInductive, JobsStep, UNCHANGED <<manager, bridge, rosterFaults>>, AroundFine',
         NEW h \in Servers, NEW r \in Request, RequestGood(r) \/ RequestGood(r)',
         serving' = [serving EXCEPT ![h] = r]
  PROVE  RosterInductive' /\ JobsStep
<1>1. bridge \in Bridge /\ BridgeGood(bridge) /\ bridge' = bridge
  BY DEF RosterInductive, BridgeFine
<1> QED BY <1>1, ServerStep

\* A thread takes a request of the bridge.
LEMMA Taken ==
  ASSUME RosterInductive, JobsStep, UNCHANGED <<manager, rosterFaults>>, AroundFine',
         NEW h \in Servers, NEW r \in Request, RequestGood(r) \/ RequestGood(r)', Takes(h, r),
         bridge.pc \in {"idle", "send", "report"}
  PROVE  RosterInductive' /\ JobsStep
<1> DEFINE b == [bridge EXCEPT !.call = {h}]
<1>1. b \in Bridge /\ BridgeGood(b)
  BY BridgeAfter DEF RosterInductive
<1>2. serving' = [serving EXCEPT ![h] = r] /\ bridge' = b
  BY DEF Takes
<1> HIDE DEF b
<1> QED BY <1>1, <1>2, ServerStep

\* A thread answers.
LEMMA Answered ==
  ASSUME RosterInductive, JobsStep, UNCHANGED <<manager, rosterFaults>>, AroundFine',
         NEW h \in Servers, NEW heard \in Bridge, BridgeGood(heard), Answers(h, heard)
  PROVE  RosterInductive' /\ JobsStep
<1>1. bridge \in Bridge /\ BridgeGood(bridge)
  BY DEF RosterInductive, BridgeFine
<1>2. serving' = [serving EXCEPT ![h] = Free] /\ bridge' \in {heard, bridge}
  BY DEF Answers
<1>3. PICK b \in Bridge : BridgeGood(b) /\ bridge' = b
  BY <1>1, <1>2
<1> QED BY <1>2, <1>3, FreeGood, ServerStep

\* What the bridge is told in the answer to its heartbeat.
LEMMA ToldGood ==
  ASSUME BridgeFine, NEW first \in Idx, first \in 0..MaxJobs, NEW commands \in SUBSET Command,
         \A c \in commands : CommandGood(c)
  PROVE  Told(first, commands) \in Bridge /\ BridgeGood(Told(first, commands))
<1> DEFINE b == Told(first, commands)
<1>1. Resting \in Bridge /\ Resting.call = {}
  BY BridgeAfter DEF Resting
<1>2. b \in Bridge /\ b.pc = "read" /\ b.job = first /\ b.commands = commands /\ b.call = {}
  BY <1>1 DEF Told, Bridge
<1> HIDE DEF b
<1>3. BridgeGood(b)
  BY <1>2 DEF BridgeGood
<1> QED BY <1>2, <1>3 DEF b

-----------------------------------------------------------------------------
(* The heartbeat.                                                          *)

\* The jobs are read; nothing, or the RUNNING one, is to be handed out.
LEMMA HeartbeatStep ==
  ASSUME RosterInductive, NEW h \in Servers, Heartbeat(h)
  PROVE  RosterInductive' /\ JobsStep
<1> DEFINE first == FirstOf(OpenJob)
           j == CommandJob
           r == [Free EXCEPT !.pc = "list", !.first = first, !.job = j]
<1>1. /\ JobsFine /\ BridgeFine /\ jobs \in Seq(Job) /\ bridge.pc = "idle" /\ first # 0
      /\ UNCHANGED <<around, jobs, manager, rosterFaults, compared>>
  BY DEF RosterInductive, JobsFine, Heartbeat
<1>2. Grows /\ AroundFine' /\ JobsStep
  BY <1>1, Untouched
<1>3. first \in Idx /\ first \in 0..MaxJobs
  <2>1. first \in Idx
    BY <1>1, FirstOfFinds
  <2> QED BY <1>1, <2>1, RosterBounds DEF JobsFine, Idx
<1>4. CASE j = 0
  <2>1. bridge' = Told(first, {}) /\ UNCHANGED serving
    BY <1>4 DEF Heartbeat
  <2>2. Told(first, {}) \in Bridge /\ BridgeGood(Told(first, {}))
    BY <1>1, <1>3, ToldGood
  <2> QED BY <1>1, <1>2, <2>1, <2>2, BridgeOnly DEF compared
<1>5. CASE j # 0
  <2>1. j \in Idx /\ jobs[j].status \in {"RUNNING"}
    BY <1>1, <1>5, FirstOfFinds DEF CommandJob
  <2>2. j \in 0..MaxJobs /\ Calm(j)
    BY <1>1, <2>1, JobFacts, RosterBounds DEF JobGood
  <2>3. Takes(h, r)
    BY <1>5 DEF Heartbeat
  <2> HIDE DEF j, first
  <2>4. /\ r \in Request /\ r.pc = "list" /\ r.first = first /\ r.job = j /\ r.commands = {}
        /\ r.found = Free.found
    BY <1>3, <2>2, FreeGood DEF Request, Serving, Free
  <2> HIDE DEF r
  <2>5. RequestGood(r)
    BY <1>3, <2>1, <2>2, <2>4, FreeGood DEF RequestGood
  <2> QED BY <1>1, <1>2, <2>3, <2>4, <2>5, Taken
<1> QED BY <1>4, <1>5

\* The items to hand out are listed: of a job that was compared, when there are any.
LEMMA ListStep ==
  ASSUME RosterInductive, NEW h \in Servers, ListItems(h)
  PROVE  RosterInductive' /\ JobsStep
<1> DEFINE j == serving[h].job
           old == jobs[j].items
           rows == [k \in Handed(j) |-> old[k].status]
           orders == {Order(j, k) : k \in Handed(j)}
           r == [serving[h] EXCEPT !.pc = "hand", !.rows = rows, !.commands = orders]
<1>1. /\ serving[h] \in Request /\ RequestGood(serving[h]) /\ serving[h].pc = "list"
      /\ UNCHANGED <<around, jobs, manager, bridge, rosterFaults, compared>>
      /\ serving' = [serving EXCEPT ![h] = r]
  BY Thread DEF ListItems
<1>2. JobsStep /\ AroundFine'
  BY <1>1, Untouched
<1>3. j \in Idx /\ serving[h].first \in Idx /\ Calm(j) /\ AnalysedGood(serving[h].found.items)
  BY <1>1 DEF RequestGood
<1>4. jobs[j] \in Job /\ old \in Items /\ JobGood(j) /\ j \in 1..MaxJobs
  BY <1>3, JobFacts DEF RosterInductive
<1>5. ASSUME NEW k \in Handed(j)
      PROVE  k \in Rows /\ old[k] \in Item /\ old[k].status = "PENDING" /\ old[k].action \in Executed
             /\ k \in DOMAIN old /\ Compared(j)
  <2>1. k \in DOMAIN old /\ old[k].status = "PENDING" /\ old[k].action \in Executed
    BY <1>5 DEF Handed, Waiting
  <2>2. Compared(j)
    BY <1>3, <2>1 DEF Calm, NonePending
  <2> QED BY <1>4, <2>1, <2>2, ItemsFacts
<1>6. rows \in Reads /\ DOMAIN rows = Handed(j) /\ \A k \in DOMAIN rows : rows[k] # "SUCCEEDED"
  <2>1. rows \in [Handed(j) -> ItemStatus]
    BY <1>5 DEF ItemStatus
  <2>2. Handed(j) \in SUBSET Rows
    BY <1>5
  <2> QED BY <1>5, <2>1, <2>2 DEF Reads
<1>7. ASSUME NEW k \in Handed(j) PROVE Order(j, k) \in Command /\ CommandGood(Order(j, k))
  <2>1. old[k].title \in Titles /\ old[k].named \in BOOLEAN
    BY <1>5 DEF Item
  <2>2. Order(j, k) \in Command
    BY <1>4, <1>5, <2>1 DEF Order, Command
  <2>3. Order(j, k).job = j /\ Order(j, k).row = k
    BY DEF Order
  <2>4. k[1] \in Pupils \cup mapped
    BY <1>4, <1>5 DEF JobGood, ItemsGood
  <2> QED BY <1>3, <1>5, <2>2, <2>3, <2>4 DEF CommandGood
<1>8. orders \in SUBSET Command /\ \A c \in orders : CommandGood(c)
  BY <1>7
<1> HIDE DEF rows, orders
<1>9. /\ r \in Request /\ r.pc = "hand" /\ r.job = j /\ r.first = serving[h].first
      /\ r.rows = rows /\ r.commands = orders /\ r.found = serving[h].found
  BY <1>1, <1>6, <1>8 DEF Request, Serving
<1>10. DOMAIN rows # {} => Compared(j)
  BY <1>5, <1>6
<1> HIDE DEF r, j
<1>11. RequestGood(r)
  BY <1>3, <1>6, <1>8, <1>9, <1>10 DEF RequestGood
<1> QED BY <1>1, <1>2, <1>9, <1>11, GoesOn

\* An item is saved RUNNING; when it succeeded meanwhile, the thread overtook it.
LEMMA HandOutStep ==
  ASSUME RosterInductive, NEW h \in Servers, NEW k \in DOMAIN serving[h].rows, HandOut(h, k)
  PROVE  RosterInductive' /\ JobsStep
<1> DEFINE j == serving[h].job
           item == [jobs[j].items[k] EXCEPT !.status = "RUNNING"]
           rows == Without(serving[h].rows, k)
           r == [serving[h] EXCEPT !.rows = rows]
<1>1. /\ serving[h] \in Request /\ RequestGood(serving[h]) /\ serving[h].pc = "hand"
      /\ UNCHANGED <<around, manager, bridge, rosterFaults, compared>> /\ k \in DOMAIN jobs[j].items
      /\ serving' = [serving EXCEPT ![h] = r]
      /\ jobs' = [jobs EXCEPT ![j] = [jobs[j] EXCEPT !.items = [jobs[j].items EXCEPT ![k] = item]]]
  BY Thread DEF HandOut
<1>2. Grows /\ AroundFine'
  BY <1>1, Untouched
<1>3. /\ j \in Idx /\ Compared(j) /\ serving[h].rows[k] # "SUCCEEDED" /\ serving[h].first \in Idx
      /\ \A x \in DOMAIN serving[h].rows : serving[h].rows[x] # "SUCCEEDED"
  BY <1>1 DEF RequestGood
<1>4. jobs[j].items \in Items
  BY <1>3, JobFacts DEF RosterInductive
<1>5. item \in Item /\ item.action = jobs[j].items[k].action
  <2>1. jobs[j].items[k] \in Item
    BY <1>1, <1>4, ItemsFacts
  <2> QED BY <2>1 DEF Item, ItemStatus
<1>6. Overtaken(j, k)
  BY <1>1, <1>3 DEF Overtaken
<1> HIDE DEF item
<1>7. JobsStep
  BY <1>1, <1>2, <1>3, <1>5, <1>6, OneItem
<1>8. /\ rows \in Reads /\ DOMAIN rows \subseteq DOMAIN serving[h].rows
      /\ \A x \in DOMAIN rows : rows[x] = serving[h].rows[x]
  <2>1. PICK S \in SUBSET Rows : serving[h].rows \in [S -> ItemStatus]
    BY <1>1 DEF Request, Reads
  <2>2. rows \in [S \ {k} -> ItemStatus] /\ S \ {k} \in SUBSET Rows
    BY <2>1 DEF Without
  <2> QED BY <2>1, <2>2 DEF Reads, Without
<1> HIDE DEF rows
<1>9. /\ r \in Request /\ r.pc = "hand" /\ r.job = j /\ r.first = serving[h].first
      /\ r.rows = rows /\ r.commands = serving[h].commands /\ r.found = serving[h].found
  BY <1>1, <1>8 DEF Request
<1> HIDE DEF r, j
<1>10. RequestGood(r)
  BY <1>1, <1>3, <1>8, <1>9 DEF RequestGood
<1> QED BY <1>1, <1>2, <1>7, <1>9, <1>10, GoesOn

\* The bridge is told its work.
LEMMA HeartbeatAnswer ==
  ASSUME RosterInductive, NEW h \in Servers, HeartbeatAnswered(h)
  PROVE  RosterInductive' /\ JobsStep
<1> DEFINE b == Told(serving[h].first, serving[h].commands)
<1>1. /\ serving[h] \in Request /\ RequestGood(serving[h]) /\ serving[h].pc = "hand" /\ Answers(h, b)
      /\ UNCHANGED <<around, jobs, manager, rosterFaults, compared>> /\ BridgeFine
  BY Thread DEF HeartbeatAnswered, RosterInductive
<1>2. JobsStep /\ AroundFine'
  BY <1>1, Untouched
<1>3. /\ serving[h].first \in Idx /\ serving[h].first \in 0..MaxJobs
      /\ serving[h].commands \in SUBSET Command /\ \A c \in serving[h].commands : CommandGood(c)
  BY <1>1 DEF RequestGood, Request
<1>4. b \in Bridge /\ BridgeGood(b)
  BY <1>1, <1>3, ToldGood
<1> HIDE DEF b
<1> QED BY <1>1, <1>2, <1>4, Answered

\* No answer: the request is sent again or given up; a thread that raises is free.
LEMMA UnansweredStep ==
  ASSUME RosterInductive, Unanswered \/ \E h \in Servers : Breaks(h)
  PROVE  RosterInductive' /\ JobsStep
<1>1. BridgeFine /\ bridge \in Bridge /\ BridgeGood(bridge)
  BY DEF RosterInductive, BridgeFine
<1>2. bridge.call # {} => bridge.pc \in {"idle", "send", "report"}
  BY <1>1 DEF BridgeGood
<1>3. CASE Unanswered
  <2>1. UNCHANGED <<around, jobs, manager, serving, compared>> /\ RosterFault
    BY <1>3 DEF Unanswered
  <2>2. PICK b \in {SentAgain} \cup GivenUp : bridge' = b
    BY <1>3 DEF Unanswered
  <2>3. bridge.pc \in {"idle", "send", "report"}
    BY <1>2, <1>3 DEF Unanswered
  <2>4. b \in Bridge /\ BridgeGood(b)
    BY <1>1, <2>2, <2>3, BridgeAfter
  <2>5. Grows /\ AroundFine'
    BY <2>1, Untouched
  <2> QED BY <2>1, <2>2, <2>4, <2>5, BridgeOnly
<1>4. ASSUME NEW h \in Servers, Breaks(h) PROVE RosterInductive' /\ JobsStep
  <2>1. /\ UNCHANGED <<around, jobs, manager, compared>> /\ serving' = [serving EXCEPT ![h] = Free]
        /\ RosterFault \/ UNCHANGED rosterFaults
    BY <1>4 DEF Breaks
  <2>2. PICK b \in Bridge : BridgeGood(b) /\ bridge' = b
    <3>1. CASE bridge.call = {h}
      <4>1. bridge' \in {SentAgain} \cup GivenUp
        BY <1>4, <3>1 DEF Breaks
      <4>2. \A b \in {SentAgain} \cup GivenUp : b \in Bridge /\ BridgeGood(b)
        BY <1>1, <1>2, <3>1, BridgeAfter
      <4> QED BY <4>1, <4>2
    <3>2. CASE bridge.call # {h}
      BY <1>1, <1>4, <3>2 DEF Breaks
    <3> QED BY <3>1, <3>2
  <2>3. JobsStep /\ AroundFine'
    BY <2>1, Untouched
  <2> QED BY <2>1, <2>2, <2>3, FreeGood, ServerStep
<1> QED BY <1>3, <1>4

-----------------------------------------------------------------------------
(* The reading of the device.                                              *)

\* read_users, or the device does not answer.
LEMMA ReadUsersStep ==
  ASSUME RosterInductive, ReadUsers
  PROVE  RosterInductive' /\ JobsStep
<1>1. /\ UNCHANGED <<around, jobs, manager, serving, compared>> /\ users \in Users
      /\ BridgeFine /\ bridge \in Bridge /\ BridgeGood(bridge) /\ bridge.pc = "read"
  BY DEF RosterInductive, AroundFine, BridgeFine, ReadUsers
<1>2. Grows /\ AroundFine'
  BY <1>1, Untouched
<1>3. CASE RosterFault /\ bridge' = Working
  BY <1>1, <1>2, <1>3, BridgeAfter, BridgeOnly
<1>4. CASE bridge' = [bridge EXCEPT !.pc = "send", !.seen = users] /\ UNCHANGED rosterFaults
  <2> DEFINE b == [bridge EXCEPT !.pc = "send", !.seen = users]
  <2>1. b \in Bridge /\ b.pc = "send" /\ b.job = bridge.job /\ b.commands = bridge.commands
    BY <1>1 DEF Bridge
  <2> HIDE DEF b
  <2>2. BridgeGood(b)
    BY <1>1, <2>1 DEF BridgeGood
  <2> QED BY <1>1, <1>2, <1>4, <2>1, <2>2, BridgeOnly DEF b
<1> QED BY <1>3, <1>4 DEF ReadUsers

\* The job is read: an approved one is compared with the device, and saved RUNNING only then.
LEMMA ReadingStep ==
  ASSUME RosterInductive, NEW h \in Servers, Reading(h)
  PROVE  RosterInductive' /\ JobsStep
<1> DEFINE j == bridge.job
           same == bridge.seen = jobs[j].device
           outcome == IF same THEN "RUNNING" ELSE "STALE"
           r == [Free EXCEPT !.pc = "job", !.job = j, !.status = outcome]
           q == [Free EXCEPT !.pc = "compare", !.job = j, !.status = jobs[j].status,
                             !.found.device = bridge.seen]
<1>1. /\ UNCHANGED <<around, jobs, manager, rosterFaults, reanalysed>> /\ bridge.pc = "send"
      /\ JobsFine /\ BridgeFine /\ bridge \in Bridge /\ BridgeGood(bridge) /\ AroundFine'
  BY AroundStays DEF RosterInductive, BridgeFine, Reading
<1>2. j \in Idx /\ bridge.seen \in Users
  BY <1>1 DEF BridgeGood, Bridge
<1>3. j \in 0..MaxJobs /\ jobs[j].status \in JobStatus
  BY <1>1, <1>2, JobFacts, RosterBounds
<1>4. CASE jobs[j].status = "APPROVED"
  <2>1. Takes(h, r) /\ confirmed' = IF same THEN confirmed \cup {j} ELSE confirmed
    BY <1>4 DEF Reading
  <2>2. Grows
    BY <1>1, <2>1 DEF around, Grows
  <2>3. JobsStep
    BY <1>1, <2>2, SameJobs
  <2>4. outcome = "RUNNING" => j \in confirmed'
    BY <2>1
  <2>5. outcome \in {"RUNNING", "STALE"} /\ Idx' = Idx /\ mapped' = mapped
    BY <1>1 DEF Idx, around
  <2> HIDE DEF outcome, j
  <2>6. r \in Request /\ r.pc = "job" /\ r.job = j /\ r.status = outcome /\ r.commands = {}
        /\ r.found = Free.found
    BY <1>3, <2>5, FreeGood DEF Request, Serving, JobStatus, OpenJob, Free
  <2> HIDE DEF r
  <2>7. AnalysedGood(r.found.items)
    BY <2>6, FreeGood DEF RequestGood
  <2>8. PICK x \in Request : /\ x = r /\ x.pc = "job" /\ x.commands = {} /\ x.job \in Idx'
                             /\ x.status \in {"RUNNING", "STALE"}
                             /\ x.status = "RUNNING" => x.job \in confirmed'
                             /\ AnalysedGood(x.found.items)
    BY <1>2, <2>4, <2>5, <2>6, <2>7
  <2>9. AnalysedGood(x.found.items)'
    BY <2>5, <2>8 DEF AnalysedGood
  <2>10. RequestGood(x)'
    BY <2>8, <2>9 DEF RequestGood, Compared
  <2>11. Takes(h, x)
    BY <2>1, <2>8
  <2> QED BY <1>1, <2>3, <2>8, <2>10, <2>11, Taken
<1>5. CASE jobs[j].status # "APPROVED"
  <2>1. UNCHANGED confirmed
    BY <1>5 DEF Reading
  <2>2. JobsStep /\ Grows
    BY <1>1, <2>1, Untouched DEF compared
  <2>3. CASE jobs[j].status \in {"RUNNING", "ANALYZING"}
    <3>1. Takes(h, q)
      BY <1>5, <2>3 DEF Reading
    <3> HIDE DEF j
    <3>2. Free \in Request /\ Free.found \in Analysis /\ Free.commands = {}
      BY FreeGood DEF Request, Free
    <3> DEFINE f == [Free.found EXCEPT !.device = bridge.seen]
    <3>3. f \in Analysis /\ f.items = Free.found.items
      BY <1>2, <3>2 DEF Analysis
    <3>4. q = [Free EXCEPT !.pc = "compare", !.job = j, !.status = jobs[j].status, !.found = f]
      BY <3>2 DEF Request
    <3> HIDE DEF f, q
    <3>5. q \in Request /\ q.pc = "compare" /\ q.job = j /\ q.commands = {} /\ q.found = f
      BY <1>3, <3>2, <3>3, <3>4 DEF Request, Serving
    <3>6. RequestGood(q)
      BY <1>2, <3>3, <3>5, FreeGood DEF RequestGood
    <3> QED BY <1>1, <2>2, <3>1, <3>5, <3>6, Taken
  <2>4. CASE jobs[j].status \notin {"RUNNING", "ANALYZING"}
    <3>1. bridge' = Working /\ UNCHANGED serving
      BY <1>5, <2>4 DEF Reading
    <3> QED BY <1>1, <2>1, <2>2, <3>1, BridgeAfter, BridgeOnly DEF compared
  <2> QED BY <2>3, <2>4
<1> QED BY <1>4, <1>5

\* An analysis asks for users of our students, and removes only what was mapped by hand.
LEMMA CompareGood ==
  ASSUME AroundFine, NEW seen \in Users
  PROVE  \A version \in StoredVersions : Found(version, seen) \in Analysis
                                         /\ AnalysedGood(Found(version, seen).items)
<1> DEFINE items == [i \in DOMAIN Compare(seen) |-> ItemFor(i, Compare(seen)[i], seen)]
<1>1. /\ pupils \in [Pupils -> [state: Lifecycle, title: Titles]]
      /\ \A i \in Ids : identity[i] \in Pupils => i \in mapped
  BY DEF AroundFine
<1>2. Desired \subseteq Pupils /\ \A s \in Desired : pupils[s].title \in Titles
  BY <1>1 DEF Desired
<1>3. DOMAIN Compare(seen) = DOMAIN seen \cup Desired /\ Desired \subseteq Ids
  BY <1>2 DEF Compare, Ids
<1>4. DOMAIN seen \subseteq Ids /\ \A i \in DOMAIN seen : seen[i] \in Titles
  BY UsersFacts
<1>5. ASSUME NEW i \in DOMAIN Compare(seen)
      PROVE  /\ items[i] \in Item /\ items[i].status \in {"PENDING", "SKIPPED"}
             /\ items[i].action \in Executed => i \in Pupils \cup mapped
  <2> DEFINE a == ActionFor(i, seen)
             title == IF i \in Desired THEN pupils[i].title ELSE seen[i]
             thePupil == CASE a = "CONFLICT" -> "none" [] a = "DELETE" -> identity[i] [] OTHER -> i
             status == IF a \in {"MATCHED", "CONFLICT"} THEN "SKIPPED" ELSE "PENDING"
  <2>1. Compare(seen)[i] = a /\ i \in Ids /\ items[i] = ItemFor(i, a, seen)
    BY <1>3, <1>4 DEF Compare
  <2>2. \/ a \in {"CREATE", "MATCHED", "UPDATE"} /\ i \in Desired
        \/ a = "DELETE" /\ identity[i] \in Pupils
        \/ a = "CONFLICT"
    BY <1>3 DEF ActionFor, Unlisted
  <2> HIDE DEF a, items
  <2>3. title \in Titles
    BY <1>2, <1>3, <1>4
  <2>4. thePupil \in Pupils \cup {"none"}
    BY <1>2, <2>2
  <2>5. items[i] = [action |-> a, pupil |-> thePupil, title |-> title, status |-> status, named |-> FALSE]
    BY <2>1 DEF ItemFor
  <2>6. a \in Actions /\ status \in {"SKIPPED", "PENDING"}
    BY <2>2 DEF Actions, Executed
  <2> HIDE DEF title, thePupil, status
  <2>7. items[i] \in Item /\ items[i].action = a /\ items[i].status = status
    BY <2>3, <2>4, <2>5, <2>6 DEF Item, ItemStatus
  <2>8. a \in Executed => i \in Pupils \cup mapped
    BY <1>1, <1>2, <2>1, <2>2 DEF Executed
  <2> QED BY <2>6, <2>7, <2>8
<1>6. DOMAIN items = DOMAIN Compare(seen) /\ DOMAIN Compare(seen) \in SUBSET Ids
  BY <1>3, <1>4
<1> HIDE DEF items
<1>7. items \in Analysed
  <2>1. items \in [DOMAIN Compare(seen) -> Item]
    BY <1>5 DEF items
  <2> QED BY <1>6, <2>1 DEF Analysed
<1>8. AnalysedGood(items)
  BY <1>5, <1>6 DEF AnalysedGood
<1>9. ASSUME NEW version \in StoredVersions
      PROVE  Found(version, seen) \in Analysis /\ AnalysedGood(Found(version, seen).items)
  <2>1. version \in Versions
    <3>1. PICK id \in [Desired -> Ids] : version = {<<id[s], pupils[s].title>> : s \in Desired}
      BY <1>9 DEF StoredVersions
    <3> QED BY <1>2, <3>1 DEF Versions
  <2>2. Found(version, seen) = [roster |-> version, device |-> seen, items |-> items]
    BY DEF Found, items
  <2> QED BY <1>7, <1>8, <2>1, <2>2 DEF Analysis
<1> QED BY <1>9

\* compare_device_roster: the job is COMPLETED, the answer is given, or the analysis goes on.
LEMMA CompareStep ==
  ASSUME RosterInductive, NEW h \in Servers, CompareReading(h)
  PROVE  RosterInductive' /\ JobsStep
<1> DEFINE seen == serving[h].found.device
           done == [serving[h] EXCEPT !.pc = "job", !.status = "COMPLETED"]
           clear(version) == [serving[h] EXCEPT !.pc = "clear", !.found = Found(version, seen)]
<1>1. serving[h] \in Request /\ RequestGood(serving[h]) /\ AroundFine /\ BridgeFine
  BY Thread DEF RosterInductive
<1>2. UNCHANGED <<around, jobs, manager, rosterFaults, compared>>
  BY Zenon DEF CompareReading
<1>3. JobsStep /\ AroundFine'
  BY <1>2, Untouched
<1>4. /\ serving[h].pc = "compare" => serving[h].job \in Idx
      /\ \A c \in serving[h].commands : CommandGood(c)
      /\ AnalysedGood(serving[h].found.items)
  BY <1>1 DEF RequestGood
<1>5. serving[h].pc = "compare"
  BY Zenon DEF CompareReading
<1>6. \/ UNCHANGED bridge /\ serving' = [serving EXCEPT ![h] = done]
      \/ Answers(h, Working)
      \/ UNCHANGED bridge /\ \E version \in StoredVersions : serving' = [serving EXCEPT ![h] = clear(version)]
  BY Zenon DEF CompareReading
<1>7. CASE UNCHANGED bridge /\ serving' = [serving EXCEPT ![h] = done]
  <2>1. /\ done \in Request /\ done.pc = "job" /\ done.status = "COMPLETED"
        /\ done.job = serving[h].job
        /\ done.commands = serving[h].commands /\ done.found = serving[h].found
    BY <1>1 DEF Request, Serving, JobStatus, OpenJob
  <2> HIDE DEF done
  <2>2. RequestGood(done)
    BY <1>4, <1>5, <2>1 DEF RequestGood
  <2> QED BY <1>2, <1>3, <1>7, <2>1, <2>2, GoesOn
<1>8. CASE Answers(h, Working)
  BY <1>1, <1>2, <1>3, <1>8, BridgeAfter, Answered
<1>9. ASSUME NEW version \in StoredVersions, UNCHANGED bridge, serving' = [serving EXCEPT ![h] = clear(version)]
      PROVE  RosterInductive' /\ JobsStep
  <2> DEFINE r == clear(version)
  <2>1. seen \in Users
    BY <1>1 DEF Request, Analysis
  <2>2. Found(version, seen) \in Analysis /\ AnalysedGood(Found(version, seen).items)
    BY <1>1, <2>1, CompareGood
  <2>3. /\ r \in Request /\ r.pc = "clear" /\ r.job = serving[h].job
        /\ r.commands = serving[h].commands /\ r.found = Found(version, seen)
    BY <1>1, <2>2 DEF Request, Serving
  <2> HIDE DEF r
  <2>4. serving' = [serving EXCEPT ![h] = r]
    BY <1>9 DEF r
  <2>5. RequestGood(r)
    BY <1>4, <1>5, <2>2, <2>3 DEF RequestGood
  <2> QED BY <1>2, <1>3, <1>9, <2>3, <2>4, <2>5, GoesOn
<1> HIDE DEF done, clear
<1> QED BY <1>6, <1>7, <1>8, <1>9

\* The items of the job are cleared.
LEMMA ClearStep ==
  ASSUME RosterInductive, NEW h \in Servers, ClearItems(h)
  PROVE  RosterInductive' /\ JobsStep
<1>1. /\ serving[h] \in Request /\ RequestGood(serving[h]) /\ serving[h].pc = "clear"
      /\ UNCHANGED <<around, manager, bridge, rosterFaults, compared>>
      /\ jobs' = [jobs EXCEPT ![serving[h].job] = [jobs[serving[h].job] EXCEPT !.items = <<>>]]
  BY Thread DEF ClearItems
<1>2. Grows /\ AroundFine'
  BY <1>1, Untouched
<1>3. PICK j \in Idx : /\ j = serving[h].job /\ AnalysedGood(serving[h].found.items)
                       /\ \A c \in serving[h].commands : CommandGood(c)
  BY <1>1 DEF RequestGood
<1> DEFINE new == [jobs[j] EXCEPT !.items = <<>>]
           r == [serving[h] EXCEPT !.pc = "fill"]
<1>4. jobs[j] \in Job /\ JobGood(j)
  BY JobFacts DEF RosterInductive
<1>5. new \in Job /\ new.status = jobs[j].status /\ new.items = <<>>
  BY <1>4, NoUsers DEF Job
<1>6. \A k : Overtaken(j, k)
  BY <1>1, <1>3 DEF Overtaken
<1>7. ItemsStay(j, new.items) /\ ItemsGood(new.items, mapped') /\ NoneFailed(new.items)
      /\ NonePending(new.items)
  BY <1>5, <1>6, NoUsers DEF ItemsStay, ItemsGood, NoneFailed, NonePending
<1>8. jobs' = [jobs EXCEPT ![j] = new]
  BY <1>1, <1>3
<1> HIDE DEF new
<1>9. Compared(j)' \/ (new.status = "RUNNING" \/ Calm(j) => new.status # "ANALYZING")
  BY <1>2, <1>5 DEF Calm, Compared, Grows
<1>10. JobsStep
  BY <1>2, <1>5, <1>7, <1>8, <1>9, OneJob
<1>11. /\ r \in Request /\ r.pc = "fill" /\ r.job = j
       /\ r.commands = serving[h].commands /\ r.found = serving[h].found
  BY <1>1, <1>3 DEF Request, Serving
<1>12. serving' = [serving EXCEPT ![h] = r]
  BY DEF ClearItems
<1> HIDE DEF r
<1>13. RequestGood(r)
  BY <1>3, <1>11 DEF RequestGood
<1> QED BY <1>1, <1>2, <1>10, <1>11, <1>12, <1>13, GoesOn

\* The items of the analysis are inserted beside what the job holds.
LEMMA FillStep ==
  ASSUME RosterInductive, NEW h \in Servers, FillItems(h)
  PROVE  RosterInductive' /\ JobsStep
<1>1. serving[h] \in Request /\ RequestGood(serving[h]) /\ serving[h].pc = "fill"
  BY Thread DEF FillItems
<1>2. UNCHANGED <<around, manager, bridge, rosterFaults, confirmed>>
  BY DEF FillItems
<1>3. PICK j \in Idx : /\ j = serving[h].job /\ AnalysedGood(serving[h].found.items)
                       /\ \A c \in serving[h].commands : CommandGood(c)
  BY <1>1 DEF RequestGood
<1> DEFINE old == jobs[j].items
           given == serving[h].found.items
           n == jobs[j].made + 1
           items == Filled(old, n, given)
           new == [jobs[j] EXCEPT !.items = items, !.made = n]
           found == [serving[h].found EXCEPT !.items = <<>>]
           r == [serving[h] EXCEPT !.pc = "ready", !.found = found]
<1>4. /\ jobs' = [jobs EXCEPT ![j] = new]
      /\ reanalysed' = IF jobs[j].status = "ANALYZING" THEN reanalysed ELSE reanalysed \cup {j}
      /\ serving' = [serving EXCEPT ![h] = r]
  <2>1. jobs' = [jobs EXCEPT ![j] = new]
    BY <1>3 DEF FillItems
  <2>2. reanalysed' = IF jobs[j].status = "ANALYZING" THEN reanalysed ELSE reanalysed \cup {j}
    BY <1>3 DEF FillItems
  <2>3. serving' = [serving EXCEPT ![h] = r]
    BY <1>1 DEF FillItems, Request
  <2> QED BY <2>1, <2>2, <2>3
<1>5. Grows /\ AroundFine'
  BY <1>2, <1>4, AroundStays DEF around, Grows
<1>6. jobs[j] \in Job /\ JobGood(j) /\ old \in Items /\ n \in Nat
  <2>1. jobs[j] \in Job /\ JobGood(j)
    BY JobFacts DEF RosterInductive
  <2> QED BY <2>1 DEF Job
<1>7. DOMAIN given \subseteq Ids /\ \A i \in DOMAIN given : given[i] \in Item
  BY <1>1 DEF Request, Analysis, Analysed
<1>8. DOMAIN old \subseteq Rows /\ \A k \in DOMAIN old : old[k] \in Item
  BY <1>6, ItemsFacts
<1> HIDE DEF old, given, n
<1>9. ASSUME NEW k \in DOMAIN items
      PROVE  /\ k \in Rows /\ items[k] \in Item
             /\ \/ k \in DOMAIN old /\ items[k] = old[k]
                \/ k[1] \in DOMAIN given /\ items[k] = given[k[1]]
  <2>1. CASE k \in DOMAIN old
    BY <1>8, <2>1 DEF Filled
  <2>2. CASE k \notin DOMAIN old
    <3>1. k \in (DOMAIN given) \X {n}
      BY <2>2 DEF Filled
    <3>2. k[1] \in DOMAIN given /\ k \in Rows
      BY <1>6, <1>7, <3>1 DEF Rows
    <3>3. items[k] = given[k[1]]
      BY <2>2, <3>1 DEF Filled
    <3> QED BY <1>7, <3>2, <3>3
  <2> QED BY <2>1, <2>2
<1>10. \A k \in DOMAIN old : k \in DOMAIN items /\ items[k] = old[k]
  BY DEF Filled
<1>11. items \in Items
  <2>1. items = [k \in DOMAIN items |-> items[k]]
    BY DEF Filled
  <2> DEFINE S == DOMAIN items
  <2>2. S \in SUBSET Rows /\ \A k \in S : items[k] \in Item
    BY <1>9
  <2> HIDE DEF items, S
  <2>3. items \in [S -> Item]
    BY <2>1, <2>2 DEF S
  <2> QED BY <2>2, <2>3, ItemsBuilt
<1> HIDE DEF items
<1>12. new \in Job /\ new.status = jobs[j].status /\ new.items = items
  BY <1>6, <1>11 DEF Job
<1> HIDE DEF new
<1>13. ItemsGood(items, mapped')
  <2>1. ItemsGood(old, mapped)
    BY <1>6 DEF JobGood, old
  <2>2. ASSUME NEW k \in DOMAIN items, items[k].action \in Executed PROVE k[1] \in Pupils \cup mapped
    <3>1. CASE k \in DOMAIN old /\ items[k] = old[k]
      BY <2>1, <2>2, <3>1 DEF ItemsGood
    <3>2. CASE k[1] \in DOMAIN given /\ items[k] = given[k[1]]
      BY <1>3, <2>2, <3>2 DEF AnalysedGood, given
    <3> QED BY <1>9, <3>1, <3>2
  <2>3. \A k \in DOMAIN items : items[k].action \in Executed => k[1] \in Pupils \cup mapped
    BY <2>2
  <2> QED BY <1>5, <2>3 DEF ItemsGood, Grows
<1>14. ItemsStay(j, items)
  BY <1>10 DEF ItemsStay, old
<1>15. \/ Compared(j)'
       \/ /\ NoneFailed(items)
          /\ jobs[j].status = "RUNNING" \/ Calm(j) => jobs[j].status # "ANALYZING" /\ NonePending(items)
  <2>1. CASE jobs[j].status # "ANALYZING" \/ Compared(j)
    BY <1>4, <1>5, <2>1 DEF Compared, Grows
  <2>2. CASE jobs[j].status = "ANALYZING" /\ ~Compared(j)
    <3>1. NoneFailed(old)
      BY <1>6, <2>2 DEF JobGood, old
    <3>2. \A k \in DOMAIN items : items[k].status # "FAILED_RETRYABLE"
      BY <1>3, <1>9, <3>1 DEF NoneFailed, AnalysedGood, given
    <3> QED BY <2>2, <3>2 DEF NoneFailed, Calm
  <2> QED BY <2>1, <2>2
<1>16. JobsStep
  BY <1>4, <1>5, <1>12, <1>13, <1>14, <1>15, OneJob
<1>17. found \in Analysis /\ found.items = <<>> /\ AnalysedGood(<<>>)
  BY <1>1, NoUsers DEF Request, Analysis, AnalysedGood
<1> HIDE DEF found
<1>18. /\ r \in Request /\ r.pc = "ready" /\ r.job = j
       /\ r.commands = serving[h].commands /\ r.found = found
  BY <1>1, <1>3, <1>17 DEF Request, Serving
<1> HIDE DEF r
<1>19. RequestGood(r)
  BY <1>3, <1>17, <1>18 DEF RequestGood
<1> QED BY <1>2, <1>4, <1>5, <1>16, <1>18, <1>19, GoesOn

\* The job is saved: reviewed next after an analysis, else as it was decided.
LEMMA SaveSteps ==
  ASSUME RosterInductive, NEW h \in Servers, SaveAnalysis(h) \/ SaveJob(h)
  PROVE  RosterInductive' /\ JobsStep
<1>1. /\ serving[h] \in Request /\ RequestGood(serving[h]) /\ BridgeFine
      /\ UNCHANGED <<around, manager, rosterFaults, compared>> /\ Answers(h, Working)
  BY Thread DEF SaveAnalysis, SaveJob, RosterInductive
<1>2. Grows /\ AroundFine'
  BY <1>1, Untouched
<1>3. serving[h].pc # "free"
  BY DEF SaveAnalysis, SaveJob
<1>4. PICK j \in Idx : j = serving[h].job
  BY <1>1, <1>3 DEF RequestGood
<1>5. jobs[j] \in Job
  BY JobFacts DEF RosterInductive
<1>6. JobsStep
  <2>1. CASE SaveAnalysis(h)
    <3> DEFINE f == serving[h].found
               new == [jobs[j] EXCEPT !.status = "READY_FOR_REVIEW", !.roster = f.roster, !.device = f.device]
    <3>1. jobs' = [jobs EXCEPT ![j] = new]
      BY <1>4, <2>1 DEF SaveAnalysis
    <3>2. f.roster \in Versions /\ f.device \in Users
      BY <1>1 DEF Request, Analysis
    <3> HIDE DEF f
    <3>3. new \in Job /\ new.status = "READY_FOR_REVIEW" /\ new.items = jobs[j].items
      BY <1>5, <3>2 DEF Job, JobStatus
    <3> HIDE DEF new
    <3> QED BY <1>2, <3>1, <3>3, OneStatus
  <2>2. CASE SaveJob(h)
    <3> DEFINE s == serving[h].status
               new == [jobs[j] EXCEPT !.status = s]
    <3>1. jobs' = [jobs EXCEPT ![j] = new]
      BY <1>4, <2>2 DEF SaveJob
    <3>2. s \in JobStatus
      BY <1>1 DEF Request
    <3>3. s # "ANALYZING" /\ (s = "RUNNING" => Calm(j))
      BY <1>1, <1>4, <2>2 DEF RequestGood, SaveJob, Calm
    <3> HIDE DEF s
    <3>4. new \in Job /\ new.status = s /\ new.items = jobs[j].items
      BY <1>5, <3>2 DEF Job
    <3> HIDE DEF new
    <3> QED BY <1>2, <3>1, <3>3, <3>4, OneStatus
  <2> QED BY <2>1, <2>2
<1> QED BY <1>1, <1>2, <1>6, BridgeAfter, Answered

-----------------------------------------------------------------------------
(* The commands and their results.                                         *)

\* The connector applies one command, or fails.
LEMMA ExecuteStep ==
  ASSUME RosterInductive, NEW c \in bridge.commands, Execute(c)
  PROVE  RosterInductive' /\ JobsStep
<1>1. /\ AroundFine /\ users \in Users /\ bridge \in Bridge /\ BridgeGood(bridge) /\ c \in Command
      /\ CommandGood(c) /\ bridge.pc = "work"
  BY DEF RosterInductive, AroundFine, BridgeFine, Bridge, BridgeGood, Execute
<1>2. UNCHANGED <<pupils, identity, rosterChanges, mapped, jobs, manager, serving, compared>>
  BY DEF Execute
<1>3. Applied(c) \in Users
  <2>1. c.row[1] \in Ids /\ c.title \in Titles /\ c.action \in Executed
    BY <1>1 DEF Command, Rows
  <2>2. Without(users, c.row[1]) \in Users /\ With(users, c.row[1], c.title) \in Users
    BY <1>1, <2>1, UsersFacts
  <2> QED BY <1>1, <2>1, <2>2 DEF Applied, Executed
<1>4. users' \in Users /\ (RosterFault \/ UNCHANGED rosterFaults)
  BY <1>1, <1>3 DEF Execute
<1>5. AroundFine'
  BY <1>1, <1>2, <1>4 DEF AroundFine
<1>6. Grows
  BY <1>2 DEF Grows, compared
<1>7. PICK result \in Results :
        bridge' = [bridge EXCEPT !.pc = "report", !.commands = @ \ {c}, !.report = <<c, result>>]
  BY DEF Execute, Results
<1> DEFINE b == [bridge EXCEPT !.pc = "report", !.commands = bridge.commands \ {c}, !.report = <<c, result>>]
<1>8. <<c, result>> \in Command \X Results /\ <<c, result>>[1] = c
  BY <1>1
<1>9. /\ b \in Bridge /\ b.pc = "report" /\ b.report = <<c, result>>
      /\ b.commands = bridge.commands \ {c} /\ b.call = bridge.call
  BY <1>1, <1>8 DEF Bridge
<1>10. bridge' = b
  BY <1>7
<1> HIDE DEF b
<1>11. BridgeGood(b)
  BY <1>1, <1>8, <1>9 DEF BridgeGood
<1> QED BY <1>2, <1>4, <1>5, <1>6, <1>9, <1>10, <1>11, BridgeOnly

\* The item that a thread read for a result, and is to save.
Reported(c, result) ==
  [Free EXCEPT !.pc = "item", !.job = c.job, !.commands = {c},
     !.rows = [k \in {c.row} |-> jobs[c.job].items[k].status],
     !.pupil = jobs[c.job].items[c.row].pupil, !.result = result]

\* Such a request is good.
LEMMA ReportedGood ==
  ASSUME JobsFine, NEW c \in Command, NEW result \in Results, CommandGood(c),
         c.row \in DOMAIN jobs[c.job].items, ~Settled(jobs[c.job].items[c.row])
  PROVE  Reported(c, result) \in Request /\ RequestGood(Reported(c, result))
<1>1. c.job \in Idx /\ Compared(c.job) /\ {c} \in SUBSET Command
  BY DEF CommandGood
<1>2. PICK items \in Items : items = jobs[c.job].items
  BY <1>1, JobFacts
<1>3. c.job \in 0..MaxJobs
  BY <1>1, JobFacts, RosterBounds
<1>4. items[c.row] \in Item /\ c.row \in Rows
  BY <1>2, ItemsFacts
<1>5. PICK item \in Item : item = items[c.row]
  BY <1>4
<1>6. item.status \in ItemStatus /\ item.pupil \in Pupils \cup {"none"} /\ item.status # "SUCCEEDED"
  BY <1>2, <1>5 DEF Item, Settled
<1>7. PICK rows \in Reads : /\ \A k \in DOMAIN rows : rows[k] # "SUCCEEDED"
                            /\ rows = [k \in {c.row} |-> items[k].status]
  <2> DEFINE rows == [k \in {c.row} |-> items[k].status]
  <2>1. rows \in [{c.row} -> ItemStatus]
    BY <1>5, <1>6
  <2>2. \A k \in DOMAIN rows : rows[k] # "SUCCEEDED"
    BY <1>5, <1>6
  <2>3. rows \in Reads
    BY <1>4, <2>1 DEF Reads
  <2> QED BY <2>2, <2>3
<1> DEFINE r == [Free EXCEPT !.pc = "item", !.job = c.job, !.commands = {c}, !.rows = rows,
                             !.pupil = item.pupil, !.result = result]
<1>8. Reported(c, result) = r
  BY <1>2, <1>5, <1>7 DEF Reported
<1>9. Free \in Request /\ AnalysedGood(Free.found.items)
  BY FreeGood DEF RequestGood
<1>10. /\ r \in Request /\ r.pc = "item" /\ r.job = c.job /\ r.commands = {c}
       /\ r.found = Free.found /\ r.rows = rows
  BY <1>1, <1>3, <1>6, <1>9 DEF Request, Serving
<1> HIDE DEF r
<1>11. RequestGood(r)
  BY <1>1, <1>7, <1>9, <1>10 DEF RequestGood
<1> QED BY <1>8, <1>10, <1>11

\* The job and the item are read for a result.
LEMMA ResultStep ==
  ASSUME RosterInductive, NEW h \in Servers, ResultArrives(h)
  PROVE  RosterInductive' /\ JobsStep
<1> DEFINE c == bridge.report[1]
           r == Reported(c, bridge.report[2])
<1>1. /\ UNCHANGED <<around, jobs, manager, rosterFaults, compared>> /\ bridge.pc = "report"
      /\ JobsFine /\ BridgeFine /\ bridge \in Bridge /\ BridgeGood(bridge)
  BY Zenon DEF RosterInductive, BridgeFine, ResultArrives
<1>2. Grows /\ AroundFine' /\ JobsStep
  BY <1>1, Untouched
<1>3. bridge.report \in Command \X Results /\ CommandGood(c)
  BY <1>1 DEF BridgeGood
<1>4. \/ bridge' \in Refused \cup {Working} /\ UNCHANGED serving
      \/ /\ Takes(h, r) /\ c.row \in DOMAIN jobs[c.job].items
         /\ ~Settled(jobs[c.job].items[c.row])
  BY Zenon DEF ResultArrives, Reported
<1>5. CASE bridge' \in Refused \cup {Working} /\ UNCHANGED serving
  <2>1. PICK b \in Bridge : BridgeGood(b) /\ bridge' = b
    BY <1>1, <1>5, BridgeAfter
  <2> QED BY <1>1, <1>2, <1>5, <2>1, BridgeOnly
<1>6. CASE /\ Takes(h, r) /\ c.row \in DOMAIN jobs[c.job].items
           /\ ~Settled(jobs[c.job].items[c.row])
  <2>1. c \in Command /\ bridge.report[2] \in Results
    BY <1>3
  <2> HIDE DEF c
  <2>2. r \in Request /\ RequestGood(r)
    BY <1>1, <1>3, <1>6, <2>1, ReportedGood
  <2> HIDE DEF r
  <2> QED BY <1>1, <1>2, <1>6, <2>2, Taken
<1> HIDE DEF c, r
<1> QED BY <1>4, <1>5, <1>6

\* A request that goes on to count the items of its job.
Counts(j) == [Free EXCEPT !.pc = "count", !.job = j]

\* Such a request is good.
LEMMA Counting ==
  ASSUME NEW j \in Idx, j \in 0..MaxJobs, Compared(j)
  PROVE  Counts(j) \in Request /\ RequestGood(Counts(j))
<1> DEFINE r == [Free EXCEPT !.pc = "count", !.job = j]
<1>1. Free \in Request /\ RequestGood(Free) /\ Free.commands = {}
  BY FreeGood DEF Free
<1>2. /\ r \in Request /\ r.pc = "count" /\ r.job = j /\ r.commands = {} /\ r.found = Free.found
  BY <1>1 DEF Request, Serving
<1> HIDE DEF r
<1>3. RequestGood(r)
  BY <1>1, <1>2 DEF RequestGood
<1> QED BY <1>2, <1>3 DEF r, Counts
\* The result is saved; when the item had succeeded meanwhile, the thread overtook it.
LEMMA StoreItemStep ==
  ASSUME RosterInductive, NEW h \in Servers, StoreItem(h)
  PROVE  RosterInductive' /\ JobsStep
<1>1. /\ serving[h] \in Request /\ RequestGood(serving[h]) /\ serving[h].pc = "item"
      /\ UNCHANGED <<around, manager, bridge, rosterFaults, compared>>
  BY Thread DEF StoreItem
<1>2. Grows /\ AroundFine'
  BY <1>1, Untouched
<1>3. PICK j \in Idx : /\ j = serving[h].job /\ Compared(j) /\ AnalysedGood(serving[h].found.items)
                       /\ \A c \in serving[h].commands : CommandGood(c)
                       /\ \A k \in DOMAIN serving[h].rows : serving[h].rows[k] # "SUCCEEDED"
  BY <1>1 DEF RequestGood
<1>4. PICK k \in DOMAIN serving[h].rows :
        /\ k \in DOMAIN jobs[j].items
        /\ jobs' = [jobs EXCEPT ![j].items[k].status = serving[h].result]
  BY <1>3 DEF StoreItem
<1> DEFINE result == serving[h].result
           item == [jobs[j].items[k] EXCEPT !.status = result]
<1>5. jobs[j].items \in Items /\ j \in 0..MaxJobs
  BY JobFacts, RosterBounds DEF RosterInductive
<1>6. item \in Item /\ item.action = jobs[j].items[k].action
  <2>1. jobs[j].items[k] \in Item
    BY <1>4, <1>5, ItemsFacts
  <2>2. result \in ItemStatus
    BY <1>1 DEF Request, Results, ItemStatus
  <2> HIDE DEF result
  <2> QED BY <2>1, <2>2 DEF Item
<1>7. Overtaken(j, k)
  BY <1>1, <1>3, <1>4 DEF Overtaken
<1>8. jobs' = [jobs EXCEPT ![j] = [jobs[j] EXCEPT !.items = [jobs[j].items EXCEPT ![k] = item]]]
  BY <1>4
<1> HIDE DEF item
<1>9. JobsStep
  BY <1>2, <1>3, <1>4, <1>6, <1>7, <1>8, OneItem
<1> DEFINE on == [serving[h] EXCEPT !.pc = "identity"]
           over == Counts(j)
<1>10. on \in Request /\ RequestGood(on)
  <2>1. /\ on \in Request /\ on.pc = "identity" /\ on.job = j
        /\ on.commands = serving[h].commands /\ on.found = serving[h].found
    BY <1>1, <1>3 DEF Request, Serving
  <2> HIDE DEF on
  <2> QED BY <1>3, <2>1 DEF RequestGood
<1>11. over \in Request /\ RequestGood(over)
  BY <1>3, <1>5, Counting
<1>12. \/ serving' = [serving EXCEPT ![h] = on]
       \/ serving' = [serving EXCEPT ![h] = over]
  BY <1>3 DEF StoreItem, Counts
<1> HIDE DEF on, over
<1>13. PICK r \in Request : RequestGood(r) /\ serving' = [serving EXCEPT ![h] = r]
  BY <1>10, <1>11, <1>12
<1> QED BY <1>1, <1>2, <1>9, <1>13, GoesOn

\* The identity that follows from a result names a user that is mapped from now on.
LEMMA StoreIdentityStep ==
  ASSUME RosterInductive, NEW h \in Servers, StoreIdentity(h)
  PROVE  RosterInductive' /\ JobsStep
<1>1. /\ serving[h] \in Request /\ RequestGood(serving[h]) /\ serving[h].pc = "identity" /\ AroundFine
      /\ UNCHANGED <<pupils, users, rosterChanges, jobs, manager, bridge, rosterFaults, compared>>
  BY Thread DEF StoreIdentity, RosterInductive
<1>2. PICK j \in Idx : j = serving[h].job /\ Compared(j)
  BY <1>1 DEF RequestGood
<1>3. j \in 0..MaxJobs
  BY JobFacts, RosterBounds DEF RosterInductive
<1>4. PICK c \in serving[h].commands :
        IF c.action = "DELETE"
        THEN /\ identity' = IF identity[c.row[1]] = "unmatched"
                             THEN [identity EXCEPT ![c.row[1]] = "blank"] ELSE identity
             /\ UNCHANGED mapped
        ELSE /\ identity' = [identity EXCEPT ![c.row[1]] = serving[h].pupil]
             /\ mapped' = mapped \cup {c.row[1]}
  BY DEF StoreIdentity
<1>5. c.row[1] \in Ids /\ serving[h].pupil \in Identities /\ "blank" \in Identities
  BY <1>1 DEF Request, Command, Rows, Identities
<1>6. identity' \in [Ids -> Identities] /\ mapped \subseteq mapped' /\ mapped' \subseteq Ids
  BY <1>1, <1>4, <1>5 DEF AroundFine
<1>7. \A i \in Ids : identity'[i] \in Pupils => i \in mapped'
  BY <1>1, <1>4, <1>5, RosterNames DEF AroundFine
<1>8. AroundFine'
  BY <1>1, <1>6, <1>7 DEF AroundFine
<1>9. Grows
  BY <1>1, <1>6 DEF Grows, compared
<1>10. JobsStep
  BY <1>1, <1>9, SameJobs
<1> DEFINE over == Counts(j)
<1>11. over \in Request /\ RequestGood(over)
  BY <1>2, <1>3, Counting
<1>12. serving' = [serving EXCEPT ![h] = over]
  BY <1>2 DEF StoreIdentity, Counts
<1> HIDE DEF over
<1> QED BY <1>1, <1>8, <1>10, <1>11, <1>12, GoesOn

\* The status of the job is decided from its items.
LEMMA CountStep ==
  ASSUME RosterInductive, NEW h \in Servers, CountItems(h)
  PROVE  RosterInductive' /\ JobsStep
<1>1. /\ serving[h] \in Request /\ RequestGood(serving[h]) /\ serving[h].pc = "count"
      /\ UNCHANGED <<around, jobs, manager, bridge, rosterFaults, compared>>
  BY Thread DEF CountItems
<1>2. Grows /\ AroundFine' /\ JobsStep
  BY <1>1, Untouched
<1>3. PICK j \in Idx : j = serving[h].job /\ Compared(j)
  BY <1>1 DEF RequestGood
<1> DEFINE s == JobOutcome({jobs[j].items[k].status : k \in DOMAIN jobs[j].items})
           r == [Free EXCEPT !.pc = "job", !.job = j, !.status = s]
<1>4. serving' = [serving EXCEPT ![h] = r]
  BY <1>3 DEF CountItems
<1>5. s \in JobStatus /\ s # "ANALYZING"
  BY DEF JobOutcome, JobStatus, OpenJob
<1>6. j \in 0..MaxJobs /\ Free \in Request /\ RequestGood(Free) /\ Free.commands = {}
  <2>1. Free.commands = {}
    BY DEF Free
  <2> QED BY <2>1, JobFacts, RosterBounds, FreeGood DEF RosterInductive
<1> HIDE DEF s
<1>7. /\ r \in Request /\ r.pc = "job" /\ r.job = j /\ r.status = s /\ r.commands = {}
      /\ r.found = Free.found
  BY <1>5, <1>6 DEF Request, Serving
<1> HIDE DEF r
<1>8. RequestGood(r)
  BY <1>3, <1>5, <1>6, <1>7 DEF RequestGood
<1> QED BY <1>1, <1>2, <1>4, <1>7, <1>8, GoesOn

\* The bridge rests: its cycle is over, or it was restarted.
LEMMA RestSteps ==
  ASSUME RosterInductive, CycleEnds \/ BridgeDies
  PROVE  RosterInductive' /\ JobsStep
<1>1. /\ UNCHANGED <<around, jobs, manager, serving, compared>> /\ bridge' = Resting
      /\ RosterFault \/ UNCHANGED rosterFaults
  BY DEF CycleEnds, BridgeDies
<1>2. Grows /\ AroundFine'
  BY <1>1, Untouched
<1>3. Resting \in Bridge /\ BridgeGood(Resting)
  BY BridgeAfter DEF RosterInductive
<1> QED BY <1>1, <1>2, <1>3, BridgeOnly

-----------------------------------------------------------------------------
(* Every behaviour.                                                        *)

\* No job, nobody at work, and the identities mapped by hand.
LEMMA RosterStart == RosterInit => RosterInductive
<1> SUFFICES ASSUME RosterInit PROVE RosterInductive
  OBVIOUS
<1>1. PICK t \in Titles, S \in SUBSET Locals :
        pupils = [s \in Pupils |-> [state |-> "ELIGIBLE", title |-> t]] /\ users = [i \in S |-> t]
  BY DEF RosterInit
<1>2. pupils \in [Pupils -> [state: Lifecycle, title: Titles]]
  BY <1>1 DEF Lifecycle
<1>3. users \in Users
  <2>1. users \in [S -> Titles] /\ S \in SUBSET Ids
    BY <1>1 DEF Ids
  <2> QED BY <2>1 DEF Users
<1>4. identity \in [Ids -> Identities] /\ mapped = {i \in Ids : identity[i] # "none"}
  BY DEF RosterInit, Identities
<1>5. \A i \in Ids : identity[i] \in Pupils => i \in mapped
  BY <1>4, RosterNames
<1>6. AroundFine
  BY <1>2, <1>3, <1>4, <1>5, RosterBounds DEF AroundFine, RosterInit
<1>7. JobsFine
  <2>1. jobs = <<>> /\ jobs \in Seq(Job) /\ Len(jobs) = 0
    BY DEF RosterInit
  <2> QED BY <2>1, RosterBounds DEF JobsFine, Idx
<1>8. ManagersFine
  <2>1. manager = [m \in Managers |-> Unoccupied]
    BY DEF RosterInit
  <2> QED BY <2>1, Over DEF ManagersFine
<1>9. ServersFine
  <2>1. serving = [h \in Servers |-> Free]
    BY DEF RosterInit
  <2> QED BY <2>1, FreeGood DEF ServersFine
<1>10. BridgeFine
  <2>1. bridge = Resting
    BY DEF RosterInit
  <2>2. 0 \in 0..MaxJobs /\ <<>> \in Users
    BY RosterBounds, NoUsers
  <2>3. Resting \in Bridge /\ BridgeGood(Resting)
    BY <2>2 DEF Resting, Bridge, BridgeGood
  <2> QED BY <2>1, <2>3 DEF BridgeFine
<1>11. FaultsFine
  BY RosterBounds DEF FaultsFine, RosterInit
<1> QED BY <1>6, <1>7, <1>8, <1>9, <1>10, <1>11 DEF RosterInductive

\* Every step keeps the strengthening and does to the jobs what JobsStep says.
LEMMA RosterStep == RosterInductive /\ RosterNext => RosterInductive' /\ JobsStep
<1> SUFFICES ASSUME RosterInductive, RosterNext PROVE RosterInductive' /\ JobsStep
  OBVIOUS
<1>1. \A i \in Ids : Without(users, i) \in Users /\ \A t \in Titles : With(users, i, t) \in Users
  <2>1. users \in Users
    BY DEF RosterInductive, AroundFine
  <2> QED BY <2>1, UsersFacts
<1>2. CASE \E s \in Pupils, l \in Lifecycle, t \in Titles : PupilChanges(s, l, t)
  BY <1>2, FactsChanges
<1>3. CASE \E i \in Ids : UnknownScan(i) \/ UnmapIdentity(i) \/ \E s \in Pupils : MapIdentity(i, s)
  BY <1>3, FactsChanges
<1>4. CASE \E i \in Ids : EditedByHand(Without(users, i)) \/ \E t \in Titles : EditedByHand(With(users, i, t))
  BY <1>1, <1>4, FactsChanges
<1>5. ASSUME NEW m \in Managers,
             \/ AnalyzeCheck(m) \/ AnalyzeCreate(m) \/ ApproveDecides(m) \/ SaveDecision(m)
             \/ \E k \in manager[m].rows : NameItem(m, k)
             \/ \E j \in Idx : ApproveCheck(m, j) \/ Retry(m, j)
      PROVE  RosterInductive' /\ JobsStep
  BY <1>5, AnalyzeSteps, ApproveSteps, DecisionStep, NameStep, RetryStep
<1>6. ASSUME NEW h \in Servers,
             \/ Heartbeat(h) \/ ListItems(h) \/ HeartbeatAnswered(h)
             \/ \E k \in DOMAIN serving[h].rows : HandOut(h, k)
             \/ Reading(h) \/ CompareReading(h) \/ ClearItems(h) \/ FillItems(h) \/ SaveAnalysis(h)
             \/ SaveJob(h) \/ ResultArrives(h) \/ StoreItem(h) \/ StoreIdentity(h) \/ CountItems(h)
             \/ Breaks(h)
      PROVE  RosterInductive' /\ JobsStep
  BY <1>6, HeartbeatStep, ListStep, HeartbeatAnswer, HandOutStep, ReadingStep, CompareStep, ClearStep,
     FillStep, SaveSteps, ResultStep, StoreItemStep, StoreIdentityStep, CountStep, UnansweredStep
<1>7. CASE ReadUsers \/ Unanswered \/ CycleEnds \/ BridgeDies
  BY <1>7, ReadUsersStep, UnansweredStep, RestSteps
<1>8. ASSUME NEW c \in bridge.commands, Execute(c) PROVE RosterInductive' /\ JobsStep
  BY <1>8, ExecuteStep
<1> QED BY <1>2, <1>3, <1>4, <1>5, <1>6, <1>7, <1>8 DEF RosterNext

\* The strengthening gives the types and that no command is blind.
LEMMA RosterGives == RosterInductive => RosterTypeOK /\ NoBlindWrite
<1> SUFFICES ASSUME RosterInductive PROVE RosterTypeOK /\ NoBlindWrite
  OBVIOUS
<1>1. AroundFine /\ JobsFine /\ FaultsFine /\ bridge \in Bridge /\ BridgeGood(bridge)
      /\ manager \in [Managers -> Decision] /\ serving \in [Servers -> Request]
  BY DEF RosterInductive, ManagersFine, ServersFine, BridgeFine
<1>2. ASSUME NEW j \in Idx
      PROVE  /\ jobs[j].status \in JobStatus /\ jobs[j].device \in Users
             /\ \A k \in DOMAIN jobs[j].items : jobs[j].items[k] \in Item
  <2>1. jobs[j].status \in JobStatus /\ jobs[j].device \in Users /\ jobs[j].items \in Items
    BY <1>1, JobFacts
  <2> QED BY <2>1, ItemsFacts
<1>3. ASSUME NEW m \in Managers PROVE manager[m].job \in 0..MaxJobs /\ manager[m].status \in JobStatus
  <2>1. manager[m] \in Decision
    BY <1>1
  <2> QED BY <2>1 DEF Decision
<1>4. ASSUME NEW h \in Servers
      PROVE  serving[h].job \in 0..MaxJobs /\ serving[h].status \in JobStatus /\ serving[h].commands \subseteq Command
  <2>1. serving[h] \in Request
    BY <1>1
  <2> QED BY <2>1 DEF Request
<1>5. bridge.commands \subseteq Command /\ bridge.seen \in Users
  BY <1>1 DEF Bridge
<1>6. RosterTypeOK
  BY <1>1, <1>2, <1>3, <1>4, <1>5 DEF RosterTypeOK, AroundFine, FaultsFine, Identities
<1>7. NoBlindWrite
  BY <1>1 DEF NoBlindWrite, BridgeGood, CommandGood, Compared
<1> QED BY <1>6, <1>7

\* Only commands of the bridge touch the device, and none names a user the school
\* does not know.
LEMMA UnknownUntouched ==
  ASSUME RosterInductive, RosterNext, NEW i \in Locals \ mapped, bridge' # bridge
  PROVE  (i \in DOMAIN users <=> i \in DOMAIN users') /\ (i \in DOMAIN users => users'[i] = users[i])
<1>1. CASE UNCHANGED users
  BY <1>1
<1>2. ASSUME NEW c \in bridge.commands, Execute(c)
      PROVE  (i \in DOMAIN users <=> i \in DOMAIN users') /\ (i \in DOMAIN users => users'[i] = users[i])
  <2>1. CommandGood(c) /\ c \in Command
    BY DEF RosterInductive, BridgeFine, Bridge, BridgeGood
  <2>2. i # c.row[1]
    BY <2>1, RosterNames DEF CommandGood
  <2>3. c.action \in Executed
    BY <2>1 DEF Command
  <2>4. users' = users \/ users' = With(users, c.row[1], c.title) \/ users' = Without(users, c.row[1])
    BY <1>2, <2>3 DEF Execute, Applied, Executed
  <2> QED BY <2>2, <2>4 DEF With, Without
<1>3. ASSUME NEW m \in Managers,
             \/ AnalyzeCheck(m) \/ AnalyzeCreate(m) \/ ApproveDecides(m) \/ SaveDecision(m)
             \/ \E k \in manager[m].rows : NameItem(m, k)
             \/ \E j \in Idx : ApproveCheck(m, j) \/ Retry(m, j)
      PROVE  UNCHANGED users
  <2>1. ByManager
    BY <1>3, Zenon DEF AnalyzeCheck, AnalyzeCreate, ApproveDecides, SaveDecision, NameItem, ApproveCheck, Retry
  <2> QED BY <2>1 DEF ByManager, around
<1>4. ASSUME NEW h \in Servers,
             \/ Heartbeat(h) \/ ListItems(h) \/ HeartbeatAnswered(h)
             \/ \E k \in DOMAIN serving[h].rows : HandOut(h, k)
             \/ Reading(h) \/ CompareReading(h) \/ ClearItems(h) \/ FillItems(h) \/ SaveAnalysis(h)
             \/ SaveJob(h) \/ ResultArrives(h) \/ StoreItem(h) \/ CountItems(h) \/ Breaks(h)
      PROVE  UNCHANGED users
  <2>1. UNCHANGED around
    BY <1>4, Zenon DEF Heartbeat, ListItems, HeartbeatAnswered, HandOut, Reading, CompareReading, ClearItems,
       FillItems, SaveAnalysis, SaveJob, ResultArrives, StoreItem, CountItems, Breaks
  <2> QED BY <2>1 DEF around
<1>5. ASSUME NEW h \in Servers, StoreIdentity(h) PROVE UNCHANGED users
  BY <1>5 DEF StoreIdentity
<1>6. CASE ReadUsers \/ Unanswered \/ CycleEnds \/ BridgeDies
  BY <1>1, <1>6 DEF ReadUsers, Unanswered, CycleEnds, BridgeDies, around
<1>7. CASE \/ \E s \in Pupils, l \in Lifecycle, t \in Titles : PupilChanges(s, l, t)
           \/ \E x \in Ids : UnknownScan(x) \/ UnmapIdentity(x) \/ \E s \in Pupils : MapIdentity(x, s)
           \/ \E u : EditedByHand(u)
  BY <1>7 DEF PupilChanges, UnknownScan, UnmapIdentity, MapIdentity, EditedByHand
<1> QED BY <1>1, <1>2, <1>3, <1>4, <1>5, <1>6, <1>7 DEF RosterNext

\* A step that changes nothing keeps the strengthening.
LEMMA RosterStutters == RosterInductive /\ UNCHANGED rosterVars => RosterInductive'
<1> SUFFICES ASSUME RosterInductive, UNCHANGED rosterVars PROVE RosterInductive'
  OBVIOUS
<1>1. UNCHANGED <<around, jobs, manager, serving, bridge, rosterFaults, compared>>
  BY DEF rosterVars
<1>2. JobsStep /\ Grows /\ AroundFine'
  BY <1>1, Untouched
<1>3. ManagersFine' /\ ServersFine' /\ BridgeFine' /\ FaultsFine'
  BY <1>1, <1>2, Managed, Served, BridgeStays, Faults
<1> QED BY <1>2, <1>3 DEF RosterInductive, JobsStep

\* The strengthening holds of every behaviour.
LEMMA RosterAlways == RosterSpec => []RosterInductive
<1>1. RosterInductive /\ [RosterNext]_rosterVars => RosterInductive'
  BY RosterStutters, RosterStep
<1> QED BY RosterStart, <1>1, PTL DEF RosterSpec

\* The bridge holds commands only of jobs that were compared with the device once more
\* after the approval, or that a late analysis gave new items, however the requests of
\* the managers and of the bridge overlap (approve_job, BridgeRosterReadView and the
\* heartbeat).
THEOREM NoBlindWrites == RosterSpec => [][NoBlindWrite']_rosterVars
<1>1. RosterInductive' => [NoBlindWrite']_rosterVars
  <2>1. RosterInductive' => NoBlindWrite'
    BY RosterGives, PTL
  <2> QED BY <2>1
<1> QED BY RosterAlways, <1>1, PTL

\* No command touches a user the school does not know, and an item that succeeded
\* stays succeeded whatever is delivered late or twice, unless a request that had read
\* it before is still to save it or clears the items for an analysis
\* (compare_device_roster, BridgeRosterCommandResultView).
THEOREM DeviceKept == RosterSpec => RosterKept
<1>1. RosterInductive /\ [RosterNext]_rosterVars
        => [\A i \in Locals \ mapped :
              bridge' # bridge =>
                (i \in DOMAIN users <=> i \in DOMAIN users') /\ (i \in DOMAIN users => users'[i] = users[i])]_rosterVars
  BY UnknownUntouched
<1>2. RosterInductive /\ [RosterNext]_rosterVars
        => [\A j \in Idx : \A k \in DOMAIN jobs[j].items :
              jobs[j].items[k].status = "SUCCEEDED" /\ ~Overtaken(j, k) =>
                k \in DOMAIN jobs'[j].items /\ jobs'[j].items[k].status = "SUCCEEDED"]_rosterVars
  <2>1. RosterInductive /\ RosterNext
          => \A j \in Idx : \A k \in DOMAIN jobs[j].items :
               jobs[j].items[k].status = "SUCCEEDED" /\ ~Overtaken(j, k) =>
                 k \in DOMAIN jobs'[j].items /\ jobs'[j].items[k].status = "SUCCEEDED"
    BY RosterStep DEF JobsStep, ItemsStay
  <2> QED BY <2>1
<1> QED BY RosterAlways, <1>1, <1>2, PTL DEF RosterSpec, RosterKept, UnknownKept, SucceededStays

-----------------------------------------------------------------------------
(* The composition.                                                        *)

\* Every behaviour of the composition is one of each component.
LEMMA SpecComposes == Spec => SmsSpec /\ MailSpec /\ RosterSpec
<1>1. Init => SmsInit /\ MailInit /\ RosterInit
  BY DEF Init
<1>2. [Next]_vars => [SmsNext]_smsVars /\ [MailNext]_mailVars /\ [RosterNext]_rosterVars
  BY DEF Next, vars, smsVars, mailVars, rosterVars
<1> QED BY <1>1, <1>2, PTL DEF Spec, SmsSpec, MailSpec, RosterSpec

\* The rows of notices, links, jobs and workers have the types the code gives them.
THEOREM DeliveryTypes == Spec => []DeliveryTypeOK
<1>1. SmsInductive /\ MailInductive /\ RosterInductive => DeliveryTypeOK
  BY MailGives, RosterGives DEF SmsInductive, DeliveryTypeOK
<1>2. SmsSpec => []SmsInductive
  BY SmsStart, SmsStep, PTL DEF SmsSpec
<1>3. MailSpec => []MailInductive
  BY MailStart, MailStep, PTL DEF MailSpec
<1> QED BY <1>1, <1>2, <1>3, RosterAlways, SpecComposes, PTL

\* What no step of the three may undo: no blind command, no link that outlives its
\* secret, no unknown user and no finished item touched.
THEOREM NothingUndone == Spec => DeliveryKept
BY SpecComposes, NoBlindWrites, SecretsEndLinks, DeviceKept, PTL DEF DeliveryKept
=============================================================================
