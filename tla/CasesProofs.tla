---------------------------- MODULE CasesProofs ----------------------------
(***************************************************************************)
(* Proofs about the referrals, the counselors' files, the leaves, the      *)
(* requests of guardians, their inbox and the recovery cases: for each an  *)
(* inductive strengthening of its invariant, the invariant and what no     *)
(* step undoes; at the end the same for the composition of MCCases.        *)
(***************************************************************************)
EXTENDS MCCases, TLAPS, SequenceTheorems, FiniteSetTheorems

-----------------------------------------------------------------------------
(* The referrals.                                                          *)

\* A referral that was handed over has gone the way of its author; one that was not
\* has no counselor.
RefGood(x) ==
  /\ x.author \in Teachers /\ x.counselor # Nobody => x.vice # Nobody /\ x.reviewed
  /\ x.actions = IF x.counselor = Nobody THEN 0 ELSE 1
  /\ x.status \in BeforeCounselor => x.counselor = Nobody

\* Who found nothing open holds the student, and nothing has been opened since.
RefInductive ==
  /\ RefTypeOK /\ OneOpenReferral
  /\ \A r \in Refs : RefGood(referrals[r])
  /\ \A a \in Authors : drafts[a] # "none" =>
       /\ studentLock = a /\ Len(referrals) < MaxReferrals
       /\ drafts[a] = "first" => \A r \in Refs : referrals[r].status \notin OpenStatuses

\* One referral is changed, and an ended one is not opened by it.
LEMMA StoreKeeps ==
  ASSUME RefInductive, NEW r \in Refs, NEW row \in Referral, Store(r, row), RefGood(row),
         row.forced = referrals[r].forced,
         row.status \in OpenStatuses => referrals[r].status \in OpenStatuses,
         ~Ended(referrals[r].status)
  PROVE  /\ RefInductive'
         /\ \A s \in Refs : referrals[s].status \in {"CLOSED", "CANCELLED"} => referrals'[s] = referrals[s]
<1>1. referrals \in Seq(Referral) /\ Refs = 1..Len(referrals) /\ Len(referrals) \in Nat /\ RefTypeOK
  BY DEF RefInductive, RefTypeOK, Refs
<1>2. /\ referrals' = [referrals EXCEPT ![r] = row] /\ UNCHANGED <<drafts, studentLock>>
      /\ referrals' \in Seq(Referral) /\ Len(referrals') = Len(referrals) /\ Refs' = Refs
  BY <1>1 DEF Store, Refs
<1>3. \A s \in Refs : referrals'[s] = IF s = r THEN row ELSE referrals[s]
  BY <1>1, <1>2
<1>4. RefTypeOK'
  BY <1>1, <1>2 DEF RefTypeOK
<1>5. \A s \in Refs : referrals'[s].status \in OpenStatuses => referrals[s].status \in OpenStatuses
  BY <1>3
<1>6. \A s \in Refs : referrals'[s].forced = referrals[s].forced
  BY <1>3
<1>7. OneOpenReferral'
  <2> SUFFICES ASSUME NEW p \in Refs, NEW q \in Refs, p < q,
                      referrals'[p].status \in OpenStatuses, referrals'[q].status \in OpenStatuses
               PROVE  referrals'[q].forced
    BY <1>2 DEF OneOpenReferral
  <2>1. referrals[p].status \in OpenStatuses /\ referrals[q].status \in OpenStatuses
    BY <1>5
  <2> QED BY <1>6, <2>1 DEF RefInductive, OneOpenReferral
<1>8. \A s \in Refs : RefGood(referrals'[s])
  BY <1>3 DEF RefInductive
<1>9. \A a \in Authors : drafts'[a] # "none" =>
       /\ studentLock' = a /\ Len(referrals') < MaxReferrals
       /\ drafts'[a] = "first" => \A s \in Refs : referrals'[s].status \notin OpenStatuses
  BY <1>2, <1>5 DEF RefInductive
<1>10. RefInductive'
  BY <1>2, <1>4, <1>7, <1>8, <1>9 DEF RefInductive, RefGood
<1>11. \A s \in Refs : referrals[s].status \in {"CLOSED", "CANCELLED"} => referrals'[s] = referrals[s]
  BY <1>3 DEF Ended
<1> QED BY <1>10, <1>11

\* create_referral up to its check and after it: the student stays locked in between.
LEMMA CreateKeeps ==
  ASSUME RefInductive, NEW a \in Authors
  PROVE  /\ \A force \in BOOLEAN : CreateCheck(a, force) => RefInductive'
         /\ \A v \in Vices \cup {Nobody}, c \in Counselors \cup {Nobody} :
              CreateSave(a, v, c) =>
                /\ RefInductive'
                /\ \A s \in Refs : referrals'[s] = referrals[s]
<1>1. /\ referrals \in Seq(Referral) /\ Refs = 1..Len(referrals) /\ Len(referrals) \in Nat
      /\ drafts \in [Authors -> {"none", "first", "forced"}] /\ MaxReferrals \in Nat
      /\ Len(referrals) <= MaxReferrals
  BY RefBounds DEF RefInductive, RefTypeOK, Refs
<1>2. Nobody \notin Authors
  BY RefBounds DEF Authors
<1>3. ASSUME NEW force \in BOOLEAN, CreateCheck(a, force) PROVE RefInductive'
  <2>1. referrals' = referrals /\ studentLock' = a
    BY <1>3 DEF CreateCheck
  <2>2. PICK d \in {"first", "forced"} : drafts' = [drafts EXCEPT ![a] = d]
          /\ (d = "first" => \A r \in Refs : referrals[r].status \notin OpenStatuses)
    BY <1>3 DEF CreateCheck
  <2>3. \A b \in Authors : drafts[b] = "none"
    BY <1>2, <1>3 DEF CreateCheck, StudentFree, RefInductive
  <2>4. \A b \in Authors : drafts'[b] # "none" => b = a /\ drafts'[b] = d
    BY <1>1, <2>2, <2>3
  <2>5. RefTypeOK'
    BY <1>1, <2>1, <2>2 DEF RefTypeOK
  <2>6. OneOpenReferral' /\ Refs' = Refs /\ \A r \in Refs : RefGood(referrals'[r])
    BY <2>1 DEF RefInductive, OneOpenReferral, Refs
  <2>7. Len(referrals) < MaxReferrals
    BY <1>3 DEF CreateCheck
  <2>8. \A b \in Authors : drafts'[b] # "none" =>
       /\ studentLock' = b /\ Len(referrals') < MaxReferrals
       /\ drafts'[b] = "first" => \A s \in Refs : referrals'[s].status \notin OpenStatuses
    BY <2>1, <2>2, <2>4, <2>7
  <2> QED BY <2>5, <2>6, <2>8 DEF RefInductive, RefGood
<1>4. ASSUME NEW v \in Vices \cup {Nobody}, NEW c \in Counselors \cup {Nobody}, CreateSave(a, v, c)
      PROVE  RefInductive' /\ \A s \in Refs : referrals'[s] = referrals[s]
  <2> DEFINE new == NewReferral(a, v, c)
             n == Len(referrals) + 1
  <2>1. drafts[a] # "none" /\ drafts' = [drafts EXCEPT ![a] = "none"] /\ studentLock' = Nobody
        /\ referrals' = Append(referrals, new)
    BY <1>4 DEF CreateSave
  <2>2. /\ studentLock = a /\ Len(referrals) < MaxReferrals
        /\ drafts[a] = "first" => \A r \in Refs : referrals[r].status \notin OpenStatuses
        /\ \A b \in Authors : b # a => drafts[b] = "none"
    BY <2>1 DEF RefInductive
  <2>3. new \in Referral /\ RefGood(new) /\ new.forced = (drafts[a] = "forced")
    <3> DEFINE vice == IF a \in Teachers THEN v ELSE OwnReview(a)
               counselor == IF a \in Teachers THEN Nobody ELSE c
               status == IF a \in Teachers THEN "PENDING_VICE"
                         ELSE IF c # Nobody THEN "REFERRED" ELSE "UNDER_VICE_REVIEW"
               actions == IF a \notin Teachers /\ c # Nobody THEN 1 ELSE 0
               signed == a \notin Teachers
               forced == drafts[a] = "forced"
    <3>1. new = [author |-> a, forced |-> forced, notes |-> FALSE, vice |-> vice,
                 counselor |-> counselor, status |-> status, reviewed |-> signed, actions |-> actions]
      BY DEF NewReferral
    <3>2. /\ vice \in Vices \cup {Nobody} /\ counselor \in Counselors \cup {Nobody}
          /\ status \in OpenStatuses /\ actions \in Nat /\ signed \in BOOLEAN /\ forced \in BOOLEAN
      BY DEF OwnReview, OpenStatuses, BeforeCounselor
    <3>3. /\ a \in Teachers => counselor = Nobody
          /\ actions = IF counselor = Nobody THEN 0 ELSE 1
          /\ status \in BeforeCounselor => counselor = Nobody
      BY DEF BeforeCounselor
    <3> HIDE DEF vice, counselor, status, actions, signed, forced
    <3>4. new \in Referral
      BY <3>1, <3>2 DEF Referral
    <3>5. RefGood(new)
      BY <3>1, <3>3 DEF RefGood
    <3>6. new.forced = forced
      BY <3>1
    <3> QED BY <3>4, <3>5, <3>6 DEF forced
  <2> HIDE DEF new
  <2>4. /\ referrals' \in Seq(Referral) /\ Len(referrals') = n /\ Refs' = 1..n
        /\ referrals'[n] = new /\ \A s \in Refs : referrals'[s] = referrals[s]
    BY <1>1, <2>1, <2>3, AppendProperties DEF Refs
  <2>5. \A b \in Authors : drafts'[b] = "none"
    BY <1>1, <2>1, <2>2
  <2>6. RefTypeOK'
    BY <1>1, <2>1, <2>2, <2>4 DEF RefTypeOK
  <2>7. OneOpenReferral'
    <3> SUFFICES ASSUME NEW p \in 1..n, NEW q \in 1..n, p < q,
                        referrals'[p].status \in OpenStatuses, referrals'[q].status \in OpenStatuses
                 PROVE  referrals'[q].forced
      BY <2>4 DEF OneOpenReferral
    <3>1. p \in Refs
      BY <1>1
    <3>2. CASE q \in Refs
      BY <2>4, <3>1, <3>2 DEF RefInductive, OneOpenReferral
    <3>3. CASE q = n
      BY <1>1, <2>1, <2>2, <2>3, <2>4, <3>1, <3>3
    <3> QED BY <1>1, <3>2, <3>3
  <2>8. \A s \in 1..n : RefGood(referrals'[s])
    <3>1. \A s \in Refs : RefGood(referrals'[s])
      BY <2>4 DEF RefInductive
    <3> QED BY <1>1, <2>3, <2>4, <3>1
  <2>9. RefInductive'
    BY <2>4, <2>5, <2>6, <2>7, <2>8 DEF RefInductive, RefGood
  <2> QED BY <2>4, <2>9
<1> QED BY <1>3, <1>4

\* The operations on one referral (assign_vice_principal to add_contribution).
LEMMA RefRowsKeep ==
  ASSUME RefInductive, NEW r \in Refs,
         \/ \E v \in Vices : AssignVice(r, v)
         \/ \E by \in Vices \cup {Principal} :
              StartReview(r, by) \/ \E c \in Counselors : AssignCounselor(r, by, c)
         \/ \E c \in Counselors : Acknowledge(r, c)
         \/ \E by \in Authors \cup Counselors, cancel \in BOOLEAN : CloseReferral(r, by, cancel)
         \/ AddContribution(r)
  PROVE  /\ RefInductive'
         /\ \A s \in Refs : referrals[s].status \in {"CLOSED", "CANCELLED"} => referrals'[s] = referrals[s]
<1> DEFINE old == referrals[r]
           Goal == /\ RefInductive'
                   /\ \A s \in Refs : referrals[s].status \in {"CLOSED", "CANCELLED"} => referrals'[s] = referrals[s]
<1>1. old \in Referral /\ RefGood(old)
  BY DEF RefInductive, RefTypeOK, Refs
<1>2. ASSUME NEW row \in Referral, Store(r, row), RefGood(row), row.forced = old.forced,
             old.status \in OpenStatuses
      PROVE  Goal
  BY <1>2, StoreKeeps DEF Ended, OpenStatuses, BeforeCounselor
<1>3. ASSUME NEW v \in Vices, AssignVice(r, v) PROVE Goal
  <2> DEFINE row == [old EXCEPT !.vice = v, !.status = "PENDING_VICE", !.reviewed = FALSE]
  <2>1. old.status \in OpenStatuses /\ old.counselor = Nobody
    BY <1>1, <1>3 DEF AssignVice, Assignable, OpenStatuses, RefGood
  <2>2. row \in Referral /\ row.forced = old.forced /\ row.counselor = Nobody /\ row.actions = old.actions
    BY <1>1, <2>1 DEF Referral, OpenStatuses, BeforeCounselor
  <2>3. RefGood(row)
    BY <1>1, <2>1, <2>2 DEF RefGood
  <2>4. Store(r, row)
    BY <1>3 DEF AssignVice
  <2> HIDE DEF row
  <2> QED BY <1>2, <2>1, <2>2, <2>3, <2>4
<1>4. ASSUME NEW by, StartReview(r, by) PROVE Goal
  <2> DEFINE row == [old EXCEPT !.status = "UNDER_VICE_REVIEW", !.reviewed = TRUE]
  <2>1. old.status \in OpenStatuses /\ old.counselor = Nobody
    BY <1>1, <1>4 DEF StartReview, OpenStatuses, RefGood, BeforeCounselor
  <2>2. row \in Referral /\ row.forced = old.forced /\ row.counselor = Nobody /\ row.actions = old.actions
    BY <1>1, <2>1 DEF Referral, OpenStatuses, BeforeCounselor
  <2>3. RefGood(row)
    BY <1>1, <2>1, <2>2 DEF RefGood
  <2>4. Store(r, row)
    BY <1>4 DEF StartReview
  <2> HIDE DEF row
  <2> QED BY <1>2, <2>1, <2>2, <2>3, <2>4
<1>5. ASSUME NEW by, NEW c \in Counselors, AssignCounselor(r, by, c) PROVE Goal
  <2> DEFINE n == HandoverActions(old)
             row == [old EXCEPT !.counselor = c, !.status = "REFERRED", !.reviewed = TRUE, !.actions = n]
  <2>1. old.status \in OpenStatuses /\ (old.author \in Teachers => old.vice # Nobody) /\ c # Nobody
    BY <1>5, RefBounds DEF AssignCounselor, OpenStatuses, NeedsVice
  <2>2. n = 1
    BY <1>1 DEF HandoverActions, RefGood
  <2>3. Store(r, row)
    BY <1>5 DEF AssignCounselor
  <2> HIDE DEF n
  <2>4. /\ row \in Referral /\ row.forced = old.forced /\ row.counselor = c /\ row.actions = 1
        /\ row.reviewed /\ row.vice = old.vice /\ row.author = old.author /\ row.status = "REFERRED"
    BY <1>1, <2>2 DEF Referral, OpenStatuses
  <2>5. RefGood(row)
    BY <2>1, <2>4 DEF RefGood, BeforeCounselor
  <2> HIDE DEF row
  <2> QED BY <1>2, <2>1, <2>3, <2>4, <2>5
<1>6. ASSUME NEW s \in {"ACKNOWLEDGED", "CLOSED", "CANCELLED"}, Store(r, [old EXCEPT !.status = s]),
             old.status \in OpenStatuses
      PROVE  Goal
  <2> DEFINE row == [old EXCEPT !.status = s]
  <2>1. /\ row \in Referral /\ row.forced = old.forced /\ row.counselor = old.counselor
        /\ row.actions = old.actions /\ row.reviewed = old.reviewed /\ row.vice = old.vice
        /\ row.author = old.author /\ row.status = s
    BY <1>1 DEF Referral, OpenStatuses
  <2>2. RefGood(row)
    BY <1>1, <2>1 DEF RefGood, BeforeCounselor
  <2>3. Store(r, row)
    BY <1>6
  <2>4. old.status \in OpenStatuses
    BY <1>6
  <2> HIDE DEF row
  <2> QED BY <1>2, <2>1, <2>2, <2>3, <2>4
<1>7. ASSUME NEW c, Acknowledge(r, c) PROVE Goal
  BY <1>6, <1>7 DEF Acknowledge, OpenStatuses
<1>8. ASSUME NEW by, NEW cancel \in BOOLEAN, CloseReferral(r, by, cancel) PROVE Goal
  <2>1. old.status \in OpenStatuses
    BY <1>1, <1>8 DEF CloseReferral, Ended, Referral
  <2>2. CASE cancel
    BY <1>6, <1>8, <2>1, <2>2 DEF CloseReferral
  <2>3. CASE ~cancel
    BY <1>6, <1>8, <2>1, <2>3 DEF CloseReferral
  <2> QED BY <2>2, <2>3
<1>9. ASSUME AddContribution(r) PROVE Goal
  <2> DEFINE row == [old EXCEPT !.notes = TRUE]
  <2>1. /\ row \in Referral /\ row.forced = old.forced /\ row.counselor = old.counselor
        /\ row.actions = old.actions /\ row.reviewed = old.reviewed /\ row.vice = old.vice
        /\ row.author = old.author /\ row.status = old.status
    BY <1>1 DEF Referral
  <2>2. RefGood(row)
    BY <1>1, <2>1 DEF RefGood
  <2>3. Store(r, row) /\ old.status \in OpenStatuses
    BY <1>9 DEF AddContribution
  <2> HIDE DEF row
  <2> QED BY <1>2, <2>1, <2>2, <2>3
<1> QED BY <1>3, <1>4, <1>5, <1>7, <1>8, <1>9

\* Nothing was referred yet.
LEMMA RefStart == RefInit => RefInductive
<1> SUFFICES ASSUME RefInit PROVE RefInductive
  OBVIOUS
<1>1. referrals \in Seq(Referral) /\ Len(referrals) = 0 /\ Refs = {}
  BY DEF RefInit, Refs
<1> QED BY <1>1, RefBounds DEF RefInit, RefInductive, RefTypeOK, OneOpenReferral

\* Every step keeps the strengthening and leaves ended referrals alone.
LEMMA RefStep ==
  RefInductive /\ RefNext
    => /\ RefInductive'
       /\ \A s \in Refs : referrals[s].status \in {"CLOSED", "CANCELLED"} => referrals'[s] = referrals[s]
<1> SUFFICES ASSUME RefInductive, RefNext
             PROVE  /\ RefInductive'
                    /\ \A s \in Refs : referrals[s].status \in {"CLOSED", "CANCELLED"} => referrals'[s] = referrals[s]
  OBVIOUS
<1>1. ASSUME NEW a \in Authors, NEW force \in BOOLEAN, CreateCheck(a, force)
      PROVE  /\ RefInductive'
             /\ \A s \in Refs : referrals[s].status \in {"CLOSED", "CANCELLED"} => referrals'[s] = referrals[s]
  BY <1>1, CreateKeeps DEF CreateCheck
<1> QED BY <1>1, CreateKeeps, RefRowsKeep DEF RefNext

\* The strengthening holds of every behaviour.
LEMMA RefAlways == RefSpec => []RefInductive
<1>1. RefInductive /\ [RefNext]_refVars => RefInductive'
  <2>1. RefInductive /\ UNCHANGED refVars => RefInductive'
    BY DEF refVars, RefInductive, RefTypeOK, OneOpenReferral, RefGood, Refs
  <2> QED BY <2>1, RefStep
<1> QED BY RefStart, <1>1, PTL DEF RefSpec

\* One open referral, seen by the counselor after the vice principal and handed over
\* once (create_referral, assign_vice_principal, assign_counselor).
THEOREM ReferralsGoTheirWay == RefSpec => []ReferralsInvariant
<1>1. RefInductive => ReferralsInvariant
  BY DEF RefInductive, ReferralsInvariant, SeenAfterVice, HandedOnce, RefGood
<1> QED BY RefAlways, <1>1, PTL

\* A closed or cancelled referral is not changed (close_referral, _terminal_error).
THEOREM EndedReferralsRest == RefSpec => EndedStays
<1>1. RefInductive /\ [RefNext]_refVars
        => [\A r \in Refs : referrals[r].status \in {"CLOSED", "CANCELLED"}
              => referrals'[r] = referrals[r]]_refVars
  BY RefStep
<1> QED BY RefAlways, <1>1, PTL DEF RefSpec, EndedStays

-----------------------------------------------------------------------------
(* The counselors' files.                                                  *)

\* What a request is about to write.
Errand ==
  {AtRest} \cup [op: {"open", "reopen", "session", "ask", "answer"}, ref: CaseReferrals]
  \cup [op: {"status"}, ref: CaseReferrals, to: LiveStatus]
  \cup [op: {"plan"}, ref: CaseReferrals, plan: Plans, to: PlanStatus \ {"none"}]
  \cup [op: {"activity"}, ref: CaseReferrals, plan: Plans, to: {"PENDING", "COMPLETED"}]

\* What the request read still holds: a case is not unopened, and a teacher is asked
\* by one request and answers after it.
ErrandGood(k) ==
  clerk[k].op # "none" =>
    /\ clerk[k].op # "open" => cases[clerk[k].ref].status # "none"
    /\ clerk[k].op = "ask" =>
         /\ cases[clerk[k].ref].ask = "none"
         /\ \A j \in Clerks \ {k} : ~(clerk[j].op = "ask" /\ clerk[j].ref = clerk[k].ref)
    /\ clerk[k].op = "answer" => cases[clerk[k].ref].ask # "none"

FileGood(row) ==
  /\ row.status = "none" => row = NoCase
  /\ \A p, q \in Plans : row.plans[p] = "ACTIVE" /\ row.plans[q] = "ACTIVE" => p = q
  /\ row.answers \in {0, 1} /\ (row.answers = 1 <=> row.ask = "ANSWERED")

CaseInductive ==
  /\ CaseTypeOK /\ clerk \in [Clerks -> Errand]
  /\ \A r \in CaseReferrals : FileGood(cases[r])
  /\ \A k \in Clerks : ErrandGood(k)

\* What no step does to a file: take back that it was opened, or a plan of it.
FilesStep ==
  \A r \in CaseReferrals : cases[r].status # "none" =>
    /\ cases'[r].status # "none"
    /\ \A p \in Plans : cases[r].plans[p] # "none" => cases'[r].plans[p] # "none"

\* Nothing is open and every request is at rest.
LEMMA CaseStart == CaseInit => CaseInductive
<1> SUFFICES ASSUME CaseInit PROVE CaseInductive
  OBVIOUS
<1>1. NoCase \in Case /\ FileGood(NoCase)
  BY DEF NoCase, Case, PlanStatus, FileGood, LiveStatus
<1>2. cases \in [CaseReferrals -> Case] /\ \A r \in CaseReferrals : FileGood(cases[r])
  BY <1>1 DEF CaseInit
<1>3. clerk \in [Clerks -> Errand] /\ \A k \in Clerks : clerk[k] = AtRest /\ clerk[k].op = "none"
  BY DEF CaseInit, Errand, AtRest
<1>4. CaseTypeOK
  BY <1>2, <1>3, CaseBounds DEF CaseInit, CaseTypeOK
<1> QED BY <1>2, <1>3, <1>4 DEF CaseInductive, ErrandGood

\* What the types of the errands say of one.
LEMMA ErrandFacts ==
  ASSUME NEW e \in Errand
  PROVE  /\ e = AtRest <=> e.op = "none"
         /\ e = AtRest \/ e.ref \in CaseReferrals
         /\ e.op = "status" => e.to \in LiveStatus
         /\ e.op = "plan" => e.plan \in Plans /\ e.to \in PlanStatus \ {"none"}
         /\ e.op = "activity" => e.plan \in Plans /\ e.to \in {"PENDING", "COMPLETED"}
BY DEF Errand, AtRest

\* A request that begins reads what its errand needs.
LEMMA BeginKeeps ==
  ASSUME CaseInductive, NEW k \in Clerks, NEW errand \in Errand, errand.op # "none",
         Begin(k, errand),
         errand.op # "open" => cases[errand.ref].status # "none",
         errand.op = "ask" => cases[errand.ref].ask = "none" /\ NoneInFlight("ask", errand.ref),
         errand.op = "answer" => cases[errand.ref].ask # "none"
  PROVE  CaseInductive' /\ FilesStep
<1>1. /\ clerk \in [Clerks -> Errand] /\ CaseTypeOK
      /\ clerk' = [clerk EXCEPT ![k] = errand] /\ caseSteps' = caseSteps + 1 /\ caseSteps < CaseSteps
      /\ UNCHANGED <<received, cases>> /\ clerk[k] = AtRest
  BY DEF CaseInductive, Begin
<1>2. clerk' \in [Clerks -> Errand] /\ \A j \in Clerks : clerk'[j] = IF j = k THEN errand ELSE clerk[j]
  BY <1>1
<1>3. \A j \in Clerks : clerk'[j] = AtRest \/ clerk'[j].ref \in CaseReferrals
  BY <1>2, ErrandFacts
<1>4. CaseTypeOK'
  <2>1. caseSteps' \in 0..CaseSteps
    BY <1>1, CaseBounds DEF CaseTypeOK
  <2> QED BY <1>1, <1>3, <2>1 DEF CaseTypeOK
<1>5. clerk[k].op = "none"
  BY <1>1, ErrandFacts
<1>6. \A j \in Clerks : ErrandGood(j)'
  <2> SUFFICES ASSUME NEW j \in Clerks PROVE ErrandGood(j)'
    OBVIOUS
  <2>1. CASE j = k
    <3>1. clerk'[j] = errand
      BY <1>2, <2>1
    <3>2. ASSUME errand.op = "ask", NEW i \in Clerks \ {k}
          PROVE  ~(clerk'[i].op = "ask" /\ clerk'[i].ref = errand.ref)
      BY <1>2, <3>2 DEF NoneInFlight
    <3> QED BY <1>1, <2>1, <3>1, <3>2 DEF ErrandGood
  <2>2. CASE j # k
    <3>1. clerk'[j] = clerk[j] /\ ErrandGood(j)
      BY <1>2, <2>2 DEF CaseInductive
    <3>2. ASSUME clerk[j].op = "ask"
          PROVE  ~(errand.op = "ask" /\ errand.ref = clerk[j].ref)
      BY <3>2 DEF NoneInFlight
    <3> QED BY <1>1, <1>2, <3>1, <3>2 DEF ErrandGood
  <2> QED BY <2>1, <2>2
<1>7. \A r \in CaseReferrals : FileGood(cases'[r])
  BY <1>1 DEF CaseInductive
<1>8. FilesStep
  BY <1>1 DEF FilesStep
<1>9. CaseInductive'
  BY <1>2, <1>4, <1>6, <1>7 DEF CaseInductive, FileGood
<1> QED BY <1>8, <1>9

\* One file is changed: it stays open, its plans stay, and what the other requests
\* rely on stays.
LEMMA FileKeeps ==
  ASSUME CaseInductive, NEW r \in CaseReferrals, NEW row \in Case, FileGood(row),
         cases' = [cases EXCEPT ![r] = row], UNCHANGED received,
         clerk' \in [Clerks -> Errand], caseSteps' \in 0..CaseSteps,
         \A k \in Clerks : clerk'[k] = clerk[k] \/ clerk'[k].op = "none",
         cases[r].status # "none" =>
           /\ row.status # "none"
           /\ \A p \in Plans : cases[r].plans[p] # "none" => row.plans[p] # "none",
         cases[r].ask # "none" => row.ask # "none",
         row.ask # "none" =>
           \/ cases[r].ask # "none"
           \/ \A k \in Clerks : ~(clerk'[k].op = "ask" /\ clerk'[k].ref = r)
  PROVE  CaseInductive' /\ FilesStep
<1>1. cases \in [CaseReferrals -> Case] /\ received \subseteq CaseReferrals
  BY DEF CaseInductive, CaseTypeOK
<1>2. \A s \in CaseReferrals : cases'[s] = IF s = r THEN row ELSE cases[s]
  BY <1>1
<1>3. \A k \in Clerks : clerk'[k] = AtRest \/ clerk'[k].ref \in CaseReferrals
  BY ErrandFacts
<1>4. CaseTypeOK'
  BY <1>1, <1>3 DEF CaseTypeOK
<1>5. \A s \in CaseReferrals : FileGood(cases'[s])
  BY <1>2 DEF CaseInductive
<1>6. ASSUME NEW k \in Clerks PROVE ErrandGood(k)'
  <2> SUFFICES ASSUME clerk'[k].op # "none"
               PROVE  /\ clerk'[k].op # "open" => cases'[clerk'[k].ref].status # "none"
                      /\ clerk'[k].op = "ask" =>
                           /\ cases'[clerk'[k].ref].ask = "none"
                           /\ \A j \in Clerks \ {k} : ~(clerk'[j].op = "ask" /\ clerk'[j].ref = clerk'[k].ref)
                      /\ clerk'[k].op = "answer" => cases'[clerk'[k].ref].ask # "none"
    BY DEF ErrandGood
  <2>1. clerk'[k] = clerk[k] /\ clerk'[k].ref \in CaseReferrals /\ ErrandGood(k)
    BY ErrandFacts DEF CaseInductive
  <2>2. \A j \in Clerks : clerk'[j].op = "ask" => clerk'[j] = clerk[j]
    OBVIOUS
  <2>3. clerk'[k].op # "open" => cases'[clerk'[k].ref].status # "none"
    BY <1>2, <2>1 DEF ErrandGood
  <2>4. clerk'[k].op = "answer" => cases'[clerk'[k].ref].ask # "none"
    BY <1>2, <2>1 DEF ErrandGood
  <2>5. ASSUME clerk'[k].op = "ask"
        PROVE  /\ cases'[clerk'[k].ref].ask = "none"
               /\ \A j \in Clerks \ {k} : ~(clerk'[j].op = "ask" /\ clerk'[j].ref = clerk'[k].ref)
    BY <1>2, <2>1, <2>2, <2>5 DEF ErrandGood
  <2> QED BY <2>3, <2>4, <2>5
<1>7. FilesStep
  BY <1>2 DEF FilesStep
<1>8. CaseInductive'
  BY <1>4, <1>5, <1>6 DEF CaseInductive, FileGood
<1> QED BY <1>7, <1>8

\* A request that writes: its errand, the file it names, and what is left of the errands.
LEMMA WriteKeeps ==
  ASSUME CaseInductive, NEW k \in Clerks, clerk[k].op # "none", NEW row \in Case, FileGood(row),
         Write(k, clerk[k].ref, row),
         cases[clerk[k].ref].status # "none" =>
           /\ row.status # "none"
           /\ \A p \in Plans : cases[clerk[k].ref].plans[p] # "none" => row.plans[p] # "none",
         cases[clerk[k].ref].ask # "none" => row.ask # "none",
         row.ask # "none" => cases[clerk[k].ref].ask # "none" \/ clerk[k].op = "ask"
  PROVE  CaseInductive' /\ FilesStep
<1> DEFINE r == clerk[k].ref
<1>1. clerk \in [Clerks -> Errand] /\ r \in CaseReferrals
  BY ErrandFacts DEF CaseInductive
<1>2. cases' = [cases EXCEPT ![r] = row] /\ clerk' = [clerk EXCEPT ![k] = AtRest]
      /\ UNCHANGED <<received, caseSteps>>
  BY DEF Write
<1>3. AtRest \in Errand /\ AtRest.op = "none"
  BY DEF AtRest, Errand
<1>4. clerk' \in [Clerks -> Errand] /\ \A j \in Clerks : clerk'[j] = IF j = k THEN AtRest ELSE clerk[j]
  BY <1>1, <1>2, <1>3
<1>5. ASSUME clerk[k].op = "ask" PROVE \A j \in Clerks : ~(clerk'[j].op = "ask" /\ clerk'[j].ref = r)
  BY <1>3, <1>4, <1>5 DEF CaseInductive, ErrandGood
<1>6. caseSteps' \in 0..CaseSteps
  BY <1>2 DEF CaseInductive, CaseTypeOK
<1>7. row.ask # "none" =>
        \/ cases[r].ask # "none"
        \/ \A j \in Clerks : ~(clerk'[j].op = "ask" /\ clerk'[j].ref = r)
  BY <1>5
<1> HIDE DEF r
<1>8. \A j \in Clerks : clerk'[j] = clerk[j] \/ clerk'[j].op = "none"
  BY <1>3, <1>4
<1>9. UNCHANGED received
  BY <1>2
<1> USE DEF r
<1> QED BY <1>1, <1>2, <1>4, <1>6, <1>7, <1>8, <1>9, FileKeeps

\* The requests as they begin: open_counselor_case to respond_to_request up to their
\* first write.
LEMMA ChecksKeep ==
  ASSUME CaseInductive, NEW k \in Clerks, NEW r \in CaseReferrals,
         \/ OpenCheck(k, r) \/ ReopenCheck(k, r) \/ SessionCheck(k, r) \/ AskCheck(k, r)
         \/ AnswerCheck(k, r)
         \/ \E to \in LiveStatus : StatusCheck(k, r, to)
         \/ \E p \in Plans, to \in PlanStatus : PlanCheck(k, r, p, to)
         \/ \E p \in Plans, to \in {"PENDING", "COMPLETED"} : ActivityCheck(k, r, p, to)
  PROVE  CaseInductive' /\ FilesStep
<1>1. FileGood(cases[r]) /\ (Live(r) => cases[r].status # "none")
  BY DEF CaseInductive, Live, LiveStatus
<1>2. cases[r].status = "none" =>
        /\ cases[r].ask = "none" /\ \A p \in Plans : cases[r].activity[p] = "none"
  BY <1>1 DEF FileGood, NoCase
<1>3. ASSUME NEW op \in {"open", "reopen", "session", "ask", "answer"}, Begin(k, [op |-> op, ref |-> r]),
             op # "open" => cases[r].status # "none",
             op = "ask" => cases[r].ask = "none" /\ NoneInFlight("ask", r),
             op = "answer" => cases[r].ask # "none"
      PROVE  CaseInductive' /\ FilesStep
  <2> DEFINE e == [op |-> op, ref |-> r]
  <2>1. e \in Errand /\ e.op = op /\ e.ref = r
    BY DEF Errand
  <2>2. Begin(k, e)
    BY <1>3
  <2> HIDE DEF e
  <2> QED BY <1>3, <2>1, <2>2, BeginKeeps
<1>4. CASE OpenCheck(k, r)
  BY <1>3, <1>4 DEF OpenCheck
<1>5. CASE ReopenCheck(k, r)
  BY <1>3, <1>5 DEF ReopenCheck
<1>6. CASE SessionCheck(k, r)
  BY <1>1, <1>3, <1>6 DEF SessionCheck
<1>7. CASE AskCheck(k, r)
  BY <1>1, <1>3, <1>7 DEF AskCheck
<1>8. CASE AnswerCheck(k, r)
  BY <1>2, <1>3, <1>8 DEF AnswerCheck
<1>9. ASSUME NEW to \in LiveStatus, StatusCheck(k, r, to) PROVE CaseInductive' /\ FilesStep
  <2> DEFINE e == [op |-> "status", ref |-> r, to |-> to]
  <2>1. e \in Errand /\ e.op = "status" /\ e.ref = r
    BY DEF Errand
  <2>2. Begin(k, e) /\ cases[r].status # "none"
    BY <1>1, <1>9 DEF StatusCheck
  <2> HIDE DEF e
  <2> QED BY <2>1, <2>2, BeginKeeps
<1>10. ASSUME NEW p \in Plans, NEW to \in PlanStatus, PlanCheck(k, r, p, to) PROVE CaseInductive' /\ FilesStep
  <2> DEFINE e == [op |-> "plan", ref |-> r, plan |-> p, to |-> to]
  <2>1. Begin(k, e) /\ cases[r].status # "none" /\ to # "none"
    BY <1>10 DEF PlanCheck, Finished
  <2>2. e \in Errand /\ e.op = "plan" /\ e.ref = r
    BY <2>1 DEF Errand
  <2> HIDE DEF e
  <2> QED BY <2>1, <2>2, BeginKeeps
<1>11. ASSUME NEW p \in Plans, NEW to \in {"PENDING", "COMPLETED"}, ActivityCheck(k, r, p, to)
       PROVE  CaseInductive' /\ FilesStep
  <2> DEFINE e == [op |-> "activity", ref |-> r, plan |-> p, to |-> to]
  <2>1. Begin(k, e) /\ cases[r].status # "none"
    BY <1>1, <1>2, <1>11 DEF ActivityCheck
  <2>2. e \in Errand /\ e.op = "activity" /\ e.ref = r
    BY DEF Errand
  <2> HIDE DEF e
  <2> QED BY <2>1, <2>2, BeginKeeps
<1> QED BY <1>4, <1>5, <1>6, <1>7, <1>8, <1>9, <1>10, <1>11

\* The requests as they write, or give up.
LEMMA SavesKeep ==
  ASSUME CaseInductive, NEW k \in Clerks,
         \/ OpenSave(k) \/ StatusSave(k) \/ ReopenSave(k) \/ PlanSave(k) \/ ActivitySave(k)
         \/ SessionSave(k) \/ AskSave(k) \/ AnswerSave(k)
  PROVE  CaseInductive' /\ FilesStep
<1> DEFINE r == clerk[k].ref
           old == cases[r]
<1>1. clerk[k] \in Errand /\ ErrandGood(k) /\ cases \in [CaseReferrals -> Case]
  BY DEF CaseInductive, CaseTypeOK
<1>2. ASSUME clerk[k].op # "none" PROVE r \in CaseReferrals /\ old \in Case /\ FileGood(old)
  BY <1>1, <1>2, ErrandFacts DEF CaseInductive
<1>3. CASE OpenSave(k)
  <2> DEFINE opened == [NoCase EXCEPT !.status = "OPEN"]
             row == IF Unopened(r) THEN opened ELSE old
  <2>1. NoCase \in Case /\ NoCase.ask = "none" /\ NoCase.answers = 0 /\ \A p \in Plans : NoCase.plans[p] = "none"
    BY DEF NoCase, Case, PlanStatus
  <2>2. /\ opened \in Case /\ opened.status = "OPEN" /\ opened.ask = "none" /\ opened.answers = 0
        /\ opened.plans = NoCase.plans
    BY <2>1 DEF Case, LiveStatus
  <2>3. clerk[k].op # "none" /\ Write(k, r, row)
    BY <1>3 DEF OpenSave
  <2> HIDE DEF opened
  <2>4. FileGood(opened)
    BY <2>1, <2>2 DEF FileGood
  <2>5. Unopened(r) => old.status = "none" /\ old = NoCase
    BY <1>2, <2>3 DEF Unopened, FileGood
  <2>6. /\ row \in Case /\ FileGood(row)
        /\ old.status # "none" => row = old
        /\ old.ask # "none" <=> row.ask # "none"
    BY <1>2, <2>1, <2>2, <2>3, <2>4, <2>5 DEF Unopened
  <2> HIDE DEF row
  <2> QED BY <2>3, <2>6, WriteKeeps
<1>4. ASSUME NEW s \in LiveStatus, clerk[k].op \in {"status", "reopen"}, Write(k, r, [old EXCEPT !.status = s])
      PROVE  CaseInductive' /\ FilesStep
  <2> DEFINE row == [old EXCEPT !.status = s]
  <2>1. old \in Case /\ FileGood(old) /\ s # "none"
    BY <1>2, <1>4 DEF LiveStatus
  <2>2. /\ row \in Case /\ row.status = s /\ row.ask = old.ask /\ row.answers = old.answers
        /\ row.plans = old.plans
    BY <2>1 DEF Case
  <2>3. Write(k, r, row)
    BY <1>4
  <2> HIDE DEF row
  <2>4. FileGood(row)
    BY <2>1, <2>2 DEF FileGood
  <2> QED BY <1>4, <2>1, <2>2, <2>3, <2>4, WriteKeeps
<1>5. CASE StatusSave(k)
  BY <1>1, <1>4, <1>5, ErrandFacts DEF StatusSave
<1>6. CASE ReopenSave(k)
  BY <1>4, <1>6 DEF ReopenSave, LiveStatus
<1>7. CASE PlanSave(k)
  <2> DEFINE p == clerk[k].plan
             to == clerk[k].to
             may == to # "ACTIVE" \/ MayActivate(old, p)
             plans == [old.plans EXCEPT ![p] = to]
             new == [old EXCEPT !.plans = plans]
             row == IF may THEN new ELSE old
  <2>1. clerk[k].op = "plan" /\ Write(k, r, IF may THEN [old EXCEPT !.plans[p] = to] ELSE old)
    BY <1>7, Zenon DEF PlanSave
  <2>2. /\ p \in Plans /\ to \in PlanStatus \ {"none"} /\ old \in Case /\ FileGood(old)
        /\ old.status # "none"
    BY <1>1, <1>2, <2>1, ErrandFacts DEF ErrandGood
  <2>3. Write(k, r, row)
    BY <2>1
  <2>4. may => (to = "ACTIVE" => \A q \in Plans \ {p} : old.plans[q] # "ACTIVE")
    BY DEF MayActivate
  <2> HIDE DEF p, to, may
  <2>5. plans \in [Plans -> PlanStatus] /\ \A q \in Plans : plans[q] = IF q = p THEN to ELSE old.plans[q]
    BY <2>2 DEF Case
  <2> HIDE DEF plans
  <2>6. /\ new \in Case /\ new.status = old.status /\ new.ask = old.ask /\ new.answers = old.answers
        /\ new.plans = plans
    BY <2>2, <2>5 DEF Case
  <2> HIDE DEF new
  <2>7. may => FileGood(new)
    BY <2>2, <2>4, <2>5, <2>6 DEF FileGood
  <2>8. /\ row \in Case /\ FileGood(row) /\ row.status = old.status /\ row.ask = old.ask
        /\ \A q \in Plans : old.plans[q] # "none" => row.plans[q] # "none"
    BY <2>2, <2>5, <2>6, <2>7
  <2> HIDE DEF row
  <2> QED BY <2>1, <2>2, <2>3, <2>8, WriteKeeps
<1>8. CASE ActivitySave(k)
  <2> DEFINE activity == [old.activity EXCEPT ![clerk[k].plan] = clerk[k].to]
             row == [old EXCEPT !.activity = activity]
  <2>1. clerk[k].op = "activity" /\ Write(k, r, row)
    BY <1>8 DEF ActivitySave
  <2>2. clerk[k].to \in {"PENDING", "COMPLETED"} /\ old \in Case /\ FileGood(old) /\ old.status # "none"
    BY <1>1, <1>2, <2>1, ErrandFacts DEF ErrandGood
  <2>3. activity \in [Plans -> {"none", "PENDING", "COMPLETED", "CANCELLED"}]
    BY <2>2 DEF Case
  <2> HIDE DEF activity
  <2>4. /\ row \in Case /\ row.status = old.status /\ row.ask = old.ask /\ row.answers = old.answers
        /\ row.plans = old.plans
    BY <2>2, <2>3 DEF Case
  <2> HIDE DEF row
  <2>5. FileGood(row)
    BY <2>2, <2>4 DEF FileGood
  <2> QED BY <2>1, <2>2, <2>4, <2>5, WriteKeeps
<1>9. CASE SessionSave(k)
  <2> DEFINE row == [old EXCEPT !.meeting = "RECORDED"]
  <2>1. clerk[k].op = "session" /\ Write(k, r, row)
    BY <1>9 DEF SessionSave
  <2>2. old \in Case /\ FileGood(old) /\ old.status # "none"
    BY <1>1, <1>2, <2>1 DEF ErrandGood
  <2>3. /\ row \in Case /\ row.status = old.status /\ row.ask = old.ask /\ row.answers = old.answers
        /\ row.plans = old.plans
    BY <2>2 DEF Case
  <2> HIDE DEF row
  <2>4. FileGood(row)
    BY <2>2, <2>3 DEF FileGood
  <2> QED BY <2>1, <2>2, <2>3, <2>4, WriteKeeps
<1>10. CASE AskSave(k)
  <2> DEFINE row == [old EXCEPT !.ask = "PENDING"]
  <2>1. clerk[k].op = "ask" /\ Write(k, r, row)
    BY <1>10 DEF AskSave
  <2>2. old \in Case /\ FileGood(old) /\ old.status # "none" /\ old.ask = "none"
    BY <1>1, <1>2, <2>1 DEF ErrandGood
  <2>3. /\ row \in Case /\ row.status = old.status /\ row.ask = "PENDING" /\ row.answers = old.answers
        /\ row.plans = old.plans
    BY <2>2 DEF Case
  <2> HIDE DEF row
  <2>4. FileGood(row)
    BY <2>2, <2>3 DEF FileGood
  <2> QED BY <2>1, <2>2, <2>3, <2>4, WriteKeeps
<1>11. CASE AnswerSave(k)
  <2> DEFINE n == old.answers + 1
             new == [old EXCEPT !.answers = n, !.ask = "ANSWERED"]
             row == IF Unanswered(old) THEN new ELSE old
  <2>1. clerk[k].op = "answer" /\ Write(k, r, row)
    BY <1>11, Zenon DEF AnswerSave
  <2>2. old \in Case /\ FileGood(old) /\ old.status # "none" /\ old.ask # "none"
    BY <1>1, <1>2, <2>1 DEF ErrandGood
  <2>3. Unanswered(old) => n = 1
    BY DEF Unanswered
  <2>4. n \in Nat
    BY <2>2 DEF FileGood
  <2> HIDE DEF n
  <2>5. /\ new \in Case /\ new.status = old.status /\ new.ask = "ANSWERED" /\ new.answers = n
        /\ new.plans = old.plans
    BY <2>2, <2>4 DEF Case
  <2> HIDE DEF new
  <2>6. Unanswered(old) => FileGood(new)
    BY <2>2, <2>3, <2>5 DEF FileGood
  <2>7. /\ row \in Case /\ FileGood(row) /\ row.status = old.status /\ row.ask # "none" /\ row.plans = old.plans
    BY <2>2, <2>5, <2>6
  <2> HIDE DEF row
  <2> QED BY <2>1, <2>2, <2>7, WriteKeeps
<1> QED BY <1>3, <1>5, <1>6, <1>7, <1>8, <1>9, <1>10, <1>11

\* Every step keeps the strengthening, what was opened and the plans.
LEMMA CasesStep == CaseInductive /\ CaseNext => CaseInductive' /\ FilesStep
<1> SUFFICES ASSUME CaseInductive, CaseNext PROVE CaseInductive' /\ FilesStep
  OBVIOUS
<1>1. /\ clerk \in [Clerks -> Errand] /\ cases \in [CaseReferrals -> Case] /\ received \subseteq CaseReferrals
      /\ caseSteps \in 0..CaseSteps /\ \A r \in CaseReferrals : FileGood(cases[r])
      /\ \A k \in Clerks : ErrandGood(k) /\ (clerk[k] = AtRest \/ clerk[k].ref \in CaseReferrals)
  BY DEF CaseInductive, CaseTypeOK
<1>2. caseSteps < CaseSteps => caseSteps + 1 \in 0..CaseSteps
  BY <1>1, CaseBounds
<1>3. ASSUME NEW r \in CaseReferrals, ReferralMoves(r) PROVE CaseInductive' /\ FilesStep
  <2>1. received' \subseteq CaseReferrals /\ caseSteps' \in 0..CaseSteps /\ UNCHANGED <<cases, clerk>>
    BY <1>1, <1>2, <1>3 DEF ReferralMoves
  <2>2. CaseTypeOK'
    BY <1>1, <2>1 DEF CaseTypeOK
  <2> QED BY <1>1, <2>1, <2>2 DEF CaseInductive, ErrandGood, FileGood, FilesStep
<1>4. ASSUME NEW r \in CaseReferrals, CloseCase(r) PROVE CaseInductive' /\ FilesStep
  <2> DEFINE old == cases[r]
             plans == [p \in Plans |-> Completed(old.plans[p])]
             activity == [p \in Plans |-> IF old.activity[p] = "PENDING" THEN "CANCELLED" ELSE old.activity[p]]
             ask == Withdrawn(old.ask)
             row == [old EXCEPT !.status = "CLOSED", !.plans = plans, !.activity = activity, !.ask = ask]
  <2>1. old \in Case /\ FileGood(old) /\ Live(r)
    BY <1>1, <1>4 DEF CloseCase
  <2>2. cases' = [cases EXCEPT ![r] = row] /\ UNCHANGED <<received, clerk>>
        /\ caseSteps' = caseSteps + 1 /\ caseSteps < CaseSteps
    <3>1. cases' = [cases EXCEPT ![r] = row]
      BY <1>4, Zenon DEF CloseCase
    <3>2. /\ UNCHANGED <<received, clerk>>
          /\ caseSteps' = caseSteps + 1 /\ caseSteps < CaseSteps
      BY <1>4 DEF CloseCase
    <3> QED BY <3>1, <3>2
  <2>3. plans \in [Plans -> PlanStatus]
        /\ \A p \in Plans : /\ plans[p] = "ACTIVE" => old.plans[p] = "ACTIVE"
                            /\ old.plans[p] # "none" => plans[p] # "none"
    BY <2>1 DEF Case, Completed, PlanStatus
  <2>4. activity \in [Plans -> {"none", "PENDING", "COMPLETED", "CANCELLED"}]
    BY <2>1 DEF Case
  <2>5. ask \in {"none", "PENDING", "ANSWERED", "CANCELLED"}
        /\ (ask = "ANSWERED" <=> old.ask = "ANSWERED") /\ (ask = "none" <=> old.ask = "none")
    BY <2>1 DEF Case, Withdrawn
  <2> HIDE DEF plans, activity, ask
  <2>6. row \in Case /\ row.status = "CLOSED" /\ row.plans = plans /\ row.ask = ask /\ row.answers = old.answers
    BY <2>1, <2>3, <2>4, <2>5 DEF Case
  <2> HIDE DEF row
  <2>7. FileGood(row)
    BY <2>1, <2>3, <2>5, <2>6 DEF FileGood
  <2>8. old.status # "none" =>
           /\ row.status # "none"
           /\ \A p \in Plans : old.plans[p] # "none" => row.plans[p] # "none"
    BY <2>3, <2>6
  <2>9. row.ask # "none" <=> old.ask # "none"
    BY <2>5, <2>6
  <2>10. caseSteps' \in 0..CaseSteps /\ clerk' \in [Clerks -> Errand]
         /\ \A k \in Clerks : clerk'[k] = clerk[k]
    BY <1>1, <1>2, <2>2
  <2> QED BY <2>2, <2>6, <2>7, <2>8, <2>9, <2>10, FileKeeps
<1>5. ASSUME NEW r \in CaseReferrals, VoidSession(r) PROVE CaseInductive' /\ FilesStep
  <2> DEFINE old == cases[r]
             row == [old EXCEPT !.meeting = "VOIDED"]
  <2>1. cases' = [cases EXCEPT ![r] = row] /\ UNCHANGED <<received, clerk>>
        /\ caseSteps' = caseSteps + 1 /\ caseSteps < CaseSteps /\ old.meeting = "RECORDED"
    BY <1>1, <1>5 DEF VoidSession
  <2>2. old \in Case /\ FileGood(old) /\ old.status # "none"
    BY <1>1, <2>1 DEF FileGood, NoCase
  <2>3. /\ row \in Case /\ row.status = old.status /\ row.ask = old.ask /\ row.answers = old.answers
        /\ row.plans = old.plans
    BY <2>2 DEF Case
  <2> HIDE DEF row
  <2>4. FileGood(row)
    BY <2>2, <2>3 DEF FileGood
  <2>5. caseSteps' \in 0..CaseSteps /\ clerk' \in [Clerks -> Errand]
        /\ \A k \in Clerks : clerk'[k] = clerk[k]
    BY <1>1, <1>2, <2>1
  <2> QED BY <2>1, <2>3, <2>4, <2>5, FileKeeps
<1> QED BY <1>3, <1>4, <1>5, ChecksKeep, SavesKeep DEF CaseNext

\* The strengthening holds of every behaviour.
LEMMA CaseAlways == CaseSpec => []CaseInductive
<1>1. CaseInductive /\ [CaseNext]_caseVars => CaseInductive'
  <2>1. CaseInductive /\ UNCHANGED caseVars => CaseInductive'
    BY DEF caseVars, CaseInductive, CaseTypeOK, FileGood, ErrandGood
  <2> QED BY <2>1, CasesStep
<1> QED BY CaseStart, <1>1, PTL DEF CaseSpec

\* At most one of them is at most one counted.
LEMMA AtMostOne ==
  ASSUME NEW S, \A x, y \in S : x = y
  PROVE  Cardinality(S) <= 1
<1>1. CASE S = {}
  BY <1>1, FS_EmptySet
<1>2. CASE S # {}
  <2>1. PICK x \in S : TRUE
    BY <1>2
  <2>2. S = {x}
    BY <2>1
  <2>3. Cardinality(S) = 1
    BY <2>2, FS_Singleton
  <2> QED BY <2>3
<1> QED BY <1>1, <1>2

\* Racing requests leave one active plan and answers as they were sent (the partial
\* unique constraint, the one to one response, close_case).
THEOREM FilesHold == CaseSpec => []FilesInvariant
<1>1. CaseInductive => FilesInvariant
  <2> SUFFICES ASSUME CaseInductive PROVE OneActivePlan /\ AnswerKept
    BY DEF FilesInvariant
  <2>1. ASSUME NEW r \in CaseReferrals PROVE Cardinality({p \in Plans : cases[r].plans[p] = "ACTIVE"}) <= 1
    <3>1. \A p, q \in {p \in Plans : cases[r].plans[p] = "ACTIVE"} : p = q
      BY DEF CaseInductive, FileGood
    <3> HIDE DEF CaseInductive
    <3> QED BY <3>1, AtMostOne
  <2>2. AnswerKept
    BY DEF CaseInductive, FileGood, AnswerKept
  <2> QED BY <2>1, <2>2 DEF OneActivePlan
<1> QED BY CaseAlways, <1>1, PTL

\* A file that was opened keeps its plans (uniq_case_per_referral).
THEOREM FilesAreKept == CaseSpec => OpenedOnce
<1>1. CaseInductive /\ [CaseNext]_caseVars
        => [\A r \in CaseReferrals : cases[r].status # "none" =>
              /\ cases'[r].status # "none"
              /\ \A p \in Plans : cases[r].plans[p] # "none" => cases'[r].plans[p] # "none"]_caseVars
  BY CasesStep DEF FilesStep
<1> QED BY CaseAlways, <1>1, PTL DEF CaseSpec, OpenedOnce

-----------------------------------------------------------------------------
(* The leaves.                                                             *)

\* A leave that a request holds stands and nobody left with it, and no other request
\* holds it; two leaves of one day do not both stand.
LeaveInductive ==
  /\ LeaveTypeOK
  /\ \A l \in Leaves : leaves[l].released => leaves[l].status = "ACTIVE"
  /\ \A k, l \in Leaves : leaves[k].status = "ACTIVE" /\ leaves[l].status = "ACTIVE"
                          /\ leaves[k].day = leaves[l].day => k = l
  /\ \A d \in Desk : \A l \in intent[d].held :
       /\ leaves[l].status = "ACTIVE" /\ ~leaves[l].released
       /\ intent[d].op # "none" /\ intent[d].held = {l}
       /\ \A e \in Desk \ {d} : l \notin intent[e].held

\* Nothing stands before the office records a leave.
LEMMA LeaveStart == LeaveInit => LeaveInductive
BY LeaveBounds DEF LeaveInit, LeaveInductive, LeaveTypeOK, Leave, NoIntent

\* Recording, examining and concluding keep the strengthening.
LEMMA LeaveStep == LeaveInductive /\ LeaveNext => LeaveInductive'
<1> SUFFICES ASSUME LeaveInductive, LeaveNext PROVE LeaveInductive'
  OBVIOUS
<1>1. /\ leaves \in [Leaves -> Leave] /\ today \in 1..LeaveDays
      /\ intent \in [Desk -> [op: {"none", "cancel", "release"}, held: SUBSET Leaves]]
  BY DEF LeaveInductive, LeaveTypeOK
<1>2. ASSUME NEW l \in Leaves, NEW day \in 1..LeaveDays, RecordLeave(l, day) PROVE LeaveInductive'
  <2> DEFINE new == [status |-> "ACTIVE", day |-> day, released |-> FALSE]
  <2>1. /\ leaves[l].status = "none" /\ leaves' = [leaves EXCEPT ![l] = new] /\ UNCHANGED <<intent, today>>
        /\ \A k \in Leaves : ~(leaves[k].status = "ACTIVE" /\ leaves[k].day = day)
    BY <1>2 DEF RecordLeave, Standing
  <2>2. new \in Leave /\ new.status = "ACTIVE" /\ new.day = day /\ new.released = FALSE
    BY DEF Leave
  <2> HIDE DEF new
  <2>3. \A k \in Leaves : leaves'[k] = IF k = l THEN new ELSE leaves[k]
    BY <1>1, <2>1
  <2>4. LeaveTypeOK'
    BY <1>1, <2>1, <2>2 DEF LeaveTypeOK
  <2>5. \A d \in Desk : l \notin intent[d].held
    BY <2>1 DEF LeaveInductive
  <2>6. \A d \in Desk : \A k \in intent'[d].held : leaves'[k] = leaves[k]
    BY <1>1, <2>1, <2>3, <2>5
  <2>7. \A d \in Desk : \A k \in intent'[d].held :
          /\ leaves'[k].status = "ACTIVE" /\ ~leaves'[k].released
          /\ intent'[d].op # "none" /\ intent'[d].held = {k}
          /\ \A e \in Desk \ {d} : k \notin intent'[e].held
    BY <2>1, <2>6 DEF LeaveInductive
  <2>8. \A k \in Leaves : leaves'[k].released => leaves'[k].status = "ACTIVE"
    BY <2>2, <2>3 DEF LeaveInductive
  <2>9. \A j, k \in Leaves : leaves'[j].status = "ACTIVE" /\ leaves'[k].status = "ACTIVE"
                             /\ leaves'[j].day = leaves'[k].day => j = k
    BY <2>1, <2>2, <2>3 DEF LeaveInductive
  <2> QED BY <2>4, <2>7, <2>8, <2>9 DEF LeaveInductive
<1>3. ASSUME NEW d \in Desk, NEW l \in Leaves, NEW op \in {"cancel", "release"}, Examine(d, l, op)
      PROVE  LeaveInductive'
  <2> DEFINE new == [op |-> op, held |-> {l}]
  <2>1. /\ intent[d] = NoIntent /\ \A e \in Desk : l \notin intent[e].held
        /\ leaves[l].status = "ACTIVE" /\ ~leaves[l].released
        /\ intent' = [intent EXCEPT ![d] = new] /\ UNCHANGED <<leaves, today>>
    BY <1>3 DEF Examine, RowFree
  <2>2. new \in [op: {"none", "cancel", "release"}, held: SUBSET Leaves] /\ new.op # "none" /\ new.held = {l}
    OBVIOUS
  <2> HIDE DEF new
  <2>3. \A e \in Desk : intent'[e] = IF e = d THEN new ELSE intent[e]
    BY <1>1, <2>1
  <2>4. LeaveTypeOK'
    BY <1>1, <2>1, <2>2 DEF LeaveTypeOK
  <2>5. \A e \in Desk : \A k \in intent'[e].held :
          /\ leaves'[k].status = "ACTIVE" /\ ~leaves'[k].released
          /\ intent'[e].op # "none" /\ intent'[e].held = {k}
          /\ \A f \in Desk \ {e} : k \notin intent'[f].held
    BY <2>1, <2>2, <2>3 DEF LeaveInductive
  <2> QED BY <2>1, <2>4, <2>5 DEF LeaveInductive
<1>4. ASSUME NEW d \in Desk, NEW l \in Leaves, Conclude(d, l) PROVE LeaveInductive'
  <2> DEFINE new == Saved(leaves[l], intent[d].op)
  <2>1. /\ l \in intent[d].held /\ leaves' = [leaves EXCEPT ![l] = new]
        /\ intent' = [intent EXCEPT ![d] = NoIntent] /\ UNCHANGED today
    BY <1>1, <1>4 DEF Conclude
  <2>2. /\ leaves[l] \in Leave /\ leaves[l].status = "ACTIVE" /\ intent[d].held = {l}
        /\ \A e \in Desk \ {d} : l \notin intent[e].held
    BY <1>1, <2>1 DEF LeaveInductive
  <2>3. /\ new \in Leave /\ new.day = leaves[l].day
        /\ new.released => new.status = "ACTIVE"
    BY <2>2, <2>1 DEF Saved, Leave, LeaveInductive
  <2> HIDE DEF new
  <2>4. \A k \in Leaves : leaves'[k] = IF k = l THEN new ELSE leaves[k]
    BY <1>1, <2>1
  <2>5. NoIntent \in [op: {"none", "cancel", "release"}, held: SUBSET Leaves] /\ NoIntent.held = {}
    BY DEF NoIntent
  <2>6. \A e \in Desk : intent'[e] = IF e = d THEN NoIntent ELSE intent[e]
    BY <1>1, <2>1
  <2>7. LeaveTypeOK'
    BY <1>1, <2>1, <2>3, <2>5 DEF LeaveTypeOK
  <2>8. \A e \in Desk : \A k \in intent'[e].held : e # d /\ k # l /\ leaves'[k] = leaves[k] /\ k \in intent[e].held
    BY <1>1, <2>2, <2>4, <2>5, <2>6
  <2>9. \A e \in Desk : \A k \in intent'[e].held :
          /\ leaves'[k].status = "ACTIVE" /\ ~leaves'[k].released
          /\ intent'[e].op # "none" /\ intent'[e].held = {k}
          /\ \A f \in Desk \ {e} : k \notin intent'[f].held
    BY <2>5, <2>6, <2>8 DEF LeaveInductive
  <2>10. \A k \in Leaves : leaves'[k].released => leaves'[k].status = "ACTIVE"
    BY <2>3, <2>4 DEF LeaveInductive
  <2>11. \A k \in Leaves : leaves'[k].day = leaves[k].day
                           /\ (leaves'[k].status = "ACTIVE" => leaves[k].status = "ACTIVE")
    BY <2>2, <2>3, <2>4
  <2>12. \A j, k \in Leaves : leaves'[j].status = "ACTIVE" /\ leaves'[k].status = "ACTIVE"
                              /\ leaves'[j].day = leaves'[k].day => j = k
    BY <2>11 DEF LeaveInductive
  <2> QED BY <2>7, <2>9, <2>10, <2>12 DEF LeaveInductive
<1>5. CASE Midnight
  <2>1. today' \in 1..LeaveDays
    BY <1>1, <1>5, LeaveBounds DEF Midnight
  <2> QED BY <1>1, <1>5, <2>1 DEF Midnight, LeaveInductive, LeaveTypeOK
<1> QED BY <1>2, <1>3, <1>4, <1>5 DEF LeaveNext

\* The strengthening holds of every behaviour.
LEMMA LeaveAlways == LeaveSpec => []LeaveInductive
<1>1. LeaveInductive /\ [LeaveNext]_leaveVars => LeaveInductive'
  <2>1. LeaveInductive /\ UNCHANGED leaveVars => LeaveInductive'
    BY DEF leaveVars, LeaveInductive, LeaveTypeOK
  <2> QED BY <2>1, LeaveStep
<1> QED BY LeaveStart, <1>1, PTL DEF LeaveSpec

\* Whoever left holds a leave that stands, and leaves once a day
\* (cancel_student_leave, confirm_gate_release, the unique constraint).
THEOREM ExitsHaveLeaves == LeaveSpec => []LeavesInvariant
<1>1. LeaveInductive => LeavesInvariant
  BY DEF LeaveInductive, LeavesInvariant, LeftWithLeave, OneExit
<1> QED BY LeaveAlways, <1>1, PTL

-----------------------------------------------------------------------------
(* The requests of the guardians.                                          *)

\* A request that was made is of one of the two kinds.
FamilyInductive ==
  /\ FamilyTypeOK /\ RequestsInvariant
  /\ \A p \in Petitions : petitions[p].status # "none" => petitions[p].kind # "none"

\* What a step may do to the requests: one of them is changed, not a decided one.
RequestsStep ==
  \A p \in Petitions : petitions[p].status \in {"APPROVED", "REJECTED", "CANCELLED"}
    => petitions'[p] = petitions[p]

\* Nothing was asked for yet.
LEMMA FamilyStart == FamilyInit => FamilyInductive
<1> SUFFICES ASSUME FamilyInit PROVE FamilyInductive
  OBVIOUS
<1>1. NoPetition \in Petition /\ NoPetition.kind = "none" /\ NoPetition.status = "none"
  BY FamilyBounds DEF NoPetition, Petition, Scopes, OpenRequest
<1>2. \A p \in Petitions : petitions[p] = NoPetition
  BY DEF FamilyInit
<1>3. \A x \in Petitions \cup {Office} : excused[x] = {}
  BY DEF FamilyInit
<1>4. FamilyTypeOK
  <2>1. petitions \in [Petitions -> Petition] /\ \A p \in Petitions : petitions[p].kind # "CORRECTION"
    BY <1>1, <1>2 DEF FamilyInit
  <2>2. excused \in [Petitions \cup {Office} -> Scopes \cup {{}}]
    BY DEF FamilyInit
  <2>3. absences \subseteq Lessons /\ ties \subseteq Relatives /\ reviewed \in BOOLEAN
    BY DEF FamilyInit
  <2>4. familyEvents = 0 /\ FamilyEvents \in Nat
    BY FamilyBounds DEF FamilyInit
  <2>5. familyEvents \in 0..FamilyEvents
    BY <2>4
  <2> QED BY <2>1, <2>2, <2>3, <2>5 DEF FamilyTypeOK
<1>5. ExcusedOnce /\ OneOpenRequest
  BY <1>1, <1>2, <1>3 DEF ExcusedOnce, OneOpenRequest, OpenRequest
<1> QED BY <1>1, <1>2, <1>4, <1>5 DEF FamilyInductive, RequestsInvariant

\* One request is changed, and no other open one is for the same targets.
LEMMA RequestKeeps ==
  ASSUME FamilyInductive, NEW p \in Petitions, NEW row \in Petition, Keep(p, row),
         row.kind = "CORRECTION" => row.status # "NEEDS_INFO",
         row.status # "none" => row.kind # "none",
         petitions[p].status \in OpenRequest \cup {"none"},
         row.status \in OpenRequest =>
           \/ ~Taken(p, row.kind, row.by, row.scope)
           \/ /\ petitions[p].status \in OpenRequest /\ petitions[p].kind = row.kind
              /\ petitions[p].by = row.by /\ petitions[p].scope = row.scope
  PROVE  /\ petitions' \in [Petitions -> Petition] /\ OneOpenRequest' /\ RequestsStep
         /\ \A q \in Petitions : /\ petitions'[q].kind = "CORRECTION" => petitions'[q].status # "NEEDS_INFO"
                                 /\ petitions'[q].status # "none" => petitions'[q].kind # "none"
<1>1. petitions \in [Petitions -> Petition] /\ petitions' = [petitions EXCEPT ![p] = row]
  BY DEF FamilyInductive, FamilyTypeOK, Keep
<1>2. \A q \in Petitions : petitions'[q] = IF q = p THEN row ELSE petitions[q]
  BY <1>1
<1>3. OneOpenRequest
  BY DEF FamilyInductive, RequestsInvariant
<1>4. ASSUME NEW q \in Petitions, q # p, row.status \in OpenRequest, petitions[q].status \in OpenRequest,
             petitions[q].kind = row.kind, petitions[q].scope = row.scope
      PROVE  row.kind = "EXCUSE" /\ petitions[q].by # row.by
  <2>1. CASE ~Taken(p, row.kind, row.by, row.scope)
    <3>1. ~(row.kind = "EXCUSE" => petitions[q].by = row.by)
      BY <1>4, <2>1 DEF Taken, Waiting
    <3> QED BY <3>1
  <2>2. CASE /\ petitions[p].status \in OpenRequest /\ petitions[p].kind = row.kind
             /\ petitions[p].by = row.by /\ petitions[p].scope = row.scope
    BY <1>3, <1>4, <2>2 DEF OneOpenRequest
  <2> QED BY <1>4, <2>1, <2>2
<1>5. OneOpenRequest'
  <2> SUFFICES ASSUME NEW q \in Petitions, NEW t \in Petitions, q # t,
                      petitions'[q].status \in OpenRequest, petitions'[t].status \in OpenRequest,
                      petitions'[q].kind = petitions'[t].kind, petitions'[q].scope = petitions'[t].scope
               PROVE  petitions'[q].kind = "EXCUSE" /\ petitions'[q].by # petitions'[t].by
    BY DEF OneOpenRequest
  <2>1. CASE q = p
    BY <1>2, <1>4, <2>1
  <2>2. CASE t = p
    BY <1>2, <1>4, <2>2
  <2>3. CASE q # p /\ t # p
    BY <1>2, <1>3, <2>3 DEF OneOpenRequest
  <2> QED BY <2>1, <2>2, <2>3
<1>6. RequestsStep
  BY <1>2 DEF RequestsStep, OpenRequest
<1>7. \A q \in Petitions : /\ petitions'[q].kind = "CORRECTION" => petitions'[q].status # "NEEDS_INFO"
                           /\ petitions'[q].status # "none" => petitions'[q].kind # "none"
  BY <1>2 DEF FamilyInductive, FamilyTypeOK
<1> QED BY <1>1, <1>5, <1>6, <1>7

\* An excuse for what no approved excuse covers, or the end of one; what the office
\* approves without that check is marked.
LEMMA ExcuseKeeps ==
  ASSUME FamilyInductive, NEW x \in Petitions \cup {Office}, NEW scope \in Scopes \cup {{}},
         scope # {} => ~Covered(scope) \/ (x = Office /\ reviewed'),
         excused' = [excused EXCEPT ![x] = scope],
         reviewed \in BOOLEAN, reviewed' = reviewed \/ x = Office
  PROVE  excused' \in [Petitions \cup {Office} -> Scopes \cup {{}}] /\ ExcusedOnce'
<1>1. excused \in [Petitions \cup {Office} -> Scopes \cup {{}}] /\ ExcusedOnce
  BY DEF FamilyInductive, FamilyTypeOK, RequestsInvariant
<1>2. \A y \in Petitions \cup {Office} : excused'[y] = IF y = x THEN scope ELSE excused[y]
  BY <1>1
<1>3. ASSUME NEW y \in Petitions \cup {Office}, scope # {}, excused[y] # {}, ~Covered(scope)
      PROVE  "day" \notin excused[y] \cup scope /\ excused[y] \cap scope = {}
  <2>1. ~Covers(excused[y], scope)
    BY <1>1, <1>3 DEF Covered
  <2> QED BY <1>3, <2>1 DEF Covers
<1>4. ExcusedOnce'
  <2> SUFFICES ASSUME NEW y \in Petitions \cup {Office}, NEW z \in Petitions \cup {Office},
                      y # z, excused'[y] # {}, excused'[z] # {}, reviewed' => Office \notin {y, z}
               PROVE  "day" \notin excused'[y] \cup excused'[z] /\ excused'[y] \cap excused'[z] = {}
    BY DEF ExcusedOnce
  <2>1. CASE x \notin {y, z}
    <3>1. reviewed' = reviewed \/ Office \notin {y, z}
      BY <2>1
    <3> QED BY <1>1, <1>2, <2>1, <3>1 DEF ExcusedOnce
  <2>2. CASE x \in {y, z}
    <3>1. scope # {} /\ ~Covered(scope)
      BY <1>2, <2>2
    <3> QED BY <1>2, <1>3, <2>2, <3>1
  <2> QED BY <2>1, <2>2
<1> QED BY <1>1, <1>4

\* Every step keeps the strengthening and changes no decided request.
LEMMA FamilyStep == FamilyInductive /\ FamilyNext => FamilyInductive' /\ RequestsStep
<1> SUFFICES ASSUME FamilyInductive, FamilyNext PROVE FamilyInductive' /\ RequestsStep
  OBVIOUS
<1>1. /\ absences \subseteq Lessons /\ ties \subseteq Relatives
      /\ petitions \in [Petitions -> Petition]
      /\ \A p \in Petitions : petitions[p].kind = "CORRECTION" => petitions[p].status # "NEEDS_INFO"
      /\ \A p \in Petitions : petitions[p].status # "none" => petitions[p].kind # "none"
      /\ excused \in [Petitions \cup {Office} -> Scopes \cup {{}}]
      /\ reviewed \in BOOLEAN /\ familyEvents \in 0..FamilyEvents /\ ExcusedOnce /\ OneOpenRequest
  BY DEF FamilyInductive, FamilyTypeOK, RequestsInvariant
\* The rest follows for a step on one request that leaves the excuses alone.
<1>2. ASSUME NEW p \in Petitions, NEW row \in Petition, Keep(p, row),
             row.kind = "CORRECTION" => row.status # "NEEDS_INFO",
             row.status # "none" => row.kind # "none",
             petitions[p].status \in OpenRequest \cup {"none"},
             row.status \in OpenRequest =>
               \/ ~Taken(p, row.kind, row.by, row.scope)
               \/ /\ petitions[p].status \in OpenRequest /\ petitions[p].kind = row.kind
                  /\ petitions[p].by = row.by /\ petitions[p].scope = row.scope,
             absences' \subseteq Lessons, UNCHANGED <<ties, reviewed, familyEvents>>,
             ExcusedOnce', excused' \in [Petitions \cup {Office} -> Scopes \cup {{}}]
      PROVE  FamilyInductive' /\ RequestsStep
  <2>1. /\ petitions' \in [Petitions -> Petition] /\ OneOpenRequest' /\ RequestsStep
        /\ \A q \in Petitions : /\ petitions'[q].kind = "CORRECTION" => petitions'[q].status # "NEEDS_INFO"
                                /\ petitions'[q].status # "none" => petitions'[q].kind # "none"
    BY <1>2, RequestKeeps
  <2> QED BY <1>1, <1>2, <2>1 DEF FamilyInductive, FamilyTypeOK, RequestsInvariant
<1>3. UNCHANGED <<excused, reviewed>> => ExcusedOnce' /\ excused' \in [Petitions \cup {Office} -> Scopes \cup {{}}]
  BY <1>1 DEF ExcusedOnce
<1>4. UNCHANGED petitions => OneOpenRequest' /\ RequestsStep
  BY <1>1 DEF OneOpenRequest, RequestsStep
<1>5. ASSUME NEW p \in Petitions, NEW kind \in {"EXCUSE", "CORRECTION"}, NEW r \in Relatives,
             NEW scope \in Scopes, SubmitRequest(p, kind, r, scope)
      PROVE  FamilyInductive' /\ RequestsStep
  <2> DEFINE row == [NoPetition EXCEPT !.kind = kind, !.by = r, !.status = "PENDING", !.scope = scope]
  <2>1. /\ row \in Petition /\ row.kind = kind /\ row.by = r /\ row.status = "PENDING" /\ row.scope = scope
    <3>1. NoPetition \in Petition
      BY FamilyBounds DEF NoPetition, Petition, Scopes, OpenRequest
    <3> QED BY <3>1 DEF Petition, OpenRequest
  <2>2. Keep(p, row) /\ ~Taken(p, kind, r, scope) /\ UNCHANGED <<absences, ties, excused, reviewed, familyEvents>>
        /\ petitions[p].status = "none"
    BY <1>5 DEF SubmitRequest, NoPetition
  <2> HIDE DEF row
  <2> QED BY <1>1, <1>2, <1>3, <2>1, <2>2
<1>6. ASSUME NEW p \in Petitions, NEW scope \in Scopes, Resubmit(p, scope) PROVE FamilyInductive' /\ RequestsStep
  <2> DEFINE row == [petitions[p] EXCEPT !.status = "PENDING", !.scope = scope]
  <2>1. petitions[p] \in Petition /\ petitions[p].kind = "EXCUSE" /\ petitions[p].status \in OpenRequest
    BY <1>1, <1>6 DEF Resubmit, Petition, OpenRequest
  <2>2. row \in Petition /\ row.kind = "EXCUSE" /\ row.by = petitions[p].by /\ row.status = "PENDING"
        /\ row.scope = scope
    BY <2>1 DEF Petition, OpenRequest
  <2>3. Keep(p, row) /\ ~Taken(p, "EXCUSE", petitions[p].by, scope)
        /\ UNCHANGED <<absences, ties, excused, reviewed, familyEvents>>
    BY <1>6 DEF Resubmit
  <2> HIDE DEF row
  <2> QED BY <1>1, <1>2, <1>3, <2>1, <2>2, <2>3
<1>7. ASSUME NEW p \in Petitions, Attach(p) PROVE FamilyInductive' /\ RequestsStep
  <2> DEFINE n == petitions[p].files + 1
             row == [petitions[p] EXCEPT !.files = n]
  <2>1. /\ Keep(p, row) /\ UNCHANGED <<absences, ties, excused, reviewed, familyEvents>>
        /\ petitions[p].kind = "EXCUSE" /\ petitions[p].status \in OpenRequest
    BY <1>7 DEF Attach
  <2>2. petitions[p] \in Petition /\ n \in 0..MaxFiles
    BY <1>1, <1>7, FamilyBounds DEF Attach, Petition
  <2> HIDE DEF n
  <2>3. /\ row \in Petition /\ row.kind = "EXCUSE" /\ row.by = petitions[p].by
        /\ row.status = petitions[p].status /\ row.scope = petitions[p].scope
    BY <2>1, <2>2 DEF Petition
  <2> HIDE DEF row
  <2> QED BY <1>1, <1>2, <1>3, <2>1, <2>3
<1>8. ASSUME NEW p \in Petitions, NEW s \in {"APPROVED", "REJECTED", "CANCELLED", "NEEDS_INFO"},
             Keep(p, [petitions[p] EXCEPT !.status = s]), petitions[p].status \in OpenRequest,
             petitions[p].kind = "CORRECTION" => s # "NEEDS_INFO",
             absences' \subseteq Lessons, UNCHANGED <<ties, reviewed, familyEvents>>,
             ExcusedOnce', excused' \in [Petitions \cup {Office} -> Scopes \cup {{}}]
      PROVE  FamilyInductive' /\ RequestsStep
  <2> DEFINE row == [petitions[p] EXCEPT !.status = s]
  <2>1. petitions[p] \in Petition /\ petitions[p].kind # "none"
    BY <1>1, <1>8 DEF OpenRequest
  <2>2. /\ row \in Petition /\ row.kind = petitions[p].kind /\ row.by = petitions[p].by
        /\ row.status = s /\ row.scope = petitions[p].scope
    BY <2>1 DEF Petition, OpenRequest
  <2>3. Keep(p, row)
    BY <1>8
  <2> HIDE DEF row
  <2> QED BY <1>2, <1>8, <2>1, <2>2, <2>3
<1>9. ASSUME NEW p \in Petitions, CancelRequest(p) PROVE FamilyInductive' /\ RequestsStep
  BY <1>1, <1>3, <1>8, <1>9 DEF CancelRequest, Withdrawable
<1>10. ASSUME NEW p \in Petitions, ApproveExcuse(p) PROVE FamilyInductive' /\ RequestsStep
  <2>1. /\ excused' = [excused EXCEPT ![p] = petitions[p].scope] /\ ~Covered(petitions[p].scope)
        /\ Keep(p, [petitions[p] EXCEPT !.status = "APPROVED"]) /\ petitions[p].status \in OpenRequest
        /\ UNCHANGED <<absences, ties, reviewed, familyEvents>>
    BY <1>10 DEF ApproveExcuse
  <2>2. petitions[p].scope \in Scopes \cup {{}}
    BY <1>1 DEF Petition
  <2>3. ExcusedOnce' /\ excused' \in [Petitions \cup {Office} -> Scopes \cup {{}}]
    BY <1>1, <2>1, <2>2, ExcuseKeeps
  <2> QED BY <1>1, <1>8, <2>1, <2>3
<1>11. ASSUME NEW p \in Petitions, ApproveCorrection(p) PROVE FamilyInductive' /\ RequestsStep
  <2>1. absences' \subseteq Lessons
    BY <1>1, <1>11 DEF ApproveCorrection
  <2> QED BY <1>1, <1>3, <1>8, <1>11, <2>1 DEF ApproveCorrection
<1>12. ASSUME NEW p \in Petitions, NEW answer \in {"REJECTED", "NEEDS_INFO"}, TurnDown(p, answer)
       PROVE  FamilyInductive' /\ RequestsStep
  <2>1. petitions[p].kind = "CORRECTION" => answer # "NEEDS_INFO"
    BY <1>12 DEF TurnDown, Answer
  <2> QED BY <1>1, <1>3, <1>8, <1>12, <2>1 DEF TurnDown
<1>13. ASSUME FamilyEvent PROVE familyEvents' \in 0..FamilyEvents
  BY <1>1, <1>13, FamilyBounds DEF FamilyEvent
<1>14. ASSUME NEW scope \in Scopes, OfficeExcuse(scope) \/ ApprovePending(scope)
       PROVE  FamilyInductive' /\ RequestsStep
  <2>1. /\ excused' = [excused EXCEPT ![Office] = scope] /\ FamilyEvent
        /\ reviewed' \in BOOLEAN /\ (~Covered(scope) \/ reviewed')
        /\ UNCHANGED <<absences, ties, petitions>>
    BY <1>14 DEF OfficeExcuse, ApprovePending
  <2>2. ExcusedOnce' /\ excused' \in [Petitions \cup {Office} -> Scopes \cup {{}}]
    BY <1>1, <2>1, ExcuseKeeps
  <2> QED BY <1>1, <1>4, <1>13, <2>1, <2>2 DEF FamilyInductive, FamilyTypeOK, RequestsInvariant
<1>15. ASSUME NEW x \in DOMAIN excused, CancelExcuse(x) PROVE FamilyInductive' /\ RequestsStep
  <2>1. /\ excused' = [excused EXCEPT ![x] = {}] /\ FamilyEvent /\ x \in Petitions \cup {Office}
        /\ UNCHANGED <<absences, ties, petitions>>
        /\ reviewed' \in BOOLEAN /\ (reviewed' = reviewed \/ x = Office)
    BY <1>1, <1>15 DEF CancelExcuse
  <2>2. ExcusedOnce' /\ excused' \in [Petitions \cup {Office} -> Scopes \cup {{}}]
    BY <1>1, <2>1, ExcuseKeeps
  <2> QED BY <1>1, <1>4, <1>13, <2>1, <2>2 DEF FamilyInductive, FamilyTypeOK, RequestsInvariant
<1>16. ASSUME NEW l \in Lessons, MarkChanges(l) PROVE FamilyInductive' /\ RequestsStep
  <2>1. absences' \subseteq Lessons /\ UNCHANGED <<ties, petitions, excused, reviewed>> /\ FamilyEvent
    BY <1>1, <1>16 DEF MarkChanges
  <2> QED BY <1>1, <1>3, <1>4, <1>13, <2>1 DEF FamilyInductive, FamilyTypeOK, RequestsInvariant
<1>17. ASSUME NEW r \in Relatives, TieChanges(r) PROVE FamilyInductive' /\ RequestsStep
  <2>1. ties' \subseteq Relatives /\ UNCHANGED <<absences, petitions, excused, reviewed>> /\ FamilyEvent
    BY <1>1, <1>17 DEF TieChanges
  <2> QED BY <1>1, <1>3, <1>4, <1>13, <2>1 DEF FamilyInductive, FamilyTypeOK, RequestsInvariant
<1> QED BY <1>5, <1>6, <1>7, <1>9, <1>10, <1>11, <1>12, <1>14, <1>15, <1>16, <1>17 DEF FamilyNext

\* The strengthening holds of every behaviour.
LEMMA FamilyAlways == FamilySpec => []FamilyInductive
<1>1. FamilyInductive /\ [FamilyNext]_familyVars => FamilyInductive'
  <2>1. FamilyInductive /\ UNCHANGED familyVars => FamilyInductive'
    BY DEF familyVars, FamilyInductive, FamilyTypeOK, RequestsInvariant, ExcusedOnce, OneOpenRequest
  <2> QED BY <2>1, FamilyStep
<1> QED BY FamilyStart, <1>1, PTL DEF FamilySpec

\* A request that was decided or withdrawn is not changed (decide_request,
\* cancel_request, resubmit_excuse and upload_attachment under the student's lock).
THEOREM DecisionsStay == FamilySpec => DecidedStays
<1>1. FamilyInductive /\ [FamilyNext]_familyVars
        => [\A p \in Petitions : petitions[p].status \in {"APPROVED", "REJECTED", "CANCELLED"}
              => petitions'[p] = petitions[p]]_familyVars
  BY FamilyStep DEF RequestsStep
<1> QED BY FamilyAlways, <1>1, PTL DEF FamilySpec, DecidedStays

-----------------------------------------------------------------------------
(* The inbox.                                                              *)

\* What asks for an answer is there, and an action that was counted is done.
InboxInductive ==
  /\ InboxTypeOK /\ InboxInvariant
  /\ \A x \in Parents \X Sources : notices[x].asks => notices[x].exists
  /\ \A x \in Parents \X Bulletins : completions[x] # 0 => notices[x].done

\* What asks is in the inbox; an action that was counted is done.
AskedIsThere == \A p \in Parents, s \in Sources : notices[<<p, s>>].asks => notices[<<p, s>>].exists
CountedIsDone == \A p \in Parents, b \in Bulletins : completions[<<p, b>>] # 0 => notices[<<p, b>>].done
NoticesGood == AckSettles /\ SettledForReason /\ RevokedIsQuiet /\ AskedIsThere /\ CountedIsDone

\* The strengthening in the form the steps are proved in.
LEMMA InboxIs == InboxInductive <=> InboxTypeOK /\ NoticesGood
BY DEF InboxInductive, InboxInvariant, NoticesGood, AskedIsThere, CountedIsDone

\* Nothing was sent yet.
LEMMA InboxStart == InboxInit => InboxInductive
<1> SUFFICES ASSUME InboxInit PROVE InboxTypeOK /\ NoticesGood
  BY InboxIs
<1>1. InboxTypeOK
  BY DEF InboxInit, InboxTypeOK, Bulletin, Notice, Sources
<1>2. \A x \in Parents \X Sources : ~notices[x].done /\ ~notices[x].exists /\ ~notices[x].asks
  BY DEF InboxInit
<1>3. \A x \in Parents \X Bulletins : completions[x] = 0
  BY DEF InboxInit
<1>4. Bulletins \subseteq Sources /\ Alerts \subseteq Sources
  BY DEF Sources
<1>5. acks = {}
  BY DEF InboxInit
<1> QED BY <1>1, <1>2, <1>3, <1>4, <1>5 DEF NoticesGood, AckSettles, SettledForReason, RevokedIsQuiet, AskedIsThere, CountedIsDone

\* A step that changes only the notices, and each of them for the better.
LEMMA InboxStep == InboxInductive /\ InboxNext => InboxInductive'
<1> SUFFICES ASSUME InboxTypeOK, NoticesGood, InboxNext PROVE InboxTypeOK' /\ NoticesGood'
  <2>1. (InboxInductive <=> InboxTypeOK /\ NoticesGood)'
    BY InboxIs, PTL
  <2> QED BY <2>1, InboxIs
<1>1. /\ partaking \subseteq Parents /\ acks \subseteq Parents \X Sources
      /\ alerts \in [Alerts -> {"none", "ISSUED", "VOIDED"}]
      /\ bulletins \in [Bulletins -> Bulletin] /\ notices \in [Parents \X Sources -> Notice]
      /\ completions \in [Parents \X Bulletins -> 0..1]
  BY DEF InboxTypeOK
<1>2. Bulletins \subseteq Sources /\ Alerts \subseteq Sources /\ Alerts \cap Bulletins = {}
      /\ Sources \subseteq Alerts \cup Bulletins
  BY InboxSources DEF Sources
<1>3. ASSUME NEW w \in Alerts, SetAlert(w) PROVE InboxTypeOK' /\ NoticesGood'
  <2>1. alerts' \in [Alerts -> {"none", "ISSUED", "VOIDED"}]
        /\ \A v \in Alerts : alerts[v] = "VOIDED" => alerts'[v] = "VOIDED"
    BY <1>1, <1>3 DEF SetAlert
  <2>2. UNCHANGED <<partaking, bulletins, acks, notices, completions>>
    BY <1>3 DEF SetAlert
  <2> QED BY <1>1, <2>1, <2>2 DEF InboxTypeOK, NoticesGood, AckSettles, SettledForReason, RevokedIsQuiet, AskedIsThere, CountedIsDone
<1>4. ASSUME NEW p \in Parents, SetParent(p) PROVE InboxTypeOK' /\ NoticesGood'
  BY <1>1, <1>4 DEF SetParent, InboxTypeOK, NoticesGood, AckSettles, SettledForReason, RevokedIsQuiet, AskedIsThere, CountedIsDone
<1>5. ASSUME NEW b \in Bulletins, NEW asks \in BOOLEAN, Publish(b, asks) PROVE InboxTypeOK' /\ NoticesGood'
  <2> DEFINE Posted(n) == [n EXCEPT !.exists = TRUE, !.asks = asks]
             new == [status |-> "PUBLISHED", asks |-> asks]
  <2>1. /\ bulletins[b].status = "none" /\ bulletins' = [bulletins EXCEPT ![b] = new]
        /\ notices' = [x \in Parents \X Sources |->
                         IF x[1] \in partaking /\ x[2] = b THEN Posted(notices[x]) ELSE notices[x]]
        /\ UNCHANGED <<partaking, alerts, acks, completions>>
    BY <1>5 DEF Publish
  <2>2. new \in Bulletin /\ new.status = "PUBLISHED"
    BY DEF Bulletin
  <2>3. \A n \in Notice : Posted(n) \in Notice /\ Posted(n).exists /\ Posted(n).done = n.done
    BY DEF Notice
  <2> HIDE DEF Posted, new
  <2>4. notices' \in [Parents \X Sources -> Notice]
    BY <1>1, <2>1, <2>3
  <2>5. \A q \in Parents, s \in Sources :
          notices'[<<q, s>>] = IF q \in partaking /\ s = b THEN Posted(notices[<<q, s>>]) ELSE notices[<<q, s>>]
    BY <2>1
  <2>6. bulletins' \in [Bulletins -> Bulletin]
        /\ \A c \in Bulletins : bulletins'[c] = IF c = b THEN new ELSE bulletins[c]
    BY <1>1, <2>1, <2>2
  <2>7. InboxTypeOK'
    BY <1>1, <2>1, <2>4, <2>6 DEF InboxTypeOK
  <2>8. \A q \in Parents, s \in Sources :
          /\ notices'[<<q, s>>].done = notices[<<q, s>>].done
          /\ s # b => notices'[<<q, s>>] = notices[<<q, s>>]
          /\ notices'[<<q, s>>].asks => notices'[<<q, s>>].exists
    <3> SUFFICES ASSUME NEW q \in Parents, NEW s \in Sources
                 PROVE  /\ notices'[<<q, s>>].done = notices[<<q, s>>].done
                        /\ s # b => notices'[<<q, s>>] = notices[<<q, s>>]
                        /\ notices'[<<q, s>>].asks => notices'[<<q, s>>].exists
      OBVIOUS
    <3>1. notices[<<q, s>>] \in Notice
      BY <1>1
    <3>2. notices[<<q, s>>].asks => notices[<<q, s>>].exists
      BY DEF NoticesGood, AskedIsThere
    <3> QED BY <2>3, <2>5, <3>1, <3>2
  <2>9. \A c \in Bulletins : bulletins'[c].status = "REVOKED" <=> bulletins[c].status = "REVOKED"
    BY <2>1, <2>2, <2>6
  <2>10. \A c \in Bulletins : bulletins[c].status = "REVOKED" => c # b
    BY <2>1
  <2>11. AckSettles'
    BY <1>2, <2>1, <2>7, <2>8, <2>9, <2>10 DEF NoticesGood, AckSettles
  <2>12. SettledForReason'
    <3>1. acks' = acks /\ alerts' = alerts
      BY <2>1
    <3> SUFFICES ASSUME NEW p \in Parents, NEW s \in Sources, notices'[<<p, s>>].done
                 PROVE  \/ <<p, s>> \in acks
                        \/ s \in Alerts /\ alerts[s] = "VOIDED"
                        \/ s \in Bulletins /\ bulletins'[s].status = "REVOKED"
      BY <3>1 DEF SettledForReason
    <3>2. notices[<<p, s>>].done
      BY <2>8
    <3> QED BY <2>9, <3>2 DEF NoticesGood, SettledForReason
  <2>13. RevokedIsQuiet'
    BY <1>2, <2>1, <2>7, <2>8, <2>9, <2>10 DEF NoticesGood, RevokedIsQuiet
  <2>14. AskedIsThere'
    BY <1>2, <2>1, <2>7, <2>8, <2>9, <2>10 DEF NoticesGood, AskedIsThere
  <2>15. CountedIsDone'
    <3>1. completions' = completions
      BY <2>1
    <3>2. \A p \in Parents, c \in Bulletins : notices'[<<p, c>>].done = notices[<<p, c>>].done
      BY <1>2, <2>8
    <3> QED BY <3>1, <3>2 DEF NoticesGood, CountedIsDone
  <2> QED BY <2>11, <2>12, <2>13, <2>14, <2>15, <2>7 DEF NoticesGood
<1>6. ASSUME NEW b \in Bulletins, Revoke(b) PROVE InboxTypeOK' /\ NoticesGood'
  <2> DEFINE TakenBack(n) == [n EXCEPT !.asks = FALSE, !.done = TRUE]
             new == [bulletins[b] EXCEPT !.status = "REVOKED"]
  <2>1. /\ bulletins' = [bulletins EXCEPT ![b] = new]
        /\ notices' = [x \in Parents \X Sources |->
                         IF x[1] \in Parents /\ x[2] = b /\ notices[x].exists
                         THEN TakenBack(notices[x]) ELSE notices[x]]
        /\ UNCHANGED <<partaking, alerts, acks, completions>>
    BY <1>1, <1>6 DEF Revoke, Addressed
  <2>2. new \in Bulletin /\ new.status = "REVOKED"
    BY <1>1 DEF Bulletin
  <2>3. \A n \in Notice : TakenBack(n) \in Notice /\ TakenBack(n).exists = n.exists
                          /\ TakenBack(n).done /\ ~TakenBack(n).asks
    BY DEF Notice
  <2> HIDE DEF TakenBack, new
  <2>4. notices' \in [Parents \X Sources -> Notice]
    BY <1>1, <2>1, <2>3
  <2>5. \A q \in Parents, s \in Sources :
          notices'[<<q, s>>] = IF s = b /\ notices[<<q, s>>].exists THEN TakenBack(notices[<<q, s>>])
                               ELSE notices[<<q, s>>]
    BY <2>1
  <2>6. bulletins' \in [Bulletins -> Bulletin]
        /\ \A c \in Bulletins : bulletins'[c] = IF c = b THEN new ELSE bulletins[c]
    BY <1>1, <2>1, <2>2
  <2>7. InboxTypeOK'
    BY <1>1, <2>1, <2>4, <2>6 DEF InboxTypeOK
  <2>8. \A q \in Parents, s \in Sources :
          /\ s # b => notices'[<<q, s>>] = notices[<<q, s>>]
          /\ notices'[<<q, s>>].asks => notices'[<<q, s>>].exists
          /\ s = b => ~notices'[<<q, s>>].asks
          /\ notices[<<q, s>>].done => notices'[<<q, s>>].done
    <3> SUFFICES ASSUME NEW q \in Parents, NEW s \in Sources
                 PROVE  /\ s # b => notices'[<<q, s>>] = notices[<<q, s>>]
                        /\ notices'[<<q, s>>].asks => notices'[<<q, s>>].exists
                        /\ s = b => ~notices'[<<q, s>>].asks
                        /\ notices[<<q, s>>].done => notices'[<<q, s>>].done
      OBVIOUS
    <3>1. notices[<<q, s>>] \in Notice
      BY <1>1
    <3>2. notices[<<q, s>>].asks => notices[<<q, s>>].exists
      BY DEF NoticesGood, AskedIsThere
    <3> QED BY <2>3, <2>5, <3>1, <3>2
  <2>9. \A c \in Bulletins : bulletins'[c].status = "REVOKED" <=> bulletins[c].status = "REVOKED" \/ c = b
    BY <2>2, <2>6
  <2>10. AckSettles'
    BY <1>2, <2>1, <2>7, <2>8, <2>9 DEF NoticesGood, AckSettles
  <2>11. SettledForReason'
    BY <1>2, <2>1, <2>7, <2>8, <2>9 DEF NoticesGood, SettledForReason
  <2>12. RevokedIsQuiet'
    BY <1>2, <2>8, <2>9 DEF NoticesGood, RevokedIsQuiet
  <2>13. AskedIsThere'
    BY <1>2, <2>1, <2>7, <2>8, <2>9 DEF NoticesGood, AskedIsThere
  <2>14. CountedIsDone'
    BY <1>2, <2>1, <2>7, <2>8, <2>9 DEF NoticesGood, CountedIsDone
  <2> QED BY <2>10, <2>11, <2>12, <2>13, <2>14, <2>7 DEF NoticesGood
<1>7. ASSUME NEW p \in Parents, OpenInbox(p) PROVE InboxTypeOK' /\ NoticesGood'
  <2>1. /\ notices' = [x \in Parents \X Sources |->
                         IF x[1] = p /\ x[2] \in Alerts THEN Caught(p, x[2]) ELSE notices[x]]
        /\ UNCHANGED <<partaking, alerts, bulletins, acks, completions>>
    BY <1>7 DEF OpenInbox
  <2>2. ASSUME NEW w \in Alerts
        PROVE  /\ Caught(p, w) \in Notice
               /\ Caught(p, w).asks => Caught(p, w).exists
               /\ <<p, w>> \in acks /\ Caught(p, w).exists => Caught(p, w).done
               /\ Caught(p, w).done => <<p, w>> \in acks \/ alerts[w] = "VOIDED"
    <3> DEFINE n == notices[<<p, w>>]
               new == IF alerts[w] = "ISSUED" THEN [n EXCEPT !.exists = TRUE, !.asks = TRUE] ELSE n
               v == Answered(p, w)
               answered == IF new.exists THEN [new EXCEPT !.done = v] ELSE new
               last == IF alerts[w] = "VOIDED" /\ answered.asks
                       THEN [answered EXCEPT !.asks = FALSE, !.done = TRUE] ELSE answered
    <3>1. n \in Notice /\ (n.asks => n.exists) /\ (n.done => <<p, w>> \in acks \/ alerts[w] = "VOIDED")
      BY <1>1, <1>2 DEF NoticesGood, AskedIsThere, SettledForReason
    <3>2. v \in BOOLEAN /\ (n.done => v) /\ (<<p, w>> \in acks => v)
          /\ (v => <<p, w>> \in acks \/ alerts[w] = "VOIDED")
      BY <3>1 DEF Answered, Notice
    <3>3. Caught(p, w) = last
      BY Zenon DEF Caught
    <3> HIDE DEF n, v
    <3>4. new \in Notice /\ (new.asks => new.exists) /\ new.done = n.done
      BY <3>1 DEF Notice
    <3> HIDE DEF new
    <3>5. /\ answered \in Notice /\ answered.asks = new.asks /\ answered.exists = new.exists
          /\ answered.done = IF new.exists THEN v ELSE new.done
      BY <3>2, <3>4 DEF Notice
    <3> HIDE DEF answered
    <3>6. /\ last \in Notice /\ (last.asks => answered.asks) /\ last.exists = answered.exists
          /\ last.done => answered.done \/ alerts[w] = "VOIDED"
          /\ answered.done => last.done
      BY <3>5 DEF Notice
    <3> HIDE DEF last
    <3> QED BY <3>1, <3>2, <3>3, <3>4, <3>5, <3>6
  <2>3. \A q \in Parents, s \in Sources :
          notices'[<<q, s>>] = IF q = p /\ s \in Alerts THEN Caught(p, s) ELSE notices[<<q, s>>]
    BY <2>1
  <2>4. notices' \in [Parents \X Sources -> Notice]
    BY <1>1, <2>1, <2>2
  <2>5. InboxTypeOK'
    BY <1>1, <2>1, <2>4 DEF InboxTypeOK
  <2>6. \A q \in Parents, b \in Bulletins : notices'[<<q, b>>] = notices[<<q, b>>]
    BY <1>2, <2>3
  <2>7. AckSettles'
    BY <1>2, <2>1, <2>2, <2>3, <2>5, <2>6 DEF NoticesGood, AckSettles
  <2>8. SettledForReason'
    BY <1>2, <2>1, <2>2, <2>3, <2>5, <2>6 DEF NoticesGood, SettledForReason
  <2>9. RevokedIsQuiet'
    BY <1>2, <2>1, <2>2, <2>3, <2>5, <2>6 DEF NoticesGood, RevokedIsQuiet
  <2>10. AskedIsThere'
    BY <1>2, <2>1, <2>2, <2>3, <2>5, <2>6 DEF NoticesGood, AskedIsThere
  <2>11. CountedIsDone'
    BY <1>2, <2>1, <2>2, <2>3, <2>5, <2>6 DEF NoticesGood, CountedIsDone
  <2> QED BY <2>7, <2>8, <2>9, <2>10, <2>11, <2>5 DEF NoticesGood
<1>8. ASSUME NEW p \in Parents, NEW w \in Alerts, AckAlert(p, w) PROVE InboxTypeOK' /\ NoticesGood'
  <2> DEFINE new == [notices[<<p, w>>] EXCEPT !.done = notices[<<p, w>>].exists]
  <2>1. /\ acks' = acks \cup {<<p, w>>} /\ notices' = [notices EXCEPT ![<<p, w>>] = new]
        /\ UNCHANGED <<partaking, alerts, bulletins, completions>>
    BY <1>8 DEF AckAlert
  <2>2. <<p, w>> \in Parents \X Sources /\ notices[<<p, w>>] \in Notice
    BY <1>1, <1>2
  <2>3. /\ new \in Notice /\ new.exists = notices[<<p, w>>].exists /\ new.asks = notices[<<p, w>>].asks
        /\ new.done = notices[<<p, w>>].exists
    BY <2>2 DEF Notice
  <2> HIDE DEF new
  <2>4. \A x \in Parents \X Sources : notices'[x] = IF x = <<p, w>> THEN new ELSE notices[x]
    BY <1>1, <2>1
  <2>5. InboxTypeOK'
    BY <1>1, <2>1, <2>2, <2>3 DEF InboxTypeOK
  <2>6. \A q \in Parents, s \in Sources :
          notices'[<<q, s>>] = IF q = p /\ s = w THEN new ELSE notices[<<q, s>>]
    BY <2>4
  <2>7. \A q \in Parents, s \in Sources : <<q, s>> \in acks' <=> <<q, s>> \in acks \/ (q = p /\ s = w)
    BY <2>1
  <2>8. AckSettles'
    BY <1>2, <2>1, <2>3, <2>5, <2>6, <2>7 DEF NoticesGood, AckSettles
  <2>9. SettledForReason'
    BY <1>2, <2>1, <2>3, <2>5, <2>6, <2>7 DEF NoticesGood, SettledForReason
  <2>10. RevokedIsQuiet'
    BY <1>2, <2>1, <2>3, <2>5, <2>6, <2>7 DEF NoticesGood, RevokedIsQuiet
  <2>11. AskedIsThere'
    BY <1>2, <2>1, <2>3, <2>5, <2>6, <2>7 DEF NoticesGood, AskedIsThere
  <2>12. CountedIsDone'
    BY <1>2, <2>1, <2>3, <2>5, <2>6, <2>7 DEF NoticesGood, CountedIsDone
  <2> QED BY <2>8, <2>9, <2>10, <2>11, <2>12, <2>5 DEF NoticesGood
<1>9. ASSUME NEW p \in Parents, NEW b \in Bulletins, AckBulletin(p, b) PROVE InboxTypeOK' /\ NoticesGood'
  <2>1. acks' = acks \cup {<<p, b>>} /\ UNCHANGED <<partaking, alerts, bulletins, notices, completions>>
    BY <1>9 DEF AckBulletin
  <2>2. InboxTypeOK'
    BY <1>1, <1>2, <2>1 DEF InboxTypeOK
  <2>3. \A q \in Parents, w \in Alerts : <<q, w>> \in acks' => <<q, w>> \in acks
    BY <1>2, <2>1
  <2>4. AckSettles'
    BY <2>1, <2>2, <2>3 DEF NoticesGood, AckSettles
  <2>5. SettledForReason'
    BY <2>1, <2>2, <2>3 DEF NoticesGood, SettledForReason
  <2>6. RevokedIsQuiet'
    BY <2>1, <2>2, <2>3 DEF NoticesGood, RevokedIsQuiet
  <2>7. AskedIsThere'
    BY <2>1, <2>2, <2>3 DEF NoticesGood, AskedIsThere
  <2>8. CountedIsDone'
    BY <2>1, <2>2, <2>3 DEF NoticesGood, CountedIsDone
  <2> QED BY <2>4, <2>5, <2>6, <2>7, <2>8, <2>2 DEF NoticesGood
<1>10. ASSUME NEW p \in Parents, NEW s \in Sources, ReadNotice(p, s) PROVE InboxTypeOK' /\ NoticesGood'
  <2> DEFINE new == [notices[<<p, s>>] EXCEPT !.read = TRUE]
  <2>1. /\ notices' = [notices EXCEPT ![<<p, s>>] = new]
        /\ UNCHANGED <<partaking, alerts, bulletins, acks, completions>>
    BY <1>10 DEF ReadNotice
  <2>2. notices[<<p, s>>] \in Notice
    BY <1>1
  <2>3. /\ new \in Notice /\ new.exists = notices[<<p, s>>].exists /\ new.asks = notices[<<p, s>>].asks
        /\ new.done = notices[<<p, s>>].done
    BY <2>2 DEF Notice
  <2> HIDE DEF new
  <2>4. \A x \in Parents \X Sources :
          /\ notices'[x].done = notices[x].done /\ notices'[x].asks = notices[x].asks
          /\ notices'[x].exists = notices[x].exists
    BY <1>1, <2>1, <2>3
  <2>5. InboxTypeOK'
    BY <1>1, <2>1, <2>3 DEF InboxTypeOK
  <2>6. \A q \in Parents, t \in Sources :
          /\ notices'[<<q, t>>].done = notices[<<q, t>>].done /\ notices'[<<q, t>>].asks = notices[<<q, t>>].asks
          /\ notices'[<<q, t>>].exists = notices[<<q, t>>].exists
    BY <2>4
  <2>7. AckSettles'
    BY <1>2, <2>1, <2>5, <2>6 DEF NoticesGood, AckSettles
  <2>8. SettledForReason'
    BY <1>2, <2>1, <2>5, <2>6 DEF NoticesGood, SettledForReason
  <2>9. RevokedIsQuiet'
    BY <1>2, <2>1, <2>5, <2>6 DEF NoticesGood, RevokedIsQuiet
  <2>10. AskedIsThere'
    BY <1>2, <2>1, <2>5, <2>6 DEF NoticesGood, AskedIsThere
  <2>11. CountedIsDone'
    BY <1>2, <2>1, <2>5, <2>6 DEF NoticesGood, CountedIsDone
  <2> QED BY <2>7, <2>8, <2>9, <2>10, <2>11, <2>5 DEF NoticesGood
<1>11. ASSUME NEW p \in Parents, NEW s \in Sources, CompleteNotice(p, s) PROVE InboxTypeOK' /\ NoticesGood'
  <2> DEFINE new == [notices[<<p, s>>] EXCEPT !.done = TRUE]
             first == FirstTime(p, s)
  <2>1. /\ notices' = [notices EXCEPT ![<<p, s>>] = new]
        /\ completions' = [x \in Parents \X Bulletins |->
                             IF x = <<p, s>> THEN completions[x] + first ELSE completions[x]]
        /\ UNCHANGED <<partaking, alerts, bulletins, acks>> /\ <<p, s>> \in acks
    BY <1>11 DEF CompleteNotice, Ready
  <2>2. notices[<<p, s>>] \in Notice
    BY <1>1
  <2>3. /\ new \in Notice /\ new.exists = notices[<<p, s>>].exists /\ new.asks = notices[<<p, s>>].asks
        /\ new.done
    BY <2>2 DEF Notice
  <2>4. /\ first \in {0, 1} /\ (first = 1 => ~notices[<<p, s>>].done)
    BY DEF FirstTime
  <2> HIDE DEF new, first
  <2>5. \A x \in Parents \X Bulletins : completions[x] # 0 => notices[x].done
    BY DEF NoticesGood, CountedIsDone
  <2>6. completions' \in [Parents \X Bulletins -> 0..1]
    <3>1. \A x \in Parents \X Bulletins : x = <<p, s>> => completions[x] + first \in 0..1
      BY <1>1, <2>4, <2>5
    <3> QED BY <1>1, <2>1, <3>1
  <2>7. InboxTypeOK'
    BY <1>1, <2>1, <2>3, <2>6 DEF InboxTypeOK
  <2>8. \A x \in Parents \X Sources : notices'[x] = IF x = <<p, s>> THEN new ELSE notices[x]
    BY <1>1, <2>1
  <2>9. \A q \in Parents, t \in Sources :
          notices'[<<q, t>>] = IF q = p /\ t = s THEN new ELSE notices[<<q, t>>]
    BY <2>8
  <2>10. \A q \in Parents, b \in Bulletins :
           completions'[<<q, b>>] = IF q = p /\ b = s THEN completions[<<q, b>>] + first ELSE completions[<<q, b>>]
    BY <2>1
  <2>11. \A q \in Parents, b \in Bulletins : completions'[<<q, b>>] # 0 => notices'[<<q, b>>].done
    BY <1>2, <2>3, <2>9, <2>10 DEF NoticesGood, CountedIsDone
  <2>12. AckSettles'
    BY <1>2, <2>1, <2>3, <2>7, <2>9, <2>11 DEF NoticesGood, AckSettles
  <2>13. SettledForReason'
    BY <1>2, <2>1, <2>3, <2>7, <2>9, <2>11 DEF NoticesGood, SettledForReason
  <2>14. RevokedIsQuiet'
    BY <1>2, <2>1, <2>3, <2>7, <2>9, <2>11 DEF NoticesGood, RevokedIsQuiet
  <2>15. AskedIsThere'
    BY <1>2, <2>1, <2>3, <2>7, <2>9, <2>11 DEF NoticesGood, AskedIsThere
  <2>16. CountedIsDone'
    BY <1>2, <2>1, <2>3, <2>7, <2>9, <2>11 DEF NoticesGood, CountedIsDone
  <2> QED BY <2>12, <2>13, <2>14, <2>15, <2>16, <2>7 DEF NoticesGood
<1> QED BY <1>3, <1>4, <1>5, <1>6, <1>7, <1>8, <1>9, <1>10, <1>11 DEF InboxNext

\* The strengthening holds of every behaviour.
LEMMA InboxAlways == InboxSpec => []InboxInductive
<1>1. InboxInductive /\ [InboxNext]_inboxVars => InboxInductive'
  <2>1. InboxInductive /\ UNCHANGED inboxVars => InboxInductive'
    BY DEF inboxVars, InboxInductive, InboxTypeOK, InboxInvariant, AckSettles, SettledForReason, RevokedIsQuiet
  <2> QED BY <2>1, InboxStep
<1> QED BY InboxStart, <1>1, PTL DEF InboxSpec

\* What the inbox asks was neither answered nor withdrawn, and what was is settled for
\* a reason (sync_activity_notifications, revoke_publication, the acknowledge views).
THEOREM InboxSettles == InboxSpec => []InboxInvariant
<1>1. InboxInductive => InboxInvariant
  BY DEF InboxInductive
<1> QED BY InboxAlways, <1>1, PTL

-----------------------------------------------------------------------------
(* The recovery cases.                                                     *)

\* No decision is of a version to come, and none of this version rests on evidence
\* that was revoked.
RecInductive ==
  /\ RecTypeOK /\ TwoReviewers
  /\ recovery.status = "none" => recovery.version = 0
  /\ recovery.status # "none" => recovery.version # 0
  /\ \A d \in decisions : d.version <= recovery.version
  /\ \A d \in OfVersion : \A e \in d.seen : evidence[e] # "revoked"

\* A step that leaves the case where it was, with evidence that was not withdrawn.
CaseStep ==
  recovery.status \in ClosedCases
    => decisions' = decisions /\ recovery'.status = recovery.status
       /\ \A e \in EvidenceRefs : evidence[e] = "none" => evidence'[e] = "none"

\* No case was opened yet.
LEMMA RecStart == RecInit => RecInductive
<1> SUFFICES ASSUME RecInit PROVE RecInductive
  OBVIOUS
<1>1. /\ recovery \in RecoveryCase /\ recovery.status = "none" /\ recovery.version = 0
  BY RecoveryBounds DEF RecInit, RecoveryCase
<1>2. RecTypeOK
  BY <1>1, RecoveryBounds DEF RecInit, RecTypeOK
<1> QED BY <1>1, <1>2 DEF RecInit, RecInductive, TwoReviewers, OfVersion

\* What a decision of the current version relies on outlives everything but a change of
\* the version.
LEMMA RecStep == RecInductive /\ RecNext => RecInductive' /\ CaseStep
<1> SUFFICES ASSUME RecInductive, RecNext PROVE RecInductive' /\ CaseStep
  OBVIOUS
<1>1. /\ recovery \in RecoveryCase /\ decisions \subseteq Decision
      /\ evidence \in [EvidenceRefs -> {"none", "valid", "expired", "revoked"}]
      /\ loaded \in [Reviewers \cup {Clerk} -> 0..MaxVersion] /\ entitled \subseteq Reviewers
      /\ TwoReviewers
      /\ recovery.status = "none" => recovery.version = 0
      /\ recovery.status # "none" => recovery.version # 0
      /\ \A d \in decisions : d.version <= recovery.version
      /\ \A d \in OfVersion : \A e \in d.seen : evidence[e] # "revoked"
  BY DEF RecInductive, RecTypeOK
<1>2. recovery.version \in 0..MaxVersion /\ \A d \in decisions : d \in Decision /\ d.version \in 1..MaxVersion
      /\ d.seen \subseteq EvidenceRefs
  BY <1>1 DEF RecoveryCase, Decision
\* Steps that keep the version, the decisions and the revoked evidence.
<1>3. ASSUME recovery' \in RecoveryCase, recovery'.version = recovery.version, recovery'.mobile = recovery.mobile,
             recovery'.status = recovery.status \/ (recovery'.status # "none" /\ recovery.status # "none"
                                                    /\ recovery'.status # "POLICY_BLOCKED"
                                                    /\ recovery.status \notin ClosedCases),
             evidence' \in [EvidenceRefs -> {"none", "valid", "expired", "revoked"}],
             \A e \in EvidenceRefs : /\ evidence'[e] = "revoked" => evidence[e] = "revoked"
                                     /\ evidence[e] = "none" => evidence'[e] = "none",
             decisions' = decisions, loaded' \in [Reviewers \cup {Clerk} -> 0..MaxVersion],
             entitled' \subseteq Reviewers
      PROVE  RecInductive' /\ CaseStep
  <2>1. RecTypeOK'
    BY <1>3, <1>1 DEF RecTypeOK
  <2>2. OfVersion' = OfVersion
    BY <1>3 DEF OfVersion
  <2>3. \A d \in OfVersion' : \A e \in d.seen : evidence'[e] # "revoked"
    BY <1>1, <1>2, <1>3, <2>2 DEF OfVersion
  <2>4. TwoReviewers'
    BY <1>1, <1>3, <2>2 DEF TwoReviewers, Complete
  <2>5. CaseStep
    BY <1>3 DEF CaseStep
  <2> QED BY <1>1, <1>3, <2>1, <2>3, <2>4, <2>5 DEF RecInductive
<1>4. ASSUME NEW mobile \in BOOLEAN, OpenRecovery(mobile) PROVE RecInductive' /\ CaseStep
  <2> DEFINE new == [recovery EXCEPT !.status = "PENDING", !.version = 1, !.mobile = mobile]
  <2>1. recovery.status = "none" /\ recovery' = new /\ UNCHANGED <<evidence, decisions, loaded, entitled>>
    BY <1>4 DEF OpenRecovery
  <2>2. new \in RecoveryCase /\ new.status = "PENDING" /\ new.version = 1
    <3>1. recovery \in RecoveryCase /\ 1 \in 0..MaxVersion
      BY <1>1, RecoveryBounds
    <3> DEFINE one == 1
    <3>2. one \in 0..MaxVersion
      BY <3>1
    <3> HIDE DEF one
    <3>3. [recovery EXCEPT !.status = "PENDING", !.version = one, !.mobile = mobile] \in RecoveryCase
      BY <3>1, <3>2 DEF RecoveryCase
    <3> USE DEF one
    <3> QED BY <3>1, <3>3 DEF RecoveryCase
  <2> HIDE DEF new
  <2>3. decisions = {}
    BY <1>1, <1>2, <2>1
  <2>4. RecTypeOK'
    BY <1>1, <2>1, <2>2 DEF RecTypeOK
  <2> QED BY <2>1, <2>2, <2>3, <2>4 DEF RecInductive, TwoReviewers, OfVersion, CaseStep, ClosedCases
<1>5. ASSUME NEW r \in Reviewers \cup {Clerk}, Load(r) PROVE RecInductive' /\ CaseStep
  <2>1. loaded' \in [Reviewers \cup {Clerk} -> 0..MaxVersion]
    BY <1>1, <1>2, <1>5 DEF Load
  <2> QED BY <1>1, <1>3, <1>5, <2>1 DEF Load
<1>6. ASSUME NEW e \in EvidenceRefs, NEW s \in {"valid", "revoked"}, evidence' = [evidence EXCEPT ![e] = s],
             recovery' = Touched, recovery.version < MaxVersion, recovery.status \notin ClosedCases \cup {"none"},
             UNCHANGED <<decisions, loaded, entitled>>
      PROVE  RecInductive' /\ CaseStep
  <2> DEFINE n == recovery.version + 1
  <2>1. n \in 0..MaxVersion /\ n > recovery.version /\ n # 0
    BY <1>2, <1>6, RecoveryBounds
  <2>2. recovery' = [recovery EXCEPT !.version = n, !.status = "IDENTITY_REVIEW"]
    BY <1>6 DEF Touched
  <2> HIDE DEF n
  <2>3. recovery' \in RecoveryCase /\ recovery'.version = n /\ recovery'.status = "IDENTITY_REVIEW"
    BY <1>1, <2>1, <2>2 DEF RecoveryCase
  <2>4. RecTypeOK'
    BY <1>1, <1>6, <2>3 DEF RecTypeOK
  <2>5. \A d \in decisions : d.version <= n /\ d.version # n
    BY <1>1, <1>2, <2>1
  <2>6. OfVersion' = {}
    BY <1>6, <2>3, <2>5 DEF OfVersion
  <2> QED BY <1>6, <2>1, <2>3, <2>4, <2>5, <2>6 DEF RecInductive, TwoReviewers, CaseStep
<1>7. ASSUME NEW r \in Reviewers, NEW e \in EvidenceRefs, RecordReference(r, e) \/ RevokeReference(r, e)
      PROVE  RecInductive' /\ CaseStep
  BY <1>6, <1>7 DEF RecordReference, RevokeReference, MayWork, StillOpen
<1>8. ASSUME NEW r \in Reviewers, NEW says \in Recommendations, ReviewCase(r, says) PROVE RecInductive' /\ CaseStep
  <2> DEFINE seen == IF says = "CONTINUE_REVIEW" THEN ValidRefs ELSE {}
             f == [stage |-> Stage(r), by |-> r, says |-> says, version |-> recovery.version, seen |-> seen]
             s == Outcome(r, says)
             new == [recovery EXCEPT !.status = s]
  <2>1. /\ MayWork(r) /\ InOrder(r) /\ ~\E d \in OfVersion : d.stage = Stage(r)
        /\ says = "CONTINUE_REVIEW" =>
             /\ Complete(ValidRefs)
             /\ \A d \in OfVersion : Stage(r) = "SECOND" /\ d.stage = "FIRST" => SameEvidence(d)
        /\ decisions' = decisions \cup {f} /\ recovery' = new /\ UNCHANGED <<evidence, loaded, entitled>>
    BY <1>8 DEF ReviewCase
  <2>2. recovery.status \notin ClosedCases \cup {"none"} /\ recovery.version \in 1..MaxVersion
    BY <1>1, <1>2, <2>1 DEF MayWork, StillOpen
  <2>3. s \in {"REJECTED", "NEEDS_EVIDENCE", "AWAITING_SECOND_REVIEW", "POLICY_BLOCKED"}
        /\ (s = "POLICY_BLOCKED" => says = "CONTINUE_REVIEW" /\ Stage(r) = "SECOND")
    BY DEF Outcome, Recommendations, Stage
  <2>4. seen \subseteq EvidenceRefs /\ (\A e \in seen : evidence[e] # "revoked")
        /\ (says = "CONTINUE_REVIEW" => seen = ValidRefs)
    BY DEF ValidRefs
  <2>5. Stage(r) \in {"FIRST", "SECOND"}
    BY DEF Stage
  <2> HIDE DEF seen, s
  <2>6. f \in Decision /\ f.version = recovery.version /\ f.seen = seen /\ f.stage = Stage(r) /\ f.by = r
        /\ f.says = says
    BY <2>2, <2>4, <2>5 DEF Decision
  <2>7. /\ new \in RecoveryCase /\ new.status = s /\ new.version = recovery.version
        /\ new.mobile = recovery.mobile
    BY <1>1, <2>3 DEF RecoveryCase, ClosedCases
  <2> HIDE DEF f, new
  <2>8. RecTypeOK'
    BY <1>1, <2>1, <2>6, <2>7 DEF RecTypeOK
  <2>9. OfVersion' = OfVersion \cup {f}
    BY <2>1, <2>6, <2>7 DEF OfVersion
  <2>10. \A d \in OfVersion' : \A e \in d.seen : evidence'[e] # "revoked"
    BY <1>1, <2>1, <2>4, <2>6, <2>9
  <2>11. TwoReviewers'
    <3> SUFFICES ASSUME s = "POLICY_BLOCKED"
                 PROVE  \E d, g \in OfVersion' :
                          /\ d.stage = "FIRST" /\ g.stage = "SECOND" /\ d.by # g.by
                          /\ d.says = "CONTINUE_REVIEW" /\ g.says = "CONTINUE_REVIEW"
                          /\ d.seen = g.seen /\ Complete(d.seen)'
      BY <2>1, <2>7 DEF TwoReviewers
    <3>1. says = "CONTINUE_REVIEW" /\ Stage(r) = "SECOND"
      BY <2>3
    <3>2. PICK d \in OfVersion : d.stage = "FIRST" /\ d.by # r /\ d.says = "CONTINUE_REVIEW"
      BY <2>1, <3>1 DEF InOrder
    <3>3. d.seen = ValidRefs
      BY <2>1, <3>1, <3>2 DEF SameEvidence
    <3>4. Complete(d.seen)'
      BY <2>1, <2>7, <3>1, <3>3 DEF Complete
    <3> QED BY <2>4, <2>6, <2>9, <3>1, <3>2, <3>3, <3>4
  <2>12. \A d \in decisions' : d.version <= recovery'.version
    BY <1>1, <2>1, <2>2, <2>6, <2>7
  <2>13. CaseStep
    BY <2>2 DEF CaseStep
  <2> QED BY <2>1, <2>2, <2>3, <2>7, <2>8, <2>10, <2>11, <2>12, <2>13 DEF RecInductive
<1>9. ASSUME NEW r \in Reviewers, GrantEnds(r) PROVE RecInductive' /\ CaseStep
  BY <1>1, <1>3, <1>9 DEF GrantEnds
<1>10. ASSUME NEW s \in {"EXPIRED", "CANCELLED"}, recovery' = [recovery EXCEPT !.status = s],
              recovery.status \notin ClosedCases \cup {"none"}, UNCHANGED <<evidence, decisions, loaded, entitled>>
       PROVE  RecInductive' /\ CaseStep
  <2>1. /\ recovery' \in RecoveryCase /\ recovery'.status = s /\ recovery'.version = recovery.version
        /\ recovery'.mobile = recovery.mobile
    BY <1>1, <1>10 DEF RecoveryCase, ClosedCases
  <2> QED BY <1>1, <1>3, <1>10, <2>1
<1>11. CASE CancelRecovery
  <2>1. CASE recovery.overdue
    BY <1>10, <1>11, <2>1 DEF CancelRecovery
  <2>2. CASE ~recovery.overdue
    BY <1>10, <1>11, <2>2 DEF CancelRecovery
  <2> QED BY <2>1, <2>2
<1>12. ASSUME NEW e \in EvidenceRefs, EvidenceExpires(e) PROVE RecInductive' /\ CaseStep
  <2>1. evidence[e] = "valid" /\ evidence' = [evidence EXCEPT ![e] = "expired"]
        /\ UNCHANGED <<recovery, decisions, loaded, entitled>>
    BY <1>12 DEF EvidenceExpires
  <2> QED BY <1>1, <1>3, <2>1
<1>13. CASE CaseExpires \/ AccountChanges
  <2>1. PICK row \in {[recovery EXCEPT !.overdue = TRUE], [recovery EXCEPT !.bound = FALSE]} : recovery' = row
    BY <1>13 DEF CaseExpires, AccountChanges
  <2>2. /\ row \in RecoveryCase /\ row.status = recovery.status /\ row.version = recovery.version
        /\ row.mobile = recovery.mobile
    BY <1>1, <2>1 DEF RecoveryCase
  <2>3. UNCHANGED <<evidence, decisions, loaded, entitled>>
    BY <1>13 DEF CaseExpires, AccountChanges
  <2> QED BY <1>1, <1>3, <2>1, <2>2, <2>3
<1> QED BY <1>4, <1>5, <1>7, <1>8, <1>9, <1>11, <1>12, <1>13 DEF RecNext

\* The strengthening holds of every behaviour.
LEMMA RecAlways == RecSpec => []RecInductive
<1>1. RecInductive /\ [RecNext]_recVars => RecInductive'
  <2>1. RecInductive /\ UNCHANGED recVars => RecInductive'
    BY DEF recVars, RecInductive, RecTypeOK, TwoReviewers, OfVersion, Complete
  <2> QED BY <2>1, RecStep
<1> QED BY RecStart, <1>1, PTL DEF RecSpec

\* A case that passed both reviews rests on two reviewers and on evidence that stands
\* (review_case, revoke_reference and the triggers of migration 0006).
THEOREM ReviewsCount == RecSpec => []ReviewInvariant
<1>1. RecInductive => ReviewInvariant
  BY DEF RecInductive, ReviewInvariant, ReviewedEvidenceStands
<1> QED BY RecAlways, <1>1, PTL

\* A case that ended takes neither decisions nor evidence (ensure_open).
THEOREM ClosedCasesRest == RecSpec => ClosedCaseRests
<1>1. RecInductive /\ [RecNext]_recVars
        => [recovery.status \in ClosedCases
              => decisions' = decisions /\ recovery'.status = recovery.status
                 /\ \A e \in EvidenceRefs : evidence[e] = "none" => evidence'[e] = "none"]_recVars
  BY RecStep DEF CaseStep
<1> QED BY RecAlways, <1>1, PTL DEF RecSpec, ClosedCaseRests

-----------------------------------------------------------------------------
(* The composition.                                                        *)

\* Every behaviour of the composition is one of each component.
LEMMA SpecComposes ==
  Spec => RefSpec /\ CaseSpec /\ LeaveSpec /\ FamilySpec /\ InboxSpec /\ RecSpec
<1>1. Init => RefInit /\ CaseInit /\ LeaveInit /\ FamilyInit /\ InboxInit /\ RecInit
  BY DEF Init
<1>2. [Next]_vars => /\ [RefNext]_refVars /\ [CaseNext]_caseVars /\ [LeaveNext]_leaveVars
                     /\ [FamilyNext]_familyVars /\ [InboxNext]_inboxVars /\ [RecNext]_recVars
  BY DEF Next, vars, refVars, caseVars, leaveVars, familyVars, inboxVars, recVars
<1> QED BY <1>1, <1>2, PTL DEF Spec, RefSpec, CaseSpec, LeaveSpec, FamilySpec, InboxSpec, RecSpec

\* The strengthenings give the types.
LEMMA InductiveTypes ==
  RefInductive /\ CaseInductive /\ LeaveInductive /\ FamilyInductive /\ InboxInductive /\ RecInductive
    => CasesTypeOK
BY DEF RefInductive, CaseInductive, LeaveInductive, FamilyInductive, InboxInductive, RecInductive, CasesTypeOK

\* The rows of the six components have the types the code gives them.
THEOREM CasesTypes == Spec => []CasesTypeOK
BY SpecComposes, RefAlways, CaseAlways, LeaveAlways, FamilyAlways, InboxAlways, RecAlways,
   InductiveTypes, PTL

\* Referrals go their way and files stay in order, whatever requests race (referrals.py,
\* cases.py, plans.py, teacher_requests.py).
THEOREM CounselingHolds == Spec => []CounselingInvariant
BY SpecComposes, ReferralsGoTheirWay, FilesHold, PTL DEF CounselingInvariant

\* No absence is excused twice, no request open twice, and the inbox asks what was
\* neither answered nor withdrawn (request_services.py, request_api.py).
THEOREM PortalHolds == Spec => []PortalInvariant
<1>1. FamilyInductive => RequestsInvariant
  BY DEF FamilyInductive
<1> QED BY SpecComposes, FamilyAlways, InboxSettles, <1>1, PTL DEF PortalInvariant

\* What ended stays ended: referrals, decisions, recovery cases and opened files.
THEOREM NothingReopens == Spec => EndedRests
BY SpecComposes, EndedReferralsRest, DecisionsStay, ClosedCasesRest, FilesAreKept, PTL DEF EndedRests
=============================================================================
