-------------------------- MODULE StudentReferrals --------------------------
(***************************************************************************)
(* The referrals of one student in one category                            *)
(* (backend/referrals/services/referrals.py).                              *)
(*                                                                         *)
(* A teacher's referral goes to the responsible vice principal, who deals  *)
(* with it or hands it to a counselor; the counselor receives it and       *)
(* closes it.  create_referral locks the row of the student, every other   *)
(* operation locks the row of the referral.                                *)
(***************************************************************************)
EXTENDS Integers, FiniteSets, Sequences

CONSTANTS
  Teachers, Vices, Counselors, Principal,  \* memberships by role; Principal: the manager
  Nobody,
  MaxReferrals  \* bound

ASSUME RefBounds ==
  MaxReferrals \in Nat /\ Nobody \notin Teachers \cup Vices \cup Counselors \cup {Principal}

VARIABLES
  referrals,   \* the StudentReferrals in the order of their creation
  drafts,      \* [authors -> what create_referral of the author found, or "none"]
  studentLock  \* the author whose create_referral holds the student's row

refVars == <<referrals, drafts, studentLock>>

Authors == Teachers \cup Vices \cup {Principal}
BeforeCounselor == {"PENDING_VICE", "UNDER_VICE_REVIEW"}
OpenStatuses == BeforeCounselor \cup {"REFERRED", "ACKNOWLEDGED"}

\* reviewed: vice_reviewed_at is set; actions: StudentActions "referred to
\* counselor"; forced: created although another one was open.
Referral == [author: Authors, status: OpenStatuses \cup {"CLOSED", "CANCELLED"},
             vice: Vices \cup {Nobody}, counselor: Counselors \cup {Nobody},
             reviewed: BOOLEAN, actions: Nat, notes: BOOLEAN, forced: BOOLEAN]

RefInit ==
  /\ referrals = <<>> /\ drafts = [a \in Authors |-> "none"] /\ studentLock = Nobody

Refs == DOMAIN referrals
Store(r, row) == referrals' = [referrals EXCEPT ![r] = row] /\ UNCHANGED <<drafts, studentLock>>

-----------------------------------------------------------------------------
(* create_referral.                                                        *)

\* Mutant: the row of the student is not locked.
StudentFree_NoLock == TRUE

StudentFree == studentLock = Nobody

\* find_open_duplicate; only the administration may create another one.
CreateCheck(a, force) ==
  /\ drafts[a] = "none" /\ StudentFree /\ Len(referrals) < MaxReferrals
  /\ \/ force /\ a \notin Teachers
     \/ \A r \in Refs : referrals[r].status \notin OpenStatuses
  /\ studentLock' = a
  /\ drafts' = [drafts EXCEPT ![a] = IF force /\ a \notin Teachers THEN "forced" ELSE "first"]
  /\ UNCHANGED referrals

\* Mutant: whoever creates a referral of the administration reviews it.
OwnReview_Author(a) == a

\* A vice principal's own referral is under the author's review.
OwnReview(a) == IF a \in Vices THEN a ELSE Nobody

\* vice: the one the distribution of the sections names; counselor: given, or the
\* one of the section.
NewReferral(a, vice, counselor) ==
  [author |-> a, forced |-> drafts[a] = "forced", notes |-> FALSE,
   vice |-> IF a \in Teachers THEN vice ELSE OwnReview(a),
   counselor |-> IF a \in Teachers THEN Nobody ELSE counselor,
   status |-> IF a \in Teachers THEN "PENDING_VICE"
              ELSE IF counselor # Nobody THEN "REFERRED" ELSE "UNDER_VICE_REVIEW",
   reviewed |-> a \notin Teachers,
   actions |-> IF a \notin Teachers /\ counselor # Nobody THEN 1 ELSE 0]

CreateSave(a, vice, counselor) ==
  /\ drafts[a] # "none"
  /\ referrals' = Append(referrals, NewReferral(a, vice, counselor))
  /\ drafts' = [drafts EXCEPT ![a] = "none"]
  /\ studentLock' = Nobody

-----------------------------------------------------------------------------
(* The operations on one referral.                                         *)

\* Mutant: the vice principal is changed after the referral was handed over.
Assignable_Open(status) == status \in OpenStatuses

Assignable(status) == status \in BeforeCounselor

\* assign_vice_principal.
AssignVice(r, v) ==
  /\ Assignable(referrals[r].status) /\ referrals[r].vice # v
  /\ Store(r, [referrals[r] EXCEPT !.vice = v, !.status = "PENDING_VICE", !.reviewed = FALSE])

Responsible(r, by) == by = Principal \/ by = referrals[r].vice
NeedsVice(r) == referrals[r].author \in Teachers /\ referrals[r].vice = Nobody

\* start_vice_review.
StartReview(r, by) ==
  /\ referrals[r].status = "PENDING_VICE" /\ ~NeedsVice(r) /\ Responsible(r, by)
  /\ Store(r, [referrals[r] EXCEPT !.status = "UNDER_VICE_REVIEW", !.reviewed = TRUE])

\* Mutant: every change of counselor is recorded as a new action.
HandoverActions_Always(row) == row.actions + 1

HandoverActions(row) == IF row.counselor = Nobody THEN row.actions + 1 ELSE row.actions

\* assign_counselor.
AssignCounselor(r, by, c) ==
  /\ ~NeedsVice(r) /\ Responsible(r, by)
  /\ referrals[r].status \in BeforeCounselor \cup {"REFERRED"}
  /\ ~(referrals[r].counselor = c /\ referrals[r].status = "REFERRED")
  /\ Store(r, [referrals[r] EXCEPT !.counselor = c, !.status = "REFERRED", !.reviewed = TRUE,
                                   !.actions = HandoverActions(referrals[r])])

\* acknowledge_referral.
Acknowledge(r, c) ==
  /\ referrals[r].status = "REFERRED" /\ referrals[r].counselor = c
  /\ Store(r, [referrals[r] EXCEPT !.status = "ACKNOWLEDGED"])

\* Mutant: only a closed referral counts as ended.
Ended_Closed(status) == status = "CLOSED"

\* _terminal_error.
Ended(status) == status \in {"CLOSED", "CANCELLED"}

\* close_referral: who may end the referral at this point.
MayEnd(r, by, cancel) ==
  \/ by = Principal
  \/ by = referrals[r].vice /\ referrals[r].status \in BeforeCounselor
  \/ cancel /\ by = referrals[r].author /\ referrals[r].status = "PENDING_VICE"
  \/ ~cancel /\ by = referrals[r].counselor /\ referrals[r].status = "ACKNOWLEDGED"

CloseReferral(r, by, cancel) ==
  /\ ~Ended(referrals[r].status) /\ MayEnd(r, by, cancel)
  /\ Store(r, [referrals[r] EXCEPT !.status = IF cancel THEN "CANCELLED" ELSE "CLOSED"])

\* add_contribution.
AddContribution(r) ==
  /\ referrals[r].status \in OpenStatuses
  /\ Store(r, [referrals[r] EXCEPT !.notes = TRUE])

-----------------------------------------------------------------------------
RefNext ==
  \/ \E a \in Authors : \/ \E force \in BOOLEAN : CreateCheck(a, force)
                        \/ \E v \in Vices \cup {Nobody}, c \in Counselors \cup {Nobody} :
                             CreateSave(a, v, c)
  \/ \E r \in Refs :
       \/ \E v \in Vices : AssignVice(r, v)
       \/ \E by \in Vices \cup {Principal} :
            StartReview(r, by) \/ \E c \in Counselors : AssignCounselor(r, by, c)
       \/ \E c \in Counselors : Acknowledge(r, c)
       \/ \E by \in Authors \cup Counselors, cancel \in BOOLEAN : CloseReferral(r, by, cancel)
       \/ AddContribution(r)

RefSpec == RefInit /\ [][RefNext]_refVars

-----------------------------------------------------------------------------
(* Properties.                                                             *)

\* The types of the referrals and of the requests that create them.
RefTypeOK ==
  /\ referrals \in Seq(Referral) /\ Len(referrals) <= MaxReferrals
  /\ drafts \in [Authors -> {"none", "first", "forced"}]
  /\ studentLock \in Authors \cup {Nobody}

\* Requests of two teachers at the same moment open one referral: of two that are
\* open, the later one was created by the administration on purpose.
OneOpenReferral ==
  \A r, s \in Refs :
    r < s /\ {referrals[r].status, referrals[s].status} \subseteq OpenStatuses
      => referrals[s].forced

\* A counselor sees a teacher's referral only after the responsible vice principal,
\* or the manager, handed it over; reassignments at any point included.
SeenAfterVice ==
  \A r \in Refs : referrals[r].author \in Teachers /\ referrals[r].counselor # Nobody
                    => referrals[r].vice # Nobody /\ referrals[r].reviewed

\* The record of the student holds one action for a referral that was handed to a
\* counselor, however often the counselor is changed, and none otherwise.
HandedOnce ==
  \A r \in Refs : referrals[r].actions = IF referrals[r].counselor = Nobody THEN 0 ELSE 1

\* A closed or cancelled referral is not changed by a request that read it open.
EndedStays ==
  [][\A r \in Refs : referrals[r].status \in {"CLOSED", "CANCELLED"}
       => referrals'[r] = referrals[r]]_refVars

\* What concurrent requests leave of the referrals: one open, seen by the counselor
\* after the vice principal, and handed over once.
ReferralsInvariant == OneOpenReferral /\ SeenAfterVice /\ HandedOnce
=============================================================================
