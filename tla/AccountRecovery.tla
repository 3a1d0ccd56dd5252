--------------------------- MODULE AccountRecovery ---------------------------
(***************************************************************************)
(* One global account recovery case                                        *)
(* (backend/parents/recovery_services.py, recovery_api.py and the triggers *)
(* of migration 0006).                                                     *)
(*                                                                         *)
(* Every operation locks the row of the case and compares the version that *)
(* the reviewer's screen was loaded with; the database raises the version  *)
(* whenever a reference to evidence is recorded or revoked.  Evidence and  *)
(* grants expire, and the account may change, at any moment.               *)
(***************************************************************************)
EXTENDS Integers, FiniteSets

CONSTANTS
  FirstReviewers, SecondReviewers,  \* by the stage of their RecoveryReviewAuthorization
  Clerk,                            \* the member of the school who cancels the case
  BindingRefs, NumberRefs,          \* references to evidence, by kind
  MaxVersion                        \* bound

ASSUME RecoveryBounds ==
  MaxVersion \in Nat \ {0} /\ FirstReviewers \cap SecondReviewers = {} /\ BindingRefs \cap NumberRefs = {}

VARIABLES
  recovery,     \* the GlobalAccountRecoveryCase
  evidence,     \* [references -> "none", "valid", "expired" or "revoked"]
  decisions,    \* RecoveryReviewDecisions
  loaded,       \* [reviewers and clerk -> the version on the screen]
  entitled      \* reviewers whose grant and employment are in force

recVars == <<recovery, evidence, decisions, loaded, entitled>>

Reviewers == FirstReviewers \cup SecondReviewers
EvidenceRefs == BindingRefs \cup NumberRefs
ClosedCases == {"REJECTED", "EXPIRED", "CANCELLED"}
Recommendations == {"CONTINUE_REVIEW", "NEEDS_EVIDENCE", "REJECT"}

\* overdue: expires_at has passed; bound: the account still has the password and the
\* mobile that the case was opened for.
RecoveryCase ==
  [status: ClosedCases \cup {"none", "PENDING", "IDENTITY_REVIEW", "NEEDS_EVIDENCE",
                             "AWAITING_SECOND_REVIEW", "POLICY_BLOCKED"},
   version: 0..MaxVersion, mobile: BOOLEAN, overdue: BOOLEAN, bound: BOOLEAN]

Decision == [stage: {"FIRST", "SECOND"}, by: Reviewers, says: Recommendations,
             version: 1..MaxVersion, seen: SUBSET EvidenceRefs]

RecInit ==
  /\ recovery = [status |-> "none", version |-> 0, mobile |-> FALSE, overdue |-> FALSE,
                 bound |-> TRUE]
  /\ evidence = [e \in EvidenceRefs |-> "none"]
  /\ decisions = {} /\ loaded = [r \in Reviewers \cup {Clerk} |-> 0]
  /\ entitled = Reviewers

Stage(r) == IF r \in FirstReviewers THEN "FIRST" ELSE "SECOND"

-----------------------------------------------------------------------------
\* SchoolRecoveryIntakeView; mobile: the operation changes the number.
OpenRecovery(mobile) ==
  /\ recovery.status = "none"
  /\ recovery' = [recovery EXCEPT !.status = "PENDING", !.version = 1, !.mobile = mobile]
  /\ UNCHANGED <<evidence, decisions, loaded, entitled>>

Load(r) ==
  /\ recovery.status # "none"
  /\ loaded' = [loaded EXCEPT ![r] = recovery.version]
  /\ UNCHANGED <<recovery, evidence, decisions, entitled>>

\* Mutant: whether the case has ended is not asked again.
StillOpen_Any == recovery.status # "none"

\* ensure_open.
StillOpen ==
  /\ recovery.status \notin ClosedCases \cup {"none"}
  /\ ~recovery.overdue /\ recovery.bound

\* recovery_scope, ensure_open, ensure_independent and expected_version.
MayWork(r) == r \in entitled /\ StillOpen /\ loaded[r] = recovery.version

\* Mutant: a change of the evidence leaves status and version alone.
Touched_Keep == recovery

\* Trigger recovery_reference_version.
Touched == [recovery EXCEPT !.version = @ + 1, !.status = "IDENTITY_REVIEW"]

\* record_reference.
RecordReference(r, e) ==
  /\ MayWork(r) /\ evidence[e] = "none" /\ recovery.version < MaxVersion
  /\ evidence' = [evidence EXCEPT ![e] = "valid"]
  /\ recovery' = Touched
  /\ UNCHANGED <<decisions, loaded, entitled>>

\* revoke_reference.
RevokeReference(r, e) ==
  /\ MayWork(r) /\ evidence[e] \in {"valid", "expired"} /\ recovery.version < MaxVersion
  /\ evidence' = [evidence EXCEPT ![e] = "revoked"]
  /\ recovery' = Touched
  /\ UNCHANGED <<decisions, loaded, entitled>>

ValidRefs == {e \in EvidenceRefs : evidence[e] = "valid"}

\* evidence_digest: both kinds unless the number stays.
Complete(refs) ==
  refs \cap BindingRefs # {} /\ (recovery.mobile => refs \cap NumberRefs # {})

OfVersion == {d \in decisions : d.version = recovery.version}

\* Mutant: the second reviewer does not compare the evidence.
SameEvidence_Any(first) == TRUE

SameEvidence(first) == first.seen = ValidRefs

\* review_case and the trigger recovery_decision_guard: the second stage follows a
\* first one of another reviewer that continues.
InOrder(r) ==
  IF Stage(r) = "FIRST"
  THEN recovery.status \in {"PENDING", "IDENTITY_REVIEW", "NEEDS_EVIDENCE"}
  ELSE /\ recovery.status = "AWAITING_SECOND_REVIEW"
       /\ \E d \in OfVersion : d.stage = "FIRST" /\ d.by # r /\ d.says = "CONTINUE_REVIEW"

\* Mutant: the second reviewer's NEEDS_EVIDENCE returns the case to the beginning.
Outcome_Restart(r, says) ==
  CASE says = "REJECT" -> "REJECTED"
    [] says = "NEEDS_EVIDENCE" -> "NEW"
    [] Stage(r) = "FIRST" -> "AWAITING_SECOND_REVIEW"
    [] OTHER -> "POLICY_BLOCKED"

Outcome(r, says) ==
  CASE says = "REJECT" -> "REJECTED"
    [] says = "NEEDS_EVIDENCE" -> "NEEDS_EVIDENCE"
    [] Stage(r) = "FIRST" -> "AWAITING_SECOND_REVIEW"
    [] OTHER -> "POLICY_BLOCKED"

ReviewCase(r, says) ==
  /\ MayWork(r) /\ InOrder(r)
  /\ ~\E d \in OfVersion : d.stage = Stage(r)
  /\ says = "CONTINUE_REVIEW" =>
       /\ Complete(ValidRefs)
       /\ \A d \in OfVersion : Stage(r) = "SECOND" /\ d.stage = "FIRST" => SameEvidence(d)
  /\ decisions' = decisions \cup
       {[stage |-> Stage(r), by |-> r, says |-> says, version |-> recovery.version,
         seen |-> IF says = "CONTINUE_REVIEW" THEN ValidRefs ELSE {}]}
  /\ recovery' = [recovery EXCEPT !.status = Outcome(r, says)]
  /\ UNCHANGED <<evidence, loaded, entitled>>

\* SchoolRecoveryCancelView.
CancelRecovery ==
  /\ recovery.status \notin ClosedCases \cup {"none"} /\ loaded[Clerk] = recovery.version
  /\ recovery' = [recovery EXCEPT !.status = IF recovery.overdue THEN "EXPIRED" ELSE "CANCELLED"]
  /\ UNCHANGED <<evidence, decisions, loaded, entitled>>

-----------------------------------------------------------------------------
(* What happens around the case.                                           *)

EvidenceExpires(e) ==
  /\ evidence[e] = "valid"
  /\ evidence' = [evidence EXCEPT ![e] = "expired"]
  /\ UNCHANGED <<recovery, decisions, loaded, entitled>>

CaseExpires ==
  /\ ~recovery.overdue
  /\ recovery' = [recovery EXCEPT !.overdue = TRUE]
  /\ UNCHANGED <<evidence, decisions, loaded, entitled>>

AccountChanges ==
  /\ recovery.bound
  /\ recovery' = [recovery EXCEPT !.bound = FALSE]
  /\ UNCHANGED <<evidence, decisions, loaded, entitled>>

\* Trigger recovery_authority_guard: a revoked grant is not renewed.
GrantEnds(r) ==
  /\ r \in entitled
  /\ entitled' = entitled \ {r}
  /\ UNCHANGED <<recovery, evidence, decisions, loaded>>

RecNext ==
  \/ \E mobile \in BOOLEAN : OpenRecovery(mobile)
  \/ \E r \in Reviewers \cup {Clerk} : Load(r)
  \/ \E r \in Reviewers :
       \/ \E e \in EvidenceRefs : RecordReference(r, e) \/ RevokeReference(r, e)
       \/ \E says \in Recommendations : ReviewCase(r, says)
       \/ GrantEnds(r)
  \/ CancelRecovery
  \/ \E e \in EvidenceRefs : EvidenceExpires(e)
  \/ CaseExpires \/ AccountChanges

RecSpec == RecInit /\ [][RecNext]_recVars

-----------------------------------------------------------------------------
(* Properties.                                                             *)

\* The types of the case, its evidence and its decisions.
RecTypeOK ==
  /\ recovery \in RecoveryCase /\ decisions \subseteq Decision
  /\ evidence \in [EvidenceRefs -> {"none", "valid", "expired", "revoked"}]
  /\ loaded \in [Reviewers \cup {Clerk} -> 0..MaxVersion] /\ entitled \subseteq Reviewers

\* A case that passed both reviews rests on two reviewers who saw the same complete
\* evidence, however references were recorded, revoked and expired in between.
TwoReviewers ==
  recovery.status = "POLICY_BLOCKED" =>
    \E d, f \in OfVersion :
      /\ d.stage = "FIRST" /\ f.stage = "SECOND" /\ d.by # f.by
      /\ d.says = "CONTINUE_REVIEW" /\ f.says = "CONTINUE_REVIEW"
      /\ d.seen = f.seen /\ Complete(d.seen)

\* A review that counts was given on evidence nobody has revoked since.
ReviewedEvidenceStands ==
  recovery.status \in {"AWAITING_SECOND_REVIEW", "POLICY_BLOCKED"} =>
    \A d \in OfVersion : \A e \in d.seen : evidence[e] # "revoked"

\* A case that was rejected, cancelled or expired takes no further decision and no
\* further evidence from a screen that was loaded earlier.
ClosedCaseRests ==
  [][recovery.status \in ClosedCases
       => decisions' = decisions /\ recovery'.status = recovery.status
          /\ \A e \in EvidenceRefs : evidence[e] = "none" => evidence'[e] = "none"]_recVars

\* What a case that went on rests on: two reviewers, and evidence that stands.
ReviewInvariant == TwoReviewers /\ ReviewedEvidenceStands
=============================================================================
