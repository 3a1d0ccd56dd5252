--------------------------- MODULE FamilyRequests ---------------------------
(***************************************************************************)
(* What the guardians of one student ask for about one day: excuses for    *)
(* its absences and corrections of them                                    *)
(* (backend/parents/request_services.py, request_api.py).                  *)
(*                                                                         *)
(* Every operation of a guardian and every decision holds the row of the   *)
(* student to its end; an approval also holds the sessions it relies on.   *)
(***************************************************************************)
EXTENDS Integers, FiniteSets

CONSTANTS
  Relatives,    \* GuardianStudentRelations of the student
  Lessons,      \* periods of the day
  Petitions,    \* requests, of both kinds
  Office,       \* an excuse that the school records by itself
  MaxFiles,     \* attachments of a request (5 in the code)
  FamilyEvents  \* bound: what happens around the requests

ASSUME FamilyBounds == {MaxFiles, FamilyEvents} \subseteq Nat /\ Office \notin Petitions

VARIABLES
  absences,  \* the lessons with a submitted mark ABSENT
  ties,      \* the relations that are ACTIVE
  petitions, \* [Petitions -> the request]
  excused,   \* [Petitions \cup {Office} -> targets of its approved excuse]
  reviewed,  \* history: the office's excuse was PENDING before it was approved
  familyEvents

familyVars == <<absences, ties, petitions, excused, reviewed, familyEvents>>

\* A target is a lesson or the whole day; never both in one request.
Scopes == {{"day"}} \cup (SUBSET Lessons \ {{}})
OpenRequest == {"PENDING", "NEEDS_INFO"}

\* ParentExcuseRequest and AttendanceCorrectionRequest.
Petition == [kind: {"none", "EXCUSE", "CORRECTION"}, by: Relatives \cup {"nobody"},
             status: OpenRequest \cup {"none", "APPROVED", "REJECTED", "CANCELLED"},
             scope: Scopes \cup {{}}, files: 0..MaxFiles]
NoPetition == [kind |-> "none", by |-> "nobody", status |-> "none", scope |-> {}, files |-> 0]

FamilyInit ==
  /\ absences \in SUBSET Lessons /\ ties = Relatives
  /\ petitions = [p \in Petitions |-> NoPetition]
  /\ excused = [x \in Petitions \cup {Office} |-> {}] /\ reviewed = FALSE /\ familyEvents = 0

FamilyEvent == familyEvents < FamilyEvents /\ familyEvents' = familyEvents + 1
Keep(p, row) == petitions' = [petitions EXCEPT ![p] = row]

\* _targets: every target has an absence.
AbsentIn(scope) == \A t \in scope : IF t = "day" THEN absences # {} ELSE t \in absences

\* Mutant: a request that waits for the guardian does not count.
Waiting_Pending(row) == row.status = "PENDING"

\* uniq_open_parent_excuse and uniq_open_parent_correction.
Waiting(row) == row.status \in OpenRequest
Taken(p, kind, r, scope) ==
  \E q \in Petitions \ {p} :
    /\ Waiting(petitions[q]) /\ petitions[q].kind = kind /\ petitions[q].scope = scope
    /\ kind = "EXCUSE" => petitions[q].by = r

-----------------------------------------------------------------------------
(* The guardian.                                                           *)

\* submit_excuse and submit_correction.
SubmitRequest(p, kind, r, scope) ==
  /\ petitions[p] = NoPetition /\ r \in ties /\ AbsentIn(scope)
  /\ kind = "CORRECTION" => scope \subseteq Lessons /\ Cardinality(scope) = 1
  /\ ~Taken(p, kind, r, scope)
  /\ Keep(p, [NoPetition EXCEPT !.kind = kind, !.by = r, !.status = "PENDING", !.scope = scope])
  /\ UNCHANGED <<absences, ties, excused, reviewed, familyEvents>>

\* resubmit_excuse, with the targets of before or others.
Resubmit(p, scope) ==
  /\ petitions[p].status = "NEEDS_INFO" /\ petitions[p].by \in ties
  /\ scope = petitions[p].scope \/ AbsentIn(scope)
  /\ ~Taken(p, "EXCUSE", petitions[p].by, scope)
  /\ Keep(p, [petitions[p] EXCEPT !.status = "PENDING", !.scope = scope])
  /\ UNCHANGED <<absences, ties, excused, reviewed, familyEvents>>

\* upload_attachment.
Attach(p) ==
  /\ petitions[p].kind = "EXCUSE" /\ petitions[p].status \in OpenRequest
  /\ petitions[p].by \in ties /\ petitions[p].files < MaxFiles
  /\ Keep(p, [petitions[p] EXCEPT !.files = @ + 1])
  /\ UNCHANGED <<absences, ties, excused, reviewed, familyEvents>>

\* Mutant: a request is withdrawn as it was read before the lock.
Withdrawable_Read(row) == row.status # "none"

Withdrawable(row) == row.status \in OpenRequest

\* cancel_request.
CancelRequest(p) ==
  /\ Withdrawable(petitions[p]) /\ petitions[p].by \in ties
  /\ Keep(p, [petitions[p] EXCEPT !.status = "CANCELLED"])
  /\ UNCHANGED <<absences, ties, excused, reviewed, familyEvents>>

-----------------------------------------------------------------------------
(* decide_request.                                                         *)

\* Mutant: only the same scope counts as covered.
Covers_Same(given, scope) == given = scope

\* create_excuse with approve_immediately: an approved excuse of the day or lesson.
Covers(given, scope) == given # {} /\ ("day" \in given \cup scope \/ given \cap scope # {})
Covered(scope) == \E x \in DOMAIN excused : Covers(excused[x], scope)

\* The absences are checked again.
ApproveExcuse(p) ==
  /\ petitions[p].kind = "EXCUSE" /\ petitions[p].status \in OpenRequest /\ petitions[p].by \in ties
  /\ AbsentIn(petitions[p].scope) /\ ~Covered(petitions[p].scope)
  /\ Keep(p, [petitions[p] EXCEPT !.status = "APPROVED"])
  /\ excused' = [excused EXCEPT ![p] = petitions[p].scope]
  /\ UNCHANGED <<absences, ties, reviewed, familyEvents>>

\* correct_student_attendance removes the mark.
ApproveCorrection(p) ==
  /\ petitions[p].kind = "CORRECTION" /\ petitions[p].status \in OpenRequest
  /\ petitions[p].by \in ties /\ petitions[p].scope \subseteq absences
  /\ Keep(p, [petitions[p] EXCEPT !.status = "APPROVED"])
  /\ absences' = absences \ petitions[p].scope
  /\ UNCHANGED <<ties, excused, reviewed, familyEvents>>

\* Mutant: a correction is returned to the guardian like an excuse.
Answer_Any(row) == {"REJECTED", "NEEDS_INFO"}

\* A correction is approved or rejected.
Answer(row) == IF row.kind = "EXCUSE" THEN {"REJECTED", "NEEDS_INFO"} ELSE {"REJECTED"}

TurnDown(p, answer) ==
  /\ petitions[p].status \in OpenRequest /\ answer \in Answer(petitions[p])
  /\ Keep(p, [petitions[p] EXCEPT !.status = answer])
  /\ UNCHANGED <<absences, ties, excused, reviewed, familyEvents>>

-----------------------------------------------------------------------------
(* What happens around the requests.                                       *)

\* The office records an excuse itself, for absences to come too.
OfficeExcuse(scope) ==
  /\ FamilyEvent /\ excused[Office] = {} /\ ~Covered(scope)
  /\ excused' = [excused EXCEPT ![Office] = scope] /\ reviewed' = FALSE
  /\ UNCHANGED <<absences, ties, petitions>>

\* approve_excuse of an excuse that was left PENDING.  It does not lock the student, and
\* compares the absences that are covered (ExcuseCoverage), never the targets.
ApprovePending(scope) ==
  /\ FamilyEvent /\ excused[Office] = {}
  /\ excused' = [excused EXCEPT ![Office] = scope] /\ reviewed' = TRUE
  /\ UNCHANGED <<absences, ties, petitions>>

\* cancel_excuse.
CancelExcuse(x) ==
  /\ FamilyEvent /\ excused[x] # {}
  /\ excused' = [excused EXCEPT ![x] = {}] /\ reviewed' = (reviewed /\ x # Office)
  /\ UNCHANGED <<absences, ties, petitions>>

\* A session is edited.
MarkChanges(l) ==
  /\ FamilyEvent
  /\ absences' = IF l \in absences THEN absences \ {l} ELSE absences \cup {l}
  /\ UNCHANGED <<ties, petitions, excused, reviewed>>

\* decide_relation, or a contact of the student that changed.
TieChanges(r) ==
  /\ FamilyEvent
  /\ ties' = IF r \in ties THEN ties \ {r} ELSE ties \cup {r}
  /\ UNCHANGED <<absences, petitions, excused, reviewed>>

-----------------------------------------------------------------------------
FamilyNext ==
  \/ \E p \in Petitions :
       \/ \E kind \in {"EXCUSE", "CORRECTION"}, r \in Relatives, scope \in Scopes :
            SubmitRequest(p, kind, r, scope)
       \/ \E scope \in Scopes : Resubmit(p, scope)
       \/ Attach(p) \/ CancelRequest(p) \/ ApproveExcuse(p) \/ ApproveCorrection(p)
       \/ \E answer \in {"REJECTED", "NEEDS_INFO"} : TurnDown(p, answer)
  \/ \E scope \in Scopes : OfficeExcuse(scope) \/ ApprovePending(scope)
  \/ \E x \in DOMAIN excused : CancelExcuse(x)
  \/ \E l \in Lessons : MarkChanges(l)
  \/ \E r \in Relatives : TieChanges(r)

FamilySpec == FamilyInit /\ [][FamilyNext]_familyVars

-----------------------------------------------------------------------------
\* The types of the requests and of the excuses; a correction never waits for the
\* guardian, who could not answer it.
FamilyTypeOK ==
  /\ absences \subseteq Lessons /\ ties \subseteq Relatives
  /\ petitions \in [Petitions -> Petition]
  /\ \A p \in Petitions : petitions[p].kind = "CORRECTION" => petitions[p].status # "NEEDS_INFO"
  /\ excused \in [Petitions \cup {Office} -> Scopes \cup {{}}]
  /\ reviewed \in BOOLEAN /\ familyEvents \in 0..FamilyEvents

\* Two guardians and the office, with whole days and lessons in any mixture, do not
\* excuse the same absence twice.  Targets can be approved twice only when the office
\* approves an excuse that was PENDING.
ExcusedOnce ==
  \A x, y \in Petitions \cup {Office} :
    x # y /\ excused[x] # {} /\ excused[y] # {} /\ (reviewed => Office \notin {x, y})
      => "day" \notin excused[x] \cup excused[y] /\ excused[x] \cap excused[y] = {}

\* A guardian has one open request for the same targets, and an absence one open
\* correction, also when a request is returned, completed with other targets and
\* submitted again.
OneOpenRequest ==
  \A p, q \in Petitions :
    p # q /\ {petitions[p].status, petitions[q].status} \subseteq OpenRequest
          /\ petitions[p].kind = petitions[q].kind /\ petitions[p].scope = petitions[q].scope
      => petitions[p].kind = "EXCUSE" /\ petitions[p].by # petitions[q].by

\* A decision stands: neither the guardian's later requests nor a second reviewer
\* change a request that was decided or withdrawn.
DecidedStays ==
  [][\A p \in Petitions : petitions[p].status \in {"APPROVED", "REJECTED", "CANCELLED"}
       => petitions'[p] = petitions[p]]_familyVars

\* What two guardians and the office leave: no absence excused twice, no request open
\* twice.
RequestsInvariant == ExcusedOnce /\ OneOpenRequest
=============================================================================
