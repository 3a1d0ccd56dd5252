-------------------------- MODULE WarningDocuments --------------------------
(***************************************************************************)
(* The PDF documents of warnings (backend/documents/services/generation.py)*)
(* composed with the warnings they are about.  A clerk is a request thread *)
(* that generates or retries a document.  The rendering runs between two   *)
(* transactions; each of them takes the lock of the warning first and is   *)
(* one step.  lock_school_capacity only orders such transactions.          *)
(***************************************************************************)
EXTENDS StudentWarnings

CONSTANTS
  Documents,    \* identities of the GeneratedDocument rows: a bound
  Clerks,       \* request threads that generate documents
  RenderSlots   \* PDF_RENDER_CONCURRENCY

ASSUME RenderSlotsNat == RenderSlots \in Nat \ {0}

VARIABLES
  document,  \* [Documents -> row: status, and its warning in a set]
  clerk,     \* [Clerks -> what the request is doing]
  abandoned  \* history: documents left PENDING by a request that broke off

docs == <<document, clerk, abandoned>>
allVars == <<vars, docs>>

Document == [status: {"NONE", "PENDING", "READY", "FAILED", "VOIDED"},
             warning: SUBSET Warnings]
\* pc "retry": the view has read the document; "create", "render", "failed": in
\* the service, with a render slot.
Clerk == [pc: {"idle", "retry", "create", "render", "failed"},
          warning: SUBSET Warnings, document: SUBSET Documents]

NoDocument == [status |-> "NONE", warning |-> {}]
IdleClerk == [pc |-> "idle", warning |-> {}, document |-> {}]

DocInit ==
  /\ Init
  /\ document = [d \in Documents |-> NoDocument]
  /\ clerk = [c \in Clerks |-> IdleClerk]
  /\ abandoned = {}

\* _with_render_slot: a try-lock; without a free slot the request is refused.
SlotFree == Cardinality({c \in Clerks : clerk[c].pc \in {"create", "render", "failed"}})
              < RenderSlots

\* Mutant: only finished documents count for the constraint.
Live_Ready(d) == document[d].status = "READY"

\* uniq_live_warning_document, of one type and revision per warning.
Live(d) == document[d].status \in {"PENDING", "READY"}

\* The transactions of a clerk wait for the lock of the warning.
Unlocked(c) == \A i \in clerk[c].warning : WarningFree(i)

\* Mutant: the status read before the snapshot was built still counts.
StillIssued_AsRead(c) == clerk[c].warning # {}

StillIssued(c) == clerk[c].warning \subseteq Issued

\* resolve_warning and build_snapshot.
GenerateDocument(c, i) ==
  /\ clerk[c].pc = "idle" /\ SlotFree
  /\ i \in Issued
  /\ clerk' = [clerk EXCEPT ![c] = [IdleClerk EXCEPT !.pc = "create", !.warning = {i}]]
  /\ UNCHANGED <<vars, document, abandoned>>

\* The transaction that inserts the PENDING row (a bound: a row is left).
CreateDocument(c) ==
  LET taken == \E d \in Documents : Live(d) /\ document[d].warning = clerk[c].warning IN
  /\ clerk[c].pc = "create" /\ Unlocked(c)
  /\ \/ /\ StillIssued(c) /\ ~taken
        /\ \E d \in Documents :
             /\ document[d].status = "NONE"
             /\ document' = [document EXCEPT ![d] =
                               [status |-> "PENDING", warning |-> clerk[c].warning]]
             /\ clerk' = [clerk EXCEPT ![c].pc = "render", ![c].document = {d}]
     \/ /\ ~StillIssued(c) \/ taken \/ \A d \in Documents : document[d].status # "NONE"
        /\ clerk' = [clerk EXCEPT ![c] = IdleClerk]
        /\ UNCHANGED document
  /\ UNCHANGED <<vars, abandoned>>

\* What _produce_file and _mark_failed check under the locks.
Writable(c, d) == StillIssued(c) /\ document[d].status # "VOIDED"

\* _produce_file: the file is stored and the document READY, unless another live
\* document has taken its place (IntegrityError).
ProduceFile(c) ==
  /\ clerk[c].pc = "render" /\ Unlocked(c)
  /\ \E d \in clerk[c].document :
       LET taken == \E e \in Documents \ {d} : Live(e) /\ document[e].warning = document[d].warning
       IN IF Writable(c, d) /\ ~taken
          THEN document' = [document EXCEPT ![d].status = "READY"]
          ELSE UNCHANGED document
  /\ clerk' = [clerk EXCEPT ![c] = IdleClerk]
  /\ UNCHANGED <<vars, abandoned>>

\* The failures that are caught: of the engine or the template (any exception), and
\* the limit of the school's storage (an ApiError).
ProduceFails(c) ==
  /\ clerk[c].pc = "render"
  /\ clerk' = [clerk EXCEPT ![c].pc = "failed"]
  /\ UNCHANGED <<vars, document, abandoned>>

\* Mutant: the error is stored as the status.
MarkFailed_Error(c) ==
  /\ clerk[c].pc = "failed" /\ Unlocked(c)
  /\ \E d \in clerk[c].document :
       IF Writable(c, d) THEN document' = [document EXCEPT ![d].status = "ERROR"]
                         ELSE UNCHANGED document
  /\ clerk' = [clerk EXCEPT ![c] = IdleClerk]
  /\ UNCHANGED <<vars, abandoned>>

\* Mutant: the failure is logged and the row left as it is.
MarkFailed_LogOnly(c) ==
  /\ clerk[c].pc = "failed" /\ Unlocked(c)
  /\ clerk' = [clerk EXCEPT ![c] = IdleClerk]
  /\ UNCHANGED <<vars, document, abandoned>>

MarkFailed(c) ==
  /\ clerk[c].pc = "failed" /\ Unlocked(c)
  /\ \E d \in clerk[c].document :
       IF Writable(c, d) THEN document' = [document EXCEPT ![d].status = "FAILED"]
                         ELSE UNCHANGED document
  /\ clerk' = [clerk EXCEPT ![c] = IdleClerk]
  /\ UNCHANGED <<vars, abandoned>>

\* DocumentRetryView reads the row before it asks for a slot.
RetryRead(c, d) ==
  /\ clerk[c].pc = "idle" /\ document[d].status = "FAILED"
  /\ clerk' = [clerk EXCEPT ![c] = [pc |-> "retry", warning |-> document[d].warning,
                                    document |-> {d}]]
  /\ UNCHANGED <<vars, document, abandoned>>

\* retry_document: without a slot, or with a voided warning, it is refused.
RetryDocument(c) ==
  /\ clerk[c].pc = "retry"
  /\ clerk' = [clerk EXCEPT ![c] = IF SlotFree /\ StillIssued(c)
                                   THEN [@ EXCEPT !.pc = "render"] ELSE IdleClerk]
  /\ UNCHANGED <<vars, document, abandoned>>

VoidDocument(d) ==
  /\ document[d].status \notin {"NONE", "VOIDED"}
  /\ document' = [document EXCEPT ![d].status = "VOIDED"]
  /\ UNCHANGED <<vars, clerk, abandoned>>

\* The request breaks off, because its process dies or because it raises what nothing
\* catches: the storage or the database fails under _produce_file, whose `except` is for
\* ApiError alone, or _mark_failed or the event between the transactions raises.  What
\* was committed stays, and the slot goes back with the connection.
RequestBreaks(c) ==
  /\ clerk[c].pc # "idle"
  /\ abandoned' = abandoned \cup {d \in clerk[c].document : document[d].status = "PENDING"}
  /\ clerk' = [clerk EXCEPT ![c] = IdleClerk]
  /\ UNCHANGED <<vars, document>>

\* The part of void_locked_warning that voids the documents of a warning.
VoidedWith(i) == warning[i].status = "ISSUED" /\ warning'[i].status = "VOIDED"
VoidDocuments ==
  /\ document' = [d \in Documents |->
       IF \E i \in document[d].warning : VoidedWith(i)
       THEN [document[d] EXCEPT !.status = "VOIDED"] ELSE document[d]]
  /\ UNCHANGED <<clerk, abandoned>>

ClerkStep(c) ==
  \/ CreateDocument(c) \/ ProduceFile(c) \/ ProduceFails(c) \/ MarkFailed(c)
  \/ RetryDocument(c)

DocNext ==
  \/ Next /\ VoidDocuments
  \/ \E c \in Clerks :
       \/ ClerkStep(c) \/ RequestBreaks(c)
       \/ \E i \in Warnings : GenerateDocument(c, i)
       \/ \E d \in Documents : RetryRead(c, d)
  \/ \E d \in Documents : VoidDocument(d)

DocSpec == DocInit /\ [][DocNext]_allVars

\* Requests run on; those that wait for a row lock are queued, so each gets it in
\* the end however often others take it (hence SF).
DocFairSpec ==
  /\ DocSpec
  /\ \A c \in Clerks : SF_allVars(ClerkStep(c))
  /\ \A w \in Workers : WF_allVars(WorkerStep(w) /\ VoidDocuments)

-----------------------------------------------------------------------------
(* Properties.                                                             *)

\* The types of the rows and of the requests.
DocTypeOK ==
  /\ TypeOK
  /\ document \in [Documents -> Document]
  /\ clerk \in [Clerks -> Clerk]
  /\ abandoned \in SUBSET Documents

\* A voided warning has no document left, whatever was being rendered or retried
\* when it was voided.
VoidedHasNoDocument ==
  \A d \in Documents : \A i \in document[d].warning :
    warning[i].status = "VOIDED" => document[d].status = "VOIDED"

\* A warning has one live document at most, counting the retry of a failed one
\* whose place was taken in the meantime.
OneLiveDocument ==
  \A d, e \in Documents :
    /\ document[d].status \in {"PENDING", "READY"}
    /\ document[e].status \in {"PENDING", "READY"}
    /\ document[d].warning = document[e].warning
    => d = e

\* The file of a READY document is final: reprinting gives the stored file until
\* the document is voided.
ReadyIsFinal ==
  [][\A d \in Documents : document[d].status = "READY"
       => document'[d].status \in {"READY", "VOIDED"}]_allVars

\* A document that was begun ends, READY, FAILED or VOIDED, unless its own request
\* breaks off: whatever other requests, their deaths, the voiding of the warning and
\* the failures that are caught do meanwhile.
PendingEnds ==
  \A d \in Documents :
    document[d].status = "PENDING" ~> document[d].status # "PENDING" \/ d \in abandoned

\* What holds of the documents between any two steps: no document outlives its
\* warning, and a retry does not make a second live one.
DocInvariant == DocTypeOK /\ VoidedHasNoDocument /\ OneLiveDocument
=============================================================================
