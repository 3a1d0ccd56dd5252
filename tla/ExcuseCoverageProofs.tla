------------------------ MODULE ExcuseCoverageProofs ------------------------
(***************************************************************************)
(* Proofs about ExcuseCoverage, for any sets of periods, students, excuses *)
(* and request threads: the types, that an ACTIVE coverage is always       *)
(* backed by an APPROVED excuse that targets it, that decisions are final  *)
(* and as previewed, and that absences get the coverage they are due.      *)
(***************************************************************************)
EXTENDS ExcuseCoverage, TLAPS, WellFoundedInduction, FiniteSetTheorems

Pairs == Periods \X Students

-----------------------------------------------------------------------------
(* Helpers.                                                                *)

\* Approval times are numbers, as many as there are excuses.
LEMMA TimesAreNat == Times \subseteq Nat
<1>1. Cardinality(Excuses) \in Nat
  BY ExcusesFinite, FS_CardinalityType
<1> QED BY <1>1 DEF Times

\* What the type invariant says of one excuse, one coverage and one transaction.
LEMMA Fields ==
  ASSUME TypeOK
  PROVE  /\ \A e \in Excuses : /\ excuse[e] \in Excuse
                                /\ excuse[e].approvedAt \in Nat
                                /\ excuse[e].scope \in SUBSET Periods
                                /\ excuse[e].student \in Students \cup {Nobody}
         /\ \A k \in Pairs : /\ coverage[k] \in Row
                             /\ coverage[k].row \in Nat
                             /\ coverage[k].excuse \in Excuses \cup {Nobody}
         /\ \A w \in Workers : /\ worker[w] \in Worker
                                /\ worker[w].students \in SUBSET Students
                                /\ worker[w].own \in Excuses \cup {Nobody}
                                /\ worker[w].targets \in SUBSET Excuses
                                /\ worker[w].rows \in SUBSET (Periods \X Students \X Nat)
                                /\ worker[w].absent \in SUBSET Pairs
         /\ \A e \in Excuses : preview[e] \in Preview
<1>1. /\ \A e \in Excuses : excuse[e] \in Excuse
      /\ \A k \in Pairs : coverage[k] \in Row
      /\ \A w \in Workers : worker[w] \in Worker
      /\ \A e \in Excuses : preview[e] \in Preview
  BY DEF TypeOK, Pairs
<1>2. \A e \in Excuses : /\ excuse[e].approvedAt \in Nat
                          /\ excuse[e].scope \in SUBSET Periods
                          /\ excuse[e].student \in Students \cup {Nobody}
  BY <1>1 DEF Excuse
<1>3. \A k \in Pairs : coverage[k].row \in Nat /\ coverage[k].excuse \in Excuses \cup {Nobody}
  BY <1>1 DEF Row
<1>4. \A w \in Workers : /\ worker[w].students \in SUBSET Students
                          /\ worker[w].own \in Excuses \cup {Nobody}
                          /\ worker[w].targets \in SUBSET Excuses
                          /\ worker[w].rows \in SUBSET (Periods \X Students \X Nat)
                          /\ worker[w].absent \in SUBSET Pairs
  BY <1>1 DEF Worker, Pairs
<1> QED BY <1>1, <1>2, <1>3, <1>4

\* A nonempty set of excuses has one whose approval is not later than the others'.
LEMMA OldestExists ==
  ASSUME TypeOK, NEW M \in SUBSET Excuses, M # {}
  PROVE  \E e \in M : \A f \in M : excuse[e].approvedAt <= excuse[f].approvedAt
<1> DEFINE T == {excuse[e].approvedAt : e \in M}
           R == OpToRel(<, Nat)
<1>1. T \subseteq Nat /\ T # {}
  BY Fields
<1>2. IsWellFoundedOn(R, Nat)
  BY NatLessThanWellFounded
<1>3. \A m, n \in Nat : m < n => <<m, n>> \in R
  BY Zenon DEF OpToRel
<1> HIDE DEF R, T
<1>5. PICK n \in T : \A m \in T : ~(<<m, n>> \in R)
  BY <1>1, <1>2, WFMin
<1>6. ASSUME NEW m \in T PROVE n <= m
  <2>1. m \in Nat /\ n \in Nat
    BY <1>1
  <2>2. ~(m < n)
    BY <2>1, <1>3, <1>5, Zenon
  <2> QED BY <2>1, <2>2
<1>4. PICK e \in M : n = excuse[e].approvedAt
  BY <1>5 DEF T
<1> QED BY <1>4, <1>6 DEF T

\* _pick_excuse returns no excuse, or one of the targets that covers the absence.
LEMMA PickMatches ==
  ASSUME TypeOK, NEW S \in SUBSET Excuses, NEW k \in Pairs
  PROVE  PickExcuse(S, k) = Nobody
         \/ (PickExcuse(S, k) \in S /\ Covers(PickExcuse(S, k), k[1], k[2]))
<1> DEFINE M == {e \in S : Covers(e, k[1], k[2])}
<1>1. CASE M = {}
  BY <1>1 DEF PickExcuse
<1>2. CASE M # {}
  <2>1. \E e \in M : \A f \in M : excuse[e].approvedAt <= excuse[f].approvedAt
    BY <1>2, OldestExists
  <2> DEFINE c == CHOOSE e \in M : \A f \in M : excuse[e].approvedAt <= excuse[f].approvedAt
  <2>2. c \in M
    BY <2>1
  <2>3. PickExcuse(S, k) = c
    BY <1>2 DEF PickExcuse
  <2> QED BY <2>2, <2>3
<1> QED BY <1>1, <1>2

\* Voiding keeps the table a table; a row keeps its excuse or loses it.
LEMMA VoidedRows ==
  ASSUME NEW cov \in [Pairs -> Row], NEW rows
  PROVE  /\ Voided(cov, rows) \in [Pairs -> Row]
         /\ \A k \in Pairs : /\ Voided(cov, rows)[k].row = cov[k].row
                             /\ Voided(cov, rows)[k].excuse \in {cov[k].excuse, Nobody}
<1> DEFINE v(k) == IF <<k[1], k[2], cov[k].row>> \in rows
                   THEN [cov[k] EXCEPT !.excuse = Nobody] ELSE cov[k]
<1>1. ASSUME NEW k \in Pairs
      PROVE  v(k) \in Row /\ v(k).row = cov[k].row /\ v(k).excuse \in {cov[k].excuse, Nobody}
  <2>1. cov[k] \in Row
    OBVIOUS
  <2> QED BY <2>1 DEF Row
<1>2. Voided(cov, rows) = [k \in Pairs |-> v(k)]
  BY DEF Voided
<1> HIDE DEF v
<1> QED BY <1>1, <1>2

\* New rows keep the table a table; only the given keys get another excuse.
LEMMA CreatedRows ==
  ASSUME NEW cov \in [Pairs -> Row], NEW keys, NEW by,
         \A k \in Pairs : k \in keys => by[k] \in Excuses
  PROVE  /\ Created(cov, keys, by) \in [Pairs -> Row]
         /\ \A k \in Pairs : Created(cov, keys, by)[k].excuse =
                               IF k \in keys THEN by[k] ELSE cov[k].excuse
<1> DEFINE v(k) == IF k \in keys THEN [row |-> cov[k].row + 1, excuse |-> by[k]] ELSE cov[k]
<1>1. ASSUME NEW k \in Pairs
      PROVE  v(k) \in Row /\ v(k).excuse = IF k \in keys THEN by[k] ELSE cov[k].excuse
  <2>1. cov[k] \in Row /\ (k \in keys => by[k] \in Excuses)
    OBVIOUS
  <2> QED BY <2>1 DEF Row
<1>2. Created(cov, keys, by) = [k \in Pairs |-> v(k)]
  BY DEF Created
<1> HIDE DEF v
<1> QED BY <1>1, <1>2

-----------------------------------------------------------------------------
(* The inductive invariant.                                                *)

\* What a transaction relies on between two of its steps: the excuse it is
\* approving stays PENDING with the targets it has read, the excuse it is
\* creating stays its own, and the excuses it has locked stay APPROVED.
OwnOK(w) ==
  /\ worker[w].pc = "idle" => worker[w].own = Nobody
  /\ worker[w].pc \in {"check", "approve"} =>
       /\ worker[w].own \in Excuses
       /\ excuse[worker[w].own].status = "PENDING"
       /\ \A k \in worker[w].absent : Covers(worker[w].own, k[1], k[2])
  /\ worker[w].pc = "day" => worker[w].own \in Excuses
  /\ worker[w].pc \in {"day", "read", "lock", "write"} /\ worker[w].own # Nobody
       => excuse[worker[w].own].status = "CREATING"
  /\ worker[w].pc = "write" => \A e \in worker[w].targets : Approved(e) \/ e = worker[w].own

\* No two transactions approve or create the same excuse.
OwnDistinct == \A v, w \in Workers :
  v # w /\ worker[v].own = worker[w].own => worker[v].own = Nobody

Backed(k) == coverage[k].excuse # Nobody =>
  Approved(coverage[k].excuse) /\ Covers(coverage[k].excuse, k[1], k[2])

Inv == /\ TypeOK
       /\ \A w \in Workers : OwnOK(w)
       /\ OwnDistinct
       /\ \A k \in Pairs : Backed(k)

\* Absence by absence, an ACTIVE coverage has an approved excuse that covers it.
LEMMA BackedPairs == (\A k \in Pairs : Backed(k)) => ActiveIsBacked
<1> SUFFICES ASSUME \A k \in Pairs : Backed(k), NEW p \in Periods, NEW s \in Students
             PROVE  LET e == coverage[<<p, s>>].excuse IN
                    e # Nobody => Approved(e) /\ Covers(e, p, s)
  BY DEF ActiveIsBacked
<1>1. <<p, s>> \in Pairs
  BY DEF Pairs
<1>2. Backed(<<p, s>>)
  BY <1>1
<1> QED BY <1>2 DEF Backed

\* The records the actions build have their types.
LEMMA Built ==
  /\ Idle \in Worker /\ NoExcuse \in Excuse /\ NoPreview \in Preview
  /\ \A S \in SUBSET Students : [Idle EXCEPT !.pc = "read", !.students = S] \in Worker
  /\ \A e \in Excuses : [Idle EXCEPT !.pc = "day", !.own = e] \in Worker
  /\ \A e \in Excuses, h \in Preview, a \in SUBSET Pairs :
       [Idle EXCEPT !.pc = "check", !.own = e, !.hash = h, !.absent = a] \in Worker
<1>1. NoPreview \in Preview
  BY DEF NoPreview, Preview
<1>2. Idle \in Worker
  BY <1>1 DEF Idle, Worker
<1>3. NoExcuse \in Excuse
  BY DEF NoExcuse, Excuse
<1>4. ASSUME NEW S \in SUBSET Students
      PROVE  [Idle EXCEPT !.pc = "read", !.students = S] \in Worker
  BY <1>2 DEF Worker
<1>5. ASSUME NEW e \in Excuses
      PROVE  [Idle EXCEPT !.pc = "day", !.own = e] \in Worker
  BY <1>2 DEF Worker
<1>6. ASSUME NEW e \in Excuses, NEW h \in Preview, NEW a \in SUBSET Pairs
      PROVE  [Idle EXCEPT !.pc = "check", !.own = e, !.hash = h, !.absent = a] \in Worker
  BY <1>2 DEF Worker, Pairs
<1> QED BY <1>1, <1>2, <1>3, <1>4, <1>5, <1>6

\* A transaction that a step does not touch can still rely on what it read, as
\* long as the excuses it owns or has locked are the same.
LEMMA OthersKeep ==
  ASSUME Inv, NEW v \in Workers, worker'[v] = worker[v],
         \A e \in Excuses :
           e = worker[v].own \/ (worker[v].pc = "write" /\ e \in worker[v].targets)
             => excuse'[e] = excuse[e]
  PROVE  OwnOK(v)'
<1>1. OwnOK(v) /\ worker[v].own \in Excuses \cup {Nobody} /\ worker[v].targets \in SUBSET Excuses
  BY Fields DEF Inv
<1>2. worker[v].own \in Excuses => excuse'[worker[v].own] = excuse[worker[v].own]
  OBVIOUS
<1>3. worker[v].pc = "write" => \A e \in worker[v].targets : excuse'[e] = excuse[e]
  BY <1>1
<1>4. worker[v].own # Nobody => worker[v].own \in Excuses
  BY <1>1
<1> QED BY <1>1, <1>2, <1>3, <1>4 DEF OwnOK, Approved, Covers

\* An idle transaction relies on nothing.
LEMMA IdleKeeps ==
  ASSUME NEW w \in Workers, worker'[w] = Idle
  PROVE  OwnOK(w)' /\ worker'[w].own = Nobody
BY DEF OwnOK, Idle

\* A row that keeps its excuse, or loses it, is backed while APPROVED excuses
\* stay as they are.
LEMMA RowKeeps ==
  ASSUME Inv, NEW k \in Pairs,
         coverage'[k].excuse \in {coverage[k].excuse, Nobody},
         coverage'[k].excuse # Nobody => excuse'[coverage[k].excuse] = excuse[coverage[k].excuse]
  PROVE  Backed(k)'
<1>1. Backed(k)
  BY DEF Inv
<1> QED BY <1>1 DEF Backed, Approved, Covers

\* A step that changes one transaction and no excuse or row that another relies on.
LEMMA OneWorker ==
  ASSUME Inv, NEW w \in Workers, NEW W \in Worker,
         worker' = [worker EXCEPT ![w] = W],
         W.own \in {Nobody, worker[w].own},
         \A v \in Workers \ {w}, e \in Excuses :
           e = worker[v].own \/ (worker[v].pc = "write" /\ e \in worker[v].targets)
             => excuse'[e] = excuse[e],
         OwnOK(w)'
  PROVE  /\ worker' \in [Workers -> Worker]
         /\ \A v \in Workers : OwnOK(v)'
         /\ OwnDistinct'
<1>1. worker \in [Workers -> Worker]
  BY DEF Inv, TypeOK
<1>2. worker'[w] = W /\ \A v \in Workers : v # w => worker'[v] = worker[v]
  BY <1>1
<1>3. ASSUME NEW v \in Workers, v # w PROVE OwnOK(v)'
  BY <1>2, <1>3, OthersKeep
<1>4. OwnDistinct'
  BY <1>2 DEF OwnDistinct, Inv
<1> QED BY <1>1, <1>3, <1>4

\* The request changes attendance: only its own transaction and the marks move.
LEMMA ReconcileStarts ==
  ASSUME Inv, NEW w \in Workers, NEW S \in SUBSET Students,
         Reconcile(w, S), UNCHANGED <<excuse, coverage>>
  PROVE  /\ worker' \in [Workers -> Worker]
         /\ \A v \in Workers : OwnOK(v)'
         /\ OwnDistinct'
         /\ \A k \in Pairs : Backed(k)'
<1> DEFINE W == [Idle EXCEPT !.pc = "read", !.students = S]
<1>1. W \in Worker
  BY Built
<1>2. worker' = [worker EXCEPT ![w] = W] /\ W.pc = "read" /\ W.own = Nobody
  BY DEF Reconcile, Idle
<1> HIDE DEF W
<1>3. worker'[w] = W
  BY <1>2 DEF Inv, TypeOK
<1>4. OwnOK(w)'
  BY <1>2, <1>3 DEF OwnOK
<1>5. /\ worker' \in [Workers -> Worker]
      /\ \A v \in Workers : OwnOK(v)'
      /\ OwnDistinct'
  BY <1>1, <1>2, <1>4, OneWorker
<1>6. ASSUME NEW k \in Pairs PROVE Backed(k)'
  BY RowKeeps
<1> QED BY <1>5, <1>6

\* submit_session: new absences, and a reconciliation that has read nothing yet.
LEMMA SubmitKeeps ==
  ASSUME Inv, NEW w \in Workers, NEW p \in Periods, NEW S \in SUBSET Students,
         SubmitSession(w, p, S)
  PROVE  Inv'
<1>1. Reconcile(w, Students) /\ UNCHANGED <<excuse, coverage, preview>>
  BY DEF SubmitSession
<1>2. submitted' \in SUBSET Periods /\ absent' \in SUBSET (Periods \X Students)
      /\ edits' \in 0..MaxEdits /\ unsettled' \in SUBSET (Periods \X Students)
  BY MaxEditsNat DEF SubmitSession, Inv, TypeOK
<1>3. /\ worker' \in [Workers -> Worker]
      /\ \A v \in Workers : OwnOK(v)'
      /\ OwnDistinct'
      /\ \A k \in Pairs : Backed(k)'
  BY <1>1, ReconcileStarts
<1> QED BY <1>1, <1>2, <1>3 DEF Inv, TypeOK

\* edit_session and correct_student_attendance: absences change, and a
\* reconciliation starts.
LEMMA EditKeeps ==
  ASSUME Inv, NEW w \in Workers, NEW p \in Periods, NEW S \in SUBSET Students,
         EditSession(w, p, S)
  PROVE  Inv'
<1> DEFINE old == {s \in Students : <<p, s>> \in absent}
<1>1. Reconcile(w, Changed(old, S)) /\ UNCHANGED <<submitted, excuse, coverage, preview>>
  BY DEF EditSession
<1>2. /\ absent' \in SUBSET (Periods \X Students) /\ edits' \in 0..MaxEdits
      /\ unsettled' \in SUBSET (Periods \X Students)
  BY MaxEditsNat DEF EditSession, Inv, TypeOK
<1>3. Changed(old, S) \in SUBSET Students
  BY DEF Changed
<1>4. /\ worker' \in [Workers -> Worker]
      /\ \A v \in Workers : OwnOK(v)'
      /\ OwnDistinct'
      /\ \A k \in Pairs : Backed(k)'
  BY <1>1, <1>3, ReconcileStarts
<1> QED BY <1>1, <1>2, <1>4 DEF Inv, TypeOK

\* A commit turns the excuse a transaction was creating into an APPROVED one.
LEMMA CommitKeeps ==
  ASSUME Inv, NEW w \in Workers, worker[w].pc \in {"day", "read", "write"},
         worker' = [worker EXCEPT ![w] = Idle], excuse' = Committed(w, excuse)
  PROVE  /\ worker' \in [Workers -> Worker]
         /\ excuse' \in [Excuses -> Excuse]
         /\ \A v \in Workers : OwnOK(v)'
         /\ OwnDistinct'
         /\ \A e \in Excuses : Approved(e) => excuse'[e] = excuse[e]
         /\ \A e \in Excuses : \A p, s : Covers(e, p, s)' <=> Covers(e, p, s)
         /\ \A e \in worker[w].targets :
              worker[w].pc = "write" => Approved(e)'
<1> DEFINE o == worker[w].own
<1>1. OwnOK(w) /\ o \in Excuses \cup {Nobody} /\ worker[w].targets \in SUBSET Excuses
  BY Fields DEF Inv
<1>2. excuse \in [Excuses -> Excuse] /\ worker \in [Workers -> Worker]
  BY DEF Inv, TypeOK
<1>3. CASE o = Nobody
  <2>1. excuse' = excuse
    BY <1>3 DEF Committed
  <2>2. worker'[w] = Idle
    BY <1>2
  <2>3. /\ worker' \in [Workers -> Worker]
        /\ \A v \in Workers : OwnOK(v)'
        /\ OwnDistinct'
    BY <2>1, <2>2, IdleKeeps, Built, OneWorker DEF Idle
  <2>4. worker[w].pc = "write" => \A e \in worker[w].targets : Approved(e)
    BY <1>1, <1>3, NobodyApart DEF OwnOK
  <2> QED BY <1>2, <2>1, <2>3, <2>4 DEF Covers, Approved
<1>4. CASE o \in Excuses
  <2>1. excuse' = [excuse EXCEPT ![o].status = "APPROVED"] /\ excuse[o].status = "CREATING"
    BY <1>1, <1>4, NobodyApart DEF Committed, OwnOK
  <2>2. excuse[o] \in Excuse
    BY <1>2, <1>4
  <2>3. [excuse[o] EXCEPT !.status = "APPROVED"] \in Excuse
    BY <2>2 DEF Excuse
  <2>4. /\ [excuse[o] EXCEPT !.status = "APPROVED"].status = "APPROVED"
        /\ [excuse[o] EXCEPT !.status = "APPROVED"].scope = excuse[o].scope
        /\ [excuse[o] EXCEPT !.status = "APPROVED"].student = excuse[o].student
    BY <2>2 DEF Excuse
  <2>5. excuse'[o] = [excuse[o] EXCEPT !.status = "APPROVED"]
        /\ \A e \in Excuses : e # o => excuse'[e] = excuse[e]
    BY <1>2, <1>4, <2>1
  <2>6. excuse' \in [Excuses -> Excuse]
    BY <1>2, <2>1, <2>3
  <2>7. ASSUME NEW v \in Workers \ {w}, NEW e \in Excuses,
               e = worker[v].own \/ (worker[v].pc = "write" /\ e \in worker[v].targets)
        PROVE  excuse'[e] = excuse[e]
    <3>1. worker[v].own # o
      BY <1>4, NobodyApart DEF OwnDistinct, Inv
    <3>2. worker[v].pc = "write" => \A f \in worker[v].targets : Approved(f) \/ f = worker[v].own
      BY DEF Inv, OwnOK
    <3>3. ~Approved(o)
      BY <2>1 DEF Approved
    <3> QED BY <2>5, <2>7, <3>1, <3>2, <3>3
  <2>8. worker'[w] = Idle
    BY <1>2
  <2>9. /\ worker' \in [Workers -> Worker]
        /\ \A v \in Workers : OwnOK(v)'
        /\ OwnDistinct'
    BY <2>7, <2>8, IdleKeeps, Built, OneWorker DEF Idle
  <2>10. \A e \in Excuses : Approved(e) => excuse'[e] = excuse[e]
    BY <2>1, <2>5 DEF Approved
  <2>11. worker[w].pc = "write" => \A e \in worker[w].targets : Approved(e)'
    <3>1. worker[w].pc = "write" => \A e \in worker[w].targets : Approved(e) \/ e = o
      BY <1>1 DEF OwnOK
    <3> QED BY <1>1, <2>4, <2>5, <3>1 DEF Approved
  <2>12. \A e \in Excuses : \A p, s : Covers(e, p, s)' <=> Covers(e, p, s)
    BY <2>4, <2>5 DEF Covers
  <2> QED BY <2>6, <2>9, <2>10, <2>11, <2>12
<1> QED BY <1>1, <1>3, <1>4

\* The rows stay backed when neither they nor the APPROVED excuses change.
LEMMA RowsKeep ==
  ASSUME Inv, UNCHANGED coverage,
         \A e \in Excuses : Approved(e) => excuse'[e] = excuse[e]
  PROVE  \A k \in Pairs : Backed(k)'
<1> SUFFICES ASSUME NEW k \in Pairs PROVE Backed(k)'
  OBVIOUS
<1>1. Backed(k) /\ coverage[k].excuse \in Excuses \cup {Nobody}
  BY Fields DEF Inv
<1>2. coverage[k].excuse # Nobody => excuse'[coverage[k].excuse] = excuse[coverage[k].excuse]
  BY <1>1 DEF Backed
<1> QED BY <1>2, RowKeeps

\* ReconcileRead: the transaction ends, or keeps what it has read.
LEMMA ReadKeeps ==
  ASSUME Inv, NEW w \in Workers, ReconcileRead(w)
  PROVE  Inv'
<1> DEFINE S == worker[w].students \cap
                  ({excuse[e].student : e \in Visible(w)} \cup {r[2] : r \in ActiveRows})
           W == [worker[w] EXCEPT !.pc = "lock", !.students = S,
                                  !.targets = Visible(w), !.rows = ActiveRows]
<1>1. worker[w].pc = "read" /\ UNCHANGED <<attendance, coverage, preview>>
  BY DEF ReconcileRead
<1>2. CASE worker' = [worker EXCEPT ![w] = Idle] /\ excuse' = Committed(w, excuse)
  <2>1. /\ worker' \in [Workers -> Worker]
        /\ excuse' \in [Excuses -> Excuse]
        /\ \A v \in Workers : OwnOK(v)'
        /\ OwnDistinct'
        /\ \A e \in Excuses : Approved(e) => excuse'[e] = excuse[e]
    BY <1>1, <1>2, CommitKeeps
  <2>2. \A k \in Pairs : Backed(k)'
    BY <1>1, <2>1, RowsKeep
  <2> QED BY <1>1, <2>1, <2>2 DEF Inv, TypeOK, attendance
<1>3. CASE worker' = [worker EXCEPT ![w] = W] /\ UNCHANGED excuse
  <2>1. worker[w] \in Worker /\ worker[w].own \in Excuses \cup {Nobody} /\ S \in SUBSET Students
    BY Fields DEF Inv
  <2>2. Visible(w) \in SUBSET Excuses
    BY DEF Visible
  <2>3. ActiveRows \in SUBSET (Periods \X Students \X Nat)
    <3> SUFFICES ASSUME NEW r \in ActiveRows PROVE r \in Periods \X Students \X Nat
      OBVIOUS
    <3>1. DOMAIN coverage = Pairs
      BY DEF Inv, TypeOK, Pairs
    <3>2. PICK k \in Pairs : r = <<k[1], k[2], coverage[k].row>>
      BY <3>1 DEF ActiveRows
    <3>3. coverage[k].row \in Nat
      BY Fields DEF Inv
    <3> QED BY <3>2, <3>3 DEF Pairs
  <2> HIDE DEF S
  <2>4. W \in Worker
    BY <2>1, <2>2, <2>3 DEF Worker
  <2>5. W.pc = "lock" /\ W.own = worker[w].own
    BY <2>1 DEF Worker
  <2> HIDE DEF W
  <2>6. worker'[w] = W
    BY <1>3 DEF Inv, TypeOK
  <2>7. worker[w].own # Nobody => excuse[worker[w].own].status = "CREATING"
    BY <1>1 DEF Inv, OwnOK
  <2>8. OwnOK(w)'
    BY <1>3, <2>5, <2>6, <2>7 DEF OwnOK
  <2>9. /\ worker' \in [Workers -> Worker]
        /\ \A v \in Workers : OwnOK(v)'
        /\ OwnDistinct'
    BY <1>3, <2>4, <2>5, <2>8, OneWorker
  <2>10. \A k \in Pairs : Backed(k)'
    BY <1>1, <1>3, RowsKeep
  <2> QED BY <1>1, <1>3, <2>9, <2>10 DEF Inv, TypeOK, attendance
<1>4. worker' = [worker EXCEPT ![w].pc = "lock", ![w].students = S,
                               ![w].targets = Visible(w), ![w].rows = ActiveRows]
      => worker' = [worker EXCEPT ![w] = W]
  BY DEF Inv, TypeOK
<1> QED BY <1>2, <1>3, <1>4 DEF ReconcileRead

\* ReconcileLock: what it locks is APPROVED, or its own.
LEMMA LockKeeps ==
  ASSUME Inv, NEW w \in Workers, ReconcileLock(w)
  PROVE  Inv'
<1> DEFINE A == {k \in absent : k[2] \in worker[w].students}
           W == [worker[w] EXCEPT !.pc = "write", !.targets = StillApproved(w), !.absent = A]
<1>1. worker[w].pc = "lock" /\ UNCHANGED <<attendance, excuse, coverage, preview>>
  BY DEF ReconcileLock
<1>2. worker' = [worker EXCEPT ![w] = W]
  BY DEF Inv, TypeOK, ReconcileLock
<1>3. worker[w] \in Worker /\ worker[w].targets \in SUBSET Excuses
      /\ worker[w].own \in Excuses \cup {Nobody}
  BY Fields DEF Inv
<1>4. StillApproved(w) \in SUBSET Excuses
      /\ \A e \in StillApproved(w) : Approved(e) \/ e = worker[w].own
  BY <1>3 DEF StillApproved, Visible
<1>5. A \in SUBSET (Periods \X Students)
  BY DEF Inv, TypeOK
<1> HIDE DEF A
<1>6. W \in Worker
  BY <1>3, <1>4, <1>5 DEF Worker
<1>7. W.pc = "write" /\ W.own = worker[w].own /\ W.targets = StillApproved(w)
  BY <1>3 DEF Worker
<1> HIDE DEF W
<1>8. worker'[w] = W
  BY <1>2 DEF Inv, TypeOK
<1>9. worker[w].own # Nobody => excuse[worker[w].own].status = "CREATING"
  BY <1>1 DEF Inv, OwnOK
<1>10. OwnOK(w)'
  BY <1>1, <1>4, <1>7, <1>8, <1>9 DEF OwnOK, Approved
<1>11. /\ worker' \in [Workers -> Worker]
       /\ \A v \in Workers : OwnOK(v)'
       /\ OwnDistinct'
  BY <1>1, <1>2, <1>6, <1>7, <1>10, OneWorker
<1>12. \A k \in Pairs : Backed(k)'
  BY <1>1, RowsKeep
<1> QED BY <1>1, <1>11, <1>12 DEF Inv, TypeOK, attendance

\* ReconcileWrite: every new row comes from an excuse that is locked.
LEMMA WriteKeeps ==
  ASSUME Inv, NEW w \in Workers, ReconcileWrite(w)
  PROVE  Inv'
<1> DEFINE pick == [k \in DOMAIN coverage |-> PickExcuse(worker[w].targets, k)]
           after == Voided(coverage, Gone(w))
           new == Fresh(w)
<1>1. /\ worker[w].pc = "write" /\ UNCHANGED <<attendance, preview>>
      /\ coverage' = Created(after, new, pick)
      /\ worker' = [worker EXCEPT ![w] = Idle]
      /\ excuse' = Committed(w, excuse)
  BY DEF ReconcileWrite
<1>2. worker[w].targets \in SUBSET Excuses /\ worker[w].absent \in SUBSET Pairs
  BY Fields DEF Inv
<1>4. coverage \in [Pairs -> Row]
  BY DEF Inv, TypeOK, Pairs
<1>3. \A k \in Pairs : pick[k] # Nobody =>
         pick[k] \in worker[w].targets /\ Covers(pick[k], k[1], k[2])
  BY <1>2, <1>4, PickMatches DEF Inv
<1>5. after \in [Pairs -> Row]
      /\ \A k \in Pairs : after[k].excuse \in {coverage[k].excuse, Nobody}
  BY <1>4, VoidedRows
<1>6. \A k \in Pairs : k \in new => pick[k] \in worker[w].targets /\ Covers(pick[k], k[1], k[2])
  BY <1>3, <1>4 DEF Fresh
<1>10. new \subseteq worker[w].absent
  BY DEF Fresh
<1> HIDE DEF after, pick, new
<1>7. /\ coverage' \in [Pairs -> Row]
      /\ \A k \in Pairs : coverage'[k].excuse = IF k \in new THEN pick[k] ELSE after[k].excuse
  BY <1>1, <1>2, <1>5, <1>6, <1>10, CreatedRows
<1>8. /\ worker' \in [Workers -> Worker]
      /\ excuse' \in [Excuses -> Excuse]
      /\ \A v \in Workers : OwnOK(v)'
      /\ OwnDistinct'
      /\ \A e \in Excuses : Approved(e) => excuse'[e] = excuse[e]
      /\ \A e \in Excuses : \A p, s : Covers(e, p, s)' <=> Covers(e, p, s)
      /\ \A e \in worker[w].targets : Approved(e)'
  BY <1>1, CommitKeeps
<1>9. ASSUME NEW k \in Pairs PROVE Backed(k)'
  <2>1. CASE k \in new
    <3>1. PICK x \in worker[w].targets : coverage'[k].excuse = x /\ Covers(x, k[1], k[2])
      BY <1>6, <1>7, <2>1
    <3>2. Approved(x)' /\ Covers(x, k[1], k[2])'
      BY <1>2, <1>8, <3>1
    <3> QED BY <3>1, <3>2 DEF Backed, Approved, Covers
  <2>2. CASE k \notin new
    <3>1. coverage'[k].excuse \in {coverage[k].excuse, Nobody}
      BY <1>5, <1>7, <2>2
    <3>2. Backed(k) /\ coverage[k].excuse \in Excuses \cup {Nobody}
      BY Fields DEF Inv
    <3>3. coverage[k].excuse # Nobody => excuse'[coverage[k].excuse] = excuse[coverage[k].excuse]
      BY <1>8, <3>2 DEF Backed
    <3> QED BY <3>1, <3>3, RowKeeps
  <2> QED BY <2>1, <2>2
<1> QED BY <1>1, <1>7, <1>8, <1>9 DEF Inv, TypeOK, attendance, Pairs

-----------------------------------------------------------------------------
(* The life of an excuse.                                                  *)

\* An excuse in no transaction's hands: nobody owns it and nobody has locked it.
LEMMA FreeExcuse ==
  ASSUME Inv, NEW e \in Excuses, ExcuseFree(e),
         excuse[e].status \in {"NONE", "PENDING", "APPROVED"}
  PROVE  \A v \in Workers : ~(e = worker[v].own \/ (worker[v].pc = "write" /\ e \in worker[v].targets))
<1> SUFFICES ASSUME NEW v \in Workers
             PROVE  ~(e = worker[v].own \/ (worker[v].pc = "write" /\ e \in worker[v].targets))
  OBVIOUS
<1>1. ~HoldsExcuse(v, e) /\ OwnOK(v)
  BY DEF ExcuseFree, Inv
<1>2. worker[v].pc \in {"idle", "day", "read", "lock", "write", "check", "approve"}
  <2>1. worker[v] \in Worker
    BY Fields DEF Inv
  <2> QED BY <2>1 DEF Worker
<1>3. e # Nobody
  BY NobodyApart
<1>4. e # worker[v].own
  BY <1>1, <1>2, <1>3 DEF HoldsExcuse, OwnOK
<1> QED BY <1>1, <1>4 DEF HoldsExcuse

\* An excuse that does not exist yet is in no transaction's hands.
LEMMA UnusedFree ==
  ASSUME Inv, NEW e \in Excuses, Unused(e)
  PROVE  ExcuseFree(e)
<1> SUFFICES ASSUME NEW v \in Workers, HoldsExcuse(v, e) PROVE FALSE
  BY DEF ExcuseFree
<1>1. OwnOK(v) /\ e # Nobody
  BY NobodyApart DEF Inv
<1> QED BY <1>1 DEF HoldsExcuse, OwnOK, Unused, Approved

\* A free excuse is replaced by a row of the right type while no transaction and
\* no coverage moves.
LEMMA FreeReplaced ==
  ASSUME Inv, NEW e \in Excuses, ExcuseFree(e),
         excuse[e].status \in {"NONE", "PENDING"},
         NEW x \in Excuse, excuse' = [excuse EXCEPT ![e] = x],
         UNCHANGED <<attendance, coverage, preview, worker>>
  PROVE  Inv'
<1>1. excuse \in [Excuses -> Excuse]
  BY DEF Inv, TypeOK
<1>2. excuse' \in [Excuses -> Excuse] /\ \A f \in Excuses : f # e => excuse'[f] = excuse[f]
  BY <1>1
<1>3. \A f \in Excuses : Approved(f) => excuse'[f] = excuse[f]
  BY <1>2 DEF Approved
<1>4. \A k \in Pairs : Backed(k)'
  BY <1>3, RowsKeep
<1>5. ASSUME NEW v \in Workers PROVE OwnOK(v)'
  BY <1>2, FreeExcuse, OthersKeep
<1>6. OwnDistinct'
  BY DEF Inv, OwnDistinct
<1> QED BY <1>2, <1>4, <1>5, <1>6 DEF Inv, TypeOK, attendance

\* create_excuse without approval: a row nobody works on becomes PENDING.
LEMMA PendingKeeps ==
  ASSUME Inv, NEW e \in Excuses, NEW s \in Students, NEW scope \in SUBSET Periods,
         CreatePending(e, s, scope)
  PROVE  Inv'
<1> DEFINE x == [NoExcuse EXCEPT !.status = "PENDING", !.student = s, !.scope = scope]
<1>1. x \in Excuse
  BY Built DEF Excuse
<1>2. excuse[e].status = "NONE" /\ ExcuseFree(e)
  BY UnusedFree DEF CreatePending, Unused
<1>3. excuse' = [excuse EXCEPT ![e] = x] /\ UNCHANGED <<attendance, coverage, preview, worker>>
  BY DEF CreatePending
<1> HIDE DEF x
<1> QED BY <1>1, <1>2, <1>3, FreeReplaced

\* update_excuse: a PENDING excuse nobody has locked gets another scope.
LEMMA UpdateKeeps ==
  ASSUME Inv, NEW e \in Excuses, NEW scope \in SUBSET Periods, UpdateExcuse(e, scope)
  PROVE  Inv'
<1> DEFINE x == [excuse[e] EXCEPT !.scope = scope]
<1>1. excuse[e] \in Excuse
  BY Fields DEF Inv
<1>2. x \in Excuse
  BY <1>1 DEF Excuse
<1>3. excuse' = [excuse EXCEPT ![e] = x] /\ UNCHANGED <<attendance, coverage, preview, worker>>
      /\ excuse[e].status = "PENDING" /\ ExcuseFree(e)
  BY DEF UpdateExcuse, Inv, TypeOK
<1> HIDE DEF x
<1> QED BY <1>2, <1>3, FreeReplaced

\* reject_excuse: a PENDING excuse nobody has locked is rejected.
LEMMA RejectKeeps ==
  ASSUME Inv, NEW e \in Excuses, RejectExcuse(e)
  PROVE  Inv'
<1> DEFINE x == [excuse[e] EXCEPT !.status = "REJECTED"]
<1>1. excuse[e] \in Excuse
  BY Fields DEF Inv
<1>2. x \in Excuse
  BY <1>1 DEF Excuse
<1>3. excuse' = [excuse EXCEPT ![e] = x] /\ UNCHANGED <<attendance, coverage, preview, worker>>
      /\ excuse[e].status = "PENDING" /\ ExcuseFree(e)
  BY DEF RejectExcuse, Inv, TypeOK
<1> HIDE DEF x
<1> QED BY <1>2, <1>3, FreeReplaced

\* preview_excuse: what the reviewer sees; no row changes.
LEMMA PreviewKeeps ==
  ASSUME Inv, NEW e \in Excuses, PreviewExcuse(e)
  PROVE  Inv'
<1> DEFINE a == AbsentInScope(e)
           o == a \cap CoveredByOther(e)
           x == [shown |-> TRUE, scope |-> excuse[e].scope, absent |-> a, others |-> o]
<1>1. a \in SUBSET Periods /\ o \in SUBSET Periods /\ excuse[e].scope \in SUBSET Periods
  BY Fields DEF AbsentInScope, Inv
<1> HIDE DEF a, o
<1>2. x \in Preview
  BY <1>1 DEF Preview
<1>3. preview' = [preview EXCEPT ![e] = x] /\ UNCHANGED <<attendance, excuse, coverage, worker>>
  BY DEF PreviewExcuse, a, o
<1> HIDE DEF x
<1>4. preview' \in [Excuses -> Preview]
  BY <1>2, <1>3 DEF Inv, TypeOK
<1>5. ASSUME NEW v \in Workers PROVE OwnOK(v)'
  BY <1>3, OthersKeep
<1>6. \A k \in Pairs : Backed(k)'
  BY <1>3, RowsKeep
<1> QED BY <1>3, <1>4, <1>5, <1>6 DEF Inv, TypeOK, attendance, OwnDistinct

\* create_excuse with approve_immediately: the excuse of a transaction that has
\* not committed.
LEMMA DirectKeeps ==
  ASSUME Inv, NEW w \in Workers, NEW e \in Excuses, NEW s \in Students,
         NEW scope \in SUBSET Periods, CreateDirect(w, e, s, scope)
  PROVE  Inv'
<1>1. PICK t \in Nat : excuse' = [excuse EXCEPT ![e] =
            [status |-> "CREATING", student |-> s, scope |-> scope,
             approvedAt |-> t, direct |-> TRUE]]
  BY TimesAreNat DEF CreateDirect
<1> DEFINE x == [status |-> "CREATING", student |-> s, scope |-> scope,
                 approvedAt |-> t, direct |-> TRUE]
           W == [Idle EXCEPT !.pc = "day", !.own = e]
<1>2. x \in Excuse /\ x.status = "CREATING"
  BY DEF Excuse
<1>3. excuse[e].status = "NONE" /\ ExcuseFree(e) /\ worker[w].pc = "idle"
  BY UnusedFree DEF CreateDirect, Unused
<1>4. worker' = [worker EXCEPT ![w] = W] /\ UNCHANGED <<attendance, coverage, preview>>
  BY DEF CreateDirect
<1>5. W \in Worker /\ W.pc = "day" /\ W.own = e
  <2>1. W \in Worker
    BY Built
  <2> QED BY <2>1 DEF Idle
<1>6. excuse' = [excuse EXCEPT ![e] = x]
  BY <1>1
<1> HIDE DEF x, W
<1>7. excuse' \in [Excuses -> Excuse] /\ excuse'[e] = x
      /\ \A f \in Excuses : f # e => excuse'[f] = excuse[f]
  BY <1>2, <1>6 DEF Inv, TypeOK
<1>8. worker' \in [Workers -> Worker] /\ worker'[w] = W
      /\ \A v \in Workers : v # w => worker'[v] = worker[v]
  BY <1>4, <1>5 DEF Inv, TypeOK
<1>9. \A v \in Workers : ~(e = worker[v].own \/ (worker[v].pc = "write" /\ e \in worker[v].targets))
  BY <1>3, FreeExcuse
<1>10. ASSUME NEW v \in Workers, v # w PROVE OwnOK(v)'
  BY <1>7, <1>8, <1>9, <1>10, OthersKeep
<1>11. OwnOK(w)'
  BY <1>2, <1>5, <1>7, <1>8 DEF OwnOK
<1>12. OwnDistinct'
  BY <1>5, <1>8, <1>9 DEF Inv, OwnDistinct
<1>13. \A f \in Excuses : Approved(f) => excuse'[f] = excuse[f]
  BY <1>3, <1>7 DEF Approved
<1>14. \A k \in Pairs : Backed(k)'
  BY <1>4, <1>13, RowsKeep
<1> QED BY <1>4, <1>7, <1>8, <1>10, <1>11, <1>12, <1>14 DEF Inv, TypeOK, attendance

\* create_excuse with its approval: the reconciliation of its own student and day starts.
LEMMA DayKeeps ==
  ASSUME Inv, NEW w \in Workers, CreateDay(w)
  PROVE  Inv'
<1> DEFINE s == excuse[worker[w].own].student
           W == [worker[w] EXCEPT !.pc = "read", !.students = {s}]
<1>1. worker[w].pc = "day" /\ UNCHANGED <<attendance, coverage, preview>>
  BY DEF CreateDay
<1>2. worker[w].own \in Excuses /\ excuse[worker[w].own].status = "CREATING"
  BY <1>1, NobodyApart DEF Inv, OwnOK
<1>3. CASE \E p \in Periods : <<p, s>> \in absent
  <2>1. worker' = [worker EXCEPT ![w] = W] /\ UNCHANGED excuse
    BY <1>3 DEF CreateDay, Inv, TypeOK
  <2>2. s \in Students /\ worker[w] \in Worker
    BY <1>3, Fields DEF Inv, TypeOK
  <2> HIDE DEF s
  <2>3. W \in Worker
    BY <2>2 DEF Worker
  <2>4. W.pc = "read" /\ W.own = worker[w].own
    BY <2>2 DEF Worker
  <2> HIDE DEF W
  <2>5. worker'[w] = W
    BY <2>1 DEF Inv, TypeOK
  <2>6. OwnOK(w)'
    BY <1>2, <2>1, <2>4, <2>5 DEF OwnOK
  <2>7. /\ worker' \in [Workers -> Worker]
        /\ \A v \in Workers : OwnOK(v)'
        /\ OwnDistinct'
    BY <2>1, <2>3, <2>4, <2>6, OneWorker
  <2>8. \A k \in Pairs : Backed(k)'
    BY <1>1, <2>1, RowsKeep
  <2> QED BY <1>1, <2>1, <2>7, <2>8 DEF Inv, TypeOK, attendance
<1>4. CASE ~\E p \in Periods : <<p, s>> \in absent
  <2>1. worker' = [worker EXCEPT ![w] = Idle] /\ excuse' = Committed(w, excuse)
    BY <1>4 DEF CreateDay
  <2>2. /\ worker' \in [Workers -> Worker]
        /\ excuse' \in [Excuses -> Excuse]
        /\ \A v \in Workers : OwnOK(v)'
        /\ OwnDistinct'
        /\ \A e \in Excuses : Approved(e) => excuse'[e] = excuse[e]
    BY <1>1, <2>1, CommitKeeps
  <2>3. \A k \in Pairs : Backed(k)'
    BY <1>1, <2>2, RowsKeep
  <2> QED BY <1>1, <2>2, <2>3 DEF Inv, TypeOK, attendance
<1> QED BY <1>3, <1>4

\* approve_excuse: the row is locked while it is PENDING.
LEMMA ApproveLockKeeps ==
  ASSUME Inv, NEW w \in Workers, NEW e \in Excuses, ApproveLock(w, e)
  PROVE  Inv'
<1> DEFINE a == AbsentInScope(e) \X {excuse[e].student}
           h == preview[e]
           W == [Idle EXCEPT !.pc = "check", !.own = e, !.hash = h, !.absent = a]
<1>1. /\ worker[w].pc = "idle" /\ excuse[e].status = "PENDING" /\ ExcuseFree(e)
      /\ worker' = [worker EXCEPT ![w] = W]
      /\ UNCHANGED <<attendance, excuse, coverage, preview>>
  BY DEF ApproveLock
<1>2. a \in SUBSET Pairs
  <2>1. \A p \in AbsentInScope(e) : <<p, excuse[e].student>> \in Pairs
    BY DEF AbsentInScope, Inv, TypeOK, Pairs
  <2> QED BY <2>1 DEF Pairs
<1>3. \A k \in a : Covers(e, k[1], k[2])
  BY DEF AbsentInScope, Covers
<1>4. h \in Preview
  BY Fields DEF Inv
<1> HIDE DEF a, h
<1>5. W \in Worker
  BY <1>2, <1>4, Built
<1>6. W.pc = "check" /\ W.own = e /\ W.absent = a
  BY DEF Idle
<1> HIDE DEF W
<1>7. worker' \in [Workers -> Worker] /\ worker'[w] = W
      /\ \A v \in Workers : v # w => worker'[v] = worker[v]
  BY <1>1, <1>5 DEF Inv, TypeOK
<1>8. \A v \in Workers : ~(e = worker[v].own \/ (worker[v].pc = "write" /\ e \in worker[v].targets))
  BY <1>1, FreeExcuse
<1>9. ASSUME NEW v \in Workers, v # w PROVE OwnOK(v)'
  BY <1>1, <1>7, <1>9, OthersKeep
<1>10. OwnOK(w)'
  BY <1>1, <1>3, <1>6, <1>7 DEF OwnOK, Covers
<1>11. OwnDistinct'
  BY <1>6, <1>7, <1>8 DEF Inv, OwnDistinct
<1>12. \A k \in Pairs : Backed(k)'
  BY <1>1, RowsKeep
<1> QED BY <1>1, <1>7, <1>9, <1>10, <1>11, <1>12 DEF Inv, TypeOK, attendance

\* approve_excuse: the coverage it would give is compared with the preview.
LEMMA ApproveCheckKeeps ==
  ASSUME Inv, NEW w \in Workers, ApproveCheck(w)
  PROVE  Inv'
<1> DEFINE W == [worker[w] EXCEPT !.pc = "approve"]
<1>1. worker[w].pc = "check" /\ UNCHANGED <<attendance, excuse, coverage, preview>>
  BY DEF ApproveCheck
<1>2. \A k \in Pairs : Backed(k)'
  BY <1>1, RowsKeep
<1>3. CASE worker' = [worker EXCEPT ![w] = W]
  <2>1. worker[w] \in Worker /\ OwnOK(w)
    BY Fields DEF Inv
  <2>2. W \in Worker
    BY <2>1 DEF Worker
  <2>3. W.pc = "approve" /\ W.own = worker[w].own /\ W.absent = worker[w].absent
    BY <2>1 DEF Worker
  <2> HIDE DEF W
  <2>4. worker'[w] = W
    BY <1>3 DEF Inv, TypeOK
  <2>5. OwnOK(w)'
    BY <1>1, <2>1, <2>3, <2>4 DEF OwnOK, Covers
  <2>6. /\ worker' \in [Workers -> Worker]
        /\ \A v \in Workers : OwnOK(v)'
        /\ OwnDistinct'
    BY <1>1, <1>3, <2>2, <2>3, <2>5, OneWorker
  <2> QED BY <1>1, <1>2, <2>6 DEF Inv, TypeOK, attendance
<1>4. CASE worker' = [worker EXCEPT ![w] = Idle]
  <2>1. worker'[w] = Idle
    BY <1>4 DEF Inv, TypeOK
  <2>2. /\ worker' \in [Workers -> Worker]
        /\ \A v \in Workers : OwnOK(v)'
        /\ OwnDistinct'
    BY <1>1, <1>4, <2>1, IdleKeeps, Built, OneWorker DEF Idle
  <2> QED BY <1>1, <1>2, <2>2 DEF Inv, TypeOK, attendance
<1>5. worker' = [worker EXCEPT ![w].pc = "approve"] => worker' = [worker EXCEPT ![w] = W]
  BY DEF Inv, TypeOK
<1> QED BY <1>3, <1>4, <1>5 DEF ApproveCheck

\* ApproveWrite: the rows of the plan and the APPROVED status appear together.
LEMMA ApproveWriteKeeps ==
  ASSUME Inv, NEW w \in Workers, ApproveWrite(w)
  PROVE  Inv'
<1> DEFINE e == worker[w].own
           keys == worker[w].absent
           by == [k \in DOMAIN coverage |-> e]
<1>1. worker[w].pc = "approve" /\ UNCHANGED <<attendance, preview>>
      /\ worker' = [worker EXCEPT ![w] = Idle]
  BY DEF ApproveWrite
<1>2. /\ e \in Excuses /\ excuse[e].status = "PENDING"
      /\ \A k \in keys : Covers(e, k[1], k[2])
  BY <1>1 DEF Inv, OwnOK
<1>3. worker'[w] = Idle
  BY <1>1 DEF Inv, TypeOK
<1>4. CASE UNCHANGED <<coverage, excuse>>
  <2>1. /\ worker' \in [Workers -> Worker]
        /\ \A v \in Workers : OwnOK(v)'
        /\ OwnDistinct'
    BY <1>1, <1>3, <1>4, IdleKeeps, Built, OneWorker DEF Idle
  <2>2. \A k \in Pairs : Backed(k)'
    BY <1>4, RowsKeep
  <2> QED BY <1>1, <1>4, <2>1, <2>2 DEF Inv, TypeOK, attendance
<1>5. ASSUME coverage' = Created(coverage, keys, by), NEW t \in Nat,
             excuse' = [excuse EXCEPT ![e].status = "APPROVED", ![e].approvedAt = t]
      PROVE  Inv'
  <2> DEFINE x == [excuse[e] EXCEPT !.status = "APPROVED", !.approvedAt = t]
  <2>1. coverage \in [Pairs -> Row] /\ excuse \in [Excuses -> Excuse] /\ excuse[e] \in Excuse
    BY <1>2 DEF Inv, TypeOK, Pairs
  <2>2. x \in Excuse
    BY <2>1 DEF Excuse
  <2>3. x.status = "APPROVED" /\ x.scope = excuse[e].scope /\ x.student = excuse[e].student
    BY <2>1 DEF Excuse
  <2>4. excuse' = [excuse EXCEPT ![e] = x]
    BY <1>2, <1>5, <2>1
  <2>5. \A k \in Pairs : by[k] = e
    BY <2>1
  <2> HIDE DEF x, by, e
  <2>6. excuse' \in [Excuses -> Excuse] /\ excuse'[e] = x
        /\ \A f \in Excuses : f # e => excuse'[f] = excuse[f]
    BY <1>2, <2>1, <2>2, <2>4
  <2>7. /\ coverage' \in [Pairs -> Row]
        /\ \A k \in Pairs : coverage'[k].excuse = IF k \in keys THEN by[k] ELSE coverage[k].excuse
    BY <1>2, <1>5, <2>1, <2>5, CreatedRows
  <2>8. \A v \in Workers \ {w}, f \in Excuses :
          f = worker[v].own \/ (worker[v].pc = "write" /\ f \in worker[v].targets)
            => excuse'[f] = excuse[f]
    <3> SUFFICES ASSUME NEW v \in Workers \ {w},
                        e = worker[v].own \/ (worker[v].pc = "write" /\ e \in worker[v].targets)
                 PROVE  FALSE
      BY <2>6
    <3>1. e # worker[v].own
      BY <1>2, NobodyApart DEF Inv, OwnDistinct, e
    <3>2. OwnOK(v) /\ ~Approved(e)
      BY <1>2 DEF Inv, Approved
    <3> QED BY <3>1, <3>2 DEF OwnOK
  <2>9. /\ worker' \in [Workers -> Worker]
        /\ \A v \in Workers : OwnOK(v)'
        /\ OwnDistinct'
    BY <1>1, <1>3, <2>8, IdleKeeps, Built, OneWorker DEF Idle
  <2>10. ASSUME NEW k \in Pairs PROVE Backed(k)'
    <3>1. CASE k \in keys
      <4>1. coverage'[k].excuse = e /\ Covers(e, k[1], k[2])
        BY <1>2, <2>5, <2>7, <3>1
      <4>2. excuse'[e].status = "APPROVED" /\ excuse'[e].student = k[2] /\ k[1] \in excuse'[e].scope
        BY <2>3, <2>6, <4>1 DEF Covers
      <4> QED BY <4>1, <4>2 DEF Backed, Approved, Covers
    <3>2. CASE k \notin keys
      <4>1. coverage'[k].excuse = coverage[k].excuse
        BY <2>7, <3>2
      <4>2. Backed(k) /\ coverage[k].excuse \in Excuses \cup {Nobody}
        BY Fields DEF Inv
      <4>3. coverage[k].excuse # Nobody => excuse'[coverage[k].excuse] = excuse[coverage[k].excuse]
        BY <1>2, <2>6, <4>2 DEF Backed, Approved
      <4> QED BY <4>1, <4>3, RowKeeps
    <3> QED BY <3>1, <3>2
  <2> QED BY <1>1, <2>6, <2>7, <2>9, <2>10 DEF Inv, TypeOK, attendance, Pairs
<1> QED BY <1>4, <1>5, TimesAreNat DEF ApproveWrite

\* CancelExcuse: no reconciliation holds the excuse, and its rows go with it.
LEMMA CancelKeeps ==
  ASSUME Inv, NEW w \in Workers, NEW e \in Excuses, CancelExcuse(w, e)
  PROVE  Inv'
<1> DEFINE x == [excuse[e] EXCEPT !.status = "CANCELLED"]
           c(k) == IF k \in {j \in DOMAIN coverage : coverage[j].excuse = e}
                   THEN [coverage[k] EXCEPT !.excuse = Nobody] ELSE coverage[k]
           s == excuse[e].student
           W == [Idle EXCEPT !.pc = "read", !.students = {s}]
<1>1. /\ worker[w].pc = "idle" /\ Approved(e) /\ ExcuseFree(e)
      /\ UNCHANGED <<attendance, preview>>
      /\ coverage' = [k \in DOMAIN coverage |-> c(k)]
      /\ worker' = worker \/ ((\E k \in DOMAIN coverage : coverage[k].excuse = e) /\ Reconcile(w, {s}))
  BY DEF CancelExcuse
<1>2. coverage \in [Pairs -> Row] /\ excuse \in [Excuses -> Excuse] /\ excuse[e] \in Excuse
  BY DEF Inv, TypeOK, Pairs
<1>3. x \in Excuse
  BY <1>2 DEF Excuse
<1>4. excuse' = [excuse EXCEPT ![e] = x]
  BY <1>2 DEF CancelExcuse
<1> HIDE DEF x
<1>5. excuse' \in [Excuses -> Excuse] /\ \A f \in Excuses : f # e => excuse'[f] = excuse[f]
  BY <1>2, <1>3, <1>4
<1>6. ASSUME NEW k \in Pairs
      PROVE  /\ c(k) \in Row
             /\ c(k).excuse \in {coverage[k].excuse, Nobody}
             /\ c(k).excuse # e
  <2>1. coverage[k] \in Row
    BY <1>2
  <2> QED BY <1>2, <2>1, NobodyApart DEF Row
<1>7. coverage' = [k \in Pairs |-> c(k)]
  BY <1>1, <1>2
<1> HIDE DEF c
<1>8. coverage' \in [Pairs -> Row] /\ \A k \in Pairs : coverage'[k] = c(k)
  BY <1>6, <1>7
<1>9. ASSUME NEW k \in Pairs PROVE Backed(k)'
  <2>1. coverage'[k].excuse \in {coverage[k].excuse, Nobody} /\ coverage'[k].excuse # e
    BY <1>6, <1>8
  <2>2. coverage[k].excuse \in Excuses \cup {Nobody}
    BY Fields DEF Inv
  <2>3. coverage'[k].excuse # Nobody => excuse'[coverage[k].excuse] = excuse[coverage[k].excuse]
    BY <1>5, <2>1, <2>2
  <2> QED BY <2>1, <2>3, RowKeeps
<1>10. \A v \in Workers : ~(e = worker[v].own \/ (worker[v].pc = "write" /\ e \in worker[v].targets))
  BY <1>1, FreeExcuse DEF Approved
<1>11. CASE worker' = worker
  <2>1. ASSUME NEW v \in Workers PROVE OwnOK(v)'
    BY <1>5, <1>10, <1>11, OthersKeep
  <2> QED BY <1>1, <1>5, <1>8, <1>9, <1>11, <2>1 DEF Inv, TypeOK, attendance, Pairs, OwnDistinct
<1>12. CASE (\E k \in DOMAIN coverage : coverage[k].excuse = e) /\ Reconcile(w, {s})
  <2>1. PICK k \in Pairs : coverage[k].excuse = e
    BY <1>2, <1>12
  <2>2. s \in Students
    BY <2>1, NobodyApart DEF Inv, Backed, Covers, Pairs
  <2>3. W \in Worker /\ worker' = [worker EXCEPT ![w] = W]
    BY <1>12, <2>2, Built DEF Reconcile
  <2>4. W.pc = "read" /\ W.own = Nobody
    BY DEF Idle
  <2> HIDE DEF W
  <2>5. worker'[w] = W
    BY <2>3 DEF Inv, TypeOK
  <2>6. OwnOK(w)'
    BY <2>4, <2>5 DEF OwnOK
  <2>7. /\ worker' \in [Workers -> Worker]
        /\ \A v \in Workers : OwnOK(v)'
        /\ OwnDistinct'
    BY <1>5, <1>10, <2>3, <2>4, <2>6, OneWorker
  <2> QED BY <1>1, <1>5, <1>8, <1>9, <2>7 DEF Inv, TypeOK, attendance, Pairs
<1> QED BY <1>1, <1>11, <1>12

\* Rollback: only the excuse the transaction had not committed goes away.
LEMMA RollbackKeeps ==
  ASSUME Inv, NEW w \in Workers, Rollback(w)
  PROVE  Inv'
<1> DEFINE x(e) == IF e = worker[w].own /\ excuse[e].status = "CREATING"
                   THEN NoExcuse ELSE excuse[e]
<1>1. /\ UNCHANGED <<submitted, absent, edits, coverage, preview>>
      /\ worker' = [worker EXCEPT ![w] = Idle]
      /\ excuse' = [e \in Excuses |-> x(e)]
  BY DEF Rollback
<1>8. unsettled' \in SUBSET (Periods \X Students)
  BY DEF Rollback, Inv, TypeOK
<1>2. \A e \in Excuses : x(e) \in Excuse /\ (Approved(e) => x(e) = excuse[e])
                          /\ (e # worker[w].own => x(e) = excuse[e])
                          /\ (excuse[e].status # "CREATING" => x(e) = excuse[e])
  BY Built, Fields DEF Inv, Approved
<1> HIDE DEF x
<1>3. excuse' \in [Excuses -> Excuse] /\ \A e \in Excuses : excuse'[e] = x(e)
  BY <1>1, <1>2
<1>4. ASSUME NEW v \in Workers \ {w}, NEW e \in Excuses,
             e = worker[v].own \/ (worker[v].pc = "write" /\ e \in worker[v].targets)
      PROVE  excuse'[e] = excuse[e]
  <2>1. e = worker[v].own => e # worker[w].own
    BY NobodyApart DEF Inv, OwnDistinct
  <2>2. worker[v].pc = "write" /\ e \in worker[v].targets => Approved(e) \/ e = worker[v].own
    BY DEF Inv, OwnOK
  <2> QED BY <1>2, <1>3, <1>4, <2>1, <2>2
<1>5. worker'[w] = Idle
  BY <1>1 DEF Inv, TypeOK
<1>6. /\ worker' \in [Workers -> Worker]
      /\ \A v \in Workers : OwnOK(v)'
      /\ OwnDistinct'
  BY <1>1, <1>4, <1>5, IdleKeeps, Built, OneWorker DEF Idle
<1>7. \A k \in Pairs : Backed(k)'
  BY <1>1, <1>2, <1>3, RowsKeep
<1> QED BY <1>1, <1>3, <1>6, <1>7, <1>8 DEF Inv, TypeOK

-----------------------------------------------------------------------------
(* Theorems.                                                               *)

\* No excuse, no coverage and no transaction at first.
LEMMA InitInv == Init => Inv
<1> SUFFICES ASSUME Init PROVE Inv
  OBVIOUS
<1>1. [row |-> 0, excuse |-> Nobody] \in Row
  BY DEF Row
<1>2. TypeOK
  <2>1. Idle \in Worker /\ NoExcuse \in Excuse /\ NoPreview \in Preview
    BY Built
  <2>2. submitted \in SUBSET Periods /\ absent \in SUBSET (Periods \X Students)
        /\ edits \in 0..MaxEdits /\ unsettled \in SUBSET (Periods \X Students)
    BY MaxEditsNat DEF Init
  <2>3. /\ excuse \in [Excuses -> Excuse] /\ preview \in [Excuses -> Preview]
        /\ worker \in [Workers -> Worker]
    BY <2>1 DEF Init
  <2>4. coverage \in [Periods \X Students -> Row]
    BY <1>1 DEF Init
  <2> QED BY <2>2, <2>3, <2>4 DEF TypeOK
<1>3. \A w \in Workers : OwnOK(w) /\ worker[w].own = Nobody
  BY DEF Init, OwnOK, Idle
<1>4. \A k \in Pairs : Backed(k)
  BY DEF Init, Backed, Pairs
<1> QED BY <1>2, <1>3, <1>4 DEF Inv, OwnDistinct

\* Every step keeps the inductive invariant.
LEMMA NextInv == Inv /\ [Next]_vars => Inv'
<1> SUFFICES ASSUME Inv, [Next]_vars PROVE Inv'
  OBVIOUS
<1>1. CASE UNCHANGED vars
  BY <1>1 DEF vars, Inv, TypeOK, OwnOK, OwnDistinct, Backed, Approved, Covers
<1>2. ASSUME NEW w \in Workers, WorkerStep(w) PROVE Inv'
  BY <1>2, ReadKeeps, LockKeeps, WriteKeeps, DayKeeps, ApproveCheckKeeps, ApproveWriteKeeps,
     RollbackKeeps
     DEF WorkerStep, DeadlockVictim
<1>3. ASSUME NEW w \in Workers, Request(w) PROVE Inv'
  <2>1. ASSUME NEW p \in Periods, NEW S \in SUBSET Students,
               SubmitSession(w, p, S) \/ EditSession(w, p, S)
        PROVE  Inv'
    BY <2>1, SubmitKeeps, EditKeeps
  <2>2. ASSUME NEW e \in Excuses, NEW s \in Students, NEW scope \in SUBSET Periods \ {{}},
               CreateDirect(w, e, s, scope)
        PROVE  Inv'
    BY <2>2, DirectKeeps
  <2>3. ASSUME NEW e \in Excuses, ApproveLock(w, e) \/ CancelExcuse(w, e) PROVE Inv'
    BY <2>3, ApproveLockKeeps, CancelKeeps
  <2> QED BY <1>3, <2>1, <2>2, <2>3 DEF Request
<1>4. ASSUME NEW w \in Workers, Crash(w) PROVE Inv'
  BY <1>4, RollbackKeeps DEF Crash
<1>5. ASSUME NEW e \in Excuses, Office(e) PROVE Inv'
  <2>1. ASSUME NEW s \in Students, NEW scope \in SUBSET Periods \ {{}}, CreatePending(e, s, scope)
        PROVE  Inv'
    BY <2>1, PendingKeeps
  <2>2. ASSUME NEW scope \in SUBSET Periods \ {{}}, UpdateExcuse(e, scope) PROVE Inv'
    BY <2>2, UpdateKeeps
  <2> QED BY <1>5, <2>1, <2>2, RejectKeeps, PreviewKeeps DEF Office
<1> QED BY <1>1, <1>2, <1>3, <1>4, <1>5 DEF Next

\* Type correctness of the excuses, the coverages and the transactions.
THEOREM CoverageTypes == Spec => []TypeOK
<1>1. Inv => TypeOK
  BY DEF Inv
<1> QED BY InitInv, NextInv, <1>1, PTL DEF Spec

\* However reconciliations, approvals, cancellations and crashes interleave, an
\* ACTIVE coverage belongs to an APPROVED excuse of its student that targets its
\* period.
THEOREM CoverageBacked == Spec => []ActiveIsBacked
<1>1. Inv => ActiveIsBacked
  BY BackedPairs DEF Inv
<1> QED BY InitInv, NextInv, <1>1, PTL DEF Spec

-----------------------------------------------------------------------------
(* How an excuse moves through its statuses.                               *)

Same(e) == /\ excuse'[e].student = excuse[e].student
           /\ excuse'[e].direct = excuse[e].direct

\* All that one step can do to excuse e.
Moves(e) ==
  \/ excuse'[e] = excuse[e]
  \/ excuse[e].status = "NONE" /\ excuse'[e].status = "PENDING" /\ ~excuse'[e].direct
     /\ excuse'[e].student \in Students
  \/ /\ excuse[e].status = "NONE" /\ excuse'[e].status = "CREATING"
     /\ StudentFree(excuse'[e].student)
     /\ \A f \in Excuses \ {e} :
          /\ excuse'[f] = excuse[f]
          /\ excuse[f].status = "CREATING" => excuse[f].student # excuse'[e].student
          /\ Approved(f) /\ excuse[f].student = excuse'[e].student
               => excuse[f].scope \cap excuse'[e].scope = {}
  \/ /\ excuse[e].status = "PENDING" /\ excuse'[e].status \in {"PENDING", "REJECTED"}
     /\ ExcuseFree(e) /\ Same(e)
  \/ /\ excuse[e].status = "PENDING" /\ excuse'[e].status = "APPROVED"
     /\ Same(e) /\ excuse'[e].scope = excuse[e].scope
     /\ \E w \in Workers : worker[w].own = e /\ ApproveWrite(w)
  \/ excuse[e].status = "CREATING" /\ excuse'[e].status = "NONE"
  \/ /\ excuse[e].status = "CREATING" /\ excuse'[e].status = "APPROVED"
     /\ Same(e) /\ excuse'[e].scope = excuse[e].scope
  \/ Approved(e) /\ excuse'[e] = [excuse[e] EXCEPT !.status = "CANCELLED"]

\* A row of which some fields are replaced.
LEMMA Replaced ==
  ASSUME NEW x \in Excuse, NEW t \in Nat
  PROVE  /\ \A st : LET y == [x EXCEPT !.status = st] IN
               y.status = st /\ y.student = x.student /\ y.direct = x.direct /\ y.scope = x.scope
         /\ \A sc : LET y == [x EXCEPT !.scope = sc] IN
               y.status = x.status /\ y.student = x.student /\ y.direct = x.direct
         /\ LET y == [x EXCEPT !.status = "APPROVED", !.approvedAt = t] IN
               y.status = "APPROVED" /\ y.student = x.student /\ y.direct = x.direct
                 /\ y.scope = x.scope
BY DEF Excuse

\* A commit touches no excuse but the one being created.
LEMMA CommitMoves ==
  ASSUME Inv, NEW w \in Workers, worker[w].pc \in {"day", "read", "write"},
         excuse' = Committed(w, excuse), NEW e \in Excuses
  PROVE  Moves(e)
<1> DEFINE o == worker[w].own
<1>1. OwnOK(w) /\ o \in Excuses \cup {Nobody} /\ excuse \in [Excuses -> Excuse]
      /\ excuse[e] \in Excuse
  BY Fields DEF Inv, TypeOK
<1>2. CASE o = Nobody \/ e # o
  BY <1>1, <1>2 DEF Committed, Moves
<1>3. CASE o # Nobody /\ e = o
  <2>1. excuse[e].status = "CREATING"
    BY <1>1, <1>3 DEF OwnOK
  <2>2. excuse'[e] = [excuse[e] EXCEPT !.status = "APPROVED"]
    BY <1>1, <1>3 DEF Committed
  <2> QED BY <1>1, <2>1, <2>2, Replaced DEF Moves, Same
<1> QED BY <1>2, <1>3

\* Every step moves an excuse along the life of its status, or leaves it.
LEMMA NextMoves ==
  ASSUME Inv, [Next]_vars, NEW e \in Excuses
  PROVE  Moves(e)
<1>1. excuse \in [Excuses -> Excuse] /\ excuse[e] \in Excuse
  BY DEF Inv, TypeOK
<1>2. CASE UNCHANGED excuse
  BY <1>2 DEF Moves
<1>7. ASSUME NEW w \in Workers, Rollback(w) PROVE Moves(e)
  BY <1>7 DEF Rollback, Moves, NoExcuse
<1>3. ASSUME NEW w \in Workers, WorkerStep(w) PROVE Moves(e)
  <2>1. ASSUME ReconcileRead(w) \/ ReconcileWrite(w) \/ CreateDay(w) PROVE Moves(e)
    <3>1. UNCHANGED excuse \/ (worker[w].pc \in {"day", "read", "write"} /\ excuse' = Committed(w, excuse))
      BY <2>1 DEF ReconcileRead, ReconcileWrite, CreateDay
    <3> QED BY <1>2, <3>1, CommitMoves
  <2>2. ASSUME ReconcileLock(w) \/ ApproveCheck(w) PROVE Moves(e)
    BY <1>2, <2>2 DEF ReconcileLock, ApproveCheck
  <2>3. ASSUME ApproveWrite(w) PROVE Moves(e)
    <3> DEFINE o == worker[w].own
    <3>1. o \in Excuses /\ excuse[o].status = "PENDING"
      BY <2>3 DEF ApproveWrite, Inv, OwnOK
    <3>2. ASSUME NEW t \in Nat,
                 excuse' = [excuse EXCEPT ![o].status = "APPROVED", ![o].approvedAt = t]
          PROVE  Moves(e)
      <4>1. CASE e # o
        BY <1>1, <3>2, <4>1 DEF Moves
      <4>2. CASE e = o
        <5>1. excuse'[e] = [excuse[e] EXCEPT !.status = "APPROVED", !.approvedAt = t]
          BY <1>1, <3>2, <4>2
        <5>2. excuse'[e].status = "APPROVED" /\ excuse'[e].student = excuse[e].student
              /\ excuse'[e].direct = excuse[e].direct /\ excuse'[e].scope = excuse[e].scope
          BY <1>1, <5>1, Replaced
        <5> QED BY <2>3, <3>1, <4>2, <5>2 DEF Moves, Same
      <4> QED BY <4>1, <4>2
    <3> QED BY <1>2, <2>3, <3>2, TimesAreNat DEF ApproveWrite
  <2> QED BY <1>3, <1>7, <2>1, <2>2, <2>3 DEF WorkerStep, DeadlockVictim
<1>4. ASSUME NEW w \in Workers, Request(w) PROVE Moves(e)
  <2>1. ASSUME NEW p \in Periods, NEW S \in SUBSET Students,
               SubmitSession(w, p, S) \/ EditSession(w, p, S)
        PROVE  Moves(e)
    BY <1>2, <2>1 DEF SubmitSession, EditSession
  <2>2. ASSUME NEW g \in Excuses, NEW s \in Students, NEW scope \in SUBSET Periods \ {{}},
               CreateDirect(w, g, s, scope)
        PROVE  Moves(e)
    <3>a. PICK t \in Times : excuse' = [excuse EXCEPT ![g] =
            [status |-> "CREATING", student |-> s, scope |-> scope,
             approvedAt |-> t, direct |-> TRUE]]
      BY <2>2 DEF CreateDirect
    <3> DEFINE x == [status |-> "CREATING", student |-> s, scope |-> scope,
                     approvedAt |-> t, direct |-> TRUE]
    <3>1. /\ excuse' = [excuse EXCEPT ![g] = x]
          /\ x.status = "CREATING" /\ x.student = s /\ x.scope = scope
      BY <3>a
    <3> HIDE DEF x
    <3>2. excuse[g].status = "NONE" /\ StudentFree(s)
          /\ \A f \in Excuses : Approved(f) /\ excuse[f].student = s
                                   => excuse[f].scope \cap scope = {}
      BY <2>2 DEF CreateDirect, Unused
    <3>3. excuse'[g] = x /\ \A f \in Excuses \ {g} : excuse'[f] = excuse[f]
      BY <1>1, <3>1
    <3>4. CASE e = g
      BY <3>1, <3>2, <3>3, <3>4 DEF Moves, StudentFree
    <3>5. CASE e # g
      BY <3>3, <3>5 DEF Moves
    <3> QED BY <3>4, <3>5
  <2>3. ASSUME NEW g \in Excuses, ApproveLock(w, g) PROVE Moves(e)
    BY <1>2, <2>3 DEF ApproveLock
  <2>4. ASSUME NEW g \in Excuses, CancelExcuse(w, g) PROVE Moves(e)
    <3>1. excuse' = [excuse EXCEPT ![g].status = "CANCELLED"] /\ Approved(g)
      BY <2>4 DEF CancelExcuse
    <3>2. e # g => excuse'[e] = excuse[e]
      BY <1>1, <3>1
    <3>3. e = g => excuse'[e] = [excuse[e] EXCEPT !.status = "CANCELLED"]
      BY <1>1, <3>1
    <3> QED BY <3>1, <3>2, <3>3 DEF Moves
  <2> QED BY <1>4, <2>1, <2>2, <2>3, <2>4 DEF Request
<1>5. ASSUME NEW w \in Workers, Crash(w) PROVE Moves(e)
  BY <1>5, <1>7 DEF Crash
<1>6. ASSUME NEW g \in Excuses, Office(g) PROVE Moves(e)
  <2>1. ASSUME NEW s \in Students, NEW scope \in SUBSET Periods \ {{}}, CreatePending(g, s, scope)
        PROVE  Moves(e)
    <3> DEFINE x == [NoExcuse EXCEPT !.status = "PENDING", !.student = s, !.scope = scope]
    <3>a. x.status = "PENDING" /\ x.direct = FALSE /\ x.student = s
      BY DEF NoExcuse
    <3>b. excuse' = [excuse EXCEPT ![g] = x]
      BY <2>1 DEF CreatePending
    <3>1. excuse' = [excuse EXCEPT ![g] = x] /\ x.status = "PENDING" /\ x.direct = FALSE
          /\ x.student = s
      BY <3>a, <3>b
    <3> HIDE DEF x
    <3>2. excuse[g].status = "NONE"
      BY <2>1 DEF CreatePending, Unused
    <3> QED BY <1>1, <3>1, <3>2 DEF Moves
  <2>2. ASSUME NEW scope \in SUBSET Periods \ {{}}, UpdateExcuse(g, scope) PROVE Moves(e)
    <3>1. excuse' = [excuse EXCEPT ![g].scope = scope] /\ excuse[g].status = "PENDING"
          /\ ExcuseFree(g)
      BY <2>2 DEF UpdateExcuse
    <3>2. e # g => excuse'[e] = excuse[e]
      BY <1>1, <3>1
    <3>3. e = g => excuse'[e] = [excuse[e] EXCEPT !.scope = scope]
      BY <1>1, <3>1
    <3>4. e = g => excuse'[e].status = "PENDING" /\ Same(e)
      BY <1>1, <3>1, <3>3, Replaced DEF Same
    <3> QED BY <3>1, <3>2, <3>4 DEF Moves
  <2>3. ASSUME RejectExcuse(g) PROVE Moves(e)
    <3>1. excuse' = [excuse EXCEPT ![g].status = "REJECTED"] /\ excuse[g].status = "PENDING"
          /\ ExcuseFree(g)
      BY <2>3 DEF RejectExcuse
    <3>2. e # g => excuse'[e] = excuse[e]
      BY <1>1, <3>1
    <3>3. e = g => excuse'[e] = [excuse[e] EXCEPT !.status = "REJECTED"]
      BY <1>1, <3>1
    <3>4. e = g => excuse'[e].status = "REJECTED" /\ Same(e)
      <4> DEFINE y == [excuse[e] EXCEPT !.status = "REJECTED"]
      <4>1. y.status = "REJECTED" /\ y.student = excuse[e].student /\ y.direct = excuse[e].direct
        BY <1>1 DEF Excuse
      <4> QED BY <3>3, <4>1 DEF Same
    <3> QED BY <3>1, <3>2, <3>4 DEF Moves
  <2>4. ASSUME PreviewExcuse(g) PROVE Moves(e)
    BY <1>2, <2>4 DEF PreviewExcuse
  <2> QED BY <1>6, <2>1, <2>2, <2>3, <2>4 DEF Office
<1> QED BY <1>2, <1>3, <1>4, <1>5, <1>6 DEF Next, vars

\* Excuses approved at creation, and those being created, do not share a period
\* of a student; the others never were direct.
DirectInv ==
  /\ \A e \in Excuses : excuse[e].status = "PENDING" => ~excuse[e].direct
  /\ \A e, f \in Excuses :
       /\ e # f /\ excuse[e].direct /\ excuse[f].direct
       /\ excuse[e].status \in {"CREATING", "APPROVED"}
       /\ excuse[f].status \in {"CREATING", "APPROVED"}
       /\ excuse[e].student = excuse[f].student
       => excuse[e].scope \cap excuse[f].scope = {}

\* Every step keeps apart what is being created and what is approved.
LEMMA DirectStep == Inv /\ DirectInv /\ [Next]_vars => DirectInv'
<1> SUFFICES ASSUME Inv, DirectInv, [Next]_vars PROVE DirectInv'
  OBVIOUS
<1>0. excuse \in [Excuses -> Excuse] /\ excuse' \in [Excuses -> Excuse]
  BY NextInv DEF Inv, TypeOK
<1>1. ASSUME NEW e \in Excuses, excuse'[e].status = "PENDING" PROVE ~excuse'[e].direct
  <2>1. Moves(e) /\ excuse[e] \in Excuse
    BY <1>0, NextMoves
  <2>2. excuse'[e] = [excuse[e] EXCEPT !.status = "CANCELLED"] => FALSE
    <3>1. [excuse[e] EXCEPT !.status = "CANCELLED"].status = "CANCELLED"
      BY <2>1 DEF Excuse
    <3> QED BY <1>1, <3>1
  <2>3. excuse[e].status = "PENDING" => ~excuse[e].direct
    BY DEF DirectInv
  <2> QED BY <1>1, <2>1, <2>2, <2>3 DEF Moves, Same
<1>2. ASSUME NEW e \in Excuses, excuse'[e].direct, excuse'[e].status \in {"CREATING", "APPROVED"}
      PROVE  \/ /\ excuse[e].status \in {"CREATING", "APPROVED"} /\ excuse[e].direct
                /\ excuse'[e].student = excuse[e].student
                /\ excuse'[e].scope = excuse[e].scope
             \/ /\ excuse'[e].status = "CREATING"
                /\ \A f \in Excuses \ {e} :
                     /\ excuse'[f] = excuse[f]
                     /\ excuse[f].status = "CREATING" => excuse[f].student # excuse'[e].student
                     /\ Approved(f) /\ excuse[f].student = excuse'[e].student
                          => excuse[f].scope \cap excuse'[e].scope = {}
  <2>1. Moves(e) /\ excuse[e] \in Excuse
    BY <1>0, NextMoves
  <2>2. excuse'[e] = [excuse[e] EXCEPT !.status = "CANCELLED"] => FALSE
    BY <1>2, <2>1, Replaced
  <2> QED BY <1>2, <2>1, <2>2 DEF Moves, Same, DirectInv
<1>3. ASSUME NEW e \in Excuses, NEW f \in Excuses, e # f,
             excuse'[e].direct, excuse'[f].direct,
             excuse'[e].status \in {"CREATING", "APPROVED"},
             excuse'[f].status \in {"CREATING", "APPROVED"},
             excuse'[e].student = excuse'[f].student
      PROVE  excuse'[e].scope \cap excuse'[f].scope = {}
  BY <1>2, <1>3 DEF DirectInv, Approved
<1> QED BY <1>1, <1>3 DEF DirectInv

\* Direct approvals of one student never share a period, for any number of
\* concurrent creations.
THEOREM DirectApprovalsDisjoint == Spec => []DirectDisjoint
<1>1. Init => DirectInv
  BY DEF Init, DirectInv, NoExcuse
<1>2. DirectInv => DirectDisjoint
  BY DEF DirectInv, DirectDisjoint, Approved
<1>3. Spec => [](Inv /\ DirectInv)
  BY InitInv, NextInv, <1>1, DirectStep, PTL DEF Spec
<1> QED BY <1>2, <1>3, PTL

\* A decided excuse is never rewritten: only APPROVED to CANCELLED remains.
THEOREM DecisionsFinal == Spec => DecidedIsFinal
<1> DEFINE Final == \A e \in Excuses :
       excuse[e].status \in {"APPROVED", "REJECTED", "CANCELLED"}
         => excuse'[e] = excuse[e]
            \/ /\ Approved(e)
               /\ excuse'[e] = [excuse[e] EXCEPT !.status = "CANCELLED"]
<1>1. Inv /\ [Next]_vars => Final
  BY NextMoves DEF Moves, Approved
<1>2. Inv /\ [Next]_vars => [Final]_vars
  BY <1>1
<1> QED BY InitInv, NextInv, <1>2, PTL DEF Spec, DecidedIsFinal

-----------------------------------------------------------------------------
(* An approval does what the preview showed.                               *)

\* Between the check and the write the plan is the one of the preview: the excuse
\* is locked, so its targets stay, and the marks were read before the check.
PlanOK(w) ==
  worker[w].pc = "approve" =>
    /\ worker[w].hash.scope = excuse[worker[w].own].scope
    /\ worker[w].hash.absent = {k[1] : k \in worker[w].absent}
PlanInv == /\ \A w \in Workers : PlanOK(w)
           /\ \A e \in Excuses : excuse[e].status = "PENDING" => excuse[e].student \in Students

\* A transaction is about to write its approval because it was, or because it has
\* just compared the plan with the preview.
LEMMA ApproveReached ==
  ASSUME Inv, [Next]_vars, NEW v \in Workers, worker'[v].pc = "approve"
  PROVE  worker'[v] = worker[v] \/ ApproveCheck(v)
<1>1. worker \in [Workers -> Worker]
  BY DEF Inv, TypeOK
<1>2. CASE UNCHANGED worker
  BY <1>2
<1>3. ASSUME NEW w \in Workers, NEW W, worker' = [worker EXCEPT ![w] = W], W.pc # "approve"
      PROVE  worker'[v] = worker[v]
  <2>1. worker'[w] = W /\ (v # w => worker'[v] = worker[v])
    BY <1>1, <1>3
  <2> QED BY <1>3, <2>1
<1>4. ASSUME NEW w \in Workers, worker' = [worker EXCEPT ![w] = Idle] PROVE worker'[v] = worker[v]
  <2>1. Idle.pc # "approve"
    BY DEF Idle
  <2> QED BY <1>3, <1>4, <2>1
<1>5. ASSUME NEW w \in Workers, NEW S, Reconcile(w, S) PROVE worker'[v] = worker[v]
  <2> DEFINE W == [Idle EXCEPT !.pc = "read", !.students = S]
  <2>1. worker' = [worker EXCEPT ![w] = W] /\ W.pc # "approve"
    BY <1>5 DEF Reconcile, Idle
  <2> HIDE DEF W
  <2> QED BY <1>3, <2>1
<1>6. ASSUME NEW w \in Workers, WorkerStep(w) PROVE worker'[v] = worker[v] \/ ApproveCheck(v)
  <2>0. worker[w] \in Worker
    BY <1>1
  <2>1. CASE ReconcileRead(w)
    <3> DEFINE W(S) == [worker[w] EXCEPT !.pc = "lock", !.students = S,
                                         !.targets = Visible(w), !.rows = ActiveRows]
    <3>1. ASSUME NEW S PROVE W(S).pc # "approve"
      BY <2>0 DEF Worker
    <3>2. worker' = [worker EXCEPT ![w] = Idle] \/ \E S : worker' = [worker EXCEPT ![w] = W(S)]
      BY <1>1, <2>1 DEF ReconcileRead
    <3> HIDE DEF W
    <3> QED BY <1>3, <1>4, <3>1, <3>2
  <2>2. CASE ReconcileLock(w)
    <3> DEFINE W == [worker[w] EXCEPT !.pc = "write", !.targets = StillApproved(w),
                       !.absent = {k \in absent : k[2] \in worker[w].students}]
    <3>1. W.pc # "approve"
      BY <2>0 DEF Worker
    <3>2. worker' = [worker EXCEPT ![w] = W]
      BY <1>1, <2>2 DEF ReconcileLock
    <3> HIDE DEF W
    <3> QED BY <1>3, <3>1, <3>2
  <2>3. CASE ReconcileWrite(w) \/ ApproveWrite(w)
    BY <1>4, <2>3 DEF ReconcileWrite, ApproveWrite
  <2>4. CASE CreateDay(w)
    <3> DEFINE W(S) == [worker[w] EXCEPT !.pc = "read", !.students = S]
    <3>1. ASSUME NEW S PROVE W(S).pc # "approve"
      BY <2>0 DEF Worker
    <3>2. worker' = [worker EXCEPT ![w] = Idle] \/ \E S : worker' = [worker EXCEPT ![w] = W(S)]
      BY <1>1, <2>4 DEF CreateDay
    <3> HIDE DEF W
    <3> QED BY <1>3, <1>4, <3>1, <3>2
  <2>5. CASE ApproveCheck(w)
    <3>1. v # w => worker'[v] = worker[v]
      BY <1>1, <2>5 DEF ApproveCheck
    <3> QED BY <2>5, <3>1
  <2>6. CASE DeadlockVictim(w)
    BY <1>4, <2>6 DEF DeadlockVictim, Rollback
  <2> QED BY <1>6, <2>1, <2>2, <2>3, <2>4, <2>5, <2>6 DEF WorkerStep
<1>7. ASSUME NEW w \in Workers, Request(w) PROVE worker'[v] = worker[v]
  <2>1. ASSUME NEW p \in Periods, NEW S \in SUBSET Students,
               SubmitSession(w, p, S) \/ EditSession(w, p, S)
        PROVE  worker'[v] = worker[v]
    BY <1>5, <2>1 DEF SubmitSession, EditSession
  <2>2. ASSUME NEW e \in Excuses, NEW s \in Students, NEW scope \in SUBSET Periods \ {{}},
               CreateDirect(w, e, s, scope)
        PROVE  worker'[v] = worker[v]
    <3> DEFINE W == [Idle EXCEPT !.pc = "day", !.own = e]
    <3>1. worker' = [worker EXCEPT ![w] = W] /\ W.pc # "approve"
      BY <2>2 DEF CreateDirect, Idle
    <3> HIDE DEF W
    <3> QED BY <1>3, <3>1
  <2>3. ASSUME NEW e \in Excuses, ApproveLock(w, e) PROVE worker'[v] = worker[v]
    <3> DEFINE W == [Idle EXCEPT !.pc = "check", !.own = e, !.hash = preview[e],
                                 !.absent = AbsentInScope(e) \X {excuse[e].student}]
    <3>1. worker' = [worker EXCEPT ![w] = W]
      BY <2>3 DEF ApproveLock
    <3>2. W.pc # "approve"
      BY DEF Idle
    <3> HIDE DEF W
    <3> QED BY <1>3, <3>1, <3>2
  <2>4. ASSUME NEW e \in Excuses, CancelExcuse(w, e) PROVE worker'[v] = worker[v]
    <3>1. UNCHANGED worker \/ Reconcile(w, {excuse[e].student})
      BY <2>4 DEF CancelExcuse
    <3> QED BY <1>2, <1>5, <3>1
  <2> QED BY <1>7, <2>1, <2>2, <2>3, <2>4 DEF Request
<1>8. ASSUME NEW w \in Workers, Crash(w) PROVE worker'[v] = worker[v]
  BY <1>4, <1>8 DEF Crash, Rollback
<1>9. ASSUME NEW e \in Excuses, Office(e) PROVE worker'[v] = worker[v]
  BY <1>9 DEF Office, CreatePending, UpdateExcuse, RejectExcuse, PreviewExcuse
<1> QED BY <1>2, <1>6, <1>7, <1>8, <1>9 DEF Next, vars

\* Every step keeps the plans of the approvals under way.
LEMMA PlanStep == Inv /\ PlanInv /\ [Next]_vars => PlanInv'
<1> SUFFICES ASSUME Inv, PlanInv, [Next]_vars PROVE PlanInv'
  OBVIOUS
<1>1. Inv' /\ worker \in [Workers -> Worker]
  BY NextInv DEF Inv, TypeOK
<1>2. ASSUME NEW v \in Workers, worker'[v].pc = "approve", worker'[v] = worker[v]
      PROVE  PlanOK(v)'
  <2> DEFINE e == worker[v].own
  <2>1. e \in Excuses /\ excuse'[e].status = "PENDING"
    BY <1>1, <1>2 DEF Inv, OwnOK
  <2>2. ~ExcuseFree(e) /\ excuse[e].status = "PENDING"
    BY <1>2 DEF ExcuseFree, HoldsExcuse, Inv, OwnOK
  <2>3. excuse'[e] = excuse[e]
    BY <2>1, <2>2, NextMoves DEF Moves, Approved
  <2> QED BY <1>2, <2>3 DEF PlanInv, PlanOK
<1>3. ASSUME NEW v \in Workers, worker'[v].pc = "approve", ApproveCheck(v)
      PROVE  PlanOK(v)'
  <2> DEFINE W == [worker[v] EXCEPT !.pc = "approve"]
  <2>1. /\ PlanAccepted(v, worker[v].own) /\ worker' = [worker EXCEPT ![v].pc = "approve"]
        /\ UNCHANGED excuse
    <3>1. CASE worker' = [worker EXCEPT ![v] = Idle]
      <4>1. worker'[v] = Idle
        BY <1>1, <3>1
      <4> QED BY <1>3, <4>1 DEF Idle
    <3> QED BY <1>3, <3>1 DEF ApproveCheck
  <2>2. worker'[v] = W /\ worker[v] \in Worker
    BY <1>1, <2>1
  <2>3. W.own = worker[v].own /\ W.hash = worker[v].hash /\ W.absent = worker[v].absent
    BY <2>2 DEF Worker
  <2> HIDE DEF W
  <2> QED BY <2>1, <2>2, <2>3 DEF PlanAccepted, PlanOK
<1>4. ASSUME NEW v \in Workers PROVE PlanOK(v)'
  BY <1>2, <1>3, ApproveReached DEF PlanOK
<1>5. ASSUME NEW e \in Excuses, excuse'[e].status = "PENDING" PROVE excuse'[e].student \in Students
  <2>1. Moves(e) /\ excuse[e] \in Excuse
    BY NextMoves DEF Inv, TypeOK
  <2>2. excuse'[e] = [excuse[e] EXCEPT !.status = "CANCELLED"] => FALSE
    BY <1>5, <2>1, Replaced
  <2> QED BY <1>5, <2>1, <2>2 DEF Moves, Same, PlanInv
<1> QED BY <1>4, <1>5 DEF PlanInv

\* The rows that an approval writes are those of the absences it has read, and no
\* row had its excuse before.
LEMMA ApprovalRows ==
  ASSUME Inv, PlanInv, NEW w \in Workers, ApproveWrite(w), NEW e \in Excuses, worker[w].own = e,
         excuse'[e].status = "APPROVED"
  PROVE  {p \in Periods : coverage'[<<p, excuse[e].student>>].excuse = e}
           = {k[1] : k \in worker[w].absent}
<1> DEFINE by == [k \in DOMAIN coverage |-> e]
           keys == worker[w].absent
           s == excuse[e].student
<1>1. /\ excuse[e].status = "PENDING" /\ \A k \in keys : Covers(e, k[1], k[2])
  BY DEF ApproveWrite, Inv, OwnOK
<1>2. coverage' = Created(coverage, keys, by)
  BY <1>1 DEF ApproveWrite
<1>3. coverage \in [Pairs -> Row] /\ keys \subseteq Pairs /\ s \in Students
  BY <1>1, Fields DEF Inv, TypeOK, Pairs, PlanInv
<1>4. \A k \in Pairs : by[k] = e
  BY <1>3
<1> HIDE DEF by
<1>5. \A k \in Pairs : coverage'[k].excuse = IF k \in keys THEN e ELSE coverage[k].excuse
  BY <1>2, <1>3, <1>4, CreatedRows
<1>6. \A k \in Pairs : coverage[k].excuse # e
  BY <1>1, NobodyApart DEF Inv, Backed, Approved
<1>7. \A k \in keys : k \in Pairs /\ k = <<k[1], s>> /\ k[1] \in Periods
  BY <1>1, <1>3 DEF Pairs, Covers
<1>8. ASSUME NEW p \in Periods, coverage'[<<p, s>>].excuse = e PROVE p \in {k[1] : k \in keys}
  <2>1. <<p, s>> \in Pairs
    BY <1>3 DEF Pairs
  <2>2. <<p, s>> \in keys
    BY <1>5, <1>6, <1>8, <2>1
  <2> QED BY <2>2
<1>9. ASSUME NEW k \in keys PROVE k[1] \in Periods /\ coverage'[<<k[1], s>>].excuse = e
  BY <1>5, <1>7
<1> QED BY <1>8, <1>9

\* An approval does what the administrator saw, whatever happened in between: its
\* coverages are the absences of the preview, and its targets those of the preview.
THEOREM ApprovalsAsPreviewed == Spec => ApprovedAsPreviewed
<1> DEFINE Seen == \A e \in Excuses :
       excuse[e].status = "PENDING" /\ excuse'[e].status = "APPROVED"
         => \E w \in Workers :
              /\ worker[w].own = e
              /\ excuse'[e].scope = worker[w].hash.scope
              /\ {p \in Periods : coverage'[<<p, excuse[e].student>>].excuse = e}
                   = worker[w].hash.absent
<1>1. Init => PlanInv
  BY DEF Init, PlanInv, PlanOK, Idle, NoExcuse
<1>2. Inv /\ PlanInv /\ [Next]_vars => Seen
  <2> SUFFICES ASSUME Inv, PlanInv, [Next]_vars, NEW e \in Excuses,
                      excuse[e].status = "PENDING", excuse'[e].status = "APPROVED"
               PROVE  \E w \in Workers :
                        /\ worker[w].own = e
                        /\ excuse'[e].scope = worker[w].hash.scope
                        /\ {p \in Periods : coverage'[<<p, excuse[e].student>>].excuse = e}
                             = worker[w].hash.absent
    OBVIOUS
  <2>1. PICK w \in Workers : /\ worker[w].own = e /\ ApproveWrite(w)
                             /\ excuse'[e].scope = excuse[e].scope
    BY NextMoves DEF Moves, Approved
  <2>2. worker[w].pc = "approve"
    BY <2>1 DEF ApproveWrite
  <2>3. /\ worker[w].hash.scope = excuse[e].scope
        /\ worker[w].hash.absent = {k[1] : k \in worker[w].absent}
    BY <2>1, <2>2 DEF PlanInv, PlanOK
  <2> QED BY <2>1, <2>3, ApprovalRows
<1>3. Inv /\ PlanInv /\ [Next]_vars => [Seen]_vars
  BY <1>2
<1> QED BY InitInv, NextInv, PlanStep, <1>1, <1>3, PTL DEF Spec, ApprovedAsPreviewed
-----------------------------------------------------------------------------
(* Absences get their coverage.                                            *)

\* The reconciliation of w has still to do k for e: it follows a change of the
\* attendance or a cancellation, listed e if it listed anything, listed no ACTIVE
\* row of k, and found the absence if it looked.
OnItsWay(w, k, e) ==
  /\ worker[w].own = Nobody /\ worker[w].pc \in {"read", "lock", "write"}
  /\ k[2] \in worker[w].students
  /\ worker[w].pc \in {"lock", "write"} =>
       e \in worker[w].targets /\ \A r \in worker[w].rows : <<r[1], r[2]>> # k
  /\ worker[w].pc = "write" => k \in worker[w].absent

\* The absences that count as settled, and all pairs with an absence now or before.
Stood == absent \ unsettled
Known == absent \cup unsettled

\* What a reconciliation has listed stood for absences; where they still stand, the
\* marks it then read have them.
ReadGood(w) ==
  /\ worker[w].pc \in {"lock", "write"} => \A r \in worker[w].rows : <<r[1], r[2]>> \in Known
  /\ worker[w].pc = "write" =>
       \A r \in worker[w].rows :
         r[2] \in worker[w].students /\ <<r[1], r[2]>> \in Stood => <<r[1], r[2]>> \in worker[w].absent
  /\ worker[w].pc \in {"write", "check", "approve"} => worker[w].absent \subseteq Known

\* create_excuse: nobody else covers what its excuse targets, and while it holds the
\* student no absence is added to those it has read.
CreatorGood(w) ==
  worker[w].own # Nobody =>
    /\ worker[w].pc \in {"read", "lock", "write"} =>
         excuse[worker[w].own].student \in worker[w].students
    /\ worker[w].pc \in {"lock", "write"} =>
         /\ worker[w].own \in worker[w].targets
         /\ \A r \in worker[w].rows : ~Covers(worker[w].own, r[1], r[2])
    /\ worker[w].pc = "write" =>
         \A k \in absent : k[2] = excuse[worker[w].own].student => k \in worker[w].absent

\* approve_excuse holds the student too: it has read all the absences it is to cover,
\* and nobody creates an excuse of the student.
ApproverGood(w) ==
  worker[w].pc \in {"check", "approve"} =>
    /\ \A k \in absent : Covers(worker[w].own, k[1], k[2]) => k \in worker[w].absent
    /\ \A f \in Excuses : excuse[f].status = "CREATING" =>
         excuse[f].student # excuse[worker[w].own].student

Good(w) == ReadGood(w) /\ CreatorGood(w) /\ ApproverGood(w)

\* An excuse that is being created is the only one of its student, and shares no
\* period with the approved ones.
CreatingApart ==
  \A e, f \in Excuses :
    e # f /\ excuse[e].status = "CREATING" /\ excuse[f].student = excuse[e].student =>
      /\ excuse[f].status # "CREATING"
      /\ Approved(f) => excuse[e].scope \cap excuse[f].scope = {}

ActiveKnown == \A k \in Pairs : coverage[k].excuse # Nobody => k \in Known

\* An absence that an approved excuse covers and that has no coverage.
Owed(k, e) == k \in Stood /\ Approved(e) /\ Covers(e, k[1], k[2]) /\ coverage[k].excuse = Nobody

\* A request is on its way to create what is owed.
Promised == \A k \in Pairs, e \in Excuses : Owed(k, e) => \E w \in Workers : OnItsWay(w, k, e)

CoverInv ==
  /\ \A w \in Workers : Good(w)
  /\ CreatingApart /\ ActiveKnown /\ Promised

\* A pair that was known stays known, and settles only while nobody works on it; an
\* absence appears only for a student that nobody holds.
AttendanceMoves ==
  /\ Known \subseteq Known'
  /\ \A k \in absent : k \in Stood' => k \in Stood
  /\ \A k \in Known, v \in Workers :
       k \in Stood' /\ worker[v].pc # "idle" /\ worker'[v] = worker[v] => k \in Stood
  /\ \A k \in absent' : k \notin absent => StudentFree(k[2])

\* Every step moves the attendance so.
LEMMA AbsenceMoves ==
  ASSUME Inv, [Next]_vars
  PROVE  AttendanceMoves
<1>1. ASSUME UNCHANGED <<absent, unsettled>> \/ (unsettled \subseteq unsettled' /\ UNCHANGED absent)
      PROVE  AttendanceMoves
  BY <1>1 DEF AttendanceMoves, Known, Stood
<1>2. ASSUME NEW w \in Workers, NEW p \in Periods, NEW S \in SUBSET Students, SubmitSession(w, p, S)
      PROVE  AttendanceMoves
  <2>1. absent' = absent \cup ({p} \X S) /\ unsettled' = unsettled /\ \A s \in S : StudentFree(s)
    BY <1>2 DEF SubmitSession
  <2>2. \A k \in {p} \X S : k[2] \in S
    OBVIOUS
  <2> QED BY <2>1, <2>2 DEF AttendanceMoves, Known, Stood
<1>3. ASSUME NEW w \in Workers, NEW p \in Periods, NEW S \in SUBSET Students, EditSession(w, p, S)
      PROVE  AttendanceMoves
  <2> DEFINE old == {s \in Students : <<p, s>> \in absent}
             alone == \A v \in Workers : worker[v].pc = "idle"
             anew == IF alone THEN {p} \X (S \ old) ELSE {}
  <2>1. /\ absent' = (absent \ ({p} \X Students)) \cup ({p} \X S)
        /\ unsettled' = (unsettled \cup ({p} \X (old \ S))) \ anew
        /\ \A s \in Changed(old, S) : StudentFree(s)
    BY <1>3 DEF EditSession
  <2>2. absent \subseteq Periods \X Students
    BY DEF Inv, TypeOK
  <2>3. ASSUME NEW k \in anew PROVE k \in absent' /\ k \notin absent /\ alone
    <3>1. alone /\ k \in {p} \X (S \ old)
      BY <2>3
    <3>2. k = <<p, k[2]>> /\ k[2] \in S /\ k[2] \notin old
      BY <3>1
    <3> QED BY <2>1, <3>1, <3>2
  <2>4. ASSUME NEW k \in absent PROVE k \in absent' \cup unsettled'
    <3>1. k = <<k[1], k[2]>> /\ k[2] \in Students
      BY <2>2
    <3>2. CASE k \in {p} \X Students
      <4>1. k = <<p, k[2]>>
        BY <3>1, <3>2
      <4>2. k[2] \in old
        BY <3>1, <4>1
      <4>3. k[2] \in S => <<p, k[2]>> \in {p} \X S
        OBVIOUS
      <4>4. k[2] \notin S => <<p, k[2]>> \in {p} \X (old \ S)
        BY <4>2
      <4>5. k \notin anew
        BY <2>3
      <4> HIDE DEF anew
      <4> QED BY <2>1, <4>1, <4>3, <4>4, <4>5
    <3> QED BY <2>1, <3>2
  <2>5. ASSUME NEW k \in absent', k \notin absent PROVE StudentFree(k[2])
    <3>1. k \in {p} \X S
      BY <2>1, <2>5
    <3>2. k = <<p, k[2]>> /\ k[2] \in S
      BY <3>1
    <3>3. k[2] \in Changed(old, S)
      BY <2>5, <3>2 DEF Changed
    <3> QED BY <2>1, <3>3
  <2> HIDE DEF anew
  <2>6. \A k \in unsettled : k \in unsettled' \/ (k \in absent' /\ k \notin absent /\ alone)
    BY <2>1, <2>3
  <2>7. Known \subseteq Known'
    BY <2>4, <2>6 DEF Known
  <2>8. \A k \in absent : k \in Stood' => k \in Stood
    BY <2>6 DEF Stood
  <2>9. \A k \in Known, v \in Workers :
          k \in Stood' /\ worker[v].pc # "idle" /\ worker'[v] = worker[v] => k \in Stood
    BY <2>6 DEF Known, Stood
  <2> QED BY <2>5, <2>7, <2>8, <2>9 DEF AttendanceMoves
<1>4. ASSUME NEW w \in Workers, Rollback(w) PROVE AttendanceMoves
  BY <1>1, <1>4 DEF Rollback
<1>5. ASSUME NEW w \in Workers, WorkerStep(w) PROVE AttendanceMoves
  BY <1>1, <1>4, <1>5 DEF WorkerStep, ReconcileRead, ReconcileLock, ReconcileWrite, CreateDay,
     ApproveCheck, ApproveWrite, DeadlockVictim, attendance
<1>6. ASSUME NEW w \in Workers, NEW e \in Excuses,
             \/ \E s \in Students, scope \in SUBSET Periods \ {{}} : CreateDirect(w, e, s, scope)
             \/ ApproveLock(w, e) \/ CancelExcuse(w, e)
      PROVE  AttendanceMoves
  BY <1>1, <1>6 DEF CreateDirect, ApproveLock, CancelExcuse, attendance
<1>7. ASSUME NEW e \in Excuses, Office(e) PROVE AttendanceMoves
  BY <1>1, <1>7 DEF Office, CreatePending, UpdateExcuse, RejectExcuse, PreviewExcuse, attendance
<1>8. CASE UNCHANGED vars
  BY <1>1, <1>8 DEF vars
<1> QED BY <1>2, <1>3, <1>4, <1>5, <1>6, <1>7, <1>8 DEF Next, Request, Crash

\* What a transaction has read stays true while others work.
LEMMA UntouchedGood ==
  ASSUME Inv, CoverInv, [Next]_vars, NEW v \in Workers, worker'[v] = worker[v]
  PROVE  Good(v)'
<1> DEFINE o == worker[v].own
<1>1. Good(v) /\ OwnOK(v) /\ OwnOK(v)' /\ worker[v] \in Worker /\ o \in Excuses \cup {Nobody}
  BY NextInv, Fields DEF Inv, CoverInv
<1>2. \A k \in absent' : k \notin absent => StudentFree(k[2])
  BY AbsenceMoves DEF AttendanceMoves
<1>3. /\ Known \subseteq Known'
      /\ worker[v].pc # "idle" => \A k \in Known : k \in Stood' => k \in Stood
  BY AbsenceMoves DEF AttendanceMoves
<1>4. ReadGood(v)'
  BY <1>1, <1>3 DEF Good, ReadGood
<1>5. ASSUME o # Nobody, worker[v].pc \in {"read", "lock", "write"}
      PROVE  excuse'[o] = excuse[o] /\ excuse[o].status = "CREATING"
  <2>1. excuse[o].status = "CREATING" /\ excuse'[o].status = "CREATING" /\ o \in Excuses
    BY <1>1, <1>5 DEF OwnOK
  <2> QED BY <2>1, NextMoves DEF Moves, Approved
<1>6. ASSUME worker[v].pc \in {"check", "approve"}
      PROVE  excuse'[o] = excuse[o] /\ o \in Excuses
  <2>1. excuse[o].status = "PENDING" /\ excuse'[o].status = "PENDING" /\ o \in Excuses
    BY <1>1, <1>6 DEF OwnOK
  <2>2. ~ExcuseFree(o)
    BY <1>6 DEF ExcuseFree, HoldsExcuse
  <2> QED BY <2>1, <2>2, NextMoves DEF Moves, Approved
<1>7. CreatorGood(v)'
  <2> SUFFICES ASSUME o # Nobody, worker[v].pc \in {"read", "lock", "write"}
               PROVE  /\ excuse'[o].student \in worker[v].students
                      /\ worker[v].pc \in {"lock", "write"} =>
                           /\ o \in worker[v].targets
                           /\ \A r \in worker[v].rows : ~Covers(o, r[1], r[2])'
                      /\ worker[v].pc = "write" =>
                           \A k \in absent' : k[2] = excuse'[o].student => k \in worker[v].absent
    BY DEF CreatorGood
  <2>1. excuse'[o] = excuse[o] /\ excuse[o].status = "CREATING" /\ o \in Excuses
    BY <1>1, <1>5
  <2>2. \A k \in absent' : k[2] = excuse[o].student => k \in absent
    BY <1>2, <2>1 DEF StudentFree
  <2> QED BY <1>1, <2>1, <2>2 DEF Good, CreatorGood, Covers
<1>8. ApproverGood(v)'
  <2> SUFFICES ASSUME worker[v].pc \in {"check", "approve"}
               PROVE  /\ \A k \in absent' : Covers(o, k[1], k[2])' => k \in worker[v].absent
                      /\ \A f \in Excuses : excuse'[f].status = "CREATING" =>
                           excuse'[f].student # excuse'[o].student
    BY DEF ApproverGood
  <2>1. excuse'[o] = excuse[o] /\ o \in Excuses
    BY <1>6
  <2>2. \A k \in absent' : k[2] = excuse[o].student => k \in absent
    BY <1>2 DEF StudentFree
  <2>3. ASSUME NEW f \in Excuses, excuse'[f].status = "CREATING"
        PROVE  excuse'[f].student # excuse[o].student
    <3>1. Moves(f) /\ excuse[f] \in Excuse
      BY NextMoves, Fields DEF Inv
    <3>2. excuse'[f] = [excuse[f] EXCEPT !.status = "CANCELLED"] => FALSE
      BY <2>3, <3>1, Replaced
    <3>3. excuse'[f] = excuse[f] \/ StudentFree(excuse'[f].student)
      BY <2>3, <3>1, <3>2 DEF Moves
    <3>4. excuse[f].status = "CREATING" => excuse[f].student # excuse[o].student
      BY <1>1 DEF Good, ApproverGood
    <3> QED BY <2>3, <3>3, <3>4 DEF StudentFree
  <2> QED BY <1>1, <2>1, <2>2, <2>3 DEF Good, ApproverGood, Covers
<1> QED BY <1>4, <1>7, <1>8 DEF Good

\* The students of the call that have a target or an ACTIVE row.
Concerned(w) == worker[w].students \cap
                  ({excuse[e].student : e \in Visible(w)} \cup {r[2] : r \in ActiveRows})

\* What ReconcileRead leaves its transaction with.
LEMMA ReadFields ==
  ASSUME Inv, NEW w \in Workers, ReconcileRead(w)
  PROVE  /\ worker[w].pc = "read" /\ UNCHANGED <<absent, unsettled, coverage>>
         /\ \A v \in Workers : v # w => worker'[v] = worker[v]
         /\ \/ /\ Concerned(w) = {} /\ worker' = [worker EXCEPT ![w] = Idle]
               /\ worker'[w] = Idle /\ excuse' = Committed(w, excuse)
            \/ /\ UNCHANGED excuse
               /\ worker'[w].pc = "lock" /\ worker'[w].own = worker[w].own
               /\ worker'[w].students = Concerned(w)
               /\ worker'[w].targets = Visible(w) /\ worker'[w].rows = ActiveRows
<1> DEFINE S == Concerned(w)
           W == [worker[w] EXCEPT !.pc = "lock", !.students = S,
                                  !.targets = Visible(w), !.rows = ActiveRows]
<1>1. worker \in [Workers -> Worker] /\ worker[w] \in Worker
  BY DEF Inv, TypeOK
<1>2. worker[w].pc = "read" /\ UNCHANGED <<absent, unsettled, coverage>>
  BY DEF ReconcileRead, attendance
<1>3. \/ S = {} /\ worker' = [worker EXCEPT ![w] = Idle] /\ excuse' = Committed(w, excuse)
      \/ UNCHANGED excuse /\ worker' = [worker EXCEPT ![w] = W]
  BY <1>1 DEF ReconcileRead, Concerned
<1>4. /\ W.pc = "lock" /\ W.own = worker[w].own /\ W.students = S
      /\ W.targets = Visible(w) /\ W.rows = ActiveRows
  BY <1>1 DEF Worker
<1> HIDE DEF S, W
<1>5. \A v \in Workers : v # w => worker'[v] = worker[v]
  BY <1>1, <1>3
<1>6. worker' = [worker EXCEPT ![w] = Idle] => worker'[w] = Idle
  BY <1>1
<1>7. worker' = [worker EXCEPT ![w] = W] => worker'[w] = W
  BY <1>1
<1> QED BY <1>2, <1>3, <1>4, <1>5, <1>6, <1>7 DEF S

\* What ReconcileLock leaves its transaction with.
LEMMA LockFields ==
  ASSUME Inv, NEW w \in Workers, ReconcileLock(w)
  PROVE  /\ worker[w].pc = "lock" /\ UNCHANGED <<absent, unsettled, excuse, coverage>>
         /\ \A v \in Workers : v # w => worker'[v] = worker[v]
         /\ worker'[w].pc = "write" /\ worker'[w].own = worker[w].own
         /\ worker'[w].students = worker[w].students /\ worker'[w].rows = worker[w].rows
         /\ worker'[w].targets = StillApproved(w)
         /\ worker'[w].absent = {k \in absent : k[2] \in worker[w].students}
<1> DEFINE A == {k \in absent : k[2] \in worker[w].students}
           W == [worker[w] EXCEPT !.pc = "write", !.targets = StillApproved(w), !.absent = A]
<1>1. worker \in [Workers -> Worker] /\ worker[w] \in Worker
  BY DEF Inv, TypeOK
<1>2. worker[w].pc = "lock" /\ UNCHANGED <<absent, unsettled, excuse, coverage>>
  BY DEF ReconcileLock, attendance
<1>3. worker' = [worker EXCEPT ![w] = W]
  BY <1>1 DEF ReconcileLock
<1>4. /\ W.pc = "write" /\ W.own = worker[w].own /\ W.students = worker[w].students
      /\ W.rows = worker[w].rows /\ W.targets = StillApproved(w) /\ W.absent = A
  BY <1>1 DEF Worker
<1> HIDE DEF W
<1>5. worker'[w] = W /\ \A v \in Workers : v # w => worker'[v] = worker[v]
  BY <1>1, <1>3
<1> QED BY <1>2, <1>4, <1>5

\* What CreateDay leaves its transaction with.
LEMMA DayFields ==
  ASSUME Inv, NEW w \in Workers, CreateDay(w)
  PROVE  /\ worker[w].pc = "day" /\ UNCHANGED <<absent, unsettled, coverage>>
         /\ \A v \in Workers : v # w => worker'[v] = worker[v]
         /\ \/ /\ \A p \in Periods : <<p, excuse[worker[w].own].student>> \notin absent
               /\ worker' = [worker EXCEPT ![w] = Idle]
               /\ worker'[w] = Idle /\ excuse' = Committed(w, excuse)
            \/ /\ UNCHANGED excuse
               /\ worker'[w].pc = "read" /\ worker'[w].own = worker[w].own
               /\ worker'[w].students = {excuse[worker[w].own].student}
<1> DEFINE s == excuse[worker[w].own].student
           W == [worker[w] EXCEPT !.pc = "read", !.students = {s}]
<1>1. worker \in [Workers -> Worker] /\ worker[w] \in Worker
  BY DEF Inv, TypeOK
<1>2. worker[w].pc = "day" /\ UNCHANGED <<absent, unsettled, coverage>>
  BY DEF CreateDay, attendance
<1>3. \/ /\ \A p \in Periods : <<p, s>> \notin absent
         /\ worker' = [worker EXCEPT ![w] = Idle] /\ excuse' = Committed(w, excuse)
      \/ UNCHANGED excuse /\ worker' = [worker EXCEPT ![w] = W]
  BY <1>1 DEF CreateDay
<1>4. W.pc = "read" /\ W.own = worker[w].own /\ W.students = {s}
  BY <1>1 DEF Worker
<1> HIDE DEF W
<1>5. /\ \A v \in Workers : v # w => worker'[v] = worker[v]
      /\ worker' = [worker EXCEPT ![w] = Idle] => worker'[w] = Idle
      /\ worker' = [worker EXCEPT ![w] = W] => worker'[w] = W
  BY <1>1, <1>3
<1> QED BY <1>2, <1>3, <1>4, <1>5

\* What a request starts with: the reconciliation after a change or a cancellation.
LEMMA StartFields ==
  ASSUME Inv, NEW w \in Workers, NEW S, Reconcile(w, S)
  PROVE  /\ \A v \in Workers : v # w => worker'[v] = worker[v]
         /\ worker'[w].pc = "read" /\ worker'[w].own = Nobody /\ worker'[w].students = S
<1> DEFINE W == [Idle EXCEPT !.pc = "read", !.students = S]
<1>1. worker \in [Workers -> Worker]
  BY DEF Inv, TypeOK
<1>2. worker' = [worker EXCEPT ![w] = W]
  BY DEF Reconcile
<1>3. W.pc = "read" /\ W.own = Nobody /\ W.students = S
  BY DEF Idle
<1> HIDE DEF W
<1> QED BY <1>1, <1>2, <1>3

\* What a creation and an approval start with.
LEMMA OwnerFields ==
  ASSUME Inv, NEW w \in Workers, NEW e \in Excuses
  PROVE  /\ \A s \in Students, scope \in SUBSET Periods \ {{}} : CreateDirect(w, e, s, scope) =>
              /\ \A v \in Workers : v # w => worker'[v] = worker[v]
              /\ worker[w].pc = "idle" /\ worker'[w].pc = "day"
              /\ UNCHANGED <<absent, unsettled, coverage>>
         /\ ApproveLock(w, e) =>
              /\ \A v \in Workers : v # w => worker'[v] = worker[v]
              /\ worker[w].pc = "idle" /\ worker'[w].pc = "check" /\ worker'[w].own = e
              /\ worker'[w].absent = AbsentInScope(e) \X {excuse[e].student}
              /\ UNCHANGED <<absent, unsettled, excuse, coverage>>
<1>1. worker \in [Workers -> Worker]
  BY DEF Inv, TypeOK
<1>2. ASSUME NEW s \in Students, NEW scope \in SUBSET Periods \ {{}}, CreateDirect(w, e, s, scope)
      PROVE  /\ \A v \in Workers : v # w => worker'[v] = worker[v]
             /\ worker[w].pc = "idle" /\ worker'[w].pc = "day"
             /\ UNCHANGED <<absent, unsettled, coverage>>
  <2> DEFINE W == [Idle EXCEPT !.pc = "day", !.own = e]
  <2>1. W.pc = "day"
    BY DEF Idle
  <2>2. /\ worker[w].pc = "idle" /\ worker' = [worker EXCEPT ![w] = W]
        /\ UNCHANGED <<absent, unsettled, coverage>>
    BY <1>2 DEF CreateDirect, attendance
  <2> HIDE DEF W
  <2> QED BY <1>1, <2>1, <2>2
<1>3. ASSUME ApproveLock(w, e)
      PROVE  /\ \A v \in Workers : v # w => worker'[v] = worker[v]
             /\ worker[w].pc = "idle" /\ worker'[w].pc = "check" /\ worker'[w].own = e
             /\ worker'[w].absent = AbsentInScope(e) \X {excuse[e].student}
             /\ UNCHANGED <<absent, unsettled, excuse, coverage>>
  <2> DEFINE A == AbsentInScope(e) \X {excuse[e].student}
             W == [Idle EXCEPT !.pc = "check", !.own = e, !.hash = preview[e], !.absent = A]
  <2>2. /\ worker[w].pc = "idle" /\ worker' = [worker EXCEPT ![w] = W]
        /\ UNCHANGED <<absent, unsettled, excuse, coverage>>
    BY <1>3 DEF ApproveLock, attendance
  <2> HIDE DEF A
  <2>1. W.pc = "check" /\ W.own = e /\ W.absent = A
    BY DEF Idle
  <2> HIDE DEF W
  <2> QED BY <1>1, <2>1, <2>2 DEF A
<1> QED BY <1>2, <1>3

\* What the check of an approval leaves its transaction with.
LEMMA CheckFields ==
  ASSUME Inv, NEW w \in Workers, ApproveCheck(w)
  PROVE  /\ worker[w].pc = "check" /\ UNCHANGED <<absent, unsettled, excuse, coverage>>
         /\ \A v \in Workers : v # w => worker'[v] = worker[v]
         /\ \/ worker'[w] = Idle
            \/ /\ worker'[w].pc = "approve" /\ worker'[w].own = worker[w].own
               /\ worker'[w].absent = worker[w].absent
<1> DEFINE W == [worker[w] EXCEPT !.pc = "approve"]
<1>1. worker \in [Workers -> Worker] /\ worker[w] \in Worker
  BY DEF Inv, TypeOK
<1>2. worker[w].pc = "check" /\ UNCHANGED <<absent, unsettled, excuse, coverage>>
  BY DEF ApproveCheck, attendance
<1>3. worker' = [worker EXCEPT ![w] = W] \/ worker' = [worker EXCEPT ![w] = Idle]
  BY <1>1 DEF ApproveCheck
<1>4. W.pc = "approve" /\ W.own = worker[w].own /\ W.absent = worker[w].absent
  BY <1>1 DEF Worker
<1> HIDE DEF W
<1>5. CASE worker' = [worker EXCEPT ![w] = W]
  <2>1. worker'[w] = W /\ \A v \in Workers : v # w => worker'[v] = worker[v]
    BY <1>1, <1>5
  <2> QED BY <1>2, <1>4, <2>1
<1>6. CASE worker' = [worker EXCEPT ![w] = Idle]
  <2>1. worker'[w] = Idle /\ \A v \in Workers : v # w => worker'[v] = worker[v]
    BY <1>1, <1>6
  <2> QED BY <1>2, <2>1
<1> QED BY <1>3, <1>5, <1>6

\* A transaction that ends.
LEMMA EndFields ==
  ASSUME Inv, NEW w \in Workers, ReconcileWrite(w) \/ ApproveWrite(w) \/ Rollback(w)
  PROVE  /\ worker' = [worker EXCEPT ![w] = Idle] /\ worker'[w] = Idle
         /\ \A v \in Workers : v # w => worker'[v] = worker[v]
<1>1. worker \in [Workers -> Worker]
  BY DEF Inv, TypeOK
<1>2. worker' = [worker EXCEPT ![w] = Idle]
  BY DEF ReconcileWrite, ApproveWrite, Rollback
<1> QED BY <1>1, <1>2

\* A transaction at its beginning or its end has read nothing.
LEMMA NothingRead ==
  ASSUME NEW v \in Workers,
         worker'[v] = Idle \/ worker'[v].pc = "day" \/ (worker'[v].pc = "read" /\ worker'[v].own = Nobody)
  PROVE  Good(v)'
<1>1. worker'[v].pc = "day" \/ worker'[v].own = Nobody
  BY DEF Idle
<1>2. worker'[v].pc \in {"idle", "day", "read"}
  BY DEF Idle
<1> QED BY <1>1, <1>2 DEF Good, ReadGood, CreatorGood, ApproverGood

\* ReconcileRead lists rows of absences, and none that its own excuse covers.
LEMMA ReadGoodAfter ==
  ASSUME Inv, CoverInv, NEW w \in Workers, ReconcileRead(w)
  PROVE  Good(w)'
<1> DEFINE o == worker[w].own
<1>1. CASE worker'[w] = Idle
  BY <1>1, NothingRead
<1>2. CASE UNCHANGED excuse /\ worker'[w].pc = "lock" /\ worker'[w].own = o
           /\ worker'[w].students = Concerned(w)
           /\ worker'[w].targets = Visible(w) /\ worker'[w].rows = ActiveRows
  <2>1. worker[w].pc = "read" /\ UNCHANGED <<absent, unsettled, coverage>>
    BY ReadFields
  <2>2. ASSUME NEW r \in ActiveRows
        PROVE  <<r[1], r[2]>> \in Pairs /\ coverage[<<r[1], r[2]>>].excuse # Nobody
    <3>1. PICK k \in Pairs : r = <<k[1], k[2], coverage[k].row>> /\ coverage[k].excuse # Nobody
      BY DEF ActiveRows, Inv, TypeOK, Pairs
    <3>2. k = <<r[1], r[2]>>
      BY <3>1 DEF Pairs
    <3> QED BY <3>1, <3>2
  <2>3. \A r \in ActiveRows : <<r[1], r[2]>> \in Known
    BY <2>2 DEF CoverInv, ActiveKnown
  <2>4. ReadGood(w)'
    BY <1>2, <2>1, <2>3 DEF ReadGood, Known
  <2>5. ASSUME o # Nobody
        PROVE  /\ excuse[o].student \in Concerned(w) /\ o \in Visible(w)
               /\ \A r \in ActiveRows : ~Covers(o, r[1], r[2])
    <3>1. o \in Excuses /\ excuse[o].status = "CREATING" /\ excuse[o].student \in worker[w].students
      BY <2>1, <2>5, Fields DEF Inv, OwnOK, CoverInv, Good, CreatorGood
    <3>2. o \in Visible(w) /\ excuse[o].student \in Concerned(w)
      BY <3>1 DEF Visible, Concerned
    <3>3. ASSUME NEW r \in ActiveRows, Covers(o, r[1], r[2]) PROVE FALSE
      <4> DEFINE k == <<r[1], r[2]>>
                 f == coverage[k].excuse
      <4>1. k \in Pairs /\ f # Nobody
        BY <2>2, <3>3
      <4>2. f \in Excuses
        BY <4>1, Fields DEF Inv
      <4>3. Approved(f) /\ Covers(f, k[1], k[2])
        BY <4>1 DEF Inv, Backed
      <4>4. f # o /\ excuse[f].student = excuse[o].student
            /\ r[1] \in excuse[f].scope /\ r[1] \in excuse[o].scope
        BY <3>1, <3>3, <4>3 DEF Approved, Covers
      <4> QED BY <3>1, <4>2, <4>3, <4>4 DEF CoverInv, CreatingApart
    <3> QED BY <3>2, <3>3
  <2>6. CreatorGood(w)'
    BY <1>2, <2>5 DEF CreatorGood, Covers
  <2>7. ApproverGood(w)'
    BY <1>2 DEF ApproverGood
  <2> QED BY <2>4, <2>6, <2>7 DEF Good
<1> QED BY <1>1, <1>2, ReadFields

\* ReconcileLock reads all the absences of its students.
LEMMA LockGoodAfter ==
  ASSUME Inv, CoverInv, NEW w \in Workers, ReconcileLock(w)
  PROVE  Good(w)'
<1> DEFINE o == worker[w].own
<1>1. /\ worker[w].pc = "lock" /\ UNCHANGED <<absent, unsettled, excuse, coverage>>
      /\ worker'[w].pc = "write" /\ worker'[w].own = o
      /\ worker'[w].students = worker[w].students /\ worker'[w].rows = worker[w].rows
      /\ worker'[w].targets = StillApproved(w)
      /\ worker'[w].absent = {k \in absent : k[2] \in worker[w].students}
  BY LockFields
<1>2. Good(w) /\ o \in Excuses \cup {Nobody}
  BY Fields DEF CoverInv, Inv
<1>3. \A r \in worker[w].rows :
        r[2] \in worker[w].students /\ <<r[1], r[2]>> \in Stood => <<r[1], r[2]>> \in worker'[w].absent
  BY <1>1 DEF Stood
<1>4. worker'[w].absent \subseteq Known
  BY <1>1 DEF Known
<1>5. ReadGood(w)'
  BY <1>1, <1>2, <1>3, <1>4 DEF Good, ReadGood, Known, Stood
<1>6. ASSUME o # Nobody
      PROVE  /\ excuse[o].student \in worker[w].students /\ o \in StillApproved(w)
             /\ \A r \in worker[w].rows : ~Covers(o, r[1], r[2])
             /\ \A k \in absent : k[2] = excuse[o].student => k \in worker'[w].absent
  <2>1. /\ excuse[o].student \in worker[w].students /\ o \in worker[w].targets
        /\ \A r \in worker[w].rows : ~Covers(o, r[1], r[2])
    BY <1>1, <1>2, <1>6 DEF Good, CreatorGood
  <2>2. o \in StillApproved(w)
    BY <1>2, <1>6, <2>1 DEF StillApproved, Visible
  <2> QED BY <1>1, <2>1, <2>2
<1>7. CreatorGood(w)'
  BY <1>1, <1>6 DEF CreatorGood, Covers
<1>8. ApproverGood(w)'
  BY <1>1 DEF ApproverGood
<1> QED BY <1>5, <1>7, <1>8 DEF Good

\* An approval reads all the absences it is to cover, and holds its student.
LEMMA ApproverGoodAfter ==
  ASSUME Inv, CoverInv, NEW w \in Workers, NEW e \in Excuses, ApproveLock(w, e)
  PROVE  Good(w)'
<1>1. /\ worker'[w].pc = "check" /\ worker'[w].own = e
      /\ worker'[w].absent = AbsentInScope(e) \X {excuse[e].student}
      /\ UNCHANGED <<absent, unsettled, excuse>>
  BY OwnerFields
<1>2. StudentFree(excuse[e].student)
  BY DEF ApproveLock
<1>3. \A k \in AbsentInScope(e) \X {excuse[e].student} : k \in absent
  BY DEF AbsentInScope
<1>4. ASSUME NEW k \in absent, Covers(e, k[1], k[2])
      PROVE  k \in AbsentInScope(e) \X {excuse[e].student}
  <2>1. k = <<k[1], k[2]>>
    BY DEF Inv, TypeOK
  <2> QED BY <1>4, <2>1 DEF AbsentInScope, Covers
<1>5. ReadGood(w)'
  BY <1>1, <1>3 DEF ReadGood, Known
<1>6. CreatorGood(w)'
  BY <1>1 DEF CreatorGood
<1>7. ApproverGood(w)'
  BY <1>1, <1>2, <1>4 DEF ApproverGood, Covers, StudentFree
<1> QED BY <1>5, <1>6, <1>7 DEF Good

\* What every transaction has read is good after every step.
LEMMA NextGood ==
  ASSUME Inv, CoverInv, [Next]_vars, NEW v \in Workers
  PROVE  Good(v)'
<1>1. ASSUME worker'[v] = worker[v] PROVE Good(v)'
  BY <1>1, UntouchedGood
<1>2. ASSUME NEW w \in Workers, ReconcileWrite(w) \/ ApproveWrite(w) \/ Rollback(w) PROVE Good(v)'
  BY <1>1, <1>2, EndFields, NothingRead
<1>3. ASSUME NEW w \in Workers, NEW S, Reconcile(w, S) PROVE Good(v)'
  BY <1>1, <1>3, StartFields, NothingRead
<1>4. ASSUME NEW w \in Workers, CreateDay(w) PROVE Good(v)'
  <2>1. CASE v # w
    BY <1>1, <1>4, <2>1, DayFields
  <2>2. CASE v = w /\ worker'[w] = Idle
    BY <2>2, NothingRead
  <2>3. CASE v = w /\ UNCHANGED excuse /\ worker'[w].pc = "read"
             /\ worker'[w].own = worker[w].own
             /\ worker'[w].students = {excuse[worker[w].own].student}
    BY <2>3 DEF Good, ReadGood, CreatorGood, ApproverGood
  <2> QED BY <1>4, <2>1, <2>2, <2>3, DayFields
<1>5. ASSUME NEW w \in Workers, ApproveCheck(w) PROVE Good(v)'
  <2>1. CASE v # w
    BY <1>1, <1>5, <2>1, CheckFields
  <2>2. CASE v = w /\ worker'[w] = Idle
    BY <2>2, NothingRead
  <2>3. CASE v = w /\ worker'[w].pc = "approve" /\ worker'[w].own = worker[w].own
             /\ worker'[w].absent = worker[w].absent
    <3>1. /\ worker[w].pc = "check" /\ Good(w) /\ UNCHANGED <<absent, unsettled, excuse>>
      BY <1>5, CheckFields DEF CoverInv
    <3> QED BY <2>3, <3>1 DEF Good, ReadGood, CreatorGood, ApproverGood, Covers, Known
  <2> QED BY <1>5, <2>1, <2>2, <2>3, CheckFields
<1>6. ASSUME NEW w \in Workers, WorkerStep(w) PROVE Good(v)'
  <2>1. ASSUME ReconcileRead(w) PROVE Good(v)'
    BY <1>1, <2>1, ReadFields, ReadGoodAfter
  <2>2. ASSUME ReconcileLock(w) PROVE Good(v)'
    BY <1>1, <2>2, LockFields, LockGoodAfter
  <2> QED BY <1>2, <1>4, <1>5, <1>6, <2>1, <2>2 DEF WorkerStep, DeadlockVictim
<1>7. ASSUME NEW w \in Workers, Request(w) PROVE Good(v)'
  <2>1. ASSUME NEW p \in Periods, NEW S \in SUBSET Students,
               SubmitSession(w, p, S) \/ EditSession(w, p, S)
        PROVE  Good(v)'
    BY <1>3, <2>1 DEF SubmitSession, EditSession
  <2>2. ASSUME NEW e \in Excuses, NEW s \in Students, NEW scope \in SUBSET Periods \ {{}},
               CreateDirect(w, e, s, scope)
        PROVE  Good(v)'
    <3>1. (v # w => worker'[v] = worker[v]) /\ worker'[w].pc = "day"
      BY <2>2, OwnerFields
    <3> QED BY <1>1, <3>1, NothingRead
  <2>3. ASSUME NEW e \in Excuses, ApproveLock(w, e) PROVE Good(v)'
    BY <1>1, <2>3, OwnerFields, ApproverGoodAfter
  <2>4. ASSUME NEW e \in Excuses, CancelExcuse(w, e) PROVE Good(v)'
    <3>1. UNCHANGED worker \/ Reconcile(w, {excuse[e].student})
      BY <2>4 DEF CancelExcuse
    <3> QED BY <1>1, <1>3, <3>1
  <2> QED BY <1>7, <2>1, <2>2, <2>3, <2>4 DEF Request
<1>8. ASSUME NEW w \in Workers, Crash(w) PROVE Good(v)'
  BY <1>2, <1>8 DEF Crash
<1>9. ASSUME NEW e \in Excuses, Office(e) PROVE Good(v)'
  BY <1>1, <1>9 DEF Office, CreatePending, UpdateExcuse, RejectExcuse, PreviewExcuse
<1>10. CASE UNCHANGED vars
  BY <1>1, <1>10 DEF vars
<1> QED BY <1>6, <1>7, <1>8, <1>9, <1>10 DEF Next

\* The lock of the student keeps what is being created apart from the rest.
LEMMA NextApart ==
  ASSUME Inv, CoverInv, [Next]_vars
  PROVE  CreatingApart'
<1> SUFFICES ASSUME NEW e \in Excuses, NEW f \in Excuses, e # f,
                    excuse'[e].status = "CREATING", excuse'[f].student = excuse'[e].student
             PROVE  /\ excuse'[f].status # "CREATING"
                    /\ excuse'[f].status = "APPROVED" => excuse'[e].scope \cap excuse'[f].scope = {}
  BY DEF CreatingApart, Approved
<1>1. Moves(e) /\ Moves(f) /\ excuse[e] \in Excuse /\ excuse[f] \in Excuse
  BY NextMoves, Fields DEF Inv
<1>2. \A g \in Excuses : Moves(g) /\ excuse'[g].status \in {"CREATING", "APPROVED"}
                          => excuse'[g] # [excuse[g] EXCEPT !.status = "CANCELLED"]
  <2> SUFFICES ASSUME NEW g \in Excuses, excuse'[g] = [excuse[g] EXCEPT !.status = "CANCELLED"]
               PROVE  excuse'[g].status = "CANCELLED"
    OBVIOUS
  <2>1. excuse[g] \in Excuse
    BY Fields DEF Inv
  <2> QED BY <2>1, Replaced
<1>3. CASE excuse'[e] # excuse[e]
  <2>1. /\ excuse'[f] = excuse[f]
        /\ excuse[f].status = "CREATING" => excuse[f].student # excuse'[e].student
        /\ Approved(f) /\ excuse[f].student = excuse'[e].student
             => excuse[f].scope \cap excuse'[e].scope = {}
    BY <1>1, <1>2, <1>3 DEF Moves
  <2> QED BY <2>1 DEF Approved
<1>4. CASE excuse'[e] = excuse[e]
  <2>1. excuse[f].student = excuse[e].student =>
          /\ excuse[f].status # "CREATING"
          /\ Approved(f) => excuse[e].scope \cap excuse[f].scope = {}
    BY <1>4 DEF CoverInv, CreatingApart
  <2>2. CASE excuse'[f] = excuse[f]
    BY <1>4, <2>1, <2>2 DEF Approved
  <2>3. CASE excuse'[f].status = "CREATING" /\ excuse'[f] # excuse[f]
    <3>1. excuse[e].status = "CREATING" => excuse[e].student # excuse'[f].student
      BY <1>1, <1>2, <2>3 DEF Moves
    <3> QED BY <1>4, <3>1
  <2>4. CASE excuse'[f].status = "APPROVED" /\ excuse'[f] # excuse[f]
    <3>1. CASE excuse[f].status = "PENDING"
      <4>1. PICK w \in Workers : worker[w].own = f /\ ApproveWrite(w)
        BY <1>1, <1>2, <2>4, <3>1 DEF Moves
      <4>2. excuse[e].student # excuse[f].student
        BY <1>4, <4>1 DEF ApproveWrite, CoverInv, Good, ApproverGood
      <4>3. excuse'[f].student = excuse[f].student
        BY <1>1, <1>2, <2>4, <3>1 DEF Moves, Same
      <4> QED BY <1>4, <4>2, <4>3
    <3>2. CASE excuse[f].status # "PENDING"
      <4>1. excuse[f].status = "CREATING" /\ excuse'[f].student = excuse[f].student
        BY <1>1, <1>2, <2>4, <3>2 DEF Moves, Same
      <4> QED BY <1>4, <2>1, <4>1
    <3> QED BY <3>1, <3>2
  <2> QED BY <2>2, <2>3, <2>4
<1> QED BY <1>3, <1>4

\* A target that covers the absence makes _pick_excuse return one.
LEMMA PickFinds ==
  ASSUME TypeOK, NEW S \in SUBSET Excuses, NEW k \in Pairs, NEW e \in S, Covers(e, k[1], k[2])
  PROVE  PickExcuse(S, k) # Nobody
<1> DEFINE M == {f \in S : Covers(f, k[1], k[2])}
           c == CHOOSE f \in M : \A g \in M : excuse[f].approvedAt <= excuse[g].approvedAt
<1>1. M # {} /\ M \in SUBSET Excuses
  OBVIOUS
<1>2. \E f \in M : \A g \in M : excuse[f].approvedAt <= excuse[g].approvedAt
  BY <1>1, OldestExists
<1>3. c \in M
  BY <1>2
<1>4. PickExcuse(S, k) = c
  BY <1>1 DEF PickExcuse
<1> QED BY <1>1, <1>3, <1>4, NobodyApart

\* What the write of a reconciliation does to the row of one absence.
LEMMA WriteRows ==
  ASSUME Inv, NEW w \in Workers, ReconcileWrite(w), NEW k \in Pairs
  PROVE  /\ coverage'[k].excuse \in {coverage[k].excuse, Nobody} \/ k \in Fresh(w)
         /\ k \in Fresh(w) => coverage'[k].excuse # Nobody
         /\ coverage'[k].excuse = Nobody /\ coverage[k].excuse # Nobody =>
              <<k[1], k[2], coverage[k].row>> \in Gone(w)
         /\ coverage'[k].excuse = Nobody /\ k \in worker[w].absent =>
              \/ \E r \in worker[w].rows : <<r[1], r[2]>> = k
              \/ \A e \in worker[w].targets : ~Covers(e, k[1], k[2])
<1> DEFINE pick == [j \in DOMAIN coverage |-> PickExcuse(worker[w].targets, j)]
           after == Voided(coverage, Gone(w))
           kept == {<<r[1], r[2]>> : r \in worker[w].rows \ Gone(w)}
           new == Fresh(w)
<1>1. coverage' = Created(after, new, pick)
  BY DEF ReconcileWrite
<1>2. worker[w].targets \in SUBSET Excuses /\ worker[w].absent \in SUBSET Pairs /\ TypeOK
  BY Fields DEF Inv
<1>3. coverage \in [Pairs -> Row]
  BY DEF Inv, TypeOK, Pairs
<1>4. \A j \in Pairs : pick[j] = PickExcuse(worker[w].targets, j)
  BY <1>3
<1>5. \A j \in Pairs : j \in new => pick[j] # Nobody
  BY <1>4 DEF Fresh
<1>6. \A j \in Pairs : j \in new => pick[j] \in Excuses
  BY <1>2, <1>4, <1>5, PickMatches
<1>7. /\ after \in [Pairs -> Row]
      /\ \A j \in Pairs : after[j].excuse \in {coverage[j].excuse, Nobody}
  BY <1>3, VoidedRows
<1>8. <<k[1], k[2], coverage[k].row>> \in Gone(w) \/ after[k].excuse = coverage[k].excuse
  BY <1>3 DEF Voided
<1>9. k \in worker[w].absent /\ k \notin kept /\ pick[k] # Nobody /\ after[k].excuse = Nobody
        => k \in new
  BY <1>4 DEF Fresh
<1> HIDE DEF after, pick, new
<1>10. \A j \in Pairs : coverage'[j].excuse = IF j \in new THEN pick[j] ELSE after[j].excuse
  BY <1>1, <1>6, <1>7, CreatedRows
<1>11. ASSUME NEW e \in worker[w].targets, Covers(e, k[1], k[2]) PROVE pick[k] # Nobody
  BY <1>2, <1>4, <1>11, PickFinds
<1>12. coverage'[k].excuse = Nobody => k \notin new /\ after[k].excuse = Nobody
  BY <1>5, <1>10
<1>13. coverage'[k].excuse = Nobody /\ k \in worker[w].absent =>
         \/ \E r \in worker[w].rows : <<r[1], r[2]>> = k
         \/ \A e \in worker[w].targets : ~Covers(e, k[1], k[2])
  BY <1>9, <1>11, <1>12
<1> QED BY <1>5, <1>7, <1>8, <1>10, <1>12, <1>13 DEF new

\* What the write of an approval does to the rows.
LEMMA ApprovalWrites ==
  ASSUME Inv, NEW w \in Workers, ApproveWrite(w)
  PROVE  \/ UNCHANGED <<coverage, excuse>>
         \/ /\ worker[w].own \in Excuses
            /\ \A k \in Pairs : coverage'[k].excuse =
                 IF k \in worker[w].absent THEN worker[w].own ELSE coverage[k].excuse
            /\ \A f \in Excuses : f # worker[w].own => excuse'[f] = excuse[f]
            /\ excuse'[worker[w].own].student = excuse[worker[w].own].student
            /\ excuse'[worker[w].own].scope = excuse[worker[w].own].scope
<1> DEFINE e == worker[w].own
           by == [k \in DOMAIN coverage |-> e]
<1>1. e \in Excuses /\ worker[w].absent \subseteq Pairs
  BY Fields DEF ApproveWrite, Inv, OwnOK
<1>2. coverage \in [Pairs -> Row] /\ excuse \in [Excuses -> Excuse] /\ excuse[e] \in Excuse
  BY <1>1 DEF Inv, TypeOK, Pairs
<1>3. ASSUME coverage' = Created(coverage, worker[w].absent, by), NEW t \in Nat,
             excuse' = [excuse EXCEPT ![e].status = "APPROVED", ![e].approvedAt = t]
      PROVE  /\ \A k \in Pairs : coverage'[k].excuse =
                  IF k \in worker[w].absent THEN e ELSE coverage[k].excuse
             /\ \A f \in Excuses : f # e => excuse'[f] = excuse[f]
             /\ excuse'[e].student = excuse[e].student /\ excuse'[e].scope = excuse[e].scope
  <2>1. \A k \in Pairs : by[k] = e
    BY <1>2
  <2> HIDE DEF by
  <2>2. \A k \in Pairs : coverage'[k].excuse =
                  IF k \in worker[w].absent THEN by[k] ELSE coverage[k].excuse
    BY <1>1, <1>2, <1>3, <2>1, CreatedRows
  <2>3. \A k \in Pairs : coverage'[k].excuse =
                  IF k \in worker[w].absent THEN e ELSE coverage[k].excuse
    BY <2>1, <2>2
  <2>4. \A f \in Excuses : f # e => excuse'[f] = excuse[f]
    BY <1>2, <1>3
  <2>5. excuse'[e] = [excuse[e] EXCEPT !.status = "APPROVED", !.approvedAt = t]
    BY <1>1, <1>2, <1>3
  <2>6. excuse'[e].student = excuse[e].student /\ excuse'[e].scope = excuse[e].scope
    BY <1>2, <2>5, Replaced
  <2> QED BY <2>3, <2>4, <2>6
<1> QED BY <1>1, <1>3, TimesAreNat DEF ApproveWrite

\* A cancellation voids the rows of its excuse, and leaves the others.
LEMMA CancelledRows ==
  ASSUME Inv, NEW w \in Workers, NEW e \in Excuses, CancelExcuse(w, e), NEW k \in Pairs
  PROVE  coverage'[k].excuse = IF coverage[k].excuse = e THEN Nobody ELSE coverage[k].excuse
<1> DEFINE mine == {j \in DOMAIN coverage : coverage[j].excuse = e}
           c(j) == IF j \in mine THEN [coverage[j] EXCEPT !.excuse = Nobody] ELSE coverage[j]
<1>1. coverage \in [Pairs -> Row] /\ coverage[k] \in Row
  BY DEF Inv, TypeOK, Pairs
<1>2. coverage' = [j \in DOMAIN coverage |-> c(j)]
  BY DEF CancelExcuse
<1>3. c(k).excuse = IF coverage[k].excuse = e THEN Nobody ELSE coverage[k].excuse
  BY <1>1 DEF Row
<1> HIDE DEF c
<1>4. coverage'[k] = c(k)
  BY <1>1, <1>2
<1> QED BY <1>3, <1>4

\* An ACTIVE row has the absence it was created for, or that absence was taken back.
LEMMA NextActiveKnown ==
  ASSUME Inv, CoverInv, [Next]_vars
  PROVE  ActiveKnown'
<1> SUFFICES ASSUME NEW k \in Pairs, coverage'[k].excuse # Nobody PROVE k \in Known'
  BY DEF ActiveKnown
<1>1. Known \subseteq Known'
  BY AbsenceMoves DEF AttendanceMoves
<1>2. ASSUME coverage'[k].excuse \in {coverage[k].excuse, Nobody} PROVE k \in Known'
  BY <1>1, <1>2 DEF CoverInv, ActiveKnown
<1>3. ASSUME NEW w \in Workers, worker[w].pc \in {"write", "check", "approve"}, k \in worker[w].absent
      PROVE  k \in Known'
  BY <1>1, <1>3 DEF CoverInv, Good, ReadGood
<1>4. ASSUME UNCHANGED coverage PROVE k \in Known'
  BY <1>2, <1>4
<1>5. ASSUME NEW w \in Workers, WorkerStep(w) PROVE k \in Known'
  <2>1. CASE ReconcileWrite(w)
    <3>1. worker[w].pc = "write"
      BY <2>1 DEF ReconcileWrite
    <3>2. k \in Fresh(w) => k \in worker[w].absent
      BY DEF Fresh
    <3>3. coverage'[k].excuse \in {coverage[k].excuse, Nobody} \/ k \in Fresh(w)
      BY <2>1, WriteRows
    <3> QED BY <1>2, <1>3, <3>1, <3>2, <3>3
  <2>2. CASE ApproveWrite(w)
    <3>1. worker[w].pc = "approve"
      BY <2>2 DEF ApproveWrite
    <3>2. coverage'[k].excuse = coverage[k].excuse \/ k \in worker[w].absent
      BY <2>2, ApprovalWrites
    <3> QED BY <1>2, <1>3, <3>1, <3>2
  <2>3. CASE \/ ReconcileRead(w) \/ ReconcileLock(w) \/ CreateDay(w) \/ ApproveCheck(w)
             \/ DeadlockVictim(w)
    BY <1>4, <2>3 DEF ReconcileRead, ReconcileLock, CreateDay, ApproveCheck, DeadlockVictim, Rollback
  <2> QED BY <1>5, <2>1, <2>2, <2>3 DEF WorkerStep
<1>6. ASSUME NEW w \in Workers, Request(w) PROVE k \in Known'
  <2>1. ASSUME NEW p \in Periods, NEW S \in SUBSET Students,
               SubmitSession(w, p, S) \/ EditSession(w, p, S)
        PROVE  k \in Known'
    BY <1>4, <2>1 DEF SubmitSession, EditSession
  <2>2. ASSUME NEW e \in Excuses, NEW s \in Students, NEW scope \in SUBSET Periods \ {{}},
               CreateDirect(w, e, s, scope)
        PROVE  k \in Known'
    BY <1>4, <2>2, OwnerFields
  <2>3. ASSUME NEW e \in Excuses, ApproveLock(w, e) PROVE k \in Known'
    BY <1>4, <2>3, OwnerFields
  <2>4. ASSUME NEW e \in Excuses, CancelExcuse(w, e) PROVE k \in Known'
    <3>1. coverage'[k].excuse \in {coverage[k].excuse, Nobody}
      BY <2>4, CancelledRows
    <3> QED BY <1>2, <3>1
  <2> QED BY <1>6, <2>1, <2>2, <2>3, <2>4 DEF Request
<1>7. ASSUME NEW w \in Workers, Crash(w) PROVE k \in Known'
  BY <1>4, <1>7 DEF Crash, Rollback
<1>8. ASSUME NEW e \in Excuses, Office(e) PROVE k \in Known'
  BY <1>4, <1>8 DEF Office, CreatePending, UpdateExcuse, RejectExcuse, PreviewExcuse
<1>9. CASE UNCHANGED vars
  BY <1>4, <1>9 DEF vars
<1> QED BY <1>5, <1>6, <1>7, <1>8, <1>9 DEF Next

\* What was owed and is not done stays on the way of the request that has it, unless
\* that request takes the step.
LEMMA StaysOnTheWay ==
  ASSUME CoverInv, NEW w \in Workers, \A v \in Workers : v # w => worker'[v] = worker[v],
         NEW k \in Pairs, NEW e \in Excuses, Owed(k, e),
         OnItsWay(w, k, e) => OnItsWay(w, k, e)'
  PROVE  \E v \in Workers : OnItsWay(v, k, e)'
<1>1. PICK v \in Workers : OnItsWay(v, k, e)
  BY DEF CoverInv, Promised
<1>2. v # w => OnItsWay(v, k, e)'
  BY <1>1 DEF OnItsWay
<1> QED BY <1>1, <1>2

\* An absence that stands and did not before is a new one.
LEMMA StoodBefore ==
  ASSUME Inv, [Next]_vars, NEW k, k \in Stood'
  PROVE  k \in Stood \/ (k \in absent' /\ k \notin absent)
BY AbsenceMoves DEF AttendanceMoves, Stood

\* A commit makes the excuse of its own transaction APPROVED, and no other.
LEMMA CommitApproves ==
  ASSUME Inv, NEW w \in Workers, worker[w].pc \in {"day", "read", "write"},
         worker' = [worker EXCEPT ![w] = Idle], excuse' = Committed(w, excuse),
         NEW e \in Excuses, Approved(e)'
  PROVE  Approved(e) \/ (e = worker[w].own /\ excuse[e].status = "CREATING")
<1>1. OwnOK(w) /\ excuse \in [Excuses -> Excuse] /\ worker[w].own \in Excuses \cup {Nobody}
  BY Fields DEF Inv, TypeOK
<1>2. CASE e = worker[w].own
  BY <1>1, <1>2, NobodyApart DEF OwnOK
<1>3. CASE e # worker[w].own
  <2>1. excuse'[e] = excuse[e]
    BY <1>1, <1>3 DEF Committed
  <2> QED BY <2>1 DEF Approved
<1> QED BY <1>2, <1>3

\* ReconcileRead gives up only what it does not owe, and what it lists it owes.
LEMMA ReadPromises ==
  ASSUME Inv, CoverInv, NEW w \in Workers, ReconcileRead(w),
         NEW k \in Pairs, NEW e \in Excuses, Owed(k, e)'
  PROVE  \E v \in Workers : OnItsWay(v, k, e)'
<1>1. /\ worker[w].pc = "read" /\ UNCHANGED <<absent, unsettled, coverage>>
      /\ \A v \in Workers : v # w => worker'[v] = worker[v]
  BY ReadFields
<1>2. CASE Concerned(w) = {} /\ worker' = [worker EXCEPT ![w] = Idle] /\ excuse' = Committed(w, excuse)
  <2>1. Covers(e, k[1], k[2])
    BY <1>1, <1>2, CommitKeeps DEF Owed
  <2>2. ASSUME e = worker[w].own PROVE FALSE
    <3>1. e # Nobody /\ e \in Visible(w) /\ excuse[e].student \in worker[w].students
      BY <1>1, <2>2, NobodyApart DEF Visible, CoverInv, Good, CreatorGood
    <3> QED BY <1>2, <3>1 DEF Concerned
  <2>3. Owed(k, e) /\ e \in Visible(w)
    BY <1>1, <1>2, <2>1, <2>2, CommitApproves DEF Owed, Stood, Visible
  <2>4. ~OnItsWay(w, k, e)
    <3>1. k[2] \in worker[w].students => k[2] \in Concerned(w)
      BY <2>1, <2>3 DEF Concerned, Covers
    <3> QED BY <1>2, <3>1 DEF OnItsWay
  <2> QED BY <1>1, <2>3, <2>4, StaysOnTheWay
<1>3. CASE /\ UNCHANGED excuse
           /\ worker'[w].pc = "lock" /\ worker'[w].own = worker[w].own
           /\ worker'[w].students = Concerned(w)
           /\ worker'[w].targets = Visible(w) /\ worker'[w].rows = ActiveRows
  <2>1. Owed(k, e)
    BY <1>1, <1>3 DEF Owed, Stood, Approved, Covers
  <2>2. e \in Visible(w) /\ k[2] = excuse[e].student
    BY <2>1 DEF Owed, Visible, Covers
  <2>3. \A r \in ActiveRows : <<r[1], r[2]>> # k
    <3> SUFFICES ASSUME NEW r \in ActiveRows, <<r[1], r[2]>> = k PROVE FALSE
      OBVIOUS
    <3>1. PICK j \in Pairs : r = <<j[1], j[2], coverage[j].row>> /\ coverage[j].excuse # Nobody
      BY DEF ActiveRows, Inv, TypeOK, Pairs
    <3>2. j = k
      BY <3>1 DEF Pairs
    <3> QED BY <2>1, <3>1, <3>2 DEF Owed
  <2>4. k[2] \in worker[w].students => k[2] \in Concerned(w)
    BY <2>2 DEF Concerned
  <2>5. OnItsWay(w, k, e) => OnItsWay(w, k, e)'
    BY <1>3, <2>2, <2>3, <2>4 DEF OnItsWay
  <2> QED BY <1>1, <2>1, <2>5, StaysOnTheWay
<1> QED BY <1>2, <1>3, ReadFields

\* ReconcileLock keeps the excuses that are still APPROVED, and finds the absence.
LEMMA LockPromises ==
  ASSUME Inv, CoverInv, NEW w \in Workers, ReconcileLock(w),
         NEW k \in Pairs, NEW e \in Excuses, Owed(k, e)'
  PROVE  \E v \in Workers : OnItsWay(v, k, e)'
<1>1. /\ worker[w].pc = "lock" /\ UNCHANGED <<absent, unsettled, excuse, coverage>>
      /\ \A v \in Workers : v # w => worker'[v] = worker[v]
      /\ worker'[w].pc = "write" /\ worker'[w].own = worker[w].own
      /\ worker'[w].students = worker[w].students /\ worker'[w].rows = worker[w].rows
      /\ worker'[w].targets = StillApproved(w)
      /\ worker'[w].absent = {j \in absent : j[2] \in worker[w].students}
  BY LockFields
<1>2. Owed(k, e)
  BY <1>1 DEF Owed, Stood, Approved, Covers
<1>3. k \in absent /\ (e \in worker[w].targets => e \in StillApproved(w))
  BY <1>2 DEF Owed, Stood, StillApproved, Visible
<1>4. OnItsWay(w, k, e) => OnItsWay(w, k, e)'
  BY <1>1, <1>3 DEF OnItsWay
<1> QED BY <1>1, <1>2, <1>4, StaysOnTheWay

\* ReconcileWrite creates what it owes, and voids no row of an absence that stands.
LEMMA WritePromises ==
  ASSUME Inv, CoverInv, NEW w \in Workers, ReconcileWrite(w),
         NEW k \in Pairs, NEW e \in Excuses, Owed(k, e)'
  PROVE  \E v \in Workers : OnItsWay(v, k, e)'
<1>1. /\ worker[w].pc = "write" /\ UNCHANGED <<absent, unsettled>>
      /\ worker' = [worker EXCEPT ![w] = Idle] /\ excuse' = Committed(w, excuse)
      /\ \A v \in Workers : v # w => worker'[v] = worker[v]
  BY EndFields DEF ReconcileWrite, attendance
<1>2. k \in Stood /\ k \in absent /\ coverage'[k].excuse = Nobody
  BY <1>1 DEF Owed, Stood
<1>3. Covers(e, k[1], k[2])
  BY <1>1, CommitKeeps DEF Owed
<1>4. coverage[k].excuse = Nobody
  <2> SUFFICES ASSUME <<k[1], k[2], coverage[k].row>> \in Gone(w) PROVE FALSE
    BY <1>2, WriteRows
  <2> DEFINE r == <<k[1], k[2], coverage[k].row>>
  <2>1. /\ r \in worker[w].rows /\ r[2] \in worker[w].students
        /\ <<r[1], r[2]>> \notin worker[w].absent
    BY DEF Gone
  <2>2. <<r[1], r[2]>> = k
    BY DEF Pairs
  <2>3. ReadGood(w)
    BY DEF CoverInv, Good
  <2> HIDE DEF r
  <2> QED BY <1>1, <1>2, <2>1, <2>2, <2>3 DEF ReadGood
<1>5. ASSUME k \in worker[w].absent, e \in worker[w].targets,
             \A r \in worker[w].rows : <<r[1], r[2]>> # k
      PROVE  FALSE
  BY <1>2, <1>3, <1>5, WriteRows
<1>6. CASE e = worker[w].own
  <2>1. CreatorGood(w) /\ e # Nobody
    BY NobodyApart DEF CoverInv, Good
  <2>2. /\ e \in worker[w].targets
        /\ \A r \in worker[w].rows : ~Covers(e, r[1], r[2])
        /\ \A j \in absent : j[2] = excuse[e].student => j \in worker[w].absent
    BY <1>1, <1>6, <2>1 DEF CreatorGood
  <2>3. k \in worker[w].absent
    BY <1>2, <1>3, <2>2 DEF Covers
  <2>4. ASSUME NEW r \in worker[w].rows, <<r[1], r[2]>> = k PROVE FALSE
    <3>1. r[1] = k[1] /\ r[2] = k[2]
      BY <2>4
    <3> QED BY <1>3, <2>2, <3>1
  <2> QED BY <1>5, <2>2, <2>3, <2>4
<1>7. CASE e # worker[w].own
  <2>1. Owed(k, e)
    BY <1>1, <1>2, <1>3, <1>4, <1>7, CommitApproves DEF Owed
  <2>2. ~OnItsWay(w, k, e)
    BY <1>1, <1>5 DEF OnItsWay
  <2> QED BY <1>1, <2>1, <2>2, StaysOnTheWay
<1> QED BY <1>6, <1>7

\* A creation that finds no absence owes nothing.
LEMMA DayPromises ==
  ASSUME Inv, CoverInv, NEW w \in Workers, CreateDay(w),
         NEW k \in Pairs, NEW e \in Excuses, Owed(k, e)'
  PROVE  \E v \in Workers : OnItsWay(v, k, e)'
<1>1. /\ worker[w].pc = "day" /\ UNCHANGED <<absent, unsettled, coverage>>
      /\ \A v \in Workers : v # w => worker'[v] = worker[v]
  BY DayFields
<1>2. ~OnItsWay(w, k, e)
  BY <1>1 DEF OnItsWay
<1>3. CASE UNCHANGED excuse
  <2>1. Owed(k, e)
    BY <1>1, <1>3 DEF Owed, Stood, Approved, Covers
  <2> QED BY <1>1, <1>2, <2>1, StaysOnTheWay
<1>4. CASE /\ \A p \in Periods : <<p, excuse[worker[w].own].student>> \notin absent
           /\ worker' = [worker EXCEPT ![w] = Idle] /\ excuse' = Committed(w, excuse)
  <2>1. Covers(e, k[1], k[2])
    BY <1>1, <1>4, CommitKeeps DEF Owed
  <2>2. k \in absent /\ k = <<k[1], k[2]>> /\ k[1] \in Periods
    BY <1>1 DEF Owed, Stood, Pairs
  <2>3. e # worker[w].own
    BY <1>4, <2>1, <2>2 DEF Covers
  <2>4. Owed(k, e)
    BY <1>1, <1>4, <2>1, <2>3, CommitApproves DEF Owed, Stood
  <2> QED BY <1>1, <1>2, <2>4, StaysOnTheWay
<1> QED BY <1>3, <1>4, DayFields

\* An approval creates all that its excuse owes.
LEMMA ApprovePromises ==
  ASSUME Inv, CoverInv, NEW w \in Workers, ApproveWrite(w),
         NEW k \in Pairs, NEW e \in Excuses, Owed(k, e)'
  PROVE  \E v \in Workers : OnItsWay(v, k, e)'
<1>1. /\ worker[w].pc = "approve" /\ UNCHANGED <<absent, unsettled>>
      /\ \A v \in Workers : v # w => worker'[v] = worker[v]
  BY EndFields DEF ApproveWrite, attendance
<1>2. ~OnItsWay(w, k, e)
  BY <1>1 DEF OnItsWay
<1>3. CASE UNCHANGED <<coverage, excuse>>
  <2>1. Owed(k, e)
    BY <1>1, <1>3 DEF Owed, Stood, Approved, Covers
  <2> QED BY <1>1, <1>2, <2>1, StaysOnTheWay
<1>4. CASE /\ worker[w].own \in Excuses
           /\ \A j \in Pairs : coverage'[j].excuse =
                IF j \in worker[w].absent THEN worker[w].own ELSE coverage[j].excuse
           /\ \A f \in Excuses : f # worker[w].own => excuse'[f] = excuse[f]
           /\ excuse'[worker[w].own].student = excuse[worker[w].own].student
           /\ excuse'[worker[w].own].scope = excuse[worker[w].own].scope
  <2>1. k \notin worker[w].absent /\ coverage[k].excuse = Nobody
    BY <1>4, NobodyApart DEF Owed
  <2>2. Covers(e, k[1], k[2]) /\ k \in Stood /\ k \in absent
    BY <1>1, <1>4 DEF Owed, Covers, Stood
  <2>3. e # worker[w].own
    BY <1>1, <2>1, <2>2 DEF CoverInv, Good, ApproverGood
  <2>4. Owed(k, e)
    BY <1>4, <2>1, <2>2, <2>3 DEF Owed, Approved
  <2> QED BY <1>1, <1>2, <2>4, StaysOnTheWay
<1> QED BY <1>3, <1>4, ApprovalWrites

\* A change of the attendance puts its own reconciliation on the way to what it adds.
LEMMA ChangePromises ==
  ASSUME Inv, CoverInv, [Next]_vars, NEW w \in Workers, NEW p \in Periods, NEW S \in SUBSET Students,
         SubmitSession(w, p, S) \/ EditSession(w, p, S),
         NEW k \in Pairs, NEW e \in Excuses, Owed(k, e)'
  PROVE  \E v \in Workers : OnItsWay(v, k, e)'
<1> DEFINE old == {s \in Students : <<p, s>> \in absent}
<1>1. worker[w].pc = "idle" /\ UNCHANGED <<excuse, coverage>>
  BY DEF SubmitSession, EditSession
<1>2. PICK T \in SUBSET Students : Reconcile(w, T)
        /\ \A j \in absent' : j \notin absent => j[2] \in T
  <2>1. CASE SubmitSession(w, p, S)
    <3>1. Reconcile(w, Students) /\ absent' = absent \cup ({p} \X S)
      BY <2>1 DEF SubmitSession
    <3> QED BY <3>1
  <2>2. CASE EditSession(w, p, S)
    <3>1. /\ Reconcile(w, Changed(old, S))
          /\ absent' = (absent \ ({p} \X Students)) \cup ({p} \X S)
      BY <2>2 DEF EditSession
    <3>2. ASSUME NEW j \in absent', j \notin absent PROVE j[2] \in Changed(old, S)
      <4>1. j \in {p} \X S
        BY <3>1, <3>2
      <4>2. j = <<p, j[2]>> /\ j[2] \in S
        BY <4>1
      <4> QED BY <3>2, <4>2 DEF Changed
    <3>3. Changed(old, S) \in SUBSET Students
      BY DEF Changed
    <3> QED BY <3>1, <3>2, <3>3
  <2> QED BY <2>1, <2>2
<1>3. /\ \A v \in Workers : v # w => worker'[v] = worker[v]
      /\ worker'[w].pc = "read" /\ worker'[w].own = Nobody /\ worker'[w].students = T
  BY <1>2, StartFields
<1>4. CASE k \in Stood
  <2>1. Owed(k, e)
    BY <1>1, <1>4 DEF Owed, Approved, Covers
  <2>2. ~OnItsWay(w, k, e)
    BY <1>1 DEF OnItsWay
  <2> QED BY <1>3, <2>1, <2>2, StaysOnTheWay
<1>5. CASE k \notin Stood
  <2>1. k \in absent' /\ k \notin absent
    BY <1>5, StoodBefore DEF Owed
  <2>2. k[2] \in T
    BY <1>2, <2>1
  <2> QED BY <1>3, <2>2 DEF OnItsWay
<1> QED BY <1>4, <1>5

\* A cancellation puts its reconciliation on the way to the absences whose rows it voids.
LEMMA CancelPromises ==
  ASSUME Inv, CoverInv, NEW w \in Workers, NEW f \in Excuses, CancelExcuse(w, f),
         NEW k \in Pairs, NEW e \in Excuses, Owed(k, e)'
  PROVE  \E v \in Workers : OnItsWay(v, k, e)'
<1>1. worker[w].pc = "idle" /\ UNCHANGED <<absent, unsettled>>
  BY DEF CancelExcuse, attendance
<1>2. excuse[f] \in Excuse /\ excuse \in [Excuses -> Excuse]
  BY DEF Inv, TypeOK
<1>3. excuse' = [excuse EXCEPT ![f].status = "CANCELLED"]
  BY DEF CancelExcuse
<1>4. excuse'[f] = [excuse[f] EXCEPT !.status = "CANCELLED"]
      /\ \A g \in Excuses : g # f => excuse'[g] = excuse[g]
  BY <1>2, <1>3
<1>5. ~Approved(f)'
  <2>1. excuse'[f].status = "CANCELLED"
    BY <1>2, <1>4, Replaced
  <2> QED BY <2>1 DEF Approved
<1>6. e # f /\ k \in Stood /\ Approved(e) /\ Covers(e, k[1], k[2])
  BY <1>1, <1>4, <1>5 DEF Owed, Stood, Approved, Covers
<1>7. coverage'[k].excuse = Nobody /\ (coverage[k].excuse = Nobody \/ coverage[k].excuse = f)
  BY CancelledRows DEF Owed
<1>8. CASE coverage[k].excuse = f
  <2>1. k[2] = excuse[f].student
    BY <1>8, NobodyApart DEF Inv, Backed, Covers
  <2>2. Reconcile(w, {excuse[f].student})
    BY <1>8 DEF CancelExcuse, Inv, TypeOK, Pairs
  <2>3. worker'[w].pc = "read" /\ worker'[w].own = Nobody /\ worker'[w].students = {excuse[f].student}
    BY <2>2, StartFields
  <2> QED BY <2>1, <2>3 DEF OnItsWay
<1>9. CASE coverage[k].excuse = Nobody
  <2>1. Owed(k, e) /\ ~OnItsWay(w, k, e)
    BY <1>1, <1>6, <1>9 DEF Owed, OnItsWay
  <2>2. \A v \in Workers : v # w => worker'[v] = worker[v]
    <3>1. UNCHANGED worker \/ Reconcile(w, {excuse[f].student})
      BY DEF CancelExcuse
    <3> QED BY <3>1, StartFields
  <2> QED BY <2>1, <2>2, StaysOnTheWay
<1> QED BY <1>7, <1>8, <1>9

\* A rollback gives up uncovered absences of its own students only.
LEMMA RollbackPromises ==
  ASSUME Inv, CoverInv, NEW w \in Workers, Rollback(w),
         NEW k \in Pairs, NEW e \in Excuses, Owed(k, e)'
  PROVE  \E v \in Workers : OnItsWay(v, k, e)'
<1>1. /\ UNCHANGED <<absent, coverage>>
      /\ unsettled' = unsettled \cup {j \in absent :
           worker[w].own = Nobody /\ j[2] \in worker[w].students /\ coverage[j].excuse = Nobody}
      /\ \A v \in Workers : v # w => worker'[v] = worker[v]
  BY EndFields DEF Rollback
<1>2. excuse'[e] = excuse[e]
  BY DEF Rollback, Owed, Approved, NoExcuse
<1>3. Owed(k, e) /\ k \notin unsettled'
  BY <1>1, <1>2 DEF Owed, Stood, Approved, Covers
<1>4. ~OnItsWay(w, k, e)
  BY <1>1, <1>3 DEF OnItsWay, Owed, Stood
<1> QED BY <1>1, <1>3, <1>4, StaysOnTheWay

\* A step that adds no absence, approval or hole leaves everything on its way.
LEMMA QuietPromises ==
  ASSUME CoverInv, NEW w \in Workers, \A v \in Workers : v # w => worker'[v] = worker[v],
         worker[w].pc \notin {"read", "lock", "write"} \/ worker'[w] = worker[w],
         UNCHANGED <<absent, unsettled, coverage>>,
         NEW k \in Pairs, NEW e \in Excuses, Owed(k, e)',
         excuse'[e] = excuse[e]
  PROVE  \E v \in Workers : OnItsWay(v, k, e)'
<1>1. Owed(k, e)
  BY DEF Owed, Stood, Approved, Covers
<1>2. OnItsWay(w, k, e) => OnItsWay(w, k, e)'
  BY DEF OnItsWay
<1> QED BY <1>1, <1>2, StaysOnTheWay

\* Whatever is owed after a step has a request on its way.
LEMMA NextPromised ==
  ASSUME Inv, CoverInv, [Next]_vars
  PROVE  Promised'
<1> SUFFICES ASSUME NEW k \in Pairs, NEW e \in Excuses, Owed(k, e)'
             PROVE  \E v \in Workers : OnItsWay(v, k, e)'
  BY DEF Promised
<1>1. ASSUME NEW w \in Workers, WorkerStep(w) PROVE \E v \in Workers : OnItsWay(v, k, e)'
  <2>1. CASE ApproveCheck(w)
    <3>1. /\ worker[w].pc = "check" /\ UNCHANGED <<absent, unsettled, excuse, coverage>>
          /\ \A v \in Workers : v # w => worker'[v] = worker[v]
      BY <2>1, CheckFields
    <3> QED BY <3>1, QuietPromises
  <2> QED BY <1>1, <2>1, ReadPromises, LockPromises, WritePromises, DayPromises, ApprovePromises,
             RollbackPromises
          DEF WorkerStep, DeadlockVictim
<1>2. ASSUME NEW w \in Workers, Request(w) PROVE \E v \in Workers : OnItsWay(v, k, e)'
  <2>1. ASSUME NEW p \in Periods, NEW S \in SUBSET Students,
               SubmitSession(w, p, S) \/ EditSession(w, p, S)
        PROVE  \E v \in Workers : OnItsWay(v, k, e)'
    BY <2>1, ChangePromises
  <2>2. ASSUME NEW f \in Excuses, NEW s \in Students, NEW scope \in SUBSET Periods \ {{}},
               CreateDirect(w, f, s, scope)
        PROVE  \E v \in Workers : OnItsWay(v, k, e)'
    <3>1. /\ worker[w].pc = "idle" /\ UNCHANGED <<absent, unsettled, coverage>>
          /\ \A v \in Workers : v # w => worker'[v] = worker[v]
      BY <2>2, OwnerFields
    <3>2. excuse'[e] = excuse[e]
      BY <2>2 DEF CreateDirect, Owed, Approved, Inv, TypeOK
    <3> QED BY <3>1, <3>2, QuietPromises
  <2>3. ASSUME NEW f \in Excuses, ApproveLock(w, f)
        PROVE  \E v \in Workers : OnItsWay(v, k, e)'
    <3>1. /\ worker[w].pc = "idle" /\ UNCHANGED <<absent, unsettled, excuse, coverage>>
          /\ \A v \in Workers : v # w => worker'[v] = worker[v]
      BY <2>3, OwnerFields
    <3> QED BY <3>1, QuietPromises
  <2>4. ASSUME NEW f \in Excuses, CancelExcuse(w, f)
        PROVE  \E v \in Workers : OnItsWay(v, k, e)'
    BY <2>4, CancelPromises
  <2> QED BY <1>2, <2>1, <2>2, <2>3, <2>4 DEF Request
<1>3. ASSUME NEW w \in Workers, Crash(w) PROVE \E v \in Workers : OnItsWay(v, k, e)'
  BY <1>3, RollbackPromises DEF Crash
<1>4. ASSUME UNCHANGED <<absent, unsettled, coverage, worker>>, excuse'[e] = excuse[e]
      PROVE  \E v \in Workers : OnItsWay(v, k, e)'
  <2>1. Owed(k, e)
    BY <1>4 DEF Owed, Stood, Approved, Covers
  <2>2. PICK v \in Workers : OnItsWay(v, k, e)
    BY <2>1 DEF CoverInv, Promised
  <2> QED BY <1>4, <2>2 DEF OnItsWay
<1>5. ASSUME NEW f \in Excuses, Office(f) PROVE \E v \in Workers : OnItsWay(v, k, e)'
  <2>1. UNCHANGED <<absent, unsettled, coverage, worker>>
    BY <1>5 DEF Office, CreatePending, UpdateExcuse, RejectExcuse, PreviewExcuse, attendance
  <2>2. excuse'[e] = excuse[e]
    <3>1. excuse[e] \in Excuse /\ excuse'[e].status = "APPROVED" /\ excuse \in [Excuses -> Excuse]
      BY Fields DEF Inv, TypeOK, Owed, Approved
    <3>2. ASSUME NEW s \in Students, NEW scope \in SUBSET Periods \ {{}}, CreatePending(f, s, scope)
          PROVE  excuse'[e] = excuse[e]
      BY <3>1, <3>2 DEF CreatePending, NoExcuse
    <3>3. ASSUME NEW scope \in SUBSET Periods \ {{}}, UpdateExcuse(f, scope)
          PROVE  excuse'[e] = excuse[e]
      <4>1. excuse' = [excuse EXCEPT ![f].scope = scope] /\ excuse[f].status = "PENDING"
        BY <3>3 DEF UpdateExcuse
      <4>2. e = f => excuse'[e] = [excuse[e] EXCEPT !.scope = scope]
        BY <3>1, <4>1
      <4>3. e # f
        BY <3>1, <4>1, <4>2, Replaced
      <4> QED BY <3>1, <4>1, <4>3
    <3>4. ASSUME RejectExcuse(f) PROVE excuse'[e] = excuse[e]
      <4>1. excuse' = [excuse EXCEPT ![f].status = "REJECTED"]
        BY <3>4 DEF RejectExcuse
      <4>2. e = f => excuse'[e] = [excuse[e] EXCEPT !.status = "REJECTED"]
        BY <3>1, <4>1
      <4>3. [excuse[e] EXCEPT !.status = "REJECTED"].status = "REJECTED"
        BY <3>1 DEF Excuse
      <4>4. e # f
        BY <3>1, <4>2, <4>3
      <4> QED BY <3>1, <4>1, <4>4
    <3>5. ASSUME PreviewExcuse(f) PROVE excuse'[e] = excuse[e]
      BY <3>5 DEF PreviewExcuse
    <3> QED BY <1>5, <3>2, <3>3, <3>4, <3>5 DEF Office
  <2> QED BY <1>4, <2>1, <2>2
<1>6. CASE UNCHANGED vars
  BY <1>4, <1>6 DEF vars
<1> QED BY <1>1, <1>2, <1>3, <1>5, <1>6 DEF Next

\* At first there is no absence and no coverage.
LEMMA InitCover == Init => CoverInv
<1> SUFFICES ASSUME Init PROVE CoverInv
  OBVIOUS
<1>1. \A w \in Workers : worker[w] = Idle
  BY DEF Init
<1>2. \A w \in Workers : Good(w)
  BY <1>1 DEF Good, ReadGood, CreatorGood, ApproverGood, Idle
<1>3. CreatingApart
  BY DEF Init, CreatingApart, NoExcuse
<1>4. ActiveKnown
  BY DEF Init, ActiveKnown, Pairs
<1>5. Promised
  BY DEF Init, Promised, Owed, Stood
<1> QED BY <1>2, <1>3, <1>4, <1>5 DEF CoverInv

\* Every step keeps what the coverage of absences rests on.
LEMMA CoverStep == Inv /\ CoverInv /\ [Next]_vars => CoverInv'
BY NextGood, NextApart, NextActiveKnown, NextPromised DEF CoverInv

\* When all requests have ended, every absence that an approved excuse targets is
\* covered, in whatever order the attendance, the excuses and their reconciliations
\* came, unless it was taken back and recorded again while another request was under
\* way, or left uncovered by a reconciliation that was rolled back.
THEOREM AbsencesCovered == Spec => []QuietAbsenceCovered
<1>1. Inv /\ CoverInv => QuietAbsenceCovered
  <2> SUFFICES ASSUME Inv, CoverInv, Quiet, NEW k \in absent \ unsettled, NEW e \in Excuses,
                      Approved(e), Covers(e, k[1], k[2]), coverage[k].excuse = Nobody
               PROVE  FALSE
    BY DEF QuietAbsenceCovered
  <2>1. k \in Pairs /\ Owed(k, e)
    BY DEF Inv, TypeOK, Pairs, Owed, Stood
  <2>2. PICK w \in Workers : OnItsWay(w, k, e)
    BY <2>1 DEF CoverInv, Promised
  <2> QED BY <2>2 DEF Quiet, OnItsWay
<1>2. Inv /\ CoverInv /\ [Next]_vars => Inv' /\ CoverInv'
  BY NextInv, CoverStep
<1> QED BY InitInv, InitCover, <1>1, <1>2, PTL DEF Spec
=============================================================================
