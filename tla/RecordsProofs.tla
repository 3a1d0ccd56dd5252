---------------------------- MODULE RecordsProofs ----------------------------
(***************************************************************************)
(* Proofs about the warnings and their documents, the daily summary rows,  *)
(* the contracts of a school and the cached entitlements: for each an      *)
(* inductive strengthening of its invariant, the invariant, and what no    *)
(* step undoes; at the end the same for the composition of MCRecords.      *)
(***************************************************************************)
EXTENDS MCRecords, WarningDocuments, TLAPS, SequenceTheorems, FiniteSetTheorems

-----------------------------------------------------------------------------
(* The warnings.                                                            *)

\* A save of the rules holds what it has read. What a recalculation has seen was issued, and
\* what it saw and is issued still is what it locked.
WorkerGood(r) ==
  /\ r.pc = "rules" => r.old = {rules} /\ \E new \in Rules : r.new = {new}
  /\ r.pc \in {"levels", "metric", "insert"} => r.level \in Levels
  /\ r.pc \in {"lock", "commit"} => \A i \in r.seen : warning[i].status # "NONE"
  /\ r.pc = "commit" => r.seen \cap Issued \subseteq r.locked /\ r.locked \subseteq r.seen

\* One save of the rules at a time; the rest is what the runs check.
WarningsInductive ==
  /\ TypeOK /\ WarningsInvariant
  /\ \A w \in Workers : WorkerGood(worker[w])
  /\ \A w, v \in Workers : worker[w].pc = "rules" /\ worker[v].pc = "rules" => w = v

\* An issued warning keeps what it said, and VOIDED is final.
RowsKept ==
  \A i \in Warnings :
    warning[i].status # "NONE"
      => /\ warning'[i] = [warning[i] EXCEPT !.status = warning'[i].status]
         /\ warning'[i].status \in {warning[i].status, "VOIDED"}

\* A correction leaves no warning that it saw below its threshold.
StaysSupported ==
  \A i \in Issued :
    /\ Supported(i)
    /\ \A w \in Workers : worker[w].pc \in {"lock", "commit"} => i \in worker[w].seen
    => i \notin Issued' \/ Supported(i)'

\* The empty rows have their types.
LEMMA WarningRows == NoWarning \in Warning /\ Idle \in Worker
<1>1. 0 \in 0..NumLevels
  BY BoundsNat
<1> QED BY <1>1 DEF NoWarning, Idle, Warning, Worker

\* No warnings and the default rules.
LEMMA WarningsStart == Init => WarningsInductive
<1> SUFFICES ASSUME Init PROVE WarningsInductive
  OBVIOUS
<1>1. /\ counted = {} /\ rules = [levels |-> DefaultThresholds, enabled |-> TRUE]
      /\ warning = [i \in Warnings |-> NoWarning] /\ worker = [w \in Workers |-> Idle]
  BY DEF Init
<1>2. TypeOK
  <2>1. rules \in [levels: [Levels -> 1..MaxThreshold], enabled: BOOLEAN]
    BY <1>1, DefaultsValid DEF ValidThresholds
  <2>2. warning \in [Warnings -> Warning] /\ worker \in [Workers -> Worker]
    BY <1>1, WarningRows
  <2> QED BY <1>1, <2>1, <2>2 DEF TypeOK
<1>3. RulesAscend
  <2>1. rules.levels = DefaultThresholds
    BY <1>1
  <2> QED BY <2>1, DefaultsValid DEF ValidThresholds, RulesAscend
<1>4. OneIssuedPerLevel
  BY <1>1 DEF OneIssuedPerLevel, Issued, NoWarning
<1>5. \A w \in Workers : worker[w].pc = "idle"
  BY <1>1 DEF Idle
<1> QED BY <1>2, <1>3, <1>4, <1>5 DEF WarningsInductive, WarningsInvariant, WorkerGood

\* The rows of the warnings go on, and nobody but a save of the rules writes these: then a
\* request that takes no step keeps what it relies on.
LEMMA WorkerKeeps ==
  ASSUME WarningsInductive, NEW u \in Workers, worker'[u] = worker[u], RowsKept,
         rules' = rules \/ worker[u].pc # "rules"
  PROVE  WorkerGood(worker[u])'
<1>1. WorkerGood(worker[u]) /\ warning \in [Warnings -> Warning] /\ worker[u] \in Worker
  BY DEF WarningsInductive, TypeOK
<1>2. worker[u].seen \subseteq Warnings
  BY <1>1 DEF Worker
<1>3. \A i \in Warnings : warning[i].status # "NONE" =>
        warning'[i].status # "NONE" /\ (i \in Issued' => i \in Issued)
  BY <1>1 DEF RowsKept, Issued, Warning
<1>4. worker[u].pc = "rules" => worker[u].old = {rules'} /\ \E new \in Rules : worker[u].new = {new}
  BY <1>1 DEF WorkerGood
<1>5. worker[u].pc \in {"lock", "commit"} => \A i \in worker[u].seen : warning'[i].status # "NONE"
  BY <1>1, <1>2, <1>3 DEF WorkerGood
<1>6. worker[u].pc = "commit" =>
        worker[u].seen \cap Issued' \subseteq worker[u].locked /\ worker[u].locked \subseteq worker[u].seen
  BY <1>1, <1>2, <1>3 DEF WorkerGood
<1> QED BY <1>1, <1>4, <1>5, <1>6 DEF WorkerGood

\* One request takes the step.
LEMMA WorkerMoves ==
  ASSUME WarningsInductive, NEW w \in Workers, NEW new \in Worker, worker' = [worker EXCEPT ![w] = new],
         counted' \in SUBSET Days, warning' \in [Warnings -> Warning], rules' \in Rules,
         rules' = rules \/ worker[w].pc = "rules", RowsKept, OneIssuedPerLevel',
         WorkerGood(worker[w])', new.pc = "rules" => \A v \in Workers \ {w} : worker[v].pc # "rules"
  PROVE  WarningsInductive'
<1>1. worker \in [Workers -> Worker] /\ worker' \in [Workers -> Worker]
      /\ \A v \in Workers : worker'[v] = IF v = w THEN new ELSE worker[v]
  BY DEF WarningsInductive, TypeOK
<1>2. \A u, v \in Workers : worker[u].pc = "rules" /\ worker[v].pc = "rules" => u = v
  BY DEF WarningsInductive
<1>3. \A v \in Workers : WorkerGood(worker[v])'
  <2> SUFFICES ASSUME NEW v \in Workers \ {w} PROVE WorkerGood(worker[v])'
    OBVIOUS
  <2>1. rules' = rules \/ worker[v].pc # "rules"
    BY <1>2
  <2> QED BY <1>1, <2>1, WorkerKeeps
<1>4. \A u, v \in Workers : worker'[u].pc = "rules" /\ worker'[v].pc = "rules" => u = v
  BY <1>1, <1>2
<1>5. TypeOK' /\ RulesAscend'
  BY <1>1 DEF TypeOK, Rules, ValidThresholds, RulesAscend
<1> QED BY <1>3, <1>4, <1>5 DEF WarningsInductive, WarningsInvariant

\* What voiding does to rows: it keeps them but for the status.
LEMMA RowsVoided ==
  ASSUME warning \in [Warnings -> Warning], OneIssuedPerLevel, NEW S \in SUBSET Warnings,
         warning' = [i \in Warnings |-> IF i \in S THEN [warning[i] EXCEPT !.status = "VOIDED"] ELSE warning[i]]
  PROVE  /\ warning' \in [Warnings -> Warning] /\ RowsKept /\ OneIssuedPerLevel'
         /\ \A i \in S : i \notin Issued'
         /\ \A i \in Warnings : warning'[i].threshold = warning[i].threshold
<1> DEFINE void(i) == [warning[i] EXCEPT !.status = "VOIDED"]
<1>1. \A i \in Warnings : /\ void(i) \in Warning /\ void(i).status = "VOIDED" /\ void(i).level = warning[i].level
                          /\ void(i).threshold = warning[i].threshold
                          /\ void(i) = [warning[i] EXCEPT !.status = void(i).status]
                          /\ warning[i] = [warning[i] EXCEPT !.status = warning[i].status]
  BY DEF Warning
<1>2. \A i \in Warnings : warning'[i] = IF i \in S THEN void(i) ELSE warning[i]
  OBVIOUS
<1> HIDE DEF void
<1>3. warning' \in [Warnings -> Warning]
  BY <1>1, <1>2
<1>4. RowsKept
  BY <1>1, <1>2 DEF RowsKept
<1>5. \A i \in Warnings : warning'[i].level = warning[i].level /\ (i \in Issued' => i \in Issued /\ i \notin S)
  BY <1>1, <1>2 DEF Issued
<1>6. OneIssuedPerLevel'
  BY <1>5 DEF OneIssuedPerLevel, Issued
<1>7. \A i \in Warnings : warning'[i].threshold = warning[i].threshold
  BY <1>1, <1>2
<1> QED BY <1>3, <1>4, <1>5, <1>6, <1>7

\* Nothing but what a request has read changes.
LEMMA ReadsKeep ==
  ASSUME WarningsInductive, NEW w \in Workers, NEW new \in Worker, worker' = [worker EXCEPT ![w] = new],
         UNCHANGED <<counted, rules, warning>>, WorkerGood(new),
         new.pc = "rules" => \A v \in Workers \ {w} : worker[v].pc # "rules"
  PROVE  WarningsInductive' /\ RowsKept /\ StaysSupported
<1>1. /\ worker \in [Workers -> Worker] /\ warning \in [Warnings -> Warning] /\ counted \in SUBSET Days
      /\ rules \in [levels: [Levels -> 1..MaxThreshold], enabled: BOOLEAN] /\ Ascending(rules.levels)
      /\ OneIssuedPerLevel
  BY DEF WarningsInductive, TypeOK, WarningsInvariant, RulesAscend
<1>2. rules' \in Rules
  BY <1>1 DEF Rules, ValidThresholds
<1>3. RowsKept
  BY <1>1 DEF RowsKept, Warning
<1>4. Issued' = Issued
  BY DEF Issued
<1>5. OneIssuedPerLevel' /\ StaysSupported
  BY <1>1, <1>4 DEF OneIssuedPerLevel, StaysSupported, Supported
<1>6. worker'[w] = new
  BY <1>1
<1>7. WorkerGood(worker[w])'
  BY <1>4, <1>6 DEF WorkerGood
<1> QED BY <1>1, <1>2, <1>3, <1>5, <1>7, WorkerMoves

\* A recalculation up to its locks.
LEMMA Corrections ==
  ASSUME WarningsInductive, NEW w \in Workers,
         LockWarnings(w) \/ \E d \in Days, counts \in BOOLEAN : CorrectDay(w, d, counts)
  PROVE  WarningsInductive' /\ RowsKept /\ StaysSupported
<1>1. /\ worker[w] \in Worker /\ worker \in [Workers -> Worker] /\ Issued \subseteq Warnings /\ WorkerGood(worker[w])
      /\ \A i \in Issued : warning[i].status = "ISSUED"
  BY DEF WarningsInductive, TypeOK, Issued
<1>2. CASE LockWarnings(w)
  <2> DEFINE locked == worker[w].seen \cap Issued
             new == [worker[w] EXCEPT !.pc = "commit", !.locked = locked]
  <2>1. locked \subseteq Warnings /\ locked \subseteq worker[w].seen /\ worker[w].seen \cap Issued \subseteq locked
    BY <1>1
  <2>2. /\ worker[w].pc = "lock" /\ worker' = [worker EXCEPT ![w] = new]
        /\ UNCHANGED <<counted, rules, warning>>
    BY <1>2 DEF LockWarnings
  <2> HIDE DEF locked
  <2>3. new \in Worker /\ new.pc = "commit" /\ new.locked = locked /\ new.seen = worker[w].seen
    BY <1>1, <2>1 DEF Worker
  <2> HIDE DEF new
  <2>4. WorkerGood(new)
    BY <1>1, <2>1, <2>2, <2>3 DEF WorkerGood
  <2> QED BY <2>2, <2>3, <2>4, ReadsKeep
<1>3. ASSUME NEW d \in Days, NEW counts \in BOOLEAN, CorrectDay(w, d, counts)
      PROVE  WarningsInductive' /\ RowsKept /\ StaysSupported
  <2> DEFINE new == [Idle EXCEPT !.pc = "lock", !.day = {d}, !.counts = counts, !.seen = Issued]
  <2>1. worker' = [worker EXCEPT ![w] = new] /\ UNCHANGED <<counted, rules, warning>>
    BY <1>3 DEF CorrectDay
  <2>2. new \in Worker /\ new.pc = "lock" /\ new.seen = Issued
    BY <1>1, WarningRows DEF Worker, Idle
  <2> HIDE DEF new
  <2>3. WorkerGood(new)
    BY <1>1, <2>2 DEF WorkerGood
  <2> QED BY <2>1, <2>2, <2>3, ReadsKeep
<1> QED BY <1>2, <1>3

\* The commit of a recalculation judges the warnings it has locked.
LEMMA CommitDayStep ==
  ASSUME WarningsInductive, NEW w \in Workers, CommitDay(w)
  PROVE  WarningsInductive' /\ RowsKept /\ StaysSupported
<1> DEFINE after == IF worker[w].counts THEN counted \cup worker[w].day ELSE counted \ worker[w].day
           value == Cardinality(after)
           void == {i \in Warnings : i \in worker[w].locked /\ Unsupported(i, value)}
<1>1. /\ worker \in [Workers -> Worker] /\ warning \in [Warnings -> Warning] /\ counted \in SUBSET Days
      /\ rules \in [levels: [Levels -> 1..MaxThreshold], enabled: BOOLEAN] /\ Ascending(rules.levels)
      /\ OneIssuedPerLevel /\ WorkerGood(worker[w]) /\ worker[w] \in Worker
  BY DEF WarningsInductive, TypeOK, WarningsInvariant, RulesAscend
<1>2. worker[w].pc = "commit" /\ counted' = after /\ worker' = [worker EXCEPT ![w] = Idle] /\ rules' = rules
  BY DEF CommitDay
<1>3. warning' = [i \in Warnings |-> IF i \in void THEN [warning[i] EXCEPT !.status = "VOIDED"] ELSE warning[i]]
  BY DEF CommitDay, VoidLocked
<1>4. after \in SUBSET Days
  BY <1>1 DEF Worker
<1>5. /\ warning' \in [Warnings -> Warning] /\ RowsKept /\ OneIssuedPerLevel' /\ \A i \in void : i \notin Issued'
      /\ \A i \in Warnings : warning'[i].threshold = warning[i].threshold
  <2>1. void \in SUBSET Warnings
    OBVIOUS
  <2> HIDE DEF void
  <2> QED BY <1>1, <1>3, <2>1, RowsVoided
<1>6. rules' \in Rules
  BY <1>1, <1>2 DEF Rules, ValidThresholds
<1>7. worker'[w] = Idle /\ Idle.pc = "idle"
  BY <1>1, <1>2 DEF Idle
<1>8. WorkerGood(worker[w])'
  BY <1>7 DEF WorkerGood
<1>9. WarningsInductive'
  <2> HIDE DEF after, void
  <2> QED BY <1>2, <1>4, <1>5, <1>6, <1>7, <1>8, WarningRows, WorkerMoves
<1>10. ASSUME NEW i \in Issued, Supported(i), i \in worker[w].seen, i \in Issued' PROVE Supported(i)'
  <2>1. i \in Warnings /\ i \in worker[w].locked
    BY <1>1, <1>2, <1>10 DEF WorkerGood, Issued
  <2>2. ~Unsupported(i, value)
    BY <1>5, <1>10, <2>1
  <2>3. warning'[i].threshold = warning[i].threshold /\ warning[i].threshold \in Nat /\ value \in Nat
    BY <1>1, <1>4, <1>5, <2>1, DaysFinite, FS_Subset, FS_CardinalityType DEF Warning
  <2>4. value >= warning'[i].threshold
    BY <2>2, <2>3 DEF Unsupported
  <2> QED BY <1>2, <2>4 DEF Supported
<1>11. StaysSupported
  BY <1>2, <1>10 DEF StaysSupported
<1> QED BY <1>5, <1>9, <1>11

\* issue_student_warning before its INSERT.
LEMMA Issuing ==
  ASSUME WarningsInductive, NEW w \in Workers,
         (\E l \in Levels : IssueStart(w, l)) \/ IssueLevels(w) \/ IssueMetric(w)
  PROVE  WarningsInductive' /\ RowsKept /\ StaysSupported
<1>1. /\ worker[w] \in Worker /\ worker \in [Workers -> Worker] /\ WorkerGood(worker[w])
      /\ counted \in SUBSET Days /\ rules.levels \in [Levels -> 1..MaxThreshold]
  BY DEF WarningsInductive, TypeOK
<1>2. WorkerGood(Idle) /\ Idle.pc = "idle" /\ Idle \in Worker
  BY WarningRows DEF WorkerGood, Idle
<1>3. ASSUME worker' = [worker EXCEPT ![w] = Idle], UNCHANGED <<counted, rules, warning>>
      PROVE  WarningsInductive' /\ RowsKept /\ StaysSupported
  BY <1>2, <1>3, ReadsKeep
<1>4. ASSUME NEW l \in Levels, IssueStart(w, l)
      PROVE  WarningsInductive' /\ RowsKept /\ StaysSupported
  <2> DEFINE new == [Idle EXCEPT !.pc = "levels", !.level = l]
  <2>1. worker' = [worker EXCEPT ![w] = new] /\ UNCHANGED <<counted, rules, warning>>
    BY <1>4 DEF IssueStart
  <2>2. l \in 0..NumLevels
    BY BoundsNat DEF Levels
  <2>3. new \in Worker /\ new.pc = "levels" /\ new.level = l
    BY <2>2, WarningRows DEF Worker, Idle
  <2> HIDE DEF new
  <2>4. WorkerGood(new)
    BY <2>3 DEF WorkerGood
  <2> QED BY <2>1, <2>3, <2>4, ReadsKeep
<1>5. CASE IssueLevels(w)
  <2> DEFINE threshold == rules.levels[worker[w].level]
             new == [worker[w] EXCEPT !.pc = "metric", !.threshold = threshold]
  <2>1. worker[w].pc = "levels" /\ worker[w].level \in Levels
    BY <1>1, <1>5 DEF IssueLevels, WorkerGood
  <2>2. threshold \in Nat
    BY <1>1, <2>1, BoundsNat
  <2>3. /\ worker' = [worker EXCEPT ![w] = Idle] \/ worker' = [worker EXCEPT ![w] = new]
        /\ UNCHANGED <<counted, rules, warning>>
    BY <1>5 DEF IssueLevels
  <2> HIDE DEF threshold
  <2>4. new \in Worker /\ new.pc = "metric" /\ new.level = worker[w].level
    BY <1>1, <2>2 DEF Worker
  <2> HIDE DEF new
  <2>5. WorkerGood(new)
    BY <2>1, <2>4 DEF WorkerGood
  <2> QED BY <1>3, <2>3, <2>4, <2>5, ReadsKeep
<1>6. CASE IssueMetric(w)
  <2> DEFINE value == Cardinality(counted)
             new == [worker[w] EXCEPT !.pc = "insert", !.metric = value]
  <2>1. worker[w].pc = "metric" /\ worker[w].level \in Levels
    BY <1>1, <1>6 DEF IssueMetric, WorkerGood
  <2>2. value \in Nat
    BY <1>1, DaysFinite, FS_Subset, FS_CardinalityType
  <2>3. /\ worker' = [worker EXCEPT ![w] = Idle] \/ worker' = [worker EXCEPT ![w] = new]
        /\ UNCHANGED <<counted, rules, warning>>
    BY <1>6 DEF IssueMetric
  <2> HIDE DEF value
  <2>4. new \in Worker /\ new.pc = "insert" /\ new.level = worker[w].level
    BY <1>1, <2>2 DEF Worker
  <2> HIDE DEF new
  <2>5. WorkerGood(new)
    BY <2>1, <2>4 DEF WorkerGood
  <2> QED BY <1>3, <2>3, <2>4, <2>5, ReadsKeep
<1> QED BY <1>4, <1>5, <1>6

\* The INSERT, refused when the level is taken.
LEMMA InsertStep ==
  ASSUME WarningsInductive, NEW w \in Workers, IssueInsert(w)
  PROVE  WarningsInductive' /\ RowsKept /\ StaysSupported
<1>1. /\ worker[w] \in Worker /\ worker \in [Workers -> Worker] /\ WorkerGood(worker[w]) /\ counted \in SUBSET Days
      /\ warning \in [Warnings -> Warning] /\ OneIssuedPerLevel
      /\ rules \in [levels: [Levels -> 1..MaxThreshold], enabled: BOOLEAN] /\ Ascending(rules.levels)
  BY DEF WarningsInductive, TypeOK, WarningsInvariant, RulesAscend
<1>2. WorkerGood(Idle) /\ Idle.pc = "idle" /\ Idle \in Worker
  BY WarningRows DEF WorkerGood, Idle
<1>3. worker' = [worker EXCEPT ![w] = Idle] /\ UNCHANGED <<counted, rules>> /\ worker[w].pc = "insert"
  BY DEF IssueInsert
<1>4. CASE warning' = warning
  BY <1>2, <1>3, <1>4, ReadsKeep
<1>5. ASSUME NEW i \in Warnings, warning[i].status = "NONE", ~LevelTaken(worker[w].level),
             warning' = [warning EXCEPT ![i] =
                 [status |-> "ISSUED", level |-> worker[w].level, threshold |-> worker[w].threshold,
                  metric |-> worker[w].metric, details |-> counted]]
      PROVE  WarningsInductive' /\ RowsKept /\ StaysSupported
  <2> DEFINE new == [status |-> "ISSUED", level |-> worker[w].level, threshold |-> worker[w].threshold,
                     metric |-> worker[w].metric, details |-> counted]
  <2>1. new \in Warning /\ new.level = worker[w].level /\ new.status = "ISSUED"
    BY <1>1 DEF Warning, Worker
  <2>2. warning' = [warning EXCEPT ![i] = new]
    BY <1>5
  <2> HIDE DEF new
  <2>3. warning' \in [Warnings -> Warning] /\ \A j \in Warnings : warning'[j] = IF j = i THEN new ELSE warning[j]
    BY <1>1, <2>1, <2>2
  <2>4. RowsKept
    BY <1>1, <1>5, <2>3 DEF RowsKept, Warning
  <2>5. OneIssuedPerLevel'
    <3>1. \A j \in Issued : warning[j].level # worker[w].level
      BY <1>5 DEF LevelTaken
    <3>2. \A j \in Warnings \ {i} : j \in Issued' => j \in Issued /\ warning'[j].level = warning[j].level
      BY <2>3 DEF Issued
    <3>3. warning'[i].level = worker[w].level
      BY <2>1, <2>3
    <3> QED BY <1>1, <3>1, <3>2, <3>3 DEF OneIssuedPerLevel, Issued
  <2>6. StaysSupported
    BY <1>3, <1>5, <2>3 DEF StaysSupported, Supported, Issued
  <2>7. rules' \in Rules
    BY <1>1, <1>3 DEF Rules, ValidThresholds
  <2>8. worker'[w] = Idle
    BY <1>1, <1>3
  <2>9. WorkerGood(worker[w])'
    BY <1>2, <2>8 DEF WorkerGood
  <2> QED BY <1>1, <1>2, <1>3, <2>3, <2>4, <2>5, <2>6, <2>7, <2>9, WorkerMoves
<1>6. warning' = warning \/ \E i \in Warnings :
        /\ warning[i].status = "NONE" /\ ~LevelTaken(worker[w].level)
        /\ warning' = [warning EXCEPT ![i] =
                 [status |-> "ISSUED", level |-> worker[w].level, threshold |-> worker[w].threshold,
                  metric |-> worker[w].metric, details |-> counted]]
  BY Zenon DEF IssueInsert
<1> QED BY <1>4, <1>5, <1>6

\* The manager voids a warning.
LEMMA VoidStep ==
  ASSUME WarningsInductive, NEW i \in Warnings, VoidWarning(i)
  PROVE  WarningsInductive' /\ RowsKept /\ StaysSupported
<1>1. /\ worker \in [Workers -> Worker] /\ warning \in [Warnings -> Warning] /\ counted \in SUBSET Days
      /\ OneIssuedPerLevel
  BY DEF WarningsInductive, TypeOK, WarningsInvariant
<1>2. UNCHANGED <<counted, rules, worker>>
  BY DEF VoidWarning
<1>3. warning' = [j \in Warnings |-> IF j \in {i} THEN [warning[j] EXCEPT !.status = "VOIDED"] ELSE warning[j]]
  BY <1>1 DEF VoidWarning, VoidLocked
<1>4. /\ warning' \in [Warnings -> Warning] /\ RowsKept /\ OneIssuedPerLevel'
      /\ \A j \in Warnings : warning'[j].threshold = warning[j].threshold
  <2>1. {i} \in SUBSET Warnings
    OBVIOUS
  <2> QED BY <1>1, <1>3, <2>1, RowsVoided
<1>5. StaysSupported
  BY <1>2, <1>4 DEF StaysSupported, Supported, Issued
<1>6. \A u \in Workers : WorkerGood(worker[u])'
  BY <1>2, <1>4, WorkerKeeps
<1>7. TypeOK' /\ RulesAscend'
  BY <1>2, <1>4 DEF WarningsInductive, TypeOK, WarningsInvariant, RulesAscend
<1> QED BY <1>2, <1>4, <1>5, <1>6, <1>7 DEF WarningsInductive, WarningsInvariant

\* update_rules: one at a time, it writes what it has validated.
LEMMA RulesSteps ==
  ASSUME WarningsInductive, NEW w \in Workers, WriteRules(w) \/ \E new \in Rules : LockRules(w, new)
  PROVE  WarningsInductive' /\ RowsKept /\ StaysSupported
<1>1. /\ worker[w] \in Worker /\ worker \in [Workers -> Worker] /\ WorkerGood(worker[w]) /\ counted \in SUBSET Days
      /\ warning \in [Warnings -> Warning] /\ OneIssuedPerLevel
      /\ rules \in [levels: [Levels -> 1..MaxThreshold], enabled: BOOLEAN] /\ Ascending(rules.levels)
  BY DEF WarningsInductive, TypeOK, WarningsInvariant, RulesAscend
<1>2. rules \in Rules
  BY <1>1 DEF Rules, ValidThresholds
<1>3. ASSUME NEW to \in Rules, LockRules(w, to)
      PROVE  WarningsInductive' /\ RowsKept /\ StaysSupported
  <2> DEFINE new == [Idle EXCEPT !.pc = "rules", !.old = {rules}, !.new = {to}]
  <2>1. worker' = [worker EXCEPT ![w] = new] /\ UNCHANGED <<counted, rules, warning>> /\ RulesFree
    BY <1>3 DEF LockRules
  <2>2. {rules} \subseteq Rules /\ {to} \subseteq Rules
    BY <1>2
  <2>3. new \in Worker /\ new.pc = "rules" /\ new.old = {rules} /\ new.new = {to}
    BY <2>2, WarningRows DEF Worker, Idle
  <2> HIDE DEF new
  <2>4. WorkerGood(new)
    BY <2>3 DEF WorkerGood
  <2>5. \A v \in Workers \ {w} : worker[v].pc # "rules"
    BY <2>1 DEF RulesFree
  <2> QED BY <2>1, <2>3, <2>4, <2>5, ReadsKeep
<1>4. CASE WriteRules(w)
  <2>1. worker[w].pc = "rules" /\ worker' = [worker EXCEPT ![w] = Idle] /\ UNCHANGED <<counted, warning>>
    BY <1>4 DEF WriteRules
  <2>2. PICK new \in Rules : worker[w].old = {rules} /\ worker[w].new = {new}
    BY <1>1, <2>1 DEF WorkerGood
  <2>3. rules' = [levels |-> [l \in Levels |-> IF rules.levels[l] = new.levels[l]
                                               THEN rules.levels[l] ELSE new.levels[l]],
                  enabled |-> IF rules.enabled = new.enabled THEN rules.enabled ELSE new.enabled]
    BY <1>4, <2>2, Zenon DEF WriteRules
  <2>4. /\ new.levels \in [Levels -> 1..MaxThreshold] /\ Ascending(new.levels) /\ new.enabled \in BOOLEAN
        /\ new = [levels |-> new.levels, enabled |-> new.enabled]
    BY DEF Rules, ValidThresholds
  <2>5. [l \in Levels |-> IF rules.levels[l] = new.levels[l] THEN rules.levels[l] ELSE new.levels[l]] = new.levels
    BY <2>4
  <2>6. rules' = new
    BY <2>3, <2>4, <2>5
  <2>7. RowsKept
    BY <1>1, <2>1 DEF RowsKept, Warning
  <2>8. OneIssuedPerLevel' /\ StaysSupported
    BY <1>1, <2>1 DEF OneIssuedPerLevel, StaysSupported, Supported, Issued
  <2>9. worker'[w] = Idle /\ Idle.pc = "idle"
    BY <1>1, <2>1 DEF Idle
  <2>10. WorkerGood(worker[w])'
    BY <2>9 DEF WorkerGood
  <2> QED BY <1>1, <2>1, <2>6, <2>7, <2>8, <2>9, <2>10, WarningRows, WorkerMoves
<1> QED BY <1>3, <1>4

\* Every request and every decision about warnings.
LEMMA WarningsStep == WarningsInductive /\ [Next]_vars => WarningsInductive' /\ RowsKept /\ StaysSupported
<1> SUFFICES ASSUME WarningsInductive, [Next]_vars PROVE WarningsInductive' /\ RowsKept /\ StaysSupported
  OBVIOUS
<1>1. CASE UNCHANGED vars
  <2>1. UNCHANGED <<counted, rules, warning, worker>>
    BY <1>1 DEF vars
  <2>2. TypeOK' /\ WarningsInvariant'
    BY <2>1 DEF WarningsInductive, TypeOK, WarningsInvariant, RulesAscend, OneIssuedPerLevel, Issued
  <2>3. RowsKept
    BY <2>1 DEF WarningsInductive, TypeOK, RowsKept, Warning
  <2>4. StaysSupported
    BY <2>1 DEF StaysSupported, Supported, Issued
  <2>5. \A u \in Workers : WorkerGood(worker[u])'
    BY <2>1, <2>3, WorkerKeeps
  <2> QED BY <2>1, <2>2, <2>3, <2>4, <2>5 DEF WarningsInductive
<1>2. CASE Next
  <2>1. ASSUME NEW w \in Workers, WorkerStep(w) \/ Request(w)
        PROVE  WarningsInductive' /\ RowsKept /\ StaysSupported
    BY <2>1, Corrections, CommitDayStep, Issuing, InsertStep, RulesSteps DEF WorkerStep, Request
  <2> QED BY <1>2, <2>1, VoidStep DEF Next
<1> QED BY <1>1, <1>2

\* Two administrators leave ascending thresholds (update_rules locks the rows) and issue one
\* warning of a level (uniq_issued_warning_per_scope).
THEOREM WarningsHold == Spec => []WarningsInvariant
<1>1. WarningsInductive /\ [Next]_vars => WarningsInductive'
  BY WarningsStep
<1>2. WarningsInductive => WarningsInvariant
  BY DEF WarningsInductive
<1> QED BY WarningsStart, <1>1, <1>2, PTL DEF Spec

\* A warning keeps its snapshot, and overlapping corrections that have all seen it leave it
\* supported or voided (reconcile_issued_warnings, void_locked_warning).
THEOREM WarningsAreKept == Spec => WarningsKept
<1>1. WarningsInductive /\ [Next]_vars => WarningsInductive'
  BY WarningsStep
<1>2. WarningsInductive /\ [Next]_vars =>
        [\A i \in Warnings :
           warning[i].status # "NONE"
             => /\ warning'[i] = [warning[i] EXCEPT !.status = warning'[i].status]
                /\ warning'[i].status \in {warning[i].status, "VOIDED"}]_vars
  BY WarningsStep DEF RowsKept
<1>3. WarningsInductive /\ [Next]_vars =>
        [\A i \in Issued :
           /\ Supported(i)
           /\ \A w \in Workers : worker[w].pc \in {"lock", "commit"} => i \in worker[w].seen
           => i \notin Issued' \/ Supported(i)']_vars
  BY WarningsStep DEF StaysSupported
<1> QED BY WarningsStart, <1>1, <1>2, <1>3, PTL DEF Spec, WarningsKept, SnapshotKept, SupportKept

-----------------------------------------------------------------------------
(* The documents of the warnings.                                           *)

\* A document's warning was issued once, and the clerk that works on a row works on its warning.
ClerkGood(k) ==
  k.pc \in {"retry", "render", "failed"} =>
    \A d \in k.document : document[d].warning = k.warning /\ document[d].status # "NONE"

DocInductive ==
  /\ DocInvariant
  /\ \A d \in Documents : \A i \in document[d].warning : warning[i].status # "NONE"
  /\ \A c \in Clerks : ClerkGood(clerk[c])

\* The empty rows have their types, and an idle clerk holds nothing.
LEMMA DocumentRows == NoDocument \in Document /\ IdleClerk \in Clerk /\ ClerkGood(IdleClerk)
BY DEF NoDocument, IdleClerk, Document, Clerk, ClerkGood

\* Rows that exist go on to exist, about the same warning: then a clerk that takes no step
\* keeps what it relies on, and one that takes one has to look at its own only.
LEMMA ClerksKeep ==
  ASSUME DocInductive, NEW c \in Clerks, NEW new \in Clerk, clerk' = [clerk EXCEPT ![c] = new],
         \A d \in Documents : document[d].status # "NONE" =>
           document'[d].warning = document[d].warning /\ document'[d].status # "NONE",
         ClerkGood(new) \/ ClerkGood(clerk[c])'
  PROVE  clerk' \in [Clerks -> Clerk] /\ \A k \in Clerks : ClerkGood(clerk[k])'
<1>1. clerk \in [Clerks -> Clerk] /\ \A k \in Clerks : ClerkGood(clerk[k])
  BY DEF DocInductive, DocInvariant, DocTypeOK
<1>2. clerk' \in [Clerks -> Clerk] /\ \A k \in Clerks : clerk'[k] = IF k = c THEN new ELSE clerk[k]
  BY <1>1
<1>3. ASSUME NEW k \in Clerks, NEW r \in Clerk, clerk'[k] = r, ClerkGood(r) PROVE ClerkGood(clerk[k])'
  <2>1. r.document \subseteq Documents
    BY DEF Clerk
  <2> QED BY <1>3, <2>1 DEF ClerkGood
<1>4. ClerkGood(clerk[c])'
  BY <1>2, <1>3
<1>5. ASSUME NEW k \in Clerks \ {c} PROVE ClerkGood(clerk[k])'
  <2>1. clerk'[k] = clerk[k] /\ clerk[k] \in Clerk /\ ClerkGood(clerk[k])
    BY <1>1, <1>2
  <2> QED BY <1>3, <2>1
<1> QED BY <1>2, <1>4, <1>5

\* A clerk takes a step that writes no row.
LEMMA ClerkOnly ==
  ASSUME DocInductive, NEW c \in Clerks, NEW new \in Clerk, clerk' = [clerk EXCEPT ![c] = new],
         UNCHANGED <<vars, document>>, ClerkGood(new), abandoned' \in SUBSET Documents
  PROVE  DocInductive'
<1>1. clerk' \in [Clerks -> Clerk] /\ \A k \in Clerks : ClerkGood(clerk[k])'
  BY ClerksKeep
<1>2. UNCHANGED <<counted, rules, warning, worker, document>>
  BY DEF vars
<1>3. DocTypeOK'
  BY <1>1, <1>2 DEF DocInductive, DocInvariant, DocTypeOK, TypeOK
<1>4. VoidedHasNoDocument' /\ OneLiveDocument'
  BY <1>2 DEF DocInductive, DocInvariant, VoidedHasNoDocument, OneLiveDocument
<1> QED BY <1>1, <1>2, <1>3, <1>4 DEF DocInductive, DocInvariant

\* One row is written: it is about an issued warning that has no other live document, when
\* it is live, and about an issued one in any case, unless it is voided.
LEMMA DocumentSaved ==
  ASSUME DocInductive, NEW d \in Documents, NEW new \in Document, document' = [document EXCEPT ![d] = new],
         UNCHANGED vars, new.status # "VOIDED" => new.warning \subseteq Issued,
         \A i \in new.warning : warning[i].status # "NONE",
         new.status \in {"PENDING", "READY"} =>
           \A e \in Documents \ {d} : Live(e) => document[e].warning # new.warning,
         clerk' \in [Clerks -> Clerk], \A k \in Clerks : ClerkGood(clerk[k])', abandoned' \in SUBSET Documents
  PROVE  DocInductive'
<1>1. UNCHANGED <<counted, rules, warning, worker>>
  BY DEF vars
<1>2. document' \in [Documents -> Document] /\ \A e \in Documents : document'[e] = IF e = d THEN new ELSE document[e]
  BY DEF DocInductive, DocInvariant, DocTypeOK
<1>3. DocTypeOK'
  BY <1>1, <1>2 DEF DocInductive, DocInvariant, DocTypeOK, TypeOK
<1>4. VoidedHasNoDocument'
  BY <1>1, <1>2 DEF DocInductive, DocInvariant, VoidedHasNoDocument, Issued
<1>5. OneLiveDocument'
  BY <1>2 DEF DocInductive, DocInvariant, OneLiveDocument, Live
<1>6. \A e \in Documents : \A i \in document'[e].warning : warning'[i].status # "NONE"
  BY <1>1, <1>2 DEF DocInductive
<1> QED BY <1>3, <1>4, <1>5, <1>6 DEF DocInductive, DocInvariant

\* The status of a row that exists is written, and the clerk that wrote it, if any, is done.
LEMMA StatusSaved ==
  ASSUME DocInductive, NEW d \in Documents, NEW st \in {"READY", "FAILED", "VOIDED"},
         document' = [document EXCEPT ![d].status = st], UNCHANGED vars,
         st # "VOIDED" => document[d].warning \subseteq Issued,
         st = "READY" => \A e \in Documents \ {d} : Live(e) => document[e].warning # document[d].warning,
         clerk' = clerk \/ \E c \in Clerks : clerk' = [clerk EXCEPT ![c] = IdleClerk],
         abandoned' \in SUBSET Documents
  PROVE  DocInductive'
<1> DEFINE new == [document[d] EXCEPT !.status = st]
<1>1. document \in [Documents -> Document] /\ clerk \in [Clerks -> Clerk] /\ \A k \in Clerks : ClerkGood(clerk[k])
  BY DEF DocInductive, DocInvariant, DocTypeOK
<1>2. document' = [document EXCEPT ![d] = new]
  BY <1>1
<1>3. new \in Document /\ new.status = st /\ new.warning = document[d].warning
  BY <1>1 DEF Document
<1> HIDE DEF new
<1>4. \A e \in Documents : document[e].status # "NONE" =>
        document'[e].warning = document[e].warning /\ document'[e].status # "NONE"
  BY <1>1, <1>2, <1>3
<1>5. clerk' \in [Clerks -> Clerk] /\ \A k \in Clerks : ClerkGood(clerk[k])'
  <2>1. ASSUME NEW c \in Clerks, clerk' = [clerk EXCEPT ![c] = IdleClerk]
        PROVE  clerk' \in [Clerks -> Clerk] /\ \A k \in Clerks : ClerkGood(clerk[k])'
    BY <1>4, <2>1, DocumentRows, ClerksKeep
  <2>2. CASE clerk' = clerk
    <3>1. SUFFICES ASSUME NEW k \in Clerks PROVE ClerkGood(clerk[k])'
      BY <1>1, <2>2
    <3>2. clerk[k].document \subseteq Documents /\ ClerkGood(clerk[k]) /\ clerk'[k] = clerk[k]
      BY <1>1, <2>2 DEF Clerk
    <3> QED BY <1>4, <3>2 DEF ClerkGood
  <2> QED BY <2>1, <2>2
<1>6. \A i \in document[d].warning : warning[i].status # "NONE"
  BY DEF DocInductive
<1>7. /\ new.status # "VOIDED" => new.warning \subseteq Issued
      /\ \A i \in new.warning : warning[i].status # "NONE"
      /\ new.status \in {"PENDING", "READY"} =>
           \A e \in Documents \ {d} : Live(e) => document[e].warning # new.warning
  BY <1>3, <1>6
<1> QED BY <1>2, <1>3, <1>5, <1>7, DocumentSaved

\* The warnings take a step, which voids the documents of the one that is voided.
LEMMA WarningsVoidDocuments ==
  ASSUME DocInductive, RowsKept, TypeOK', VoidDocuments, abandoned' \in SUBSET Documents
  PROVE  DocInductive'
<1>1. document \in [Documents -> Document] /\ warning \in [Warnings -> Warning] /\ clerk \in [Clerks -> Clerk]
      /\ clerk' = clerk /\ warning' \in [Warnings -> Warning]
  BY DEF DocInductive, DocInvariant, DocTypeOK, VoidDocuments, TypeOK
<1> DEFINE void(d) == [document[d] EXCEPT !.status = "VOIDED"]
           hit(d) == \E i \in document[d].warning : VoidedWith(i)
<1>2. \A d \in Documents : void(d) \in Document /\ void(d).status = "VOIDED" /\ void(d).warning = document[d].warning
  BY <1>1 DEF Document
<1>3. \A d \in Documents : document'[d] = IF hit(d) THEN void(d) ELSE document[d]
  BY DEF VoidDocuments
<1>4. document' = [d \in Documents |-> document'[d]]
  BY DEF VoidDocuments
<1>5. \A d \in Documents : \A i \in document[d].warning :
        i \in Warnings /\ warning[i].status # "NONE" /\ warning'[i].status \in {warning[i].status, "VOIDED"}
  <2>1. \A d \in Documents : document[d].warning \subseteq Warnings
    BY <1>1 DEF Document
  <2> QED BY <2>1 DEF DocInductive, RowsKept
<1> HIDE DEF void
<1>6. \A d \in Documents : /\ document'[d].warning = document[d].warning /\ document'[d] \in Document
                           /\ document'[d].status \in {document[d].status, "VOIDED"}
                           /\ hit(d) => document'[d].status = "VOIDED"
  BY <1>1, <1>2, <1>3
<1>7. document' \in [Documents -> Document]
  BY <1>4, <1>6
<1>8. VoidedHasNoDocument'
  <2> SUFFICES ASSUME NEW d \in Documents, NEW i \in document'[d].warning, warning'[i].status = "VOIDED"
               PROVE  document'[d].status = "VOIDED"
    BY DEF VoidedHasNoDocument
  <2>1. i \in document[d].warning /\ i \in Warnings
    BY <1>5, <1>6
  <2>2. CASE warning[i].status = "VOIDED"
    BY <1>6, <2>1, <2>2 DEF DocInductive, DocInvariant, VoidedHasNoDocument
  <2>3. CASE warning[i].status = "ISSUED"
    BY <1>6, <2>1, <2>3 DEF VoidedWith
  <2> QED BY <1>1, <1>5, <2>1, <2>2, <2>3 DEF Warning
<1> HIDE DEF hit
<1>9. OneLiveDocument'
  BY <1>6 DEF DocInductive, DocInvariant, OneLiveDocument
<1>10. \A d \in Documents : \A i \in document'[d].warning : warning'[i].status # "NONE"
  BY <1>5, <1>6
<1>11. \A k \in Clerks : ClerkGood(clerk[k])'
  <2> SUFFICES ASSUME NEW k \in Clerks PROVE ClerkGood(clerk[k])'
    OBVIOUS
  <2>1. clerk[k].document \subseteq Documents /\ ClerkGood(clerk[k]) /\ clerk'[k] = clerk[k]
    BY <1>1 DEF Clerk, DocInductive
  <2>2. \A d \in Documents : document[d].status # "NONE" =>
        document'[d].warning = document[d].warning /\ document'[d].status # "NONE"
    BY <1>6
  <2> QED BY <2>1, <2>2 DEF ClerkGood
<1>12. DocTypeOK'
  BY <1>1, <1>7 DEF DocTypeOK
<1> QED BY <1>8, <1>9, <1>10, <1>11, <1>12 DEF DocInductive, DocInvariant

\* The transaction that inserts the row.
LEMMA CreateStep ==
  ASSUME DocInductive, NEW c \in Clerks, CreateDocument(c),
         abandoned' \in SUBSET Documents
  PROVE  DocInductive'
<1>1. /\ document \in [Documents -> Document] /\ clerk \in [Clerks -> Clerk] /\ clerk[c] \in Clerk
      /\ \A k \in Clerks : ClerkGood(clerk[k])
  BY DEF DocInductive, DocInvariant, DocTypeOK
<1>2. ASSUME clerk' = [clerk EXCEPT ![c] = IdleClerk], UNCHANGED <<vars, document>> PROVE DocInductive'
  BY <1>2, DocumentRows, ClerkOnly
<1>3. ASSUME NEW d \in Documents, StillIssued(c), UNCHANGED vars, document[d].status = "NONE",
             ~\E e \in Documents : Live(e) /\ document[e].warning = clerk[c].warning,
             document' = [document EXCEPT ![d] = [status |-> "PENDING", warning |-> clerk[c].warning]],
             clerk' = [clerk EXCEPT ![c].pc = "render", ![c].document = {d}]
      PROVE  DocInductive'
  <2> DEFINE entry == [status |-> "PENDING", warning |-> clerk[c].warning]
             new == [clerk[c] EXCEPT !.pc = "render", !.document = {d}]
  <2>1. entry \in Document /\ entry.status = "PENDING" /\ entry.warning = clerk[c].warning
    BY <1>1 DEF Document, Clerk
  <2>2. new \in Clerk /\ new.document = {d} /\ new.warning = clerk[c].warning
    BY <1>1 DEF Clerk
  <2>3. document' = [document EXCEPT ![d] = entry] /\ clerk' = [clerk EXCEPT ![c] = new]
    BY <1>1, <1>3
  <2> HIDE DEF entry, new
  <2>4. document'[d] = entry /\ clerk'[c] = new /\ \A e \in Documents \ {d} : document'[e] = document[e]
    BY <1>1, <2>3
  <2>5. ClerkGood(clerk[c])'
    BY <2>1, <2>2, <2>4 DEF ClerkGood
  <2>6. \A e \in Documents : document[e].status # "NONE" =>
          document'[e].warning = document[e].warning /\ document'[e].status # "NONE"
    BY <1>3, <2>4
  <2>7. clerk' \in [Clerks -> Clerk] /\ \A k \in Clerks : ClerkGood(clerk[k])'
    BY <2>2, <2>3, <2>5, <2>6, ClerksKeep
  <2>8. entry.warning \subseteq Issued /\ \A i \in entry.warning : warning[i].status # "NONE"
    BY <1>3, <2>1 DEF StillIssued, Issued
  <2>9. \A e \in Documents \ {d} : Live(e) => document[e].warning # entry.warning
    BY <1>3, <2>1
  <2> QED BY <1>3, <2>1, <2>3, <2>7, <2>8, <2>9, DocumentSaved
<1>4. UNCHANGED vars
  BY DEF CreateDocument
<1>5. \/ clerk' = [clerk EXCEPT ![c] = IdleClerk] /\ UNCHANGED document
      \/ /\ StillIssued(c) /\ ~\E e \in Documents : Live(e) /\ document[e].warning = clerk[c].warning
         /\ \E d \in Documents :
             /\ document[d].status = "NONE"
             /\ document' = [document EXCEPT ![d] = [status |-> "PENDING", warning |-> clerk[c].warning]]
             /\ clerk' = [clerk EXCEPT ![c].pc = "render", ![c].document = {d}]
  BY DEF CreateDocument
<1> QED BY <1>2, <1>3, <1>4, <1>5

\* _produce_file and _mark_failed check the warning under its lock.
LEMMA EndStep ==
  ASSUME DocInductive, NEW c \in Clerks, ProduceFile(c) \/ MarkFailed(c),
         abandoned' \in SUBSET Documents
  PROVE  DocInductive'
<1>1. clerk[c] \in Clerk /\ ClerkGood(clerk[c])
  BY DEF DocInductive, DocInvariant, DocTypeOK
<1>2. clerk' = [clerk EXCEPT ![c] = IdleClerk] /\ UNCHANGED vars /\ clerk[c].pc \in {"render", "failed"}
  BY DEF ProduceFile, MarkFailed
<1>3. CASE UNCHANGED document
  BY <1>2, <1>3, DocumentRows, ClerkOnly
<1>4. ASSUME NEW d \in clerk[c].document, Writable(c, d) PROVE d \in Documents /\ document[d].warning \subseteq Issued
  BY <1>1, <1>2, <1>4 DEF ClerkGood, Clerk, Writable, StillIssued
<1>5. CASE MarkFailed(c)
  <2>1. PICK d \in clerk[c].document :
          IF Writable(c, d) THEN document' = [document EXCEPT ![d].status = "FAILED"] ELSE UNCHANGED document
    BY <1>5 DEF MarkFailed
  <2>2. CASE Writable(c, d)
    <3>1. document' = [document EXCEPT ![d].status = "FAILED"] /\ d \in Documents /\ document[d].warning \subseteq Issued
      BY <1>4, <2>1, <2>2
    <3> QED BY <1>2, <3>1, StatusSaved
  <2> QED BY <1>3, <2>1, <2>2
<1>6. CASE ProduceFile(c)
  <2>1. PICK d \in clerk[c].document :
          IF Writable(c, d) /\ ~(\E e \in Documents \ {d} : Live(e) /\ document[e].warning = document[d].warning)
          THEN document' = [document EXCEPT ![d].status = "READY"] ELSE UNCHANGED document
    BY <1>6, Zenon DEF ProduceFile
  <2>2. CASE Writable(c, d) /\ ~(\E e \in Documents \ {d} : Live(e) /\ document[e].warning = document[d].warning)
    <3>1. /\ document' = [document EXCEPT ![d].status = "READY"] /\ d \in Documents /\ document[d].warning \subseteq Issued
          /\ \A e \in Documents \ {d} : Live(e) => document[e].warning # document[d].warning
      BY <1>4, <2>1, <2>2
    <3> QED BY <1>2, <3>1, StatusSaved
  <2> QED BY <1>3, <2>1, <2>2
<1> QED BY <1>5, <1>6

\* The steps of a clerk that write no row.
LEMMA ClerkSteps ==
  ASSUME DocInductive, NEW c \in Clerks, abandoned' \in SUBSET Documents,
         \/ ProduceFails(c) \/ RetryDocument(c) \/ RequestBreaks(c)
         \/ \E i \in Warnings : GenerateDocument(c, i)
         \/ \E d \in Documents : RetryRead(c, d)
  PROVE  DocInductive'
<1>1. clerk \in [Clerks -> Clerk] /\ clerk[c] \in Clerk /\ ClerkGood(clerk[c]) /\ document \in [Documents -> Document]
  BY DEF DocInductive, DocInvariant, DocTypeOK
<1>2. ASSUME clerk' = [clerk EXCEPT ![c] = IdleClerk], UNCHANGED <<vars, document>> PROVE DocInductive'
  BY <1>2, DocumentRows, ClerkOnly
<1>3. ASSUME NEW pc \in {"render", "failed"}, clerk[c].pc \in {"retry", "render"},
             clerk' = [clerk EXCEPT ![c] = [clerk[c] EXCEPT !.pc = pc]], UNCHANGED <<vars, document>>
      PROVE  DocInductive'
  <2> DEFINE new == [clerk[c] EXCEPT !.pc = pc]
  <2>1. new \in Clerk /\ new.warning = clerk[c].warning /\ new.document = clerk[c].document
    BY <1>1 DEF Clerk
  <2> HIDE DEF new
  <2>2. ClerkGood(new)
    BY <1>1, <1>3, <2>1 DEF ClerkGood
  <2> QED BY <1>3, <2>1, <2>2, ClerkOnly DEF new
<1>4. CASE ProduceFails(c)
  <2>1. clerk' = [clerk EXCEPT ![c] = [clerk[c] EXCEPT !.pc = "failed"]]
    BY <1>1, <1>4 DEF ProduceFails
  <2> QED BY <1>3, <1>4, <2>1 DEF ProduceFails
<1>5. CASE RetryDocument(c)
  <2>1. \/ clerk' = [clerk EXCEPT ![c] = [clerk[c] EXCEPT !.pc = "render"]]
        \/ clerk' = [clerk EXCEPT ![c] = IdleClerk]
    BY <1>1, <1>5 DEF RetryDocument
  <2> QED BY <1>2, <1>3, <1>5, <2>1 DEF RetryDocument
<1>6. CASE RequestBreaks(c)
  BY <1>2, <1>6 DEF RequestBreaks
<1>7. ASSUME NEW i \in Warnings, GenerateDocument(c, i) PROVE DocInductive'
  <2> DEFINE new == [IdleClerk EXCEPT !.pc = "create", !.warning = {i}]
  <2>1. new \in Clerk /\ new.pc = "create"
    BY DocumentRows DEF Clerk, IdleClerk
  <2>2. clerk' = [clerk EXCEPT ![c] = new] /\ UNCHANGED <<vars, document>>
    BY <1>7 DEF GenerateDocument
  <2> HIDE DEF new
  <2>3. ClerkGood(new)
    BY <2>1 DEF ClerkGood
  <2> QED BY <2>1, <2>2, <2>3, ClerkOnly
<1>8. ASSUME NEW d \in Documents, RetryRead(c, d) PROVE DocInductive'
  <2> DEFINE new == [pc |-> "retry", warning |-> document[d].warning, document |-> {d}]
  <2>1. new \in Clerk /\ new.warning = document[d].warning /\ new.document = {d}
    BY <1>1 DEF Clerk, Document
  <2>2. clerk' = [clerk EXCEPT ![c] = new] /\ UNCHANGED <<vars, document>> /\ document[d].status = "FAILED"
    BY <1>8 DEF RetryRead
  <2> HIDE DEF new
  <2>3. ClerkGood(new)
    BY <2>1, <2>2 DEF ClerkGood
  <2> QED BY <2>1, <2>2, <2>3, ClerkOnly
<1> QED BY <1>4, <1>5, <1>6, <1>7, <1>8

\* Every step of the warnings, of the clerks and of the managers.
LEMMA DocStep ==
  WarningsInductive /\ DocInductive /\ [DocNext]_allVars => WarningsInductive' /\ DocInductive'
<1> SUFFICES ASSUME WarningsInductive, DocInductive, [DocNext]_allVars PROVE WarningsInductive' /\ DocInductive'
  OBVIOUS
<1>1. [Next]_vars
  BY DEF DocNext, allVars, ClerkStep, CreateDocument, ProduceFile, ProduceFails, MarkFailed, RetryDocument, RequestBreaks,
         GenerateDocument, RetryRead, VoidDocument
<1>8. abandoned' \in SUBSET Documents
  <2>1. abandoned \in SUBSET Documents
    BY DEF DocInductive, DocInvariant, DocTypeOK
  <2>2. ASSUME NEW c \in Clerks, RequestBreaks(c) PROVE abandoned' \in SUBSET Documents
    <3>1. clerk[c] \in Clerk
      BY DEF DocInductive, DocInvariant, DocTypeOK
    <3>2. abandoned' = abandoned \cup {d \in clerk[c].document : document[d].status = "PENDING"}
      BY <2>2 DEF RequestBreaks
    <3> QED BY <2>1, <3>1, <3>2 DEF Clerk
  <2>3. (\E c \in Clerks : RequestBreaks(c)) \/ abandoned' = abandoned
    BY DEF DocNext, allVars, docs, ClerkStep, CreateDocument, ProduceFile, ProduceFails, MarkFailed,
           RetryDocument, GenerateDocument, RetryRead, VoidDocument, VoidDocuments
  <2> QED BY <2>1, <2>2, <2>3
<1>2. WarningsInductive' /\ RowsKept
  BY <1>1, WarningsStep
<1>3. TypeOK'
  BY <1>2 DEF WarningsInductive
<1>4. CASE Next /\ VoidDocuments
  BY <1>2, <1>3, <1>4, <1>8, WarningsVoidDocuments
<1>5. ASSUME NEW d \in Documents, VoidDocument(d) PROVE DocInductive'
  <2>1. document' = [document EXCEPT ![d].status = "VOIDED"] /\ UNCHANGED <<vars, clerk>>
    BY <1>5 DEF VoidDocument
  <2> QED BY <1>8, <2>1, StatusSaved
<1>6. ASSUME NEW c \in Clerks,
             \/ ClerkStep(c) \/ RequestBreaks(c) \/ \E i \in Warnings : GenerateDocument(c, i)
             \/ \E d \in Documents : RetryRead(c, d)
      PROVE  DocInductive'
  BY <1>6, <1>8, CreateStep, EndStep, ClerkSteps DEF ClerkStep
<1>7. CASE UNCHANGED allVars
  <2>1. UNCHANGED <<counted, rules, warning, worker, document, clerk, abandoned>>
    BY <1>7 DEF allVars, vars, docs
  <2>2. DocInvariant'
    BY <2>1 DEF DocInductive, DocInvariant, DocTypeOK, TypeOK, VoidedHasNoDocument, OneLiveDocument
  <2>3. \A c \in Clerks : ClerkGood(clerk[c])'
    BY <2>1 DEF DocInductive, ClerkGood
  <2> QED BY <1>2, <2>1, <2>2, <2>3 DEF DocInductive
<1> QED BY <1>2, <1>4, <1>5, <1>6, <1>7 DEF DocNext

\* No document outlives its warning, and a warning has one live document, whatever is rendered,
\* retried or dies while the warning is voided (_produce_file, _mark_failed, void_locked_warning).
THEOREM DocumentsHold == DocSpec => []DocInvariant
<1>1. DocInit => WarningsInductive /\ DocInductive
  <2> SUFFICES ASSUME DocInit PROVE WarningsInductive /\ DocInductive
    OBVIOUS
  <2>1. WarningsInductive /\ document = [d \in Documents |-> NoDocument] /\ clerk = [c \in Clerks |-> IdleClerk]
        /\ abandoned = {}
    BY WarningsStart DEF DocInit
  <2>2. DocTypeOK
    BY <2>1, DocumentRows DEF WarningsInductive, DocTypeOK
  <2>3. \A d \in Documents : document[d].warning = {} /\ document[d].status = "NONE"
    BY <2>1 DEF NoDocument
  <2>4. \A c \in Clerks : ClerkGood(clerk[c])
    BY <2>1, DocumentRows
  <2> QED BY <2>1, <2>2, <2>3, <2>4 DEF DocInductive, DocInvariant, VoidedHasNoDocument, OneLiveDocument
<1>2. WarningsInductive /\ DocInductive /\ [DocNext]_allVars => WarningsInductive' /\ DocInductive'
  BY DocStep
<1>3. DocInductive => DocInvariant
  BY DEF DocInductive
<1> QED BY <1>1, <1>2, <1>3, PTL DEF DocSpec

-----------------------------------------------------------------------------
(* The daily summary rows.                                                  *)

\* The recalculations that have no time yet: each begun request gets one at most.
Reading == {"reconcile", "sessions", "marks", "pairs", "coverages"}
Untimed == {w \in Recalculators : recalc[w].pc \in Reading}

\* What has been counted of a student is no more than the sessions that were read.
CountsGood(r) ==
  r.pc \in {"pairs", "coverages", "lock", "commit"} =>
    \A s \in Students : r.absent[s] <= Cardinality(r.sessions)

\* What a request that nothing overlaps has read are the facts.
ReadAlone(r) ==
  /\ r.pc \in {"marks", "pairs", "coverages", "lock", "commit"} => r.sessions = submitted
  /\ r.pc \in {"pairs", "coverages", "lock", "commit"} =>
       \A s \in Students : r.absent[s] = Cardinality(Of(absent, s))
  /\ r.pc \in {"coverages", "lock", "commit"} => r.pairs = absent
  /\ r.pc \in {"lock", "commit"} =>
       \A s \in Students : r.excused[s] = Cardinality(Of(absent \cap covered, s))
  /\ r.pc = "commit" => r.existing = {s \in Students : row[s].exists}

SummaryInductive ==
  /\ SummaryTypeOK /\ RowsInvariant
  /\ IsFiniteSet(Untimed) /\ clock + Cardinality(Untimed) <= changes
  /\ absent \subseteq submitted \X Students
  /\ \A w \in Recalculators : CountsGood(recalc[w]) /\ (~overlapped => ReadAlone(recalc[w]))
  /\ ~overlapped => \A w, v \in Recalculators : recalc[w].pc # "idle" /\ recalc[v].pc # "idle" => w = v

\* The empty rows have their types.
LEMMA SummaryRows == NoRow \in Row /\ NoRecalc \in Recalc
<1>1. Zero \in [Students -> Nat]
  BY DEF Zero
<1> QED BY <1>1 DEF NoRow, NoRecalc, Row, Recalc

\* A student has at most one mark in each of the periods that are looked at.
LEMMA OneMarkAPeriod ==
  ASSUME NEW P \in SUBSET Periods, NEW s \in Students, NEW pairs \in SUBSET (P \X Students)
  PROVE  Cardinality(Of(pairs, s)) \in Nat /\ Cardinality(Of(pairs, s)) <= Cardinality(P) /\ Cardinality(P) \in Nat
<1>1. IsFiniteSet(P) /\ Cardinality(P) \in Nat
  BY PeriodsFinite, FS_Subset, FS_CardinalityType
<1>2. IsFiniteSet({s}) /\ Cardinality({s}) = 1
  BY FS_Singleton
<1>3. IsFiniteSet(P \X {s}) /\ Cardinality(P \X {s}) = Cardinality(P)
  <2>1. IsFiniteSet(P \X {s}) /\ Cardinality(P \X {s}) = Cardinality(P) * Cardinality({s})
    BY <1>1, <1>2, FS_Product
  <2>2. Cardinality(P) * 1 = Cardinality(P)
    BY <1>1
  <2> QED BY <1>2, <2>1, <2>2
<1>4. Of(pairs, s) \subseteq P \X {s}
  BY DEF Of
<1>5. IsFiniteSet(Of(pairs, s)) /\ Cardinality(Of(pairs, s)) <= Cardinality(P)
  BY <1>3, <1>4, FS_Subset
<1> QED BY <1>1, <1>5, FS_CardinalityType

\* The marks of the sessions that are looked at are among the pairs of these sessions.
LEMMA MarksOfSessions ==
  ASSUME NEW P \in SUBSET Periods, NEW pairs \in SUBSET Keys
  PROVE  InSessions(pairs, P) \in SUBSET (P \X Students) /\ InSessions(pairs, P) \in SUBSET Keys
BY DEF InSessions, Keys

\* A step of one recalculator changes the number of those without a time by its own.
LEMMA UntimedCounts ==
  ASSUME SummaryInductive, NEW w \in Recalculators, NEW new \in Recalc, recalc' = [recalc EXCEPT ![w] = new]
  PROVE  /\ IsFiniteSet(Untimed') /\ Cardinality(Untimed) \in Nat
         /\ Cardinality(Untimed') = Cardinality(Untimed) + (IF new.pc \in Reading THEN 1 ELSE 0)
                                                         - (IF recalc[w].pc \in Reading THEN 1 ELSE 0)
<1>1. IsFiniteSet(Untimed) /\ recalc \in [Recalculators -> Recalc]
  BY DEF SummaryInductive, SummaryTypeOK
<1>2. Cardinality(Untimed) \in Nat
  BY <1>1, FS_CardinalityType
<1>3. recalc'[w] = new /\ \A v \in Recalculators \ {w} : recalc'[v] = recalc[v]
  BY <1>1
<1>4. (w \in Untimed) = (recalc[w].pc \in Reading)
  BY DEF Untimed
<1>5. CASE new.pc \in Reading
  <2>1. Untimed' = Untimed \cup {w}
    BY <1>3, <1>5 DEF Untimed
  <2>2. Cardinality(Untimed \cup {w}) = IF w \in Untimed THEN Cardinality(Untimed) ELSE Cardinality(Untimed) + 1
    BY <1>1, FS_AddElement
  <2> QED BY <1>1, <1>2, <1>4, <1>5, <2>1, <2>2, FS_AddElement
<1>6. CASE new.pc \notin Reading
  <2>1. Untimed' = Untimed \ {w}
    BY <1>3, <1>6 DEF Untimed
  <2>2. Cardinality(Untimed \ {w}) = IF w \in Untimed THEN Cardinality(Untimed) - 1 ELSE Cardinality(Untimed)
    BY <1>1, FS_RemoveElement
  <2> QED BY <1>1, <1>2, <1>4, <1>6, <2>1, <2>2, FS_RemoveElement
<1> QED BY <1>5, <1>6

\* One recalculator takes the step, alone or noted as overlapped.
LEMMA RecalculatorMoves ==
  ASSUME SummaryInductive, NEW w \in Recalculators, NEW new \in Recalc, recalc' = [recalc EXCEPT ![w] = new],
         submitted' \in SUBSET Periods, absent' \in SUBSET Keys, covered' \in SUBSET Keys,
         absent' \subseteq submitted' \X Students, changes' \in 0..SummaryChanges, clock' \in Nat,
         overlapped' \in BOOLEAN, row' \in [Students -> Row], RowAddsUp', AloneFresh',
         clock' + Cardinality(Untimed') <= changes', CountsGood(new), ~overlapped' => ReadAlone(new)',
         ~overlapped' => \A v \in Recalculators \ {w} : recalc[v].pc = "idle"
  PROVE  SummaryInductive'
<1>1. recalc \in [Recalculators -> Recalc] /\ \A v \in Recalculators : CountsGood(recalc[v])
  BY DEF SummaryInductive, SummaryTypeOK
<1>2. recalc' \in [Recalculators -> Recalc] /\ recalc'[w] = new /\ \A v \in Recalculators \ {w} : recalc'[v] = recalc[v]
  BY <1>1
<1>3. IsFiniteSet(Untimed') /\ Cardinality(Untimed') \in Nat
  BY UntimedCounts, FS_CardinalityType
<1>4. clock' \in 0..SummaryChanges
  BY <1>3, SummaryBounds
<1>5. \A v \in Recalculators : CountsGood(recalc[v])'
  BY <1>1, <1>2 DEF CountsGood
<1>6. ASSUME ~overlapped', NEW v \in Recalculators PROVE ReadAlone(recalc[v])'
  <2>1. CASE v = w
    BY <1>2, <1>6, <2>1 DEF ReadAlone
  <2>2. CASE v # w
    BY <1>2, <1>6, <2>2 DEF ReadAlone
  <2> QED BY <2>1, <2>2
<1>7. ~overlapped' => \A u, v \in Recalculators : recalc'[u].pc # "idle" /\ recalc'[v].pc # "idle" => u = v
  BY <1>2
<1>8. SummaryTypeOK'
  BY <1>2, <1>4 DEF SummaryTypeOK
<1> QED BY <1>3, <1>5, <1>6, <1>7, <1>8 DEF SummaryInductive, RowsInvariant

\* A request begins.
LEMMA RequestBegins ==
  ASSUME SummaryInductive, NEW w \in Recalculators, NEW pc \in {"reconcile", "sessions"}, StartRequest(w, pc),
         submitted' \in SUBSET Periods, absent' \in SUBSET Keys, covered' \in SUBSET Keys,
         absent' \subseteq submitted' \X Students, UNCHANGED <<clock, row>>
  PROVE  SummaryInductive'
<1> DEFINE new == [NoRecalc EXCEPT !.pc = pc]
<1>1. /\ recalc \in [Recalculators -> Recalc] /\ changes \in 0..SummaryChanges /\ clock \in Nat /\ row \in [Students -> Row]
      /\ RowAddsUp /\ clock + Cardinality(Untimed) <= changes
  BY DEF SummaryInductive, SummaryTypeOK, RowsInvariant
<1>2. new \in Recalc /\ new.pc = pc
  BY SummaryRows DEF Recalc, NoRecalc
<1>3. /\ recalc' = [recalc EXCEPT ![w] = new] /\ recalc[w].pc = "idle" /\ changes < SummaryChanges
      /\ changes' = changes + 1 /\ overlapped' = (\E v \in Recalculators : recalc[v].pc # "idle")
  BY DEF StartRequest
<1> HIDE DEF new
<1>4. new.pc \in Reading /\ recalc[w].pc \notin Reading
  BY <1>2, <1>3 DEF Reading
<1>5. Cardinality(Untimed') = Cardinality(Untimed) + 1 /\ Cardinality(Untimed) \in Nat
  <2>1. /\ Cardinality(Untimed') = Cardinality(Untimed) + (IF new.pc \in Reading THEN 1 ELSE 0)
                                                       - (IF recalc[w].pc \in Reading THEN 1 ELSE 0)
        /\ Cardinality(Untimed) \in Nat
    BY <1>2, <1>3, UntimedCounts
  <2> QED BY <1>4, <2>1
<1>6. changes' \in 0..SummaryChanges /\ clock' + Cardinality(Untimed') <= changes'
  BY <1>1, <1>3, <1>5, SummaryBounds
<1>7. RowAddsUp'
  BY <1>1 DEF RowAddsUp
<1>8. recalc'[w] = new
  BY <1>1, <1>3
<1>9. AloneFresh'
  BY <1>2, <1>8 DEF AloneFresh, SummaryQuiet
<1>10. CountsGood(new) /\ ReadAlone(new)'
  BY <1>2 DEF CountsGood, ReadAlone
<1>11. overlapped' \in BOOLEAN /\ (~overlapped' => \A v \in Recalculators \ {w} : recalc[v].pc = "idle")
  BY <1>3
<1> QED BY <1>1, <1>2, <1>3, <1>6, <1>7, <1>9, <1>10, <1>11, RecalculatorMoves

\* A recalculation goes on; of the facts and the rows nothing but the coverages changes.
LEMMA RecalculationGoesOn ==
  ASSUME SummaryInductive, NEW w \in Recalculators, NEW new \in Recalc, recalc' = [recalc EXCEPT ![w] = new],
         recalc[w].pc # "idle", new.pc # "idle", UNCHANGED <<submitted, absent, changes, row, overlapped>>,
         covered' \in SUBSET Keys, clock' \in Nat, CountsGood(new), ~overlapped => ReadAlone(new)',
         \/ clock' = clock /\ (new.pc \in Reading => recalc[w].pc \in Reading)
         \/ clock' = clock + 1 /\ recalc[w].pc \in Reading /\ new.pc \notin Reading
  PROVE  SummaryInductive'
<1>1. /\ recalc \in [Recalculators -> Recalc] /\ changes \in 0..SummaryChanges /\ clock \in Nat /\ row \in [Students -> Row]
      /\ submitted \in SUBSET Periods /\ absent \in SUBSET Keys /\ absent \subseteq submitted \X Students
      /\ RowAddsUp /\ clock + Cardinality(Untimed) <= changes /\ overlapped \in BOOLEAN
  BY DEF SummaryInductive, SummaryTypeOK, RowsInvariant
<1>2. /\ Cardinality(Untimed') = Cardinality(Untimed) + (IF new.pc \in Reading THEN 1 ELSE 0)
                                                     - (IF recalc[w].pc \in Reading THEN 1 ELSE 0)
      /\ Cardinality(Untimed) \in Nat
  BY UntimedCounts
<1>3. clock' + Cardinality(Untimed') <= changes'
  <2>1. CASE clock' = clock /\ (new.pc \in Reading => recalc[w].pc \in Reading)
    <3>1. Cardinality(Untimed') <= Cardinality(Untimed) /\ Cardinality(Untimed') \in Int
      BY <1>2, <2>1
    <3> QED BY <1>1, <1>2, <2>1, <3>1
  <2>2. CASE clock' = clock + 1 /\ recalc[w].pc \in Reading /\ new.pc \notin Reading
    <3>1. Cardinality(Untimed') = Cardinality(Untimed) - 1
      BY <1>2, <2>2
    <3> QED BY <1>1, <1>2, <2>2, <3>1
  <2> QED BY <2>1, <2>2
<1>4. RowAddsUp'
  BY <1>1 DEF RowAddsUp
<1>5. recalc'[w] = new
  BY <1>1
<1>6. AloneFresh'
  BY <1>5 DEF AloneFresh, SummaryQuiet
<1>7. ~overlapped => \A v \in Recalculators \ {w} : recalc[v].pc = "idle"
  BY DEF SummaryInductive
<1> QED BY <1>1, <1>3, <1>4, <1>6, <1>7, RecalculatorMoves

\* The queries of a recalculation, and its time.
LEMMA RecalculationReads ==
  ASSUME SummaryInductive, NEW w \in Recalculators,
         ReadSessions(w) \/ ReadMarks(w) \/ ReadPairs(w) \/ ReadCoverages(w) \/ LockRows(w)
  PROVE  SummaryInductive'
<1> DEFINE r == recalc[w]
<1>1. /\ recalc \in [Recalculators -> Recalc] /\ r \in Recalc /\ clock \in Nat
      /\ submitted \in SUBSET Periods /\ absent \in SUBSET Keys /\ covered \in SUBSET Keys
      /\ absent \subseteq submitted \X Students
      /\ CountsGood(r) /\ (~overlapped => ReadAlone(r))
  BY DEF SummaryInductive, SummaryTypeOK
<1>2. r.sessions \in SUBSET Periods /\ r.pairs \in SUBSET Keys
  BY <1>1 DEF Recalc
<1>3. UNCHANGED <<submitted, absent, covered, changes, row, overlapped>>
  BY DEF ReadSessions, ReadMarks, ReadPairs, ReadCoverages, LockRows, facts
<1>4. InSessions(absent, submitted) = absent
  BY <1>1 DEF InSessions
<1>5. ASSUME NEW new \in Recalc, ReadAlone(new) PROVE ReadAlone(new)'
  BY <1>3, <1>5 DEF ReadAlone
<1>6. CASE ReadSessions(w)
  <2> DEFINE new == [r EXCEPT !.pc = "marks", !.sessions = submitted]
  <2>1. r.pc = "sessions" /\ recalc' = [recalc EXCEPT ![w] = new] /\ clock' = clock
    BY <1>1, <1>6 DEF ReadSessions
  <2>2. new \in Recalc /\ new.pc = "marks" /\ new.sessions = submitted
    BY <1>1 DEF Recalc
  <2> HIDE DEF new
  <2>3. CountsGood(new) /\ ReadAlone(new)
    BY <2>2 DEF CountsGood, ReadAlone
  <2>4. recalc[w].pc \in Reading
    BY <2>1 DEF Reading
  <2> QED BY <1>1, <1>3, <1>5, <2>1, <2>2, <2>3, <2>4, RecalculationGoesOn
<1>7. CASE ReadMarks(w)
  <2> DEFINE count == [s \in Students |-> Cardinality(Of(InSessions(absent, r.sessions), s))]
             new == [r EXCEPT !.pc = "pairs", !.absent = count]
  <2>1. r.pc = "marks" /\ recalc' = [recalc EXCEPT ![w] = new] /\ clock' = clock
    BY <1>1, <1>7 DEF ReadMarks
  <2>2. InSessions(absent, r.sessions) \in SUBSET (r.sessions \X Students)
    BY <1>1, <1>2, MarksOfSessions
  <2>3. \A s \in Students : count[s] \in Nat /\ count[s] <= Cardinality(r.sessions)
    BY <1>2, <2>2, OneMarkAPeriod
  <2>4. count \in [Students -> Nat]
    BY <2>3
  <2>5. ~overlapped => r.sessions = submitted /\ \A s \in Students : count[s] = Cardinality(Of(absent, s))
    BY <1>1, <1>4, <2>1 DEF ReadAlone
  <2> HIDE DEF count
  <2>6. new \in Recalc /\ new.pc = "pairs" /\ new.sessions = r.sessions /\ new.absent = count
    BY <1>1, <2>4 DEF Recalc
  <2> HIDE DEF new
  <2>7. CountsGood(new) /\ (~overlapped => ReadAlone(new))
    BY <2>3, <2>5, <2>6 DEF CountsGood, ReadAlone
  <2>8. recalc[w].pc \in Reading
    BY <2>1 DEF Reading
  <2> QED BY <1>1, <1>3, <1>5, <2>1, <2>6, <2>7, <2>8, RecalculationGoesOn
<1>8. CASE ReadPairs(w)
  <2> DEFINE new == [r EXCEPT !.pc = "coverages", !.pairs = InSessions(absent, r.sessions)]
  <2>1. r.pc = "pairs" /\ recalc' = [recalc EXCEPT ![w] = new] /\ clock' = clock
    BY <1>1, <1>8 DEF ReadPairs
  <2>2. InSessions(absent, r.sessions) \in SUBSET Keys
    BY <1>1, <1>2, MarksOfSessions
  <2>3. /\ new \in Recalc /\ new.pc = "coverages" /\ new.sessions = r.sessions /\ new.absent = r.absent
        /\ new.pairs = InSessions(absent, r.sessions)
    BY <1>1, <2>2 DEF Recalc
  <2> HIDE DEF new
  <2>4. CountsGood(new) /\ (~overlapped => ReadAlone(new))
    BY <1>1, <1>4, <2>1, <2>3 DEF CountsGood, ReadAlone
  <2>5. recalc[w].pc \in Reading
    BY <2>1 DEF Reading
  <2> QED BY <1>1, <1>3, <1>5, <2>1, <2>3, <2>4, <2>5, RecalculationGoesOn
<1>9. CASE ReadCoverages(w)
  <2> DEFINE excused == [s \in Students |-> Matched(w, s)]
             at == clock + 1
             new == [r EXCEPT !.pc = "lock", !.now = at, !.excused = excused]
  <2>1. r.pc = "coverages" /\ recalc' = [recalc EXCEPT ![w] = new] /\ clock' = clock + 1
    BY <1>1, <1>9 DEF ReadCoverages
  <2>2. InSessions(covered, r.sessions) \cap r.pairs \in SUBSET (r.sessions \X Students)
    BY <1>1, <1>2, MarksOfSessions
  <2>3. \A s \in Students : excused[s] \in Nat
    BY <1>2, <2>2, OneMarkAPeriod DEF Matched
  <2>4. excused \in [Students -> Nat]
    BY <2>3
  <2>5. ~overlapped => \A s \in Students : excused[s] = Cardinality(Of(absent \cap covered, s))
    <3> SUFFICES ASSUME ~overlapped, NEW s \in Students
                 PROVE  Matched(w, s) = Cardinality(Of(absent \cap covered, s))
      OBVIOUS
    <3>1. r.sessions = submitted /\ r.pairs = absent
      BY <1>1, <2>1 DEF ReadAlone
    <3>2. InSessions(covered, submitted) \cap absent = absent \cap covered
      BY <1>1 DEF InSessions
    <3> QED BY <3>1, <3>2 DEF Matched
  <2>9. at \in Nat /\ clock' = at
    BY <1>1, <2>1
  <2> HIDE DEF excused, at
  <2>6. /\ new \in Recalc /\ new.pc = "lock" /\ new.sessions = r.sessions /\ new.absent = r.absent
        /\ new.pairs = r.pairs /\ new.excused = excused
    BY <1>1, <2>4, <2>9 DEF Recalc
  <2>10. recalc' = [recalc EXCEPT ![w] = new]
    BY <2>1 DEF at
  <2> HIDE DEF new
  <2>7. CountsGood(new) /\ (~overlapped => ReadAlone(new))
    BY <1>1, <2>1, <2>5, <2>6 DEF CountsGood, ReadAlone
  <2>8. recalc[w].pc \in Reading /\ new.pc \notin Reading
    BY <2>1, <2>6 DEF Reading
  <2> QED BY <1>1, <1>3, <1>5, <2>1, <2>6, <2>7, <2>8, <2>9, <2>10, RecalculationGoesOn
<1>10. CASE LockRows(w)
  <2> DEFINE there == {s \in Students : row[s].exists}
             new == [r EXCEPT !.pc = "commit", !.existing = there]
  <2>1. r.pc = "lock" /\ recalc' = [recalc EXCEPT ![w] = new] /\ clock' = clock
    BY <1>1, <1>10 DEF LockRows
  <2>2. /\ new \in Recalc /\ new.pc = "commit" /\ new.sessions = r.sessions /\ new.absent = r.absent
        /\ new.pairs = r.pairs /\ new.excused = r.excused /\ new.existing = there
    BY <1>1 DEF Recalc
  <2> HIDE DEF new
  <2>3. CountsGood(new) /\ (~overlapped => ReadAlone(new))
    BY <1>1, <2>1, <2>2 DEF CountsGood, ReadAlone
  <2>4. new.pc \notin Reading
    BY <2>2 DEF Reading
  <2> QED BY <1>1, <1>3, <1>5, <2>1, <2>2, <2>3, <2>4, RecalculationGoesOn
<1> QED BY <1>6, <1>7, <1>8, <1>9, <1>10

\* What build_fields returns is a row that adds up.
LEMMA FieldsAddUp ==
  ASSUME NEW sub \in Nat, NEW abs \in Nat, NEW excused \in Nat, NEW at \in Nat, abs <= sub,
         NEW f, f = Fields(sub, abs, excused, at)
  PROVE  /\ f \in Row /\ f.exists /\ f.calculatedAt = at
         /\ f.present + f.absent = f.submitted
         /\ f.excused + f.unexcused = f.absent
         /\ f.status = "FULL" <=> f.submitted > 0 /\ f.present = 0
         /\ f.status = "UNDETERMINED" <=> f.submitted = 0
<1> DEFINE complete == IF Complete(sub) THEN "COMPLETE" ELSE "INCOMPLETE"
<1>1. /\ Status(sub, abs) \in {"UNDETERMINED", "NONE", "PARTIAL", "FULL"}
      /\ Status(sub, abs) = "FULL" <=> sub > 0 /\ abs = sub
      /\ Status(sub, abs) = "UNDETERMINED" <=> sub = 0
  BY DEF Status
<1>2. Excused(excused, abs) \in Nat /\ Excused(excused, abs) <= abs
  BY DEF Excused
<1>3. complete \in {"COMPLETE", "INCOMPLETE"}
  OBVIOUS
<1>4. f = [exists |-> TRUE, submitted |-> sub, absent |-> abs, present |-> IF sub > abs THEN sub - abs ELSE 0,
           excused |-> Excused(excused, abs), unexcused |-> abs - Excused(excused, abs),
           completeness |-> complete, status |-> Status(sub, abs), calculatedAt |-> at]
  BY DEF Fields
<1> HIDE DEF complete
<1>5. /\ f.exists /\ f.submitted = sub /\ f.absent = abs /\ f.present = sub - abs /\ f.calculatedAt = at
      /\ f.excused = Excused(excused, abs) /\ f.unexcused = abs - Excused(excused, abs) /\ f.status = Status(sub, abs)
  BY <1>4
<1>6. f \in Row
  BY <1>1, <1>2, <1>3, <1>4 DEF Row
<1> QED BY <1>1, <1>2, <1>5, <1>6

\* The recalculation commits; alone, it has overwritten every row.
LEMMA CommitStep ==
  ASSUME SummaryInductive, NEW w \in Recalculators, Commit(w)
  PROVE  SummaryInductive'
<1> DEFINE r == recalc[w]
           new == [s \in Students |-> Fields(Cardinality(r.sessions), r.absent[s], r.excused[s], r.now)]
<1>1. /\ recalc \in [Recalculators -> Recalc] /\ r \in Recalc /\ row \in [Students -> Row]
      /\ changes \in 0..SummaryChanges /\ clock \in Nat /\ overlapped \in BOOLEAN
      /\ submitted \in SUBSET Periods /\ absent \in SUBSET Keys /\ covered \in SUBSET Keys
      /\ absent \subseteq submitted \X Students /\ clock + Cardinality(Untimed) <= changes
      /\ CountsGood(r) /\ (~overlapped => ReadAlone(r)) /\ RowAddsUp
  BY DEF SummaryInductive, SummaryTypeOK, RowsInvariant
<1>2. /\ r.pc = "commit" /\ recalc' = [recalc EXCEPT ![w] = NoRecalc]
      /\ UNCHANGED <<submitted, absent, covered, changes, clock, overlapped>>
  BY DEF Commit, facts
<1>3. row' = [s \in Students |-> IF s \in r.existing \/ ~row[s].exists \/ row[s].calculatedAt < r.now
                                 THEN new[s] ELSE row[s]]
  BY DEF Commit
<1>4. Cardinality(r.sessions) \in Nat /\ r.now \in Nat
  BY <1>1, PeriodsFinite, FS_Subset, FS_CardinalityType DEF Recalc
<1>5. \A s \in Students : r.absent[s] \in Nat /\ r.excused[s] \in Nat /\ r.absent[s] <= Cardinality(r.sessions)
  BY <1>1, <1>2 DEF Recalc, CountsGood
<1>6. \A s \in Students : /\ new[s] \in Row /\ new[s].exists /\ new[s].calculatedAt = r.now
                          /\ new[s].present + new[s].absent = new[s].submitted
                          /\ new[s].excused + new[s].unexcused = new[s].absent
                          /\ new[s].status = "FULL" <=> new[s].submitted > 0 /\ new[s].present = 0
                          /\ new[s].status = "UNDETERMINED" <=> new[s].submitted = 0
  <2> SUFFICES ASSUME NEW s \in Students
               PROVE  /\ new[s] \in Row /\ new[s].exists /\ new[s].calculatedAt = r.now
                      /\ new[s].present + new[s].absent = new[s].submitted
                      /\ new[s].excused + new[s].unexcused = new[s].absent
                      /\ new[s].status = "FULL" <=> new[s].submitted > 0 /\ new[s].present = 0
                      /\ new[s].status = "UNDETERMINED" <=> new[s].submitted = 0
    OBVIOUS
  <2> DEFINE f == new[s]
             sub == Cardinality(r.sessions)
             abs == r.absent[s]
             excused == r.excused[s]
             at == r.now
  <2>1. f = Fields(sub, abs, excused, at)
    OBVIOUS
  <2>2. sub \in Nat /\ abs \in Nat /\ excused \in Nat /\ at \in Nat /\ abs <= sub
    BY <1>4, <1>5
  <2>3. /\ f \in Row /\ f.exists /\ f.calculatedAt = at
        /\ f.present + f.absent = f.submitted
        /\ f.excused + f.unexcused = f.absent
        /\ f.status = "FULL" <=> f.submitted > 0 /\ f.present = 0
        /\ f.status = "UNDETERMINED" <=> f.submitted = 0
    <3> HIDE DEF f, sub, abs, excused, at
    <3> QED BY <2>1, <2>2, FieldsAddUp
  <2> QED BY <2>3
<1>7. ~overlapped => \A s \in Students :
        /\ row[s].exists => s \in r.existing
        /\ new[s] = Fields(Cardinality(submitted), Cardinality(Of(absent, s)), Cardinality(Of(absent \cap covered, s)), r.now)
  BY <1>1, <1>2 DEF ReadAlone
<1> HIDE DEF new
<1>8. \A s \in Students : row'[s] \in {new[s], row[s]}
                          /\ (s \in r.existing \/ ~row[s].exists => row'[s] = new[s])
  BY <1>3
<1>9. row' = [s \in Students |-> row'[s]]
  BY <1>3
<1>10. row' \in [Students -> Row]
  BY <1>1, <1>6, <1>8, <1>9
<1>11. RowAddsUp'
  BY <1>1, <1>6, <1>8 DEF RowAddsUp
<1>12. AloneFresh'
  <2> SUFFICES ASSUME ~overlapped', NEW s \in Students, row'[s].exists PROVE Fresh(s)'
    BY DEF AloneFresh
  <2>1. row'[s] = new[s]
    BY <1>2, <1>7, <1>8
  <2>2. row'[s].calculatedAt = r.now
    BY <1>6, <2>1
  <2> QED BY <1>2, <1>7, <2>1, <2>2 DEF Fresh
<1>13. NoRecalc \in Recalc /\ NoRecalc.pc = "idle"
  BY SummaryRows DEF NoRecalc
<1>14. CountsGood(NoRecalc) /\ ReadAlone(NoRecalc)'
  BY <1>13 DEF CountsGood, ReadAlone
<1>15. clock' + Cardinality(Untimed') <= changes'
  <2>1. NoRecalc.pc \notin Reading /\ recalc[w].pc \notin Reading
    BY <1>2, <1>13 DEF Reading
  <2>2. /\ Cardinality(Untimed') = Cardinality(Untimed) + (IF NoRecalc.pc \in Reading THEN 1 ELSE 0)
                                                       - (IF recalc[w].pc \in Reading THEN 1 ELSE 0)
        /\ Cardinality(Untimed) \in Nat
    BY <1>2, <1>13, UntimedCounts
  <2>3. Cardinality(Untimed') = Cardinality(Untimed)
    BY <2>1, <2>2
  <2> QED BY <1>1, <1>2, <2>3
<1>16. ~overlapped => \A v \in Recalculators \ {w} : recalc[v].pc = "idle"
  BY <1>2 DEF SummaryInductive
<1> QED BY <1>1, <1>2, <1>10, <1>11, <1>12, <1>13, <1>14, <1>15, <1>16, RecalculatorMoves

\* The requests that recalculate.
LEMMA SummaryRequests ==
  ASSUME SummaryInductive, NEW w \in Recalculators,
         \/ \E p \in Periods, S \in SUBSET Students : ChangeAttendance(w, p, S)
         \/ \E C \in SUBSET (submitted \X Students) : ReconcileCoverage(w, C) \/ DecideExcuse(w, C)
         \/ Repair(w)
  PROVE  SummaryInductive'
<1>1. /\ submitted \in SUBSET Periods /\ absent \in SUBSET Keys /\ covered \in SUBSET Keys
      /\ absent \subseteq submitted \X Students /\ recalc \in [Recalculators -> Recalc] /\ clock \in Nat
  BY DEF SummaryInductive, SummaryTypeOK
<1>2. ASSUME NEW p \in Periods, NEW S \in SUBSET Students, ChangeAttendance(w, p, S) PROVE SummaryInductive'
  <2>1. /\ StartRequest(w, "reconcile") /\ submitted' = submitted \cup {p} /\ UNCHANGED <<covered, clock, row>>
        /\ absent' = {k \in absent : k[1] # p} \cup ({p} \X S)
    BY <1>2 DEF ChangeAttendance
  <2>2. submitted' \in SUBSET Periods /\ absent' \in SUBSET Keys /\ absent' \subseteq submitted' \X Students
    BY <1>1, <2>1 DEF Keys
  <2> QED BY <1>1, <2>1, <2>2, RequestBegins
<1>3. ASSUME NEW C \in SUBSET (submitted \X Students) PROVE C \in SUBSET Keys
  BY <1>1 DEF Keys
<1>4. ASSUME NEW C \in SUBSET (submitted \X Students), DecideExcuse(w, C) PROVE SummaryInductive'
  BY <1>1, <1>3, <1>4, RequestBegins DEF DecideExcuse
<1>5. CASE Repair(w)
  BY <1>1, <1>5, RequestBegins DEF Repair
<1>6. ASSUME NEW C \in SUBSET (submitted \X Students), ReconcileCoverage(w, C) PROVE SummaryInductive'
  <2> DEFINE new == [recalc[w] EXCEPT !.pc = "sessions"]
  <2>1. /\ recalc[w].pc = "reconcile" /\ covered' = C /\ recalc' = [recalc EXCEPT ![w] = new]
        /\ UNCHANGED <<submitted, absent, changes, clock, row, overlapped>>
    BY <1>1, <1>6 DEF ReconcileCoverage
  <2>2. new \in Recalc /\ new.pc = "sessions"
    BY <1>1 DEF Recalc
  <2> HIDE DEF new
  <2>3. CountsGood(new)
    BY <2>2 DEF CountsGood
  <2>5. ASSUME NEW k \in Recalc, k.pc = "sessions" PROVE ReadAlone(k)'
    BY <2>5 DEF ReadAlone
  <2>4. recalc[w].pc \in Reading
    BY <2>1 DEF Reading
  <2> QED BY <1>1, <1>3, <2>1, <2>2, <2>3, <2>4, <2>5, RecalculationGoesOn
<1> QED BY <1>2, <1>4, <1>5, <1>6

\* Every request and every step of a recalculation.
LEMMA SummaryStep == SummaryInductive /\ [SummaryNext]_summaryVars => SummaryInductive'
<1> SUFFICES ASSUME SummaryInductive, [SummaryNext]_summaryVars PROVE SummaryInductive'
  OBVIOUS
<1>1. CASE UNCHANGED summaryVars
  <2>1. UNCHANGED <<submitted, absent, covered, changes, clock, row, overlapped, recalc>>
    BY <1>1 DEF summaryVars
  <2>2. SummaryTypeOK' /\ RowsInvariant'
    BY <2>1 DEF SummaryInductive, SummaryTypeOK, RowsInvariant, RowAddsUp, AloneFresh, SummaryQuiet, Fresh
  <2>3. Untimed' = Untimed /\ \A w \in Recalculators : CountsGood(recalc[w])' /\ (~overlapped' => ReadAlone(recalc[w])')
    BY <2>1 DEF SummaryInductive, Untimed, CountsGood, ReadAlone
  <2> QED BY <2>1, <2>2, <2>3 DEF SummaryInductive
<1>2. CASE SummaryNext
  BY <1>2, SummaryRequests, RecalculationReads, CommitStep DEF SummaryNext, Recalculate
<1> QED BY <1>1, <1>2

\* No attendance, no rows, nobody at work.
LEMMA SummaryStarts == SummaryInit => SummaryInductive
<1> SUFFICES ASSUME SummaryInit PROVE SummaryInductive
  OBVIOUS
<1>1. /\ submitted = {} /\ absent = {} /\ covered = {} /\ changes = 0 /\ clock = 0 /\ overlapped = FALSE
      /\ row = [s \in Students |-> NoRow] /\ recalc = [w \in Recalculators |-> NoRecalc]
  BY DEF SummaryInit
<1>2. SummaryTypeOK
  <2>1. 0 \in 0..SummaryChanges /\ {} \in SUBSET Periods /\ {} \in SUBSET Keys
    BY SummaryBounds
  <2>2. row \in [Students -> Row] /\ recalc \in [Recalculators -> Recalc]
    BY <1>1, SummaryRows
  <2>3. overlapped \in BOOLEAN
    BY <1>1
  <2> QED BY <1>1, <2>1, <2>2, <2>3, Zenon DEF SummaryTypeOK
<1>3. RowAddsUp /\ AloneFresh
  BY <1>1 DEF RowAddsUp, AloneFresh, NoRow
<1>4. \A w \in Recalculators : recalc[w].pc = "idle"
  BY <1>1 DEF NoRecalc
<1>5. Untimed = {}
  BY <1>4 DEF Untimed, Reading
<1>6. IsFiniteSet(Untimed) /\ clock + Cardinality(Untimed) <= changes
  BY <1>1, <1>5, FS_EmptySet
<1> QED BY <1>1, <1>2, <1>3, <1>4, <1>6 DEF SummaryInductive, RowsInvariant, CountsGood, ReadAlone

-----------------------------------------------------------------------------
(* The contracts of a school.                                               *)

Operations == {"extend_trial", "change_plan", "extend", "suspend", "reactivate", "cancel"}
Errand == [op: {"none"} \cup Opening \cup Operations, plan: Offers, row: Nat, at: 0..LastDay,
           seen: Contract \cup {NoContract}]

FreeUsed == \E c \in DOMAIN contracts : contracts[c].wasFree
Locks(act) == act.seen # NoContract

\* A request works on the contract whose row it holds, as the row is; the one that opens a
\* contract stands on the newest; who checked that the free plan is unused may rely on it.
ErrandGood(act) ==
  /\ act.row \in 0..Newest
  /\ act.op \in Opening => Newest < MaxContracts /\ (act.plan = "free" => ~FreeUsed)
  /\ act.op = "start_trial" => act.row = 0 /\ ~Locks(act)
  /\ act.op = "activate" => act.row = Newest /\ act.at >= 1
  /\ Locks(act) =>
       /\ act.op # "none" /\ act.row \in DOMAIN contracts /\ act.seen = contracts[act.row]
       /\ act.op = "change_plan" => act.seen.status \in LiveStatuses /\ (act.plan = "free" => ~FreeUsed)
       /\ act.op = "extend_trial" => act.seen.trial < LastEnd
       /\ act.op = "extend" => act.seen.ends < LastEnd

\* One opens at a time, and one holds a row.
Apart(f) == \A q, r \in Admins :
  \/ (f[q].op \in Opening /\ f[r].op \in Opening)
  \/ (Locks(f[q]) /\ Locks(f[r]) /\ f[q].row = f[r].row)
  => q = r

SubInductive ==
  /\ SubTypeOK /\ ContractsInvariant
  /\ actions \in [Admins -> Errand]
  /\ \A q \in Admins : ErrandGood(actions[q])
  /\ Apart(actions)

\* The request that does nothing has its type, and holds nothing.
LEMMA NoErrand == /\ NoAction \in Errand /\ NoAction.op = "none" /\ ~Locks(NoAction) /\ NoAction.row = 0
                  /\ \A r \in Contract : r # NoContract
<1>1. \A r \in Contract : r.status # "none"
  BY DEF Contract, LiveStatuses
<1>2. NoContract.status = "none"
  BY DEF NoContract
<1>3. 0 \in 0..LastDay
  BY SubBounds
<1> QED BY <1>1, <1>2, <1>3 DEF NoAction, Errand, Offers, Locks

\* A function on the first n numbers is a sequence of n.
LEMMA FunctionIsSequence ==
  ASSUME NEW S, NEW n \in Nat, NEW f \in [1..n -> S]
  PROVE  f \in Seq(S) /\ Len(f) = n /\ DOMAIN f = 1..n
<1>1. f \in Seq(S)
  BY SeqDef
<1> QED BY <1>1, LenProperties

\* uniq_live_subscription: of two live contracts one would be refused.
LEMMA OneLive ==
  ASSUME NEW rows \in Seq(Contract), Unique(rows), NEW c \in DOMAIN rows, NEW d \in DOMAIN rows,
         rows[c].status \in LiveStatuses, rows[d].status \in LiveStatuses
  PROVE  c = d
<1> SUFFICES ASSUME c # d PROVE FALSE
  OBVIOUS
<1> DEFINE live == {k \in DOMAIN rows : rows[k].status \in LiveStatuses}
<1>1. DOMAIN rows = 1..Len(rows) /\ Len(rows) \in Nat
  BY LenProperties
<1>2. IsFiniteSet(live)
  <2>1. IsFiniteSet(1..Len(rows))
    BY <1>1, FS_Interval
  <2>2. live \in SUBSET (1..Len(rows))
    BY <1>1
  <2> HIDE DEF live
  <2> QED BY <2>1, <2>2, FS_Subset
<1>3. IsFiniteSet({c}) /\ Cardinality({c}) = 1
  BY FS_Singleton
<1>4. Cardinality({c} \cup {d}) = 2
  <2>1. Cardinality({c} \cup {d}) = IF d \in {c} THEN Cardinality({c}) ELSE Cardinality({c}) + 1
    BY <1>3, FS_AddElement
  <2>2. d \notin {c}
    OBVIOUS
  <2>3. Cardinality({c} \cup {d}) = Cardinality({c}) + 1
    BY <2>1, <2>2
  <2>4. Cardinality({c} \cup {d}) = 1 + 1
    BY <1>3, <2>3
  <2> QED BY <2>4
<1>5. ({c} \cup {d}) \in SUBSET live
  OBVIOUS
<1>6. Cardinality(live) <= 1
  BY DEF Unique
<1> HIDE DEF live
<1>7. 2 <= Cardinality(live) /\ Cardinality(live) \in Nat
  BY <1>2, <1>4, <1>5, FS_Subset, FS_CardinalityType
<1> QED BY <1>6, <1>7

\* The contracts change, but nothing that a request under way relies on.
LEMMA ErrandKeeps ==
  ASSUME SubInductive, NEW u \in Admins, actions'[u] = actions[u],
         contracts' \in Seq(Contract), Newest' >= Newest,
         Locks(actions[u]) => contracts'[actions[u].row] = contracts[actions[u].row],
         actions[u].op \in Opening => Newest' = Newest,
         actions[u].op \in Opening \/ (actions[u].op = "change_plan" /\ Locks(actions[u])) => (FreeUsed' => FreeUsed)
  PROVE  ErrandGood(actions[u])'
<1>1. contracts \in Seq(Contract) /\ ErrandGood(actions[u]) /\ actions[u] \in Errand
  BY DEF SubInductive, SubTypeOK
<1>2. DOMAIN contracts = 1..Newest /\ DOMAIN contracts' = 1..Newest' /\ Newest \in Nat /\ Newest' \in Nat
  BY <1>1, LenProperties DEF Newest
<1> DEFINE act == actions[u]
<1>3. act.row \in 0..Newest'
  BY <1>1, <1>2 DEF ErrandGood
<1>4. /\ act.op \in Opening => Newest' < MaxContracts /\ (act.plan = "free" => ~FreeUsed')
      /\ act.op = "start_trial" => act.row = 0 /\ ~Locks(act)
      /\ act.op = "activate" => act.row = Newest' /\ act.at >= 1
  BY <1>1 DEF ErrandGood, Opening
<1>5. Locks(act) =>
       /\ act.op # "none" /\ act.row \in DOMAIN contracts' /\ act.seen = contracts'[act.row]
       /\ act.op = "change_plan" => act.seen.status \in LiveStatuses /\ (act.plan = "free" => ~FreeUsed')
       /\ act.op = "extend_trial" => act.seen.trial < LastEnd
       /\ act.op = "extend" => act.seen.ends < LastEnd
  BY <1>1, <1>2 DEF ErrandGood
<1>6. actions'[u] = act
  OBVIOUS
<1> HIDE DEF act
<1> QED BY <1>3, <1>4, <1>5, <1>6 DEF ErrandGood, Locks

\* One request takes the step.
LEMMA ActionMoves ==
  ASSUME SubInductive, NEW q \in Admins, NEW new \in Errand, actions' = [actions EXCEPT ![q] = new],
         SubTypeOK', ContractsInvariant', ErrandGood(actions[q])',
         new.op \in Opening => \A u \in Admins \ {q} : actions[u].op \notin Opening,
         Locks(new) => \A u \in Admins \ {q} : Locks(actions[u]) => actions[u].row # new.row,
         \A u \in Admins \ {q} : ErrandGood(actions[u])'
  PROVE  SubInductive'
<1>1. actions \in [Admins -> Errand] /\ Apart(actions)
  BY DEF SubInductive
<1>2. actions' \in [Admins -> Errand] /\ actions'[q] = new /\ \A u \in Admins \ {q} : actions'[u] = actions[u]
  BY <1>1
<1>3. Apart(actions)'
  BY <1>1, <1>2 DEF Apart, Locks
<1> QED BY <1>2, <1>3 DEF SubInductive

\* One request takes the step, and the contracts stay.
LEMMA ActionOnly ==
  ASSUME SubInductive, NEW q \in Admins, NEW new \in Errand, actions' = [actions EXCEPT ![q] = new],
         UNCHANGED <<contracts, expiring, now>>, ErrandGood(new),
         new.op \in Opening => \A u \in Admins \ {q} : actions[u].op \notin Opening,
         Locks(new) => \A u \in Admins \ {q} : Locks(actions[u]) => actions[u].row # new.row
  PROVE  SubInductive'
<1>1. actions \in [Admins -> Errand] /\ contracts \in Seq(Contract) /\ SubTypeOK
  BY DEF SubInductive, SubTypeOK
<1>2. actions'[q] = new /\ \A u \in Admins \ {q} : actions'[u] = actions[u]
  BY <1>1
<1>3. Newest' = Newest /\ FreeUsed' = FreeUsed /\ Newest \in Nat
  BY <1>1, LenProperties DEF Newest, FreeUsed
<1>4. ErrandGood(actions[q])'
  BY <1>2, <1>3 DEF ErrandGood, Locks
<1>5. \A u \in Admins \ {q} : ErrandGood(actions[u])'
  BY <1>1, <1>2, <1>3, ErrandKeeps
<1>6. ContractsInvariant'
  BY DEF SubInductive, ContractsInvariant, OneLiveContract, FreeOnce, ExtensionsAddUp
<1>7. SubTypeOK'
  <2>1. \A u \in Admins : actions'[u].row \in 0..Newest' /\ actions'[u].seen \in Contract \cup {NoContract}
    BY <1>1, <1>2, <1>3 DEF SubTypeOK, ErrandGood, Errand
  <2> QED BY <1>1, <1>3, <2>1 DEF SubTypeOK
<1> QED BY <1>4, <1>5, <1>6, <1>7, ActionMoves

\* A request ends without a trace.
LEMMA RollsBack ==
  ASSUME SubInductive, NEW q \in Admins, actions' = [actions EXCEPT ![q] = NoAction],
         UNCHANGED <<contracts, expiring, now>>
  PROVE  SubInductive'
<1>1. contracts \in Seq(Contract)
  BY DEF SubInductive, SubTypeOK
<1>2. Newest \in Nat
  BY <1>1, LenProperties DEF Newest
<1>3. ErrandGood(NoAction)
  BY <1>2, NoErrand DEF ErrandGood, Opening
<1> QED BY <1>3, NoErrand, ActionOnly DEF Opening

\* start_trial and activate up to the lock of the school.
LEMMA OpeningChecks ==
  ASSUME SubInductive, NEW q \in Admins, NEW plan \in Offers, StartTrialCheck(q, plan) \/ ActivateCheck(q, plan)
  PROVE  SubInductive'
<1>1. contracts \in Seq(Contract) /\ now \in 1..LastDay /\ Newest \in Nat
  BY LenProperties DEF SubInductive, SubTypeOK, Newest
<1>2. /\ SchoolFree /\ Newest < MaxContracts /\ (plan = "free" => ~FreeUsed)
      /\ Enter(q, "start_trial", plan, 0) \/ Enter(q, "activate", plan, Newest)
  BY DEF StartTrialCheck, ActivateCheck, OfferAvailable, FreeUsed
<1>3. ASSUME NEW op \in Opening, NEW r \in Nat, NEW at \in 0..LastDay,
             op = "start_trial" => r = 0, op = "activate" => r = Newest /\ at >= 1,
             actions' = [actions EXCEPT ![q] = [NoAction EXCEPT !.op = op, !.plan = plan, !.row = r, !.at = at]],
             UNCHANGED <<contracts, expiring, now>>
      PROVE  SubInductive'
  <2> DEFINE new == [NoAction EXCEPT !.op = op, !.plan = plan, !.row = r, !.at = at]
  <2>1. new \in Errand /\ new.op = op /\ new.plan = plan /\ new.row = r /\ new.at = at /\ new.seen = NoContract
    BY NoErrand DEF Errand, NoAction
  <2>2. actions' = [actions EXCEPT ![q] = new]
    BY <1>3
  <2> HIDE DEF new
  <2>3. ErrandGood(new) /\ ~Locks(new)
    BY <1>1, <1>2, <1>3, <2>1 DEF ErrandGood, Locks, Opening
  <2>4. \A u \in Admins : actions[u].op \notin Opening
    BY <1>2 DEF SchoolFree
  <2> QED BY <1>3, <2>1, <2>2, <2>3, <2>4, ActionOnly
<1>4. CASE Enter(q, "start_trial", plan, 0)
  <2>1. actions' = [actions EXCEPT ![q] = [NoAction EXCEPT !.op = "start_trial", !.plan = plan, !.row = 0, !.at = 0]]
        /\ UNCHANGED <<contracts, expiring, now>>
    BY <1>4 DEF Enter
  <2>2. "start_trial" \in Opening /\ 0 \in 0..LastDay
    BY SubBounds DEF Opening
  <2> QED BY <1>3, <2>1, <2>2
<1>5. CASE Enter(q, "activate", plan, Newest)
  <2>1. actions' = [actions EXCEPT ![q] = [NoAction EXCEPT !.op = "activate", !.plan = plan, !.row = Newest, !.at = now]]
        /\ UNCHANGED <<contracts, expiring, now>>
    BY <1>5 DEF Enter
  <2>2. "activate" \in Opening /\ now \in 0..LastDay /\ now >= 1
    BY <1>1, SubBounds DEF Opening
  <2> QED BY <1>1, <1>3, <2>1, <2>2
<1> QED BY <1>2, <1>4, <1>5

\* A request gets the row it has chosen, which admits its operation.
LEMMA TakesRow ==
  ASSUME SubInductive, NEW q \in Admins, NEW act \in Errand, act.row \in DOMAIN contracts, ErrandGood(act),
         Accepts(act, contracts[act.row]), RowUnlocked(act.row),
         actions' = [actions EXCEPT ![q] = [act EXCEPT !.seen = contracts[act.row]]],
         UNCHANGED <<contracts, expiring, now>>,
         act.op \in Opening => \A u \in Admins \ {q} : actions[u].op \notin Opening
  PROVE  SubInductive'
<1> DEFINE new == [act EXCEPT !.seen = contracts[act.row]]
<1>1. contracts \in Seq(Contract) /\ DOMAIN contracts = 1..Newest /\ Newest \in Nat
  BY LenProperties DEF SubInductive, SubTypeOK, Newest
<1>2. contracts[act.row] \in Contract
  BY <1>1, ElementOfSeq DEF Newest
<1>3. /\ new \in Errand /\ new.op = act.op /\ new.plan = act.plan /\ new.row = act.row /\ new.at = act.at
      /\ new.seen = contracts[act.row]
  BY <1>2 DEF Errand
<1> HIDE DEF new
<1>4. /\ act.op \notin {"none", "start_trial"}
      /\ act.op = "change_plan" => contracts[act.row].status \in LiveStatuses /\ (act.plan = "free" => ~FreeUsed)
      /\ act.op = "extend_trial" => contracts[act.row].trial < LastEnd
      /\ act.op = "extend" => contracts[act.row].ends < LastEnd
  BY DEF Accepts, OfferAvailable, FreeUsed
<1>5. ErrandGood(new)
  BY <1>3, <1>4 DEF ErrandGood
<1>6. \A u \in Admins : Locks(actions[u]) => actions[u].row # new.row
  BY <1>3 DEF RowUnlocked, Locks
<1>7. actions' = [actions EXCEPT ![q] = new]
  BY DEF new
<1> QED BY <1>3, <1>5, <1>6, <1>7, ActionOnly

\* An operation chooses the newest contract, and its row when it is free.
LEMMA ChooseStep ==
  ASSUME SubInductive, NEW q \in Admins, NEW op \in Operations, NEW plan \in Offers, ChooseNewest(q, op, plan)
  PROVE  SubInductive'
<1> DEFINE act == [NoAction EXCEPT !.op = op, !.plan = plan, !.row = Newest]
<1>1. contracts \in Seq(Contract) /\ DOMAIN contracts = 1..Newest /\ Newest \in Nat /\ Newest > 0
  BY LenProperties DEF SubInductive, SubTypeOK, Newest, ChooseNewest
<1>2. /\ act \in Errand /\ act.op = op /\ act.plan = plan /\ act.row = Newest /\ ~Locks(act)
  BY <1>1, NoErrand DEF Errand, NoAction, Locks
<1>3. op \notin Opening /\ op # "start_trial" /\ op # "activate"
  BY DEF Operations, Opening
<1>4. /\ RowUnlocked(Newest) => Accepts(act, contracts[Newest])
      /\ actions' = [actions EXCEPT ![q] = IF RowUnlocked(Newest) THEN [act EXCEPT !.seen = contracts[Newest]] ELSE act]
      /\ UNCHANGED <<contracts, expiring, now>>
  BY Zenon DEF ChooseNewest
<1> HIDE DEF act
<1>5. ErrandGood(act)
  BY <1>1, <1>2, <1>3 DEF ErrandGood
<1>6. CASE RowUnlocked(Newest)
  <2>1. Accepts(act, contracts[act.row]) /\ RowUnlocked(act.row) /\ act.row \in DOMAIN contracts
    BY <1>1, <1>2, <1>4, <1>6
  <2>2. actions' = [actions EXCEPT ![q] = [act EXCEPT !.seen = contracts[act.row]]]
    BY <1>2, <1>4, <1>6
  <2> QED BY <1>2, <1>3, <1>4, <1>5, <2>1, <2>2, TakesRow
<1>7. CASE ~RowUnlocked(Newest)
  BY <1>2, <1>3, <1>4, <1>5, <1>7, ActionOnly
<1> QED BY <1>6, <1>7

\* The wait for the row is over.
LEMMA LockStep ==
  ASSUME SubInductive, NEW q \in Admins, LockRow(q)
  PROVE  SubInductive'
<1> DEFINE act == actions[q]
<1>1. /\ contracts \in Seq(Contract) /\ DOMAIN contracts = 1..Newest /\ Newest \in Nat /\ act \in Errand
      /\ actions \in [Admins -> Errand] /\ ErrandGood(act) /\ Apart(actions)
  BY LenProperties DEF SubInductive, SubTypeOK, Newest
<1>2. /\ act.row > 0 /\ RowUnlocked(act.row) /\ Accepts(act, contracts[act.row])
      /\ actions' = [actions EXCEPT ![q] = [act EXCEPT !.seen = contracts[act.row]]]
      /\ UNCHANGED <<contracts, expiring, now>>
  BY <1>1 DEF LockRow
<1>3. act.row \in DOMAIN contracts
  BY <1>1, <1>2 DEF ErrandGood
<1>4. act.op \in Opening => \A u \in Admins \ {q} : actions[u].op \notin Opening
  BY <1>1 DEF Apart
<1> QED BY <1>1, <1>2, <1>3, <1>4, TakesRow

\* What an operation makes of the row it has read.
LEMMA AppliedRow ==
  ASSUME NEW act \in Errand, NEW old \in Contract, act.op \in Operations, now \in 1..LastDay,
         act.op = "extend_trial" => old.trial < LastEnd, act.op = "extend" => old.ends < LastEnd
  PROVE  /\ Applied(act, old) \in Contract
         /\ Applied(act, old).wasFree => old.wasFree \/ (act.op = "change_plan" /\ act.plan = "free")
         /\ Applied(act, old).trial = 0 =>
              /\ old.trial = 0
              /\ Applied(act, old).ends >= old.ends + (IF act.op = "extend" THEN 1 ELSE 0)
<1>1. /\ old.trial \in 0..LastEnd /\ old.ends \in 1..LastEnd /\ LastEnd \in Nat /\ LastDay \in Nat /\ LastDay < LastEnd
      /\ old.wasFree \in BOOLEAN /\ act.plan \in Offers
  BY SubBounds DEF Contract, Errand
<1>2. CASE act.op = "extend_trial"
  <2> DEFINE end == old.trial + 1
  <2>1. Applied(act, old) = [old EXCEPT !.trial = end, !.ends = end]
    BY <1>2 DEF Applied
  <2>2. end \in 1..LastEnd /\ end \in 0..LastEnd /\ end # 0
    BY <1>1, <1>2
  <2> HIDE DEF end
  <2> QED BY <2>1, <2>2 DEF Contract
<1>3. CASE act.op = "change_plan"
  <2> DEFINE free == old.wasFree \/ act.plan = "free"
  <2>1. Applied(act, old) = [old EXCEPT !.plan = act.plan, !.wasFree = free]
    BY <1>3 DEF Applied
  <2>2. free \in BOOLEAN /\ (free => old.wasFree \/ act.plan = "free")
    OBVIOUS
  <2> HIDE DEF free
  <2>3. /\ [old EXCEPT !.plan = act.plan, !.wasFree = free] \in Contract
        /\ [old EXCEPT !.plan = act.plan, !.wasFree = free].wasFree = free
        /\ [old EXCEPT !.plan = act.plan, !.wasFree = free].trial = old.trial
        /\ [old EXCEPT !.plan = act.plan, !.wasFree = free].ends = old.ends
    BY <1>1, <2>2 DEF Contract
  <2> QED BY <1>1, <1>3, <2>1, <2>2, <2>3
<1>4. CASE act.op = "extend"
  <2> DEFINE end == Later(old.ends, now) + 1
             status == IF old.status = "EXPIRED" THEN "ACTIVE" ELSE old.status
  <2>1. Applied(act, old) = [old EXCEPT !.ends = end, !.status = status]
    BY <1>4 DEF Applied
  <2>2. end \in 1..LastEnd /\ end >= old.ends + 1
    BY <1>1, <1>4 DEF Later
  <2>3. status \in LiveStatuses \cup {"EXPIRED", "SUSPENDED", "CANCELLED"}
    BY DEF Contract, LiveStatuses
  <2> HIDE DEF end, status
  <2> QED BY <1>4, <2>1, <2>2, <2>3 DEF Contract
<1>5. ASSUME NEW status \in LiveStatuses \cup {"EXPIRED", "SUSPENDED", "CANCELLED"}, NEW b \in BOOLEAN,
             Applied(act, old) = [old EXCEPT !.status = status, !.suspended = b], act.op # "extend"
      PROVE  /\ Applied(act, old) \in Contract
             /\ Applied(act, old).wasFree => old.wasFree \/ (act.op = "change_plan" /\ act.plan = "free")
             /\ Applied(act, old).trial = 0 =>
                  /\ old.trial = 0
                  /\ Applied(act, old).ends >= old.ends + (IF act.op = "extend" THEN 1 ELSE 0)
  <2>1. /\ [old EXCEPT !.status = status, !.suspended = b] \in Contract
        /\ [old EXCEPT !.status = status, !.suspended = b].wasFree = old.wasFree
        /\ [old EXCEPT !.status = status, !.suspended = b].trial = old.trial
        /\ [old EXCEPT !.status = status, !.suspended = b].ends = old.ends
    BY DEF Contract
  <2> QED BY <1>1, <1>5, <2>1
<1>6. CASE act.op = "suspend"
  <2>1. Applied(act, old) = [old EXCEPT !.status = "SUSPENDED", !.suspended = TRUE]
    BY <1>6 DEF Applied
  <2>2. "SUSPENDED" \in LiveStatuses \cup {"EXPIRED", "SUSPENDED", "CANCELLED"} /\ act.op # "extend"
    BY <1>6
  <2> QED BY <1>5, <2>1, <2>2
<1>7. CASE act.op = "reactivate"
  <2> DEFINE status == IF old.ends > now THEN "ACTIVE" ELSE "EXPIRED"
  <2>1. Applied(act, old) = [old EXCEPT !.status = status, !.suspended = FALSE]
    BY <1>7 DEF Applied
  <2>2. status \in LiveStatuses \cup {"EXPIRED", "SUSPENDED", "CANCELLED"}
    BY DEF LiveStatuses
  <2> HIDE DEF status
  <2>3. act.op # "extend"
    BY <1>7
  <2> QED BY <1>5, <2>1, <2>2, <2>3
<1>8. CASE act.op = "cancel"
  <2>1. Applied(act, old) = [old EXCEPT !.status = "CANCELLED"]
    BY <1>8 DEF Applied
  <2>2. [old EXCEPT !.status = "CANCELLED"] = [old EXCEPT !.status = "CANCELLED", !.suspended = old.suspended]
        /\ old.suspended \in BOOLEAN
    BY DEF Contract
  <2>3. "CANCELLED" \in LiveStatuses \cup {"EXPIRED", "SUSPENDED", "CANCELLED"} /\ act.op # "extend"
    BY <1>8
  <2> QED BY <1>5, <2>1, <2>2, <2>3
<1> QED BY <1>1, <1>2, <1>3, <1>4, <1>6, <1>7, <1>8 DEF Operations

\* One contract is saved; the rest is as before.
LEMMA RowSaved ==
  ASSUME contracts \in Seq(Contract), NEW c \in DOMAIN contracts, NEW x \in Contract, contracts' = [contracts EXCEPT ![c] = x]
  PROVE  /\ contracts' \in Seq(Contract) /\ Newest' = Newest /\ Newest \in Nat
         /\ DOMAIN contracts = 1..Newest /\ DOMAIN contracts' = 1..Newest
         /\ \A d \in 1..Newest : contracts'[d] = IF d = c THEN x ELSE contracts[d]
<1>1. DOMAIN contracts = 1..Len(contracts) /\ Len(contracts) \in Nat
  BY LenProperties
<1>2. /\ contracts' \in Seq(Contract) /\ Len(contracts') = Len(contracts)
      /\ \A d \in 1..Len(contracts) : contracts'[d] = IF d = c THEN x ELSE contracts[d]
  BY <1>1, ExceptSeq
<1>3. DOMAIN contracts' = 1..Len(contracts')
  BY <1>2, LenProperties
<1> QED BY <1>1, <1>2, <1>3 DEF Newest

\* The commit of an operation on the row it holds.
LEMMA SaveStep ==
  ASSUME SubInductive, NEW q \in Admins, SaveRow(q)
  PROVE  SubInductive'
<1> DEFINE act == actions[q]
           r == act.row
           old == contracts[r]
           promised == old.granted + (IF act.op = "extend" /\ old.trial = 0 THEN 1 ELSE 0)
           x == [Applied(act, act.seen) EXCEPT !.granted = promised]
<1>1. /\ contracts \in Seq(Contract) /\ DOMAIN contracts = 1..Newest /\ Newest \in Nat /\ now \in 1..LastDay
      /\ actions \in [Admins -> Errand] /\ act \in Errand /\ ErrandGood(act) /\ Apart(actions)
      /\ OneLiveContract /\ FreeOnce /\ ExtensionsAddUp /\ expiring \subseteq DOMAIN contracts /\ Newest <= MaxContracts
  BY LenProperties DEF SubInductive, SubTypeOK, ContractsInvariant, Newest
<1>2. /\ act.op \notin Opening /\ Locks(act) /\ SchoolFree /\ Unique(contracts')
      /\ contracts' = [contracts EXCEPT ![r] = x] /\ actions' = [actions EXCEPT ![q] = NoAction]
      /\ UNCHANGED <<expiring, now>>
  BY DEF SaveRow, CommitAction, Referable, Locks
<1>3. r \in 1..Newest /\ act.seen = old /\ act.op \in Operations
  BY <1>1, <1>2 DEF ErrandGood, Errand
<1>4. old \in Contract
  BY <1>1, <1>3, ElementOfSeq DEF Newest
<1>5. promised \in Nat /\ promised = old.granted + (IF act.op = "extend" /\ old.trial = 0 THEN 1 ELSE 0) /\ old.granted \in Nat
  BY <1>4 DEF Contract
<1>6. /\ Applied(act, old) \in Contract
      /\ Applied(act, old).wasFree => old.wasFree \/ (act.op = "change_plan" /\ act.plan = "free")
      /\ Applied(act, old).trial = 0 =>
           /\ old.trial = 0
           /\ Applied(act, old).ends >= old.ends + (IF act.op = "extend" THEN 1 ELSE 0)
  <2>1. (act.op = "extend_trial" => old.trial < LastEnd) /\ (act.op = "extend" => old.ends < LastEnd)
    BY <1>1, <1>2, <1>3 DEF ErrandGood
  <2> HIDE DEF old, act
  <2> QED BY <1>1, <1>3, <1>4, <2>1, AppliedRow
<1> HIDE DEF promised
<1>7. /\ x \in Contract /\ x.granted = promised /\ x.trial = Applied(act, old).trial /\ x.ends = Applied(act, old).ends
      /\ x.wasFree = Applied(act, old).wasFree
  BY <1>3, <1>5, <1>6 DEF Contract
<1> HIDE DEF x
<1>8. /\ contracts' \in Seq(Contract) /\ Newest' = Newest /\ DOMAIN contracts' = 1..Newest
      /\ \A d \in 1..Newest : contracts'[d] = IF d = r THEN x ELSE contracts[d]
  BY <1>1, <1>2, <1>3, <1>7, RowSaved
<1>9. x.wasFree => old.wasFree \/ (act.op = "change_plan" /\ act.plan = "free" /\ ~FreeUsed)
  BY <1>1, <1>2, <1>6, <1>7 DEF ErrandGood
<1>10. OneLiveContract'
  <2> SUFFICES ASSUME NEW c \in DOMAIN contracts', NEW d \in DOMAIN contracts',
                      {contracts'[c].status, contracts'[d].status} \subseteq LiveStatuses
               PROVE  c = d
    BY DEF OneLiveContract
  <2> QED BY <1>2, <1>8, OneLive
<1>11. FreeOnce'
  <2> SUFFICES ASSUME NEW c \in DOMAIN contracts', NEW d \in DOMAIN contracts',
                      contracts'[c].wasFree, contracts'[d].wasFree
               PROVE  c = d
    BY DEF FreeOnce
  <2>1. c \in DOMAIN contracts /\ d \in DOMAIN contracts
    BY <1>1, <1>8
  <2>2. CASE FreeUsed
    <3>1. contracts[c].wasFree /\ contracts[d].wasFree
      BY <1>8, <1>9, <2>1, <2>2
    <3> QED BY <1>1, <2>1, <3>1 DEF FreeOnce
  <2>3. CASE ~FreeUsed
    <3>1. ~contracts[c].wasFree /\ ~contracts[d].wasFree
      BY <2>1, <2>3 DEF FreeUsed
    <3> QED BY <1>8, <2>1, <3>1
  <2> QED BY <2>2, <2>3
<1>12. ExtensionsAddUp'
  <2> SUFFICES ASSUME NEW c \in 1..Newest, contracts'[c].trial = 0 PROVE contracts'[c].ends >= contracts'[c].granted
    BY <1>8 DEF ExtensionsAddUp
  <2>1. CASE c # r
    BY <1>1, <1>8, <2>1 DEF ExtensionsAddUp
  <2>2. CASE c = r
    <3>1. contracts'[c] = x /\ old.trial = 0 /\ Applied(act, old).ends >= old.ends + (IF act.op = "extend" THEN 1 ELSE 0)
      BY <1>6, <1>7, <1>8, <2>2
    <3>2. old.ends >= old.granted /\ old.ends \in Nat /\ x.ends \in Nat
      <4>1. old.ends >= old.granted
        BY <1>1, <1>3, <3>1 DEF ExtensionsAddUp
      <4>2. old.ends \in Nat /\ x.ends \in Nat
        BY <1>4, <1>7, SubBounds DEF Contract
      <4> QED BY <4>1, <4>2
    <3>3. promised = old.granted + (IF act.op = "extend" THEN 1 ELSE 0)
      BY <1>5, <3>1
    <3>4. x.ends >= old.ends + (IF act.op = "extend" THEN 1 ELSE 0)
      BY <1>7, <3>1
    <3> HIDE DEF old, act
    <3>5. x.ends >= promised
      BY <1>5, <3>2, <3>3, <3>4
    <3> QED BY <1>7, <3>1, <3>5
  <2> QED BY <2>1, <2>2
<1>13. \A u \in Admins \ {q} : ErrandGood(actions[u])'
  <2> SUFFICES ASSUME NEW u \in Admins \ {q} PROVE ErrandGood(actions[u])'
    OBVIOUS
  <2>1. actions'[u] = actions[u] /\ ErrandGood(actions[u]) /\ actions[u].op \notin Opening
    BY <1>1, <1>2 DEF SubInductive, SchoolFree
  <2>2. Locks(actions[u]) => actions[u].row \in 1..Newest /\ actions[u].row # r
    BY <1>1, <1>2, <2>1 DEF Apart, ErrandGood
  <2>3. ASSUME actions[u].op = "change_plan", Locks(actions[u]), FreeUsed' PROVE FreeUsed
    <3> SUFFICES ASSUME ~FreeUsed PROVE FALSE
      OBVIOUS
    <3>1. PICK c \in 1..Newest : contracts'[c].wasFree
      BY <1>8, <2>3 DEF FreeUsed
    <3>2. c = r /\ x.wasFree /\ ~old.wasFree
      BY <1>1, <1>3, <1>8, <3>1 DEF FreeUsed
    <3>3. act.op = "change_plan"
      BY <1>9, <3>2
    <3>4. contracts[r].status \in LiveStatuses /\ contracts[actions[u].row].status \in LiveStatuses
      BY <1>1, <1>2, <1>3, <2>1, <2>3, <3>3 DEF ErrandGood
    <3> QED BY <1>1, <1>3, <2>2, <2>3, <3>4 DEF OneLiveContract
  <2>4. Locks(actions[u]) => contracts'[actions[u].row] = contracts[actions[u].row]
    BY <1>8, <2>2
  <2> QED BY <1>1, <1>8, <2>1, <2>3, <2>4, ErrandKeeps
<1>14. actions'[q] = NoAction /\ \A u \in Admins \ {q} : actions'[u] = actions[u]
  BY <1>1, <1>2
<1>15. ErrandGood(actions[q])'
  BY <1>1, <1>8, <1>14, NoErrand DEF ErrandGood, Opening
<1>16. SubTypeOK'
  <2>1. \A u \in Admins : actions'[u].row \in 0..Newest' /\ actions'[u].seen \in Contract \cup {NoContract}
    <3>1. ASSUME NEW k \in Errand, ErrandGood(k) PROVE k.row \in 0..Newest /\ k.seen \in Contract \cup {NoContract}
      BY <3>1 DEF ErrandGood, Errand
    <3>2. NoAction.row \in 0..Newest /\ NoAction.seen \in Contract \cup {NoContract}
      BY <1>1, NoErrand DEF NoAction
    <3>3. \A u \in Admins : actions[u] \in Errand /\ ErrandGood(actions[u])
      BY <1>1 DEF SubInductive
    <3> QED BY <1>8, <1>14, <3>1, <3>2, <3>3
  <2> QED BY <1>1, <1>2, <1>8, <2>1 DEF SubTypeOK
<1> QED BY <1>2, <1>10, <1>11, <1>12, <1>13, <1>15, <1>16, NoErrand, ActionMoves DEF ContractsInvariant, Opening

\* The prior contract is closed, and the new one put behind it.
LEMMA OpenedRows ==
  ASSUME contracts \in Seq(Contract), NEW x \in Contract, contracts' = Append(Closed(contracts), x)
  PROVE  /\ contracts' \in Seq(Contract) /\ Newest' = Newest + 1 /\ Newest \in Nat /\ contracts'[Newest + 1] = x
         /\ DOMAIN contracts = 1..Newest /\ DOMAIN contracts' = 1..Newest + 1
         /\ \A c \in 1..Newest : /\ c # Newest => contracts'[c] = contracts[c]
                                 /\ contracts'[c].wasFree = contracts[c].wasFree
                                 /\ contracts'[c].trial = contracts[c].trial
                                 /\ contracts'[c].ends = contracts[c].ends
                                 /\ contracts'[c].granted = contracts[c].granted
<1> DEFINE closed(c) == [contracts[c] EXCEPT !.status = "EXPIRED"]
           rows == Closed(contracts)
<1>1. DOMAIN contracts = 1..Newest /\ Newest \in Nat /\ \A c \in 1..Newest : contracts[c] \in Contract
  BY LenProperties, ElementOfSeq DEF Newest
<1>2. \A c \in 1..Newest : /\ closed(c) \in Contract
                           /\ closed(c).wasFree = contracts[c].wasFree /\ closed(c).trial = contracts[c].trial
                           /\ closed(c).ends = contracts[c].ends /\ closed(c).granted = contracts[c].granted
  BY <1>1 DEF Contract
<1>3. rows = [c \in 1..Newest |-> IF c = Newest /\ contracts[c].status \in LiveStatuses THEN closed(c) ELSE contracts[c]]
  BY <1>1 DEF Closed, Newest
<1> HIDE DEF closed, rows
<1>4. /\ \A c \in 1..Newest : rows[c] \in {closed(c), contracts[c]} /\ (c # Newest => rows[c] = contracts[c])
      /\ rows = [c \in 1..Newest |-> rows[c]]
  BY <1>3
<1>5. rows \in [1..Newest -> Contract]
  BY <1>1, <1>2, <1>4
<1>6. rows \in Seq(Contract) /\ Len(rows) = Newest
  BY <1>1, <1>5, FunctionIsSequence
<1>7. contracts' = Append(rows, x)
  BY DEF rows
<1>8. /\ contracts' \in Seq(Contract) /\ Len(contracts') = Newest + 1 /\ contracts'[Newest + 1] = x
      /\ \A c \in 1..Newest : contracts'[c] = rows[c]
  BY <1>6, <1>7, AppendProperties
<1>9. DOMAIN contracts' = 1..Newest + 1
  BY <1>8, LenProperties
<1>10. \A c \in 1..Newest : /\ c # Newest => contracts'[c] = contracts[c]
                           /\ contracts'[c] \in {closed(c), contracts[c]}
  BY <1>4, <1>8
<1>11. \A c \in 1..Newest : /\ contracts'[c].wasFree = contracts[c].wasFree
                           /\ contracts'[c].trial = contracts[c].trial
                           /\ contracts'[c].ends = contracts[c].ends
                           /\ contracts'[c].granted = contracts[c].granted
  BY <1>2, <1>10
<1>12. Newest' = Newest + 1
  BY <1>8 DEF Newest
<1> QED BY <1>1, <1>8, <1>9, <1>10, <1>11, <1>12

\* What is opened is live, and counts as free when it is.
LEMMA OpenedContract ==
  ASSUME NEW status \in LiveStatuses, NEW plan \in Offers, NEW start \in 1..LastDay
  PROVE  /\ Opened(status, plan, start) \in Contract /\ Opened(status, plan, start).status \in LiveStatuses
         /\ Opened(status, plan, start).wasFree = (plan = "free")
         /\ Opened(status, plan, start).trial = 0 =>
              Opened(status, plan, start).ends >= Opened(status, plan, start).granted
<1> DEFINE end == start + 1
           trial == IF status = "TRIAL" THEN end ELSE 0
           granted == IF status = "TRIAL" THEN 0 ELSE end
           free == plan = "free"
<1>1. end \in 1..LastEnd /\ end \in Nat /\ trial \in 0..LastEnd /\ granted \in Nat /\ (trial = 0 => end >= granted)
  BY SubBounds
<1>2. free \in BOOLEAN
  OBVIOUS
<1>3. Opened(status, plan, start) = [status |-> status, plan |-> plan, wasFree |-> free, suspended |-> FALSE,
                                     trial |-> trial, ends |-> end, granted |-> granted]
  BY DEF Opened
<1>4. (plan = "free") = free
  OBVIOUS
<1> HIDE DEF end, trial, granted, free
<1>5. Opened(status, plan, start) \in Contract
  BY <1>1, <1>2, <1>3 DEF Contract
<1>6. /\ Opened(status, plan, start).status = status /\ Opened(status, plan, start).wasFree = free
      /\ Opened(status, plan, start).trial = trial /\ Opened(status, plan, start).ends = end
      /\ Opened(status, plan, start).granted = granted
  BY <1>3
<1> QED BY <1>1, <1>4, <1>5, <1>6

\* start_trial and activate commit.
LEMMA OpensContract ==
  ASSUME SubInductive, NEW q \in Admins, actions[q].op \in Opening, NEW status \in LiveStatuses, NEW start \in 1..LastDay,
         CommitAction(q, Append(Closed(contracts), Opened(status, actions[q].plan, start))),
         \A u \in Admins \ {q} : Locks(actions[u]) => actions[u].row # Newest
  PROVE  SubInductive'
<1> DEFINE plan == actions[q].plan
           x == Opened(status, plan, start)
<1>1. /\ contracts \in Seq(Contract) /\ DOMAIN contracts = 1..Newest /\ Newest \in Nat /\ now \in 1..LastDay
      /\ actions \in [Admins -> Errand] /\ actions[q] \in Errand /\ ErrandGood(actions[q]) /\ Apart(actions)
      /\ FreeOnce /\ ExtensionsAddUp /\ expiring \subseteq DOMAIN contracts
  BY LenProperties DEF SubInductive, SubTypeOK, ContractsInvariant, Newest
<1>2. plan \in Offers /\ Newest < MaxContracts /\ (plan = "free" => ~FreeUsed)
  BY <1>1 DEF Errand, ErrandGood
<1>3. /\ x \in Contract /\ x.status \in LiveStatuses /\ x.wasFree = (plan = "free") /\ (x.trial = 0 => x.ends >= x.granted)
  BY <1>2, OpenedContract
<1>4. /\ contracts' = Append(Closed(contracts), x) /\ Unique(contracts') /\ actions' = [actions EXCEPT ![q] = NoAction]
      /\ UNCHANGED <<expiring, now>>
  BY DEF CommitAction
<1> HIDE DEF plan, x
<1>5. /\ contracts' \in Seq(Contract) /\ Newest' = Newest + 1 /\ contracts'[Newest + 1] = x
      /\ DOMAIN contracts' = 1..Newest + 1
      /\ \A c \in 1..Newest : /\ c # Newest => contracts'[c] = contracts[c]
                              /\ contracts'[c].wasFree = contracts[c].wasFree
                              /\ contracts'[c].trial = contracts[c].trial
                              /\ contracts'[c].ends = contracts[c].ends
                              /\ contracts'[c].granted = contracts[c].granted
  BY <1>1, <1>3, <1>4, OpenedRows
<1>6. \A c \in 1..Newest + 1 : c \in 1..Newest \/ c = Newest + 1
  BY <1>1
<1>7. OneLiveContract'
  <2> SUFFICES ASSUME NEW c \in DOMAIN contracts', NEW d \in DOMAIN contracts',
                      {contracts'[c].status, contracts'[d].status} \subseteq LiveStatuses
               PROVE  c = d
    BY DEF OneLiveContract
  <2> QED BY <1>4, <1>5, OneLive
<1>8. FreeOnce'
  <2> SUFFICES ASSUME NEW c \in 1..Newest + 1, NEW d \in 1..Newest + 1, contracts'[c].wasFree, contracts'[d].wasFree
               PROVE  c = d
    BY <1>5 DEF FreeOnce
  <2>1. \A k \in 1..Newest + 1 : contracts'[k].wasFree =>
          \/ k \in 1..Newest /\ contracts[k].wasFree
          \/ k = Newest + 1 /\ ~FreeUsed
    BY <1>2, <1>3, <1>5, <1>6
  <2> QED BY <1>1, <2>1 DEF FreeOnce, FreeUsed
<1>9. ExtensionsAddUp'
  BY <1>1, <1>3, <1>5, <1>6 DEF ExtensionsAddUp
<1>10. actions'[q] = NoAction /\ \A u \in Admins \ {q} : actions'[u] = actions[u]
  BY <1>1, <1>4
<1>11. \A u \in Admins \ {q} : ErrandGood(actions[u])'
  <2> SUFFICES ASSUME NEW u \in Admins \ {q} PROVE ErrandGood(actions[u])'
    OBVIOUS
  <2>1. actions[u].op \notin Opening /\ ErrandGood(actions[u])
    BY <1>1 DEF Apart, SubInductive
  <2>2. Locks(actions[u]) => actions[u].row \in 1..Newest /\ actions[u].row # Newest /\ actions[u].seen = contracts[actions[u].row]
    BY <1>1, <2>1 DEF ErrandGood
  <2>3. Locks(actions[u]) => contracts'[actions[u].row] = contracts[actions[u].row]
    BY <1>5, <2>2
  <2>4. ~(actions[u].op = "change_plan" /\ Locks(actions[u]))
    <3> SUFFICES ASSUME actions[u].op = "change_plan", Locks(actions[u]) PROVE FALSE
      OBVIOUS
    <3> DEFINE c == actions[u].row
    <3>1. c \in 1..Newest + 1 /\ Newest + 1 \in 1..Newest + 1 /\ c # Newest + 1
      BY <1>1, <2>2
    <3>2. contracts'[c].status \in LiveStatuses /\ contracts'[Newest + 1].status \in LiveStatuses
      BY <1>3, <1>5, <2>1, <2>2, <2>3 DEF ErrandGood
    <3> QED BY <1>5, <1>7, <3>1, <3>2 DEF OneLiveContract
  <2>5. Newest' >= Newest
    BY <1>1, <1>5
  <2> QED BY <1>5, <1>10, <2>1, <2>3, <2>4, <2>5, ErrandKeeps
<1>12. ErrandGood(actions[q])'
  BY <1>1, <1>5, <1>10, NoErrand DEF ErrandGood, Opening
<1>13. SubTypeOK'
  <2>1. \A u \in Admins : actions'[u].row \in 0..Newest' /\ actions'[u].seen \in Contract \cup {NoContract}
    <3>1. ASSUME NEW k \in Errand, ErrandGood(k) PROVE k.row \in 0..Newest /\ k.seen \in Contract \cup {NoContract}
      BY <3>1 DEF ErrandGood, Errand
    <3>2. NoAction.row \in 0..Newest /\ NoAction.seen \in Contract \cup {NoContract}
      BY <1>1, NoErrand DEF NoAction
    <3>3. \A u \in Admins : actions[u] \in Errand /\ ErrandGood(actions[u])
      BY <1>1 DEF SubInductive
    <3>4. \A n \in 0..Newest : n \in 0..Newest'
      BY <1>1, <1>5
    <3> QED BY <1>10, <3>1, <3>2, <3>3, <3>4
  <2>2. Newest' <= MaxContracts
    BY <1>1, <1>2, <1>5, SubBounds
  <2>3. expiring' \subseteq DOMAIN contracts'
    BY <1>1, <1>4, <1>5
  <2> QED BY <1>1, <1>4, <1>5, <2>1, <2>2, <2>3 DEF SubTypeOK
<1> QED BY <1>4, <1>7, <1>8, <1>9, <1>11, <1>12, <1>13, NoErrand, ActionMoves DEF ContractsInvariant, Opening

\* The two operations that open a contract.
LEMMA OpeningSaves ==
  ASSUME SubInductive, NEW q \in Admins, StartTrialSave(q) \/ ActivateSave(q)
  PROVE  SubInductive'
<1>1. /\ contracts \in Seq(Contract) /\ DOMAIN contracts = 1..Newest /\ Newest \in Nat /\ now \in 1..LastDay
      /\ actions[q] \in Errand /\ ErrandGood(actions[q]) /\ Apart(actions) /\ \A u \in Admins : ErrandGood(actions[u])
  BY LenProperties DEF SubInductive, SubTypeOK, Newest
<1>2. CASE StartTrialSave(q)
  <2>1. /\ actions[q].op = "start_trial" /\ RowUnlocked(Newest)
        /\ CommitAction(q, Append(Closed(contracts), Opened("TRIAL", actions[q].plan, now)))
    BY <1>2 DEF StartTrialSave
  <2>2. \A u \in Admins \ {q} : Locks(actions[u]) => actions[u].row # Newest
    BY <2>1 DEF RowUnlocked, Locks
  <2>3. "TRIAL" \in LiveStatuses /\ actions[q].op \in Opening
    BY <2>1 DEF LiveStatuses, Opening
  <2> QED BY <1>1, <2>1, <2>2, <2>3, OpensContract
<1>3. CASE ActivateSave(q)
  <2>1. /\ actions[q].op = "activate" /\ (actions[q].row = 0 \/ Locks(actions[q]))
        /\ CommitAction(q, Append(Closed(contracts), Opened("ACTIVE", actions[q].plan, actions[q].at)))
    BY <1>3 DEF ActivateSave, Locks
  <2>2. actions[q].row = Newest /\ actions[q].at \in 1..LastDay
    BY <1>1, <2>1, SubBounds DEF ErrandGood, Errand
  <2>3. \A u \in Admins \ {q} : Locks(actions[u]) => actions[u].row # Newest
    <3> SUFFICES ASSUME NEW u \in Admins \ {q}, Locks(actions[u]), actions[u].row = Newest PROVE FALSE
      OBVIOUS
    <3>1. actions[u].row \in 1..Newest
      BY <1>1 DEF ErrandGood
    <3>2. Locks(actions[q])
      BY <1>1, <2>1, <2>2, <3>1
    <3> QED BY <1>1, <2>2, <3>2 DEF Apart
  <2>4. "ACTIVE" \in LiveStatuses /\ actions[q].op \in Opening
    BY <2>1 DEF LiveStatuses, Opening
  <2> QED BY <1>1, <2>1, <2>2, <2>3, <2>4, OpensContract
<1> QED BY <1>2, <1>3

\* sync_expirations stores a contract as expired, unless a request holds its row.
LEMMA SyncStep ==
  ASSUME SubInductive, NEW c \in expiring, SyncSave(c)
  PROVE  SubInductive'
<1> DEFINE x == [contracts[c] EXCEPT !.status = "EXPIRED"]
<1>1. /\ contracts \in Seq(Contract) /\ DOMAIN contracts = 1..Newest /\ Newest \in Nat /\ now \in 1..LastDay
      /\ expiring \subseteq DOMAIN contracts /\ SubTypeOK /\ ContractsInvariant
      /\ actions \in [Admins -> Errand] /\ Apart(actions) /\ \A u \in Admins : ErrandGood(actions[u])
  BY LenProperties DEF SubInductive, SubTypeOK, Newest
<1>2. /\ RowUnlocked(c) /\ contracts' = [contracts EXCEPT ![c] = x] /\ expiring' = expiring \ {c}
      /\ UNCHANGED <<actions, now>>
  BY <1>1 DEF SyncSave, SyncedStatus
<1>3. c \in 1..Newest /\ contracts[c] \in Contract
  BY <1>1, ElementOfSeq DEF Newest
<1>4. /\ x \in Contract /\ x.status = "EXPIRED" /\ x.wasFree = contracts[c].wasFree /\ x.trial = contracts[c].trial
      /\ x.ends = contracts[c].ends /\ x.granted = contracts[c].granted
  BY <1>3 DEF Contract
<1> HIDE DEF x
<1>5. /\ contracts' \in Seq(Contract) /\ Newest' = Newest /\ DOMAIN contracts' = 1..Newest
      /\ \A d \in 1..Newest : contracts'[d] = IF d = c THEN x ELSE contracts[d]
  BY <1>1, <1>2, <1>3, <1>4, RowSaved
<1>6. \A d \in 1..Newest : contracts'[d].wasFree = contracts[d].wasFree
  BY <1>4, <1>5
<1>7. OneLiveContract'
  <2>1. "EXPIRED" \notin LiveStatuses
    BY DEF LiveStatuses
  <2>2. \A d \in 1..Newest : contracts'[d].status \in LiveStatuses => contracts[d].status \in LiveStatuses
    BY <1>4, <1>5, <2>1
  <2> QED BY <1>1, <1>5, <2>2 DEF ContractsInvariant, OneLiveContract
<1>8. FreeOnce'
  BY <1>1, <1>5, <1>6 DEF ContractsInvariant, FreeOnce
<1>9. ExtensionsAddUp'
  BY <1>1, <1>3, <1>4, <1>5 DEF ContractsInvariant, ExtensionsAddUp
<1>10. FreeUsed' => FreeUsed
  BY <1>1, <1>5, <1>6 DEF FreeUsed
<1>11. \A u \in Admins : ErrandGood(actions[u])'
  <2> SUFFICES ASSUME NEW u \in Admins PROVE ErrandGood(actions[u])'
    OBVIOUS
  <2>1. Locks(actions[u]) => contracts'[actions[u].row] = contracts[actions[u].row]
    BY <1>1, <1>2, <1>5 DEF ErrandGood, RowUnlocked, Locks
  <2> QED BY <1>1, <1>2, <1>5, <1>10, <2>1, ErrandKeeps
<1>12. SubTypeOK'
  BY <1>1, <1>2, <1>5 DEF SubTypeOK
<1>13. Apart(actions)' /\ actions' \in [Admins -> Errand]
  BY <1>1, <1>2 DEF Apart, Locks
<1> QED BY <1>7, <1>8, <1>9, <1>11, <1>12, <1>13 DEF SubInductive, ContractsInvariant

\* The clock, the query of sync_expirations, and steps elsewhere.
LEMMA ContractsRest ==
  ASSUME SubInductive, UNCHANGED <<contracts, actions>>, expiring' \subseteq DOMAIN contracts, now' \in 1..LastDay
  PROVE  SubInductive'
<1>1. SubTypeOK'
  BY DEF SubInductive, SubTypeOK, Newest
<1>2. ContractsInvariant'
  BY DEF SubInductive, ContractsInvariant, OneLiveContract, FreeOnce, ExtensionsAddUp
<1>3. Apart(actions)' /\ actions' \in [Admins -> Errand]
  BY DEF SubInductive, Apart, Locks
<1>4. \A u \in Admins : ErrandGood(actions[u])'
  BY DEF SubInductive, ErrandGood, Locks, Newest, FreeUsed
<1> QED BY <1>1, <1>2, <1>3, <1>4 DEF SubInductive

\* Every step of the administrators, of the task and of the clock.
LEMMA ContractsStep == SubInductive /\ [SubNext]_subVars => SubInductive'
<1> SUFFICES ASSUME SubInductive, [SubNext]_subVars PROVE SubInductive'
  OBVIOUS
<1>1. now \in 1..LastDay /\ expiring \subseteq DOMAIN contracts
  BY DEF SubInductive, SubTypeOK
<1>2. CASE UNCHANGED subVars
  BY <1>1, <1>2, ContractsRest DEF subVars
<1>3. CASE SyncRead
  BY <1>1, <1>3, ContractsRest DEF SyncRead
<1>4. CASE NextDay
  <2>1. now' \in 1..LastDay /\ UNCHANGED <<contracts, actions, expiring>>
    BY <1>1, <1>4, SubBounds DEF NextDay
  <2> QED BY <1>1, <2>1, ContractsRest
<1>5. ASSUME NEW q \in Admins, NEW plan \in Offers,
             StartTrialCheck(q, plan) \/ ActivateCheck(q, plan) \/ ChooseNewest(q, "change_plan", plan)
      PROVE  SubInductive'
  BY <1>5, OpeningChecks, ChooseStep DEF Operations
<1>6. ASSUME NEW q \in Admins, NEW op \in {"extend_trial", "extend", "suspend", "reactivate", "cancel"},
             ChooseNewest(q, op, "paid")
      PROVE  SubInductive'
  <2>1. op \in Operations /\ "paid" \in Offers
    BY DEF Operations, Offers
  <2> QED BY <1>6, <2>1, ChooseStep
<1>7. ASSUME NEW q \in Admins, StartTrialSave(q) \/ ActivateSave(q) \/ LockRow(q) \/ SaveRow(q) \/ RollBack(q)
      PROVE  SubInductive'
  BY <1>7, OpeningSaves, LockStep, SaveStep, RollsBack DEF RollBack
<1> QED BY <1>2, <1>3, <1>4, <1>5, <1>6, <1>7, SyncStep DEF SubNext

\* No contract, nobody at work.
LEMMA ContractsStart == SubInit => SubInductive
<1> SUFFICES ASSUME SubInit PROVE SubInductive
  OBVIOUS
<1>1. contracts = <<>> /\ actions = [q \in Admins |-> NoAction] /\ expiring = {} /\ now = 1
  BY DEF SubInit
<1>2. contracts \in Seq(Contract) /\ Newest = 0 /\ DOMAIN contracts = {}
  <2>1. contracts \in Seq(Contract) /\ Len(contracts) = 0
    BY <1>1, EmptySeq
  <2>2. DOMAIN contracts = 1..Len(contracts)
    BY <2>1, LenProperties
  <2> QED BY <2>1, <2>2 DEF Newest
<1>3. actions \in [Admins -> Errand] /\ \A q \in Admins : actions[q] = NoAction
  BY <1>1, NoErrand
<1>4. \A q \in Admins : ErrandGood(actions[q])
  BY <1>2, <1>3, NoErrand DEF ErrandGood, Opening
<1>5. Apart(actions)
  BY <1>3, NoErrand DEF Apart, Opening
<1>6. SubTypeOK
  <2>1. \A q \in Admins : actions[q].row \in 0..Newest /\ actions[q].seen \in Contract \cup {NoContract}
    BY <1>2, <1>3 DEF NoAction
  <2>2. Newest <= MaxContracts /\ now \in 1..LastDay
    BY <1>1, <1>2, SubBounds
  <2> QED BY <1>1, <1>2, <2>1, <2>2 DEF SubTypeOK
<1>7. ContractsInvariant
  BY <1>2 DEF ContractsInvariant, OneLiveContract, FreeOnce, ExtensionsAddUp
<1> QED BY <1>3, <1>4, <1>5, <1>6, <1>7 DEF SubInductive

-----------------------------------------------------------------------------
(* The cached entitlements.                                                 *)

\* The request holds the key of the version it chose, and rows that are not older.
CacheInductive ==
  /\ committed \in Versions /\ pointer \in Nat
  /\ change \in {"idle", "open", "committed"} /\ (change = "open" => committed <= ContractChanges)
  /\ values \in [Versions -> Nat]
  /\ asks \in [Askers -> [pc: {"idle", "value", "contract", "rows", "store"}, key: Nat, rows: Nat]]
  /\ KeyNotOlder
  /\ \A a \in Askers :
       /\ asks[a].pc \in {"rows", "store"} => asks[a].key <= committed
       /\ asks[a].pc = "store" => asks[a].rows >= asks[a].key

\* A request takes a step, and what it stores is no older than its key.
LEMMA AskerMoves ==
  ASSUME CacheInductive, NEW a \in Askers, NEW pc, NEW key \in Nat, NEW rows \in Nat,
         pc \in {"idle", "value", "contract", "rows", "store"}, Step(a, pc, key, rows),
         pc \in {"rows", "store"} => key <= committed, pc = "store" => rows >= key,
         pointer' \in Nat, values' \in [Versions -> Nat], KeyNotOlder'
  PROVE  CacheInductive'
<1> DEFINE new == [pc |-> pc, key |-> key, rows |-> rows]
<1>1. /\ asks \in [Askers -> [pc: {"idle", "value", "contract", "rows", "store"}, key: Nat, rows: Nat]]
      /\ UNCHANGED <<committed, change>> /\ asks' = [asks EXCEPT ![a] = new]
  BY DEF CacheInductive, Step
<1>2. /\ new \in [pc: {"idle", "value", "contract", "rows", "store"}, key: Nat, rows: Nat]
      /\ new.pc = pc /\ new.key = key /\ new.rows = rows
  OBVIOUS
<1> HIDE DEF new
<1>3. /\ asks' \in [Askers -> [pc: {"idle", "value", "contract", "rows", "store"}, key: Nat, rows: Nat]]
      /\ \A b \in Askers : asks'[b] = IF b = a THEN new ELSE asks[b]
  BY <1>1, <1>2
<1>4. \A b \in Askers : /\ asks'[b].pc \in {"rows", "store"} => asks'[b].key <= committed'
                        /\ asks'[b].pc = "store" => asks'[b].rows >= asks'[b].key
  BY <1>1, <1>2, <1>3 DEF CacheInductive
<1> QED BY <1>1, <1>3, <1>4 DEF CacheInductive

\* An entry goes; no request takes a step.
LEMMA EntriesGo ==
  ASSUME CacheInductive, NEW S \in SUBSET Versions, values' = [v \in Versions |-> IF v \in S THEN 0 ELSE values[v]],
         pointer' \in {0, pointer}, UNCHANGED <<committed, asks>>,
         change' \in {"idle", "open", "committed"}, change' = "open" => committed <= ContractChanges
  PROVE  CacheInductive'
<1>1. values' \in [Versions -> Nat] /\ KeyNotOlder'
  BY DEF CacheInductive, KeyNotOlder
<1> QED BY <1>1 DEF CacheInductive

\* Every step of a request, of a change and of the timeouts.
LEMMA CacheStep == CacheInductive /\ [CacheNext]_cacheVars => CacheInductive'
<1> SUFFICES ASSUME CacheInductive, [CacheNext]_cacheVars PROVE CacheInductive'
  OBVIOUS
<1>1. /\ committed \in Versions /\ committed \in Nat /\ pointer \in Nat /\ values \in [Versions -> Nat] /\ KeyNotOlder
      /\ \A a \in Askers : /\ asks[a].key \in Nat /\ asks[a].rows \in Nat
                           /\ asks[a].pc \in {"rows", "store"} => asks[a].key <= committed
                           /\ asks[a].pc = "store" => asks[a].rows >= asks[a].key
  BY CacheBounds DEF CacheInductive, Versions
<1>2. ASSUME NEW a \in Askers, UNCHANGED <<pointer, values>>,
             \/ ReadPointer(a) \/ ReadValue(a) \/ ReadContract(a) \/ ReadRows(a)
      PROVE  CacheInductive'
  <2>1. values' \in [Versions -> Nat] /\ pointer' \in Nat /\ KeyNotOlder'
    BY <1>1, <1>2 DEF KeyNotOlder
  <2>2. CASE Step(a, "idle", 0, 0) \/ Step(a, "contract", 0, 0)
    BY <2>1, <2>2, AskerMoves
  <2>3. CASE ReadPointer(a)
    <3>1. Step(a, "contract", pointer, 0) \/ Step(a, "value", pointer, 0)
      BY <2>3, Zenon DEF ReadPointer
    <3> QED BY <1>1, <2>1, <3>1, AskerMoves
  <2>4. CASE ReadValue(a)
    BY <2>2, <2>4 DEF ReadValue
  <2>5. CASE ReadContract(a)
    <3>1. Step(a, "idle", 0, 0) \/ Step(a, "rows", committed, 0)
      BY <2>5 DEF ReadContract
    <3> QED BY <1>1, <2>1, <2>2, <3>1, AskerMoves
  <2>6. CASE ReadRows(a)
    <3>1. Step(a, "store", asks[a].key, committed) /\ asks[a].pc = "rows"
      BY <2>6 DEF ReadRows
    <3> QED BY <1>1, <2>1, <3>1, AskerMoves
  <2> QED BY <1>2, <2>3, <2>4, <2>5, <2>6
<1>3. ASSUME NEW a \in Askers, StoreBoth(a) PROVE CacheInductive'
  <2>1. /\ asks[a].pc = "store" /\ values' = [values EXCEPT ![asks[a].key] = asks[a].rows]
        /\ pointer' = asks[a].key /\ Step(a, "idle", 0, 0)
    BY <1>3 DEF StoreBoth, KeyFor
  <2>2. values' \in [Versions -> Nat] /\ KeyNotOlder'
    BY <1>1, <2>1 DEF KeyNotOlder
  <2> QED BY <1>1, <2>1, <2>2, AskerMoves
<1>4. ASSUME Clear, UNCHANGED <<committed, asks>>, change' \in {"idle", "open"},
             change' = "open" => committed <= ContractChanges
      PROVE  CacheInductive'
  <2> DEFINE S == {v \in Versions : v = pointer}
  <2>1. values' = [v \in Versions |-> IF v \in S THEN 0 ELSE values[v]] /\ pointer' = 0
    BY <1>4 DEF Clear
  <2>2. S \in SUBSET Versions
    OBVIOUS
  <2> HIDE DEF S
  <2> QED BY <1>4, <2>1, <2>2, EntriesGo
<1>5. CASE BeginChange \/ AfterCommit
  BY <1>4, <1>5 DEF BeginChange, AfterCommit
<1>6. CASE CommitChange
  <2>1. /\ change = "open" /\ change' = "committed" /\ committed' = committed + 1 /\ committed <= ContractChanges
        /\ UNCHANGED <<pointer, values, asks>>
    BY <1>6 DEF CommitChange, CacheInductive
  <2>2. committed' \in Versions
    BY <1>1, <2>1, CacheBounds DEF Versions
  <2>3. KeyNotOlder'
    BY <1>1, <2>1 DEF KeyNotOlder
  <2>4. \A a \in Askers : /\ asks'[a].pc \in {"rows", "store"} => asks'[a].key <= committed'
                          /\ asks'[a].pc = "store" => asks'[a].rows >= asks'[a].key
    BY <1>1, <2>1
  <2> QED BY <1>1, <2>1, <2>2, <2>3, <2>4 DEF CacheInductive
<1>7. ASSUME NEW v \in Versions, EntryExpires(v) PROVE CacheInductive'
  <2>1. values' = [u \in Versions |-> IF u \in {v} THEN 0 ELSE values[u]] /\ UNCHANGED <<committed, change, pointer, asks>>
    BY <1>1, <1>7 DEF EntryExpires
  <2>2. {v} \in SUBSET Versions
    OBVIOUS
  <2> QED BY <2>1, <2>2, EntriesGo DEF CacheInductive
<1>8. CASE PointerExpires
  BY <1>1, <1>8 DEF PointerExpires, CacheInductive, KeyNotOlder
<1>9. CASE UNCHANGED cacheVars
  BY <1>9 DEF cacheVars, CacheInductive, KeyNotOlder
<1>10. ASSUME NEW a \in Askers, ReadPointer(a) \/ ReadValue(a) \/ ReadContract(a) \/ ReadRows(a)
       PROVE  CacheInductive'
  BY <1>2, <1>10 DEF ReadPointer, ReadValue, ReadContract, ReadRows
<1> QED BY <1>3, <1>5, <1>6, <1>7, <1>8, <1>9, <1>10 DEF CacheNext

\* The cache starts empty, at the first version.
LEMMA CacheStarts == CacheInit => CacheInductive
<1> SUFFICES ASSUME CacheInit PROVE CacheInductive
  OBVIOUS
<1>1. committed = 1 /\ change = "idle" /\ pointer = 0 /\ values = [v \in Versions |-> 0]
      /\ asks = [a \in Askers |-> NoAsk]
  BY DEF CacheInit
<1>2. 1 \in Versions
  BY CacheBounds DEF Versions
<1>3. NoAsk \in [pc: {"idle", "value", "contract", "rows", "store"}, key: Nat, rows: Nat] /\ NoAsk.pc = "idle"
  BY DEF NoAsk
<1> QED BY <1>1, <1>2, <1>3 DEF CacheInductive, KeyNotOlder

-----------------------------------------------------------------------------
(* The composition.                                                         *)

\* The strengthenings hold of every behaviour of their component.
LEMMA WarningsAlways == Spec => []WarningsInductive
<1>1. WarningsInductive /\ [Next]_vars => WarningsInductive'
  BY WarningsStep
<1> QED BY WarningsStart, <1>1, PTL DEF Spec

\* So do those of the recalculations (daily_summary.py),
LEMMA SummaryAlways == SummarySpec => []SummaryInductive
BY SummaryStarts, SummaryStep, PTL DEF SummarySpec

\* of the contracts (subscriptions.py)
LEMMA ContractsAlways == SubSpec => []SubInductive
BY ContractsStart, ContractsStep, PTL DEF SubSpec

\* and of the cached entitlements (entitlements.py).
LEMMA CacheAlways == CacheSpec => []CacheInductive
BY CacheStarts, CacheStep, PTL DEF CacheSpec

\* Each stored row adds up whatever was read in between, and a request that nothing overlaps
\* leaves the rows as the facts give them (recalculate_daily_attendance_for_section).
THEOREM RowsHold == SummarySpec => []RowsInvariant
<1>1. SummaryInductive => RowsInvariant
  BY DEF SummaryInductive
<1> QED BY SummaryAlways, <1>1, PTL

\* However administrators and sync_expirations overlap: one live contract, one use of the free
\* plan, and every extension (subscriptions.py, uniq_live_subscription).
THEOREM ContractsHold == SubSpec => []ContractsInvariant
<1>1. SubInductive => ContractsInvariant
  BY DEF SubInductive
<1> QED BY ContractsAlways, <1>1, PTL

\* Limits are cached under no version newer than they were read at (entitlements.py).
THEOREM LimitsNotOlder == CacheSpec => [][KeyNotOlder']_cacheVars
<1>1. CacheInductive /\ [CacheNext]_cacheVars => [KeyNotOlder']_cacheVars
  BY CacheStep DEF CacheInductive
<1> QED BY CacheAlways, <1>1, PTL DEF CacheSpec

\* Every behaviour of the composition is one of each component.
LEMMA RecordsCompose == RecordsSpec => Spec /\ SummarySpec /\ SubSpec /\ CacheSpec
<1>1. RecordsInit => Init /\ SummaryInit /\ SubInit /\ CacheInit
  BY DEF RecordsInit
<1>2. [RecordsNext]_RecordsVars
        => [Next]_vars /\ [SummaryNext]_summaryVars /\ [SubNext]_subVars /\ [CacheNext]_cacheVars
  BY DEF RecordsNext, RecordsVars
<1> QED BY <1>1, <1>2, PTL DEF RecordsSpec, Spec, SummarySpec, SubSpec, CacheSpec

\* The rows of the warnings, the summary and the contracts have the types the code gives them.
THEOREM RecordsTypes == RecordsSpec => []RecordsTypeOK
<1>1. WarningsInductive /\ SummaryInductive /\ SubInductive => RecordsTypeOK
  BY DEF WarningsInductive, SummaryInductive, SubInductive, RecordsTypeOK
<1> QED BY RecordsCompose, WarningsAlways, SummaryAlways, ContractsAlways, <1>1, PTL

\* What no step spoils: the key of cached limits, the snapshot of a warning, its support.
THEOREM RecordsAreKept == RecordsSpec => RecordsKept
BY RecordsCompose, LimitsNotOlder, WarningsAreKept, PTL DEF RecordsKept
=============================================================================
