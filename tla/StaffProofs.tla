----------------------------- MODULE StaffProofs -----------------------------
(***************************************************************************)
(* Proofs about StaffMembers, for any number of people, sections, requests *)
(* and imports: the school has one manager, who is not taken away, no more *)
(* members than its contract unless an invitation or a reactivation adds   *)
(* one, scopes that pass on only when it was confirmed, referrals with an  *)
(* owner who was responsible, and imports that are applied once.           *)
(***************************************************************************)
EXTENDS StaffMembers, TLAPS, FiniteSetTheorems

-----------------------------------------------------------------------------
(* The inductive invariant.                                                 *)

\* What a request has read and where it stands; an import and its staged rows.
Steps == {"idle", "opened", "answering", "hiring", "creating", "appointing", "scoping", "routing",
          "routed", "submitting", "cancelling", "sorted", "importing"}
Tab == [step: Steps, who: People \cup {NoOne}, saw: Membership, role: Roles, want: SUBSET Scopes,
        sure: BOOLEAN, job: StaffJobs \cup {"none"}]
RowCategory == {"absent", "listed", "NEW", "INVITE", "PENDING", "MANUAL", "ADD_ROLE", "PROFILE"}
Import == [status: {"none", "UPLOADED", "PROCESSING", "READY", "FAILED", "COMPLETED", "CANCELLED"},
           rows: [People -> RowCategory], file: BOOLEAN]

Capacity == {"creating", "appointing", "importing"}
SeatsFor(n) == answered \/ Cardinality(ActiveStaff) + n <= StaffLimit

\* Requests of one member: who reads a profile does so under a manager who stays, who
\* appoints does so in a school without one.
PersonGood(u) ==
  /\ u.step \in {"opened", "answering", "hiring", "creating", "appointing", "scoping"} => u.who \in People
  /\ u.step = "opened" =>
       SchoolManagers # {} /\ (u.who \in SchoolManagers => "MANAGER" \in u.saw.roles)
  /\ u.step \in {"hiring", "creating"} => u.role # "MANAGER"
  /\ u.step = "appointing" => SchoolManagers = {} /\ (u.who \in ActiveStaff \/ SeatsFor(1))
  /\ u.step = "creating" => SeatsFor(1) /\ u.saw.status = "NONE"

\* Requests about imports: who sorted the rows holds a preview that stands, and who
\* applies it has the seats it needs.
ImportGood(u) ==
  /\ u.step \in {"submitting", "cancelling", "sorted", "importing"} => u.job \in StaffJobs
  /\ u.step \in {"sorted", "importing"} => staffJobs[u.job].status = "READY"
  /\ u.step = "importing" => SeatsFor(Cardinality(Adding(staffJobs[u.job].rows)))

\* Requests about scopes: what is assigned without a confirmation is free, and a referral
\* that found nobody in the section may still look at the grade.
ScopeGood(u, answers) ==
  /\ u.step = "scoping" => u.sure \/ Conflicts(u.who, Normal(u.want)) = {}
  /\ u.step = "routing" =>
       \E s \in Classes :
         /\ u.want = {"grade", s}
         /\ IF u.who # NoOne THEN u.who \in answers
            ELSE People \cup {NoOne} \subseteq answers \/ ~Serving(scope[s])
  /\ u.step = "routed" => u.who \in answers

\* Two transactions: one holds the school's row, one the row of a job, one each scope.
Exclusive(t, u) ==
  /\ ~(t.step \in Capacity /\ u.step \in Capacity)
  /\ t.step \in {"sorted", "importing"} /\ u.step \in {"sorted", "importing"} => t.job # u.job
  /\ t.step \in {"scoping", "routing"} /\ u.step \in {"scoping", "routing"} => t.want \cap u.want = {}

\* An import that was applied has neither a file nor a preview left.
AppliedGone ==
  \A j \in StaffJobs : imported[j] # 0 =>
    imported[j] = 1 /\ ~staffJobs[j].file /\ staffJobs[j].status \notin {"none", "UPLOADED", "READY"}

StaffInductive ==
  /\ StaffTypeOK /\ tabs \in [Tabs -> Tab] /\ staffJobs \in [StaffJobs -> Import]
  /\ \A p, q \in SchoolManagers : p = q
  /\ WithinSeats /\ AppliedGone
  /\ \A t \in Tabs : PersonGood(tabs[t]) /\ ImportGood(tabs[t]) /\ ScopeGood(tabs[t], could[t])
  /\ \A t, u \in Tabs : t # u => Exclusive(tabs[t], tabs[u])

-----------------------------------------------------------------------------
(* Lemmas about the operators.                                              *)

\* At most one of them is at most one counted.
LEMMA AtMostOne ==
  ASSUME NEW S, \A x, y \in S : x = y
  PROVE  Cardinality(S) <= 1
<1>1. CASE S = {}
  BY <1>1, FS_EmptySet
<1>2. CASE S # {}
  <2>1. PICK x \in S : TRUE
    BY <1>2
  <2>2. S = {x}
    BY <2>1
  <2>3. Cardinality(S) = 1
    BY <2>2, FS_Singleton
  <2> QED BY <2>3
<1> QED BY <1>1, <1>2

\* Sets of people are counted: a part of a set is no more, and one more is at most one more.
LEMMA Counting ==
  ASSUME NEW S \in SUBSET People, NEW T \in SUBSET People
  PROVE  /\ Cardinality(S) \in Nat
         /\ S \subseteq T => Cardinality(S) <= Cardinality(T)
         /\ Cardinality(S \cup T) <= Cardinality(S) + Cardinality(T)
         /\ \A p \in People : Cardinality(S \cup {p}) <= Cardinality(S) + 1
<1>1. /\ IsFiniteSet(S) /\ IsFiniteSet(T) /\ IsFiniteSet(S \cup T) /\ IsFiniteSet(S \cap T)
  <2>1. S \cup T \subseteq People /\ S \cap T \subseteq People
    OBVIOUS
  <2> QED BY <2>1, FS_Subset, StaffBounds
<1>2. /\ Cardinality(S) \in Nat /\ Cardinality(T) \in Nat /\ Cardinality(S \cup T) \in Nat
      /\ Cardinality(S \cap T) \in Nat
  BY <1>1, FS_CardinalityType
<1>3. S \subseteq T => Cardinality(S) <= Cardinality(T)
  BY <1>1, FS_Subset
<1>4. Cardinality(S \cup T) = Cardinality(S) + Cardinality(T) - Cardinality(S \cap T)
  BY <1>1, FS_Union
<1>5. \A p \in People : Cardinality(S \cup {p}) <= Cardinality(S) + 1
  <2> TAKE p \in People
  <2>1. Cardinality(S \cup {p}) = IF p \in S THEN Cardinality(S) ELSE Cardinality(S) + 1
    BY <1>1, FS_AddElement
  <2> QED BY <1>2, <2>1
<1> QED BY <1>2, <1>3, <1>4, <1>5

\* A grade that is wanted covers its sections: no scope is added.
LEMMA NormalWants == ASSUME NEW want PROVE Normal(want) \subseteq want
BY DEF Normal

\* Whoever is responsible serves.
LEMMA ResponsibleServes == ASSUME NEW s PROVE Responsible(s) \in People \cup {NoOne}
BY DEF Responsible, Serving, ActiveStaff

\* A section is not the grade: the section a request routes is the one it locked.
LEMMA RoutedSection ==
  ASSUME NEW s \in Classes
  PROVE  (CHOOSE c \in Classes : c \in {"grade", s}) = s
<1>1. \A c \in Classes : c \in {"grade", s} <=> c = s
  BY StaffApart
<1> QED BY <1>1

-----------------------------------------------------------------------------
(* What a step leaves to the requests that do not take it.                  *)

\* A request keeps what it relies on when others do what they may.
LEMMA Undisturbed ==
  ASSUME StaffInductive, NEW u \in Tabs, tabs'[u] = tabs[u], Possible,
         scope' \in [Scopes -> People \cup {NoOne}],
         \/ SchoolManagers' = SchoolManagers
         \/ SchoolManagers = {} /\ tabs[u].step # "appointing",
         answered => answered',
         \/ answered'
         \/ Cardinality(ActiveStaff') <= Cardinality(ActiveStaff)
         \/ tabs[u].step \notin Capacity,
         Cardinality(ActiveStaff) \in Nat, Cardinality(ActiveStaff') \in Nat,
         tabs[u].step = "appointing" /\ tabs[u].who \in ActiveStaff => tabs[u].who \in ActiveStaff',
         tabs[u].step \in {"sorted", "importing"} => staffJobs'[tabs[u].job] = staffJobs[tabs[u].job],
         tabs[u].step \in {"scoping", "routing"} =>
           \A s \in tabs[u].want : scope'[s] \in {scope[s], NoOne}
  PROVE  PersonGood(tabs[u])' /\ ImportGood(tabs[u])' /\ ScopeGood(tabs[u], could[u])'
<1>1. /\ PersonGood(tabs[u]) /\ ImportGood(tabs[u]) /\ ScopeGood(tabs[u], could[u]) /\ tabs[u] \in Tab
      /\ scope \in [Scopes -> People \cup {NoOne}] /\ could \in [Tabs -> SUBSET (People \cup {NoOne})]
  BY DEF StaffInductive, StaffTypeOK
<1>2. ASSUME NEW n \in Nat, tabs[u].step \in Capacity, SeatsFor(n) PROVE SeatsFor(n)'
  BY <1>2, StaffBounds DEF SeatsFor
<1>3. PersonGood(tabs[u])'
  <2>1. tabs[u].step = "appointing" => SchoolManagers' = {} /\ (tabs[u].who \in ActiveStaff' \/ SeatsFor(1)')
    BY <1>1, <1>2 DEF PersonGood, Capacity
  <2>2. tabs[u].step = "creating" => SeatsFor(1)'
    BY <1>1, <1>2 DEF PersonGood, Capacity
  <2>3. tabs[u].step = "opened" =>
          SchoolManagers' # {} /\ (tabs[u].who \in SchoolManagers' => "MANAGER" \in tabs[u].saw.roles)
    BY <1>1 DEF PersonGood
  <2> QED BY <1>1, <2>1, <2>2, <2>3 DEF PersonGood
<1>4. ImportGood(tabs[u])'
  <2>1. tabs[u].step = "importing" => SeatsFor(Cardinality(Adding(staffJobs[tabs[u].job].rows)))'
    <3> SUFFICES ASSUME tabs[u].step = "importing"
                 PROVE  SeatsFor(Cardinality(Adding(staffJobs[tabs[u].job].rows)))'
      OBVIOUS
    <3> DEFINE n == Cardinality(Adding(staffJobs[tabs[u].job].rows))
    <3>1. n \in Nat
      <4>1. Adding(staffJobs[tabs[u].job].rows) \in SUBSET People
        BY DEF Adding
      <4> QED BY <4>1, Counting
    <3>2. SeatsFor(n)
      BY <1>1 DEF ImportGood
    <3>3. n' = n
      BY DEF Adding
    <3> HIDE DEF n
    <3>4. answered' \/ Cardinality(ActiveStaff') + n <= StaffLimit
      BY <3>1, <3>2, StaffBounds DEF SeatsFor, Capacity
    <3>5. answered' \/ Cardinality(ActiveStaff') + n' <= StaffLimit
      BY <3>3, <3>4
    <3> USE DEF n
    <3> QED BY <3>5 DEF SeatsFor
  <2> QED BY <1>1, <2>1 DEF ImportGood
<1>5. u \in AtStep({"routing", "routed"})' <=> tabs[u].step \in {"routing", "routed"}
  BY DEF AtStep
<1>6. tabs[u].step \in {"routing", "routed"} =>
        could'[u] = IF ServingStaff' \subseteq ServingStaff THEN could[u] \cup {RouteNow(u)'}
                    ELSE People \cup {NoOne}
  BY <1>5 DEF Possible
<1>7. ASSUME tabs[u].step = "scoping" PROVE tabs[u].sure \/ Conflicts(tabs[u].who, Normal(tabs[u].want))' = {}
  <2>1. Normal(tabs[u].want) \subseteq tabs[u].want /\ tabs[u].want \subseteq Scopes
    BY <1>1, NormalWants DEF Tab
  <2>2. \A s \in Normal(tabs[u].want) : scope'[s] \in {scope[s], NoOne}
    BY <1>7, <2>1
  <2>3. tabs[u].sure \/ Conflicts(tabs[u].who, Normal(tabs[u].want)) = {}
    BY <1>1, <1>7 DEF ScopeGood
  <2>4. Normal(tabs[u].want)' = Normal(tabs[u].want)
    BY DEF Normal
  <2> QED BY <2>2, <2>3, <2>4 DEF Conflicts
<1>8. ASSUME tabs[u].step = "routing"
      PROVE  \E s \in Classes :
               /\ tabs[u].want = {"grade", s}
               /\ IF tabs[u].who # NoOne THEN tabs[u].who \in could'[u]
                  ELSE People \cup {NoOne} \subseteq could'[u] \/ ~Serving(scope[s])'
  <2>1. PICK s \in Classes :
               /\ tabs[u].want = {"grade", s}
               /\ IF tabs[u].who # NoOne THEN tabs[u].who \in could[u]
                  ELSE People \cup {NoOne} \subseteq could[u] \/ ~Serving(scope[s])
    BY <1>1, <1>8 DEF ScopeGood
  <2>2. tabs[u].who \in People \cup {NoOne}
    BY <1>1 DEF Tab
  <2>3. CASE tabs[u].who # NoOne
    BY <1>6, <1>8, <2>1, <2>2, <2>3
  <2>4. CASE tabs[u].who = NoOne /\ (~(ServingStaff' \subseteq ServingStaff) \/ People \cup {NoOne} \subseteq could[u])
    BY <1>6, <1>8, <2>1, <2>4
  <2>5. CASE tabs[u].who = NoOne /\ ServingStaff' \subseteq ServingStaff /\ ~Serving(scope[s])
    <3>1. scope'[s] \in {scope[s], NoOne}
      BY <1>8, <2>1
    <3>2. Serving(scope[s])' => scope'[s] \in ServingStaff'
      BY DEF Serving, ServingStaff, ActiveStaff
    <3>3. scope'[s] \in ServingStaff' => Serving(scope'[s])
      BY <2>5 DEF ServingStaff
    <3>4. ~Serving(NoOne)
      BY DEF Serving
    <3>5. ~Serving(scope[s])'
      BY <2>5, <3>1, <3>2, <3>3, <3>4
    <3> QED BY <2>1, <2>5, <3>5
  <2> QED BY <2>1, <2>3, <2>4, <2>5
<1>9. ASSUME tabs[u].step = "routed" PROVE tabs[u].who \in could'[u]
  <2>1. tabs[u].who \in could[u] /\ tabs[u].who \in People \cup {NoOne}
    BY <1>1, <1>9 DEF ScopeGood, Tab
  <2> QED BY <1>6, <1>9, <2>1
<1>10. ScopeGood(tabs[u], could[u])'
  BY <1>7, <1>8, <1>9 DEF ScopeGood
<1> QED BY <1>3, <1>4, <1>10

\* Whoever serves is an answer a routing may get.
LEMMA CouldTyped ==
  ASSUME StaffInductive, Possible
  PROVE  could' \in [Tabs -> SUBSET (People \cup {NoOne})]
<1>1. \A t \in Tabs : could[t] \subseteq People \cup {NoOne}
  BY DEF StaffInductive, StaffTypeOK
<1>2. \A t \in Tabs : RouteNow(t)' \in People \cup {NoOne}
  BY DEF RouteNow, Responsible, Serving, ActiveStaff
<1>3. \A t \in Tabs : (IF t \notin AtStep({"routing", "routed"})' THEN {}
                       ELSE IF ServingStaff' \subseteq ServingStaff THEN could[t] \cup {RouteNow(t)'}
                       ELSE People \cup {NoOne}) \in SUBSET (People \cup {NoOne})
  BY <1>1, <1>2
<1> QED BY <1>3 DEF Possible

\* How many serve, before and after.
LEMMA ActiveCounts ==
  /\ Cardinality(ActiveStaff) \in Nat /\ Cardinality(ActiveStaff') \in Nat
  /\ ActiveStaff' \subseteq ActiveStaff => Cardinality(ActiveStaff') <= Cardinality(ActiveStaff)
<1>1. ActiveStaff \in SUBSET People /\ ActiveStaff' \in SUBSET People
  BY DEF ActiveStaff
<1> QED BY <1>1, Counting

\* One request takes the step: it stands well afterwards, and the others are undisturbed.
LEMMA RequestSteps ==
  ASSUME StaffInductive, NEW t \in Tabs, NEW new \in Tab, tabs' = [tabs EXCEPT ![t] = new], Possible,
         accounts' \subseteq People, staff' \in [People -> Membership],
         scope' \in [Scopes -> People \cup {NoOne}], staffParsing' \subseteq StaffJobs,
         answered' \in BOOLEAN, imported' \in [StaffJobs -> Nat], staffBegun' \in 0..StaffSteps,
         staffJobs' \in [StaffJobs -> Import], AppliedGone',
         \/ SchoolManagers' = SchoolManagers
         \/ /\ SchoolManagers = {} /\ tabs[t].step = "appointing"
            /\ \A p, q \in SchoolManagers' : p = q,
         answered => answered',
         \/ answered'
         \/ Cardinality(ActiveStaff') <= Cardinality(ActiveStaff)
         \/ tabs[t].step \in Capacity /\ Cardinality(ActiveStaff') <= StaffLimit,
         \A u \in Tabs \ {t} :
           /\ tabs[u].step = "appointing" /\ tabs[u].who \in ActiveStaff => tabs[u].who \in ActiveStaff'
           /\ tabs[u].step \in {"sorted", "importing"} => staffJobs'[tabs[u].job] = staffJobs[tabs[u].job]
           /\ tabs[u].step \in {"scoping", "routing"} =>
                \A s \in tabs[u].want : scope'[s] \in {scope[s], NoOne}
           /\ Exclusive(new, tabs[u]),
         PersonGood(tabs[t])', ImportGood(tabs[t])', ScopeGood(tabs[t], could[t])'
  PROVE  StaffInductive' /\ SchoolManagers \subseteq SchoolManagers'
<1>1. /\ tabs \in [Tabs -> Tab] /\ \A u \in Tabs : tabs'[u] = IF u = t THEN new ELSE tabs[u]
      /\ tabs' \in [Tabs -> Tab]
  BY DEF StaffInductive
<1>2. StaffTypeOK'
  BY CouldTyped DEF StaffTypeOK
<1>3. Cardinality(ActiveStaff) \in Nat /\ Cardinality(ActiveStaff') \in Nat
  BY ActiveCounts
<1>4. \A u, v \in Tabs : u # v => Exclusive(tabs[u], tabs[v])
  BY DEF StaffInductive
<1>5. \A u, v \in Tabs : u # v => Exclusive(tabs'[u], tabs'[v])
  <2>1. \A u \in Tabs \ {t} : Exclusive(tabs[u], new)
    BY DEF Exclusive
  <2> QED BY <1>1, <1>4, <2>1
<1>6. \A u, v \in Tabs : u # v => Exclusive(tabs[u], tabs[v])'
  BY <1>5 DEF Exclusive
<1>7. WithinSeats'
  BY <1>3, StaffBounds DEF StaffInductive, WithinSeats
<1>8. \A p, q \in SchoolManagers' : p = q
  BY DEF StaffInductive
<1>9. ASSUME NEW u \in Tabs \ {t} PROVE PersonGood(tabs[u])' /\ ImportGood(tabs[u])' /\ ScopeGood(tabs[u], could[u])'
  <2>1. tabs[t].step \in Capacity => tabs[u].step \notin Capacity
    BY <1>4 DEF Exclusive
  <2>2. tabs'[u] = tabs[u]
    BY <1>1
  <2>3. \/ SchoolManagers' = SchoolManagers
        \/ SchoolManagers = {} /\ tabs[u].step # "appointing"
    BY <2>1 DEF Capacity
  <2>4. \/ answered'
        \/ Cardinality(ActiveStaff') <= Cardinality(ActiveStaff)
        \/ tabs[u].step \notin Capacity
    BY <2>1
  <2> QED BY <1>3, <2>2, <2>3, <2>4, Undisturbed
<1>10. \A u \in Tabs : PersonGood(tabs[u])' /\ ImportGood(tabs[u])' /\ ScopeGood(tabs[u], could[u])'
  BY <1>9
<1> QED BY <1>1, <1>2, <1>6, <1>7, <1>8, <1>10 DEF StaffInductive

\* A step of no request: people, scopes and requests stay as they are.
LEMMA OthersStep ==
  ASSUME StaffInductive, UNCHANGED <<staff, scope, tabs, answered, imported>>, Possible,
         accounts' \subseteq People, staffParsing' \subseteq StaffJobs, staffBegun' \in 0..StaffSteps,
         staffJobs' \in [StaffJobs -> Import], AppliedGone',
         \A u \in Tabs : tabs[u].step \in {"sorted", "importing"} =>
                           staffJobs'[tabs[u].job] = staffJobs[tabs[u].job]
  PROVE  StaffInductive' /\ SchoolManagers \subseteq SchoolManagers'
<1>1. StaffTypeOK'
  BY CouldTyped DEF StaffTypeOK, StaffInductive
<1>2. SchoolManagers' = SchoolManagers /\ ActiveStaff' = ActiveStaff
  BY DEF SchoolManagers, ActiveStaff
<1>3. Cardinality(ActiveStaff) \in Nat /\ Cardinality(ActiveStaff') <= Cardinality(ActiveStaff)
  BY <1>2, ActiveCounts
<1>4. ASSUME NEW u \in Tabs PROVE PersonGood(tabs[u])' /\ ImportGood(tabs[u])' /\ ScopeGood(tabs[u], could[u])'
  <2>1. tabs'[u] = tabs[u] /\ scope' \in [Scopes -> People \cup {NoOne}]
    BY DEF StaffInductive, StaffTypeOK
  <2>2. tabs[u].step \in {"scoping", "routing"} => \A s \in tabs[u].want : scope'[s] \in {scope[s], NoOne}
    OBVIOUS
  <2> QED BY <1>2, <1>3, <2>1, <2>2, Undisturbed
<1>5. \A u, v \in Tabs : u # v => Exclusive(tabs[u], tabs[v])'
  BY DEF StaffInductive, Exclusive
<1>6. WithinSeats'
  BY <1>2 DEF StaffInductive, WithinSeats
<1> QED BY <1>1, <1>2, <1>4, <1>5, <1>6 DEF StaffInductive

\* A request that ends leaves nothing behind that would need anything.
LEMMA AtRestGood ==
  ASSUME StaffBounds
  PROVE  /\ NoTab \in Tab /\ NoTab.step = "idle"
         /\ \A u : Exclusive(NoTab, u)
         /\ \A t \in Tabs : tabs'[t] = NoTab =>
              PersonGood(tabs[t])' /\ ImportGood(tabs[t])' /\ ScopeGood(tabs[t], could[t])'
<1>1. NoTab \in Tab /\ NoTab.step = "idle"
  BY DEF NoTab, Tab, Steps, Stranger, Membership, Roles
<1>2. \A u : Exclusive(NoTab, u)
  BY <1>1 DEF Exclusive, Capacity
<1>3. ASSUME NEW t \in Tabs, tabs'[t] = NoTab
      PROVE  PersonGood(tabs[t])' /\ ImportGood(tabs[t])' /\ ScopeGood(tabs[t], could[t])'
  BY <1>1, <1>3 DEF PersonGood, ImportGood, ScopeGood, Capacity
<1> QED BY <1>1, <1>2, <1>3

-----------------------------------------------------------------------------
(* One member of staff.                                                     *)

\* The membership of one person is written.
LEMMA OneRow ==
  ASSUME staff \in [People -> Membership], NEW p \in People, NEW m \in Membership,
         staff' = [staff EXCEPT ![p] = m]
  PROVE  /\ staff' \in [People -> Membership]
         /\ \A q \in People : staff'[q] = IF q = p THEN m ELSE staff[q]
         /\ ("MANAGER" \in m.roles <=> p \in SchoolManagers) => SchoolManagers' = SchoolManagers
         /\ \A q \in ActiveStaff : q # p \/ m.status = "ACTIVE" => q \in ActiveStaff'
         /\ m.status # "ACTIVE" \/ p \in ActiveStaff => Cardinality(ActiveStaff') <= Cardinality(ActiveStaff)
         /\ Cardinality(ActiveStaff') <= Cardinality(ActiveStaff) + 1
<1>1. staff' \in [People -> Membership] /\ \A q \in People : staff'[q] = IF q = p THEN m ELSE staff[q]
  OBVIOUS
<1>2. ("MANAGER" \in m.roles <=> p \in SchoolManagers) => SchoolManagers' = SchoolManagers
  BY <1>1 DEF SchoolManagers
<1>3. \A q \in ActiveStaff : q # p \/ m.status = "ACTIVE" => q \in ActiveStaff'
  BY <1>1 DEF ActiveStaff
<1>4. ActiveStaff' \subseteq ActiveStaff \cup {p}
      /\ (m.status # "ACTIVE" \/ p \in ActiveStaff => ActiveStaff' \subseteq ActiveStaff)
  BY <1>1 DEF ActiveStaff
<1>5. m.status # "ACTIVE" \/ p \in ActiveStaff => Cardinality(ActiveStaff') <= Cardinality(ActiveStaff)
  BY <1>4, ActiveCounts
<1>6. Cardinality(ActiveStaff') <= Cardinality(ActiveStaff) + 1
  <2>1. ActiveStaff \in SUBSET People /\ ActiveStaff' \in SUBSET People /\ ActiveStaff \cup {p} \in SUBSET People
    BY DEF ActiveStaff
  <2>2. Cardinality(ActiveStaff') <= Cardinality(ActiveStaff \cup {p})
    BY <1>4, <2>1, Counting
  <2>3. Cardinality(ActiveStaff \cup {p}) <= Cardinality(ActiveStaff) + 1
    BY <2>1, Counting
  <2>4. /\ Cardinality(ActiveStaff) \in Nat /\ Cardinality(ActiveStaff') \in Nat
        /\ Cardinality(ActiveStaff \cup {p}) \in Nat
    BY <2>1, Counting
  <2> QED BY <2>2, <2>3, <2>4
<1> QED BY <1>1, <1>2, <1>3, <1>5, <1>6

\* A request writes the row of its member and ends.
LEMMA MemberKeeps ==
  ASSUME StaffInductive, Possible, NEW t \in Tabs, tabs[t].who \in People, NEW m \in Membership,
         staff' = [staff EXCEPT ![tabs[t].who] = m], CloseTab(t), RowFree(t, tabs[t].who),
         "MANAGER" \in m.roles <=> tabs[t].who \in SchoolManagers,
         answered' \in BOOLEAN, answered => answered',
         \/ answered' \/ m.status # "ACTIVE" \/ tabs[t].who \in ActiveStaff \/ tabs[t].step = "creating",
         accounts' \subseteq People, scope' \in [Scopes -> People \cup {NoOne}],
         \A u \in Tabs \ {t} : tabs[u].step \in {"scoping", "routing"} =>
           \A s \in tabs[u].want : scope'[s] \in {scope[s], NoOne},
         UNCHANGED <<staffJobs, staffParsing, imported, staffBegun>>
  PROVE  StaffInductive' /\ SchoolManagers \subseteq SchoolManagers'
<1> DEFINE p == tabs[t].who
<1>1. /\ staff \in [People -> Membership] /\ tabs \in [Tabs -> Tab] /\ staffJobs \in [StaffJobs -> Import]
      /\ staffParsing \subseteq StaffJobs /\ imported \in [StaffJobs -> Nat] /\ staffBegun \in 0..StaffSteps
      /\ AppliedGone /\ answered \in BOOLEAN /\ WithinSeats
  BY DEF StaffInductive, StaffTypeOK
<1>2. tabs' = [tabs EXCEPT ![t] = NoTab] /\ tabs'[t] = NoTab
  BY <1>1 DEF CloseTab
<1>3. SchoolManagers' = SchoolManagers
  BY <1>1, OneRow
<1>4. \/ answered'
      \/ Cardinality(ActiveStaff') <= Cardinality(ActiveStaff)
      \/ tabs[t].step \in Capacity /\ Cardinality(ActiveStaff') <= StaffLimit
  <2>1. CASE m.status # "ACTIVE" \/ p \in ActiveStaff
    BY <1>1, <2>1, OneRow
  <2>2. CASE tabs[t].step = "creating" /\ ~answered'
    <3>1. Cardinality(ActiveStaff) + 1 <= StaffLimit
      BY <2>2 DEF StaffInductive, PersonGood, SeatsFor
    <3>2. Cardinality(ActiveStaff') <= Cardinality(ActiveStaff) + 1
      BY <1>1, OneRow
    <3>3. Cardinality(ActiveStaff) \in Nat /\ Cardinality(ActiveStaff') \in Nat /\ StaffLimit \in Nat
      BY ActiveCounts, StaffBounds
    <3> QED BY <2>2, <3>1, <3>2, <3>3 DEF Capacity
  <2> QED BY <2>1, <2>2
<1>5. ASSUME NEW u \in Tabs \ {t}, tabs[u].step = "appointing", tabs[u].who \in ActiveStaff
      PROVE  tabs[u].who \in ActiveStaff'
  <2>1. CASE tabs[u].who # p
    BY <1>1, <1>5, <2>1, OneRow
  <2>2. CASE tabs[u].who = p
    <3>1. staff[p].status # "NONE"
      BY <1>5, <2>2 DEF ActiveStaff
    <3> QED BY <1>5, <2>2, <3>1 DEF RowFree, AtStep
  <2> QED BY <2>1, <2>2
<1>6. AppliedGone'
  BY <1>1 DEF AppliedGone
<1>7. /\ NoTab \in Tab /\ \A u \in Tabs \ {t} : Exclusive(NoTab, tabs[u])
      /\ PersonGood(tabs[t])' /\ ImportGood(tabs[t])' /\ ScopeGood(tabs[t], could[t])'
  BY <1>2, StaffBounds, AtRestGood
<1>8. staff' \in [People -> Membership]
  BY <1>1, OneRow
<1>9. \A u \in Tabs \ {t} :
           /\ tabs[u].step = "appointing" /\ tabs[u].who \in ActiveStaff => tabs[u].who \in ActiveStaff'
           /\ tabs[u].step \in {"sorted", "importing"} => staffJobs'[tabs[u].job] = staffJobs[tabs[u].job]
           /\ tabs[u].step \in {"scoping", "routing"} =>
                \A s \in tabs[u].want : scope'[s] \in {scope[s], NoOne}
           /\ Exclusive(NoTab, tabs[u])
  BY <1>5, <1>7
<1>10. staffParsing' \subseteq StaffJobs /\ imported' \in [StaffJobs -> Nat] /\ staffBegun' \in 0..StaffSteps
       /\ staffJobs' \in [StaffJobs -> Import]
  BY <1>1
<1> HIDE DEF p
<1> QED BY <1>2, <1>3, <1>4, <1>6, <1>7, <1>8, <1>9, <1>10, RequestSteps

\* A scope changes hands only with a confirmation; otherwise it stays or falls free.
Handed ==
  \A s \in Scopes : scope[s] # NoOne /\ scope'[s] \notin {NoOne, scope[s]}
    => \E t \in Tabs : tabs[t].sure /\ tabs'[t] = NoTab

\* Taking all scopes of a member away hands none over.
LEMMA UnscopedFrees ==
  ASSUME StaffInductive, NEW p
  PROVE  /\ Unscoped(p) \in [Scopes -> People \cup {NoOne}]
         /\ \A s \in Scopes : Unscoped(p)[s] \in {scope[s], NoOne}
BY DEF Unscoped, StaffInductive, StaffTypeOK

\* What a request that wants scopes wants are scopes of the school.
LEMMA WantsScopes ==
  ASSUME StaffInductive, NEW u \in Tabs
  PROVE  tabs[u].want \subseteq Scopes /\ tabs[u] \in Tab
BY DEF StaffInductive, Tab

\* A profile that is opened, or an invitation that is answered, does to the member what
\* management.py and InvitationAcceptView do.
LEMMA MemberSteps ==
  ASSUME StaffInductive, Possible, NEW t \in Tabs,
         \/ \E role \in Roles : AddRole(t, role) \/ RemoveRole(t, role)
         \/ Suspend(t) \/ Reactivate(t) \/ Reinvite(t) \/ DeleteStaff(t) \/ Accept(t) \/ Decline(t)
  PROVE  StaffInductive' /\ SchoolManagers \subseteq SchoolManagers' /\ Handed
<1> DEFINE p == tabs[t].who
           old == staff[p]
           Goal == StaffInductive' /\ SchoolManagers \subseteq SchoolManagers' /\ Handed
<1>1. /\ staff \in [People -> Membership] /\ answered \in BOOLEAN /\ accounts \subseteq People
      /\ scope \in [Scopes -> People \cup {NoOne}] /\ PersonGood(tabs[t])
  BY DEF StaffInductive, StaffTypeOK
\* A new row for the member, with its scopes or without them.
<1>2. ASSUME NEW m \in Membership, staff' = [staff EXCEPT ![p] = m], p \in People, CloseTab(t), RowFree(t, p),
             "MANAGER" \in m.roles <=> p \in SchoolManagers, answered' \in BOOLEAN, answered => answered',
             answered' \/ m.status # "ACTIVE" \/ p \in ActiveStaff,
             UNCHANGED <<accounts, staffJobs, staffParsing, imported, staffBegun>>,
             scope' = scope \/ scope' = Unscoped(p)
      PROVE  Goal
  <2>1. scope' \in [Scopes -> People \cup {NoOne}] /\ \A s \in Scopes : scope'[s] \in {scope[s], NoOne}
    BY <1>1, <1>2, UnscopedFrees
  <2>2. \A u \in Tabs \ {t} : tabs[u].step \in {"scoping", "routing"} =>
           \A s \in tabs[u].want : scope'[s] \in {scope[s], NoOne}
    BY <2>1, WantsScopes
  <2>3. Handed
    BY <2>1 DEF Handed
  <2>4. accounts' \subseteq People
    BY <1>1, <1>2
  <2> QED BY <1>2, <2>1, <2>2, <2>3, <2>4, MemberKeeps
<1>3. ASSUME Manageable(t)
      PROVE  p \in People /\ p \notin SchoolManagers /\ "MANAGER" \notin old.roles /\ old \in Membership
  <2>1. p \in People /\ p \notin SchoolManagers
    BY <1>1, <1>3 DEF Manageable, PersonGood
  <2> QED BY <1>1, <2>1 DEF SchoolManagers
<1>4. ASSUME NEW role \in Roles, AddRole(t, role) PROVE Goal
  <2> DEFINE roles == old.roles \cup {role}
             m == [old EXCEPT !.roles = roles]
  <2>1. /\ Manageable(t) /\ role # "MANAGER" /\ RowFree(t, p) /\ CloseTab(t)
        /\ staff' = [staff EXCEPT ![p] = m]
        /\ UNCHANGED <<accounts, scope, staffJobs, staffParsing, answered, imported, staffBegun>>
    BY <1>4 DEF AddRole
  <2>2. roles \in SUBSET Roles /\ "MANAGER" \notin roles
    BY <1>3, <2>1 DEF Membership
  <2> HIDE DEF roles
  <2>3. m \in Membership /\ m.roles = roles /\ m.status = old.status
    BY <1>3, <2>1, <2>2 DEF Membership
  <2>4. m.status # "ACTIVE" \/ p \in ActiveStaff
    BY <1>3, <2>1, <2>3 DEF ActiveStaff
  <2> HIDE DEF m
  <2> QED BY <1>1, <1>2, <1>3, <2>1, <2>2, <2>3, <2>4
<1>5. ASSUME NEW role \in Roles, RemoveRole(t, role) PROVE Goal
  <2> DEFINE roles == old.roles \ {role}
             m == [old EXCEPT !.roles = roles]
  <2>1. /\ Manageable(t) /\ RowFree(t, p) /\ CloseTab(t) /\ staff' = [staff EXCEPT ![p] = m]
        /\ scope' = IF role = "VICE" THEN Unscoped(p) ELSE scope
        /\ UNCHANGED <<accounts, staffJobs, staffParsing, answered, imported, staffBegun>>
    BY <1>5 DEF RemoveRole
  <2>2. roles \in SUBSET Roles /\ "MANAGER" \notin roles
    BY <1>3, <2>1 DEF Membership
  <2> HIDE DEF roles
  <2>3. m \in Membership /\ m.roles = roles /\ m.status = old.status
    BY <1>3, <2>1, <2>2 DEF Membership
  <2>4. m.status # "ACTIVE" \/ p \in ActiveStaff
    BY <1>3, <2>1, <2>3 DEF ActiveStaff
  <2> HIDE DEF m
  <2> QED BY <1>1, <1>2, <1>3, <2>1, <2>2, <2>3, <2>4
\* Only the status changes.
<1>6. ASSUME NEW s \in {"ACTIVE", "SUSPENDED", "INVITED", "DECLINED"}, staff' = [staff EXCEPT ![p].status = s],
             p \in People, CloseTab(t), RowFree(t, p), answered' \in BOOLEAN, answered => answered',
             answered' \/ s # "ACTIVE",
             UNCHANGED <<accounts, staffJobs, staffParsing, imported, staffBegun>>,
             scope' = scope \/ scope' = Unscoped(p)
      PROVE  Goal
  <2> DEFINE m == [old EXCEPT !.status = s]
  <2>1. old \in Membership /\ ("MANAGER" \in old.roles <=> p \in SchoolManagers)
    BY <1>1, <1>6 DEF SchoolManagers
  <2>2. m \in Membership /\ m.roles = old.roles /\ m.status = s
    BY <2>1 DEF Membership
  <2>3. staff' = [staff EXCEPT ![p] = m]
    BY <1>6
  <2> HIDE DEF m
  <2> QED BY <1>2, <1>6, <2>1, <2>2, <2>3
<1>7. CASE Suspend(t)
  BY <1>1, <1>3, <1>6, <1>7 DEF Suspend
<1>8. CASE Reactivate(t)
  BY <1>1, <1>3, <1>6, <1>8 DEF Reactivate
<1>9. CASE Reinvite(t)
  BY <1>1, <1>3, <1>6, <1>9 DEF Reinvite
<1>10. CASE DeleteStaff(t)
  <2> DEFINE m == [status |-> "LEFT", roles |-> {}, profile |-> FALSE]
  <2>1. m \in Membership /\ "MANAGER" \notin m.roles /\ m.status # "ACTIVE"
    BY DEF Membership
  <2>2. /\ Manageable(t) /\ RowFree(t, p) /\ CloseTab(t) /\ staff' = [staff EXCEPT ![p] = m] /\ scope' = Unscoped(p)
        /\ UNCHANGED <<accounts, staffJobs, staffParsing, answered, imported, staffBegun>>
    BY <1>10 DEF DeleteStaff
  <2> HIDE DEF m
  <2> QED BY <1>1, <1>2, <1>3, <2>1, <2>2
<1>11. tabs[t].step = "answering" => p \in People
  BY <1>1 DEF PersonGood
<1>12. CASE Accept(t)
  BY <1>1, <1>6, <1>11, <1>12 DEF Accept
<1>13. CASE Decline(t)
  BY <1>1, <1>6, <1>11, <1>13 DEF Decline
<1> QED BY <1>4, <1>5, <1>7, <1>8, <1>9, <1>10, <1>12, <1>13

\* Only what one request has read and waits for changes.
LEMMA TabMoves ==
  ASSUME StaffInductive, Possible, NEW t \in Tabs, NEW new \in Tab, tabs' = [tabs EXCEPT ![t] = new],
         UNCHANGED <<accounts, staff, scope, staffJobs, staffParsing, answered, imported>>,
         staffBegun' \in 0..StaffSteps, \A u \in Tabs \ {t} : Exclusive(new, tabs[u]),
         PersonGood(new), ImportGood(new),
         new.step \in {"scoping", "routing", "routed"} => ScopeGood(tabs[t], could[t])'
  PROVE  StaffInductive' /\ SchoolManagers \subseteq SchoolManagers' /\ Handed
<1>1. /\ staff \in [People -> Membership] /\ tabs \in [Tabs -> Tab] /\ staffJobs \in [StaffJobs -> Import]
      /\ staffParsing \subseteq StaffJobs /\ imported \in [StaffJobs -> Nat] /\ accounts \subseteq People
      /\ AppliedGone /\ answered \in BOOLEAN /\ scope \in [Scopes -> People \cup {NoOne}]
  BY DEF StaffInductive, StaffTypeOK
<1>2. SchoolManagers' = SchoolManagers /\ ActiveStaff' = ActiveStaff /\ AppliedGone' /\ Handed
  BY <1>1 DEF SchoolManagers, ActiveStaff, AppliedGone, Handed
<1>3. Cardinality(ActiveStaff') <= Cardinality(ActiveStaff)
  BY <1>2, ActiveCounts
<1>4. tabs'[t] = new
  BY <1>1
<1>5. \A n : SeatsFor(n)' <=> SeatsFor(n)
  BY <1>2 DEF SeatsFor
<1>6. PersonGood(tabs[t])'
  <2>1. SeatsFor(1)' <=> SeatsFor(1)
    BY <1>5
  <2> QED BY <1>2, <1>4, <2>1 DEF PersonGood
<1>7. ImportGood(tabs[t])'
  <2> DEFINE rows == staffJobs[new.job].rows
  <2>1. SeatsFor(Cardinality(Adding(rows)))' <=> SeatsFor(Cardinality(Adding(rows)))
    BY <1>2 DEF SeatsFor, Adding
  <2> QED BY <1>4, <2>1 DEF ImportGood
<1>8. ScopeGood(tabs[t], could[t])'
  BY <1>4 DEF ScopeGood
<1>9. \A u \in Tabs \ {t} :
           /\ tabs[u].step = "appointing" /\ tabs[u].who \in ActiveStaff => tabs[u].who \in ActiveStaff'
           /\ tabs[u].step \in {"sorted", "importing"} => staffJobs'[tabs[u].job] = staffJobs[tabs[u].job]
           /\ tabs[u].step \in {"scoping", "routing"} =>
                \A s \in tabs[u].want : scope'[s] \in {scope[s], NoOne}
           /\ Exclusive(new, tabs[u])
  BY <1>2
<1>10. /\ accounts' \subseteq People /\ staff' \in [People -> Membership]
       /\ scope' \in [Scopes -> People \cup {NoOne}] /\ staffParsing' \subseteq StaffJobs
       /\ answered' \in BOOLEAN /\ imported' \in [StaffJobs -> Nat]
       /\ staffJobs' \in [StaffJobs -> Import] /\ (answered => answered')
  BY <1>1
<1> QED BY <1>2, <1>3, <1>6, <1>7, <1>8, <1>9, <1>10, RequestSteps

\* A request ends and has changed nothing.
LEMMA ClosingKeeps ==
  ASSUME StaffInductive, Possible, NEW t \in Tabs, CloseTab(t),
         UNCHANGED <<accounts, staff, scope, staffJobs, staffParsing, answered, imported, staffBegun>>
  PROVE  StaffInductive' /\ SchoolManagers \subseteq SchoolManagers' /\ Handed
<1>1. tabs' = [tabs EXCEPT ![t] = NoTab] /\ staffBegun' \in 0..StaffSteps
  BY DEF CloseTab, StaffInductive, StaffTypeOK
<1>2. NoTab \in Tab /\ NoTab.step = "idle" /\ \A u \in Tabs \ {t} : Exclusive(NoTab, tabs[u])
  BY StaffBounds, AtRestGood
<1>3. PersonGood(NoTab) /\ ImportGood(NoTab)
  BY <1>2 DEF PersonGood, ImportGood
<1> QED BY <1>1, <1>2, <1>3, TabMoves

\* A request begins.
LEMMA OpeningKeeps ==
  ASSUME StaffInductive, Possible, NEW t \in Tabs, NEW new \in Tab, OpenTab(t, new),
         UNCHANGED <<accounts, staff, scope, staffJobs, staffParsing, answered, imported>>,
         \A u \in Tabs \ {t} : Exclusive(new, tabs[u]), PersonGood(new), ImportGood(new),
         new.step \in {"scoping", "routing", "routed"} => ScopeGood(tabs[t], could[t])'
  PROVE  StaffInductive' /\ SchoolManagers \subseteq SchoolManagers' /\ Handed
<1>1. tabs' = [tabs EXCEPT ![t] = new] /\ staffBegun < StaffSteps /\ staffBegun' = staffBegun + 1
  BY DEF OpenTab
<1>2. staffBegun' \in 0..StaffSteps
  BY <1>1, StaffBounds DEF StaffInductive, StaffTypeOK
<1> QED BY <1>1, <1>2, TabMoves

\* The fields of a request that has just begun.
LEMMA NoTabFields ==
  /\ NoTab \in Tab /\ NoTab.step = "idle" /\ NoTab.who = NoOne /\ NoTab.saw = Stranger
  /\ NoTab.role = "TEACHER" /\ NoTab.want = {} /\ NoTab.sure = FALSE /\ NoTab.job = "none"
BY DEF NoTab, Tab, Steps, Stranger, Membership, Roles

\* Requests of one member begin, wait for a seat or give up.
LEMMA MemberBegins ==
  ASSUME StaffInductive, Possible, NEW t \in Tabs,
         \/ \E p \in People : OpenProfile(t, p) \/ OpenInvitation(t, p) \/ LockAppointment(t, p)
         \/ \E p \in People, role \in Roles \ {"MANAGER"}, asked \in SUBSET Scopes, sure \in BOOLEAN :
              AskHire(t, p, role, asked, sure)
         \/ LockHire(t) \/ Abort(t)
  PROVE  StaffInductive' /\ SchoolManagers \subseteq SchoolManagers' /\ Handed
<1> DEFINE Goal == StaffInductive' /\ SchoolManagers \subseteq SchoolManagers' /\ Handed
<1>1. staff \in [People -> Membership] /\ tabs \in [Tabs -> Tab] /\ staffBegun \in 0..StaffSteps
  BY DEF StaffInductive, StaffTypeOK
<1>2. ASSUME NEW p \in People, OpenProfile(t, p) PROVE Goal
  <2> DEFINE new == [NoTab EXCEPT !.step = "opened", !.who = p, !.saw = staff[p]]
  <2>1. new \in Tab /\ new.step = "opened" /\ new.who = p /\ new.saw = staff[p]
    BY <1>1, NoTabFields DEF Tab, Steps
  <2>2. /\ OpenTab(t, new) /\ SchoolManagers # {}
        /\ UNCHANGED <<accounts, staff, scope, staffJobs, staffParsing, answered, imported>>
    BY <1>2 DEF OpenProfile
  <2> HIDE DEF new
  <2>3. PersonGood(new) /\ ImportGood(new) /\ \A u \in Tabs \ {t} : Exclusive(new, tabs[u])
    BY <2>1, <2>2 DEF PersonGood, ImportGood, Exclusive, Capacity, SchoolManagers
  <2> QED BY <2>1, <2>2, <2>3, OpeningKeeps
<1>3. ASSUME NEW p \in People, OpenInvitation(t, p) PROVE Goal
  <2> DEFINE new == [NoTab EXCEPT !.step = "answering", !.who = p]
  <2>1. new \in Tab /\ new.step = "answering" /\ new.who = p
    BY <1>1, NoTabFields DEF Tab, Steps
  <2>2. /\ OpenTab(t, new)
        /\ UNCHANGED <<accounts, staff, scope, staffJobs, staffParsing, answered, imported>>
    BY <1>3 DEF OpenInvitation
  <2> HIDE DEF new
  <2>3. PersonGood(new) /\ ImportGood(new) /\ \A u \in Tabs \ {t} : Exclusive(new, tabs[u])
    BY <2>1 DEF PersonGood, ImportGood, Exclusive, Capacity
  <2> QED BY <2>1, <2>2, <2>3, OpeningKeeps
<1>4. ASSUME NEW p \in People, LockAppointment(t, p) PROVE Goal
  <2> DEFINE new == [NoTab EXCEPT !.step = "appointing", !.who = p, !.saw = staff[p]]
  <2>1. new \in Tab /\ new.step = "appointing" /\ new.who = p
    BY <1>1, NoTabFields DEF Tab, Steps
  <2>2. /\ OpenTab(t, new) /\ CapacityFree(t) /\ SchoolManagers = {} /\ (p \in ActiveStaff \/ HasSeats(1))
        /\ UNCHANGED <<accounts, staff, scope, staffJobs, staffParsing, answered, imported>>
    BY <1>4 DEF LockAppointment
  <2> HIDE DEF new
  <2>3. PersonGood(new) /\ ImportGood(new)
    BY <2>1, <2>2 DEF PersonGood, ImportGood, HasSeats, SeatsFor
  <2>4. \A u \in Tabs \ {t} : tabs[u].step \notin Capacity
    BY <2>2 DEF CapacityFree, AtStep, Capacity
  <2>5. \A u \in Tabs \ {t} : Exclusive(new, tabs[u])
    BY <2>1, <2>4 DEF Exclusive
  <2> QED BY <2>1, <2>2, <2>3, <2>5, OpeningKeeps
<1>5. ASSUME NEW p \in People, NEW role \in Roles \ {"MANAGER"}, NEW asked \in SUBSET Scopes,
             NEW sure \in BOOLEAN, AskHire(t, p, role, asked, sure)
      PROVE  Goal
  <2> DEFINE new == [NoTab EXCEPT !.step = "hiring", !.who = p, !.saw = staff[p], !.role = role,
                                  !.want = asked, !.sure = sure]
  <2>1. new \in Tab /\ new.step = "hiring" /\ new.who = p /\ new.role = role
    BY <1>1, NoTabFields DEF Tab, Steps
  <2>2. /\ OpenTab(t, new)
        /\ UNCHANGED <<accounts, staff, scope, staffJobs, staffParsing, answered, imported>>
    BY <1>5 DEF AskHire
  <2> HIDE DEF new
  <2>3. PersonGood(new) /\ ImportGood(new) /\ \A u \in Tabs \ {t} : Exclusive(new, tabs[u])
    BY <2>1 DEF PersonGood, ImportGood, Exclusive, Capacity
  <2> QED BY <2>1, <2>2, <2>3, OpeningKeeps
<1>6. CASE LockHire(t)
  <2> DEFINE new == [tabs[t] EXCEPT !.step = "creating"]
  <2>1. tabs[t] \in Tab /\ tabs[t].step = "hiring" /\ PersonGood(tabs[t])
    BY <1>1, <1>6 DEF LockHire, StaffInductive
  <2>2. new \in Tab /\ new.step = "creating" /\ new.who = tabs[t].who /\ new.role = tabs[t].role
        /\ new.saw = tabs[t].saw
    BY <2>1 DEF Tab, Steps
  <2>3. /\ tabs' = [tabs EXCEPT ![t] = new] /\ CapacityFree(t) /\ HasSeats(1) /\ tabs[t].saw.status = "NONE"
        /\ UNCHANGED <<accounts, staff, scope, staffJobs, staffParsing, answered, imported, staffBegun>>
    BY <1>6 DEF LockHire, Goto
  <2> HIDE DEF new
  <2>4. PersonGood(new) /\ ImportGood(new)
    BY <2>1, <2>2, <2>3 DEF PersonGood, ImportGood, HasSeats, SeatsFor
  <2>5. \A u \in Tabs \ {t} : tabs[u].step \notin Capacity
    BY <2>3 DEF CapacityFree, AtStep, Capacity
  <2>6. \A u \in Tabs \ {t} : Exclusive(new, tabs[u])
    BY <2>2, <2>5 DEF Exclusive
  <2>7. staffBegun' \in 0..StaffSteps
    BY <1>1, <2>3
  <2> QED BY <2>2, <2>3, <2>4, <2>6, <2>7, TabMoves
<1>7. CASE Abort(t)
  BY <1>7, ClosingKeeps DEF Abort
<1> QED BY <1>2, <1>3, <1>4, <1>5, <1>6, <1>7

\* Assigning scopes gives the member what it wants and frees its others.
LEMMA AssignedScopes ==
  ASSUME StaffInductive, NEW p \in People, NEW want \in SUBSET Scopes
  PROVE  /\ Assigned(p, want) \in [Scopes -> People \cup {NoOne}]
         /\ \A s \in Scopes \ want : Assigned(p, want)[s] \in {scope[s], NoOne}
         /\ \A s \in want : Assigned(p, want)[s] = p
BY DEF Assigned, StaffInductive, StaffTypeOK

\* What is assigned without a conflict, or with a confirmation, is handed over rightly.
LEMMA HandingOver ==
  ASSUME StaffInductive, NEW t \in Tabs, NEW p \in People, NEW want \in SUBSET Scopes,
         tabs[t].sure \/ Conflicts(p, want) = {}, CloseTab(t), scope' = Assigned(p, want)
  PROVE  Handed
<1>1. tabs'[t] = NoTab
  BY DEF CloseTab, StaffInductive
<1>2. CASE tabs[t].sure
  BY <1>1, <1>2 DEF Handed
<1>3. CASE Conflicts(p, want) = {}
  <2>1. \A s \in want : scope[s] \in {p, NoOne}
    BY <1>3 DEF Conflicts
  <2>2. \A s \in Scopes : scope[s] # NoOne => scope'[s] \in {NoOne, scope[s]}
    BY <2>1, AssignedScopes
  <2> QED BY <2>2 DEF Handed
<1> QED BY <1>2, <1>3

\* create_staff writes the membership, the role and the scopes.
LEMMA HireStep ==
  ASSUME StaffInductive, Possible, NEW t \in Tabs, Hire(t)
  PROVE  StaffInductive' /\ SchoolManagers \subseteq SchoolManagers' /\ Handed
<1> DEFINE p == tabs[t].who
           saw == tabs[t].saw
           want == Normal(tabs[t].want)
           status == IF saw.status = "NONE" THEN Joined(p)
                     ELSE IF saw.status = "LEFT" THEN "INVITED" ELSE staff[p].status
           roles == staff[p].roles \cup {tabs[t].role}
           m == [status |-> status, roles |-> roles, profile |-> TRUE]
<1>1. /\ staff \in [People -> Membership] /\ answered \in BOOLEAN /\ accounts \subseteq People
      /\ scope \in [Scopes -> People \cup {NoOne}] /\ PersonGood(tabs[t]) /\ tabs[t] \in Tab
      /\ tabs[t].want \subseteq Scopes
  BY WantsScopes DEF StaffInductive, StaffTypeOK
<1>2. /\ tabs[t].step = "creating" \/ (tabs[t].step = "hiring" /\ saw.status # "NONE")
      /\ RowFree(t, p) /\ ScopesFree(t, tabs[t].want) /\ CloseTab(t)
      /\ tabs[t].sure \/ Conflicts(p, want) = {}
      /\ UNCHANGED <<staffJobs, staffParsing, answered, imported, staffBegun>>
  BY DEF Hire
<1>3. staff' = [staff EXCEPT ![p] = m] /\ accounts' = accounts \cup {p}
      /\ scope' = IF tabs[t].role = "VICE" THEN Assigned(p, want) ELSE scope
  BY Zenon DEF Hire
<1>4. p \in People /\ tabs[t].role # "MANAGER" /\ tabs[t].role \in Roles /\ staff[p] \in Membership
  BY <1>1, <1>2 DEF PersonGood, Tab
<1>5. status \in {"NONE", "ACTIVE", "INVITED", "DECLINED", "SUSPENDED", "LEFT"}
  BY <1>4 DEF Membership, Joined
<1>6. status # "ACTIVE" \/ p \in ActiveStaff \/ tabs[t].step = "creating"
  BY <1>2, <1>4 DEF ActiveStaff
<1>7. roles \in SUBSET Roles /\ ("MANAGER" \in roles <=> p \in SchoolManagers)
  BY <1>4 DEF Membership, SchoolManagers
<1> HIDE DEF status, roles
<1>8. m \in Membership /\ m.roles = roles /\ m.status = status
  BY <1>5, <1>7 DEF Membership
<1> HIDE DEF m
<1>9. want \in SUBSET Scopes /\ want \subseteq tabs[t].want
  BY <1>1, NormalWants
<1>10. \A u \in Tabs \ {t} : tabs[u].step \in {"scoping", "routing"} => tabs[u].want \cap want = {}
  BY <1>2, <1>9 DEF ScopesFree, AtStep
<1>11. scope' \in [Scopes -> People \cup {NoOne}]
  BY <1>1, <1>3, <1>4, <1>9, AssignedScopes
<1>12. ASSUME NEW u \in Tabs \ {t}, tabs[u].step \in {"scoping", "routing"}, NEW s \in tabs[u].want
       PROVE  scope'[s] \in {scope[s], NoOne}
  <2>1. s \in Scopes \ want
    BY <1>10, <1>12, WantsScopes
  <2> QED BY <1>3, <1>4, <1>9, <2>1, AssignedScopes
<1>13. Handed
  <2>1. CASE scope' = scope
    BY <2>1 DEF Handed
  <2>2. CASE scope' = Assigned(p, want)
    BY <1>2, <1>4, <1>9, <2>2, HandingOver
  <2> QED BY <1>3, <2>1, <2>2
<1>14. StaffInductive' /\ SchoolManagers \subseteq SchoolManagers'
  <2>1. accounts' \subseteq People /\ answered' \in BOOLEAN /\ (answered => answered')
    BY <1>1, <1>2, <1>3, <1>4
  <2>2. \/ answered' \/ m.status # "ACTIVE" \/ tabs[t].who \in ActiveStaff \/ tabs[t].step = "creating"
    BY <1>6, <1>8
  <2>3. "MANAGER" \in m.roles <=> tabs[t].who \in SchoolManagers
    BY <1>7, <1>8
  <2>4. \A u \in Tabs \ {t} : tabs[u].step \in {"scoping", "routing"} =>
           \A s \in tabs[u].want : scope'[s] \in {scope[s], NoOne}
    BY <1>12
  <2> HIDE DEF want, saw
  <2> QED BY <1>2, <1>3, <1>4, <1>8, <1>11, <2>1, <2>2, <2>3, <2>4, MemberKeeps
<1> QED BY <1>13, <1>14

\* add_manager gives a school without a manager its manager.
LEMMA AppointStep ==
  ASSUME StaffInductive, Possible, NEW t \in Tabs, Appoint(t)
  PROVE  StaffInductive' /\ SchoolManagers \subseteq SchoolManagers' /\ Handed
<1> DEFINE p == tabs[t].who
           roles == staff[p].roles \cup {"MANAGER"}
           m == [staff[p] EXCEPT !.status = "ACTIVE", !.roles = roles]
<1>1. /\ staff \in [People -> Membership] /\ tabs \in [Tabs -> Tab] /\ staffJobs \in [StaffJobs -> Import]
      /\ staffParsing \subseteq StaffJobs /\ imported \in [StaffJobs -> Nat] /\ accounts \subseteq People
      /\ AppliedGone /\ answered \in BOOLEAN /\ scope \in [Scopes -> People \cup {NoOne}]
      /\ staffBegun \in 0..StaffSteps /\ PersonGood(tabs[t]) /\ WithinSeats
  BY DEF StaffInductive, StaffTypeOK
<1>2. /\ tabs[t].step = "appointing" /\ tabs' = [tabs EXCEPT ![t] = NoTab] /\ accounts' = accounts \cup {p}
      /\ UNCHANGED <<scope, staffJobs, staffParsing, answered, imported, staffBegun>>
  BY DEF Appoint, CloseTab
<1>3. p \in People /\ SchoolManagers = {} /\ (p \in ActiveStaff \/ SeatsFor(1)) /\ staff[p] \in Membership
  BY <1>1, <1>2 DEF PersonGood
<1>4. roles \in SUBSET Roles
  BY <1>3 DEF Membership, Roles
<1>5. m \in Membership /\ m.status = "ACTIVE"
  BY <1>3, <1>4 DEF Membership
<1>6. staff' = [staff EXCEPT ![p] = m]
  BY <1>1, <1>3 DEF Appoint
<1> HIDE DEF m, roles
<1>7. /\ staff' \in [People -> Membership]
      /\ \A q \in People : staff'[q] = IF q = p THEN m ELSE staff[q]
      /\ \A q \in ActiveStaff : q \in ActiveStaff'
      /\ p \in ActiveStaff => Cardinality(ActiveStaff') <= Cardinality(ActiveStaff)
      /\ Cardinality(ActiveStaff') <= Cardinality(ActiveStaff) + 1
  BY <1>1, <1>3, <1>5, <1>6, OneRow
<1>8. \A q, r \in SchoolManagers' : q = r
  BY <1>3, <1>7 DEF SchoolManagers
<1>9. \/ answered'
      \/ Cardinality(ActiveStaff') <= Cardinality(ActiveStaff)
      \/ tabs[t].step \in Capacity /\ Cardinality(ActiveStaff') <= StaffLimit
  <2>1. Cardinality(ActiveStaff) \in Nat /\ Cardinality(ActiveStaff') \in Nat /\ StaffLimit \in Nat
    BY ActiveCounts, StaffBounds
  <2> QED BY <1>2, <1>3, <1>7, <2>1 DEF Capacity, SeatsFor
<1>10. /\ NoTab \in Tab /\ \A u \in Tabs \ {t} : Exclusive(NoTab, tabs[u])
       /\ PersonGood(tabs[t])' /\ ImportGood(tabs[t])' /\ ScopeGood(tabs[t], could[t])'
  BY <1>1, <1>2, StaffBounds, AtRestGood
<1>11. AppliedGone' /\ Handed
  BY <1>1, <1>2 DEF AppliedGone, Handed
<1>12. \A u \in Tabs \ {t} :
           /\ tabs[u].step = "appointing" /\ tabs[u].who \in ActiveStaff => tabs[u].who \in ActiveStaff'
           /\ tabs[u].step \in {"sorted", "importing"} => staffJobs'[tabs[u].job] = staffJobs[tabs[u].job]
           /\ tabs[u].step \in {"scoping", "routing"} =>
                \A s \in tabs[u].want : scope'[s] \in {scope[s], NoOne}
           /\ Exclusive(NoTab, tabs[u])
  BY <1>2, <1>7, <1>10
<1>13. /\ accounts' \subseteq People /\ scope' \in [Scopes -> People \cup {NoOne}]
       /\ staffParsing' \subseteq StaffJobs /\ answered' \in BOOLEAN /\ imported' \in [StaffJobs -> Nat]
       /\ staffJobs' \in [StaffJobs -> Import] /\ (answered => answered') /\ staffBegun' \in 0..StaffSteps
  BY <1>1, <1>2, <1>3
<1>14. StaffInductive' /\ SchoolManagers \subseteq SchoolManagers'
  BY <1>2, <1>3, <1>7, <1>8, <1>9, <1>10, <1>11, <1>12, <1>13, RequestSteps
<1> QED BY <1>11, <1>14

-----------------------------------------------------------------------------
(* Scopes and routing.                                                      *)

\* Nobody else holds the scopes that are free.
LEMMA ScopesExclusive ==
  ASSUME NEW t \in Tabs, NEW new \in Tab, new.step \in {"scoping", "routing"}, ScopesFree(t, new.want)
  PROVE  \A u \in Tabs \ {t} : Exclusive(new, tabs[u])
<1>1. \A u \in Tabs \ {t} : tabs[u].step \in {"scoping", "routing"} => tabs[u].want \cap new.want = {}
  BY DEF ScopesFree, AtStep
<1> QED BY <1>1 DEF Exclusive, Capacity

\* While nobody changes, the answer that a routing could get now is who is responsible.
LEMMA AnswerNow ==
  ASSUME StaffInductive, Possible, NEW t \in Tabs, NEW s \in Classes, UNCHANGED <<staff, scope>>,
         tabs'[t].want = {"grade", s}, tabs'[t].step \in {"routing", "routed"}
  PROVE  could'[t] = could[t] \cup {Responsible(s)}
<1>1. ServingStaff' = ServingStaff
  BY DEF ServingStaff, Serving, ActiveStaff
<1>2. RouteNow(t)' = Responsible(s)
  <2>1. (CHOOSE c \in Classes : c \in tabs'[t].want) = s
    BY RoutedSection
  <2>2. RouteNow(t)' = Responsible(s)'
    BY <2>1 DEF RouteNow
  <2>3. Responsible(s)' = Responsible(s)
    BY DEF Responsible, Serving, ActiveStaff
  <2> QED BY <2>2, <2>3
<1>3. t \in AtStep({"routing", "routed"})'
  BY DEF AtStep
<1> QED BY <1>1, <1>2, <1>3 DEF Possible

\* set_vice_principal_scopes takes the locks of free scopes, sees what they conflict with,
\* and then writes.
LEMMA ScopingSteps ==
  ASSUME StaffInductive, Possible, NEW t \in Tabs,
         \/ \E asked \in SUBSET Scopes, sure \in BOOLEAN : LockScopes(t, asked, sure)
         \/ WriteScopes(t)
  PROVE  StaffInductive' /\ SchoolManagers \subseteq SchoolManagers' /\ Handed
<1> DEFINE Goal == StaffInductive' /\ SchoolManagers \subseteq SchoolManagers' /\ Handed
           p == tabs[t].who
<1>1. /\ staff \in [People -> Membership] /\ tabs \in [Tabs -> Tab] /\ staffJobs \in [StaffJobs -> Import]
      /\ staffParsing \subseteq StaffJobs /\ imported \in [StaffJobs -> Nat] /\ accounts \subseteq People
      /\ AppliedGone /\ answered \in BOOLEAN /\ scope \in [Scopes -> People \cup {NoOne}]
      /\ staffBegun \in 0..StaffSteps /\ PersonGood(tabs[t]) /\ ScopeGood(tabs[t], could[t])
  BY DEF StaffInductive, StaffTypeOK
<1>2. ASSUME NEW asked \in SUBSET Scopes, NEW sure \in BOOLEAN, LockScopes(t, asked, sure) PROVE Goal
  <2> DEFINE new == [tabs[t] EXCEPT !.step = "scoping", !.want = asked, !.sure = sure]
  <2>1. p \in People /\ tabs[t] \in Tab
    BY <1>1, <1>2 DEF LockScopes, PersonGood
  <2>2. new \in Tab /\ new.step = "scoping" /\ new.who = p /\ new.want = asked /\ new.sure = sure
    BY <2>1 DEF Tab, Steps
  <2>3. /\ tabs' = [tabs EXCEPT ![t] = new] /\ ScopesFree(t, asked) /\ (sure \/ Conflicts(p, Normal(asked)) = {})
        /\ UNCHANGED <<accounts, staff, scope, staffJobs, staffParsing, answered, imported, staffBegun>>
    BY <1>1, <1>2 DEF LockScopes
  <2> HIDE DEF new
  <2>4. PersonGood(new) /\ ImportGood(new)
    BY <2>1, <2>2 DEF PersonGood, ImportGood
  <2>5. \A u \in Tabs \ {t} : Exclusive(new, tabs[u])
    BY <2>2, <2>3, ScopesExclusive
  <2>6. tabs'[t] = new
    BY <1>1, <2>3
  <2>7. sure \/ \A s \in Normal(asked) : scope'[s] \in {new.who, NoOne}
    BY <2>2, <2>3 DEF Conflicts
  <2>8. ScopeGood(tabs[t], could[t])'
    BY <2>2, <2>6, <2>7 DEF ScopeGood, Conflicts, Normal
  <2>9. staffBegun' \in 0..StaffSteps
    BY <1>1, <2>3
  <2> QED BY <2>2, <2>3, <2>4, <2>5, <2>8, <2>9, TabMoves
<1>3. CASE WriteScopes(t)
  <2> DEFINE want == Normal(tabs[t].want)
  <2>1. /\ tabs[t].step = "scoping" /\ CloseTab(t) /\ scope' = Assigned(p, want)
        /\ UNCHANGED <<accounts, staff, staffJobs, staffParsing, answered, imported, staffBegun>>
    BY <1>3 DEF WriteScopes
  <2>2. p \in People /\ want \subseteq tabs[t].want /\ want \in SUBSET Scopes
    BY <1>1, <2>1, WantsScopes, NormalWants DEF PersonGood
  <2>3. tabs[t].sure \/ Conflicts(p, want) = {}
    BY <1>1, <2>1 DEF ScopeGood
  <2>4. ASSUME NEW u \in Tabs \ {t}, tabs[u].step \in {"scoping", "routing"}, NEW s \in tabs[u].want
        PROVE  scope'[s] \in {scope[s], NoOne}
    <3>1. tabs[t].want \cap tabs[u].want = {}
      BY <2>1, <2>4 DEF StaffInductive, Exclusive
    <3>2. s \in Scopes \ want
      BY <2>2, <2>4, <3>1, WantsScopes
    <3> HIDE DEF want
    <3> QED BY <2>1, <2>2, <3>2, AssignedScopes
  <2> HIDE DEF want
  <2>5. Handed
    BY <2>1, <2>2, <2>3, HandingOver
  <2>6. scope' \in [Scopes -> People \cup {NoOne}]
    BY <2>1, <2>2, AssignedScopes
  <2>7. tabs' = [tabs EXCEPT ![t] = NoTab] /\ tabs'[t] = NoTab
    BY <1>1, <2>1 DEF CloseTab
  <2>8. /\ NoTab \in Tab /\ \A u \in Tabs \ {t} : Exclusive(NoTab, tabs[u])
        /\ PersonGood(tabs[t])' /\ ImportGood(tabs[t])' /\ ScopeGood(tabs[t], could[t])'
    BY <2>7, StaffBounds, AtRestGood
  <2>9. SchoolManagers' = SchoolManagers /\ ActiveStaff' = ActiveStaff
    BY <2>1 DEF SchoolManagers, ActiveStaff
  <2>10. AppliedGone' /\ Cardinality(ActiveStaff') <= Cardinality(ActiveStaff)
    BY <1>1, <2>1, <2>9, ActiveCounts DEF AppliedGone
  <2>11. \A u \in Tabs \ {t} :
           /\ tabs[u].step = "appointing" /\ tabs[u].who \in ActiveStaff => tabs[u].who \in ActiveStaff'
           /\ tabs[u].step \in {"sorted", "importing"} => staffJobs'[tabs[u].job] = staffJobs[tabs[u].job]
           /\ tabs[u].step \in {"scoping", "routing"} =>
                \A s \in tabs[u].want : scope'[s] \in {scope[s], NoOne}
           /\ Exclusive(NoTab, tabs[u])
    BY <2>1, <2>4, <2>8, <2>9
  <2>12. /\ accounts' \subseteq People /\ staff' \in [People -> Membership]
         /\ staffParsing' \subseteq StaffJobs /\ answered' \in BOOLEAN /\ imported' \in [StaffJobs -> Nat]
         /\ staffJobs' \in [StaffJobs -> Import] /\ (answered => answered') /\ staffBegun' \in 0..StaffSteps
    BY <1>1, <2>1
  <2>13. StaffInductive' /\ SchoolManagers \subseteq SchoolManagers'
    BY <2>6, <2>7, <2>8, <2>9, <2>10, <2>11, <2>12, RequestSteps
  <2> QED BY <2>5, <2>13
<1> QED BY <1>2, <1>3

\* responsible_vice_for_student asks for the section's assignment, then for the grade's, and
\* the referral that is created for the answer ends the transaction.
LEMMA RoutingSteps ==
  ASSUME StaffInductive, Possible, NEW t \in Tabs,
         (\E s \in Classes : StartRouting(t, s)) \/ EndRouting(t) \/ Refer(t)
  PROVE  StaffInductive' /\ SchoolManagers \subseteq SchoolManagers' /\ Handed
<1> DEFINE Goal == StaffInductive' /\ SchoolManagers \subseteq SchoolManagers' /\ Handed
<1>1. /\ tabs \in [Tabs -> Tab] /\ scope \in [Scopes -> People \cup {NoOne}] /\ staffBegun \in 0..StaffSteps
      /\ ScopeGood(tabs[t], could[t]) /\ could[t] \subseteq People \cup {NoOne}
      /\ \A u \in Tabs \ {t} : Exclusive(tabs[t], tabs[u])
  BY DEF StaffInductive, StaffTypeOK
<1>2. ASSUME NEW s \in Classes, StartRouting(t, s) PROVE Goal
  <2> DEFINE first == IF Serving(scope[s]) THEN scope[s] ELSE NoOne
             new == [NoTab EXCEPT !.step = "routing", !.want = {"grade", s}, !.who = first]
  <2>1. first \in People \cup {NoOne} /\ {"grade", s} \subseteq Scopes
    BY DEF Serving, ActiveStaff, Scopes
  <2>2. /\ OpenTab(t, new) /\ ScopesFree(t, {"grade", s})
        /\ UNCHANGED <<accounts, staff, scope, staffJobs, staffParsing, answered, imported>>
    BY <1>2 DEF StartRouting
  <2>3. first # NoOne => Serving(scope[s]) /\ first = scope[s]
    OBVIOUS
  <2>4. first = NoOne => ~Serving(scope[s])
    BY DEF Serving
  <2> HIDE DEF first
  <2>5. new \in Tab /\ new.step = "routing" /\ new.who = first /\ new.want = {"grade", s}
    BY <2>1, NoTabFields DEF Tab, Steps
  <2> HIDE DEF new
  <2>6. PersonGood(new) /\ ImportGood(new)
    BY <2>5 DEF PersonGood, ImportGood
  <2>7. \A u \in Tabs \ {t} : Exclusive(new, tabs[u])
    BY <2>2, <2>5, ScopesExclusive
  <2>8. tabs'[t] = new
    BY <1>1, <2>2 DEF OpenTab
  <2>9. could'[t] = could[t] \cup {Responsible(s)}
    BY <2>2, <2>5, <2>8, AnswerNow
  <2>10. ~Serving(scope[s]) => ~Serving(scope[s])'
    BY <2>2 DEF Serving, ActiveStaff
  <2>11. first # NoOne => first \in could'[t]
    BY <2>3, <2>9 DEF Responsible
  <2>12. ScopeGood(tabs[t], could[t])'
    BY <2>4, <2>5, <2>8, <2>10, <2>11 DEF ScopeGood
  <2> QED BY <2>2, <2>5, <2>6, <2>7, <2>12, OpeningKeeps
<1>3. CASE EndRouting(t)
  <2> DEFINE answer == Routed(t)
             new == [tabs[t] EXCEPT !.step = "routed", !.who = answer]
  <2>1. /\ tabs[t].step = "routing" /\ tabs' = [tabs EXCEPT ![t] = new] /\ tabs[t] \in Tab
        /\ UNCHANGED <<accounts, staff, scope, staffJobs, staffParsing, answered, imported, staffBegun>>
    BY <1>1, <1>3 DEF EndRouting
  <2>2. answer \in People \cup {NoOne}
    BY <2>1 DEF Routed, Serving, ActiveStaff, Tab
  <2>3. PICK s \in Classes :
               /\ tabs[t].want = {"grade", s}
               /\ IF tabs[t].who # NoOne THEN tabs[t].who \in could[t]
                  ELSE People \cup {NoOne} \subseteq could[t] \/ ~Serving(scope[s])
    BY <1>1, <2>1 DEF ScopeGood
  <2>4. answer \in could[t] \cup {Responsible(s)}
    BY <2>2, <2>3 DEF Routed, Responsible
  <2> HIDE DEF answer
  <2>5. new \in Tab /\ new.step = "routed" /\ new.who = answer /\ new.want = {"grade", s}
    BY <2>1, <2>2, <2>3 DEF Tab, Steps
  <2> HIDE DEF new
  <2>6. PersonGood(new) /\ ImportGood(new)
    BY <2>5 DEF PersonGood, ImportGood
  <2>7. \A u \in Tabs \ {t} : Exclusive(new, tabs[u])
    BY <2>5 DEF Exclusive, Capacity
  <2>8. tabs'[t] = new /\ staffBegun' \in 0..StaffSteps
    BY <1>1, <2>1
  <2>9. could'[t] = could[t] \cup {Responsible(s)}
    BY <2>1, <2>5, <2>8, AnswerNow
  <2>10. ScopeGood(tabs[t], could[t])'
    BY <2>4, <2>5, <2>8, <2>9 DEF ScopeGood
  <2> QED BY <2>1, <2>5, <2>6, <2>7, <2>8, <2>10, TabMoves
<1>4. CASE Refer(t)
  BY <1>4, ClosingKeeps DEF Refer
<1> QED BY <1>2, <1>3, <1>4

-----------------------------------------------------------------------------
(* The import of teachers.                                                  *)

\* The row of one job is written by nobody who sorts or applies it: whoever does keeps the
\* preview it found, and an import that was applied gets none again.
LEMMA JobChanges ==
  ASSUME StaffInductive, NEW j \in StaffJobs, NEW new \in Import, staffJobs' = [staffJobs EXCEPT ![j] = new],
         UNCHANGED imported, JobFree(j) \/ staffJobs[j].status # "READY",
         imported[j] # 0 => ~new.file /\ new.status \notin {"none", "UPLOADED", "READY"}
  PROVE  /\ staffJobs' \in [StaffJobs -> Import] /\ AppliedGone'
         /\ \A u \in Tabs : tabs[u].step \in {"sorted", "importing"} =>
                              staffJobs'[tabs[u].job] = staffJobs[tabs[u].job]
<1>1. /\ staffJobs' \in [StaffJobs -> Import]
      /\ \A k \in StaffJobs : staffJobs'[k] = IF k = j THEN new ELSE staffJobs[k]
  BY DEF StaffInductive
<1>2. AppliedGone'
  BY <1>1 DEF StaffInductive, AppliedGone
<1>3. ASSUME NEW u \in Tabs, tabs[u].step \in {"sorted", "importing"}
      PROVE  staffJobs'[tabs[u].job] = staffJobs[tabs[u].job]
  <2>1. tabs[u].job \in StaffJobs /\ staffJobs[tabs[u].job].status = "READY"
    BY <1>3 DEF StaffInductive, ImportGood
  <2>2. tabs[u].job # j
    BY <1>3, <2>1 DEF JobFree, AtStep
  <2> QED BY <1>1, <2>1, <2>2
<1> QED BY <1>1, <1>2, <1>3

\* Rows that are sorted are rows.
LEMMA SortedRows ==
  ASSUME NEW rows \in [People -> RowCategory], staff \in [People -> Membership]
  PROVE  Categories(rows) \in [People -> RowCategory]
<1>1. \A p \in People : Category(p) \in RowCategory
  BY DEF Category, RowCategory, Membership
<1>2. "absent" \in RowCategory
  BY DEF RowCategory
<1> QED BY <1>1, <1>2 DEF Categories

\* The empty row of a job, and that of a file.
LEMMA JobRows ==
  /\ NoStaffJob \in Import /\ ~NoStaffJob.file
  /\ \A listed : Uploaded(listed) \in Import
<1>1. [p \in People |-> "absent"] \in [People -> RowCategory]
  BY DEF RowCategory
<1>2. \A listed : [p \in People |-> IF p \in listed THEN "listed" ELSE "absent"] \in [People -> RowCategory]
  BY DEF RowCategory
<1> QED BY <1>1, <1>2 DEF NoStaffJob, Uploaded, Import

\* A file that arrives, is parsed or is sorted anew, and a person whom another school hires.
LEMMA FileSteps ==
  ASSUME StaffInductive, Possible,
         \/ \E p \in People : HiredElsewhere(p)
         \/ \E j \in StaffJobs : (\E listed \in Files : UploadStaff(j, listed)) \/ RefreshPreview(j)
         \/ \E j \in StaffJobs, legible \in BOOLEAN : ParseImport(j, legible)
  PROVE  StaffInductive' /\ SchoolManagers \subseteq SchoolManagers' /\ Handed
<1> DEFINE Goal == StaffInductive' /\ SchoolManagers \subseteq SchoolManagers' /\ Handed
<1>1. /\ staff \in [People -> Membership] /\ tabs \in [Tabs -> Tab] /\ staffJobs \in [StaffJobs -> Import]
      /\ staffParsing \subseteq StaffJobs /\ imported \in [StaffJobs -> Nat] /\ accounts \subseteq People
      /\ AppliedGone /\ scope \in [Scopes -> People \cup {NoOne}]
      /\ staffBegun \in 0..StaffSteps
  BY DEF StaffInductive, StaffTypeOK
<1>2. staffBegun < StaffSteps => staffBegun + 1 \in 0..StaffSteps
  BY <1>1, StaffBounds
<1>3. scope' = scope => Handed
  BY DEF Handed
<1>4. ASSUME NEW p \in People, HiredElsewhere(p) PROVE Goal
  <2>1. /\ accounts' = accounts \cup {p} /\ staffBegun' = staffBegun + 1 /\ staffBegun < StaffSteps
        /\ UNCHANGED <<staff, scope, tabs, staffJobs, staffParsing, answered, imported>>
    BY <1>4 DEF HiredElsewhere
  <2>2. AppliedGone' /\ accounts' \subseteq People /\ staffBegun' \in 0..StaffSteps
        /\ staffJobs' \in [StaffJobs -> Import] /\ staffParsing' \subseteq StaffJobs
    BY <1>1, <1>2, <2>1 DEF AppliedGone
  <2> QED BY <1>3, <2>1, <2>2, OthersStep
<1>5. ASSUME NEW j \in StaffJobs, NEW listed \in Files, UploadStaff(j, listed) PROVE Goal
  <2> DEFINE new == Uploaded(listed)
  <2>1. /\ staffJobs[j].status = "none" /\ staffBegun' = staffBegun + 1 /\ staffBegun < StaffSteps
        /\ staffJobs' = [staffJobs EXCEPT ![j] = new]
        /\ UNCHANGED <<accounts, staff, scope, tabs, staffParsing, answered, imported>>
    BY <1>5 DEF UploadStaff
  <2>2. new \in Import
    BY JobRows
  <2>3. imported[j] = 0
    BY <1>1, <2>1 DEF AppliedGone
  <2> HIDE DEF new
  <2>4. /\ staffJobs' \in [StaffJobs -> Import] /\ AppliedGone'
        /\ \A u \in Tabs : tabs[u].step \in {"sorted", "importing"} =>
                              staffJobs'[tabs[u].job] = staffJobs[tabs[u].job]
    BY <2>1, <2>2, <2>3, JobChanges
  <2>5. accounts' \subseteq People /\ staffBegun' \in 0..StaffSteps /\ staffParsing' \subseteq StaffJobs
    BY <1>1, <1>2, <2>1
  <2> QED BY <1>3, <2>1, <2>4, <2>5, OthersStep
<1>6. ASSUME NEW j \in StaffJobs, RefreshPreview(j) PROVE Goal
  <2> DEFINE rows == Categories(staffJobs[j].rows)
             new == [staffJobs[j] EXCEPT !.rows = rows]
  <2>1. /\ staffJobs[j].status = "READY" /\ JobFree(j) /\ staffJobs' = [staffJobs EXCEPT ![j] = new]
        /\ UNCHANGED <<accounts, staff, scope, tabs, staffParsing, answered, imported, staffBegun>>
    BY <1>6 DEF RefreshPreview
  <2>2. staffJobs[j] \in Import /\ rows \in [People -> RowCategory]
    BY <1>1, SortedRows DEF Import
  <2> HIDE DEF rows
  <2>3. new \in Import
    BY <2>2 DEF Import
  <2>4. imported[j] = 0
    BY <1>1, <2>1 DEF AppliedGone
  <2> HIDE DEF new
  <2>5. /\ staffJobs' \in [StaffJobs -> Import] /\ AppliedGone'
        /\ \A u \in Tabs : tabs[u].step \in {"sorted", "importing"} =>
                              staffJobs'[tabs[u].job] = staffJobs[tabs[u].job]
    BY <2>1, <2>3, <2>4, JobChanges
  <2>6. accounts' \subseteq People /\ staffBegun' \in 0..StaffSteps /\ staffParsing' \subseteq StaffJobs
    BY <1>1, <2>1
  <2> QED BY <1>3, <2>1, <2>5, <2>6, OthersStep
<1>7. ASSUME NEW j \in StaffJobs, NEW legible \in BOOLEAN, ParseImport(j, legible) PROVE Goal
  <2> DEFINE rows == Categories(staffJobs[j].rows)
             ready == [staffJobs[j] EXCEPT !.status = "READY", !.rows = rows]
             failed == [staffJobs[j] EXCEPT !.status = "FAILED"]
  <2>1. /\ JobFree(j) /\ staffParsing' = staffParsing \ {j}
        /\ \/ staffJobs' = staffJobs
           \/ staffJobs[j].file /\ staffJobs' = [staffJobs EXCEPT ![j] = ready]
           \/ staffJobs' = [staffJobs EXCEPT ![j] = failed]
        /\ UNCHANGED <<accounts, staff, scope, tabs, answered, imported, staffBegun>>
    BY <1>1, <1>7 DEF ParseImport
  <2>2. staffJobs[j] \in Import /\ rows \in [People -> RowCategory]
    BY <1>1, SortedRows DEF Import
  <2> HIDE DEF rows
  <2>3. ready \in Import /\ failed \in Import /\ failed.status = "FAILED" /\ failed.file = staffJobs[j].file
    BY <2>2 DEF Import
  <2>4. imported[j] # 0 => ~staffJobs[j].file
    BY <1>1 DEF AppliedGone
  <2> HIDE DEF ready, failed
  <2>5. /\ staffJobs' \in [StaffJobs -> Import] /\ AppliedGone'
        /\ \A u \in Tabs : tabs[u].step \in {"sorted", "importing"} =>
                              staffJobs'[tabs[u].job] = staffJobs[tabs[u].job]
    <3>1. CASE staffJobs' = staffJobs
      BY <1>1, <2>1, <3>1 DEF AppliedGone
    <3>2. CASE staffJobs[j].file /\ staffJobs' = [staffJobs EXCEPT ![j] = ready]
      BY <2>1, <2>3, <2>4, <3>2, JobChanges
    <3>3. CASE staffJobs' = [staffJobs EXCEPT ![j] = failed]
      BY <2>1, <2>3, <2>4, <3>3, JobChanges
    <3> QED BY <2>1, <3>1, <3>2, <3>3
  <2>6. accounts' \subseteq People /\ staffBegun' \in 0..StaffSteps /\ staffParsing' \subseteq StaffJobs
    BY <1>1, <2>1
  <2> QED BY <1>3, <2>1, <2>5, <2>6, OthersStep
<1> QED BY <1>4, <1>5, <1>6, <1>7

\* A request that finds an import, sorts its rows or waits for the seats it needs.
LEMMA ImportMoves ==
  ASSUME StaffInductive, Possible, NEW t \in Tabs,
         \/ \E j \in StaffJobs : SortRows(t, j) \/ \E step \in {"submitting", "cancelling"} : OpenImport(t, j, step)
         \/ LockImport(t)
  PROVE  StaffInductive' /\ SchoolManagers \subseteq SchoolManagers' /\ Handed
<1> DEFINE Goal == StaffInductive' /\ SchoolManagers \subseteq SchoolManagers' /\ Handed
<1>1. /\ tabs \in [Tabs -> Tab] /\ staffBegun \in 0..StaffSteps /\ ImportGood(tabs[t])
      /\ \A u \in Tabs \ {t} : Exclusive(tabs[t], tabs[u])
  BY DEF StaffInductive, StaffTypeOK
<1>2. ASSUME NEW j \in StaffJobs, SortRows(t, j) PROVE Goal
  <2> DEFINE new == [NoTab EXCEPT !.step = "sorted", !.job = j]
  <2>1. /\ staffJobs[j].status = "READY" /\ JobFree(j) /\ OpenTab(t, new)
        /\ UNCHANGED <<accounts, staff, scope, staffJobs, staffParsing, answered, imported>>
    BY <1>2 DEF SortRows
  <2>2. new \in Tab /\ new.step = "sorted" /\ new.job = j
    BY NoTabFields DEF Tab, Steps
  <2> HIDE DEF new
  <2>3. PersonGood(new) /\ ImportGood(new)
    BY <2>1, <2>2 DEF PersonGood, ImportGood
  <2>4. \A u \in Tabs \ {t} : Exclusive(new, tabs[u])
    BY <2>1, <2>2 DEF Exclusive, Capacity, JobFree, AtStep
  <2> QED BY <2>1, <2>2, <2>3, <2>4, OpeningKeeps
<1>3. ASSUME NEW j \in StaffJobs, NEW step \in {"submitting", "cancelling"}, OpenImport(t, j, step) PROVE Goal
  <2> DEFINE new == [NoTab EXCEPT !.step = step, !.job = j]
  <2>1. /\ OpenTab(t, new)
        /\ UNCHANGED <<accounts, staff, scope, staffJobs, staffParsing, answered, imported>>
    BY <1>3 DEF OpenImport
  <2>2. new \in Tab /\ new.step = step /\ new.job = j
    BY NoTabFields DEF Tab, Steps
  <2> HIDE DEF new
  <2>3. PersonGood(new) /\ ImportGood(new)
    BY <2>1, <2>2 DEF PersonGood, ImportGood
  <2>4. \A u \in Tabs \ {t} : Exclusive(new, tabs[u])
    BY <2>1, <2>2 DEF Exclusive, Capacity
  <2>5. new.step \notin {"scoping", "routing", "routed"}
    BY <2>2
  <2> QED BY <2>1, <2>2, <2>3, <2>4, <2>5, OpeningKeeps
<1>4. CASE LockImport(t)
  <2> DEFINE new == [tabs[t] EXCEPT !.step = "importing"]
             rows == staffJobs[tabs[t].job].rows
  <2>1. /\ tabs[t].step = "sorted" /\ CapacityFree(t) /\ HasSeats(Cardinality(Adding(rows)))
        /\ tabs' = [tabs EXCEPT ![t] = new] /\ tabs[t] \in Tab
        /\ UNCHANGED <<accounts, staff, scope, staffJobs, staffParsing, answered, imported, staffBegun>>
    BY <1>1, <1>4 DEF LockImport, Goto
  <2>2. new \in Tab /\ new.step = "importing" /\ new.job = tabs[t].job
    BY <2>1 DEF Tab, Steps
  <2> HIDE DEF new
  <2>3. PersonGood(new) /\ ImportGood(new)
    BY <1>1, <2>1, <2>2 DEF PersonGood, ImportGood, HasSeats, SeatsFor
  <2>4. \A u \in Tabs \ {t} : tabs[u].step \notin Capacity
    BY <2>1 DEF CapacityFree, AtStep, Capacity
  <2>5. \A u \in Tabs \ {t} : Exclusive(new, tabs[u])
    BY <1>1, <2>1, <2>2, <2>4 DEF Exclusive
  <2>6. staffBegun' \in 0..StaffSteps
    BY <1>1, <2>1
  <2> QED BY <2>1, <2>2, <2>3, <2>5, <2>6, TabMoves
<1> QED BY <1>2, <1>3, <1>4

\* The job's row is submitted or cancelled.
LEMMA JobSteps ==
  ASSUME StaffInductive, Possible, NEW t \in Tabs,
         (\E sent \in BOOLEAN : SubmitImport(t, sent)) \/ CancelImport(t)
  PROVE  StaffInductive' /\ SchoolManagers \subseteq SchoolManagers' /\ Handed
<1> DEFINE j == tabs[t].job
           submitted == [staffJobs[j] EXCEPT !.status = "PROCESSING"]
           cancelled == [NoStaffJob EXCEPT !.status = "CANCELLED"]
<1>1. /\ staff \in [People -> Membership] /\ tabs \in [Tabs -> Tab] /\ staffJobs \in [StaffJobs -> Import]
      /\ staffParsing \subseteq StaffJobs /\ imported \in [StaffJobs -> Nat] /\ accounts \subseteq People
      /\ AppliedGone /\ scope \in [Scopes -> People \cup {NoOne}] /\ answered \in BOOLEAN
      /\ staffBegun \in 0..StaffSteps /\ ImportGood(tabs[t])
  BY DEF StaffInductive, StaffTypeOK
<1>2. tabs[t].step \in {"submitting", "cancelling"}
  BY DEF SubmitImport, CancelImport
<1>3. j \in StaffJobs /\ staffJobs[j] \in Import
  BY <1>1, <1>2 DEF ImportGood
<1>4. /\ tabs' = [tabs EXCEPT ![t] = NoTab] /\ JobFree(j)
      /\ staffParsing' \subseteq StaffJobs
      /\ \/ staffJobs' = [staffJobs EXCEPT ![j] = submitted]
         \/ staffJobs' = [staffJobs EXCEPT ![j] = cancelled]
      /\ UNCHANGED <<accounts, staff, scope, answered, imported, staffBegun>>
  BY <1>1, <1>3 DEF SubmitImport, CancelImport, CloseTab
<1>5. /\ submitted \in Import /\ submitted.status = "PROCESSING" /\ submitted.file = staffJobs[j].file
      /\ cancelled \in Import /\ cancelled.status = "CANCELLED" /\ ~cancelled.file
  BY <1>3, JobRows DEF Import
<1>6. imported[j] # 0 => ~staffJobs[j].file
  BY <1>1, <1>3 DEF AppliedGone
<1> HIDE DEF submitted, cancelled
<1>7. /\ staffJobs' \in [StaffJobs -> Import] /\ AppliedGone'
      /\ \A u \in Tabs : tabs[u].step \in {"sorted", "importing"} =>
                              staffJobs'[tabs[u].job] = staffJobs[tabs[u].job]
  BY <1>3, <1>4, <1>5, <1>6, JobChanges
<1>8. SchoolManagers' = SchoolManagers /\ ActiveStaff' = ActiveStaff /\ tabs'[t] = NoTab
  BY <1>1, <1>4 DEF SchoolManagers, ActiveStaff
<1>9. Cardinality(ActiveStaff') <= Cardinality(ActiveStaff) /\ Handed
  BY <1>4, <1>8, ActiveCounts DEF Handed
<1>10. /\ NoTab \in Tab /\ \A u \in Tabs \ {t} : Exclusive(NoTab, tabs[u])
       /\ PersonGood(tabs[t])' /\ ImportGood(tabs[t])' /\ ScopeGood(tabs[t], could[t])'
  BY <1>8, StaffBounds, AtRestGood
<1>11. \A u \in Tabs \ {t} :
           /\ tabs[u].step = "appointing" /\ tabs[u].who \in ActiveStaff => tabs[u].who \in ActiveStaff'
           /\ tabs[u].step \in {"sorted", "importing"} => staffJobs'[tabs[u].job] = staffJobs[tabs[u].job]
           /\ tabs[u].step \in {"scoping", "routing"} =>
                \A s \in tabs[u].want : scope'[s] \in {scope[s], NoOne}
           /\ Exclusive(NoTab, tabs[u])
  BY <1>4, <1>7, <1>8, <1>10
<1>12. /\ accounts' \subseteq People /\ staff' \in [People -> Membership]
       /\ scope' \in [Scopes -> People \cup {NoOne}] /\ answered' \in BOOLEAN
       /\ imported' \in [StaffJobs -> Nat] /\ (answered => answered') /\ staffBegun' \in 0..StaffSteps
  BY <1>1, <1>4
<1> HIDE DEF j
<1>13. StaffInductive' /\ SchoolManagers \subseteq SchoolManagers'
  BY <1>4, <1>7, <1>8, <1>9, <1>10, <1>11, <1>12, RequestSteps
<1> QED BY <1>9, <1>13

\* What the rows of an import do to the members: nobody loses a role or becomes a manager,
\* and only those who are new to the school begin to serve.
LEMMA RowsApplied ==
  ASSUME staff \in [People -> Membership], NEW rows \in [People -> RowCategory],
         staff' = [p \in People |-> IF p \in Applicable(rows) THEN AfterImport(p, rows[p]) ELSE staff[p]]
  PROVE  /\ staff' \in [People -> Membership] /\ SchoolManagers' = SchoolManagers
         /\ ActiveStaff \subseteq ActiveStaff' /\ ActiveStaff' \subseteq ActiveStaff \cup Adding(rows)
<1>1. ASSUME NEW p \in People
      PROVE  /\ AfterImport(p, rows[p]) \in Membership
             /\ "MANAGER" \in AfterImport(p, rows[p]).roles <=> "MANAGER" \in staff[p].roles
             /\ staff[p].status = "ACTIVE" => AfterImport(p, rows[p]).status = "ACTIVE"
             /\ AfterImport(p, rows[p]).status = "ACTIVE" => staff[p].status = "ACTIVE" \/ rows[p] = "NEW"
  <2> DEFINE status == IF staff[p].status # "NONE" THEN staff[p].status
                       ELSE IF rows[p] = "NEW" THEN Joined(p) ELSE "INVITED"
             roles == staff[p].roles \cup {"TEACHER"}
  <2>1. AfterImport(p, rows[p]) = [status |-> status, roles |-> roles, profile |-> TRUE]
    BY DEF AfterImport
  <2>2. staff[p] \in Membership
    OBVIOUS
  <2>3. /\ status \in {"NONE", "ACTIVE", "INVITED", "DECLINED", "SUSPENDED", "LEFT"}
        /\ staff[p].status = "ACTIVE" => status = "ACTIVE"
        /\ status = "ACTIVE" => staff[p].status = "ACTIVE" \/ rows[p] = "NEW"
    BY <2>2 DEF Membership, Joined
  <2>4. roles \in SUBSET Roles /\ ("MANAGER" \in roles <=> "MANAGER" \in staff[p].roles)
    BY <2>2 DEF Membership, Roles
  <2> HIDE DEF status, roles
  <2> QED BY <2>1, <2>3, <2>4 DEF Membership
<1>2. \A p \in People : staff'[p] = IF p \in Applicable(rows) THEN AfterImport(p, rows[p]) ELSE staff[p]
  OBVIOUS
<1>3. staff' \in [People -> Membership]
  BY <1>1
<1>4. SchoolManagers' = SchoolManagers
  BY <1>1, <1>2 DEF SchoolManagers
<1>5. ActiveStaff \subseteq ActiveStaff'
  BY <1>1, <1>2 DEF ActiveStaff
<1>6. ActiveStaff' \subseteq ActiveStaff \cup Adding(rows)
  BY <1>1, <1>2 DEF ActiveStaff, Adding
<1> QED BY <1>3, <1>4, <1>5, <1>6

\* commit_import applies the preview it found, within the seats it has asked for.
LEMMA ApplyStep ==
  ASSUME StaffInductive, Possible, NEW t \in Tabs, ApplyImport(t)
  PROVE  StaffInductive' /\ SchoolManagers \subseteq SchoolManagers' /\ Handed
<1> DEFINE j == tabs[t].job
           rows == staffJobs[j].rows
           done == [NoStaffJob EXCEPT !.status = "COMPLETED"]
           times == imported[j] + 1
<1>1. /\ staff \in [People -> Membership] /\ tabs \in [Tabs -> Tab] /\ staffJobs \in [StaffJobs -> Import]
      /\ staffParsing \subseteq StaffJobs /\ imported \in [StaffJobs -> Nat] /\ accounts \subseteq People
      /\ AppliedGone /\ scope \in [Scopes -> People \cup {NoOne}] /\ answered \in BOOLEAN
      /\ staffBegun \in 0..StaffSteps /\ ImportGood(tabs[t])
      /\ \A u \in Tabs \ {t} : Exclusive(tabs[t], tabs[u])
  BY DEF StaffInductive, StaffTypeOK
<1>2. /\ tabs[t].step = "importing" \/ (tabs[t].step = "sorted" /\ Adding(rows) = {})
      /\ \A p \in Applicable(rows) : RowFree(t, p)
      /\ staff' = [p \in People |-> IF p \in Applicable(rows) THEN AfterImport(p, rows[p]) ELSE staff[p]]
      /\ accounts' = accounts \cup Applicable(rows)
      /\ staffJobs' = [staffJobs EXCEPT ![j] = done]
      /\ imported' = [imported EXCEPT ![j] = times] /\ tabs' = [tabs EXCEPT ![t] = NoTab]
      /\ UNCHANGED <<scope, staffParsing, answered, staffBegun>>
  BY DEF ApplyImport, CloseTab
<1>3. j \in StaffJobs /\ staffJobs[j].status = "READY" /\ rows \in [People -> RowCategory]
  BY <1>1, <1>2 DEF ImportGood, Import
<1>4. imported[j] = 0 /\ times = 1
  BY <1>1, <1>3 DEF AppliedGone
<1>5. done \in Import /\ done.status = "COMPLETED" /\ ~done.file
  BY JobRows DEF Import
<1> HIDE DEF done, times
<1>6. staffJobs' \in [StaffJobs -> Import] /\ \A k \in StaffJobs : staffJobs'[k] = IF k = j THEN done ELSE staffJobs[k]
  BY <1>1, <1>2, <1>5
<1>7. imported' \in [StaffJobs -> Nat] /\ \A k \in StaffJobs : imported'[k] = IF k = j THEN 1 ELSE imported[k]
  BY <1>1, <1>2, <1>4
<1>8. AppliedGone'
  BY <1>1, <1>5, <1>6, <1>7 DEF AppliedGone
<1>9. /\ staff' \in [People -> Membership] /\ SchoolManagers' = SchoolManagers
      /\ ActiveStaff \subseteq ActiveStaff' /\ ActiveStaff' \subseteq ActiveStaff \cup Adding(rows)
  BY <1>1, <1>2, <1>3, RowsApplied
<1>10. ASSUME NEW u \in Tabs \ {t}, tabs[u].step \in {"sorted", "importing"}
       PROVE  staffJobs'[tabs[u].job] = staffJobs[tabs[u].job]
  <2>1. tabs[u].job \in StaffJobs /\ tabs[u].job # j
    BY <1>1, <1>2, <1>10 DEF StaffInductive, ImportGood, Exclusive
  <2> QED BY <1>6, <2>1
<1>11. \/ answered'
       \/ Cardinality(ActiveStaff') <= Cardinality(ActiveStaff)
       \/ tabs[t].step \in Capacity /\ Cardinality(ActiveStaff') <= StaffLimit
  <2>1. CASE Adding(rows) = {}
    BY <1>9, <2>1, ActiveCounts
  <2>2. CASE tabs[t].step = "importing"
    <3>1. answered \/ Cardinality(ActiveStaff) + Cardinality(Adding(rows)) <= StaffLimit
      BY <1>1, <2>2 DEF ImportGood, SeatsFor
    <3>2. /\ ActiveStaff \in SUBSET People /\ ActiveStaff' \in SUBSET People /\ Adding(rows) \in SUBSET People
          /\ ActiveStaff \cup Adding(rows) \in SUBSET People
      BY DEF ActiveStaff, Adding
    <3> DEFINE sum == Cardinality(ActiveStaff \cup Adding(rows))
    <3>3. sum \in Nat /\ sum <= Cardinality(ActiveStaff) + Cardinality(Adding(rows))
      BY <3>2, Counting
    <3>4. Cardinality(ActiveStaff') <= sum
      BY <1>9, <3>2, Counting
    <3>5. /\ Cardinality(ActiveStaff) \in Nat /\ Cardinality(ActiveStaff') \in Nat
          /\ Cardinality(Adding(rows)) \in Nat /\ StaffLimit \in Nat
      BY <3>2, Counting, StaffBounds
    <3> HIDE DEF sum
    <3>6. answered \/ Cardinality(ActiveStaff') <= StaffLimit
      BY <3>1, <3>3, <3>4, <3>5
    <3> QED BY <1>2, <2>2, <3>6 DEF Capacity
  <2> QED BY <1>2, <2>1, <2>2
<1>12. tabs'[t] = NoTab /\ Handed
  BY <1>1, <1>2 DEF Handed
<1>13. /\ NoTab \in Tab /\ \A u \in Tabs \ {t} : Exclusive(NoTab, tabs[u])
       /\ PersonGood(tabs[t])' /\ ImportGood(tabs[t])' /\ ScopeGood(tabs[t], could[t])'
  BY <1>12, StaffBounds, AtRestGood
<1>14. \A u \in Tabs \ {t} :
           /\ tabs[u].step = "appointing" /\ tabs[u].who \in ActiveStaff => tabs[u].who \in ActiveStaff'
           /\ tabs[u].step \in {"sorted", "importing"} => staffJobs'[tabs[u].job] = staffJobs[tabs[u].job]
           /\ tabs[u].step \in {"scoping", "routing"} =>
                \A s \in tabs[u].want : scope'[s] \in {scope[s], NoOne}
           /\ Exclusive(NoTab, tabs[u])
  BY <1>2, <1>9, <1>10, <1>13
<1>15. /\ accounts' \subseteq People /\ scope' \in [Scopes -> People \cup {NoOne}] /\ answered' \in BOOLEAN
       /\ staffParsing' \subseteq StaffJobs /\ (answered => answered') /\ staffBegun' \in 0..StaffSteps
  BY <1>1, <1>2 DEF Applicable
<1> HIDE DEF j
<1>16. StaffInductive' /\ SchoolManagers \subseteq SchoolManagers'
  BY <1>2, <1>6, <1>7, <1>8, <1>9, <1>11, <1>13, <1>14, <1>15, RequestSteps
<1> QED BY <1>12, <1>16

-----------------------------------------------------------------------------
(* The initial states, every step, and what holds always.                   *)

\* At most one counted is at most one of them.
LEMMA OneOnly ==
  ASSUME NEW S \in SUBSET People, Cardinality(S) <= 1
  PROVE  \A p, q \in S : p = q
<1> SUFFICES ASSUME NEW p \in S, NEW q \in S, p # q PROVE FALSE
  OBVIOUS
<1>1. {p} \in SUBSET People /\ {p, q} \in SUBSET People /\ {p, q} = {p} \cup {q}
  OBVIOUS
<1>2. IsFiniteSet({p}) /\ Cardinality({p}) = 1
  BY FS_Singleton
<1>3. Cardinality({p} \cup {q}) = Cardinality({p}) + 1
  <2>1. q \notin {p}
    OBVIOUS
  <2> QED BY <1>2, <2>1, FS_AddElement
<1>4. Cardinality({p, q}) <= Cardinality(S) /\ Cardinality(S) \in Nat /\ Cardinality({p, q}) \in Nat
  BY <1>1, Counting
<1>5. Cardinality({p, q}) = 2
  BY <1>1, <1>2, <1>3
<1> QED BY <1>4, <1>5

\* A school without requests, with a manager or none, and with files that wait.
LEMMA StaffStart == StaffInit => StaffInductive
<1> SUFFICES ASSUME StaffInit PROVE StaffInductive
  OBVIOUS
<1>1. /\ accounts \in SUBSET People /\ tabs = [t \in Tabs |-> NoTab]
      /\ staffJobs \in [StaffJobs -> {NoStaffJob} \cup {Uploaded(listed) : listed \in Files}]
      /\ staffParsing = {} /\ could = [t \in Tabs |-> {}] /\ imported = [j \in StaffJobs |-> 0] /\ staffBegun = 0
  BY DEF StaffInit
<1>2. PICK managers \in SUBSET accounts, vices \in SUBSET accounts :
       /\ Cardinality(managers) <= 1 /\ managers \cap vices = {} /\ (managers = {} => vices = {})
       /\ answered = (Cardinality(managers \cup vices) > StaffLimit)
       /\ staff = [p \in People |-> IF p \in managers THEN AManager
                                    ELSE IF p \in vices THEN VicePrincipal ELSE Stranger]
       /\ scope \in [Scopes -> vices \cup {NoOne}]
  BY DEF StaffInit
<1>3. /\ AManager \in Membership /\ VicePrincipal \in Membership /\ Stranger \in Membership
      /\ "MANAGER" \in AManager.roles /\ "MANAGER" \notin VicePrincipal.roles /\ "MANAGER" \notin Stranger.roles
      /\ AManager.status = "ACTIVE" /\ VicePrincipal.status = "ACTIVE" /\ Stranger.status # "ACTIVE"
  BY DEF AManager, VicePrincipal, Stranger, Membership, Roles
<1>4. staff \in [People -> Membership]
  BY <1>2, <1>3
<1>5. SchoolManagers = managers /\ ActiveStaff = managers \cup vices
  BY <1>1, <1>2, <1>3 DEF SchoolManagers, ActiveStaff
<1>6. \A p, q \in SchoolManagers : p = q
  <2>1. managers \in SUBSET People
    BY <1>1
  <2> QED BY <1>2, <1>5, <2>1, OneOnly
<1>7. WithinSeats
  <2>1. Cardinality(managers \cup vices) > StaffLimit => answered
    BY <1>2, Zenon
  <2>2. Cardinality(ActiveStaff) > StaffLimit \/ Cardinality(ActiveStaff) <= StaffLimit
    BY ActiveCounts, StaffBounds
  <2> QED BY <1>5, <2>1, <2>2 DEF WithinSeats
<1>8. StaffTypeOK
  <2>1. scope \in [Scopes -> People \cup {NoOne}]
    BY <1>1, <1>2
  <2>2. staffBegun \in 0..StaffSteps
    BY <1>1, StaffBounds
  <2> QED BY <1>1, <1>2, <1>4, <2>1, <2>2 DEF StaffTypeOK
<1>9. tabs \in [Tabs -> Tab] /\ \A t \in Tabs : tabs[t] = NoTab
  BY <1>1, NoTabFields
<1>10. \A t \in Tabs : PersonGood(tabs[t]) /\ ImportGood(tabs[t]) /\ ScopeGood(tabs[t], could[t])
  BY <1>9, NoTabFields DEF PersonGood, ImportGood, ScopeGood
<1>11. \A t, u \in Tabs : Exclusive(tabs[t], tabs[u])
  BY <1>9, NoTabFields DEF Exclusive, Capacity
<1>12. staffJobs \in [StaffJobs -> Import]
  BY <1>1, JobRows
<1>13. AppliedGone
  BY <1>1 DEF AppliedGone
<1> QED BY <1>6, <1>7, <1>8, <1>9, <1>10, <1>11, <1>12, <1>13 DEF StaffInductive

\* Nothing happens.
LEMMA StaffRests ==
  ASSUME StaffInductive, UNCHANGED staffVars
  PROVE  StaffInductive' /\ SchoolManagers \subseteq SchoolManagers' /\ Handed
<1>1. UNCHANGED <<accounts, staff, scope, tabs, staffJobs, staffParsing, could, answered, imported, staffBegun>>
  BY DEF staffVars
<1>2. StaffTypeOK' /\ (tabs \in [Tabs -> Tab])' /\ (staffJobs \in [StaffJobs -> Import])'
  BY <1>1 DEF StaffInductive, StaffTypeOK
<1>3. SchoolManagers' = SchoolManagers /\ ActiveStaff' = ActiveStaff
  BY <1>1 DEF SchoolManagers, ActiveStaff
<1>4. WithinSeats' /\ AppliedGone' /\ \A p, q \in SchoolManagers' : p = q
  BY <1>1, <1>3 DEF StaffInductive, WithinSeats, AppliedGone
<1>5. ASSUME NEW t \in Tabs PROVE PersonGood(tabs[t])' /\ ImportGood(tabs[t])' /\ ScopeGood(tabs[t], could[t])'
  <2>1. PersonGood(tabs[t]) /\ ImportGood(tabs[t]) /\ ScopeGood(tabs[t], could[t])
    BY DEF StaffInductive
  <2>2. PersonGood(tabs[t])'
    BY <1>1, <1>3, <2>1 DEF PersonGood, SeatsFor
  <2>3. ImportGood(tabs[t])'
    BY <1>1, <1>3, <2>1 DEF ImportGood, SeatsFor, Adding
  <2>4. ScopeGood(tabs[t], could[t])'
    BY <1>1, <1>3, <2>1 DEF ScopeGood, Conflicts, Normal, Serving
  <2> QED BY <2>2, <2>3, <2>4
<1>6. \A t, u \in Tabs : t # u => Exclusive(tabs[t], tabs[u])'
  BY <1>1 DEF StaffInductive, Exclusive
<1>7. Handed
  BY <1>1 DEF Handed
<1> QED BY <1>2, <1>3, <1>4, <1>5, <1>6, <1>7 DEF StaffInductive

\* Every request, service and import.
LEMMA StaffStep ==
  StaffInductive /\ [StaffNext]_staffVars =>
    StaffInductive' /\ SchoolManagers \subseteq SchoolManagers' /\ Handed
<1> SUFFICES ASSUME StaffInductive, [StaffNext]_staffVars
             PROVE  StaffInductive' /\ SchoolManagers \subseteq SchoolManagers' /\ Handed
  OBVIOUS
<1> DEFINE Goal == StaffInductive' /\ SchoolManagers \subseteq SchoolManagers' /\ Handed
<1>1. CASE UNCHANGED staffVars
  BY <1>1, StaffRests
<1>2. CASE StaffNext
  <2>1. Possible
    BY <1>2 DEF StaffNext
  <2>2. ASSUME NEW t \in Tabs, OneMember(t) PROVE Goal
    <3>1. CASE Hire(t)
      BY <2>1, <3>1, HireStep
    <3>2. CASE Appoint(t)
      BY <2>1, <3>2, AppointStep
    <3>3. CASE \/ \E role \in Roles : AddRole(t, role) \/ RemoveRole(t, role)
               \/ Suspend(t) \/ Reactivate(t) \/ Reinvite(t) \/ DeleteStaff(t) \/ Accept(t) \/ Decline(t)
      BY <2>1, <3>3, MemberSteps
    <3>4. CASE \/ \E p \in People : OpenProfile(t, p) \/ OpenInvitation(t, p) \/ LockAppointment(t, p)
               \/ \E p \in People, role \in Roles \ {"MANAGER"}, asked \in SUBSET Scopes, sure \in BOOLEAN :
                    AskHire(t, p, role, asked, sure)
               \/ LockHire(t) \/ Abort(t)
      BY <2>1, <3>4, MemberBegins
    <3> QED BY <2>2, <3>1, <3>2, <3>3, <3>4 DEF OneMember
  <2>3. ASSUME NEW t \in Tabs, ScopesStep(t) PROVE Goal
    BY <2>1, <2>3, ScopingSteps, RoutingSteps DEF ScopesStep
  <2>4. CASE ImportStep
    <3>1. CASE \/ \E j \in StaffJobs : (\E listed \in Files : UploadStaff(j, listed)) \/ RefreshPreview(j)
               \/ \E j \in StaffJobs, legible \in BOOLEAN : ParseImport(j, legible)
      BY <2>1, <3>1, FileSteps
    <3>2. ASSUME NEW t \in Tabs,
                 \/ \E j \in StaffJobs : SortRows(t, j) \/ \E step \in {"submitting", "cancelling"} : OpenImport(t, j, step)
                 \/ LockImport(t)
          PROVE  Goal
      BY <2>1, <3>2, ImportMoves
    <3>3. ASSUME NEW t \in Tabs, (\E sent \in BOOLEAN : SubmitImport(t, sent)) \/ CancelImport(t) PROVE Goal
      BY <2>1, <3>3, JobSteps
    <3>4. ASSUME NEW t \in Tabs, ApplyImport(t) PROVE Goal
      BY <2>1, <3>4, ApplyStep
    <3> QED BY <2>4, <3>1, <3>2, <3>3, <3>4 DEF ImportStep
  <2>5. CASE \E p \in People : HiredElsewhere(p)
    BY <2>1, <2>5, FileSteps
  <2> QED BY <1>2, <2>2, <2>3, <2>4, <2>5 DEF StaffNext
<1> QED BY <1>1, <1>2

\* What the runs check follows.
LEMMA StaffShows == StaffInductive => StaffInvariant
<1> SUFFICES ASSUME StaffInductive PROVE StaffInvariant
  OBVIOUS
<1>1. StaffTypeOK /\ WithinSeats
  BY DEF StaffInductive
<1>2. OneManager
  BY AtMostOne DEF StaffInductive, OneManager
<1>3. RoutedWhole
  BY DEF StaffInductive, ScopeGood, RoutedWhole, AtStep
<1>4. StaffImportedOnce
  BY DEF StaffInductive, AppliedGone, StaffImportedOnce
<1> QED BY <1>1, <1>2, <1>3, <1>4 DEF StaffInvariant

\* However requests of the staff's pages overlap: the school has one manager
\* (school_accounts.py:add_manager under lock_school_capacity), additions fill no more seats than
\* the contract has, a referral that is routed while scopes pass from one vice principal to
\* another gets an owner who was responsible, and an import of teachers is applied once.
THEOREM StaffHolds == StaffSpec => []StaffInvariant
<1>1. StaffInductive /\ [StaffNext]_staffVars => StaffInductive'
  BY StaffStep
<1> QED BY StaffStart, <1>1, StaffShows, PTL DEF StaffSpec

\* No scope passes to another vice principal in a request that did not confirm it
\* (set_vice_principal_scopes), and the school's requests do not take its manager's role
\* away (_manager_account_requires_platform).
THEOREM StaffIsKept == StaffSpec => StaffKept
<1>1. StaffInductive /\ [StaffNext]_staffVars => StaffInductive'
  BY StaffStep
<1>2. StaffInductive /\ [StaffNext]_staffVars =>
        [\A s \in Scopes : scope[s] # NoOne /\ scope'[s] \notin {NoOne, scope[s]}
           => \E t \in Tabs : tabs[t].sure /\ tabs'[t] = NoTab]_staffVars
  BY StaffStep DEF Handed
<1>3. StaffInductive /\ [StaffNext]_staffVars => [SchoolManagers \subseteq SchoolManagers']_staffVars
  BY StaffStep
<1> QED BY StaffStart, <1>1, <1>2, <1>3, PTL DEF StaffSpec, StaffKept, TransfersConfirmed, ManagerStays
=============================================================================
