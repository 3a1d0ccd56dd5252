---------------------- MODULE AttendanceSessionsProofs ----------------------
(***************************************************************************)
(* Proofs about AttendanceSessions, for any set of periods, students and   *)
(* clients and any bound on the versions.                                  *)
(***************************************************************************)
EXTENDS AttendanceSessions, TLAPS

\* A tab that holds a session holds one of the day's periods.
TabsHavePeriod == \A c \in Clients : client[c].pc # "idle" => client[c].period \in Periods

TypeInv == TypeOK /\ TabsHavePeriod

\* What the type invariant says of one row and of one tab.
LEMMA FieldTypes ==
  ASSUME TypeOK
  PROVE  /\ \A p \in Periods : session[p] \in Session /\ session[p].version \in 0..MaxVersion
         /\ \A c \in Clients : /\ client[c] \in Client
                                /\ client[c].version \in 0..MaxVersion
                                /\ client[c].roster \in SUBSET Students
<1>1. /\ \A p \in Periods : session[p] \in Session
      /\ \A c \in Clients : client[c] \in Client
  BY DEF TypeOK
<1> QED BY <1>1 DEF Session, Client

\* A row whose updated_at moves stays a row.
LEMMA SavedRow ==
  ASSUME TypeOK, NEW p \in Periods, NEW row \in Session, CanSave(p)
  PROVE  Saved(p, row) \in Session
<1>1. session[p].version + 1 \in 0..MaxVersion
  BY FieldTypes, MaxVersionNat DEF CanSave
<1> QED BY <1>1 DEF Saved, Session

\* The tabs that the actions build are tabs.
LEMMA TabTypes ==
  /\ IdleClient \in Client
  /\ \A p \in Periods, r \in SUBSET Students, v \in 0..MaxVersion :
       /\ [IdleClient EXCEPT !.pc = "marks", !.period = p,
                             !.version = v, !.roster = r] \in Client
       /\ [IdleClient EXCEPT !.pc = "start", !.period = p, !.roster = r] \in Client
<1>1. 0 \in 0..MaxVersion
  BY MaxVersionNat
<1>2. IdleClient \in Client
  BY <1>1 DEF IdleClient, Client
<1>3. ASSUME NEW p \in Periods, NEW r \in SUBSET Students, NEW v \in 0..MaxVersion
      PROVE [IdleClient EXCEPT !.pc = "marks", !.period = p,
                               !.version = v, !.roster = r] \in Client
  BY <1>2 DEF Client
<1>4. ASSUME NEW p \in Periods, NEW r \in SUBSET Students
      PROVE [IdleClient EXCEPT !.pc = "start", !.period = p, !.roster = r] \in Client
  BY <1>2 DEF Client
<1> QED BY <1>2, <1>3, <1>4

\* The initial state is well typed.
LEMMA InitTypes == Init => TypeInv
<1> SUFFICES ASSUME Init PROVE TypeInv
  OBVIOUS
<1>1. NoSession \in Session /\ IdleClient \in Client
  BY MaxVersionNat DEF NoSession, Session, IdleClient, Client
<1>2. changes \in [Periods -> [Students -> Seq(Change)]]
  BY DEF Init
<1>3. TypeOK
  BY <1>1, <1>2 DEF Init, TypeOK
<1>4. TabsHavePeriod
  BY DEF Init, TabsHavePeriod, IdleClient
<1> QED BY <1>3, <1>4 DEF TypeInv

\* Replacing one tab by a well-formed one keeps the tabs well formed.
LEMMA TabReplaced ==
  ASSUME TypeInv, NEW c \in Clients, NEW t \in Client,
         t.pc # "idle" => t.period \in Periods,
         client' = [client EXCEPT ![c] = t]
  PROVE  client' \in [Clients -> Client] /\ TabsHavePeriod'
BY DEF TypeInv, TypeOK, TabsHavePeriod

\* Every step keeps the types.
LEMMA NextTypes == TypeInv /\ [Next]_vars => TypeInv'
<1> SUFFICES ASSUME TypeInv, [Next]_vars PROVE TypeInv'
  OBVIOUS
<1> USE DEF TypeInv, enrolment
<1>a. ASSUME NEW c \in Clients, client' = [client EXCEPT ![c] = IdleClient]
      PROVE client' \in [Clients -> Client] /\ TabsHavePeriod'
  BY <1>a, TabTypes, TabReplaced DEF IdleClient
<1>b. ASSUME NEW c \in Clients, NEW p \in Periods, SawRow(c, p)
      PROVE client' \in [Clients -> Client] /\ TabsHavePeriod'
  <2> DEFINE t == [IdleClient EXCEPT !.pc = "marks", !.period = p,
                     !.version = session[p].version, !.roster = roster]
  <2>1. roster \in SUBSET Students /\ session[p].version \in 0..MaxVersion
    BY FieldTypes DEF TypeOK
  <2>2. t \in Client
    BY <2>1, TabTypes
  <2>3. t.period = p
    BY DEF IdleClient
  <2>4. client' = [client EXCEPT ![c] = t]
    BY <1>b DEF SawRow
  <2> HIDE DEF t
  <2> QED BY <2>2, <2>3, <2>4, TabReplaced
<1>1. ASSUME NEW c \in Clients, NEW p \in Periods, StartCheck(c, p)
      PROVE TypeInv'
  <2>1. CASE Exists(p)
    BY <2>1, <1>1, <1>b DEF StartCheck, TypeOK
  <2>2. CASE ~Exists(p)
    <3> DEFINE t == [IdleClient EXCEPT !.pc = "start", !.period = p, !.roster = roster]
    <3>0. roster \in SUBSET Students /\ 0 \in 0..MaxVersion
      BY MaxVersionNat DEF TypeOK
    <3>1. t \in Client
      BY <3>0, TabTypes
    <3>2. t.period = p
      BY DEF IdleClient
    <3>3. client' = [client EXCEPT ![c] = t]
      BY <2>2, <1>1 DEF StartCheck
    <3> HIDE DEF t
    <3>4. client' \in [Clients -> Client] /\ TabsHavePeriod'
      BY <3>1, <3>2, <3>3, TabReplaced
    <3> QED BY <3>4, <1>1 DEF StartCheck, TypeOK
  <2> QED BY <2>1, <2>2
<1>2. ASSUME NEW c \in Clients, NEW p \in Periods, LoadRow(c, p) PROVE TypeInv'
  BY <1>2, <1>b DEF LoadRow, TypeOK
<1>3. ASSUME NEW c \in Clients, StartInsert(c) PROVE TypeInv'
  <2> DEFINE p == client[c].period
  <2>1. p \in Periods
    BY <1>3 DEF StartInsert, TabsHavePeriod
  <2>2. CASE Exists(p)
    BY <2>1, <2>2, <1>3, <1>b DEF StartInsert, TypeOK
  <2>3. CASE ~Exists(p)
    <3> DEFINE row == [NoSession EXCEPT !.status = "IN_PROGRESS", !.fingerprint = client[c].roster]
               t == [client[c] EXCEPT !.pc = "marks", !.version = session[p].version + 1]
    <3>0. NoSession \in Session /\ client[c].roster \in SUBSET Students
      BY FieldTypes, MaxVersionNat DEF NoSession, Session
    <3>1. row \in Session
      BY <3>0 DEF Session
    <3>2. CanSave(p) /\ session' = [session EXCEPT ![p] = Saved(p, row)]
      BY <2>3, <1>3 DEF StartInsert
    <3>3. session' \in [Periods -> Session]
      BY <2>1, <3>1, <3>2, SavedRow DEF TypeOK
    <3>4. session[p].version + 1 \in 0..MaxVersion
      BY <2>1, <3>2, FieldTypes, MaxVersionNat DEF CanSave
    <3>5. t \in Client /\ t.period = p
      BY <3>4, FieldTypes DEF Client
    <3>6. client' = [client EXCEPT ![c] = t]
      BY <2>3, <1>3 DEF StartInsert
    <3> HIDE DEF t
    <3>7. client' \in [Clients -> Client] /\ TabsHavePeriod'
      BY <2>1, <3>5, <3>6, TabReplaced
    <3> QED BY <1>3, <3>3, <3>7 DEF StartInsert, TypeOK
  <2> QED BY <2>2, <2>3
<1>4. ASSUME NEW c \in Clients, LoadMarks(c) PROVE TypeInv'
  <2>1. client[c].period \in Periods
    BY <1>4 DEF LoadMarks, TabsHavePeriod
  <2> DEFINE t == [client[c] EXCEPT !.pc = "form", !.marks = marks[client[c].period]]
  <2>2. marks[client[c].period] \in SUBSET Students
    BY <2>1 DEF TypeOK
  <2>3. t \in Client /\ t.period = client[c].period
    BY <2>2, FieldTypes DEF Client
  <2>4. client' = [client EXCEPT ![c] = t]
    BY <1>4 DEF LoadMarks
  <2> HIDE DEF t
  <2>5. client' \in [Clients -> Client] /\ TabsHavePeriod'
    BY <2>1, <2>3, <2>4, TabReplaced
  <2> QED BY <2>5, <1>4 DEF LoadMarks, TypeOK
<1>5. ASSUME NEW c \in Clients, Close(c) PROVE TypeInv'
  BY <1>5, <1>a DEF Close, TypeOK
<1>6. ASSUME NEW c \in Clients, SubmitRosterChanged(c) PROVE TypeInv'
  <2> DEFINE p == client[c].period
  <2>1. p \in Periods
    BY <1>6 DEF SubmitRosterChanged, TabsHavePeriod
  <2>2. [session[p] EXCEPT !.fingerprint = roster] \in Session
    BY <2>1, FieldTypes DEF TypeOK, Session
  <2>3. session' \in [Periods -> Session]
    BY <2>1, <2>2, <1>6, SavedRow DEF SubmitRosterChanged, TypeOK
  <2> QED BY <2>3, <1>6, <1>a DEF SubmitRosterChanged, TypeOK
<1>7. ASSUME NEW c \in Clients, NEW absent \in SUBSET Students, Submit(c, absent)
      PROVE TypeInv'
  <2> DEFINE p == client[c].period
  <2>1. p \in Periods
    BY <1>7 DEF Submit, TabsHavePeriod
  <2>2. [session[p] EXCEPT !.status = "SUBMITTED", !.by = c, !.open = TRUE] \in Session
    BY <2>1, FieldTypes DEF Session
  <2>3. session' \in [Periods -> Session]
    BY <2>1, <2>2, <1>7, SavedRow DEF Submit, TypeOK
  <2> QED BY <2>3, <1>7, <1>a DEF Submit, TypeOK
<1>8. ASSUME NEW c \in Clients, NEW p \in Periods, NEW absent \in SUBSET Students,
             WriteMarks(c, p, absent)
      PROVE TypeInv'
  <2>1. session' \in [Periods -> Session]
    BY <1>8, SavedRow, FieldTypes DEF WriteMarks, TypeOK
  <2>2. changes' \in [Periods -> [Students -> Seq(Change)]]
    <3>1. \A s \in Students : [prev |-> StatusIn(marks[p], s), new |-> StatusIn(absent, s)] \in Change
      BY DEF Change, Status, StatusIn
    <3>2. \A s \in Students : changes[p][s] \in Seq(Change)
      BY DEF TypeOK
    <3>3. Logged(p, absent)[p] \in [Students -> Seq(Change)]
      BY <3>1, <3>2 DEF Logged, TypeOK
    <3>4. Logged(p, absent) = [changes EXCEPT ![p] = Logged(p, absent)[p]]
      BY DEF Logged, TypeOK
    <3> QED BY <3>3, <3>4, <1>8 DEF WriteMarks, TypeOK
  <2> QED BY <2>1, <2>2, <1>8, <1>a DEF WriteMarks, TypeOK
<1>9. ASSUME NEW c \in Clients, NEW absent \in SUBSET Students, EditSession(c, absent)
      PROVE TypeInv'
  BY <1>8, <1>9 DEF EditSession, TabsHavePeriod
<1>10. ASSUME NEW c \in Clients, NEW s \in Students, CorrectStudent(c, s) PROVE TypeInv'
  <2> DEFINE p == client[c].period
             absent == IF s \in marks[p] THEN marks[p] \ {s} ELSE marks[p] \cup {s}
  <2>1. p \in Periods
    BY <1>10 DEF CorrectStudent, TabsHavePeriod
  <2>2. absent \in SUBSET Students
    BY <2>1 DEF TypeOK
  <2>3. WriteMarks(c, p, absent)
    BY <1>10 DEF CorrectStudent
  <2> HIDE DEF p, absent
  <2> QED BY <1>8, <2>1, <2>2, <2>3
<1>11. ASSUME NEW s \in Students, Transfer(s) PROVE TypeInv'
  BY <1>11 DEF Transfer, TypeOK, TabsHavePeriod
<1>12. ASSUME NEW p \in Periods, WindowExpires(p) PROVE TypeInv'
  <2>1. [session[p] EXCEPT !.open = FALSE] \in Session
    BY FieldTypes DEF Session
  <2>2. session' \in [Periods -> Session]
    BY <2>1, <1>12 DEF WindowExpires, TypeOK
  <2> QED BY <2>2, <1>12 DEF WindowExpires, TypeOK, TabsHavePeriod
<1>13. CASE DateEnds
  BY <1>13 DEF DateEnds, TypeOK, TabsHavePeriod
<1>14. CASE UNCHANGED vars
  BY <1>14 DEF vars, TypeOK, TabsHavePeriod
<1> QED
  BY <1>1, <1>2, <1>3, <1>4, <1>5, <1>6, <1>7, <1>9, <1>10, <1>11, <1>12, <1>13, <1>14
     DEF Next, ClientStep

\* Type correctness of the session service: every variable keeps its type.
THEOREM TypeCorrect == Spec => []TypeOK
<1>1. TypeInv => TypeOK
  BY DEF TypeInv
<1> QED BY InitTypes, NextTypes, <1>1, PTL DEF Spec

-----------------------------------------------------------------------------
(* The version check.                                                      *)

\* A tab's version is one its row has or had, and if it is the row's version
\* now then an open form shows the marks the row has now.
TabInv(c) ==
  client[c].pc # "idle" =>
    /\ client[c].period \in Periods
    /\ client[c].version <= session[client[c].period].version
    /\ client[c].pc = "form" /\ client[c].version = session[client[c].period].version
         => client[c].marks = marks[client[c].period]

FormInv == TypeInv /\ \A c \in Clients : TabInv(c)

\* updated_at never goes back, and moves whenever the marks change.
VersionMoves(p) ==
  /\ session'[p].version >= session[p].version
  /\ marks'[p] # marks[p] => session'[p].version > session[p].version

\* What one step can make of a tab.
TabMoves(c) ==
  \/ client'[c] = client[c]
  \/ client'[c].pc = "idle"
  \/ /\ client'[c].pc \in {"start", "marks"}
     /\ client'[c].period \in Periods
     /\ client'[c].version \in {0, session'[client'[c].period].version}
  \/ /\ client[c].pc = "marks" /\ client'[c].pc = "form"
     /\ client'[c].period = client[c].period
     /\ client'[c].version = client[c].version
     /\ client'[c].marks = marks[client[c].period]
     /\ UNCHANGED <<session, marks>>

\* A saved row carries the next version and keeps the other columns.
LEMMA SavedFields ==
  ASSUME TypeOK, NEW p \in Periods, NEW row \in Session
  PROVE  /\ Saved(p, row).version = session[p].version + 1
         /\ Saved(p, row).status = row.status
         /\ Saved(p, row).by = row.by
BY DEF Saved, Session

\* Every step moves the versions and the tabs in one of those ways.
LEMMA StepMoves ==
  ASSUME TypeInv, [Next]_vars
  PROVE  (\A p \in Periods : VersionMoves(p)) /\ (\A c \in Clients : TabMoves(c))
<1> USE DEF TypeInv, enrolment
<1>a. ASSUME UNCHANGED <<session, marks>> PROVE \A p \in Periods : VersionMoves(p)
  BY <1>a, FieldTypes DEF VersionMoves
<1>b. ASSUME NEW c \in Clients, client' = [client EXCEPT ![c] = IdleClient]
      PROVE \A d \in Clients : TabMoves(d)
  BY <1>b DEF TypeOK, TabMoves, IdleClient
<1>c. ASSUME NEW c \in Clients, NEW p \in Periods, SawRow(c, p), UNCHANGED session
      PROVE \A d \in Clients : TabMoves(d)
  <2> DEFINE t == [IdleClient EXCEPT !.pc = "marks", !.period = p,
                     !.version = session[p].version, !.roster = roster]
  <2>1. t.pc = "marks" /\ t.period = p /\ t.version = session[p].version
    BY DEF IdleClient
  <2>2. client' = [client EXCEPT ![c] = t]
    BY <1>c DEF SawRow
  <2> HIDE DEF t
  <2> QED BY <2>1, <2>2, <1>c DEF TypeOK, TabMoves
<1>d. ASSUME NEW p \in Periods, NEW row \in Session,
             session' = [session EXCEPT ![p] = Saved(p, row)],
             \E absent : marks' = [marks EXCEPT ![p] = absent]
      PROVE \A q \in Periods : VersionMoves(q)
  BY <1>d, SavedFields, FieldTypes, MaxVersionNat DEF TypeOK, VersionMoves
<1>1. ASSUME NEW c \in Clients, NEW p \in Periods, StartCheck(c, p)
      PROVE \A d \in Clients : TabMoves(d)
  <2>1. CASE Exists(p)
    BY <2>1, <1>1, <1>c DEF StartCheck
  <2>2. CASE ~Exists(p)
    <3> DEFINE t == [IdleClient EXCEPT !.pc = "start", !.period = p, !.roster = roster]
    <3>1. t.pc = "start" /\ t.period = p /\ t.version = 0
      BY DEF IdleClient
    <3>2. client' = [client EXCEPT ![c] = t]
      BY <2>2, <1>1 DEF StartCheck
    <3> HIDE DEF t
    <3> QED BY <3>1, <3>2 DEF TypeOK, TabMoves
  <2> QED BY <2>1, <2>2
<1>2. ASSUME NEW c \in Clients, StartInsert(c)
      PROVE (\A p \in Periods : VersionMoves(p)) /\ (\A d \in Clients : TabMoves(d))
  <2> DEFINE p == client[c].period
  <2>1. p \in Periods
    BY <1>2 DEF StartInsert, TabsHavePeriod
  <2>2. CASE Exists(p)
    BY <2>1, <2>2, <1>2, <1>a, <1>c DEF StartInsert
  <2>3. CASE ~Exists(p)
    <3> DEFINE row == [NoSession EXCEPT !.status = "IN_PROGRESS", !.fingerprint = client[c].roster]
               t == [client[c] EXCEPT !.pc = "marks", !.version = session[p].version + 1]
    <3>1. NoSession \in Session /\ client[c].roster \in SUBSET Students /\ client[c] \in Client
      BY FieldTypes, MaxVersionNat DEF NoSession, Session
    <3>2. row \in Session
      BY <3>1 DEF Session
    <3>3. session' = [session EXCEPT ![p] = Saved(p, row)] /\ marks' = marks
      BY <2>3, <1>2 DEF StartInsert
    <3>4. t.pc = "marks" /\ t.period = p /\ t.version = session[p].version + 1
      BY <3>1 DEF Client
    <3>5. client' = [client EXCEPT ![c] = t]
      BY <2>3, <1>2 DEF StartInsert
    <3>6. session'[p].version = session[p].version + 1
      BY <2>1, <3>2, <3>3, SavedFields DEF TypeOK
    <3> HIDE DEF t, row
    <3>7. \A q \in Periods : VersionMoves(q)
      BY <2>1, <3>3, <3>6, FieldTypes DEF TypeOK, VersionMoves
    <3> QED BY <2>1, <3>4, <3>5, <3>6, <3>7 DEF TypeOK, TabMoves
  <2> QED BY <2>2, <2>3
<1>3. ASSUME NEW c \in Clients, LoadMarks(c) PROVE \A d \in Clients : TabMoves(d)
  <2> DEFINE t == [client[c] EXCEPT !.pc = "form", !.marks = marks[client[c].period]]
  <2>1. /\ t.pc = "form" /\ t.marks = marks[client[c].period]
        /\ t.period = client[c].period /\ t.version = client[c].version
    BY FieldTypes DEF Client
  <2>2. client' = [client EXCEPT ![c] = t] /\ UNCHANGED <<session, marks>> /\ client[c].pc = "marks"
    BY <1>3 DEF LoadMarks
  <2> HIDE DEF t
  <2> QED BY <2>1, <2>2 DEF TypeOK, TabMoves
<1>4. ASSUME NEW c \in Clients, SubmitRosterChanged(c)
      PROVE \A p \in Periods : VersionMoves(p)
  <2> DEFINE p == client[c].period
  <2>1. p \in Periods
    BY <1>4 DEF SubmitRosterChanged, TabsHavePeriod
  <2>2. [session[p] EXCEPT !.fingerprint = roster] \in Session
    BY <2>1, FieldTypes DEF TypeOK, Session
  <2>3. marks' = [marks EXCEPT ![p] = marks[p]]
    BY <1>4 DEF SubmitRosterChanged, TypeOK
  <2> QED BY <2>1, <2>2, <2>3, <1>4, <1>d DEF SubmitRosterChanged
<1>5. ASSUME NEW c \in Clients, NEW absent \in SUBSET Students, Submit(c, absent)
      PROVE \A p \in Periods : VersionMoves(p)
  <2> DEFINE p == client[c].period
  <2>1. p \in Periods
    BY <1>5 DEF Submit, TabsHavePeriod
  <2>2. [session[p] EXCEPT !.status = "SUBMITTED", !.by = c, !.open = TRUE] \in Session
    BY <2>1, FieldTypes DEF Session
  <2> QED BY <2>1, <2>2, <1>5, <1>d DEF Submit
<1>6. ASSUME NEW c \in Clients, NEW p \in Periods, NEW absent \in SUBSET Students,
             WriteMarks(c, p, absent)
      PROVE (\A q \in Periods : VersionMoves(q)) /\ (\A d \in Clients : TabMoves(d))
  BY <1>6, <1>b, <1>d, FieldTypes DEF WriteMarks
<1>7. ASSUME NEW c \in Clients, NEW s \in Students, CorrectStudent(c, s)
      PROVE (\A p \in Periods : VersionMoves(p)) /\ (\A d \in Clients : TabMoves(d))
  <2> DEFINE p == client[c].period
             absent == IF s \in marks[p] THEN marks[p] \ {s} ELSE marks[p] \cup {s}
  <2>1. p \in Periods /\ WriteMarks(c, p, absent)
    BY <1>7 DEF CorrectStudent, TabsHavePeriod
  <2>2. absent \in SUBSET Students
    BY <2>1 DEF TypeOK
  <2> HIDE DEF p, absent
  <2> QED BY <1>6, <2>1, <2>2
<1>8. ASSUME NEW p \in Periods, WindowExpires(p) PROVE \A q \in Periods : VersionMoves(q)
  <2>1. [session[p] EXCEPT !.open = FALSE].version = session[p].version
    BY FieldTypes DEF Session
  <2> QED BY <2>1, <1>8, FieldTypes DEF WindowExpires, TypeOK, VersionMoves
<1>9. ASSUME NEW c \in Clients, ClientStep(c)
      PROVE (\A p \in Periods : VersionMoves(p)) /\ (\A d \in Clients : TabMoves(d))
  <2>1. ASSUME NEW p \in Periods, StartCheck(c, p)
        PROVE (\A q \in Periods : VersionMoves(q)) /\ (\A d \in Clients : TabMoves(d))
    BY <2>1, <1>1, <1>a DEF StartCheck
  <2>2. ASSUME NEW p \in Periods, LoadRow(c, p)
        PROVE (\A q \in Periods : VersionMoves(q)) /\ (\A d \in Clients : TabMoves(d))
    BY <2>2, <1>c, <1>a DEF LoadRow
  <2>3. CASE LoadMarks(c)
    BY <2>3, <1>3, <1>a DEF LoadMarks
  <2>4. CASE Close(c)
    BY <2>4, <1>b, <1>a DEF Close
  <2>5. CASE SubmitRosterChanged(c)
    BY <2>5, <1>4, <1>b DEF SubmitRosterChanged
  <2>6. ASSUME NEW absent \in SUBSET Students, Submit(c, absent)
        PROVE (\A q \in Periods : VersionMoves(q)) /\ (\A d \in Clients : TabMoves(d))
    BY <2>6, <1>5, <1>b DEF Submit
  <2>7. ASSUME NEW absent \in SUBSET Students, EditSession(c, absent)
        PROVE (\A q \in Periods : VersionMoves(q)) /\ (\A d \in Clients : TabMoves(d))
    BY <2>7, <1>6 DEF EditSession, TabsHavePeriod
  <2> QED BY <2>1, <2>2, <1>2, <2>3, <2>4, <2>5, <2>6, <2>7, <1>7, <1>9 DEF ClientStep
<1>10. ASSUME NEW s \in Students, Transfer(s)
       PROVE (\A p \in Periods : VersionMoves(p)) /\ (\A d \in Clients : TabMoves(d))
  BY <1>10, <1>a DEF Transfer, TabMoves
<1>11. CASE DateEnds
  BY <1>11, <1>a DEF DateEnds, TabMoves
<1>12. CASE UNCHANGED vars
  BY <1>12, <1>a DEF vars, TabMoves
<1>13. ASSUME NEW p \in Periods, WindowExpires(p) PROVE \A d \in Clients : TabMoves(d)
  BY <1>13 DEF WindowExpires, TabMoves
<1> QED BY <1>8, <1>9, <1>10, <1>11, <1>12, <1>13 DEF Next

\* The invariant behind the version check is inductive.
LEMMA NextForm == FormInv /\ [Next]_vars => FormInv'
<1> SUFFICES ASSUME FormInv, [Next]_vars PROVE FormInv'
  OBVIOUS
<1>1. TypeInv'
  BY NextTypes DEF FormInv
<1>2. (\A p \in Periods : VersionMoves(p)) /\ (\A c \in Clients : TabMoves(c))
  BY StepMoves DEF FormInv
<1>3. ASSUME NEW c \in Clients PROVE TabInv(c)'
  <2>1. /\ \A p \in Periods : /\ session[p].version \in Int /\ session'[p].version \in Int
                              /\ session'[p].version >= 0
        /\ client[c].version \in Int /\ client'[c].version \in Int
    BY <1>1, FieldTypes, MaxVersionNat DEF FormInv, TypeInv, TypeOK, Session, Client
  <2>2. CASE client'[c] = client[c]
    BY <1>2, <2>1, <2>2 DEF FormInv, TabInv, VersionMoves
  <2>3. CASE client'[c].pc = "idle"
    BY <2>3 DEF TabInv
  <2>4. CASE /\ client'[c].pc \in {"start", "marks"}
             /\ client'[c].period \in Periods
             /\ client'[c].version \in {0, session'[client'[c].period].version}
    BY <2>4, <2>1 DEF TabInv
  <2>5. CASE /\ client[c].pc = "marks" /\ client'[c].pc = "form"
             /\ client'[c].period = client[c].period
             /\ client'[c].version = client[c].version
             /\ client'[c].marks = marks[client[c].period]
             /\ UNCHANGED <<session, marks>>
    BY <2>5 DEF FormInv, TabInv
  <2> QED BY <1>2, <2>2, <2>3, <2>4, <2>5 DEF TabMoves
<1> QED BY <1>1, <1>3 DEF FormInv

\* No tab shows anything at first.
LEMMA InitForm == Init => FormInv
BY InitTypes DEF Init, FormInv, TabInv, IdleClient

\* The version check is sound: an open form whose updated_at is still that of
\* the row shows the marks stored now, because a load reads the row before its
\* marks and every write of marks saves the row.
THEOREM FormCurrent == Spec => []FormIsCurrent
<1>1. FormInv => FormIsCurrent
  BY DEF FormInv, TabInv, FormIsCurrent
<1> QED BY InitForm, NextForm, <1>1, PTL DEF Spec

-----------------------------------------------------------------------------
(* The change log.                                                         *)

\* Before its submission a session has neither marks nor change rows.
UnsubmittedEmpty ==
  \A p \in Periods : session[p].status # "SUBMITTED" =>
    /\ marks[p] = {} /\ firstMarks[p] = {}
    /\ \A s \in Students : changes[p][s] = <<>>

LogInv == TypeInv /\ UnsubmittedEmpty /\ ChangeLogExplains

\* A step touches the log of a period in one of three ways: not at all, by
\* submitting it, or by an edit that logs every difference.
LogMoves(p) ==
  \/ /\ marks'[p] = marks[p] /\ changes'[p] = changes[p] /\ firstMarks'[p] = firstMarks[p]
     /\ session'[p].status = "SUBMITTED" <=> session[p].status = "SUBMITTED"
  \/ /\ session[p].status # "SUBMITTED" /\ session'[p].status = "SUBMITTED"
     /\ marks'[p] \in SUBSET Students /\ firstMarks'[p] = marks'[p] /\ changes'[p] = changes[p]
  \/ /\ session[p].status = "SUBMITTED" /\ session'[p].status = "SUBMITTED"
     /\ firstMarks'[p] = firstMarks[p]
     /\ changes'[p] = [s \in Students |->
          IF StatusIn(marks[p], s) # StatusIn(marks'[p], s)
          THEN Append(changes[p][s], [prev |-> StatusIn(marks[p], s),
                                      new  |-> StatusIn(marks'[p], s)])
          ELSE changes[p][s]]

\* Appending a row that starts where the log ended extends what it explains.
LEMMA AppendExplains ==
  ASSUME NEW log \in Seq(Change), NEW a \in Status, NEW b \in Status, NEW c \in Status,
         Explains(log, a, b), b # c
  PROVE  Explains(Append(log, [prev |-> b, new |-> c]), a, c)
<1> DEFINE row == [prev |-> b, new |-> c]
           ext == Append(log, row)
<1>1. row \in Change
  BY DEF Change
<1>2. /\ ext \in Seq(Change) /\ Len(log) \in Nat /\ Len(ext) = Len(log) + 1
      /\ ext[Len(log) + 1] = row
      /\ \A i \in 1..Len(log) : ext[i] = log[i]
  BY <1>1
<1>3. row.prev = b /\ row.new = c
  OBVIOUS
<1> HIDE DEF row, ext
<1>4. ext[1].prev = a
  BY <1>2, <1>3 DEF Explains
<1>5. \A i \in 1..Len(ext) : ext[i].prev # ext[i].new
  <2> SUFFICES ASSUME NEW i \in 1..Len(ext) PROVE ext[i].prev # ext[i].new
    OBVIOUS
  <2>1. CASE i \in 1..Len(log)
    BY <2>1, <1>2 DEF Explains
  <2>2. CASE i = Len(log) + 1
    BY <2>2, <1>2, <1>3
  <2> QED BY <2>1, <2>2, <1>2
<1>6. \A i \in 1..(Len(ext) - 1) : ext[i].new = ext[i+1].prev
  <2> SUFFICES ASSUME NEW i \in 1..Len(log) PROVE ext[i].new = ext[i+1].prev
    BY <1>2
  <2>1. CASE i = Len(log)
    BY <2>1, <1>2, <1>3 DEF Explains
  <2>2. CASE i \in 1..(Len(log) - 1)
    <3>1. i + 1 \in 1..Len(log)
      BY <2>2, <1>2
    <3> QED BY <3>1, <2>2, <1>2 DEF Explains
  <2> QED BY <2>1, <2>2, <1>2
<1> QED BY <1>2, <1>3, <1>4, <1>5, <1>6 DEF Explains, ext, row

\* Every step moves every log in one of the three ways.
LEMMA StepLogs ==
  ASSUME TypeInv, [Next]_vars, NEW p \in Periods
  PROVE  LogMoves(p)
<1> USE DEF TypeInv, enrolment
<1>1. ASSUME UNCHANGED <<marks, changes, firstMarks>>, UNCHANGED session
      PROVE LogMoves(p)
  BY <1>1 DEF LogMoves
<1>2. ASSUME NEW c \in Clients, StartInsert(c) PROVE LogMoves(p)
  <2> DEFINE q == client[c].period
             row == [NoSession EXCEPT !.status = "IN_PROGRESS", !.fingerprint = client[c].roster]
  <2>1. q \in Periods
    BY <1>2 DEF StartInsert, TabsHavePeriod
  <2>2. CASE Exists(q)
    BY <2>2, <1>1, <1>2 DEF StartInsert
  <2>3. CASE ~Exists(q)
    <3>1. NoSession \in Session /\ client[c].roster \in SUBSET Students
      BY FieldTypes, MaxVersionNat DEF NoSession, Session
    <3>2. row \in Session /\ row.status = "IN_PROGRESS"
      BY <3>1 DEF Session
    <3>3. session' = [session EXCEPT ![q] = Saved(q, row)]
          /\ UNCHANGED <<marks, changes, firstMarks>>
      BY <2>3, <1>2 DEF StartInsert
    <3> HIDE DEF row
    <3>4. session'[q].status = "IN_PROGRESS" /\ session[q].status = "NONE"
      BY <2>1, <2>3, <3>2, <3>3, SavedFields DEF TypeOK, Exists
    <3> QED BY <2>1, <3>3, <3>4 DEF LogMoves, TypeOK
  <2> QED BY <2>2, <2>3
<1>3. ASSUME NEW c \in Clients, SubmitRosterChanged(c) PROVE LogMoves(p)
  <2> DEFINE q == client[c].period
             row == [session[q] EXCEPT !.fingerprint = roster]
  <2>1. q \in Periods
    BY <1>3 DEF SubmitRosterChanged, TabsHavePeriod
  <2>2. row \in Session /\ row.status = session[q].status
    <3>1. session[q] \in Session /\ roster \in SUBSET Students
      BY <2>1, FieldTypes DEF TypeOK
    <3>2. row \in Session
      BY <3>1 DEF Session
    <3>3. row.status = session[q].status
      BY <3>1 DEF Session
    <3> QED BY <3>2, <3>3
  <2>3. session' = [session EXCEPT ![q] = Saved(q, row)]
        /\ UNCHANGED <<marks, changes, firstMarks>>
    BY <1>3 DEF SubmitRosterChanged
  <2> HIDE DEF row
  <2>4. session'[q].status = session[q].status
    BY <2>1, <2>2, <2>3, SavedFields DEF TypeOK
  <2> QED BY <2>1, <2>3, <2>4 DEF LogMoves, TypeOK
<1>4. ASSUME NEW c \in Clients, NEW absent \in SUBSET Students, Submit(c, absent)
      PROVE LogMoves(p)
  <2> DEFINE q == client[c].period
             row == [session[q] EXCEPT !.status = "SUBMITTED", !.by = c, !.open = TRUE]
  <2>1. q \in Periods
    BY <1>4 DEF Submit, TabsHavePeriod
  <2>2. row \in Session /\ row.status = "SUBMITTED"
    <3>1. session[q] \in Session
      BY <2>1, FieldTypes
    <3>2. row \in Session
      BY <3>1 DEF Session
    <3>3. row.status = "SUBMITTED"
      BY <3>1 DEF Session
    <3> QED BY <3>2, <3>3
  <2>3. /\ session' = [session EXCEPT ![q] = Saved(q, row)] /\ session[q].status # "SUBMITTED"
        /\ marks' = [marks EXCEPT ![q] = absent]
        /\ firstMarks' = [firstMarks EXCEPT ![q] = absent] /\ UNCHANGED changes
    BY <1>4 DEF Submit
  <2> HIDE DEF row
  <2>4. session'[q].status = "SUBMITTED"
    BY <2>1, <2>2, <2>3, SavedFields DEF TypeOK
  <2>5. CASE p = q
    BY <2>5, <2>1, <2>3, <2>4 DEF LogMoves, TypeOK
  <2>6. CASE p # q
    BY <2>6, <2>1, <2>3, <2>4 DEF LogMoves, TypeOK
  <2> QED BY <2>5, <2>6
<1>5. ASSUME NEW c \in Clients, NEW q \in Periods, NEW absent \in SUBSET Students,
             session[q].status = "SUBMITTED", WriteMarks(c, q, absent)
      PROVE LogMoves(p)
  <2>1. session'[q].status = "SUBMITTED" /\ \A r \in Periods : r # q => session'[r] = session[r]
    BY <1>5, FieldTypes, SavedFields DEF WriteMarks, TypeOK
  <2>2. changes' = Logged(q, absent) /\ marks' = [marks EXCEPT ![q] = absent]
        /\ UNCHANGED firstMarks
    BY <1>5 DEF WriteMarks
  <2>3. CASE p = q
    <3>1. marks'[q] = absent
      BY <2>2 DEF TypeOK
    <3>2. changes'[q] = [s \in Students |->
          IF StatusIn(marks[q], s) # StatusIn(absent, s)
          THEN Append(changes[q][s], [prev |-> StatusIn(marks[q], s),
                                      new  |-> StatusIn(absent, s)])
          ELSE changes[q][s]]
      BY <2>2 DEF Logged, TypeOK
    <3> QED BY <2>1, <2>2, <2>3, <3>1, <3>2, <1>5 DEF LogMoves
  <2>4. CASE p # q
    <3>1. marks'[p] = marks[p] /\ changes'[p] = changes[p]
      BY <2>2, <2>4 DEF Logged, TypeOK
    <3> QED BY <2>1, <2>2, <2>4, <3>1 DEF LogMoves
  <2> QED BY <2>3, <2>4
<1>6. ASSUME NEW c \in Clients, NEW s \in Students, CorrectStudent(c, s) PROVE LogMoves(p)
  <2> DEFINE q == client[c].period
             absent == IF s \in marks[q] THEN marks[q] \ {s} ELSE marks[q] \cup {s}
  <2>1. q \in Periods /\ WriteMarks(c, q, absent) /\ session[q].status = "SUBMITTED"
    BY <1>6 DEF CorrectStudent, TabsHavePeriod
  <2>2. absent \in SUBSET Students
    BY <2>1 DEF TypeOK
  <2> HIDE DEF q, absent
  <2> QED BY <1>5, <2>1, <2>2
<1>7. ASSUME NEW q \in Periods, WindowExpires(q) PROVE LogMoves(p)
  <2>1. [session[q] EXCEPT !.open = FALSE].status = session[q].status
    BY FieldTypes DEF Session
  <2> QED BY <2>1, <1>7 DEF WindowExpires, TypeOK, LogMoves
<1>8. ASSUME NEW c \in Clients, NEW q \in Periods, StartCheck(c, q) \/ LoadRow(c, q)
      PROVE LogMoves(p)
  BY <1>8, <1>1 DEF StartCheck, LoadRow
<1>9. ASSUME NEW c \in Clients, LoadMarks(c) \/ Close(c) PROVE LogMoves(p)
  BY <1>9, <1>1 DEF LoadMarks, Close
<1>10. ASSUME NEW c \in Clients, NEW absent \in SUBSET Students, EditSession(c, absent)
       PROVE LogMoves(p)
  BY <1>10, <1>5 DEF EditSession, TabsHavePeriod
<1>11. ASSUME NEW s \in Students, Transfer(s) PROVE LogMoves(p)
  BY <1>11, <1>1 DEF Transfer
<1>12. CASE DateEnds \/ UNCHANGED vars
  BY <1>12, <1>1 DEF DateEnds, vars
<1> QED BY <1>2, <1>3, <1>4, <1>6, <1>7, <1>8, <1>9, <1>10, <1>11, <1>12 DEF Next, ClientStep

\* Every step keeps the log: it grows only with the marks, and only of a
\* submitted session.
LEMMA NextLog == LogInv /\ [Next]_vars => LogInv'
<1> SUFFICES ASSUME LogInv, [Next]_vars PROVE LogInv'
  OBVIOUS
<1>1. TypeInv'
  BY NextTypes DEF LogInv
<1>2. ASSUME NEW p \in Periods PROVE LogMoves(p)
  BY <1>2, StepLogs DEF LogInv
<1>3. UnsubmittedEmpty'
  <2> SUFFICES ASSUME NEW p \in Periods, session'[p].status # "SUBMITTED"
               PROVE /\ marks'[p] = {} /\ firstMarks'[p] = {}
                     /\ \A s \in Students : changes'[p][s] = <<>>
    BY DEF UnsubmittedEmpty
  <2>1. LogMoves(p)
    BY <1>2
  <2> QED BY <2>1 DEF LogInv, UnsubmittedEmpty, LogMoves
<1>4. ASSUME NEW p \in Periods, NEW s \in Students
      PROVE Explains(changes'[p][s], StatusIn(firstMarks'[p], s), StatusIn(marks'[p], s))
  <2>1. Explains(changes[p][s], StatusIn(firstMarks[p], s), StatusIn(marks[p], s))
    BY DEF LogInv, ChangeLogExplains
  <2>2. CASE marks'[p] = marks[p] /\ changes'[p] = changes[p] /\ firstMarks'[p] = firstMarks[p]
    BY <2>1, <2>2
  <2>3. CASE /\ session[p].status # "SUBMITTED"
             /\ firstMarks'[p] = marks'[p] /\ changes'[p] = changes[p]
    <3>1. changes'[p][s] = <<>>
      BY <2>3 DEF LogInv, UnsubmittedEmpty
    <3> QED BY <3>1, <2>3 DEF Explains
  <2>4. CASE /\ firstMarks'[p] = firstMarks[p]
             /\ changes'[p] = [r \in Students |->
                  IF StatusIn(marks[p], r) # StatusIn(marks'[p], r)
                  THEN Append(changes[p][r], [prev |-> StatusIn(marks[p], r),
                                              new  |-> StatusIn(marks'[p], r)])
                  ELSE changes[p][r]]
    <3>1. /\ StatusIn(firstMarks[p], s) \in Status
          /\ StatusIn(marks[p], s) \in Status /\ StatusIn(marks'[p], s) \in Status
      BY DEF StatusIn, Status
    <3>2. changes[p][s] \in Seq(Change)
      BY DEF LogInv, TypeInv, TypeOK
    <3>3. CASE StatusIn(marks[p], s) = StatusIn(marks'[p], s)
      <4>1. changes'[p][s] = changes[p][s]
        BY <2>4, <3>3
      <4> QED BY <4>1, <2>1, <2>4, <3>3
    <3>4. CASE StatusIn(marks[p], s) # StatusIn(marks'[p], s)
      <4>1. changes'[p][s] = Append(changes[p][s], [prev |-> StatusIn(marks[p], s),
                                                    new  |-> StatusIn(marks'[p], s)])
        BY <2>4, <3>4
      <4>2. Explains(changes'[p][s], StatusIn(firstMarks[p], s), StatusIn(marks'[p], s))
        BY <4>1, <2>1, <3>1, <3>2, <3>4, AppendExplains
      <4> QED BY <4>2, <2>4
    <3> QED BY <3>3, <3>4
  <2> QED BY <1>2, <2>2, <2>3, <2>4 DEF LogMoves
<1>5. ChangeLogExplains'
  BY <1>4 DEF ChangeLogExplains
<1> QED BY <1>1, <1>3, <1>5 DEF LogInv

\* Empty logs explain empty marks.
LEMMA InitLog == Init => LogInv
<1> SUFFICES ASSUME Init PROVE LogInv
  OBVIOUS
<1>1. \A p \in Periods, s \in Students :
        changes[p][s] = <<>> /\ marks[p] = {} /\ firstMarks[p] = {}
  BY DEF Init
<1>2. ChangeLogExplains
  BY <1>1 DEF ChangeLogExplains, Explains, StatusIn
<1>3. UnsubmittedEmpty
  BY <1>1 DEF Init, UnsubmittedEmpty
<1> QED BY <1>2, <1>3, InitTypes DEF LogInv

\* No edit is silent: the AttendanceChange rows of a student always lead from
\* the status that was submitted to the status stored now.
THEOREM LogExplains == Spec => []ChangeLogExplains
<1>1. LogInv => ChangeLogExplains
  BY DEF LogInv
<1> QED BY InitLog, NextLog, <1>1, PTL DEF Spec

-----------------------------------------------------------------------------
(* No lost update.                                                         *)

\* Only a tab with an open form on the session, at the row's version, changes
\* the marks of a submitted session, and its form is closed by that step.
LEMMA ChangedByForm ==
  ASSUME TypeInv, [Next]_vars, NEW p \in Periods,
         session[p].status = "SUBMITTED", marks'[p] # marks[p]
  PROVE  \E c \in Clients : /\ client[c].pc = "form" /\ client[c].period = p
                            /\ Current(c, p) /\ client'[c].pc = "idle"
<1> USE DEF TypeInv, enrolment
<1>1. ASSUME NEW c \in Clients, NEW q \in Periods, NEW absent, WriteMarks(c, q, absent)
      PROVE client'[c].pc = "idle" /\ q = p
  BY <1>1 DEF WriteMarks, TypeOK, IdleClient
<1>2. ASSUME NEW c \in Clients, NEW absent \in SUBSET Students, EditSession(c, absent)
      PROVE client[c].pc = "form" /\ client[c].period = p /\ Current(c, p) /\ client'[c].pc = "idle"
  BY <1>1, <1>2 DEF EditSession, TabsHavePeriod
<1>3. ASSUME NEW c \in Clients, NEW s \in Students, CorrectStudent(c, s)
      PROVE client[c].pc = "form" /\ client[c].period = p /\ Current(c, p) /\ client'[c].pc = "idle"
  <2> DEFINE q == client[c].period
             absent == IF s \in marks[q] THEN marks[q] \ {s} ELSE marks[q] \cup {s}
  <2>1. q \in Periods /\ WriteMarks(c, q, absent) /\ client[c].pc = "form" /\ Current(c, q)
    BY <1>3 DEF CorrectStudent, TabsHavePeriod
  <2> HIDE DEF absent
  <2> QED BY <1>1, <2>1
<1>4. ASSUME NEW c \in Clients, NEW absent \in SUBSET Students, Submit(c, absent) PROVE FALSE
  <2>1. client[c].period # p
    BY <1>4 DEF Submit
  <2> QED BY <2>1, <1>4 DEF Submit, TypeOK
<1>5. ASSUME UNCHANGED marks PROVE FALSE
  BY <1>5
<1>6. ASSUME NEW c \in Clients, NEW q \in Periods, StartCheck(c, q) \/ LoadRow(c, q) PROVE FALSE
  BY <1>6, <1>5 DEF StartCheck, LoadRow
<1>7. ASSUME NEW c \in Clients,
             StartInsert(c) \/ LoadMarks(c) \/ Close(c) \/ SubmitRosterChanged(c)
      PROVE FALSE
  BY <1>7, <1>5 DEF StartInsert, LoadMarks, Close, SubmitRosterChanged
<1>8. ASSUME NEW s \in Students, Transfer(s) PROVE FALSE
  BY <1>8, <1>5 DEF Transfer
<1>9. ASSUME NEW q \in Periods, WindowExpires(q) PROVE FALSE
  BY <1>9, <1>5 DEF WindowExpires
<1>10. CASE DateEnds \/ UNCHANGED vars
  BY <1>10, <1>5 DEF DateEnds, vars
<1> QED BY <1>2, <1>3, <1>4, <1>6, <1>7, <1>8, <1>9, <1>10 DEF Next, ClientStep

\* No correction of a submitted session is lost: whoever replaces marks was
\* looking at exactly those marks.
THEOREM NoUpdateLost == Spec => NoLostUpdate
<1>1. ASSUME FormInv, [Next]_vars, NEW p \in Periods,
             session[p].status = "SUBMITTED", marks'[p] # marks[p]
      PROVE  \E c \in Clients : /\ client[c].pc = "form" /\ client'[c].pc = "idle"
                                /\ client[c].period = p
                                /\ client[c].marks = marks[p]
  <2>1. PICK c \in Clients : /\ client[c].pc = "form" /\ client[c].period = p
                             /\ Current(c, p) /\ client'[c].pc = "idle"
    BY <1>1, ChangedByForm DEF FormInv
  <2>2. client[c].marks = marks[p]
    BY <1>1, <2>1 DEF FormInv, TabInv, Current
  <2> QED BY <2>1, <2>2
<1>2. FormInv /\ [Next]_vars =>
        [\A p \in Periods :
           session[p].status = "SUBMITTED" /\ marks'[p] # marks[p]
             => \E c \in Clients :
                  /\ client[c].pc = "form" /\ client'[c].pc = "idle"
                  /\ client[c].period = p
                  /\ client[c].marks = marks[p]]_vars
  BY <1>1
<1> QED BY InitForm, NextForm, <1>2, PTL DEF Spec, NoLostUpdate
-----------------------------------------------------------------------------
(* The sessions implement the sheet of AttendanceSheet.                     *)

\* The sheet of a period, and what a tab is looking at.
SheetOf(p) == [filed |-> session[p].status = "SUBMITTED", absent |-> marks[p]]
ViewOf(tab) ==
  IF tab.pc = "form" THEN [period |-> tab.period, absent |-> tab.marks]
  ELSE [period |-> "none", absent |-> {}]
SheetNow == [p \in Periods |-> SheetOf(p)]
ViewNow == [c \in Clients |-> ViewOf(client[c])]

\* A step that is none of the sheet's: every sheet and every view stays.
LEMMA NothingSeen ==
  ASSUME \A p \in Periods : SheetOf(p)' = SheetOf(p),
         \A c \in Clients : ViewOf(client[c])' = ViewOf(client[c])
  PROVE  SheetNow' = SheetNow /\ ViewNow' = ViewNow
BY DEF SheetNow, ViewNow

\* A tab that shows no form views nothing, whatever it holds.
LEMMA NoForm ==
  ASSUME NEW tab, tab.pc # "form"
  PROVE  ViewOf(tab) = [period |-> "none", absent |-> {}]
BY DEF ViewOf

\* One tab changes what it shows.
LEMMA OneView ==
  ASSUME TypeOK, NEW c \in Clients, NEW tab, client' = [client EXCEPT ![c] = tab]
  PROVE  ViewNow' = [ViewNow EXCEPT ![c] = ViewOf(tab)]
<1>1. \A d \in Clients : client'[d] = IF d = c THEN tab ELSE client[d]
  BY DEF TypeOK
<1>2. \A d \in Clients : ViewOf(client[d])' = IF d = c THEN ViewOf(tab) ELSE ViewOf(client[d])
  BY <1>1 DEF ViewOf
<1> QED BY <1>2 DEF ViewNow

\* The sheets stay where no session is submitted and no mark is written.
LEMMA SameSheet ==
  ASSUME UNCHANGED marks,
         \A p \in Periods : session'[p].status = "SUBMITTED" <=> session[p].status = "SUBMITTED"
  PROVE  SheetNow' = SheetNow
<1>1. ASSUME NEW p \in Periods PROVE SheetOf(p)' = SheetOf(p)
  <2>1. (session'[p].status = "SUBMITTED") = (session[p].status = "SUBMITTED")
    OBVIOUS
  <2> QED BY <2>1 DEF SheetOf
<1> QED BY <1>1 DEF SheetNow

\* Opening and loading: the sheet is looked at when the marks have been read.
LEMMA LoadRefines ==
  ASSUME TypeInv, NEW c \in Clients,
         \/ \E p \in Periods : StartCheck(c, p) \/ LoadRow(c, p)
         \/ StartInsert(c)
  PROVE  SheetNow' = SheetNow /\ ViewNow' = ViewNow
<1>1. client[c].pc # "form" /\ UNCHANGED marks
  BY DEF StartCheck, LoadRow, StartInsert
<1>2. \E tab : client' = [client EXCEPT ![c] = tab] /\ tab.pc # "form"
  <2>1. ASSUME NEW p \in Periods, SawRow(c, p)
        PROVE  \E tab : client' = [client EXCEPT ![c] = tab] /\ tab.pc # "form"
    <3> DEFINE t == [IdleClient EXCEPT !.pc = "marks", !.period = p,
                                       !.version = session[p].version, !.roster = roster]
    <3>1. client' = [client EXCEPT ![c] = t]
      BY <2>1 DEF SawRow
    <3>2. t.pc = "marks"
      BY DEF IdleClient
    <3> QED BY <3>1, <3>2
  <2>2. ASSUME NEW p \in Periods, StartCheck(c, p) \/ LoadRow(c, p)
        PROVE  \E tab : client' = [client EXCEPT ![c] = tab] /\ tab.pc # "form"
    <3> DEFINE t == [IdleClient EXCEPT !.pc = "start", !.period = p, !.roster = roster]
    <3>1. SawRow(c, p) \/ client' = [client EXCEPT ![c] = t]
      BY <2>2 DEF StartCheck, LoadRow
    <3>2. t.pc = "start"
      BY DEF IdleClient
    <3> HIDE DEF t
    <3> QED BY <2>1, <3>1, <3>2
  <2>3. CASE StartInsert(c)
    <3>1. client[c].period \in Periods /\ client[c] \in Client
      BY <2>3, FieldTypes DEF StartInsert, TypeInv, TabsHavePeriod
    <3>2. CASE Exists(client[c].period)
      BY <2>1, <2>3, <3>1, <3>2 DEF StartInsert
    <3>3. CASE ~Exists(client[c].period)
      <4> DEFINE t == [client[c] EXCEPT !.pc = "marks",
                                        !.version = session[client[c].period].version + 1]
      <4>1. client' = [client EXCEPT ![c] = t]
        BY <2>3, <3>3 DEF StartInsert
      <4>2. t.pc = "marks"
        BY <3>1 DEF Client
      <4> QED BY <4>1, <4>2
    <3> QED BY <3>2, <3>3
  <2> QED BY <2>2, <2>3
<1>3. \A p \in Periods : session'[p].status = "SUBMITTED" <=> session[p].status = "SUBMITTED"
  <2>1. CASE UNCHANGED session
    BY <2>1
  <2>2. CASE ~(UNCHANGED session)
    <3> DEFINE p == client[c].period
               row == [NoSession EXCEPT !.status = "IN_PROGRESS", !.fingerprint = client[c].roster]
    <3>1. StartInsert(c) /\ ~Exists(p) /\ session' = [session EXCEPT ![p] = Saved(p, row)]
      BY <2>2 DEF StartCheck, LoadRow, StartInsert
    <3>2. Saved(p, row).status = "IN_PROGRESS" /\ session[p].status = "NONE"
      BY <3>1 DEF Saved, NoSession, Exists
    <3> HIDE DEF row
    <3> QED BY <3>1, <3>2 DEF TypeInv, TypeOK
  <2> QED BY <2>1, <2>2
<1>4. PICK tab : client' = [client EXCEPT ![c] = tab] /\ tab.pc # "form"
  BY <1>2
<1>5. ViewNow' = [ViewNow EXCEPT ![c] = ViewOf(tab)] /\ ViewOf(tab) = ViewOf(client[c])
  BY <1>1, <1>4, OneView, NoForm DEF TypeInv
<1>6. ViewNow' = ViewNow
  BY <1>5 DEF ViewNow
<1> QED BY <1>1, <1>3, <1>6, SameSheet

\* Reading the marks is the look at the sheet.
LEMMA LookRefines ==
  ASSUME TypeInv, NEW c \in Clients, LoadMarks(c)
  PROVE  \E p \in Periods : /\ ViewNow' = [ViewNow EXCEPT ![c] = [period |-> p, absent |-> SheetNow[p].absent]]
                            /\ SheetNow' = SheetNow
<1> DEFINE p == client[c].period
           tab == [client[c] EXCEPT !.pc = "form", !.marks = marks[p]]
<1>1. p \in Periods /\ client[c] \in Client
  BY FieldTypes DEF LoadMarks, TypeInv, TabsHavePeriod
<1>2. client' = [client EXCEPT ![c] = tab] /\ UNCHANGED <<session, marks>>
  BY DEF LoadMarks
<1>3. ViewOf(tab) = [period |-> p, absent |-> marks[p]]
  <2>1. tab.pc = "form" /\ tab.period = p /\ tab.marks = marks[p]
    BY <1>1 DEF Client
  <2> QED BY <2>1 DEF ViewOf
<1> HIDE DEF tab
<1>4. ViewNow' = [ViewNow EXCEPT ![c] = [period |-> p, absent |-> marks[p]]]
  BY <1>2, <1>3, OneView DEF TypeInv
<1>5. SheetNow[p].absent = marks[p]
  BY <1>1 DEF SheetNow, SheetOf
<1> QED BY <1>1, <1>2, <1>4, <1>5, SameSheet

\* A tab that goes back to rest looks away.
LEMMA AwayView ==
  ASSUME TypeInv, NEW c \in Clients, client' = [client EXCEPT ![c] = IdleClient]
  PROVE  ViewNow' = [ViewNow EXCEPT ![c] = [period |-> "none", absent |-> {}]]
<1>1. ViewOf(IdleClient) = [period |-> "none", absent |-> {}]
  BY NoForm DEF IdleClient
<1> QED BY <1>1, OneView DEF TypeInv

\* Closing a tab, and a submission that is refused, only look away.
LEMMA AwayRefines ==
  ASSUME TypeInv, NEW c \in Clients, Close(c) \/ SubmitRosterChanged(c)
  PROVE  /\ ViewNow' = [ViewNow EXCEPT ![c] = [period |-> "none", absent |-> {}]]
         /\ SheetNow' = SheetNow
<1>1. client' = [client EXCEPT ![c] = IdleClient] /\ UNCHANGED marks
  BY DEF Close, SubmitRosterChanged
<1>2. CASE Close(c)
  BY <1>1, <1>2, AwayView, SameSheet DEF Close
<1>3. CASE SubmitRosterChanged(c)
  <2> DEFINE p == client[c].period
             row == [session[p] EXCEPT !.fingerprint = roster]
  <2>1. /\ p \in Periods /\ session[p] \in Session /\ session[p].status = "IN_PROGRESS"
        /\ session' = [session EXCEPT ![p] = Saved(p, row)]
    BY <1>3, FieldTypes DEF SubmitRosterChanged, TypeInv, TabsHavePeriod, TypeOK
  <2>2. Saved(p, row).status = "IN_PROGRESS"
    BY <2>1 DEF Saved, Session
  <2> HIDE DEF row
  <2>3. \A q \in Periods : session'[q].status = "SUBMITTED" <=> session[q].status = "SUBMITTED"
    BY <2>1, <2>2 DEF TypeInv, TypeOK
  <2> QED BY <1>1, <2>3, AwayView, SameSheet
<1> QED BY <1>2, <1>3

\* The sheets after one of them was written.
LEMMA OneSheet ==
  ASSUME TypeOK, NEW p \in Periods, NEW absent, marks' = [marks EXCEPT ![p] = absent],
         NEW row, session' = [session EXCEPT ![p] = row], row.status = "SUBMITTED"
  PROVE  SheetNow' = [SheetNow EXCEPT ![p] = [filed |-> TRUE, absent |-> absent]]
<1>1. ASSUME NEW q \in Periods
      PROVE  SheetOf(q)' = IF q = p THEN [filed |-> TRUE, absent |-> absent] ELSE SheetOf(q)
  <2>1. CASE q = p
    <3>1. marks'[q] = absent /\ (session'[q].status = "SUBMITTED") = TRUE
      BY <2>1 DEF TypeOK
    <3> QED BY <2>1, <3>1 DEF SheetOf
  <2>2. CASE q # p
    <3>1. marks'[q] = marks[q] /\ session'[q] = session[q]
      BY <2>2 DEF TypeOK
    <3> QED BY <2>2, <3>1 DEF SheetOf
  <2> QED BY <2>1, <2>2
<1> QED BY <1>1 DEF SheetNow

\* An accepted submission files the sheet.
LEMMA FileRefines ==
  ASSUME TypeInv, NEW c \in Clients, NEW absent \in SUBSET Students, Submit(c, absent)
  PROVE  \E p \in Periods :
           /\ ~SheetNow[p].filed
           /\ SheetNow' = [SheetNow EXCEPT ![p] = [filed |-> TRUE, absent |-> absent]]
           /\ ViewNow' = [ViewNow EXCEPT ![c] = [period |-> "none", absent |-> {}]]
<1> DEFINE p == client[c].period
           row == [session[p] EXCEPT !.status = "SUBMITTED", !.by = c, !.open = TRUE]
<1>1. /\ p \in Periods /\ session[p] \in Session /\ session[p].status = "IN_PROGRESS"
      /\ session' = [session EXCEPT ![p] = Saved(p, row)] /\ marks' = [marks EXCEPT ![p] = absent]
      /\ client' = [client EXCEPT ![c] = IdleClient]
  BY FieldTypes DEF Submit, TypeInv, TabsHavePeriod, TypeOK
<1>2. Saved(p, row).status = "SUBMITTED"
  BY <1>1 DEF Saved, Session
<1> HIDE DEF row
<1>3. SheetNow' = [SheetNow EXCEPT ![p] = [filed |-> TRUE, absent |-> absent]]
  BY <1>1, <1>2, OneSheet DEF TypeInv
<1>4. ~SheetNow[p].filed
  BY <1>1 DEF SheetNow, SheetOf
<1>5. ViewNow' = [ViewNow EXCEPT ![c] = [period |-> "none", absent |-> {}]]
  BY <1>1, AwayView
<1> QED BY <1>1, <1>3, <1>4, <1>5

\* A sheet with other marks is still filed or not.
LEMMA RevisedSheet ==
  ASSUME NEW sheet \in [filed: BOOLEAN, absent: SUBSET Students], NEW absent \in SUBSET Students,
         sheet.filed = TRUE
  PROVE  [sheet EXCEPT !.absent = absent] = [filed |-> TRUE, absent |-> absent]
<1> DEFINE new == [sheet EXCEPT !.absent = absent]
<1>1. new \in [filed: BOOLEAN, absent: SUBSET Students]
  OBVIOUS
<1>2. new.filed = sheet.filed /\ new.absent = absent
  OBVIOUS
<1> HIDE DEF new
<1>3. new = [filed |-> new.filed, absent |-> new.absent]
  BY <1>1
<1>4. new = [filed |-> TRUE, absent |-> absent]
  BY <1>2, <1>3, Zenon
<1> QED BY <1>4 DEF new

\* An accepted edit or correction revises the sheet that the tab sees as it is.
LEMMA WriteRefines ==
  ASSUME FormInv, NEW c \in Clients, NEW p \in Periods, NEW absent \in SUBSET Students,
         client[c].pc = "form", client[c].period = p, Current(c, p),
         session[p].status = "SUBMITTED", WriteMarks(c, p, absent)
  PROVE  /\ SheetNow[p].filed
         /\ ViewNow[c] = [period |-> p, absent |-> SheetNow[p].absent]
         /\ SheetNow' = [SheetNow EXCEPT ![p].absent = absent]
         /\ ViewNow' = [ViewNow EXCEPT ![c] = [period |-> "none", absent |-> {}]]
<1>1. TypeInv /\ TypeOK /\ client[c].marks = marks[p]
  BY DEF FormInv, TypeInv, TabInv, Current
<1>2. /\ session[p] \in Session /\ session' = [session EXCEPT ![p] = Saved(p, session[p])]
      /\ marks' = [marks EXCEPT ![p] = absent] /\ client' = [client EXCEPT ![c] = IdleClient]
  BY <1>1, FieldTypes DEF WriteMarks, TypeOK
<1>3. Saved(p, session[p]).status = "SUBMITTED"
  BY <1>2 DEF Saved, Session
<1>4. SheetNow' = [SheetNow EXCEPT ![p] = [filed |-> TRUE, absent |-> absent]]
  BY <1>1, <1>2, <1>3, OneSheet
<1>5. SheetNow[p] = [filed |-> TRUE, absent |-> marks[p]]
  <2>1. (session[p].status = "SUBMITTED") = TRUE
    OBVIOUS
  <2> QED BY <2>1 DEF SheetNow, SheetOf
<1>6. SheetNow' = [SheetNow EXCEPT ![p].absent = absent]
  <2> DEFINE old == [filed |-> TRUE, absent |-> marks[p]]
  <2>1. old \in [filed: BOOLEAN, absent: SUBSET Students] /\ old.filed = TRUE
    BY <1>1 DEF TypeOK
  <2>2. SheetNow[p] = old
    BY <1>5
  <2> HIDE DEF old
  <2>3. [SheetNow[p] EXCEPT !.absent = absent] = [filed |-> TRUE, absent |-> absent]
    BY <2>1, <2>2, RevisedSheet, Zenon
  <2>4. [SheetNow EXCEPT ![p].absent = absent]
        = [SheetNow EXCEPT ![p] = [SheetNow[p] EXCEPT !.absent = absent]]
    BY Zenon
  <2> QED BY <1>4, <2>3, <2>4, Zenon
<1>7. ViewNow[c] = [period |-> p, absent |-> SheetNow[p].absent]
  BY <1>1, <1>5 DEF ViewNow, ViewOf
<1>8. ViewNow' = [ViewNow EXCEPT ![c] = [period |-> "none", absent |-> {}]]
  BY <1>1, <1>2, AwayView
<1> QED BY <1>5, <1>6, <1>7, <1>8

\* Transfers, windows that run out and midnight are none of the sheet's business.
LEMMA AroundRefines ==
  ASSUME TypeInv,
         \/ \E s \in Students : Transfer(s)
         \/ \E p \in Periods : WindowExpires(p)
         \/ DateEnds
         \/ UNCHANGED vars
  PROVE  SheetNow' = SheetNow /\ ViewNow' = ViewNow
<1>1. UNCHANGED <<marks, client>>
  BY DEF Transfer, WindowExpires, DateEnds, vars
<1>2. \A q \in Periods : session'[q].status = session[q].status
  <2>1. CASE UNCHANGED session
    BY <2>1
  <2>2. ASSUME NEW p \in Periods, WindowExpires(p) PROVE <1>2
    <3> DEFINE row == [session[p] EXCEPT !.open = FALSE]
    <3>1. session' = [session EXCEPT ![p] = row] /\ session[p] \in Session
      BY <2>2, FieldTypes DEF WindowExpires, TypeInv, TypeOK
    <3>2. row.status = session[p].status
      BY <3>1 DEF Session
    <3> HIDE DEF row
    <3> QED BY <3>1, <3>2 DEF TypeInv, TypeOK
  <2> QED BY <2>1, <2>2 DEF Transfer, DateEnds, vars
<1>3. SheetNow' = SheetNow
  BY <1>1, <1>2, SameSheet
<1>4. ViewNow' = ViewNow
  BY <1>1 DEF ViewNow, ViewOf
<1> QED BY <1>3, <1>4

\* Every step of the services is a step of the sheet, or none of its business.
LEMMA StepRefines ==
  ASSUME FormInv, [Next]_vars
  PROVE  [Sheet!Next]_Sheet!vars
<1>1. TypeInv
  BY DEF FormInv
<1>2. SheetNow = [p \in Periods |-> [filed |-> session[p].status = "SUBMITTED", absent |-> marks[p]]]
  BY DEF SheetNow, SheetOf
<1>3. ViewNow = [c \in Clients |-> IF client[c].pc = "form"
                                    THEN [period |-> client[c].period, absent |-> client[c].marks]
                                    ELSE [period |-> "none", absent |-> {}]]
  BY DEF ViewNow, ViewOf
<1>4. CASE SheetNow' = SheetNow /\ ViewNow' = ViewNow
  BY <1>4 DEF Sheet!vars, SheetNow, SheetOf, ViewNow, ViewOf
<1>5. ASSUME NEW c \in Clients, NEW p \in Periods, SheetNow' = SheetNow,
             ViewNow' = [ViewNow EXCEPT ![c] = [period |-> p, absent |-> SheetNow[p].absent]]
      PROVE  Sheet!Next
  <2>1. Sheet!Look(c, p)
    BY <1>5 DEF Sheet!Look, SheetNow, SheetOf, ViewNow, ViewOf
  <2> QED BY <2>1 DEF Sheet!Next
<1>6. ASSUME NEW c \in Clients, SheetNow' = SheetNow,
             ViewNow' = [ViewNow EXCEPT ![c] = [period |-> "none", absent |-> {}]]
      PROVE  Sheet!Next
  <2>1. Sheet!LookAway(c)
    BY <1>6 DEF Sheet!LookAway, Sheet!Nothing, SheetNow, SheetOf, ViewNow, ViewOf
  <2> QED BY <2>1 DEF Sheet!Next
<1>7. ASSUME NEW c \in Clients, NEW p \in Periods, NEW absent \in SUBSET Students, ~SheetNow[p].filed,
             SheetNow' = [SheetNow EXCEPT ![p] = [filed |-> TRUE, absent |-> absent]],
             ViewNow' = [ViewNow EXCEPT ![c] = [period |-> "none", absent |-> {}]]
      PROVE  Sheet!Next
  <2>1. Sheet!File(c, p, absent)
    BY <1>7 DEF Sheet!File, Sheet!Nothing, SheetNow, SheetOf, ViewNow, ViewOf
  <2> QED BY <2>1 DEF Sheet!Next
<1>8. ASSUME NEW c \in Clients, NEW p \in Periods, NEW absent \in SUBSET Students,
             client[c].pc = "form", client[c].period = p, Current(c, p),
             session[p].status = "SUBMITTED", WriteMarks(c, p, absent)
      PROVE  Sheet!Next
  <2>1. /\ SheetNow[p].filed
        /\ ViewNow[c] = [period |-> p, absent |-> SheetNow[p].absent]
        /\ SheetNow' = [SheetNow EXCEPT ![p].absent = absent]
        /\ ViewNow' = [ViewNow EXCEPT ![c] = [period |-> "none", absent |-> {}]]
    BY <1>8, WriteRefines
  <2>2. Sheet!Revise(c, p, absent)
    BY <2>1 DEF Sheet!Revise, Sheet!Nothing, SheetNow, SheetOf, ViewNow, ViewOf
  <2> QED BY <2>2 DEF Sheet!Next
<1>9. ASSUME NEW c \in Clients, ClientStep(c) PROVE [Sheet!Next]_Sheet!vars
  <2>1. CASE (\E p \in Periods : StartCheck(c, p) \/ LoadRow(c, p)) \/ StartInsert(c)
    BY <1>1, <1>4, <2>1, LoadRefines
  <2>2. CASE LoadMarks(c)
    BY <1>1, <1>5, <2>2, LookRefines
  <2>3. CASE Close(c) \/ SubmitRosterChanged(c)
    BY <1>1, <1>6, <2>3, AwayRefines
  <2>4. ASSUME NEW absent \in SUBSET Students, Submit(c, absent) PROVE Sheet!Next
    BY <1>1, <1>7, <2>4, FileRefines
  <2>5. ASSUME NEW absent \in SUBSET Students, EditSession(c, absent) PROVE Sheet!Next
    <3>1. client[c].period \in Periods
      BY <1>1, <2>5 DEF EditSession, TypeInv, TabsHavePeriod
    <3> QED BY <1>8, <2>5, <3>1 DEF EditSession
  <2>6. ASSUME NEW s \in Students, CorrectStudent(c, s) PROVE Sheet!Next
    <3> DEFINE p == client[c].period
               absent == IF s \in marks[p] THEN marks[p] \ {s} ELSE marks[p] \cup {s}
    <3>1. p \in Periods /\ marks[p] \in SUBSET Students
      BY <1>1, <2>6 DEF CorrectStudent, TypeInv, TabsHavePeriod, TypeOK
    <3>2. absent \in SUBSET Students
      BY <3>1
    <3>3. /\ client[c].pc = "form" /\ Current(c, p) /\ session[p].status = "SUBMITTED"
          /\ WriteMarks(c, p, absent)
      BY <2>6 DEF CorrectStudent
    <3> HIDE DEF absent
    <3> QED BY <1>8, <3>1, <3>2, <3>3
  <2> QED BY <1>9, <2>1, <2>2, <2>3, <2>4, <2>5, <2>6 DEF ClientStep
<1>10. CASE \/ \E s \in Students : Transfer(s)
            \/ \E p \in Periods : WindowExpires(p)
            \/ DateEnds
            \/ UNCHANGED vars
  BY <1>1, <1>4, <1>10, AroundRefines
<1> QED BY <1>9, <1>10 DEF Next

\* The services implement the abstract sheet: it is filed once and then revised only by
\* somebody who is looking at its present content.
THEOREM SheetImplemented == Spec => ImplementsSheet
<1>1. Init => Sheet!Init
  <2>1. SUFFICES ASSUME Init PROVE Sheet!Init
    OBVIOUS
  <2>2. ASSUME NEW p \in Periods
        PROVE  [filed |-> session[p].status = "SUBMITTED", absent |-> marks[p]]
               = [filed |-> FALSE, absent |-> {}]
    <3>1. session[p] = NoSession /\ marks[p] = {}
      BY <2>1 DEF Init
    <3>2. NoSession.status = "NONE"
      BY DEF NoSession
    <3>3. (session[p].status = "SUBMITTED") = FALSE
      BY <3>1, <3>2
    <3> QED BY <3>1, <3>3
  <2>3. ASSUME NEW c \in Clients PROVE client[c].pc # "form"
    <3>1. client[c] = IdleClient
      BY <2>1 DEF Init
    <3> QED BY <3>1 DEF IdleClient
  <2>4. [p \in Periods |-> [filed |-> session[p].status = "SUBMITTED", absent |-> marks[p]]]
        = [p \in Periods |-> [filed |-> FALSE, absent |-> {}]]
    BY <2>2
  <2>5. [c \in Clients |-> IF client[c].pc = "form"
                           THEN [period |-> client[c].period, absent |-> client[c].marks]
                           ELSE [period |-> "none", absent |-> {}]]
        = [c \in Clients |-> Sheet!Nothing]
    BY <2>3 DEF Sheet!Nothing
  <2> QED BY <2>4, <2>5 DEF Sheet!Init
<1> QED BY <1>1, InitForm, NextForm, StepRefines, PTL DEF Spec, ImplementsSheet, Sheet!Spec
=============================================================================
