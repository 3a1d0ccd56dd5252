------------------------------ MODULE MCSchool ------------------------------
(* Instances of DeviceIngest, StudentRecords, StudentImports and             *)
(* AcademicCalendar.  They share no row, so one behaviour takes the steps of *)
(* one of them.  Times of events are half minutes, dates of the calendar     *)
(* days.                                                                     *)
EXTENDS DeviceIngest, StudentRecords, StudentImports, AcademicCalendar, TLC

VARIABLE turn

MCEvents == {0, 4, 8}
MCMalformed == {8}
MCManualTimes == {6}

\* Two calendars of the source, the second of them moved or not yet READY.
Dates(a, b) == [from |-> a, to |-> b]
Official(span, first, second, ready) ==
  [span |-> span, terms |-> <<first, second>>, ready |-> ready]
MCYearSpans == {Dates(0, 4), Dates(0, 5), Dates(3, 6)}
MCTermSpans == {Dates(0, 1), Dates(2, 4), Dates(1, 3)}
MCSnapshots ==
  {<<Official(Dates(0, 4), Dates(0, 1), Dates(3, 4), TRUE),
     Official(Dates(5, 6), Dates(5, 5), Dates(6, 6), TRUE)>>,
   <<Official(Dates(0, 4), Dates(0, 2), Dates(3, 4), TRUE),
     Official(Dates(5, 6), Dates(5, 5), Dates(6, 6), FALSE)>>}

SchoolVars == <<vars, recordVars, importVars, calendarVars, turn>>

SchoolInit ==
  /\ turn \in {"devices", "records", "imports", "calendar"}
  /\ Init /\ RecordInit /\ ImportInit /\ CalendarInit
  /\ turn # "records" => pupils = [p \in Pupils |-> Gone]
  /\ turn # "calendar" => source[2].ready

SchoolNext ==
  /\ UNCHANGED turn
  /\ \/ turn = "devices" /\ Next /\ UNCHANGED <<recordVars, importVars, calendarVars>>
     \/ turn = "records" /\ RecordNext /\ UNCHANGED <<vars, importVars, calendarVars>>
     \/ turn = "imports" /\ ImportNext /\ UNCHANGED <<vars, recordVars, calendarVars>>
     \/ turn = "calendar" /\ CalendarNext /\ UNCHANGED <<vars, recordVars, importVars>>

SchoolSpec == SchoolInit /\ [][SchoolNext]_SchoolVars

\* The instance gives the imports the model values of the requests.
Interchangeable == Permutations(Requests)

\* The types of the four components.
SchoolTypeOK == TypeOK /\ RecordTypeOK /\ ImportTypeOK /\ CalendarTypeOK

\* What no step may take back, whoever acts: a morning arrival only becomes earlier, and
\* a year or semester that was closed stays closed.
SchoolKept == OnlyEarlier /\ CalendarRests
=============================================================================
