------------------------ MODULE LeaveDashboards_proofs ------------------------
(***************************************************************************)
(* What the abstract lifecycle guarantees, for every set of requests, and  *)
(* what the cards and charts that count requests show, for every           *)
(* organisation, calendar and set of requests that follow it.              *)
(***************************************************************************)
EXTENDS LeaveDashboards, FiniteSetTheorems, TLAPS

-----------------------------------------------------------------------------
(* The lifecycle. *)

Inv == TypeOK /\ LedgerMatchesStatus

LEMMA MoveKeeps ==
  ASSUME Inv, NEW r \in Requests, NEW from, NEW to \in Statuses, Move(r, from, to, RowFor(to))
  PROVE  Inv'
BY DEF Inv, TypeOK, LedgerMatchesStatus, Move, RowFor, LedgerStates

LEMMA DeleteKeeps ==
  ASSUME Inv, NEW gone \in SUBSET Requests, Delete(gone)
  PROVE  Inv'
BY DEF Inv, TypeOK, LedgerMatchesStatus, Delete, RowFor, LedgerStates, InReview

LEMMA InvNext == Inv /\ [Next]_vars => Inv'
<1> SUFFICES ASSUME Inv, [Next]_vars PROVE Inv'
  OBVIOUS
<1>1. ASSUME NEW r \in Requests, Submit(r) \/ Comment(r) \/ Endorse(r) PROVE Inv'
  <2>1. \A s \in InReview : s \in Statuses /\ RowFor(s) = "pending"
    BY DEF Statuses, RowFor
  <2>2. PICK s \in InReview : \E from : Move(r, from, s, "pending")
    BY <1>1 DEF Submit, Comment, Endorse, InReview
  <2> QED
    BY <2>1, <2>2, MoveKeeps
<1>2. ASSUME NEW r \in Requests, Approve(r) \/ Reject(r) \/ Cancel(r) PROVE Inv'
  <2>1. /\ RowFor("APPROVED") = "confirmed" /\ RowFor("REJECTED") = "none"
        /\ RowFor("CANCELLED") = "none" /\ Terminal \subseteq Statuses
    BY DEF RowFor, InReview, Statuses
  <2> QED
    BY <1>2, <2>1, MoveKeeps DEF Approve, Reject, Cancel, Terminal
<1>3. CASE UNCHANGED vars
  BY <1>3 DEF Inv, TypeOK, LedgerMatchesStatus, vars
<1> QED
  BY <1>1, <1>2, <1>3, DeleteKeeps DEF Next

LEMMA InvCorrect == Spec => []Inv
<1>1. Init => Inv
  BY DEF Init, Inv, TypeOK, LedgerMatchesStatus, RowFor, InReview, Terminal, Statuses, LedgerStates
<1> QED
  BY <1>1, InvNext, PTL DEF Spec

\* Commands that are atomic keep the balance in agreement with the decision.
THEOREM LedgerAgrees == Spec => []LedgerMatchesStatus
<1>1. Inv => LedgerMatchesStatus
  BY DEF Inv
<1> QED
  BY <1>1, InvCorrect, PTL

\* Commands that are atomic never reopen or overturn a decision.
THEOREM DecisionsAreFinal == Spec => DecisionIsFinal
<1>1. Inv /\ [Next]_vars => [\A r \in Requests : status[r] \in Terminal
                                => status'[r] \in {status[r], "Deleted"}]_vars
  <2> SUFFICES ASSUME Inv, Next, NEW r \in Requests, status[r] \in Terminal
               PROVE  status'[r] \in {status[r], "Deleted"}
    OBVIOUS
  <2>1. status[r] \notin InReview /\ status[r] # "Absent"
    BY DEF Terminal, InReview
  <2>2. ASSUME NEW q \in Requests, NEW from, NEW to, NEW row, Move(q, from, to, row),
               from \subseteq InReview \cup {"Absent"}
        PROVE  status'[r] = status[r]
    BY <2>1, <2>2 DEF Move, Inv, TypeOK
  <2>3. ASSUME NEW q \in Requests, Submit(q) \/ Comment(q) \/ Endorse(q)
                                   \/ Approve(q) \/ Reject(q) \/ Cancel(q)
        PROVE  status'[r] = status[r]
    BY <2>2, <2>3 DEF Submit, Comment, Endorse, Approve, Reject, Cancel, InReview
  <2>4. ASSUME NEW gone \in SUBSET Requests, Delete(gone)
        PROVE  status'[r] \in {status[r], "Deleted"}
    BY <2>4 DEF Delete
  <2> QED
    BY <2>3, <2>4 DEF Next
<1> QED
  BY <1>1, InvCorrect, PTL DEF Spec, DecisionIsFinal

-----------------------------------------------------------------------------
(* The requests the dashboards count follow the lifecycle. *)

LEMMA RequestsMove ==
  ASSUME NextDashboards
  PROVE  [Next]_vars
<1>1. ASSUME NEW r \in Requests, SubmitRequest(r) \/ ReviewRequest(r) PROVE Next
  BY <1>1 DEF SubmitRequest, ReviewRequest, Next
<1>2. ASSUME NEW d \in departments, RemoveDepartment(d) PROVE Next
  BY <1>2 DEF RemoveDepartment, Next
<1>3. CASE \/ \E u \in Users : Offboard(u) \/ \E d \in departments \cup {NoDept} : MoveUser(u, d)
           \/ Midnight \/ StartReport \/ CountPending \/ CountApproved
  BY <1>3 DEF Offboard, MoveUser, Midnight, StartReport, CountPending, CountApproved, Count, vars
<1> QED
  BY <1>1, <1>2, <1>3 DEF NextDashboards

LEMMA RequestsKeep == SpecDashboards => []Inv
<1>1. InitDashboards => Inv
  BY DEF InitDashboards, Init, Inv, TypeOK, LedgerMatchesStatus, RowFor, InReview, Terminal,
         Statuses, LedgerStates
<1>2. Inv /\ [NextDashboards]_allVars => Inv'
  <2>1. [NextDashboards]_allVars => [Next]_vars
    BY RequestsMove DEF allVars, vars
  <2> QED
    BY <2>1, InvNext
<1> QED
  BY <1>1, <1>2, PTL DEF SpecDashboards

\* What a review does to the status of its request.
LEMMA ReviewStatus ==
  ASSUME TypeOK, NEW r \in Requests, ReviewRequest(r)
  PROVE  /\ status[r] \in InReview /\ status'[r] \in Statuses
         /\ \A q \in Requests \ {r} : status'[q] = status[q]
<1>1. ASSUME NEW from \in SUBSET InReview, NEW to \in Statuses, NEW k, Move(r, from, to, k)
      PROVE  /\ status[r] \in InReview /\ status'[r] \in Statuses
             /\ \A q \in Requests \ {r} : status'[q] = status[q]
  BY <1>1 DEF Move, TypeOK
<1> QED
  BY <1>1 DEF ReviewRequest, Comment, Endorse, Approve, Reject, Cancel, Statuses, InReview, Terminal

-----------------------------------------------------------------------------
(* Months. *)

LEMMA DivBounds ==
  ASSUME NEW n \in Nat, NEW k \in Nat \ {0}
  PROVE  /\ n \div k \in Nat
         /\ (n \div k) * k <= n
         /\ n <= (n \div k) * k + k - 1
OBVIOUS

LEMMA QuotientsInOrder ==
  ASSUME NEW k \in Nat \ {0}, NEW a \in Nat, NEW b \in Nat, a <= b,
         NEW q \in Nat, q * k <= a, NEW p \in Nat, b <= p * k + k - 1
  PROVE  q <= p
OBVIOUS

\* Months are numbered in the order of their days, and a month holds its days.
LEMMA MonthType ==
  ASSUME NEW d \in Nat
  PROVE  /\ Month(d) \in Nat /\ Month(d) <= Month(d + 1)
         /\ Month(d) * MonthLength \in Nat
         /\ Month(d) * MonthLength <= d
         /\ d <= Month(d) * MonthLength + MonthLength - 1
<1>1. MonthLength \in Nat \ {0}
  BY ConstantsAssumption
<1>2. /\ Month(d) \in Nat /\ Month(d + 1) \in Nat
      /\ Month(d) * MonthLength <= d
      /\ d <= Month(d) * MonthLength + MonthLength - 1
      /\ d + 1 <= Month(d + 1) * MonthLength + MonthLength - 1
  <2>1. d + 1 \in Nat
    OBVIOUS
  <2> QED
    BY <1>1, <2>1, DivBounds DEF Month
<1>3. Month(d) <= Month(d + 1)
  BY <1>1, <1>2, QuotientsInOrder
<1>4. Month(d) * MonthLength \in Nat
  BY <1>1, <1>2
<1> QED
  BY <1>2, <1>3, <1>4

-----------------------------------------------------------------------------
(* Types. *)

OrgOK ==
  /\ today \in 0 .. LastDay /\ dept \in [Users -> departments \cup {NoDept}]
  /\ left \subseteq Users /\ departments \subseteq Departments /\ changes \in 0 .. MaxChanges

\* A request also begins before it ends.
FormOK ==
  /\ form \in [Requests -> Forms]
  /\ \A r \in Requests :
       /\ form[r] = NoForm <=> status[r] = "Absent"
       /\ status[r] \in Statuses => form[r].home \in departments
       /\ form[r].from <= form[r].to

CardOK ==
  /\ updated \in [Requests -> 0 .. Month(today)]
  /\ report \in [todo : SUBSET {"pending", "approved"}, month : 0 .. Month(today),
                 pending : SUBSET Requests, approved : SUBSET Requests, written : SUBSET Requests]

Typed == TypeOK /\ OrgOK /\ FormOK /\ CardOK

\* The days of a request are numbers.
LEMMA FormDays ==
  ASSUME NEW f \in Forms
  PROVE  f.from \in Nat /\ f.to \in Nat
<1>1. {s[1] : s \in Spans} \subseteq Nat /\ {s[2] : s \in Spans} \subseteq Nat
  BY ConstantsAssumption
<1> QED
  BY <1>1 DEF Forms, NoForm

LEMMA OrgStep ==
  ASSUME OrgOK, NextDashboards
  PROVE  OrgOK'
<1>1. ASSUME NEW u \in Users, Offboard(u) PROVE OrgOK'
  BY <1>1, ConstantsAssumption DEF OrgOK, Offboard, Reorganise
<1>2. ASSUME NEW u \in Users, NEW d \in departments \cup {NoDept}, MoveUser(u, d) PROVE OrgOK'
  BY <1>2, ConstantsAssumption DEF OrgOK, MoveUser, Reorganise
<1>3. ASSUME NEW d \in departments, RemoveDepartment(d) PROVE OrgOK'
  <2>1. dept' \in [Users -> departments' \cup {NoDept}]
    BY <1>3 DEF OrgOK, RemoveDepartment
  <2>2. left' = left /\ departments' = departments \ {d} /\ today' = today
        /\ changes' \in 0 .. MaxChanges
    BY <1>3, ConstantsAssumption DEF OrgOK, RemoveDepartment, Reorganise
  <2> QED
    BY <2>1, <2>2 DEF OrgOK
<1>4. CASE Midnight
  BY <1>4, ConstantsAssumption DEF OrgOK, Midnight
<1>5. CASE \/ \E r \in Requests : SubmitRequest(r) \/ ReviewRequest(r)
           \/ StartReport \/ CountPending \/ CountApproved
  <2>1. UNCHANGED <<today, dept, left, departments, changes>>
    BY <1>5 DEF SubmitRequest, ReviewRequest, StartReport, CountPending, CountApproved, Count
  <2> QED
    BY <2>1 DEF OrgOK
<1> QED
  BY <1>1, <1>2, <1>3, <1>4, <1>5 DEF NextDashboards

LEMMA FormStep ==
  ASSUME TypeOK, TypeOK', OrgOK, FormOK, NextDashboards
  PROVE  FormOK'
<1>1. \A s \in Statuses : s # "Absent" /\ s # "Deleted"
  BY DEF Statuses, InReview, Terminal
<1>2. ASSUME NEW r \in Requests, SubmitRequest(r) PROVE FormOK'
  <2>1. PICK u \in Users, s \in Spans :
          /\ dept[u] # NoDept
          /\ form' = [form EXCEPT ![r] =
               [owner |-> u, home |-> dept[u], from |-> s[1], to |-> s[2], late |-> s[3]]]
    BY <1>2 DEF SubmitRequest
  <2>2. PICK k \in InReview : status' = [status EXCEPT ![r] = k]
    BY <1>2 DEF SubmitRequest, Submit, Move
  <2>3. departments' = departments /\ dept[u] \in departments /\ dept[u] \in Departments
    BY <1>2, <2>1 DEF SubmitRequest, OrgOK
  <2> DEFINE f == [owner |-> u, home |-> dept[u], from |-> s[1], to |-> s[2], late |-> s[3]]
  <2>4. f \in Forms
    <3>1. s[3] \in BOOLEAN
      BY ConstantsAssumption
    <3> QED
      BY <2>3, <3>1 DEF Forms
  <2>5. f # NoForm
    BY <2>1 DEF NoForm
  <2>6. f.from <= f.to
    BY ConstantsAssumption
  <2>7. f.home = dept[u]
    OBVIOUS
  <2>8. form' = [form EXCEPT ![r] = f]
    BY <2>1
  <2> HIDE DEF f
  <2>9. k # "Absent"
    BY <1>1, <2>2 DEF Statuses
  <2> QED
    BY <2>2, <2>3, <2>4, <2>5, <2>6, <2>7, <2>8, <2>9 DEF FormOK, TypeOK
<1>3. ASSUME NEW r \in Requests, ReviewRequest(r) PROVE FormOK'
  <2>1. UNCHANGED <<form, departments>>
    BY <1>3 DEF ReviewRequest
  <2>2. /\ status[r] \in InReview /\ status'[r] \in Statuses
        /\ \A q \in Requests \ {r} : status'[q] = status[q]
    BY <1>3, ReviewStatus
  <2>3. status[r] \in Statuses
    BY <2>2 DEF Statuses
  <2> QED
    BY <1>1, <2>1, <2>2, <2>3 DEF FormOK
<1>4. ASSUME NEW d \in departments, RemoveDepartment(d) PROVE FormOK'
  <2> DEFINE gone == {r \in Requests : status[r] \in Statuses /\ form[r].home = d}
  <2>1. form' = form /\ departments' = departments \ {d}
        /\ status' = [r \in Requests |-> IF r \in gone THEN "Deleted" ELSE status[r]]
    BY <1>4 DEF RemoveDepartment, Reorganise, Delete
  <2>2. ASSUME NEW r \in Requests
        PROVE  /\ form[r] = NoForm <=> status'[r] = "Absent"
               /\ status'[r] \in Statuses => form[r].home \in departments'
    BY <1>1, <2>1 DEF FormOK
  <2> QED
    BY <2>1, <2>2 DEF FormOK
<1>5. CASE \/ \E u \in Users : Offboard(u) \/ \E d \in departments \cup {NoDept} : MoveUser(u, d)
           \/ Midnight \/ StartReport \/ CountPending \/ CountApproved
  <2>1. UNCHANGED <<status, form, departments>>
    BY <1>5 DEF Offboard, MoveUser, Reorganise, Midnight, StartReport, CountPending, CountApproved,
                Count
  <2> QED
    BY <2>1 DEF FormOK
<1> QED
  BY <1>2, <1>3, <1>4, <1>5 DEF NextDashboards

LEMMA CardStep ==
  ASSUME OrgOK, CardOK, NextDashboards
  PROVE  CardOK'
<1>1. today \in Nat /\ Month(today) \in Nat /\ 0 \in 0 .. Month(today) /\ Month(today) \in 0 .. Month(today)
  <2>1. today \in Nat
    BY ConstantsAssumption DEF OrgOK
  <2> QED
    BY <2>1, MonthType
<1>2. ASSUME NEW rs \in SUBSET Requests, Touch(rs), today' = today PROVE CardOK'
  <2>1. updated' \in [Requests -> 0 .. Month(today)]
    BY <1>1, <1>2 DEF Touch, CardOK
  <2>2. report' \in [todo : SUBSET {"pending", "approved"}, month : 0 .. Month(today),
                     pending : SUBSET Requests, approved : SUBSET Requests,
                     written : SUBSET Requests]
    BY <1>2 DEF Touch, CardOK
  <2> QED
    BY <1>2, <2>1, <2>2 DEF CardOK, Month
<1>3. CASE \/ \E r \in Requests : SubmitRequest(r) \/ ReviewRequest(r)
           \/ \E d \in departments : RemoveDepartment(d)
  BY <1>2, <1>3 DEF SubmitRequest, ReviewRequest, RemoveDepartment, Reorganise
<1>4. CASE Midnight
  <2>1. today' = today + 1 /\ updated' = updated /\ report' = report
    BY <1>4 DEF Midnight
  <2>2. Month(today)' \in Nat /\ Month(today) <= Month(today)'
    <3>1. Month(today + 1) \in Nat /\ Month(today) <= Month(today + 1)
      BY <1>1, MonthType
    <3> QED
      BY <2>1, <3>1 DEF Month
  <2>3. 0 .. Month(today) \subseteq 0 .. Month(today)'
    BY <1>1, <2>2
  <2> QED
    BY <2>1, <2>3 DEF CardOK
<1>5. CASE StartReport \/ CountPending \/ CountApproved
  <2>1. updated' = updated /\ Month(today)' = Month(today)
    BY <1>5 DEF StartReport, CountPending, CountApproved, Count, Month
  <2> DEFINE R == [todo : SUBSET {"pending", "approved"}, month : 0 .. Month(today),
                   pending : SUBSET Requests, approved : SUBSET Requests, written : SUBSET Requests]
  <2>2. ASSUME StartReport PROVE report' \in R
    <3>1. report' = [todo |-> {"pending", "approved"}, month |-> Month(today),
                     pending |-> {}, approved |-> {}, written |-> {}]
      BY <2>2 DEF StartReport, NoReport
    <3> QED
      BY <1>1, <3>1
  <2>3. ASSUME NEW h \in {"pending", "approved"}, NEW rs \in SUBSET Requests, Count(h, rs)
        PROVE  report' \in R
    <3>1. report \in R
      BY DEF CardOK
    <3> QED
      BY <2>3, <3>1 DEF Count
  <2>4. PendingRequests \in SUBSET Requests /\ ApprovedSince(report.month) \in SUBSET Requests
    BY DEF PendingRequests, ApprovedSince, Approved
  <2>5. report' \in R
    BY <1>5, <2>2, <2>3, <2>4 DEF CountPending, CountApproved
  <2> QED
    BY <2>1, <2>5 DEF CardOK
<1>6. CASE \E u \in Users : Offboard(u) \/ \E d \in departments \cup {NoDept} : MoveUser(u, d)
  BY <1>6 DEF Offboard, MoveUser, Reorganise, CardOK, Month
<1> QED
  BY <1>3, <1>4, <1>5, <1>6 DEF NextDashboards

-----------------------------------------------------------------------------
LEMMA TypedInit == InitDashboards => Typed
<1> SUFFICES ASSUME InitDashboards PROVE Typed
  OBVIOUS
<1>1. TypeOK
  BY DEF InitDashboards, Init, TypeOK, LedgerStates
<1>2. OrgOK
  BY ConstantsAssumption DEF InitDashboards, OrgOK
<1>3. \A s \in Statuses : s # "Absent"
  BY DEF Statuses, InReview, Terminal
<1>4. NoForm \in Forms /\ NoForm.from <= NoForm.to
  BY DEF Forms, NoForm
<1>5. FormOK
  BY <1>3, <1>4 DEF InitDashboards, Init, FormOK
<1>6. 0 \in 0 .. Month(today)
  BY MonthType DEF InitDashboards
<1>7. CardOK
  BY <1>6 DEF InitDashboards, CardOK, NoReport
<1> QED
  BY <1>1, <1>2, <1>5, <1>7 DEF Typed

LEMMA TypedNext == Typed /\ TypeOK' /\ [NextDashboards]_allVars => Typed'
<1> SUFFICES ASSUME Typed, TypeOK', [NextDashboards]_allVars PROVE Typed'
  OBVIOUS
<1>1. CASE NextDashboards
  BY <1>1, OrgStep, FormStep, CardStep DEF Typed
<1>2. CASE UNCHANGED allVars
  <2>1. OrgOK'
    BY <1>2 DEF Typed, OrgOK, allVars, card
  <2>2. FormOK'
    BY <1>2 DEF Typed, FormOK, allVars, card
  <2>3. CardOK'
    BY <1>2 DEF Typed, CardOK, allVars, card, Month
  <2> QED
    BY <2>1, <2>2, <2>3 DEF Typed
<1> QED
  BY <1>1, <1>2

LEMMA TypedCorrect == SpecDashboards => []Typed
<1>1. Inv => TypeOK
  BY DEF Inv
<1> QED
  BY <1>1, RequestsKeep, TypedInit, TypedNext, PTL DEF SpecDashboards

\* A request has dates and a department while it exists, and the department
\* is one that is still there, whatever is reorganised.
THEOREM DashboardsTypeCorrect == SpecDashboards => []DashboardsTypeOK
<1>1. Typed => DashboardsTypeOK
  BY DEF Typed, OrgOK, FormOK, CardOK, DashboardsTypeOK
<1> QED
  BY <1>1, TypedCorrect, PTL

-----------------------------------------------------------------------------
(* Absences. *)

\* Approved leave belongs to a department that is there.
LEMMA ApprovedHome ==
  ASSUME Typed, NEW r \in Approved
  PROVE  /\ form[r].home \in departments /\ form[r].home # NoDept
         /\ form[r].from \in Nat /\ form[r].to \in Nat /\ form[r].from <= form[r].to
<1>1. r \in Requests /\ status[r] \in Statuses /\ form[r] \in Forms
  BY DEF Approved, Statuses, Terminal, Typed, FormOK
<1>2. form[r].from \in Nat /\ form[r].to \in Nat
  BY <1>1, FormDays
<1>3. NoDept \notin departments
  BY ConstantsAssumption DEF Typed, OrgOK
<1> QED
  BY <1>1, <1>2, <1>3 DEF Typed, FormOK

\* The calendar of a month shows all leave that goes on during one of its days.
LEMMA CalendarShows ==
  ASSUME Typed, NEW r \in OutRequests, NEW scope \in {NoDept, form[r].home}
  PROVE  r \in Calendar(scope, Month(today))
<1>1. r \in Approved /\ form[r].from <= today /\ today <= form[r].to
  BY DEF OutRequests
<1>2. form[r].from \in Nat /\ form[r].to \in Nat
  BY <1>1, ApprovedHome
<1>3. today \in Nat /\ MonthLength \in Nat
  BY ConstantsAssumption DEF Typed, OrgOK
<1> DEFINE first == Month(today) * MonthLength
           last == first + MonthLength - 1
<1>4. first \in Nat /\ last \in Int /\ first <= today /\ today <= last
  BY <1>3, MonthType
<1> HIDE DEF first, last
<1>5. \/ form[r].from \in first .. last
      \/ form[r].to \in first .. last
      \/ form[r].from <= first /\ form[r].to > last
  BY <1>1, <1>2, <1>3, <1>4
<1>6. r \in Requests /\ status[r] \in Open /\ InScopeOf(scope, form[r].home)
  BY <1>1 DEF Approved, Open, InScopeOf
<1> QED
  BY <1>5, <1>6 DEF Calendar, first, last

\* Four queries with filters of their own agree on who is away today.
THEOREM CardsAgreeOnAbsences == SpecDashboards => []AbsencesAgree
<1>1. Typed => AbsencesAgree
  <2> SUFFICES ASSUME Typed PROVE AbsencesAgree
    OBVIOUS
  <2>1. \A r \in OutRequests : form[r].home \in departments /\ form[r].home # NoDept
    BY ApprovedHome DEF OutRequests
  <2>2. OutToday = UNION {AbsentIn(d) : d \in departments}
    BY <2>1 DEF OutToday, AbsentIn
  <2>3. NoDept \notin departments
    BY ConstantsAssumption DEF Typed, OrgOK
  <2>4. OnLeave(NoDept) = UNION {OnLeave(d) : d \in departments}
    BY <2>1, <2>3 DEF OnLeave, InScopeOf
  <2>5. \A r \in OutRequests :
          r \in Calendar(NoDept, Month(today)) \cap Calendar(form[r].home, Month(today))
    BY CalendarShows
  <2> QED
    BY <2>2, <2>3, <2>4, <2>5 DEF AbsencesAgree
<1> QED
  BY <1>1, TypedCorrect, PTL

\* No approved absence begins unannounced, and none is taken off the card
\* before it begins.
THEOREM UpcomingAnnounces == SpecDashboards => AbsencesAreAnnounced
<1>1. Typed => [Midnight => /\ OutRequests' \subseteq OutRequests \cup Upcoming
                            /\ Upcoming \subseteq Upcoming' \cup OutRequests']_allVars
  <2> SUFFICES ASSUME Typed, Midnight
               PROVE  /\ OutRequests' \subseteq OutRequests \cup Upcoming
                      /\ Upcoming \subseteq Upcoming' \cup OutRequests'
    OBVIOUS
  <2>1. today \in Nat /\ today' = today + 1 /\ Approved' = Approved /\ form' = form
    BY ConstantsAssumption DEF Typed, OrgOK, Midnight, Approved
  <2>2. \A r \in Approved :
          form[r].from \in Nat /\ form[r].to \in Nat /\ form[r].from <= form[r].to
    BY ApprovedHome
  <2>3. OutRequests' \subseteq OutRequests \cup Upcoming
    BY <2>1, <2>2 DEF OutRequests, Upcoming
  <2>4. Upcoming \subseteq Upcoming' \cup OutRequests'
    BY <2>1, <2>2 DEF OutRequests, Upcoming
  <2> QED
    BY <2>3, <2>4
<1> QED
  BY <1>1, TypedCorrect, PTL DEF AbsencesAreAnnounced

-----------------------------------------------------------------------------
(* Conflicts. *)

\* Requests away on a day that belong to as many people are as many people.
LEMMA AsManyPeople ==
  ASSUME Typed, NEW d \in departments, NoDoubleLeave(d), NEW day \in Nat
  PROVE  Cardinality(Away(d, day)) = Cardinality(PeopleAway(d, day))
<1> DEFINE S == Away(d, day)
           T == PeopleAway(d, day)
           f == [r \in S |-> form[r].owner]
<1>1. IsFiniteSet(S)
  BY FS_Subset, ConstantsAssumption DEF Away, Approved
<1>2. \A r \in S : /\ r \in Approved /\ form[r].home = d
                   /\ form[r].from <= day /\ day <= form[r].to
                   /\ form[r].from \in Nat /\ form[r].to \in Nat
  BY ApprovedHome DEF Away
<1>3. \A r, q \in S : f[r] = f[q] => r = q
  <2> SUFFICES ASSUME NEW r \in S, NEW q \in S, form[r].owner = form[q].owner, r # q PROVE FALSE
    OBVIOUS
  <2>1. form[r].to < form[q].from \/ form[q].to < form[r].from
    BY <1>2 DEF NoDoubleLeave
  <2> QED
    BY <1>2, <2>1
<1>4. T = {f[r] : r \in S}
  BY DEF PeopleAway
<1> HIDE DEF S, T
<1>5. f \in Bijection(S, T)
  BY <1>3, <1>4 DEF Bijection, Injection, Surjection, IsInjective
<1> HIDE DEF f
<1>6. ExistsBijection(S, T)
  BY <1>5 DEF ExistsBijection
<1> QED
  BY <1>1, <1>6, FS_Bijection DEF S, T

\* Who is away on one of the days the scan looks at is on one of two cards.
LEMMA AwayIsShown ==
  ASSUME Typed, NEW d \in departments, NEW day \in today .. today + 7
  PROVE  Away(d, day) \subseteq {r \in OutRequests \cup Upcoming : form[r].home = d}
<1>1. today \in Nat
  BY ConstantsAssumption DEF Typed, OrgOK
<1>2. ASSUME NEW r \in Away(d, day) PROVE r \in OutRequests \cup Upcoming /\ form[r].home = d
  <2>1. /\ r \in Approved /\ form[r].home = d /\ form[r].from <= day /\ day <= form[r].to
        /\ form[r].from \in Nat /\ form[r].to \in Nat
    BY <1>1, <1>2, ApprovedHome DEF Away
  <2>2. form[r].from <= today \/ (today + 1 <= form[r].from /\ form[r].from <= today + 7)
    BY <1>1, <2>1
  <2>3. today <= form[r].to
    BY <1>1, <2>1
  <2> QED
    BY <2>1, <2>2, <2>3 DEF OutRequests, Upcoming
<1> QED
  BY <1>2

\* A department is only counted while it is there.
LEMMA SizeType ==
  ASSUME NEW d \in Departments
  PROVE  DepartmentSize(d) \in Nat
<1>1. IsFiniteSet({u \in Users : dept[u] = d})
  BY FS_Subset, ConstantsAssumption
<1>2. Cardinality({u \in Users : dept[u] = d}) \in Nat /\ Colleagues[d] \in Nat
  BY <1>1, FS_CardinalityType, ConstantsAssumption
<1> QED
  BY <1>2 DEF DepartmentSize

\* Where nobody is on leave twice, the card of conflicts finds the departments
\* of which more than a fifth are away, and other cards show who they are.
THEOREM ConflictsAreRight == SpecDashboards => []ConflictsCountPeople
<1>1. Typed => ConflictsCountPeople
  <2> SUFFICES ASSUME Typed PROVE ConflictsCountPeople
    OBVIOUS
  <2>1. today \in Nat /\ departments \subseteq Departments
    BY ConstantsAssumption DEF Typed, OrgOK
  <2>2. ASSUME NEW d \in departments, NoDoubleLeave(d)
        PROVE  d \in Conflicts <=> \E day \in today .. today + 7 :
                 Working(day) /\ Breaches(Cardinality(PeopleAway(d, day)), d)
    <3>1. \A day \in today .. today + 7 :
            Cardinality(Away(d, day)) = Cardinality(PeopleAway(d, day))
      BY <2>1, <2>2, AsManyPeople
    <3> QED
      BY <3>1 DEF Conflicts, TooMany
  <2>3. ASSUME NEW d \in Conflicts
        PROVE  Breaches(Cardinality({r \in OutRequests \cup Upcoming : form[r].home = d}), d)
    <3>1. PICK day \in today .. today + 7 : Breaches(Cardinality(Away(d, day)), d)
      BY <2>3 DEF Conflicts, TooMany
    <3> DEFINE shown == {r \in OutRequests \cup Upcoming : form[r].home = d}
    <3>2. d \in departments
      BY DEF Conflicts
    <3>3. Away(d, day) \subseteq shown
      BY <3>2, AwayIsShown
    <3>4. IsFiniteSet(shown)
      BY FS_Subset, ConstantsAssumption DEF OutRequests, Upcoming, Approved
    <3> HIDE DEF shown
    <3>5. /\ IsFiniteSet(Away(d, day)) /\ Cardinality(Away(d, day)) <= Cardinality(shown)
      BY <3>3, <3>4, FS_Subset
    <3>6. Cardinality(Away(d, day)) \in Nat /\ Cardinality(shown) \in Nat
      BY <3>4, <3>5, FS_CardinalityType
    <3>7. DepartmentSize(d) \in Nat
      BY <2>1, <3>2, SizeType
    <3>8. Breaches(Cardinality(shown), d)
      BY <3>1, <3>5, <3>6, <3>7 DEF Breaches
    <3> QED
      BY <3>8 DEF shown
  <2> QED
    BY <2>2, <2>3 DEF ConflictsCountPeople
<1> QED
  BY <1>1, TypedCorrect, PTL

-----------------------------------------------------------------------------
(* The stats card. *)

\* What has been counted is still right of the requests that were not written
\* since: at the first count none has been, and a write only adds to them.
Counted ==
  \A r \in Requests \ report.written :
    /\ "pending" \notin report.todo => (r \in report.pending <=> status[r] \in InReview)
    /\ "approved" \notin report.todo =>
         (r \in report.approved <=> status[r] = "APPROVED" /\ updated[r] >= report.month)

CardInv == Typed /\ Counted

\* A step that writes the requests rs.
LEMMA WriteKeeps ==
  ASSUME CardInv, NEW rs \in SUBSET Requests, Touch(rs),
         \A r \in Requests \ rs : status'[r] = status[r]
  PROVE  Counted'
<1>1. /\ report'.todo = report.todo /\ report'.month = report.month
      /\ report'.pending = report.pending /\ report'.approved = report.approved
      /\ report'.written = report.written \cup rs
      /\ \A r \in Requests \ rs : updated'[r] = updated[r]
  BY DEF Touch, CardInv, Typed, CardOK
<1> QED
  BY <1>1 DEF CardInv, Counted

LEMMA WriteStep ==
  ASSUME CardInv,
         \/ \E r \in Requests : SubmitRequest(r) \/ ReviewRequest(r)
         \/ \E d \in departments : RemoveDepartment(d)
  PROVE  Counted'
<1>1. ASSUME NEW r \in Requests, SubmitRequest(r) PROVE Counted'
  <2>1. PICK k \in InReview : status' = [status EXCEPT ![r] = k]
    BY <1>1 DEF SubmitRequest, Submit, Move
  <2>2. \A q \in Requests \ {r} : status'[q] = status[q]
    BY <2>1 DEF CardInv, Typed, TypeOK
  <2> QED
    BY <1>1, <2>2, WriteKeeps DEF SubmitRequest
<1>2. ASSUME NEW r \in Requests, ReviewRequest(r) PROVE Counted'
  <2>1. \A q \in Requests \ {r} : status'[q] = status[q]
    BY <1>2, ReviewStatus DEF CardInv, Typed
  <2> QED
    BY <1>2, <2>1, WriteKeeps DEF ReviewRequest
<1>3. ASSUME NEW d \in departments, RemoveDepartment(d) PROVE Counted'
  <2> DEFINE gone == {r \in Requests : status[r] \in Statuses /\ form[r].home = d}
  <2>1. /\ status' = [r \in Requests |-> IF r \in gone THEN "Deleted" ELSE status[r]]
        /\ Touch(gone)
    BY <1>3 DEF RemoveDepartment, Delete
  <2>2. gone \in SUBSET Requests
    OBVIOUS
  <2> HIDE DEF gone
  <2> QED
    BY <2>1, <2>2, WriteKeeps
<1> QED
  BY <1>1, <1>2, <1>3

\* The counts themselves.
LEMMA CountStep ==
  ASSUME CardInv, StartReport \/ CountPending \/ CountApproved
  PROVE  Counted'
<1>1. UNCHANGED <<status, updated>>
  BY DEF StartReport, CountPending, CountApproved, Count
<1>2. CASE StartReport
  <2>1. report'.todo = {"pending", "approved"}
    BY <1>2 DEF StartReport, NoReport
  <2> QED
    BY <2>1 DEF Counted
<1>3. CASE CountPending
  <2>1. /\ report'.pending = PendingRequests /\ report'.approved = report.approved
        /\ report'.month = report.month /\ report'.todo = report.todo \ {"pending"}
        /\ report'.written = report.written \/ report'.todo = {"approved"}
    BY <1>3 DEF CountPending, Count, CardInv, Typed, CardOK
  <2>2. \A r \in Requests : r \in report'.pending <=> status'[r] \in InReview
    BY <1>1, <2>1 DEF PendingRequests
  <2>3. ASSUME NEW r \in Requests \ report'.written, "approved" \notin report'.todo
        PROVE  r \in report'.approved <=> status'[r] = "APPROVED" /\ updated'[r] >= report'.month
    <3>1. r \in Requests \ report.written /\ "approved" \notin report.todo
      BY <2>1, <2>3
    <3> QED
      BY <1>1, <2>1, <3>1 DEF CardInv, Counted
  <2> QED
    BY <2>2, <2>3 DEF Counted
<1>4. CASE CountApproved
  <2>1. /\ report'.approved = ApprovedSince(report.month) /\ report'.pending = report.pending
        /\ report'.month = report.month /\ report'.todo = report.todo \ {"approved"}
        /\ report'.written = report.written \/ report'.todo = {"pending"}
    BY <1>4 DEF CountApproved, Count, CardInv, Typed, CardOK
  <2>2. \A r \in Requests : r \in report'.approved <=>
          status'[r] = "APPROVED" /\ updated'[r] >= report'.month
    BY <1>1, <2>1 DEF ApprovedSince, Approved
  <2>3. ASSUME NEW r \in Requests \ report'.written, "pending" \notin report'.todo
        PROVE  r \in report'.pending <=> status'[r] \in InReview
    <3>1. r \in Requests \ report.written /\ "pending" \notin report.todo
      BY <2>1, <2>3
    <3> QED
      BY <1>1, <2>1, <3>1 DEF CardInv, Counted
  <2> QED
    BY <2>2, <2>3 DEF Counted
<1> QED
  BY <1>2, <1>3, <1>4

LEMMA CardNext == CardInv /\ TypeOK' /\ [NextDashboards]_allVars => CardInv'
<1> SUFFICES ASSUME CardInv, TypeOK', [NextDashboards]_allVars PROVE CardInv'
  OBVIOUS
<1>1. Typed'
  BY TypedNext DEF CardInv
<1>2. CASE \/ \E u \in Users : Offboard(u) \/ \E d \in departments \cup {NoDept} : MoveUser(u, d)
           \/ Midnight \/ UNCHANGED allVars
  <2>1. UNCHANGED <<status, updated, report>>
    BY <1>2 DEF Offboard, MoveUser, Reorganise, Midnight, allVars, card
  <2>2. Counted'
    BY <2>1 DEF CardInv, Counted
  <2> QED
    BY <1>1, <2>2 DEF CardInv
<1> QED
  BY <1>1, <1>2, WriteStep, CountStep DEF NextDashboards, CardInv

LEMMA CardInit == InitDashboards => CardInv
<1> SUFFICES ASSUME InitDashboards PROVE CardInv
  OBVIOUS
<1>1. Counted
  BY DEF InitDashboards, Init, NoReport, Counted, InReview
<1> QED
  BY <1>1, TypedInit DEF CardInv

\* A complete stats card counts each request that was not written since its
\* first count under the one heading it belongs to, and the trend's last
\* point counts the approvals of this month.
THEOREM CardCounts == SpecDashboards => []CardCountsOnce
<1>1. CardInv => CardCountsOnce
  <2> SUFFICES ASSUME CardInv PROVE CardCountsOnce
    OBVIOUS
  <2>1. report.todo = {} => \A r \in Requests \ report.written :
          /\ r \in report.pending <=> r \in PendingRequests
          /\ r \in report.approved <=> r \in ApprovedSince(report.month)
    BY DEF CardInv, Counted, PendingRequests, ApprovedSince, Approved
  <2>2. ApprovedSince(Month(today)) = TrendApproved(Month(today))
    <3>1. Month(today) \in Nat
      BY MonthType, ConstantsAssumption DEF CardInv, Typed, OrgOK
    <3> QED
      BY <3>1 DEF ApprovedSince, TrendApproved, Approved, CardInv, Typed, CardOK
  <2> QED
    BY <2>1, <2>2 DEF CardCountsOnce
<1> QED
  <2>1. Inv => TypeOK
    BY DEF Inv
  <2> QED
    BY <1>1, <2>1, RequestsKeep, CardInit, CardNext, PTL DEF SpecDashboards
==============================================================================
