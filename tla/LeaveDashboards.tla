-------------------------- MODULE LeaveDashboards --------------------------
(***************************************************************************)
(* The cards and charts that count leave requests: the dashboard (stats,   *)
(* department conflicts, absences by department, upcoming absences, trend),*)
(* the staffing card of the departments page and the leave calendar.  The  *)
(* requests move as LeaveLifecycle allows; here they also have dates, and  *)
(* the month of their last update.                                         *)
(*                                                                         *)
(* A query is one read, a function of the state, except for the stats      *)
(* card, whose counts are queries of their own (Promise.all) with writes   *)
(* between them; of its five the two that count the same requests are      *)
(* steps.  A day is a number, day 0 a Monday; a month has MonthLength days.*)
(* The server's midnight is that of the stored dates (it runs on UTC).  A  *)
(* request may begin during its first day; when it ends on its last one no *)
(* query tells.  Nobody is ever removed from the users table: colleagues   *)
(* who left count.  Department.isActive is never written and always true.  *)
(***************************************************************************)
EXTENDS LeaveLifecycle, Naturals, FiniteSets, FiniteSetsExt

CONSTANTS
  Users,        \* the users who ask for leave
  Departments,
  NoDept,       \* departmentId null; as a scope, no filter
  InitDept,
  Colleagues,   \* other users of each department
  Spans,        \* first and last day, and whether it begins after midnight
  MonthLength,
  LastDay,      \* bound on the clock
  MaxChanges    \* bound on changes of the organisation

ASSUME ConstantsAssumption ==
  /\ IsFiniteSet(Requests) /\ IsFiniteSet(Users)
  /\ NoDept \notin Departments /\ InitDept \in [Users -> Departments \cup {NoDept}]
  /\ Colleagues \in [Departments -> Nat]
  /\ Spans \subseteq {s \in Nat \X Nat \X BOOLEAN : s[1] <= s[2]}
  /\ MonthLength \in Nat \ {0} /\ LastDay \in Nat /\ MaxChanges \in Nat

VARIABLES
  today,
  dept,         \* users' department
  left,         \* users with offboardedAt set
  departments,  \* rows of the departments table
  form,         \* what each request was submitted with
  updated,      \* month of each request's updatedAt
  report,       \* the stats card being assembled
  changes       \* changes of the organisation so far

card == <<today, dept, left, departments, form, updated, report, changes>>

allVars == <<status, ledger, card>>

Month(d) == d \div MonthLength

Working(d) == d % 7 < 5

NoForm == [owner |-> "none", home |-> NoDept, from |-> 0, to |-> 0, late |-> FALSE]

\* A report keeps what its counts count, and what was written since the first.
NoReport == [todo |-> {}, month |-> 0, pending |-> {}, approved |-> {}, written |-> {}]

Forms ==
  {NoForm} \cup [owner : Users, home : Departments, from : {s[1] : s \in Spans},
                 to : {s[2] : s \in Spans}, late : BOOLEAN]

InitDashboards ==
  /\ Init
  /\ today = 0 /\ dept = InitDept /\ left = {} /\ departments = Departments
  /\ form = [r \in Requests |-> NoForm] /\ updated = [r \in Requests |-> 0]
  /\ report = NoReport /\ changes = 0

-----------------------------------------------------------------------------
(* What happens to the requests, the organisation and the clock.           *)

Touch(rs) ==
  /\ updated' = [r \in Requests |-> IF r \in rs THEN Month(today) ELSE updated[r]]
  /\ report' = [report EXCEPT !.written = @ \cup rs]

\* A request carries the department of its owner.  It may begin in the past,
\* and at a time of day: its dates are stored as they come.
SubmitRequest(r) ==
  /\ Submit(r)
  /\ \E u \in Users, s \in Spans :
       /\ dept[u] # NoDept
       /\ form' = [form EXCEPT ![r] =
            [owner |-> u, home |-> dept[u], from |-> s[1], to |-> s[2], late |-> s[3]]]
  /\ Touch({r})
  /\ UNCHANGED <<today, dept, left, departments, changes>>

ReviewRequest(r) ==
  /\ Comment(r) \/ Endorse(r) \/ Approve(r) \/ Reject(r) \/ Cancel(r)
  /\ Touch({r})
  /\ UNCHANGED <<today, dept, left, departments, form, changes>>

Reorganise ==
  /\ changes < MaxChanges /\ changes' = changes + 1
  /\ UNCHANGED <<today, form>>

MoveUser(u, d) ==
  /\ Reorganise
  /\ u \notin left /\ dept' = [dept EXCEPT ![u] = d]
  /\ UNCHANGED <<status, ledger, left, departments, updated, report>>

Offboard(u) ==
  /\ Reorganise
  /\ u \notin left /\ left' = left \cup {u}
  /\ UNCHANGED <<status, ledger, dept, departments, updated, report>>

\* Variant: the requests of the department stay.
RemoveDepartmentAlone(d) ==
  /\ Reorganise
  /\ departments' = departments \ {d}
  /\ dept' = [u \in Users |-> IF dept[u] = d THEN NoDept ELSE dept[u]]
  /\ UNCHANGED <<status, ledger, left, updated, report>>

\* Its requests go with a department, its users stay.
RemoveDepartment(d) ==
  LET gone == {r \in Requests : status[r] \in Statuses /\ form[r].home = d} IN
  /\ Reorganise
  /\ departments' = departments \ {d}
  /\ dept' = [u \in Users |-> IF dept[u] = d THEN NoDept ELSE dept[u]]
  /\ Delete(gone)
  /\ Touch(gone)
  /\ UNCHANGED left

Midnight ==
  /\ today < LastDay /\ today' = today + 1
  /\ UNCHANGED <<status, ledger, dept, left, departments, form, updated, report, changes>>

-----------------------------------------------------------------------------
(* Absences. *)

Approved == {r \in Requests : status[r] = "APPROVED"}

OutRequests == {r \in Approved : form[r].from <= today /\ today <= form[r].to}

\* The card counts users, not requests.
OutToday == {form[r].owner : r \in OutRequests}

AbsentIn(d) == {form[r].owner : r \in {q \in OutRequests : form[q].home = d}}

\* Variant: the day after tomorrow is the first one shown.
UpcomingLate == {r \in Approved : today + 2 <= form[r].from /\ form[r].from <= today + 7}

Upcoming == {r \in Approved : today + 1 <= form[r].from /\ form[r].from <= today + 7}

InScopeOf(scope, d) == scope \in {NoDept, d}

\* The staffing card, for the tenant or for one department.
OnLeave(scope) == {form[r].owner : r \in {q \in OutRequests : InScopeOf(scope, form[q].home)}} \ left

Open == InReview \cup {"APPROVED"}

\* Variant: only requests that begin or end in the month.
CalendarEnds(scope, m) ==
  LET first == m * MonthLength  last == first + MonthLength - 1 IN
  {r \in Requests : /\ status[r] \in Open /\ InScopeOf(scope, form[r].home)
                    /\ form[r].from \in first .. last \/ form[r].to \in first .. last}

\* The end of the month is its last second, the dates of a request are days.
Calendar(scope, m) ==
  LET first == m * MonthLength  last == first + MonthLength - 1 IN
  {r \in Requests : /\ status[r] \in Open /\ InScopeOf(scope, form[r].home)
                    /\ \/ form[r].from \in first .. last
                       \/ form[r].to \in first .. last
                       \/ form[r].from <= first /\ form[r].to > last}

-----------------------------------------------------------------------------
(* Conflicts: more than a fifth of a department away on a working day.     *)

DepartmentSize(d) ==
  IF d \in departments THEN Colleagues[d] + Cardinality({u \in Users : dept[u] = d}) ELSE 0

\* The approved requests that go on at midnight, when the scan looks at a day.
Away(d, day) ==
  {r \in Approved : /\ form[r].home = d /\ day <= form[r].to
                    /\ form[r].from < day \/ (form[r].from = day /\ ~form[r].late)}

\* off / size > 0.2, in numbers that do not round.
Breaches(off, d) == DepartmentSize(d) > 0 /\ 5 * off > DepartmentSize(d)

\* Variant: a fifth is too many.
TooManyAtFifth(d, day) ==
  Working(day) /\ DepartmentSize(d) > 0 /\ 5 * Cardinality(Away(d, day)) >= DepartmentSize(d)

TooMany(d, day) == Working(day) /\ Breaches(Cardinality(Away(d, day)), d)

\* The card: departments in conflict by what is approved, today to day 7.
Conflicts == {d \in departments : \E day \in today .. today + 7 : TooMany(d, day)}

-----------------------------------------------------------------------------
(* The stats card and the trend.                                           *)

PendingRequests == {r \in Requests : status[r] \in InReview}

\* Variant: whatever is not refused is pending.
PendingIsOpen == {r \in Requests : status[r] \in Open}

ApprovedSince(m) == {r \in Approved : updated[r] >= m}

\* One point of the trend.
TrendApproved(m) == {r \in Approved : updated[r] = m}

StartReport ==
  /\ report.todo = {}
  /\ report' = [NoReport EXCEPT !.todo = {"pending", "approved"}, !.month = Month(today)]
  /\ UNCHANGED <<status, ledger, today, dept, left, departments, form, updated, changes>>

Count(heading, rs) ==
  /\ heading \in report.todo
  /\ report' = [report EXCEPT !.todo = @ \ {heading}, ![heading] = rs,
                              !.written = IF report.todo = {"pending", "approved"} THEN {} ELSE @]
  /\ UNCHANGED <<status, ledger, today, dept, left, departments, form, updated, changes>>

\* Variant: counts the wrong statuses.
CountPendingOpen == Count("pending", PendingIsOpen)

CountPending == Count("pending", PendingRequests)

CountApproved == Count("approved", ApprovedSince(report.month))

NextDashboards ==
  \/ \E r \in Requests : SubmitRequest(r) \/ ReviewRequest(r)
  \/ \E u \in Users : Offboard(u) \/ \E d \in departments \cup {NoDept} : MoveUser(u, d)
  \/ \E d \in departments : RemoveDepartment(d)
  \/ Midnight
  \/ StartReport \/ CountPending \/ CountApproved

SpecDashboards == InitDashboards /\ [][NextDashboards]_allVars

-----------------------------------------------------------------------------
(* Who is away, for the properties. *)

PeopleAway(d, day) == {form[r].owner : r \in Away(d, day)}

\* No two approved requests of one user in the department share a day.
NoDoubleLeave(d) ==
  \A r, q \in {p \in Approved : form[p].home = d} :
    r # q /\ form[r].owner = form[q].owner => form[r].to < form[q].from \/ form[q].to < form[r].from

-----------------------------------------------------------------------------
(* The types of the state, and the fields that belong together: a request  *)
(* has dates and a department from the moment it exists, and its           *)
(* department is one that is there until the request is deleted.           *)
DashboardsTypeOK ==
  /\ TypeOK /\ today \in 0 .. LastDay /\ dept \in [Users -> departments \cup {NoDept}]
  /\ left \subseteq Users /\ departments \subseteq Departments /\ changes \in 0 .. MaxChanges
  /\ form \in [Requests -> Forms] /\ updated \in [Requests -> 0 .. Month(today)]
  /\ report \in [todo : SUBSET {"pending", "approved"}, month : 0 .. Month(today),
                 pending : SUBSET Requests, approved : SUBSET Requests, written : SUBSET Requests]
  /\ \A r \in Requests :
       /\ form[r] = NoForm <=> status[r] = "Absent"
       /\ status[r] \in Statuses => form[r].home \in departments

(* Four queries with their own filters agree on who is away today: the     *)
(* departments' cards find everybody the tenant's card counts, the staffing*)
(* card of the tenant and those of the departments find the same people,   *)
(* also when users moved or left since they asked for leave or their       *)
(* department was removed, and the calendar of their department and of the *)
(* tenant shows the leave of each.                                         *)
AbsencesAgree ==
  /\ OutToday = UNION {AbsentIn(d) : d \in departments}
  /\ OnLeave(NoDept) = UNION {OnLeave(d) : d \in departments}
  /\ \A r \in OutRequests :
       r \in Calendar(NoDept, Month(today)) \cap Calendar(form[r].home, Month(today))

(* An absence is announced: who is away after midnight was away or on the  *)
(* upcoming card the day before, unless the approval came later, and who   *)
(* is on the upcoming card stays there until the leave begins.             *)
AbsencesAreAnnounced ==
  [][Midnight => /\ OutRequests' \subseteq OutRequests \cup Upcoming
                 /\ Upcoming \subseteq Upcoming' \cup OutRequests']_allVars

(* The conflicts card counts requests, not people.  Where nobody holds two *)
(* approved requests for one day it is right all the same: a department is *)
(* in conflict if and only if on a working day of the coming week more than*)
(* a fifth of its people have begun leave by midnight and are not back.    *)
(* And no conflict comes out of nowhere: it is explained by requests that  *)
(* are on the card of today's absences or on the upcoming card.  (A day    *)
(* that has only begun is not by midnight: a department that is breached   *)
(* from this morning on is not on the card.)                               *)
ConflictsCountPeople ==
  /\ \A d \in departments : NoDoubleLeave(d) =>
       (d \in Conflicts <=> \E day \in today .. today + 7 :
                              Working(day) /\ Breaches(Cardinality(PeopleAway(d, day)), d))
  /\ \A d \in Conflicts :
       Breaches(Cardinality({r \in OutRequests \cup Upcoming : form[r].home = d}), d)

(* A card that is complete counts each request that was not written since  *)
(* the first of its counts under the one heading it belongs to: a request  *)
(* under two headings, or under none, was written between the counts.  And *)
(* the approvals of this month are those of the last point of the trend,   *)
(* the two queries bounding the month differently.                         *)
CardCountsOnce ==
  /\ report.todo = {} => \A r \in Requests \ report.written :
       /\ r \in report.pending <=> r \in PendingRequests
       /\ r \in report.approved <=> r \in ApprovedSince(report.month)
  /\ ApprovedSince(Month(today)) = TrendApproved(Month(today))
=============================================================================
