---------------------------- MODULE LeaveBalance ----------------------------
(***************************************************************************)
(* The balance of one employee under one leave policy.  It is nowhere      *)
(* stored: every reader sums the rows of leave_balance_ledger.  Credits    *)
(* and expiries count from the day they are written, so their sums stand   *)
(* for their rows; the row of a leave request is pending until the request *)
(* is decided, and counts from the first day of the leave.                 *)
(*                                                                         *)
(* Reservations (one transaction: sum, then insert) and the scheduler's    *)
(* jobs (sum, then one or two inserts, in no transaction) do not lock what *)
(* they summed, and the balance page asks for three sums one after the     *)
(* other.  Requests and their rows may be deleted meanwhile, with their    *)
(* department or with the policy.  Amounts are numbers of half days, dates *)
(* are naturals.                                                           *)
(***************************************************************************)
EXTENDS Integers, FiniteSets, FiniteSetsExt

CONSTANTS
  Requests,     \* leave requests of this employee under this policy
  Workers,      \* jobs that may run at once
  Policies,     \* the policies to consider
  DaySizes,     \* lengths a request may have (0: a weekend)
  LastDay,      \* bound on the calendar
  MaxRuns,      \* bound on the number of job runs and views of the page
  Production    \* NODE_ENV = production: no development seed

AccrualKinds == {"Monthly", "Yearly", "OneTime", "Manual"}
CarryOvers   == {"None", "Full", "Limited", "NA"}

ASSUME ConstantsAssumption ==
  /\ IsFiniteSet(Requests)
  /\ Policies \subseteq [accrual : AccrualKinds, accrualRate : Nat, maxBalance : Nat,
                         carryOver : CarryOvers, carryOverLimit : Nat]
  /\ DaySizes \subseteq Nat /\ LastDay \in Nat /\ MaxRuns \in Nat
  /\ Production \in BOOLEAN

Dates == 0 .. LastDay

VARIABLES
  policy,       \* the row of leave_policies
  removed,      \* was it deleted?
  today,        \* CURDATE()
  credited,     \* sum of ACCRUAL and CARRY_OVER rows
  expired,      \* minus the sum of EXPIRY rows
  row,          \* the ledger row of each request
  job,          \* the scheduler runs in progress
  runs,         \* how many were started, and pages asked for
  overlapped,   \* history: was a request ever checked while another was open?
  page          \* a view of the balance page: the sums it has read

ledger == <<credited, expired, row>>
vars   == <<policy, removed, today, ledger, job, runs, overlapped, page>>

NoRow == [state |-> "absent", days |-> 0, start |-> 0]

\* The request itself was deleted, and does not come again.
Gone == [state |-> "deleted", days |-> 0, start |-> 0]

\* back is history: what removed departments gave back since the job's sum.
NoJob == [pc |-> "idle", amount |-> 0, expire |-> 0, back |-> 0]

\* pc is the query that comes next; most is history: what could be reserved
\* at the first query, with what was given back before the second.
NoPage == [pc |-> "idle", accrued |-> 0, used |-> 0, most |-> 0]

\* A new employee: nothing accrued.
Init ==
  /\ policy \in Policies /\ removed = FALSE
  /\ today = 0
  /\ credited = 0 /\ expired = 0
  /\ row = [r \in Requests |-> NoRow]
  /\ job = [w \in Workers |-> NoJob]
  /\ runs = 0
  /\ overlapped = FALSE
  /\ page = NoPage

-----------------------------------------------------------------------------
(* Sums over the ledger. *)

SumDays(S) == MapThenSumSet(LAMBDA r : row[r].days, S)

Pending   == {r \in Requests : row[r].state = "pending"}
Confirmed == {r \in Requests : row[r].state = "confirmed"}
Effective == {r \in Confirmed : row[r].start <= today}

\* getUsableBalance, and the query of every scheduler job: rows that are not
\* pending and whose date has come.
Usable == credited - expired - SumDays(Effective)

-----------------------------------------------------------------------------
(* The leave requests: LeaveBalanceService inside the command transactions. *)

Open(r) == \/ row[r].state \in {"reserving", "pending"}
           \/ row[r].state = "confirmed" /\ row[r].start > today

Check(r, days, start) ==
  /\ ~removed
  /\ row[r].state = "absent"
  /\ row' = [row EXCEPT ![r] = [state |-> "reserving", days |-> days, start |-> start]]
  /\ overlapped' = (overlapped \/ \E q \in Requests \ {r} : Open(q))
  /\ UNCHANGED <<policy, removed, today, credited, expired, job, runs, page>>

\* Variant: any positive balance is enough.
BeginReserveIfAny(r, days, start) == Usable > 0 /\ Check(r, days, start)

\* reserve sums and compares ...
BeginReserve(r, days, start) == Usable >= days /\ Check(r, days, start)

SetState(r, from, to) ==
  /\ row[r].state = from
  /\ row' = [row EXCEPT ![r] = IF to = "absent" THEN NoRow ELSE [@ EXCEPT !.state = to]]
  /\ UNCHANGED <<policy, removed, today, credited, expired, job, runs, overlapped, page>>

\* ... and then inserts the pending row, unless the transaction fails.
FinishReserve(r) == SetState(r, "reserving", "pending")
AbortReserve(r)  == SetState(r, "reserving", "absent")

Confirm(r) == SetState(r, "pending", "confirmed")
Release(r) == SetState(r, "pending", "absent")

\* Requests are deleted with the department they were made in, and their
\* ledger rows with them, whatever their state; a reservation that is still
\* open holds the department's row.
RemoveDepartment(gone) ==
  LET given == SumDays(gone \cap Effective) IN
  /\ gone # {} /\ \A r \in gone : row[r].state \in {"pending", "confirmed"}
  /\ row' = [r \in Requests |-> IF r \in gone THEN Gone ELSE row[r]]
  /\ job' = [w \in Workers |->
       IF job[w].pc = "idle" THEN job[w] ELSE [job[w] EXCEPT !.back = @ + given]]
  /\ page' = IF page.pc = "used" THEN [page EXCEPT !.most = @ + given] ELSE page
  /\ UNCHANGED <<policy, removed, today, credited, expired, runs, overlapped>>

\* With the policy go its requests and all its ledger rows: what is then
\* inserted for it fails on its foreign key.
RemovePolicy ==
  /\ ~removed /\ \A r \in Requests : row[r].state # "reserving"
  /\ removed' = TRUE
  /\ credited' = 0 /\ expired' = 0
  /\ row' = [r \in Requests |-> Gone]
  /\ UNCHANGED <<policy, today, job, runs, overlapped, page>>

-----------------------------------------------------------------------------
(* The scheduler's jobs, for this employee and policy. *)

Begin(w, j) ==
  /\ ~removed /\ job[w].pc = "idle" /\ runs < MaxRuns
  /\ job' = [job EXCEPT ![w] = j]
  /\ runs' = runs + 1
  /\ UNCHANGED <<policy, removed, today, ledger, overlapped, page>>

\* Variant: the credit is not cut at the maximum.
WholeCredit(seen) == policy.accrualRate

Credit(seen) == Min({policy.accrualRate, policy.maxBalance - seen})

\* runMonthlyAccruals and runYearlyAccruals, for a policy of that kind.
BeginAccrual(w) ==
  /\ policy.accrual \in {"Monthly", "Yearly"}
  /\ Usable < policy.maxBalance
  /\ Credit(Usable) > 0
  /\ Begin(w, [pc |-> "credit", amount |-> Credit(Usable), expire |-> 0, back |-> 0])

\* runDevSeedAccruals: compares with the rate of the policy, not its maximum.
BeginDevSeed(w) ==
  /\ ~Production
  /\ policy.accrual \in {"Yearly", "OneTime"}
  /\ Usable < policy.accrualRate
  /\ Credit(Usable) > 0
  /\ Begin(w, [pc |-> "credit", amount |-> Credit(Usable), expire |-> 0, back |-> 0])

\* Variant: the limit is carried over even when less is left.
CarriedLimit(unused) ==
  CASE policy.carryOver = "Full"    -> unused
    [] policy.carryOver = "Limited" -> policy.carryOverLimit
    [] OTHER                        -> 0

Carried(unused) ==
  CASE policy.carryOver = "Full"    -> unused
    [] policy.carryOver = "Limited" -> Min({unused, policy.carryOverLimit})
    [] OTHER                        -> 0

Expiring(unused) ==
  IF policy.carryOver \in {"None", "Limited"} THEN unused - Carried(unused) ELSE 0

\* runYearEndCarryOver: one sum, then up to two inserts, the carry-over first.
BeginCarryOver(w) ==
  /\ policy.carryOver # "NA"
  /\ Usable > 0
  /\ Begin(w, [pc |-> IF Carried(Usable) > 0 THEN "carry" ELSE "expire",
               amount |-> Carried(Usable), expire |-> Expiring(Usable), back |-> 0])

InsertCredit(w) ==
  /\ ~removed /\ job[w].pc \in {"credit", "carry"}
  /\ credited' = credited + job[w].amount
  /\ job' = [job EXCEPT ![w] =
       IF @.expire > 0 THEN [@ EXCEPT !.pc = "expire", !.amount = 0] ELSE NoJob]
  /\ UNCHANGED <<policy, removed, today, expired, row, runs, overlapped, page>>

InsertExpiry(w) ==
  /\ ~removed /\ job[w].pc = "expire"
  /\ expired' = expired + job[w].expire
  /\ job' = [job EXCEPT ![w] = NoJob]
  /\ UNCHANGED <<policy, removed, today, credited, row, runs, overlapped, page>>

\* A failed insert is logged and the employee is skipped; a crash is the same.
JobFails(w) ==
  /\ job[w].pc # "idle"
  /\ job' = [job EXCEPT ![w] = NoJob]
  /\ UNCHANGED <<policy, removed, today, ledger, runs, overlapped, page>>

Tick ==
  /\ today < LastDay
  /\ today' = today + 1
  /\ UNCHANGED <<policy, removed, ledger, job, runs, overlapped, page>>

-----------------------------------------------------------------------------
(* The balance page: getMyLeaveBalances, for this policy.  Three awaited    *)
(* sums, in no transaction.                                                 *)

ReadPage(from, p) ==
  /\ page.pc = from
  /\ page' = p
  /\ UNCHANGED <<policy, removed, today, ledger, job, overlapped>>

\* The credits, all of which count from the day they were written.
ReadAccrued ==
  /\ ~removed /\ page.pc = "idle" /\ runs < MaxRuns
  /\ runs' = runs + 1
  /\ ReadPage("idle", [NoPage EXCEPT !.pc = "used", !.accrued = credited, !.most = Usable])

\* Variant: expiries are not debits.
UsedWithoutExpiries == SumDays(Confirmed)

\* The debits that are not pending, of any date.
Used == expired + SumDays(Confirmed)

ReadUsed ==
  /\ ReadPage("used", [page EXCEPT !.pc = "pending", !.used = Used])
  /\ UNCHANGED runs

\* What is shown, once the reservations have been read as well.
Remaining == Max({page.accrued - page.used - SumDays(Pending), 0})

ReadPending ==
  /\ ReadPage("pending", NoPage)
  /\ UNCHANGED runs

-----------------------------------------------------------------------------
Next ==
  \/ \E r \in Requests :
       \/ \E days \in DaySizes, start \in Dates : BeginReserve(r, days, start)
       \/ FinishReserve(r) \/ AbortReserve(r)
       \/ Confirm(r) \/ Release(r)
  \/ \E gone \in SUBSET Requests : RemoveDepartment(gone)
  \/ RemovePolicy
  \/ \E w \in Workers :
       \/ BeginAccrual(w) \/ BeginDevSeed(w) \/ BeginCarryOver(w)
       \/ InsertCredit(w) \/ InsertExpiry(w) \/ JobFails(w)
  \/ ReadAccrued \/ ReadUsed \/ ReadPending
  \/ Tick

Spec == Init /\ [][Next]_vars

-----------------------------------------------------------------------------
(* Properties. *)

TypeOK ==
  /\ policy \in Policies /\ removed \in BOOLEAN /\ today \in Dates
  /\ credited \in Nat /\ expired \in Nat
  /\ row \in [Requests -> [state : {"absent", "reserving", "pending", "confirmed", "deleted"},
                           days : DaySizes \cup {0}, start : Dates]]
  /\ job \in [Workers -> [pc : {"idle", "credit", "carry", "expire"},
                          amount : Nat, expire : Nat, back : Nat]]
  /\ runs \in 0 .. MaxRuns /\ overlapped \in BOOLEAN
  /\ page \in [pc : {"idle", "used", "pending"}, accrued : Nat, used : Nat, most : Int]

\* An accrual leaves a balance above the policy's maximum only by days that
\* were given back while it ran: requests that are reserved, approved or
\* released, and leave that begins, between its sum and its insert, do not
\* carry it there, but the deductions of a removed department do.  (While
\* jobs do not overlap.)
CreditsKeepToTheMaximum ==
  [][\A w \in Workers :
       job[w].pc = "credit" /\ job'[w] # job[w] /\ credited' # credited
         => Usable' <= policy.maxBalance + job[w].back]_vars

\* A balance is overdrawn only by requests that were open at the same time:
\* an employee whose requests are checked one after the other, each when the
\* leave before it is decided and has begun, never takes a day not accrued
\* (under a policy whose year end takes nothing away).
SettledRequestsAreCovered ==
  ~overlapped /\ policy.carryOver \in {"Full", "NA"} => Usable >= 0

\* However the three sums of the page interleave with requests and jobs, it
\* never shows more than could have been reserved when its first sum was
\* read, days that a removed department gave back before the second apart.
\* (It may be more than can be reserved when the third is read: leave that is
\* approved between the second and the third is in neither.)
ShownWasSpendable ==
  [][ReadPending /\ ~removed => Remaining <= Max({page.most, 0})]_vars

\* create-leave-policy.dto.ts:61, "Max days that can be carried over": a year
\* end leaves no more than the limit in the balance of a Limited policy.
CarryOverWithinLimit ==
  [][\A w \in Workers :
       policy.carryOver = "Limited" /\ job[w].pc = "expire" /\ expired' > expired
         => Usable' <= policy.carryOverLimit]_vars
=============================================================================
