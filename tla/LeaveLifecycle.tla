--------------------------- MODULE LeaveLifecycle ---------------------------
(***************************************************************************)
(* What the leave-request service promises its users, with every command a *)
(* single atomic step: a request moves along                               *)
(*   PENDING -> TEAM_LEAD_COMMENTED -> DEPT_APPROVED -> APPROVED,          *)
(* may be rejected or cancelled on the way, and its row of the balance     *)
(* ledger follows: reserved while it is under review, deducted once it is  *)
(* approved, given back otherwise.  LeaveRequestWorkflow is the detailed   *)
(* system that is compared with this one.                                  *)
(***************************************************************************)
EXTENDS LeaveRouting

CONSTANT Requests

VARIABLES
  status,   \* status column of each request; "Absent" before, "Deleted" after
  ledger    \* its ledger row: "none", "pending" (isPending) or "confirmed"

vars == <<status, ledger>>

LedgerStates == {"none", "pending", "confirmed"}

TypeOK == /\ status \in [Requests -> Statuses \cup {"Absent", "Deleted"}]
          /\ ledger \in [Requests -> LedgerStates]

Init == /\ status = [r \in Requests |-> "Absent"]
        /\ ledger = [r \in Requests |-> "none"]

Move(r, from, to, row) ==
  /\ status[r] \in from
  /\ status' = [status EXCEPT ![r] = to]
  /\ ledger' = [ledger EXCEPT ![r] = row]

Submit(r)  == \E s \in InReview : Move(r, {"Absent"}, s, "pending")
Comment(r) == Move(r, {"PENDING"}, "TEAM_LEAD_COMMENTED", "pending")
Endorse(r) == Move(r, {"TEAM_LEAD_COMMENTED"}, "DEPT_APPROVED", "pending")
Approve(r) == Move(r, {"DEPT_APPROVED"}, "APPROVED", "confirmed")
Reject(r)  == Move(r, {"TEAM_LEAD_COMMENTED", "DEPT_APPROVED"}, "REJECTED", "none")
Cancel(r)  == Move(r, InReview, "CANCELLED", "none")

\* Removing a department deletes its requests and their ledger rows.
Delete(gone) ==
  /\ \A r \in gone : status[r] \in Statuses
  /\ status' = [r \in Requests |-> IF r \in gone THEN "Deleted" ELSE status[r]]
  /\ ledger' = [r \in Requests |-> IF r \in gone THEN "none" ELSE ledger[r]]

Next == \/ \E r \in Requests : \/ Submit(r)  \/ Comment(r) \/ Endorse(r)
                               \/ Approve(r) \/ Reject(r)  \/ Cancel(r)
        \/ \E gone \in SUBSET Requests : Delete(gone)

Spec == Init /\ [][Next]_vars

-----------------------------------------------------------------------------
\* The ledger row a status calls for.
RowFor(st) == IF st \in InReview THEN "pending"
              ELSE IF st = "APPROVED" THEN "confirmed" ELSE "none"

\* The balance always agrees with the decision: days are held exactly while
\* the request is under review, taken exactly when it stands approved.
LedgerMatchesStatus == \A r \in Requests : ledger[r] = RowFor(status[r])

\* A decision is final: nothing but its department's deletion changes a
\* request that was approved, rejected or cancelled.
DecisionIsFinal ==
  [][\A r \in Requests : status[r] \in Terminal
                           => status'[r] \in {status[r], "Deleted"}]_vars
=============================================================================
