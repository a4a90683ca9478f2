------------------------ MODULE LeaveRequestWorkflow ------------------------
(***************************************************************************)
(* The leave-request commands as the API runs them.  A call (one HTTP      *)
(* request in flight) first reads the row it is about, then looks up the   *)
(* acting user and, for HR, the tenant, then writes in one transaction,    *)
(* then adds a notification job to the queue.  Each of these awaits is a   *)
(* step here, so calls interleave between them.  The writes address the    *)
(* row by id alone: nothing re-checks what the call read before.           *)
(*                                                                         *)
(* One transaction is one step: it locks the request's row and every other *)
(* writer of that request or of its ledger row waits for it.               *)
(* User, department and tenant rows change beside the calls (UpdateUser,   *)
(* SetHrDepartment, RemoveDepartment, RemovePolicy).                       *)
(***************************************************************************)
EXTENDS LeaveRouting, Naturals

CONSTANTS
  Users, Departments, Requests,
  Calls,           \* calls that may be in flight at once
  Commenters,      \* users who write in the comment thread
  NoUser, NoDept, NoRequest,
  InitRole, InitDept, InitHrDept,
  CallsFail,       \* may a call die half-way (crash, lost connection)?
  MaxOrgChanges    \* bound on user, department and tenant updates

ASSUME ConstantsAssumption ==
  /\ NoUser \notin Users /\ NoDept \notin Departments /\ NoRequest \notin Requests
  /\ Commenters \subseteq Users
  /\ InitRole \in [Users -> Roles]
  /\ InitDept \in [Users -> Departments \cup {NoDept}]
  /\ InitHrDept \in Departments \cup {NoDept}
  /\ CallsFail \in BOOLEAN
  /\ MaxOrgChanges \in Nat

VARIABLES
  role, dept,      \* columns of each user
  departments,     \* existing departments
  hrDept,          \* the tenant's hrDepartmentId
  tokens,          \* access tokens each user was issued: role and department
  orgChanges,      \* organisation updates so far
  status,          \* status of each request; "Absent" before, "Deleted" after
  owner, home,     \* its userId and departmentId
  stamp,           \* its approver columns
  comments,        \* its comment thread: <<request, author>>
  ledger,          \* its balance ledger row: "none", "pending", "confirmed"
  jobs,            \* jobs ever added to the queue: <<type, request>>
  call             \* the calls in flight

org    == <<role, dept, departments, hrDept, orgChanges>>
tables == <<status, owner, home, stamp, comments, ledger>>
vars   == <<org, tokens, tables, jobs, call>>

-----------------------------------------------------------------------------
Ops == {"submit", "teamLeadComment", "deptApprove", "hrApprove",
        "reject", "cancel", "addComment"}

\* The controller's @Roles for each command.
AllowedRoles(op) ==
  CASE op \in {"submit", "cancel"}  -> {"EMPLOYEE", "TEAM_LEAD", "DEPT_HEAD", "HR_ADMIN"}
    [] op = "addComment"            -> ApproverRoles
    [] op = "teamLeadComment"       -> {"TEAM_LEAD"}
    [] op = "deptApprove"           -> {"DEPT_HEAD"}
    [] op = "hrApprove"             -> {"HR_ADMIN", "TENANT_ADMIN"}
    [] OTHER                        -> {"DEPT_HEAD", "HR_ADMIN", "TENANT_ADMIN"}

\* A call's local variables.  seen: the role it read or requires; dept: the
\* department it read for its submitter or for an HR actor.
CallRecord ==
  [pc: {"idle", "authorize", "scope", "write", "enqueue"}, op: Ops \cup {"none"},
   actor: Users \cup {NoUser}, req: Requests \cup {NoRequest},
   seen: Roles \cup {"none"}, dept: Departments \cup {NoDept}]

\* What an access token says of its user: the row when it was issued.
TokenOf(u) == [role |-> role[u], dept |-> dept[u]]

Idle == [pc |-> "idle", op |-> "none", actor |-> NoUser, req |-> NoRequest,
         seen |-> "none", dept |-> NoDept]

Init ==
  /\ role = InitRole /\ dept = InitDept
  /\ departments = Departments /\ hrDept = InitHrDept
  /\ tokens = [u \in Users |-> {TokenOf(u)}]
  /\ orgChanges = 0
  /\ status = [r \in Requests |-> "Absent"]
  /\ owner = [r \in Requests |-> NoUser]
  /\ home = [r \in Requests |-> NoDept]
  /\ stamp = [r \in Requests |-> [f \in StampFields |-> NoUser]]
  /\ comments = {}
  /\ ledger = [r \in Requests |-> "none"]
  /\ jobs = {}
  /\ call = [c \in Calls |-> Idle]

-----------------------------------------------------------------------------
(* First step: RolesGuard on the token, then the handler's reads and its    *)
(* status check.  A call that is refused here changes nothing.              *)

Begin(c, u, op, r, pc, seen, d) ==
  /\ call[c].pc = "idle"
  /\ \E t \in tokens[u] : t.role \in AllowedRoles(op)
  /\ call' = [call EXCEPT ![c] = [pc |-> pc, op |-> op, actor |-> u, req |-> r,
                                  seen |-> seen, dept |-> d]]
  /\ UNCHANGED <<org, tokens, tables, jobs>>

BeginSubmit(c, u) ==
  /\ dept[u] \in departments
  /\ Begin(c, u, "submit", NoRequest, "write", role[u], dept[u])

BeginTeamLeadComment(c, u, r) ==
  /\ status[r] = "PENDING"
  /\ Begin(c, u, "teamLeadComment", r, "authorize", "TEAM_LEAD", NoDept)

BeginDeptApprove(c, u, r) ==
  /\ status[r] = "TEAM_LEAD_COMMENTED"
  /\ Begin(c, u, "deptApprove", r, "authorize", "DEPT_HEAD", NoDept)

\* Variant: the final approval does not check the stage.
BeginHrApproveAnyStage(c, u, r) ==
  /\ status[r] \in InReview
  /\ Begin(c, u, "hrApprove", r, "authorize", FinalApproverRole(role[owner[r]]), NoDept)

BeginHrApprove(c, u, r) ==
  /\ status[r] = "DEPT_APPROVED"
  /\ Begin(c, u, "hrApprove", r, "authorize", FinalApproverRole(role[owner[r]]), NoDept)

BeginReject(c, u, r) ==
  /\ status[r] \in Rejectable
  /\ Begin(c, u, "reject", r, "authorize",
           RequiredRoleForStage(status[r], role[owner[r]]), NoDept)

\* Variant: an approved request may still be cancelled.
BeginCancelApproved(c, u, r) ==
  /\ status[r] \in Cancellable \cup {"APPROVED"}
  /\ owner[r] = u
  /\ Begin(c, u, "cancel", r, "write", "none", NoDept)

BeginCancel(c, u, r) ==
  /\ status[r] \in Cancellable
  /\ owner[r] = u
  /\ Begin(c, u, "cancel", r, "write", "none", NoDept)

BeginAddComment(c, u, r) ==
  /\ status[r] \in Statuses /\ u \in Commenters
  /\ Begin(c, u, "addComment", r, "authorize", "none", NoDept)

-----------------------------------------------------------------------------
(* assertCanAct / assertCanComment: read the actor, then, for an HR admin,  *)
(* the tenant.                                                              *)

RequiredRoles(k) == IF k.op = "addComment" THEN ApproverRoles ELSE {k.seen}

\* Variant: the department of the approver is not compared.
PassesAnyDepartment(k) == role[k.actor] \in RequiredRoles(k)

PassesActorCheck(k) ==
  /\ role[k.actor] \in RequiredRoles(k)
  /\ role[k.actor] \in DepartmentRoles => dept[k.actor] = home[k.req]

Authorize(c) ==
  LET k == call[c] IN
  /\ k.pc = "authorize"
  /\ PassesActorCheck(k)
  /\ call' = [call EXCEPT
       ![c].pc = IF role[k.actor] = "HR_ADMIN" THEN "scope" ELSE "write",
       ![c].seen = role[k.actor], ![c].dept = dept[k.actor]]
  /\ UNCHANGED <<org, tokens, tables, jobs>>

\* Two nulls compare equal: an HR admin without a department passes when the
\* tenant has no HR department.
PassesHrScope(c) == call[c].dept = hrDept

HrScope(c) ==
  /\ call[c].pc = "scope"
  /\ PassesHrScope(c)
  /\ call' = [call EXCEPT ![c].pc = "write"]
  /\ UNCHANGED <<org, tokens, tables, jobs>>

-----------------------------------------------------------------------------
(* The write transactions.                                                  *)

Present(r) == status[r] \in Statuses

\* LeaveBalanceService.confirm and release touch pending rows only.
Confirmed(r) == [ledger EXCEPT ![r] = IF @ = "pending" THEN "confirmed" ELSE @]

\* Variant: release forgets the isPending filter.
ReleasedUnfiltered(r) == [ledger EXCEPT ![r] = "none"]

\* Variant: release only reports what it would delete.
ReleasedNothing(r) == ledger

Released(r) == [ledger EXCEPT ![r] = IF @ = "pending" THEN "none" ELSE @]

CreateRequest(c) ==
  LET k == call[c] IN
  /\ k.pc = "write" /\ k.op = "submit"
  /\ k.dept \in departments
  /\ \E r \in Requests :
       /\ status[r] = "Absent"
       /\ status' = [status EXCEPT ![r] = InitialStatus(k.seen)]
       /\ owner'  = [owner EXCEPT ![r] = k.actor]
       /\ home'   = [home EXCEPT ![r] = k.dept]
       /\ stamp'  = [stamp EXCEPT ![r] =
            [f \in StampFields |-> IF f \in InitialStamps(k.seen) THEN k.actor ELSE NoUser]]
       /\ ledger' = [ledger EXCEPT ![r] = "pending"]
       /\ call'   = [call EXCEPT ![c].pc = "enqueue", ![c].req = r]
  /\ UNCHANGED <<org, tokens, comments, jobs>>

\* What the five review commands share: the row is updated by its id, the
\* acting user stamped in column f, and the notification is next.
Update(c, op, to, f) ==
  LET k == call[c] IN
  /\ k.pc = "write" /\ k.op = op
  /\ Present(k.req)
  /\ status' = [status EXCEPT ![k.req] = to]
  /\ stamp'  = [stamp EXCEPT ![k.req] = [@ EXCEPT ![f] = k.actor]]
  /\ call'   = [call EXCEPT ![c].pc = "enqueue"]
  /\ UNCHANGED <<org, tokens, owner, home, jobs>>

TeamLeadComment(c) ==
  /\ Update(c, "teamLeadComment", "TEAM_LEAD_COMMENTED", "teamLead")
  /\ comments' = comments \cup {<<call[c].req, call[c].actor>>}
  /\ UNCHANGED ledger

\* Variant: the department head's decision is not stamped in its own column.
DeptApproveMisstamped(c) ==
  /\ Update(c, "deptApprove", "DEPT_APPROVED", "teamLead")
  /\ UNCHANGED <<comments, ledger>>

DeptApprove(c) ==
  /\ Update(c, "deptApprove", "DEPT_APPROVED", "dept")
  /\ UNCHANGED <<comments, ledger>>

\* Variant: the reservation is left pending.
HrApproveWithoutConfirm(c) ==
  /\ Update(c, "hrApprove", "APPROVED", StampField(call[c].seen))
  /\ UNCHANGED <<comments, ledger>>

HrApprove(c) ==
  /\ Update(c, "hrApprove", "APPROVED", StampField(call[c].seen))
  /\ ledger' = Confirmed(call[c].req)
  /\ UNCHANGED comments

\* The reason is optional; when given it joins the comment thread.
Reject(c) ==
  /\ Update(c, "reject", "REJECTED", StampField(call[c].seen))
  /\ ledger' = Released(call[c].req)
  /\ comments' \in {comments, comments \cup {<<call[c].req, call[c].actor>>}}

Cancel(c) ==
  LET k == call[c] IN
  /\ k.pc = "write" /\ k.op = "cancel"
  /\ Present(k.req)
  /\ status' = [status EXCEPT ![k.req] = "CANCELLED"]
  /\ ledger' = Released(k.req)
  /\ call'   = [call EXCEPT ![c].pc = "enqueue"]
  /\ UNCHANGED <<org, tokens, owner, home, stamp, comments, jobs>>

AddComment(c) ==
  LET k == call[c] IN
  /\ k.pc = "write" /\ k.op = "addComment"
  /\ Present(k.req)
  /\ comments' = comments \cup {<<k.req, k.actor>>}
  /\ call' = [call EXCEPT ![c] = Idle]
  /\ UNCHANGED <<org, tokens, status, owner, home, stamp, ledger, jobs>>

-----------------------------------------------------------------------------
\* The job id is `type-request`, so adding the same job again is ignored.
JobOf(k) ==
  <<CASE k.op = "submit"          -> JobTypeOf(InitialStatus(k.seen))
      [] k.op = "teamLeadComment" -> "TEAM_LEAD_COMMENTED"
      [] k.op = "deptApprove"     -> "DEPT_APPROVED"
      [] k.op = "hrApprove"       -> "APPROVED"
      [] k.op = "reject"          -> "REJECTED"
      [] OTHER                    -> "CANCELLED", k.req>>

\* Variant: statuses reached by routing at submission have no job type.
EnqueueButRouted(c) ==
  /\ call[c].pc = "enqueue"
  /\ jobs' = IF call[c].op = "submit" /\ call[c].seen # "EMPLOYEE"
             THEN jobs ELSE jobs \cup {JobOf(call[c])}
  /\ call' = [call EXCEPT ![c] = Idle]
  /\ UNCHANGED <<org, tokens, tables>>

Enqueue(c) ==
  /\ call[c].pc = "enqueue"
  /\ jobs' = jobs \cup {JobOf(call[c])}
  /\ call' = [call EXCEPT ![c] = Idle]
  /\ UNCHANGED <<org, tokens, tables>>

\* The exceptions a call can end with after its first reads: the actor is
\* not entitled, the row or the department is gone, the balance too low.
IsRefused(k) ==
  \/ k.pc = "authorize" /\ ~PassesActorCheck(k)
  \/ k.pc = "scope" /\ k.dept # hrDept
  \/ k.pc = "write" /\ k.op = "submit"
  \/ k.pc = "write" /\ k.op # "submit" /\ ~Present(k.req)

Refuse(c) ==
  /\ IsRefused(call[c])
  /\ call' = [call EXCEPT ![c] = Idle]
  /\ UNCHANGED <<org, tokens, tables, jobs>>

\* A crash, or an error of the database or of the queue: an open transaction
\* rolls back, a committed one stays, and nothing further is done.
Crash(c) ==
  /\ CallsFail /\ call[c].pc # "idle"
  /\ call' = [call EXCEPT ![c] = Idle]
  /\ UNCHANGED <<org, tokens, tables, jobs>>

-----------------------------------------------------------------------------
(* The organisation around the workflow.                                    *)

IssueToken(u) ==
  /\ TokenOf(u) \notin tokens[u]
  /\ tokens' = [tokens EXCEPT ![u] = @ \cup {TokenOf(u)}]
  /\ UNCHANGED <<org, tables, jobs, call>>

CountOrgChange == /\ orgChanges < MaxOrgChanges
                  /\ orgChanges' = orgChanges + 1

UpdateUser(u, newRole, newDept) ==
  /\ CountOrgChange
  /\ newDept \in departments \cup {NoDept, dept[u]}
  /\ role' = [role EXCEPT ![u] = newRole]
  /\ dept' = [dept EXCEPT ![u] = newDept]
  /\ UNCHANGED <<departments, hrDept, tokens, tables, jobs, call>>

\* isHrDepartment = true points the tenant at d; false clears the pointer
\* only if d holds it.
SetHrDepartment(d, isHr) ==
  /\ CountOrgChange
  /\ d \in departments
  /\ hrDept' = IF isHr THEN d ELSE IF hrDept = d THEN NoDept ELSE hrDept
  /\ UNCHANGED <<role, dept, departments, tokens, tables, jobs, call>>

\* Requests go with their comments and ledger rows.  The columns of a deleted
\* request mean nothing any more; they keep their last values.
DeleteRequests(gone) ==
  /\ status' = [r \in Requests |-> IF r \in gone THEN "Deleted" ELSE status[r]]
  /\ ledger' = [r \in Requests |-> IF r \in gone THEN "none" ELSE ledger[r]]
  /\ comments' = {m \in comments : m[1] \notin gone}
  /\ UNCHANGED <<owner, home, stamp>>

\* The delete cascades to the department's requests and nulls the references
\* of users and tenant.
RemoveDepartment(d) ==
  /\ CountOrgChange
  /\ d \in departments
  /\ departments' = departments \ {d}
  /\ dept' = [u \in Users |-> IF dept[u] = d THEN NoDept ELSE dept[u]]
  /\ hrDept' = IF hrDept = d THEN NoDept ELSE hrDept
  /\ DeleteRequests({r \in Requests : Present(r) /\ home[r] = d})
  /\ UNCHANGED <<role, tokens, jobs, call>>

\* A leave policy is removed with the requests made under it, in any stage.
RemovePolicy(gone) ==
  /\ CountOrgChange
  /\ \A r \in gone : Present(r)
  /\ DeleteRequests(gone)
  /\ UNCHANGED <<role, dept, departments, hrDept, tokens, jobs, call>>

-----------------------------------------------------------------------------
Start(c, u) ==
  \/ BeginSubmit(c, u)
  \/ \E r \in Requests :
       \/ BeginTeamLeadComment(c, u, r)
       \/ BeginDeptApprove(c, u, r)
       \/ BeginHrApprove(c, u, r)
       \/ BeginReject(c, u, r)
       \/ BeginCancel(c, u, r)
       \/ BeginAddComment(c, u, r)

Write(c) ==
  \/ CreateRequest(c) \/ TeamLeadComment(c) \/ DeptApprove(c) \/ HrApprove(c)
  \/ Reject(c) \/ Cancel(c) \/ AddComment(c)

Proceed(c) == Authorize(c) \/ HrScope(c) \/ Write(c) \/ Enqueue(c) \/ Refuse(c)

OrgStep ==
  \/ \E u \in Users : IssueToken(u)
  \/ \E u \in Users, x \in Roles, d \in Departments \cup {NoDept} : UpdateUser(u, x, d)
  \/ \E d \in Departments, isHr \in BOOLEAN : SetHrDepartment(d, isHr)
  \/ \E d \in Departments : RemoveDepartment(d)
  \/ \E gone \in SUBSET Requests : RemovePolicy(gone)

Next ==
  \/ \E c \in Calls : \/ \E u \in Users : Start(c, u)
                      \/ Proceed(c)
                      \/ Crash(c)
  \/ OrgStep

Spec == Init /\ [][Next]_vars

\* A handler that was entered runs on; nobody has to send a request.
FairSpec == Spec /\ \A c \in Calls : WF_vars(Proceed(c))

-----------------------------------------------------------------------------
(* Properties. *)

TypeOK ==
  /\ role \in [Users -> Roles]
  /\ dept \in [Users -> Departments \cup {NoDept}]
  /\ departments \subseteq Departments
  /\ hrDept \in Departments \cup {NoDept}
  /\ tokens \in [Users -> SUBSET [role : Roles, dept : Departments \cup {NoDept}]]
  /\ orgChanges \in Nat
  /\ status \in [Requests -> Statuses \cup {"Absent", "Deleted"}]
  /\ owner \in [Requests -> Users \cup {NoUser}]
  /\ home \in [Requests -> Departments \cup {NoDept}]
  /\ stamp \in [Requests -> [StampFields -> Users \cup {NoUser}]]
  /\ comments \subseteq Requests \X Users
  /\ ledger \in [Requests -> {"none", "pending", "confirmed"}]
  /\ jobs \subseteq JobTypes \X Requests
  /\ call \in [Calls -> CallRecord]

Stamped(r, f) == stamp[r][f] # NoUser
FinallyStamped(r) == Stamped(r, "hr") \/ Stamped(r, "tenantAdmin")

\* No stage is skipped, however calls overlap: a request that shows a stage
\* carries the stamp of every stage up to it.  A handler may write over a
\* newer status, but never over one its own stage was not reached from.
StampsComplete ==
  \A r \in Requests :
    /\ status[r] \in {"TEAM_LEAD_COMMENTED", "DEPT_APPROVED", "APPROVED"}
         => Stamped(r, "teamLead")
    /\ status[r] \in {"DEPT_APPROVED", "APPROVED"} => Stamped(r, "dept")
    /\ status[r] = "APPROVED" => FinallyStamped(r)

\* A decided request holds no reservation: confirm and release run in the
\* transaction that writes the decision, and a request brought back by a late
\* writer is not reserved again.
DecisionFreesReservation ==
  \A r \in Requests : status[r] \notin InReview => ledger[r] # "pending"

\* Days are only taken from a balance by a final approval that itself
\* followed a team lead's and a department head's stamp.
DeductionWasApproved ==
  \A r \in Requests :
    ledger[r] = "confirmed"
      => Stamped(r, "teamLead") /\ Stamped(r, "dept") /\ FinallyStamped(r)

\* A ledger row is written once: it is never reserved again after it was
\* given back, and once deducted it disappears only with its request.
LedgerMovesForward ==
  [][\A r \in Requests :
       /\ ledger[r] = "none" /\ status[r] # "Absent" => ledger'[r] = "none"
       /\ ledger[r] = "confirmed" /\ status'[r] # "Deleted"
            => ledger'[r] = "confirmed"]_vars

\* A notification never runs ahead of what it announces: the job of a stage
\* or decision is in the queue only after the transaction that made it.
JobsFollowCommits ==
  \A r \in Requests :
    /\ <<"TEAM_LEAD_COMMENTED", r>> \in jobs => Stamped(r, "teamLead")
    /\ <<"DEPT_APPROVED", r>> \in jobs => Stamped(r, "dept")
    /\ <<"APPROVED", r>> \in jobs => FinallyStamped(r) /\ ledger[r] # "pending"
    /\ <<"REJECTED", r>> \in jobs => ledger[r] # "pending"
    /\ <<"CANCELLED", r>> \in jobs => ledger[r] # "pending"

\* Every stamp is that of a user entitled to the stage, in the organisation
\* as it is: own department for team leads and heads, the HR department for
\* HR, the tenant admin for HR's own requests; or the submitter's, for the
\* stages the submitter's role skips.
StampsAreAuthorised ==
  \A r \in Requests : LET by == stamp[r] IN status[r] # "Absent" =>
    /\ by["teamLead"] \notin {NoUser, owner[r]}
         => role[by["teamLead"]] = "TEAM_LEAD" /\ dept[by["teamLead"]] = home[r]
    /\ by["dept"] \notin {NoUser, owner[r]}
         => role[by["dept"]] = "DEPT_HEAD" /\ dept[by["dept"]] = home[r]
    /\ by["hr"] # NoUser => role[by["hr"]] = "HR_ADMIN" /\ dept[by["hr"]] = hrDept
    /\ by["tenantAdmin"] # NoUser => /\ role[by["tenantAdmin"]] = "TENANT_ADMIN"
                                     /\ role[owner[r]] = "HR_ADMIN"

\* Nobody decides on their own request: its owner appears only in the columns
\* that routing stamps at submission.
OwnersDoNotDecide ==
  \A r \in Requests : status[r] # "Absent" =>
    \A f \in StampFields : stamp[r][f] = owner[r] => f \in InitialStamps(role[owner[r]])

-----------------------------------------------------------------------------
(* The service its users expect, with every command atomic. *)
Lifecycle == INSTANCE LeaveLifecycle WITH Requests <- Requests, status <- status, ledger <- ledger

\* While one call runs at a time the workflow is the atomic lifecycle.
ImplementsLifecycle == Lifecycle!Spec

\* The balance agrees with the status (see LeaveLifecycle).
BalanceMatchesStatus == Lifecycle!LedgerMatchesStatus

\* audit-action.enum.ts:12-13, "deducted on HR approval" and "restored on
\* rejection/cancel": the ledger row follows the decision.
BalanceFollowsDecision ==
  \A r \in Requests :
    /\ status[r] = "APPROVED" => ledger[r] = "confirmed"
    /\ status[r] \in {"REJECTED", "CANCELLED"} => ledger[r] = "none"

\* When no call dies, each stage or decision a request reaches is announced.
StageIsAnnounced ==
  \A r \in Requests, s \in Statuses : status[r] = s ~> <<JobTypeOf(s), r>> \in jobs
=============================================================================
