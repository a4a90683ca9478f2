---------------------------- MODULE LeaveRouting ----------------------------
(***************************************************************************)
(* The rules of the approval chain that are pure functions of a status and *)
(* a role: where a new request enters the chain, whose decision each stage *)
(* waits for, which stages may still be rejected or cancelled, and which   *)
(* notification job announces a status.  Source: the routing service and   *)
(* the constant tables of the command handlers of modules/leave-request.   *)
(* A User row is abstracted to its role and department, a date stamp to    *)
(* the approver id written with it.                                        *)
(***************************************************************************)

Roles == {"EMPLOYEE", "TEAM_LEAD", "DEPT_HEAD", "HR_ADMIN", "TENANT_ADMIN"}

ApproverRoles == {"TEAM_LEAD", "DEPT_HEAD", "HR_ADMIN", "TENANT_ADMIN"}

\* Roles whose approver must belong to the department of the request.
DepartmentRoles == {"TEAM_LEAD", "DEPT_HEAD"}

InReview == {"PENDING", "TEAM_LEAD_COMMENTED", "DEPT_APPROVED"}
Terminal == {"APPROVED", "REJECTED", "CANCELLED"}
Statuses == InReview \cup Terminal

\* The nullable approver columns of a leave request.
StampFields == {"teamLead", "dept", "hr", "tenantAdmin"}

JobTypes == {"SUBMITTED", "TEAM_LEAD_COMMENTED", "DEPT_APPROVED",
             "APPROVED", "REJECTED", "CANCELLED"}

-----------------------------------------------------------------------------
\* resolveInitialRouting: the stages below the submitter's own are skipped
\* and stamped with the submitter.
InitialStatus(role) ==
  CASE role = "TEAM_LEAD"                  -> "TEAM_LEAD_COMMENTED"
    [] role \in {"DEPT_HEAD", "HR_ADMIN"}  -> "DEPT_APPROVED"
    [] OTHER                               -> "PENDING"

InitialStamps(role) ==
  CASE role = "TEAM_LEAD"                  -> {"teamLead"}
    [] role \in {"DEPT_HEAD", "HR_ADMIN"}  -> {"teamLead", "dept"}
    [] OTHER                               -> {}

\* Variant: the approver role forgets that HR submissions escalate.
FinalApproverAlwaysHr(submitterRole) == "HR_ADMIN"

FinalApproverRole(submitterRole) ==
  IF submitterRole = "HR_ADMIN" THEN "TENANT_ADMIN" ELSE "HR_ADMIN"

RequiredRoleForStage(status, submitterRole) ==
  IF status = "TEAM_LEAD_COMMENTED" THEN "DEPT_HEAD"
                                    ELSE FinalApproverRole(submitterRole)

\* The column a decision of a role stamps (STAMP_FIELD of both handlers).
StampField(role) ==
  CASE role = "DEPT_HEAD"    -> "dept"
    [] role = "HR_ADMIN"     -> "hr"
    [] role = "TENANT_ADMIN" -> "tenantAdmin"
    [] OTHER                 -> "teamLead"

\* isCancellable and REJECTABLE_STAGES.
Cancellable == {"PENDING", "TEAM_LEAD_COMMENTED", "DEPT_APPROVED"}

\* Variant: a request may be rejected before a team lead commented on it.
RejectableFromPending == {"PENDING", "TEAM_LEAD_COMMENTED", "DEPT_APPROVED"}

Rejectable == {"TEAM_LEAD_COMMENTED", "DEPT_APPROVED"}

\* Variant: the job type is taken to be the status itself.
JobTypeAsStatus(status) == status

\* The job type that announces a status; PENDING is announced as SUBMITTED.
JobTypeOf(status) == IF status = "PENDING" THEN "SUBMITTED" ELSE status
=============================================================================
