-------------------------- MODULE LeaveVisibility --------------------------
(***************************************************************************)
(* What the queries on leave requests answer, beside the commands of       *)
(* LeaveRequestWorkflow: my own requests, one request by its id, all       *)
(* requests, the requests waiting for my decision, and the approval card   *)
(* of a request.  A query takes role and department from the access token  *)
(* t it comes with, which outlives a move or a change of role; only the    *)
(* tenant's HR department is read afresh, just before the requests: both   *)
(* reads are taken at one moment here.                                     *)
(***************************************************************************)
EXTENDS LeaveRequestWorkflow

\* The roles on the route of the list; the other routes are open to all.
MayList(t) == t.role \in ApproverRoles

Existing == {r \in Requests : Present(r)}

\* computeIsUnscoped: unlike the commands' check, two nulls do not match.
IsUnscoped(t) ==
  \/ t.role = "TENANT_ADMIN"
  \/ t.role = "HR_ADMIN" /\ hrDept # NoDept /\ t.dept = hrDept

\* For a token without a department the filter asks nothing.
InScope(t, r) == IsUnscoped(t) \/ t.dept \in {NoDept, home[r]}

\* Variant: HR admins see requests from the department's stage on.
HrStatusFilterEarly(t) ==
  IF t.role = "HR_ADMIN" /\ ~IsUnscoped(t)
    THEN {"TEAM_LEAD_COMMENTED", "APPROVED", "REJECTED", "CANCELLED"} ELSE Statuses

StatusFilter(t) ==
  IF t.role = "HR_ADMIN" /\ ~IsUnscoped(t) THEN {"DEPT_APPROVED"} \cup Terminal ELSE Statuses

ListAll(t) == {r \in Existing : MayList(t) /\ InScope(t, r) /\ status[r] \in StatusFilter(t)}

Mine(u) == {r \in Existing : owner[r] = u}

ReadableById(u, t) ==
  {r \in Existing : \/ r \in Mine(u)
                    \/ t.role \in {"HR_ADMIN", "TENANT_ADMIN"}
                    \/ t.role \in DepartmentRoles /\ t.dept = home[r]}

\* Variant: the stage is named after the command that closes it.
StatusesAtOwnStage(t) ==
  IF IsUnscoped(t) THEN InReview
  ELSE CASE t.role = "TEAM_LEAD" -> {"TEAM_LEAD_COMMENTED"}
         [] t.role = "DEPT_HEAD" -> {"DEPT_APPROVED"}
         [] t.role = "HR_ADMIN"  -> {"DEPT_APPROVED"}
         [] OTHER                 -> {}

StatusesFor(t) ==
  IF IsUnscoped(t) THEN InReview
  ELSE CASE t.role = "TEAM_LEAD" -> {"PENDING"}
         [] t.role = "DEPT_HEAD" -> {"TEAM_LEAD_COMMENTED"}
         [] t.role = "HR_ADMIN"  -> {"DEPT_APPROVED"}
         [] OTHER                 -> {}

PendingApprovals(t) == {r \in Existing : status[r] \in StatusesFor(t) /\ InScope(t, r)}

-----------------------------------------------------------------------------
(* The approval card.                                                      *)

Stages == {"team_lead", "dept_head", "hr"}

CurrentStage(r) ==
  CASE status[r] = "PENDING"             -> "team_lead"
    [] status[r] = "TEAM_LEAD_COMMENTED" -> "dept_head"
    [] status[r] = "DEPT_APPROVED"       -> "hr"
    [] OTHER                             -> "none"

Skipped(r, f) == stamp[r][f] # NoUser /\ stamp[r][f] = owner[r]

TeamLeadCard(r) ==
  CASE Skipped(r, "teamLead") -> "skipped"
    [] Stamped(r, "teamLead") /\ ~Skipped(r, "teamLead") -> "commented"
    [] OTHER -> IF status[r] = "REJECTED" /\ ~Stamped(r, "dept") /\ ~Stamped(r, "hr")
                  THEN "rejected" ELSE "pending"

\* Variant: a stage the submitter skipped is shown before the status is asked.
DeptHeadCardSkippedFirst(r) ==
  CASE Skipped(r, "dept") -> "skipped"
    [] status[r] \in {"DEPT_APPROVED", "APPROVED"} /\ ~Skipped(r, "dept") -> "approved"
    [] OTHER -> "pending"

DeptHeadCard(r) ==
  IF status[r] \in {"DEPT_APPROVED", "APPROVED"} THEN "approved"
  ELSE IF status[r] = "REJECTED" /\ Stamped(r, "dept") THEN "rejected"
  ELSE IF Skipped(r, "dept") THEN "skipped" ELSE "pending"

HrCard(r) ==
  CASE status[r] = "APPROVED"                        -> "approved"
    [] status[r] = "REJECTED" /\ Stamped(r, "hr")    -> "rejected"
    [] status[r] = "DEPT_APPROVED"                   -> "pending"
    [] OTHER                                         -> "not_reached"

Card(r) ==
  [s \in Stages |-> CASE s = "team_lead" -> TeamLeadCard(r)
                      [] s = "dept_head" -> DeptHeadCard(r)
                      [] OTHER           -> HrCard(r)]

-----------------------------------------------------------------------------
\* Who the commands let decide: the guards on the stage, the role, the
\* department and the HR scope that a whole call goes through.
MayDecide(u, r) ==
  \/ role[u] = "TEAM_LEAD" /\ status[r] = "PENDING" /\ dept[u] = home[r]
  \/ role[u] = "DEPT_HEAD" /\ status[r] = "TEAM_LEAD_COMMENTED" /\ dept[u] = home[r]
  \/ /\ status[r] = "DEPT_APPROVED" /\ role[u] = FinalApproverRole(role[owner[r]])
     /\ role[u] = "HR_ADMIN" => dept[u] = hrDept

\* Nobody's decision is waited for who cannot see the request: whoever the
\* commands would let decide finds it under pending-approvals, in the list
\* and by its id, wherever users, departments and the HR department moved
\* since it was submitted; provided the token they ask with says of them
\* what their row says now.  (Until their token expires, reviewers who were
\* moved may decide what they are not shown.)
ReviewersFindTheirWork ==
  \A u \in Users, r \in Requests :
    MayDecide(u, r) /\ TokenOf(u) \in tokens[u]
      => r \in PendingApprovals(TokenOf(u)) \cap ListAll(TokenOf(u)) \cap ReadableById(u, TokenOf(u))

\* The queries agree whatever has become of the user since the token was
\* issued: with the token of a department, a user opens every request of the
\* list and finds there every request of the dashboard.
ViewsAgree ==
  \A u \in Users : \A t \in tokens[u] : t.dept # NoDept =>
    /\ PendingApprovals(t) \subseteq ListAll(t)
    /\ ListAll(t) \subseteq ReadableById(u, t)

\* The card fits the status however late writers overtook each other: every
\* stage before the current one is done, the current one is pending; an
\* approved request shows no open stage.  A rejected one shows that the team
\* lead's stage is done and the department's rejected, and HR's is never an
\* open one: the card names the department also when HR or the tenant admin
\* rejected.
CardsAreCoherent ==
  \A r \in Existing : LET done == {"skipped", "commented", "approved"} IN
    /\ CurrentStage(r) # "none" => Card(r)[CurrentStage(r)] = "pending"
    /\ CurrentStage(r) \in {"dept_head", "hr"} => Card(r)["team_lead"] \in done
    /\ CurrentStage(r) = "hr" => Card(r)["dept_head"] \in done
    /\ status[r] = "APPROVED" => \A s \in Stages : Card(r)[s] \in done
    /\ status[r] = "REJECTED" => /\ Card(r)["team_lead"] \in done
                                 /\ Card(r)["dept_head"] = "rejected"
                                 /\ Card(r)["hr"] \in {"rejected", "not_reached"}
=============================================================================
