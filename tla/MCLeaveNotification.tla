------------------------ MODULE MCLeaveNotification ------------------------
(* An employee's request and an HR admin's own, in two departments.         *)
EXTENDS LeaveNotification

CONSTANTS emp, lead, lead2, hrlead, head, hr, admin, eng, hrd, r1, r2

MCInitRole ==
  [u \in Users |-> CASE u = emp -> "EMPLOYEE" [] u \in {lead, lead2, hrlead} -> "TEAM_LEAD"
                     [] u = head -> "DEPT_HEAD"
                     [] u = hr -> "HR_ADMIN"  [] OTHER -> "TENANT_ADMIN"]

MCInitDept ==
  [u \in Users |-> CASE u \in {emp, lead, lead2, head} -> eng [] u \in {hr, hrlead} -> hrd
                     [] OTHER -> NoDept]

MCOwner == [r \in Requests |-> IF r = r1 THEN emp ELSE hr]
MCHome  == [r \in Requests |-> IF r = r1 THEN eng ELSE hrd]

MCJobs == {<<"SUBMITTED", r1>>, <<"TEAM_LEAD_COMMENTED", r1>>,
           <<"DEPT_APPROVED", r1>>, <<"DEPT_APPROVED", r2>>}

\* A team lead leaves the department; the HR admin becomes its head.
MCMoves == {<<lead, "TEAM_LEAD", hrd>>, <<hr, "DEPT_HEAD", eng>>}
=============================================================================
