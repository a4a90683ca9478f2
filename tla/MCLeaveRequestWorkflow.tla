----------------------- MODULE MCLeaveRequestWorkflow -----------------------
(* Small organisations for TLC: a working department with an employee, team *)
(* leads and a head, an HR department with an HR admin and a team lead of   *)
(* its own, and a tenant admin in no department.                            *)
EXTENDS LeaveVisibility, TLC

CONSTANTS emp, lead, lead2, hrlead, head, hr, admin, eng, hrd

MCInitRole ==
  [u \in Users |-> CASE u = emp -> "EMPLOYEE"    [] u \in {lead, lead2, hrlead} -> "TEAM_LEAD"
                     [] u = head -> "DEPT_HEAD" [] u = hr -> "HR_ADMIN"
                     [] OTHER -> "TENANT_ADMIN"]

MCInitDept ==
  [u \in Users |-> CASE u \in {emp, lead, lead2, head} -> eng [] u \in {hr, hrlead} -> hrd
                     [] OTHER -> NoDept]

CallSymmetry == Permutations(Calls)
=============================================================================
