------------------------- MODULE MCLeaveDashboards -------------------------
(***************************************************************************)
(* Two departments: of five people, where one away is just no conflict, and*)
(* of two.  Months of two days, so that leave can span one, a request over *)
(* the weekend, and one that begins during its first day.                  *)
(***************************************************************************)
EXTENDS LeaveDashboards, TLC

CONSTANTS u1, u2, eng, hrd, r1, r2

MCUsers == {u1, u2}
MCDepartments == {eng, hrd}
MCInitDept == [u \in MCUsers |-> eng]
MCColleagues == [d \in MCDepartments |-> IF d = eng THEN 3 ELSE 1]
MCRequests == {r1, r2}
MCSpans == {<<1, 1, FALSE>>, <<1, 4, TRUE>>, <<4, 6, FALSE>>}

\* The two users differ in nothing.
Symmetry == Permutations(MCRequests) \cup Permutations(MCUsers)
=============================================================================
