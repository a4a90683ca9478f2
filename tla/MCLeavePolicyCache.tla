------------------------ MODULE MCLeavePolicyCache ------------------------
(* A small tenant for LeavePolicyCache.  Commands on different policies    *)
(* meet only in the lists, so that one policy, there from the start or     *)
(* created, is enough.                                                     *)
EXTENDS LeavePolicyCache

CONSTANTS p1, d1, d2, c1, c2

MCPolicies == {p1}
MCDepartments == {d1}
MCNewDepartment == {d1, d2}
MCCalls == {c1, c2}
MCOneCall == {c1}

\* For everybody there is, for d1 only, and a change of one field each.
MCBodies ==
  {<<{"active", "depts"}, TRUE, {}>>, <<{"active", "depts"}, TRUE, {d1}>>,
   <<{"depts"}, FALSE, {}>>, <<{"active"}, FALSE, {}>>}
=============================================================================
