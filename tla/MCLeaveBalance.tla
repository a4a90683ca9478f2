--------------------------- MODULE MCLeaveBalance ---------------------------
(* Small policies for TLC: a rate that does not divide the maximum, and     *)
(* every kind of carry-over.                                                *)
EXTENDS LeaveBalance, TLC

CONSTANT CarryOverKinds

MCPolicies ==
  {[accrual |-> a, accrualRate |-> 2, maxBalance |-> 3,
    carryOver |-> c, carryOverLimit |-> 2] :
       a \in {"Monthly", "Yearly", "OneTime"}, c \in CarryOverKinds}

RequestSymmetry == Permutations(Requests)
=============================================================================
