\* Two calls, one policy, a department that may go and one that may come, Redis and calls that fail.
SPECIFICATION FairSpec
CONSTANTS
  p1 = p1  d1 = d1  d2 = d2  c1 = c1  c2 = c2
  Policies <- MCPolicies
  Departments <- MCNewDepartment
  InitDepartments <- MCDepartments
  Calls <- MCCalls
  NoDept = NoDept
  Miss = Miss
  Askers <- MCDepartments
  RedisFails = TRUE
  CallsFail = TRUE
  Bodies <- MCBodies
  MaxChanges = 2
INVARIANTS TypeOK OffersApply CreatedIsListed
PROPERTY Converges
