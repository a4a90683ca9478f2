SPECIFICATION Spec
CONSTANTS
  Requests = {r1, r2}
  Workers = {w1}
  Policies <- MCPolicies
  CarryOverKinds = {"None", "Full", "Limited", "NA"}
  DaySizes = {0, 1, 2}
  LastDay = 2
  MaxRuns = 3
  Production = FALSE
SYMMETRY RequestSymmetry
\* The calendar, and the job runs and page views, are bounded: it really may
\* stop.
CHECK_DEADLOCK FALSE
INVARIANTS
  TypeOK
  SettledRequestsAreCovered
PROPERTIES
  CreditsKeepToTheMaximum
  ShownWasSpendable
