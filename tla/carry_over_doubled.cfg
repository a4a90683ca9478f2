SPECIFICATION Spec
CONSTANTS
  Requests = {r1}
  Workers = {w1}
  Policies <- MCPolicies
  CarryOverKinds = {"Limited"}
  DaySizes = {2}
  LastDay = 1
  MaxRuns = 3
  Production = TRUE
SYMMETRY RequestSymmetry
\* The calendar, and the job runs and page views, are bounded: it really may
\* stop.
CHECK_DEADLOCK FALSE
PROPERTIES
  CarryOverWithinLimit
