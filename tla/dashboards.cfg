SPECIFICATION SpecDashboards
CONSTANTS
  u1 = u1  u2 = u2  eng = eng  hrd = hrd  r1 = r1  r2 = r2
  NoDept = NoDept
  Users <- MCUsers
  Departments <- MCDepartments
  InitDept <- MCInitDept
  Colleagues <- MCColleagues
  Spans <- MCSpans
  Requests <- MCRequests
  MonthLength = 2
  LastDay = 2
  MaxChanges = 1
INVARIANTS DashboardsTypeOK AbsencesAgree  CardCountsOnce
PROPERTY AbsencesAreAnnounced
SYMMETRY Symmetry
CHECK_DEADLOCK FALSE
