SPECIFICATION Spec
CONSTANTS
  emp = emp
  lead = lead
  lead2 = lead2
  hrlead = hrlead
  head = head
  hr = hr
  admin = admin
  eng = eng
  hrd = hrd
  r1 = r1
  r2 = r2
  NoDept = NoDept
  NoJob = NoJob
  NoWorker = NoWorker
  Users = {emp, lead, lead2, hrlead, head, hr, admin}
  Departments = {eng, hrd}
  Requests = {r1, r2}
  Jobs <- MCJobs
  Workers = {w1, w2}
  Owner <- MCOwner
  Home <- MCHome
  InitRole <- MCInitRole
  InitDept <- MCInitDept
  InitHrDept = hrd
  MaxAttempts = 2
  MaxStalls = 1
  Moves <- MCMoves
  MaxJobs = 1
  MaxOrgChanges = 1
\* The queue is empty in the end.
CHECK_DEADLOCK FALSE
INVARIANTS
  TypeOK
  ReviewersToldOnce
  WhoeverMayActIsTold
PROPERTIES
  JobsSettle
