SPECIFICATION Spec
CONSTANTS
  emp = emp
  lead = lead
  lead2 = lead2
  hrlead = hrlead
  head = head
  hr = hr
  admin = admin
  eng = eng
  hrd = hrd
  NoUser = NoUser
  NoDept = NoDept
  NoRequest = NoRequest
  Departments = {eng, hrd}
  InitRole <- MCInitRole
  InitDept <- MCInitDept
  InitHrDept = hrd
  Users = {emp, lead, head, hr}
  Requests = {r1}
  Calls = {c1}
  Commenters = {hr}
  CallsFail = TRUE
  MaxOrgChanges = 1
INVARIANTS
  BalanceMatchesStatus
PROPERTIES
  ImplementsLifecycle
