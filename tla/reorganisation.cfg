SPECIFICATION Spec
CONSTANTS
  emp = emp
  lead = lead
  lead2 = lead2
  hrlead = hrlead
  head = head
  hr = hr
  admin = admin
  eng = eng
  hrd = hrd
  NoUser = NoUser
  NoDept = NoDept
  NoRequest = NoRequest
  Departments = {eng, hrd}
  InitRole <- MCInitRole
  InitDept <- MCInitDept
  InitHrDept = hrd
  Users = {lead, hr}
  Requests = {r1}
  Calls = {c1, c2}
  Commenters = {hr}
  CallsFail = TRUE
  MaxOrgChanges = 1
SYMMETRY CallSymmetry
INVARIANTS
  StampsComplete
  DecisionFreesReservation
  DeductionWasApproved
  JobsFollowCommits
  ReviewersFindTheirWork
  ViewsAgree
PROPERTIES
  LedgerMovesForward
