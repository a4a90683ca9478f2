SPECIFICATION FairSpec
CONSTANTS
  emp = emp
  lead = lead
  lead2 = lead2
  hrlead = hrlead
  head = head
  hr = hr
  admin = admin
  eng = eng
  hrd = hrd
  NoUser = NoUser
  NoDept = NoDept
  NoRequest = NoRequest
  Departments = {eng, hrd}
  InitRole <- MCInitRole
  InitDept <- MCInitDept
  InitHrDept = hrd
  Users = {emp, lead, hrlead, head, hr, admin}
  Requests = {r1}
  Calls = {c1, c2}
  Commenters = {}
  CallsFail = FALSE
  MaxOrgChanges = 0
INVARIANTS
  TypeOK
  StampsAreAuthorised
  OwnersDoNotDecide
  CardsAreCoherent
PROPERTIES
  StageIsAnnounced
