SPECIFICATION Spec
CONSTANTS
  e1 = e1  e2 = e2  n1 = n1  n2 = n2  c1 = c1  c2 = c2
  None = None
  Users <- MCUsers
  Tenants <- MCTenants
  Tokens <- MCTokens
  Links <- MCLinks
  Emails <- MCEmails
  Names <- MCNames
  Calls <- MCCalls
  RedisFails = TRUE
  CallsFail = TRUE
  MaxStarted = 4
INVARIANTS TypeOK OneAccountPerEmail SpentLinksAreDead
PROPERTY SessionsImplemented
SYMMETRY Symmetry
CHECK_DEADLOCK FALSE
