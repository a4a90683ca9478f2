SPECIFICATION FairSpec
CONSTANTS
  u1 = u1  u2 = u2  w1 = w1  w2 = w2
  Users <- MCUsers
  BirthDay <- MCBirthDay
  NoDay = NoDay
  Runs <- MCRuns
  YearLength = 365
  FirstDay = 364
  LastDay = 365
  MaxFailures = 1
INVARIANTS TypeOK CopiesBounded HighPriorityIsTheDay
PROPERTY BirthdayIsTold
