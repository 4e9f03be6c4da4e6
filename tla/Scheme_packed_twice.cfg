SPECIFICATION MCSpec
CONSTANTS
  Requests = {r1, r2}
  Schemes = {1, 2}
  Attempts = 2
  Total = 2
  Verification = 1
  Pool = 4
  MaxFaults = 1
  MaxRequests = 3
  k1 = k1
  k2 = k2
  t1 = t1
  t2 = t2
  Teams = {t1, t2}
  Arms = {a1}
  NoArm = NoArm
  WeekIds = {1, 2, 3, 4}
  TermDays = 6
  WeekLength = 2
  WorkDays = {1, 3, 5}
  HalfTerms = {{}, {3, 4}}
  Holidays = {{}, {3, 4}}
  DraftedPlans <- MCTwoRevisions
  LibraryPlans <- MCLibrary
  InitialStanding = "PUBLISHED"
  MaxLoads = 2
  MaxCalls = 2
  MaxContents = 2
INVARIANT PackedOnce
CHECK_DEADLOCK FALSE
