SPECIFICATION MCSpec
CONSTANTS
  Requests = {r1, r2}
  Worker = worker
  Cron = cron
  School = school
  Delay = 2
  MaxNow = 4
  MaxCrashes = 1
  MaxIssues = 2
  Slots = {s1, s2}
  Attempts = 2
  MaxErrors = 3
  MaxStops = 2

PROPERTIES KeepsCloseProtocol ImplementsSchoolClosure OverdueCloseSettles CodesUnlessCrash EmbeddedOrDeleted
