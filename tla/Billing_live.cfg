SPECIFICATION MCSpec
CONSTANTS
  Requests = {r1}
  Hook = hook
  Cron = cron
  Pupils = {p1}
  FreeSeats = 1
  Staff = 1
  FreeStaff = 1
  Period = 1
  Grace = 0
  Price = 2
  PlanCode = TRUE
  MaxPayments = 2
  MaxNow = 3
  MaxFaults = 1
PROPERTIES PaidSchoolUnblocked PaymentsAppliedUnlessFault
CHECK_DEADLOCK FALSE
