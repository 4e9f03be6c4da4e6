SPECIFICATION MCSpec
CONSTANTS
  Requests = {r1}
  Hook = hook
  Cron = cron
  Pupils = {p1, p2}
  FreeSeats = 1
  Staff = 2
  FreeStaff = 1
  Period = 1
  Grace = 1
  Price = 2
  PlanCode = TRUE
  MaxPayments = 2
  MaxNow = 4
  MaxFaults = 1
  oak = oak
  elm = elm
  oakSlug = oakSlug
  elmSlug = elmSlug
  shared = shared
  Schools = {oak, elm}
  Slugs = {oakSlug, elmSlug, shared}
  NoSchool = NoSchool
  NoSlug = NoSlug
  Clerks = {k1, k2}
  NamedAfter <- MCNamedAfter
  MaxErrands = 5
  CampaignIds = {c1}
  Owners = {o1, o2}
  MaxAsks = 4
SYMMETRY Symmetry
INVARIANTS NoFreeTime LockedOnlyWhenFree AddressKept SentOnce
PROPERTIES KeepsContract
CHECK_DEADLOCK FALSE
