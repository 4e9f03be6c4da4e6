SPECIFICATION MCSpec
CONSTANTS
  lower = lower
  upper = upper
  maths = maths
  teacher = teacher
  lab = lab
  ann = ann
  ben = ben
  cas = cas
  dan = dan
  form = form
  Arms = {lower, upper}
  PrimaryArms = {lower}
  Days = {1}
  Bell = 2
  Subjects = {maths}
  Teachers = {teacher}
  Rooms = {lab}
  None = None
  FormTeacher <- MCFormTeacher
  Competent <- MCCompetent
  Templates <- MCTemplates
  DailyCap = 1
  SamePerDay = 1
  Offers <- MCOffers
  Updates <- MCUpdates
  Payloads <- MCPayloads
  Clients = {h1, h2}
  MaxPeriods = 3
  MaxBookings = 3
  Pupils = {ann, ben, cas, dan}
  Applications = {form}
  Applicant <- MCApplicant
  FreeSeats = 2
  PaidSeats = 3
  Desks = {h1, h2}
  NoPupil = NoPupil
  NoApplication = NoApplication
  MaxDesk = 4
  Papers <- MCPapers
  MaxMark = 1
  Scores = {0, 2}
  Years = 2
  Callers = {k1, k2}
  MaxCalls = 4
  MaxClock = 2
  Users = {u1, u2}
  TierCredits = 2
  Cost = 1
  TopUp = 1
  PlanCredits = {1}
  MaxTurns = 5
  Hands = {h1, h2}
  MaxTexts = 3
  Students = {s1}
  Requests = {h1, h2}
  NoStudent = NoStudent
  NoTerm = NoTerm
  TermCount = 2
  MaxNumber = 3
  TopLevel = 2
  MaxSessions = 2
  MaxRequests = 4
INVARIANTS BookedOnce SeatsKept LeaverStaysAway PenaltyOnRecord CreditsBalance CopyFollows
           NeverDropped OneActive
PROPERTIES CuratorKeeps TimerNeverRestarts HandedInStays NobodyLeftBehind
SYMMETRY Alike
CHECK_DEADLOCK FALSE
