SPECIFICATION Spec
CONSTANTS
  Students = {s1}
  Requests = {r1}
  NoStudent = NoStudent
  NoTerm = NoTerm
  TermCount = 2
  MaxNumber = 3
  TopLevel = 2
  MaxSessions = 2
  MaxRequests = 6
PROPERTY CarryKeepsLevel
CHECK_DEADLOCK FALSE
