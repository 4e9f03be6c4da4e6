SPECIFICATION MCSpec
CONSTANTS
  s1 = s1
  a1 = a1
  b1 = b1
  c1 = c1
  Students = {s1}
  Schools = {a1, b1, c1}
  Terms = {t1}
  Requests = {r1, r2}
  NoSchool = NoSchool
  NoStudent = NoStudent
  NoTerm = NoTerm
  Roll <- MCRoll
  Closable = {a1}
  MaxTransfers = 3
  MaxEnrollments = 4
SYMMETRY Symmetry
INVARIANTS ChainOfCustody CodeUsedOnceInTurn ClosureCodeOnceInTurn
PROPERTY ImplementsCustody
