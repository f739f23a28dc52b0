\* A write fails in the middle of a move.
SPECIFICATION Spec
CONSTANTS
  s1 = s1
  s2 = s2
  sysop = sysop
  mate = mate
  nobody = nobody
  Bases = {1, 2}
  MaxNumber = 2
  Sessions = {s1, s2}
  Users = {sysop, mate}
  Sysop = sysop
  Nobody = nobody
  NewUsers = {}
  Editors = {}
  Censored = {mate}
  UserOf <- TwoMovers
  Seeds <- LetterFromMate
  Workloads <- MovesThatFail
PROPERTIES FailedMoveMutatesNothing
CHECK_DEADLOCK FALSE
