\* Two callers, one base or two, every operation.
SPECIFICATION FairSpec
CONSTANTS
  s1 = s1
  s2 = s2
  sysop = sysop
  mate = mate
  nobody = nobody
  Bases = {1, 2}
  MaxNumber = 3
  Sessions = {s1, s2}
  Users = {sysop, mate}
  Sysop = sysop
  Nobody = nobody
  NewUsers = {}
  Editors = {}
  Censored = {mate}
  UserOf <- TwoMovers
  Seeds <- LetterFromMate
  Workloads <- AllWorkloads
INVARIANTS HighestMessageMatchesMaxNumber InOnePlace
PROPERTIES BasesKeepTheLog KeptUntilKilled OperationsEnd
\* a board with an unreadable file does not start again
CHECK_DEADLOCK FALSE
