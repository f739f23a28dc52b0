\* A session panics in a move while it holds a node.
SPECIFICATION BoardSpec
CONSTANTS
  c1 = c1
  c2 = c2
  c3 = c3
  sysop = sysop
  mate = mate
  nobody = nobody
  MaxNodes = 2
  Connections = {c1, c2, c3}
  Bases = {1, 2}
  MaxNumber = 1
  Users = {sysop, mate}
  Sysop = sysop
  Nobody = nobody
  NewUsers = {}
  Editors = {}
  Censored = {}
  UserOf <- UserOfCaller
  Seeds <- LetterFromMate
  Workloads <- Undisturbed
INVARIANTS InUseOrIdle
CHECK_DEADLOCK FALSE
