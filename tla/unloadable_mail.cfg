\* What the board accepts must be readable by the next one.
SPECIFICATION CallersSpec
CONSTANTS
  c1 = c1
  c2 = c2
  None = None
  BasesOf <- SparseCatalogue
  NameTypeOf <- NameTypes
  Calls = {c1, c2}
  Flags = {"M"}
  Numbers = {0, 3, 5}
  Grants <- GrantSets
  Programs <- OnlyNobody
  Accounts <- Callers
  SizeOf <- WordSize
  StoredSizeOf <- WordSizeInFile
  MaxMailSubject = 2
  MaxMailBody = 8
  MaxPersistedMail = 10
  PayloadOverhead = 1
  DeskWorkloads <- Sizing
  MaxMail = 2
  MaxPosts = 2
INVARIANTS AcceptedMailLoads
CHECK_DEADLOCK FALSE
