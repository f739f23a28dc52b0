\* Two calls among the conferences; one writer at a time; one client of every kind.
SPECIFICATION CallersSpec
CONSTANTS
  c1 = c1
  c2 = c2
  None = None
  BasesOf <- SparseCatalogue
  NameTypeOf <- NameTypes
  Calls = {c1, c2}
  Flags = {"M"}
  Numbers = {0, 3, 5}
  Grants <- GrantSets
  Programs <- VisitsEditsAndNobody
  Accounts <- Callers
  SizeOf <- WordSize
  StoredSizeOf <- WordSizeInFile
  MaxMailSubject = 2
  MaxMailBody = 8
  MaxPersistedMail = 10
  PayloadOverhead = 1
  DeskWorkloads <- ErrandsAndNone
  MaxMail = 2
  MaxPosts = 2
INVARIANTS VisitIsLegal AnnouncedOnce FlagEditsSurvive PostedAsTyped DecodedAsTyped OnlyColourIsTaken
PROPERTIES ScanLeavesPlaceAlone ScansEnd ReadsEnd
\* calls end, and a client falls silent
CHECK_DEADLOCK FALSE
