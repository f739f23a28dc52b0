\* One account: files listed, flagged and saved, mail listed.
SPECIFICATION FairSpec
CONSTANTS
  c1 = c1
  c2 = c2
  f = f
  g = g
  h = h
  k = k
  Calls = {c1, c2}
  Files = {f, g, h, k}
  Programs <- FlagPrograms
  NumberOf <- WordsOfDigits
  DaysOf <- WordsOfDays
  NewestOf <- WordsOfCounts
  DayOf <- WordsOfDates
  NoDay = 0
  Today = 2
  LastCall = 1
  Catalogue <- SmallCatalogue
  Areas <- SparseAreas
  PageLines = 6
  Separator = 4
  Commands <- CommandLines
  Answers <- Words
  Numbers = {1, 2}
  NoFile = NoFile
  MaxTurns = 3
  Letters = {1, 2, 4}
  Lowest = 1
  Starts = {2, 5}
  LineLengths = {0, 2, 6}
  DefaultLength = 3
INVARIANTS RowsAreTrue PausesWhenFull
PROPERTIES NoFlagLost ListingsEnd
CHECK_DEADLOCK FALSE
