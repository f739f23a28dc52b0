\* Starts over the directories; two callers and the rows; two sessions and the screens.
SPECIFICATION DiskSpec
CONSTANTS
  None = None
  c1 = c1
  c2 = c2
  v1 = v1
  v2 = v2
  Callers = {c1, c2}
  Viewers = {v1, v2}
  Sites <- SitesTried
  Handles <- HandlesTried
  Folded <- Folds
  Catalogues <- CataloguesTried
  Outcomes <- OutcomesTried
  Flags = {"IsDonor"}
  Workloads <- WorkloadsTried
  Plans <- PlansTried
INVARIANTS ComesUpAgain CatalogueServed EveryoneSeesTheSame BestScreenKept
PROPERTIES SysopSeededOnce StoreImplemented CommandsAnswered
\* a repository nobody asks, and a screen nobody looks at, rest
CHECK_DEADLOCK FALSE
