SPECIFICATION RewriteFairSpec
CONSTANTS
  a = a
  b = b
  c = c
  MaxOff = 3
  MaxOn = 1
  Timeouts = TRUE
  IntBits = 1
  limit_in = 2
  CandInputs <- MCInputs
  CandidateLists <- MCLists
  Limits <- MCLimits
  Requirements <- MCRequirements
  Breakages <- MCBreakages
INVARIANTS
  SelectionCovers
  FirstChoiceCoversHalf
  RowsAreAllPairs
  KnownCasesSeparated
  CubeIsAskedFor
PROPERTIES
  EveryAnswerAddsRows
  SearchEnds
\* The seed is finished, or the program is.
CHECK_DEADLOCK FALSE
