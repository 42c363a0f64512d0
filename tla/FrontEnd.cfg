SPECIFICATION FrontEndFairSpec
CONSTANTS
  Files <- MCFiles
  Returns = TRUE
  MaxOrder = 6
  MaxCases = 3
INVARIANTS
  FrontEndTypeOK
  ReadsAsMeant
  WrittenReadsBack
  OrderIsLongestPath
  ReadersComeFirst
  OnlyOddFilesAbort
  CnfIsTheCircuit
  SolverAnswersQuestion
  OnSetAnswers
PROPERTY AssignOrderEnds
\* The search and the enumeration end here.
CHECK_DEADLOCK FALSE
