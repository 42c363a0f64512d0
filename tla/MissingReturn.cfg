SPECIFICATION FrontEndFairSpec
CONSTANTS
  Files <- MCFiles
  Returns = FALSE
  MaxOrder = 6
  MaxCases = 2
PROPERTY AssignOrderEnds
\* Nothing follows the last pass.
CHECK_DEADLOCK FALSE
