SPECIFICATION RewriteFairSpec
CONSTANTS
  a = a
  b = b
  c = c
  MaxOff = 2
  MaxOn = 2
  Timeouts = TRUE
  IntBits = 3
  limit_in = 2
  CandInputs <- MCInputs
  CandidateLists <- MCLists
  Limits <- MCLimits
  Requirements <- MCRequirements
  Breakages <- MCBreakages
INVARIANTS
  SolutionSeparates
\* The seed is finished, or the program is.
CHECK_DEADLOCK FALSE
