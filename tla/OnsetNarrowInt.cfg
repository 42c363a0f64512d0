SPECIFICATION RewriteFairSpec
CONSTANTS
  a = a
  b = b
  c = c
  MaxOff = 2
  MaxOn = 2
  Timeouts = FALSE
  IntBits = 1
  limit_in = 2
  CandInputs <- MCInputs
  CandidateLists <- MCLists
  Limits <- MCLimits
  Requirements <- MCRequirements
  Breakages <- MCBreakages
INVARIANTS
  SeenKeyMeansAdded
\* The seed is finished, or the program is.
CHECK_DEADLOCK FALSE
