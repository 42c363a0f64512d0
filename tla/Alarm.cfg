SPECIFICATION AlarmFairSpec
CONSTANT SlowRebuilds <- MCSlowRebuilds
INVARIANTS
  AlarmTypeOK
  QueryIsGuarded
  OnlyQueriesInterrupted
  TimelyAlarms
PROPERTY QueriesEnd
\* A jump without a meaning ends the execution.
CHECK_DEADLOCK FALSE
