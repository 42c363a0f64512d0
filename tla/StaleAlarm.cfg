SPECIFICATION AlarmSpec
CONSTANT SlowRebuilds <- MCSlowRebuilds
INVARIANT TimeOutIsOfAQuery
\* A jump without a meaning ends the execution.
CHECK_DEADLOCK FALSE
