------------------------ MODULE AlarmProtocol_proofs ------------------------
(***************************************************************************)
(* The alarm protocol for every execution: however often SIGALRM has been  *)
(* sent, blocked and delivered before, the next query is asked under a     *)
(* timer, a handler and a jump buffer of its own.                          *)
(***************************************************************************)
EXTENDS AlarmProtocol, TLAPS

\* The timer runs from setitimer to the query's end, the mask is open from
\* sigprocmask to it, and the handler is that of the running call.
Armed ==
  /\ pc \in {"between", "installed"} => ~timer
  /\ pc \in {"armed", "query"} => timer
  /\ pc \in {"installed", "armed", "query"} => ~blocked /\ handler = user

\* As long as rebuilds are quick: a signal sent is not blocked and belongs to a
\* query, and its handler has somewhere to jump to.
InTime ==
  ~slow =>
    /\ pending => ~blocked /\ pc \in {"query", "over"}
    /\ pc \in {"query", "cut", "over"} => handler = user /\ env[user] = "live"
    /\ pc # "undefined"

AlarmInv ==
  /\ AlarmTypeOK
  /\ Armed
  /\ QueryIsGuarded
  /\ OnlyQueriesInterrupted
  /\ InTime

\* The invariant is that of the runs' properties and no weaker.
LEMMA AlarmInvImplies ==
  AlarmInv => AlarmTypeOK /\ QueryIsGuarded /\ OnlyQueriesInterrupted /\ TimelyAlarms
BY DEF AlarmInv, InTime, TimelyAlarms, TimeOutIsOfAQuery

\* Before the first query nothing is set.
LEMMA AlarmInit_Inv == AlarmInit => AlarmInv
BY SlowRebuildsAssumption
DEF AlarmInit, AlarmInv, AlarmTypeOK, Armed, QueryIsGuarded, OnlyQueriesInterrupted, InTime, Users

\* Setting up a query: handler and mask, timer, jump buffer.
LEMMA SetUpKeeps == AlarmInv /\ (Install \/ Arm \/ SetJump) => AlarmInv'
<1> USE DEF AlarmInv, AlarmTypeOK, Armed, QueryIsGuarded, OnlyQueriesInterrupted, InTime, Users, Quiet
<1>1. AlarmInv /\ Install => AlarmInv'
  <2> SUFFICES ASSUME AlarmInv, Install PROVE AlarmInv'
    OBVIOUS
  <2>1. AlarmTypeOK'
    BY DEF Install
  <2>2. Armed'
    BY DEF Install
  <2>3. QueryIsGuarded' /\ OnlyQueriesInterrupted'
    BY DEF Install
  <2>4. InTime'
    BY DEF Install
  <2> QED BY <2>1, <2>2, <2>3, <2>4
<1>2. AlarmInv /\ Arm => AlarmInv'
  <2> SUFFICES ASSUME AlarmInv, Arm PROVE AlarmInv'
    OBVIOUS
  <2>1. AlarmTypeOK'
    BY DEF Arm
  <2>2. Armed'
    BY DEF Arm
  <2>3. QueryIsGuarded' /\ OnlyQueriesInterrupted'
    BY DEF Arm
  <2>4. InTime'
    BY DEF Arm
  <2> QED BY <2>1, <2>2, <2>3, <2>4
<1>3. AlarmInv /\ SetJump => AlarmInv'
  <2> SUFFICES ASSUME AlarmInv, SetJump PROVE AlarmInv'
    OBVIOUS
  <2>1. AlarmTypeOK'
    BY DEF SetJump
  <2>2. Armed'
    BY DEF SetJump
  <2>3. QueryIsGuarded' /\ OnlyQueriesInterrupted'
    BY DEF SetJump
  <2>4. InTime'
    BY DEF SetJump
  <2> QED BY <2>1, <2>2, <2>3, <2>4
<1> QED BY <1>1, <1>2, <1>3

\* The end of a query, by an answer or by its alarm, and the restoring of the
\* old timer, which is always off.
LEMMA EndKeeps == AlarmInv /\ (QueryReturns \/ Recover \/ Disarm) => AlarmInv'
<1> USE DEF AlarmInv, AlarmTypeOK, Armed, QueryIsGuarded, OnlyQueriesInterrupted, InTime, Users, Quiet
<1>1. AlarmInv /\ QueryReturns => AlarmInv'
  BY DEF QueryReturns
<1>2. AlarmInv /\ Recover => AlarmInv'
  BY DEF Recover
<1>3. AlarmInv /\ Disarm => AlarmInv'
  <2> SUFFICES ASSUME AlarmInv, Disarm PROVE AlarmInv'
    OBVIOUS
  <2>1. AlarmTypeOK'
    BY DEF Disarm
  <2>2. Armed'
    BY DEF Disarm
  <2>3. QueryIsGuarded' /\ OnlyQueriesInterrupted'
    BY DEF Disarm
  <2>4. InTime'
    BY DEF Disarm
  <2> QED BY <2>1, <2>2, <2>3, <2>4
<1> QED BY <1>1, <1>2, <1>3

\* The timer's expiry and the handler.
LEMMA SignalKeeps == AlarmInv /\ (Expire \/ Deliver) => AlarmInv'
<1> USE DEF AlarmInv, AlarmTypeOK, Armed, QueryIsGuarded, OnlyQueriesInterrupted, InTime, Users, Quiet
<1>1. AlarmInv /\ Expire => AlarmInv'
  BY DEF Expire
<1>2. AlarmInv /\ Deliver => AlarmInv'
  <2> SUFFICES ASSUME AlarmInv, Deliver PROVE AlarmInv'
    OBVIOUS
  <2>1. AlarmTypeOK'
    BY DEF Deliver
  <2>2. Armed'
    BY DEF Deliver
  <2>3. QueryIsGuarded' /\ OnlyQueriesInterrupted'
    BY DEF Deliver
  <2>4. InTime'
    BY DEF Deliver
  <2> QED BY <2>1, <2>2, <2>3, <2>4
<1> QED BY <1>1, <1>2

\* Every step keeps the invariant.
LEMMA AlarmInvStep == AlarmInv /\ [AlarmNext]_alarmVars => AlarmInv'
<1>1. AlarmInv /\ UNCHANGED alarmVars => AlarmInv'
  BY DEF alarmVars, AlarmInv, AlarmTypeOK, Armed, QueryIsGuarded, OnlyQueriesInterrupted, InTime
<1> QED BY <1>1, SetUpKeeps, EndKeeps, SignalKeeps DEF AlarmNext

-----------------------------------------------------------------------------
\* The invariant holds in every execution.
LEMMA AlarmInvariant == AlarmSpec => []AlarmInv
BY AlarmInit_Inv, AlarmInvStep, PTL DEF AlarmSpec

\* Types; the two users of the one timer never find it armed, so restoring the
\* old timer always turns it off (mergeselection.cpp 155-169, getDC.cpp 17).
THEOREM TimerNeverNests == AlarmSpec => []AlarmTypeOK
BY AlarmInvariant, AlarmInvImplies, PTL

\* Whatever alarms have cut short before, slow rebuilds included, the alarm of a
\* query is set, unblocked and leads back into the call that asks
\* (mergeselection.cpp 162-170, getDC.cpp 225-232).
THEOREM QueriesAreGuarded == AlarmSpec => []QueryIsGuarded
BY AlarmInvariant, AlarmInvImplies, PTL

\* Between queries and while a solver is rebuilt nothing is interrupted, slow
\* rebuilds included (mergeselection.cpp 172-182, getDC.cpp 234-238).
THEOREM RestIsUninterrupted == AlarmSpec => []OnlyQueriesInterrupted
BY AlarmInvariant, AlarmInvImplies, PTL

\* As long as no rebuild takes longer than the interval, an alarm that is
\* delivered is that of a query running or just answered, and its jump ends in a
\* call that has not returned (mergeselection.cpp 173, getDC.cpp 235).
THEOREM AlarmsAreTimely == AlarmSpec => []TimelyAlarms
BY AlarmInvariant, AlarmInvImplies, PTL
=============================================================================
