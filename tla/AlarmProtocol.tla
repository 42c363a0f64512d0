--------------------------- MODULE AlarmProtocol ---------------------------
(***************************************************************************)
(* The 10 s alarm around the SAT queries: the interval timer, the signal   *)
(* mask, the handler and the two jump buffers that Solve_c                 *)
(* (src/src/findfanin/mergeselection.cpp 155-182) and getDC::solve         *)
(* (src/src/getDC/getDC.cpp 217-238) share.  They outlive the calls.       *)
(*                                                                         *)
(* Each call sends queries in a loop.  Around a query it installs its      *)
(* handler and unblocks SIGALRM, arms the timer, sets its jump buffer, and *)
(* afterwards restores the old timer.  The handler jumps to the buffer of  *)
(* its user; as sigsetjmp does not save the mask, SIGALRM stays blocked    *)
(* after the jump.                                                         *)
(***************************************************************************)
EXTENDS Naturals

CONSTANT SlowRebuilds  \* whether rebuilding the solver may take over 10 s

ASSUME SlowRebuildsAssumption == SlowRebuilds \subseteq BOOLEAN

Users == {"merge", "dc"}

VARIABLES
  slow,      \* in this execution a rebuild may take longer than the interval
  user,      \* the call that is running: Solve_c or getDC::solve
  pc,        \* "between" queries, "installed", "armed", in the "query", "cut"
             \* short by the alarm, "over"; "undefined"
  res,       \* the local variable res
  handler,   \* whose handler is installed
  env,       \* of each user's jump buffer: "unset", "live", or "dead" when the
             \* call that set it has returned
  timer,     \* the interval timer is armed
  oldtimer,  \* what setitimer found when it was last armed
  blocked,   \* SIGALRM is in the signal mask
  pending    \* a SIGALRM has been sent and not delivered

alarmVars ==
  <<slow, user, pc, res, handler, env, timer, oldtimer, blocked, pending>>

\* A signal is delivered before anything else happens.
Quiet == ~(pending /\ ~blocked)

AlarmInit ==
  /\ slow \in SlowRebuilds
  /\ user = "merge" /\ pc = "between" /\ res = TRUE
  /\ handler = "default" /\ env = [u \in Users |-> "unset"]
  /\ timer = FALSE /\ oldtimer = FALSE
  /\ blocked = FALSE /\ pending = FALSE

\* Fault variant: SIGALRM is not unblocked.
InstallBlocked ==
  /\ Quiet /\ pc = "between"
  /\ handler' = user /\ pc' = "installed"
  /\ UNCHANGED <<slow, user, res, env, timer, oldtimer, blocked, pending>>

\* sigaction and sigprocmask(SIG_UNBLOCK).
Install ==
  /\ Quiet /\ pc = "between"
  /\ handler' = user /\ blocked' = FALSE /\ pc' = "installed"
  /\ UNCHANGED <<slow, user, res, env, timer, oldtimer, pending>>

\* Fault variant: the timer is not set.
ArmNot ==
  /\ Quiet /\ pc = "installed"
  /\ oldtimer' = timer /\ timer' = timer /\ res' = FALSE /\ pc' = "armed"
  /\ UNCHANGED <<slow, user, handler, env, blocked, pending>>

\* setitimer with the 10 s, and res = false.
Arm ==
  /\ Quiet /\ pc = "installed"
  /\ oldtimer' = timer /\ timer' = TRUE /\ res' = FALSE /\ pc' = "armed"
  /\ UNCHANGED <<slow, user, handler, env, blocked, pending>>

\* sigsetjmp returns 0 and the solver is called.
SetJump ==
  /\ Quiet /\ pc = "armed"
  /\ env' = [env EXCEPT ![user] = "live"] /\ pc' = "query"
  /\ UNCHANGED <<slow, user, res, handler, timer, oldtimer, blocked, pending>>

\* The solver answers.
QueryReturns ==
  /\ Quiet /\ pc = "query"
  /\ res' \in BOOLEAN /\ pc' = "over"
  /\ UNCHANGED <<slow, user, handler, env, timer, oldtimer, blocked, pending>>

\* The timer expires and starts again.  Everything but a query, the program
\* between queries and a slow rebuild is short against its 10 s; an expiry
\* just after the answer falls into "over".
Expire ==
  /\ Quiet /\ timer
  /\ \/ pc \in {"query", "between"}
     \/ pc = "over" /\ ~blocked
     \/ pc = "cut" /\ user = "merge" /\ slow
  /\ pending' = TRUE
  /\ UNCHANGED <<slow, user, pc, res, handler, env, timer, oldtimer, blocked>>

\* Fault variant: the mask is restored by the jump.
DeliverUnblocked ==
  /\ ~Quiet
  /\ pending' = FALSE /\ blocked' = FALSE
  /\ IF handler \in Users /\ env[handler] = "live"
       THEN pc' = "cut" /\ res' \in {res, FALSE}
       ELSE pc' = "undefined" /\ res' = res
  /\ UNCHANGED <<slow, user, handler, env, timer, oldtimer>>

\* The handler runs with SIGALRM blocked and jumps.  res is not volatile: it
\* may have its value at the time of sigsetjmp again.
Deliver ==
  /\ ~Quiet
  /\ pending' = FALSE /\ blocked' = TRUE
  /\ IF handler \in Users /\ env[handler] = "live"
       THEN pc' = "cut" /\ res' \in {res, FALSE}
       ELSE pc' = "undefined" /\ res' = res
  /\ UNCHANGED <<slow, user, handler, env, timer, oldtimer>>

\* The branch after the jump: Solve_c rebuilds its solver, getDC::solve
\* interrupts its.
Recover ==
  /\ Quiet /\ pc = "cut"
  /\ pc' = "over"
  /\ UNCHANGED <<slow, user, res, handler, env, timer, oldtimer, blocked, pending>>

\* Fault variant: the old timer is not restored.
DisarmNot ==
  /\ Quiet /\ pc = "over"
  /\ \/ /\ user = "merge" \/ res
        /\ UNCHANGED <<user, env>>
     \/ /\ user = "merge" \/ ~res
        /\ env' = [env EXCEPT ![user] = "dead"]
        /\ user' \in Users
  /\ pc' = "between"
  /\ UNCHANGED <<slow, res, handler, timer, oldtimer, blocked, pending>>

\* The old timer is restored.  The call goes on to its next query, or returns
\* and later another one starts; getDC::solve goes on if and only if res.
Disarm ==
  /\ Quiet /\ pc = "over"
  /\ timer' = oldtimer
  /\ \/ /\ user = "merge" \/ res
        /\ UNCHANGED <<user, env>>
     \/ /\ user = "merge" \/ ~res
        /\ env' = [env EXCEPT ![user] = "dead"]
        /\ user' \in Users
  /\ pc' = "between"
  /\ UNCHANGED <<slow, res, handler, oldtimer, blocked, pending>>

AlarmNext ==
  \/ Install \/ Arm \/ SetJump \/ QueryReturns \/ Recover \/ Disarm
  \/ Expire \/ Deliver

AlarmSpec == AlarmInit /\ [][AlarmNext]_alarmVars

\* The program runs and the timer expires, but a query need not return.
AlarmFairSpec ==
  /\ AlarmSpec
  /\ WF_alarmVars(Install \/ Arm \/ SetJump \/ Recover \/ Disarm)
  /\ WF_alarmVars(Expire) /\ WF_alarmVars(Deliver)

-----------------------------------------------------------------------------
\* The types of the variables; the users of the timer never nest, so none finds
\* it armed (mergeselection.cpp 13, 155-169, getDC.cpp 17).
AlarmTypeOK ==
  /\ slow \in BOOLEAN /\ user \in Users
  /\ pc \in {"between", "installed", "armed", "query", "cut", "over", "undefined"}
  /\ res \in BOOLEAN
  /\ handler \in Users \cup {"default"}
  /\ env \in [Users -> {"unset", "live", "dead"}]
  /\ timer \in BOOLEAN /\ oldtimer = FALSE
  /\ blocked \in BOOLEAN /\ pending \in BOOLEAN

\* Whatever alarms have cut short before, the alarm of a query is set, its
\* handler is that of the call that asks, and its jump leads into that call
\* (mergeselection.cpp 162-170, getDC.cpp 225-232).
QueryIsGuarded ==
  pc = "query" => timer /\ ~blocked /\ handler = user /\ env[user] = "live"

\* The rest of the program, the set cover, Restruct and Merge, and the
\* rebuilding of the solver are never interrupted: where the timer is off, or
\* SIGALRM is blocked (mergeselection.cpp 172-182, getDC.cpp 234-238).
OnlyQueriesInterrupted ==
  /\ pc = "between" => ~timer /\ (pending => blocked)
  /\ pc = "cut" => blocked

\* "TIME OUT" (mergeselection.cpp 173, getDC.cpp 235) is said of a query that
\* has been asked: every alarm that is delivered finds one running or just
\* answered.
TimeOutIsOfAQuery == pending /\ ~blocked => pc \in {"query", "over"}

\* The same, as long as no rebuild takes longer than the interval; then also no
\* jump ends in a call that has returned.
TimelyAlarms == ~slow => TimeOutIsOfAQuery /\ pc # "undefined"

\* A query the solver never answers is ended by its alarm, also after earlier
\* ones were (mergeselection.cpp 155-182).
QueriesEnd == pc = "query" ~> pc # "query"
=============================================================================
