------------------------------- MODULE OnSet -------------------------------
(***************************************************************************)
(* DC::getDC::solve of src/src/getDC/getDC.cpp: enumerate, over a set of   *)
(* signals, the patterns where the target must be 0 (in1cases) and those   *)
(* where it must be 1 (in2cases).                                          *)
(*                                                                         *)
(* The `main` solver finds a minterm where the target's value matters and  *)
(* whose pattern is not blocked; the `check` solver tells which value the  *)
(* specification asks for there.  A minterm is the set of candidate inputs *)
(* that are 1 on it, a pattern the part of it among the signals.           *)
(***************************************************************************)
EXTENDS Integers, FiniteSets

CONSTANTS
  IntBits,    \* the bits of cur_case, the int a pattern is packed into (32)
  DCTimeouts  \* TRUE: the 10 s alarm may ring during a query of main

VARIABLES
  signals,    \* the signals the target's new function may depend on
  packed,     \* the signals whose bits are still in cur_case after the shifts
  off, on,    \* minterms where the target matters and must be 0, must be 1
  broken,     \* minterms where it matters and neither value is right
  in1cases, in2cases,
  pc          \* "solve", "done", or "aborted" by assert(0)

questionVars == <<signals, packed, off, on, broken>>
onSetVars == <<questionVars, in1cases, in2cases, pc>>

-----------------------------------------------------------------------------
Pattern(m) == m \cap signals

PatternsOf(ms) == {Pattern(m) : m \in ms}

\* Each signal shifts cur_case left by one, so only the last IntBits signals
\* of the vector are left in it.
IsPacking(kept, all) ==
  /\ kept \subseteq all
  /\ Cardinality(kept) = IF Cardinality(all) < IntBits THEN Cardinality(all) ELSE IntBits

Key(p) == p \cap packed

\* Every pattern recorded is blocked in main and its key put in removed_cases.
Recorded == in1cases \cup in2cases
removed_cases == {Key(p) : p \in Recorded}

\* main.getAnswer may return any minterm whose pattern is not blocked.
Unblocked(ms) == {m \in ms : Pattern(m) \notin Recorded}

\* Fault variant: in1 and in2 are swapped when the case is stored.
RemoveCaseSwapped(p, isOn) ==
  /\ Key(p) \notin removed_cases
  /\ in1cases' = IF isOn THEN in1cases \cup {p} ELSE in1cases
  /\ in2cases' = IF isOn THEN in2cases ELSE in2cases \cup {p}

\* Fault variant: the pattern is dropped although its key is new.
RemoveCaseDropping(p, isOn) ==
  /\ Key(p) \notin removed_cases
  /\ in1cases' = in1cases /\ in2cases' = in2cases

\* removeCase for a pattern whose key has not been seen: store and block it.
RemoveCase(p, isOn) ==
  /\ Key(p) \notin removed_cases
  /\ in1cases' = IF isOn THEN in1cases ELSE in1cases \cup {p}
  /\ in2cases' = IF isOn THEN in2cases \cup {p} ELSE in2cases

FindCase ==
  /\ pc = "solve"
  /\ \/ \E m \in Unblocked(off) : RemoveCase(Pattern(m), FALSE)
     \/ \E m \in Unblocked(on)  : RemoveCase(Pattern(m), TRUE)
  /\ UNCHANGED <<questionVars, pc>>

\* removeCase returns early for a pattern whose key has been seen: nothing is
\* stored and nothing is blocked, so main may return the same minterm again.
FindSeenKey ==
  /\ pc = "solve"
  /\ \E m \in Unblocked(off \cup on) : Key(Pattern(m)) \in removed_cases
  /\ UNCHANGED onSetVars

\* check has no solution for the minterm: assert(0).
AssertFails ==
  /\ pc = "solve"
  /\ Unblocked(broken) # {}
  /\ pc' = "aborted"
  /\ UNCHANGED <<questionVars, in1cases, in2cases>>

\* Fault variant: main only looks for minterms where the target must be 0.
NoMoreOffCases ==
  /\ pc = "solve"
  /\ Unblocked(off) = {}
  /\ pc' = "done"
  /\ UNCHANGED <<questionVars, in1cases, in2cases>>

\* main is unsatisfiable: the loop is left.
NoMoreCases ==
  /\ pc = "solve"
  /\ Unblocked(off \cup on \cup broken) = {}
  /\ pc' = "done"
  /\ UNCHANGED <<questionVars, in1cases, in2cases>>

\* The alarm rings: res is FALSE and the loop is left with what was found.
\* (An alarm after the query has returned ends here too: at once, or, if res
\* survives the jump, one case later, for the interrupted solver then answers
\* no query any more.)
QueryTimesOut ==
  /\ DCTimeouts
  /\ pc = "solve"
  /\ pc' = "done"
  /\ UNCHANGED <<questionVars, in1cases, in2cases>>

OnSetNext == FindCase \/ FindSeenKey \/ AssertFails \/ NoMoreCases \/ QueryTimesOut

-----------------------------------------------------------------------------
\* The cases are over the signals the enumeration is asked about (getDC.cpp
\* 155-189).
OnSetTypeOK ==
  /\ in1cases \subseteq SUBSET signals /\ in2cases \subseteq SUBSET signals
  /\ packed \subseteq signals
  /\ pc \in {"solve", "done", "aborted"}

\* "no more cases, all the other input is Don't Care" (getDC.cpp 240-241):
\* when the loop is left, every care minterm's pattern has been stored.
RestIsDontCare ==
  pc = "done" => PatternsOf(off \cup on) \subseteq Recorded

\* "Do not add if already added!" (getDC.cpp 172-173): a key that has been
\* seen is that of a pattern that has been added.
SeenKeyMeansAdded ==
  \A m \in off \cup on : Key(Pattern(m)) \in removed_cases => Pattern(m) \in Recorded
=============================================================================
