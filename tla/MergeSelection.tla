--------------------------- MODULE MergeSelection ---------------------------
(***************************************************************************)
(* MergeSelection::Solve_c of src/src/findfanin/mergeselection.cpp: the    *)
(* counterexample-guided search for at most `limit` clusters whose inputs  *)
(* can replace the inputs of a seed node.                                  *)
(*                                                                         *)
(* The SAT instance MakeSolver builds is abstracted to the two sets its    *)
(* copies of the circuits range over: off, the valuations of the candidate *)
(* inputs on minterms where the seed must be 0 for the implementation to   *)
(* match the specification, and on, those where it must be 1.  A query     *)
(* asks for one valuation of each that agree on the inputs selected so     *)
(* far; an answer becomes a pair of cases, every pair of cases a row of    *)
(* the set cover.                                                          *)
(*                                                                         *)
(* Every query runs under a 10 s alarm.  When it rings the solver is       *)
(* thrown away and rebuilt with the cases found so far, and the query      *)
(* counts as unsatisfiable.                                                *)
(***************************************************************************)
EXTENDS SetCover

CONSTANTS
  Requirements,  \* pairs <<off, on>> of sets of valuations of CandInputs
  Timeouts       \* TRUE: the alarm may ring during a query

ASSUME RequirementsAssumption ==
  Requirements \subseteq (SUBSET Valuations) \X (SUBSET Valuations)
ASSUME TimeoutsAssumption == Timeouts \in BOOLEAN

VARIABLES
  off, on,          \* what MakeSolver's two halves range over
  in0cases,         \* valuations of off found so far (impl copy 0)
  in1cases,         \* valuations of on found so far (impl copy 2)
  no_in0case,       \* TRUE: the query may reuse a known in0case
  no_in1case,       \* TRUE: the query may reuse a known in1case
  flag,             \* the other kind of case was just found exhausted
  first_iteration,
  pc                \* "solve": at the query; "cover": in AddRows and Select;
                    \* "done": Solve_c returned; "undefined": see LateAlarm

searchVars == <<in0cases, in1cases, no_in0case, no_in1case, flag, first_iteration, pc>>
mergeVars  == <<coverVars, off, on, searchVars>>

-----------------------------------------------------------------------------
\* cand_inputs: the inputs of all the candidates, as the caller collects them.
CandidateInputs == UNION {cands[i] : i \in DOMAIN cands}

\* What a set of valuations looks like on the candidate inputs.
Project(vals, inputs) == {v \cap inputs : v \in vals}

Agree(x, y, inputs) == x \cap inputs = y \cap inputs

\* A model of the solver's clauses under the assumptions: an in0case and an
\* in1case that agree on the solution, each of them new while the removal
\* clauses of its kind are enabled.
IsModel(x, y) ==
  /\ Agree(x, y, solution_inputs)
  /\ no_in0case \/ x \notin in0cases
  /\ no_in1case \/ y \notin in1cases

Satisfiable == \E x \in off, y \in on : IsModel(x, y)

MergeInit ==
  /\ CoverInit
  /\ \E req \in Requirements :
       /\ off = Project(req[1], CandidateInputs)
       /\ on  = Project(req[2], CandidateInputs)
  /\ in0cases = {} /\ in1cases = {}
  /\ no_in0case = FALSE /\ no_in1case = FALSE
  /\ flag \in BOOLEAN            \* not initialised
  /\ first_iteration = TRUE
  /\ pc = "solve"

\* Fault variant: the new in1case is paired before the in0case is recorded.
NewRowsTooEarly(x, y) ==
  (IF no_in0case THEN {} ELSE {x} \X in1cases)
    \cup (IF no_in1case THEN {} ELSE in0cases \X {y})

\* Fault variant: a new in0case is not paired with the in1cases known before.
NewRowsForgetful(x, y) == IF no_in1case THEN {} ELSE in0cases' \X {y}

\* The rows of a round: a new in0case against the in1cases known before, then
\* a new in1case against all in0cases, the new one included.
NewRows(x, y) ==
  (IF no_in0case THEN {} ELSE {x} \X in1cases)
    \cup (IF no_in1case THEN {} ELSE in0cases' \X {y})

\* The query is satisfiable: record the new cases and start covering.
SolveSat ==
  /\ pc = "solve"
  /\ \E x \in off, y \in on :
       /\ IsModel(x, y)
       /\ in0cases' = IF no_in0case THEN in0cases ELSE in0cases \cup {x}
       /\ in1cases' = IF no_in1case THEN in1cases ELSE in1cases \cup {y}
       /\ AddRows(NewRows(x, y))
  /\ flag' = FALSE /\ first_iteration' = FALSE
  /\ pc' = "cover"
  /\ UNCHANGED <<off, on, no_in0case, no_in1case>>

\* Fault variant: the search stops after one kind of case is exhausted.
NoAnswerHasty ==
  \/ /\ first_iteration \/ no_in1case \/ no_in0case
     /\ pc' = "done"
     /\ UNCHANGED <<no_in0case, no_in1case, flag>>
  \/ /\ ~first_iteration /\ ~no_in1case /\ ~no_in0case
     /\ no_in1case' = TRUE
     /\ UNCHANGED <<no_in0case, flag, pc>>

\* Fault variant: flag is not set when the other kind of case is tried.
NoAnswerUnflagged ==
  \/ /\ first_iteration \/ flag
     /\ pc' = "done"
     /\ UNCHANGED <<no_in0case, no_in1case, flag>>
  \/ /\ ~first_iteration /\ ~flag
     /\ no_in0case' = no_in1case /\ no_in1case' = ~no_in1case
     /\ UNCHANGED <<flag, pc>>

\* What Solve_c does after a query it takes for unsatisfiable: stop at once
\* in the first iteration or when both kinds of case are exhausted for this
\* solution; otherwise let one kind of case be reused in the next query.
NoAnswer ==
  \/ /\ first_iteration \/ flag
     /\ pc' = "done"
     /\ UNCHANGED <<no_in0case, no_in1case, flag>>
  \/ /\ ~first_iteration /\ ~flag /\ ~no_in1case /\ ~no_in0case
     /\ no_in1case' = TRUE
     /\ UNCHANGED <<no_in0case, flag, pc>>
  \/ /\ ~first_iteration /\ ~flag /\ ~no_in1case /\ no_in0case
     /\ no_in1case' = TRUE /\ no_in0case' = FALSE /\ flag' = TRUE
     /\ UNCHANGED pc
  \/ /\ ~first_iteration /\ ~flag /\ no_in1case /\ ~no_in0case
     /\ no_in0case' = TRUE /\ no_in1case' = FALSE /\ flag' = TRUE
     /\ UNCHANGED pc

SolveUnsat ==
  /\ pc = "solve"
  /\ ~Satisfiable
  /\ NoAnswer
  /\ UNCHANGED <<coverVars, off, on, in0cases, in1cases, first_iteration>>

\* The alarm rings during the query: MakeSolver and removeCase rebuild the
\* same clauses, and res is still FALSE.
SolveTimeout ==
  /\ Timeouts
  /\ pc = "solve"
  /\ NoAnswer
  /\ UNCHANGED <<coverVars, off, on, in0cases, in1cases, first_iteration>>

\* The alarm rings after a satisfiable query has returned and before the
\* timer is disarmed.  res was changed since sigsetjmp and is not volatile:
\* if its old value survives this is SolveTimeout; if the new one does, the
\* model of the rebuilt solver, which has none, is read.
LateAlarm ==
  /\ Timeouts
  /\ pc = "solve"
  /\ Satisfiable
  /\ pc' = "undefined"
  /\ UNCHANGED <<coverVars, off, on, in0cases, in1cases, no_in0case, no_in1case,
                 flag, first_iteration>>

\* Select's loop; its return value is ignored, the solution is looked at.
Cover ==
  /\ pc = "cover"
  /\ SelectStep
  /\ UNCHANGED <<off, on, searchVars>>

\* Back from Select: a cover is tried out by the next query, none ends the
\* search.
CoverReturns ==
  /\ pc = "cover" /\ ~selecting
  /\ pc' = IF solution_c # <<>> THEN "solve" ELSE "done"
  /\ UNCHANGED <<coverVars, off, on, in0cases, in1cases, no_in0case, no_in1case,
                 flag, first_iteration>>

MergeNext == SolveSat \/ SolveUnsat \/ SolveTimeout \/ LateAlarm \/ Cover \/ CoverReturns

MergeSpec == MergeInit /\ [][MergeNext]_mergeVars

\* One thread, and a complete solver and set cover: it always moves on.
MergeFairSpec == MergeSpec /\ WF_mergeVars(MergeNext)

-----------------------------------------------------------------------------
\* The types of Solve_c's variables; what it records are values the SAT solver
\* may return (mergeselection.cpp 129-145, 191-232).
MergeTypeOK ==
  /\ CoverTypeOK
  /\ off \subseteq Valuations /\ on \subseteq Valuations
  /\ in0cases \subseteq off /\ in1cases \subseteq on
  /\ no_in0case \in BOOLEAN /\ no_in1case \in BOOLEAN
  /\ flag \in BOOLEAN /\ first_iteration \in BOOLEAN
  /\ pc \in {"solve", "cover", "done", "undefined"}

Separates(inputs, zeros, ones) == \A x \in zeros, y \in ones : ~Agree(x, y, inputs)

\* The rows handed to the set cover are exactly the pairs of a known in0case
\* and a known in1case, whichever kinds of case the rounds recorded
\* (mergeselection.cpp 191-232, 285).
RowsAreAllPairs == rows = in0cases \X in1cases

\* Alarms or not, a solution that is tried out or handed back separates
\* every in0case from every in1case found so far (lines 183-291).
KnownCasesSeparated ==
  pc \in {"solve", "done"} /\ solution_c # <<>> =>
    Separates(solution_inputs, in0cases, in1cases)

\* The line "Solution is found" (242-246) is printed with the truth: no
\* minterm where the seed must be 0 looks, on the inputs of the solution, like
\* one where it must be 1.
SolutionSeparates ==
  pc = "done" /\ solution_c # <<>> => Separates(solution_inputs, off, on)

\* A cluster that could replace the seed's inputs on its own is not missed:
\* the search then ends with one cluster (lines 129-292 with Select's greedy
\* rule), unless the seed is a constant (the break of line 237).
SingleSeparatorIsFound ==
  pc = "done" /\ off # {} /\ on # {}
    /\ (\E i \in DOMAIN cands : Separates(cands[i], off, on))
  => Len(solution_c) = 1

\* Every satisfiable query brings rows the cover has not seen, alarms or not:
\* no round of Solve_c repeats an earlier one (lines 107-127, 183-232).
EveryAnswerAddsRows ==
  [][pc = "solve" /\ pc' = "cover" => rows # rows' /\ rows \subseteq rows']_mergeVars

\* Solve_c's while (1) is left, alarms or not.
SearchEnds == <>(pc \in {"done", "undefined"})

\* The abstract search: it has answered when Solve_c has returned.
Abstract == INSTANCE SeparatorSearch
  WITH answered <- pc = "done", chosen <- IF pc = "done" THEN solution_c ELSE <<>>

\* Without alarms, Solve_c implements the abstract search: it answers, once,
\* with clusters that are right, and with none only when it may
\* (mergeselection.cpp 129-292).
ImplementsSearch == Abstract!Spec
=============================================================================
