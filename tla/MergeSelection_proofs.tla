----------------------- MODULE MergeSelection_proofs -----------------------
(***************************************************************************)
(* Solve_c for every set of candidate inputs, list of candidates, limit    *)
(* and requirement.                                                        *)
(*                                                                         *)
(* The invariant: the rows are the pairs of known cases, the mask holds    *)
(* what the clusters selected so far cover, and flag, with the two no_...  *)
(* switches, says which pairs of cases the last query has ruled out for    *)
(* the current solution.                                                   *)
(***************************************************************************)
EXTENDS MergeSelection, TLAPS

\* The switches: never both on; none before the first answer, which is also
\* when there are no rows; flag only between an exhausted query and the next.
SearchControl ==
  /\ ~(no_in0case /\ no_in1case)
  /\ first_iteration =>
       ~no_in0case /\ ~no_in1case /\ solution_c = <<>> /\ pc # "cover"
  /\ first_iteration = (rows = {})
  /\ pc # "cover" => ~selecting
  /\ pc = "cover" => ~flag

\* The mask holds what the selected clusters cover, all rows in the end.
MaskIsCovered ==
  pc = "cover" =>
    /\ selecting => mask = GenOr(solution_inputs)
    /\ ~selecting /\ solution_c # <<>> => rows = GenOr(solution_inputs)

\* Why the last two queries are enough: flag says that one kind of case was
\* just found exhausted for this very solution.
FlagMeaning ==
  ~Timeouts /\ pc = "solve" /\ ~first_iteration /\ flag =>
    /\ no_in0case # no_in1case
    /\ no_in0case => Separates(solution_inputs, off \ in0cases, on)
    /\ no_in1case => Separates(solution_inputs, off, on \ in1cases)

MergeInv ==
  /\ MergeTypeOK
  /\ SearchControl
  /\ RowsAreAllPairs
  /\ MaskIsCovered
  /\ KnownCasesSeparated

-----------------------------------------------------------------------------
\* A set of inputs covers the row of two valuations iff they disagree on it
\* (the rows built in mergeselection.cpp 198-225, GenOr).
LEMMA CoversIsDisagree ==
  ASSUME NEW x, NEW y, NEW S
  PROVE  Covers(S, <<x, y>>) <=> ~Agree(x, y, S)
BY DEF Covers, Agree, Columns

\* Rows that are all pairs of two sets of cases and are all covered separate
\* the two sets.
LEMMA CoveredPairsSeparate ==
  ASSUME NEW A, NEW B, NEW S, \A r \in A \X B : Covers(S, r)
  PROVE  Separates(S, A, B)
<1> SUFFICES ASSUME NEW x \in A, NEW y \in B PROVE ~Agree(x, y, S)
  BY DEF Separates
<1>1. <<x, y>> \in A \X B
  OBVIOUS
<1> QED BY <1>1, CoversIsDisagree

\* What covers a row still covers it after more inputs are selected.
LEMMA GenOrOfUnion ==
  ASSUME NEW S, NEW T
  PROVE  GenOr(S \cup T) = GenOr(S) \cup GenOr(T)
BY DEF GenOr, Covers

-----------------------------------------------------------------------------
\* The cover's steps keep its type.
LEMMA SelectKeepsType ==
  ASSUME CoverTypeOK, SelectStep
  PROVE  CoverTypeOK'
<1> USE DEF CoverTypeOK
<1>0. <<>> \in Seq(DOMAIN cands)
  OBVIOUS
<1>1. CASE SelectOnce
  <2>1. PICK i \in DOMAIN cands :
          /\ mask' = mask \cup GenOr(cands[i])
          /\ solution_c' = Append(solution_c, i)
          /\ solution_inputs' = solution_inputs \cup cands[i]
    BY <1>1 DEF SelectOnce
  <2>2. cands[i] \subseteq CandInputs
    BY DEF Valuations
  <2>3. solution_c' \in Seq(DOMAIN cands)
    BY <2>1
  <2>4. mask' \subseteq rows
    BY <2>1 DEF GenOr
  <2> QED BY <1>1, <2>1, <2>2, <2>3, <2>4 DEF SelectOnce
<1>2. CASE SelectOverLimit
  <2>1. mask' \subseteq rows
    BY <1>2 DEF SelectOverLimit, GenOr
  <2>2. solution_c' \in Seq(DOMAIN cands')
    BY <1>0, <1>2 DEF SelectOverLimit
  <2> QED BY <1>2, <2>1, <2>2 DEF SelectOverLimit
<1>3. CASE SelectFails
  <2>1. solution_c' \in Seq(DOMAIN cands')
    BY <1>0, <1>3 DEF SelectFails
  <2> QED BY <1>3, <2>1 DEF SelectFails
<1>4. CASE SelectDone
  BY <1>4 DEF SelectDone
<1> QED BY <1>1, <1>2, <1>3, <1>4 DEF SelectStep

\* Adding rows of known valuations keeps the cover's type (setcover_m.cpp
\* AddRows).
LEMMA AddRowsKeepsType ==
  ASSUME CoverTypeOK, NEW new \in SUBSET (Valuations \X Valuations), AddRows(new)
  PROVE  CoverTypeOK'
<1>1. <<>> \in Seq(DOMAIN cands')
  BY DEF AddRows
<1>2. rows' \subseteq Valuations \X Valuations
  BY DEF AddRows, CoverTypeOK
<1> QED BY <1>1, <1>2 DEF AddRows, CoverTypeOK

\* The rows of a round complete the pairs of the known cases; while only one
\* kind of case is recorded there is a known case of the other kind, so a
\* round always brings rows.
LEMMA NewRowsCompletePairs ==
  ASSUME MergeTypeOK, SearchControl, RowsAreAllPairs,
         NEW x \in off, NEW y \in on, IsModel(x, y),
         in0cases' = IF no_in0case THEN in0cases ELSE in0cases \cup {x},
         in1cases' = IF no_in1case THEN in1cases ELSE in1cases \cup {y}
  PROVE  /\ NewRows(x, y) \subseteq Valuations \X Valuations
         /\ rows \cup NewRows(x, y) = in0cases' \X in1cases'
         /\ NewRows(x, y) \subseteq rows => FALSE
<1> USE DEF MergeTypeOK, SearchControl, RowsAreAllPairs, NewRows, IsModel
<1>1. x \in Valuations /\ y \in Valuations /\ in0cases' \subseteq Valuations
  OBVIOUS
<1>2. rows \cup NewRows(x, y) = in0cases' \X in1cases'
  <2>1. CASE ~no_in0case /\ ~no_in1case
    BY <2>1
  <2>2. CASE ~no_in0case /\ no_in1case
    BY <2>2
  <2>3. CASE no_in0case /\ ~no_in1case
    BY <2>3
  <2> QED BY <2>1, <2>2, <2>3
<1>3. NewRows(x, y) \subseteq Valuations \X Valuations
  BY <1>1
<1>4. \E r \in NewRows(x, y) : r \notin rows
  <2>1. CASE ~no_in0case /\ ~no_in1case
    <3>1. <<x, y>> \in NewRows(x, y) /\ <<x, y>> \notin rows
      BY <2>1
    <3> QED BY <3>1
  <2>2. CASE no_in0case \/ no_in1case
    <3>1. PICK u \in in0cases, v \in in1cases : TRUE
      BY <2>2
    <3>2. CASE no_in0case
      <4>1. <<u, y>> \in NewRows(x, y) /\ <<u, y>> \notin rows
        BY <3>1, <3>2
      <4> QED BY <4>1
    <3>3. CASE no_in1case
      <4>1. <<x, v>> \in NewRows(x, y) /\ <<x, v>> \notin rows
        BY <3>1, <3>3
      <4> QED BY <4>1
    <3> QED BY <2>2, <3>2, <3>3
  <2> QED BY <2>1, <2>2
<1> QED BY <1>2, <1>3, <1>4

-----------------------------------------------------------------------------
\* The initial states satisfy the invariant.
LEMMA InitEstablishes == MergeInit => MergeInv
<1> SUFFICES ASSUME MergeInit PROVE MergeInv
  OBVIOUS
<1> USE DEF MergeInit, CoverInit
<1>1. PICK req \in Requirements :
        /\ off = Project(req[1], CandidateInputs)
        /\ on  = Project(req[2], CandidateInputs)
  OBVIOUS
<1>2. req[1] \subseteq Valuations /\ req[2] \subseteq Valuations
  BY RequirementsAssumption
<1>3. off \subseteq Valuations /\ on \subseteq Valuations
  <2>1. ASSUME NEW vals \in SUBSET Valuations, NEW inputs
        PROVE  Project(vals, inputs) \subseteq Valuations
    BY DEF Project, Valuations
  <2> QED BY <1>1, <1>2, <2>1
<1>4. cands \in Seq(Valuations) /\ limit \in Nat \ {0}
  BY CandidateListsAssumption, LimitsAssumption DEF Valuations
<1>5. <<>> \in Seq(DOMAIN cands)
  OBVIOUS
<1>6. MergeTypeOK
  BY <1>3, <1>4, <1>5 DEF MergeTypeOK, CoverTypeOK
<1> QED BY <1>6 DEF MergeInv, SearchControl, RowsAreAllPairs, MaskIsCovered, KnownCasesSeparated

\* A satisfiable query: new cases, new rows, an empty mask and solution.
LEMMA SolveSatKeeps == MergeInv /\ SolveSat => MergeInv'
<1> SUFFICES ASSUME MergeInv, SolveSat PROVE MergeInv'
  OBVIOUS
<1> USE DEF MergeInv
<1>1. PICK x \in off, y \in on :
        /\ IsModel(x, y)
        /\ in0cases' = IF no_in0case THEN in0cases ELSE in0cases \cup {x}
        /\ in1cases' = IF no_in1case THEN in1cases ELSE in1cases \cup {y}
        /\ AddRows(NewRows(x, y))
  BY DEF SolveSat
<1>2. /\ NewRows(x, y) \subseteq Valuations \X Valuations
      /\ rows \cup NewRows(x, y) = in0cases' \X in1cases'
      /\ ~(NewRows(x, y) \subseteq rows)
  BY <1>1, NewRowsCompletePairs
<1>3. CoverTypeOK'
  BY <1>1, <1>2, AddRowsKeepsType DEF MergeTypeOK
<1>4. MergeTypeOK'
  BY <1>1, <1>3 DEF MergeTypeOK, SolveSat
<1>5. RowsAreAllPairs'
  BY <1>1, <1>2 DEF RowsAreAllPairs, AddRows
<1>6. rows' # {}
  BY <1>1, <1>2 DEF AddRows
<1>7. SearchControl'
  BY <1>6 DEF SearchControl, SolveSat
<1>8. MaskIsCovered'
  <2>1. GenOr({})' = {}
    BY DEF GenOr, Covers
  <2> QED BY <1>1, <2>1 DEF MaskIsCovered, AddRows, SolveSat
<1>9. KnownCasesSeparated'
  BY DEF KnownCasesSeparated, SolveSat
<1> QED BY <1>4, <1>5, <1>7, <1>8, <1>9

\* A query taken for unsatisfiable only moves the switches and the flag.
LEMMA NoAnswerKeeps ==
  ASSUME MergeInv, pc = "solve", NoAnswer,
         UNCHANGED <<coverVars, off, on, in0cases, in1cases, first_iteration>>
  PROVE  MergeInv'
<1> USE DEF MergeInv, NoAnswer, coverVars
<1>1. MergeTypeOK'
  <2>1. CoverTypeOK'
    BY DEF MergeTypeOK, CoverTypeOK
  <2> QED BY <2>1 DEF MergeTypeOK
<1>2. SearchControl'
  BY DEF SearchControl
<1>3. RowsAreAllPairs'
  BY DEF RowsAreAllPairs
<1>4. MaskIsCovered'
  BY DEF MaskIsCovered
<1>5. KnownCasesSeparated'
  BY DEF KnownCasesSeparated, Separates, Agree
<1> QED BY <1>1, <1>2, <1>3, <1>4, <1>5

\* The late alarm ends the search as far as its meaning goes and touches nothing
\* else.
LEMMA LateAlarmKeeps == MergeInv /\ LateAlarm => MergeInv'
<1> SUFFICES ASSUME MergeInv, LateAlarm PROVE MergeInv'
  OBVIOUS
<1> USE DEF MergeInv, LateAlarm, coverVars
<1>1. MergeTypeOK'
  <2>1. CoverTypeOK'
    BY DEF MergeTypeOK, CoverTypeOK
  <2> QED BY <2>1 DEF MergeTypeOK
<1> QED BY <1>1 DEF SearchControl, RowsAreAllPairs, MaskIsCovered, KnownCasesSeparated

\* A turn of Select's loop: the mask grows with the selected inputs.
LEMMA CoverKeeps == MergeInv /\ Cover => MergeInv'
<1> SUFFICES ASSUME MergeInv, Cover PROVE MergeInv'
  OBVIOUS
<1> USE DEF MergeInv, Cover, searchVars
<1>1. rows' = rows
  BY DEF SelectStep, SelectOnce, SelectOverLimit, SelectFails, SelectDone
<1>2. MergeTypeOK'
  BY SelectKeepsType DEF MergeTypeOK
<1>3. SearchControl'
  BY <1>1 DEF SearchControl
<1>4. RowsAreAllPairs'
  BY <1>1 DEF RowsAreAllPairs
<1>5. MaskIsCovered'
  <2>1. CASE SelectOnce
    <3>1. PICK i \in DOMAIN cands :
            /\ mask' = mask \cup GenOr(cands[i])
            /\ solution_inputs' = solution_inputs \cup cands[i]
      BY <2>1 DEF SelectOnce
    <3>2. mask = GenOr(solution_inputs) /\ selecting'
      BY <2>1 DEF MaskIsCovered, SelectOnce, MergeTypeOK, CoverTypeOK
    <3>3. mask' = GenOr(solution_inputs')
      BY <3>1, <3>2, GenOrOfUnion
    <3>4. GenOr(solution_inputs)' = GenOr(solution_inputs')
      BY <1>1 DEF GenOr, Covers
    <3> QED BY <3>2, <3>3, <3>4 DEF MaskIsCovered
  <2>2. CASE SelectOverLimit
    BY <2>2 DEF MaskIsCovered, SelectOverLimit
  <2>3. CASE SelectFails
    BY <2>3 DEF MaskIsCovered, SelectFails
  <2>4. CASE SelectDone
    BY <2>4 DEF MaskIsCovered, SelectDone, GenOr
  <2> QED BY <2>1, <2>2, <2>3, <2>4 DEF SelectStep
<1>6. KnownCasesSeparated'
  BY DEF KnownCasesSeparated
<1> QED BY <1>2, <1>3, <1>4, <1>5, <1>6

\* Back from Select with a solution: every pair of known cases is covered.
LEMMA CoverReturnsKeeps == MergeInv /\ CoverReturns => MergeInv'
<1> SUFFICES ASSUME MergeInv, CoverReturns PROVE MergeInv'
  OBVIOUS
<1> USE DEF MergeInv, CoverReturns, coverVars
<1>1. MergeTypeOK'
  <2>1. CoverTypeOK'
    BY DEF MergeTypeOK, CoverTypeOK
  <2> QED BY <2>1 DEF MergeTypeOK
<1>2. SearchControl'
  BY DEF SearchControl
<1>3. RowsAreAllPairs'
  BY DEF RowsAreAllPairs
<1>4. MaskIsCovered'
  BY DEF MaskIsCovered
<1>5. KnownCasesSeparated'
  <2>1. CASE solution_c # <<>>
    <3>1. \A r \in in0cases \X in1cases : Covers(solution_inputs, r)
      BY <2>1 DEF MaskIsCovered, RowsAreAllPairs, GenOr
    <3>2. Separates(solution_inputs, in0cases, in1cases)
      BY <3>1, CoveredPairsSeparate
    <3> QED BY <3>2 DEF KnownCasesSeparated, Separates, Agree
  <2>2. CASE solution_c = <<>>
    BY <2>2 DEF KnownCasesSeparated
  <2> QED BY <2>1, <2>2
<1> QED BY <1>1, <1>2, <1>3, <1>4, <1>5

\* Every step keeps the invariant, alarms or not.
LEMMA MergeInvStep == MergeInv /\ [MergeNext]_mergeVars => MergeInv'
<1> SUFFICES ASSUME MergeInv, [MergeNext]_mergeVars PROVE MergeInv'
  OBVIOUS
<1>1. CASE SolveSat
  BY <1>1, SolveSatKeeps
<1>2. CASE SolveUnsat
  BY <1>2, NoAnswerKeeps DEF SolveUnsat
<1>3. CASE SolveTimeout
  BY <1>3, NoAnswerKeeps DEF SolveTimeout
<1>4. CASE LateAlarm
  BY <1>4, LateAlarmKeeps
<1>5. CASE Cover
  BY <1>5, CoverKeeps
<1>6. CASE CoverReturns
  BY <1>6, CoverReturnsKeeps
<1>7. CASE UNCHANGED mergeVars
  <2> USE <1>7 DEF mergeVars, coverVars, searchVars, MergeInv
  <2>1. CoverTypeOK'
    BY DEF MergeTypeOK, CoverTypeOK
  <2>2. MergeTypeOK'
    BY <2>1 DEF MergeTypeOK
  <2>3. MaskIsCovered'
    BY DEF MaskIsCovered, GenOr, Covers
  <2>4. KnownCasesSeparated'
    BY DEF KnownCasesSeparated, Separates, Agree
  <2> QED BY <2>2, <2>3, <2>4 DEF SearchControl, RowsAreAllPairs
<1> QED BY <1>1, <1>2, <1>3, <1>4, <1>5, <1>6, <1>7 DEF MergeNext

-----------------------------------------------------------------------------
\* Type correctness, that the rows are all the pairs of known cases, and that
\* a solution separates every case found so far, alarms or not.
THEOREM SearchInvariant ==
  MergeSpec => [](MergeTypeOK /\ RowsAreAllPairs /\ KnownCasesSeparated)
<1>1. MergeInit => MergeInv
  BY InitEstablishes
<1>2. MergeInv /\ [MergeNext]_mergeVars => MergeInv'
  BY MergeInvStep
<1>3. MergeInv => MergeTypeOK /\ RowsAreAllPairs /\ KnownCasesSeparated
  BY DEF MergeInv
<1> QED BY <1>1, <1>2, <1>3, PTL DEF MergeSpec

\* Each satisfiable query adds rows (the loop of Solve_c never repeats a
\* round), alarms or not: the reason why the search ends on finite inputs.
THEOREM AnswersAddRows == MergeSpec => EveryAnswerAddsRows
<1> DEFINE Adds == pc = "solve" /\ pc' = "cover" => rows # rows' /\ rows \subseteq rows'
<1>1. MergeInit => MergeInv
  BY InitEstablishes
<1>2. MergeInv /\ [MergeNext]_mergeVars => MergeInv'
  BY MergeInvStep
<1>3. MergeInv /\ [MergeNext]_mergeVars => [Adds]_mergeVars
  <2> SUFFICES ASSUME MergeInv, MergeNext, pc = "solve", pc' = "cover"
               PROVE  rows # rows' /\ rows \subseteq rows'
    BY DEF Adds
  <2>1. SolveSat
    BY DEF MergeNext, SolveUnsat, SolveTimeout, NoAnswer, LateAlarm, Cover, CoverReturns
  <2>2. PICK x \in off, y \in on :
          /\ IsModel(x, y)
          /\ in0cases' = IF no_in0case THEN in0cases ELSE in0cases \cup {x}
          /\ in1cases' = IF no_in1case THEN in1cases ELSE in1cases \cup {y}
          /\ AddRows(NewRows(x, y))
    BY <2>1 DEF SolveSat
  <2>3. ~(NewRows(x, y) \subseteq rows)
    BY <2>2, NewRowsCompletePairs DEF MergeInv
  <2> QED BY <2>2, <2>3 DEF AddRows
<1> QED BY <1>1, <1>2, <1>3, PTL DEF MergeSpec, EveryAnswerAddsRows

-----------------------------------------------------------------------------
\* Two sets and the parts of them seen so far: ruling out the pairs with an
\* unseen member of either side, and those of seen members, rules out all.
LEMMA SeparatesByParts ==
  ASSUME NEW A, NEW B, NEW A0, NEW B0, NEW S,
         Separates(S, A \ A0, B), Separates(S, A, B \ B0), Separates(S, A0, B0)
  PROVE  Separates(S, A, B)
BY DEF Separates

\* What an unsatisfiable query says of the current solution.
LEMMA UnsatSeparates ==
  ASSUME ~Satisfiable
  PROVE  /\ no_in0case /\ ~no_in1case => Separates(solution_inputs, off, on \ in1cases)
         /\ ~no_in0case /\ no_in1case => Separates(solution_inputs, off \ in0cases, on)
BY DEF Satisfiable, IsModel, Separates

\* Without alarms the flag means what it says, and a solution that is handed
\* back is right.
FoundInv == MergeInv /\ FlagMeaning /\ SolutionSeparates

\* Without alarms every step keeps it; the work is in an unsatisfiable query,
\* whose three cases are the branches of lines 233-260.
LEMMA FoundInvStep ==
  ASSUME ~Timeouts
  PROVE  FoundInv /\ [MergeNext]_mergeVars => FoundInv'
<1> SUFFICES ASSUME FoundInv, [MergeNext]_mergeVars PROVE FlagMeaning' /\ SolutionSeparates'
  BY MergeInvStep DEF FoundInv
<1> USE DEF FoundInv
<1>1. CASE SolveSat
  BY <1>1 DEF SolveSat, FlagMeaning, SolutionSeparates
<1>2. CASE SolveUnsat
  <2> USE <1>2 DEF SolveUnsat
  <2>1. UNCHANGED <<solution_c, solution_inputs, off, on, in0cases, in1cases, first_iteration>>
    BY DEF coverVars
  <2>2. pc = "solve" /\ NoAnswer
    OBVIOUS
  <2>3. MergeTypeOK /\ SearchControl /\ KnownCasesSeparated
    BY DEF MergeInv
  <2>4. CASE first_iteration
    <3>1. solution_c' = <<>> /\ first_iteration'
      BY <2>1, <2>3, <2>4 DEF SearchControl
    <3> QED BY <3>1 DEF FlagMeaning, SolutionSeparates
  <2>5. CASE ~first_iteration /\ flag
    <3>1. pc' = "done"
      BY <2>2, <2>5 DEF NoAnswer
    <3>2. CASE solution_c # <<>>
      <4>1. Separates(solution_inputs, in0cases, in1cases)
        BY <2>2, <2>3, <3>2 DEF KnownCasesSeparated
      <4>2. Separates(solution_inputs, off \ in0cases, on)
        BY <2>2, <2>3, <2>5, UnsatSeparates DEF FlagMeaning, MergeTypeOK
      <4>3. Separates(solution_inputs, off, on \ in1cases)
        BY <2>2, <2>3, <2>5, UnsatSeparates DEF FlagMeaning, MergeTypeOK
      <4>4. Separates(solution_inputs, off, on)
        BY <4>1, <4>2, <4>3, SeparatesByParts
      <4> QED BY <2>1, <3>1, <4>4 DEF FlagMeaning, SolutionSeparates, Separates, Agree
    <3>3. CASE solution_c = <<>>
      BY <2>1, <3>1, <3>3 DEF FlagMeaning, SolutionSeparates
    <3> QED BY <3>2, <3>3
  <2>6. CASE ~first_iteration /\ ~flag /\ ~no_in1case /\ ~no_in0case
    BY <2>2, <2>6 DEF NoAnswer, FlagMeaning, SolutionSeparates
  <2>7. CASE ~first_iteration /\ ~flag /\ ~no_in1case /\ no_in0case
    <3>1. Separates(solution_inputs, off, on \ in1cases)
      BY <2>7, UnsatSeparates
    <3>2. pc' = "solve" /\ no_in1case' /\ ~no_in0case'
      BY <2>2, <2>7 DEF NoAnswer
    <3> QED BY <2>1, <3>1, <3>2 DEF FlagMeaning, SolutionSeparates, Separates, Agree
  <2>8. CASE ~first_iteration /\ ~flag /\ no_in1case /\ ~no_in0case
    <3>1. Separates(solution_inputs, off \ in0cases, on)
      BY <2>8, UnsatSeparates
    <3>2. pc' = "solve" /\ ~no_in1case' /\ no_in0case'
      BY <2>2, <2>8 DEF NoAnswer
    <3> QED BY <2>1, <3>1, <3>2 DEF FlagMeaning, SolutionSeparates, Separates, Agree
  <2>9. ~(no_in0case /\ no_in1case)
    BY <2>3 DEF SearchControl
  <2> QED BY <2>3, <2>4, <2>5, <2>6, <2>7, <2>8, <2>9 DEF MergeTypeOK
<1>3. CASE SolveTimeout \/ LateAlarm
  BY <1>3 DEF SolveTimeout, LateAlarm
<1>4. CASE Cover
  BY <1>4 DEF Cover, searchVars, FlagMeaning, SolutionSeparates
<1>5. CASE CoverReturns
  <2>1. ~flag'
    BY <1>5 DEF CoverReturns, MergeInv, SearchControl
  <2> QED BY <1>5, <2>1 DEF CoverReturns, coverVars, FlagMeaning, SolutionSeparates
<1>6. CASE UNCHANGED mergeVars
  BY <1>6 DEF mergeVars, coverVars, searchVars, FlagMeaning, SolutionSeparates, Separates, Agree
<1> QED BY <1>1, <1>2, <1>3, <1>4, <1>5, <1>6 DEF MergeNext

\* Without alarms, "Solution is found" is true for every instance: the inputs
\* of the clusters handed back separate every minterm where the seed must be
\* 0 from every one where it must be 1.
THEOREM FoundSolutionSeparates ==
  ASSUME ~Timeouts
  PROVE  MergeSpec => []SolutionSeparates
<1>1. MergeInit => FoundInv
  BY InitEstablishes DEF FoundInv, MergeInit, FlagMeaning, SolutionSeparates
<1>2. FoundInv /\ [MergeNext]_mergeVars => FoundInv'
  BY FoundInvStep
<1>3. FoundInv => SolutionSeparates
  BY DEF FoundInv
<1> QED BY <1>1, <1>2, <1>3, PTL DEF MergeSpec
=============================================================================
