------------------------- MODULE SeedRewrite_proofs -------------------------
(***************************************************************************)
(* The rewrite of one seed, for every instance.  The search hands over a   *)
(* solution that separates off from on (MergeSelection_proofs); the        *)
(* enumeration stores, for each pattern of the solution's inputs, a value  *)
(* some care minterm asks for, and without alarms leaves no pattern out.   *)
(***************************************************************************)
EXTENDS SeedRewrite, MergeSelection_proofs

\* What the enumeration has stored, alarms or not.
StoredIsAskedFor ==
  /\ dc_in1cases \subseteq DC!PatternsOf(off)
  /\ dc_in2cases \subseteq DC!PatternsOf(on)

StageControl ==
  /\ stage \in {"search", "onset", "rewritten", "restored", "undefined"}
  /\ stage = "search" => dc_in1cases = {} /\ dc_in2cases = {} /\ dc_pc = "solve"
  /\ stage # "search" => pc = "done"
  /\ stage \in {"onset", "rewritten"} => solution_c # <<>>
  /\ stage = "rewritten" => node_inputs = solution_inputs /\ node_cube = dc_in2cases

RewriteInv ==
  /\ MergeInv
  /\ StageControl
  /\ StoredIsAskedFor
  /\ CubeIsAskedFor

-----------------------------------------------------------------------------
\* The steps after the search leave the search's state alone.
LEMMA FrozenKeepsMergeInv == MergeInv /\ UNCHANGED mergeVars => MergeInv'
BY MergeInvStep

\* The enumeration stores only patterns of care minterms.
LEMMA EnumerateStores ==
  ASSUME StoredIsAskedFor, Enumerate
  PROVE  StoredIsAskedFor'
<1> USE DEF StoredIsAskedFor
<1>1. UNCHANGED <<off, on, solution_inputs>>
  BY DEF Enumerate, mergeVars, coverVars
<1>2. DC!PatternsOf(off)' = DC!PatternsOf(off) /\ DC!PatternsOf(on)' = DC!PatternsOf(on)
  BY <1>1 DEF DC!PatternsOf, DC!Pattern
<1>3. CASE DC!FindCase
  <2>1. CASE \E m \in DC!Unblocked(off) : DC!RemoveCase(DC!Pattern(m), FALSE)
    BY <1>2, <2>1 DEF DC!Unblocked, DC!RemoveCase, DC!PatternsOf
  <2>2. CASE \E m \in DC!Unblocked(on) : DC!RemoveCase(DC!Pattern(m), TRUE)
    BY <1>2, <2>2 DEF DC!Unblocked, DC!RemoveCase, DC!PatternsOf
  <2> QED BY <1>3, <2>1, <2>2 DEF DC!FindCase
<1>4. CASE DC!FindSeenKey \/ DC!AssertFails \/ DC!NoMoreCases \/ DC!QueryTimesOut
  BY <1>2, <1>4
  DEF DC!FindSeenKey, DC!AssertFails, DC!NoMoreCases, DC!QueryTimesOut, DC!onSetVars
<1> QED BY <1>3, <1>4 DEF Enumerate, DC!OnSetNext

\* A seed starts with an empty enumeration and no new function.
LEMMA RewriteInit_Inv == RewriteInit => RewriteInv
<1> SUFFICES ASSUME RewriteInit PROVE RewriteInv
  OBVIOUS
<1>1. MergeInv
  BY InitEstablishes DEF RewriteInit
<1> QED BY <1>1 DEF RewriteInit, RewriteInv, StageControl, StoredIsAskedFor, CubeIsAskedFor

\* Every step of the search, the enumeration and the rewrite keeps the
\* invariant, alarms or not.
LEMMA RewriteInvStep == RewriteInv /\ [RewriteNext]_rewriteVars => RewriteInv'
<1> SUFFICES ASSUME RewriteInv, [RewriteNext]_rewriteVars PROVE RewriteInv'
  OBVIOUS
<1> USE DEF RewriteInv
<1>1. CASE Search
  <2>1. MergeInv'
    BY <1>1, MergeInvStep DEF Search
  <2>2. StageControl'
    BY <1>1 DEF Search, StageControl, dcVars
  <2>3. StoredIsAskedFor'
    BY <1>1 DEF Search, StageControl, dcVars, StoredIsAskedFor
  <2> QED BY <1>1, <2>1, <2>2, <2>3 DEF Search, CubeIsAskedFor
<1>2. CASE StartOnSet
  <2>1. MergeInv'
    BY <1>2, FrozenKeepsMergeInv DEF StartOnSet
  <2>2. solution_c # <<>>
    BY <1>2 DEF StartOnSet, IsUsable
  <2>3. StageControl'
    BY <1>2, <2>2 DEF StartOnSet, StageControl, mergeVars, coverVars, searchVars
  <2>4. StoredIsAskedFor'
    BY <1>2 DEF StartOnSet, StageControl, StoredIsAskedFor
  <2> QED BY <1>2, <2>1, <2>3, <2>4 DEF StartOnSet, CubeIsAskedFor
<1>3. CASE RestoreSeed
  <2>1. MergeInv'
    BY <1>3, FrozenKeepsMergeInv DEF RestoreSeed
  <2>2. StageControl'
    BY <1>3 DEF RestoreSeed, StageControl, mergeVars, coverVars, searchVars
  <2>3. StoredIsAskedFor'
    BY <1>3 DEF RestoreSeed, StageControl, StoredIsAskedFor, dcVars
  <2> QED BY <1>3, <2>1, <2>2, <2>3 DEF RestoreSeed, CubeIsAskedFor
<1>4. CASE Enumerate
  <2>1. MergeInv'
    BY <1>4, FrozenKeepsMergeInv DEF Enumerate
  <2>2. StageControl'
    BY <1>4 DEF Enumerate, StageControl, mergeVars, coverVars, searchVars
  <2> QED BY <1>4, <2>1, <2>2, EnumerateStores DEF Enumerate, CubeIsAskedFor
<1>5. CASE Restruct
  <2>1. MergeInv'
    BY <1>5, FrozenKeepsMergeInv DEF Restruct
  <2>2. UNCHANGED <<pc, solution_c, solution_inputs, off, on, dc_in1cases, dc_in2cases>>
    BY <1>5 DEF Restruct, mergeVars, coverVars, searchVars, dcVars
  <2>3. StageControl'
    BY <1>5, <2>2 DEF Restruct, StageControl
  <2>4. StoredIsAskedFor'
    BY <2>2 DEF StoredIsAskedFor, DC!PatternsOf, DC!Pattern
  <2>5. \A p \in dc_in2cases : \E m \in on : p = m \cap solution_inputs
    BY DEF StoredIsAskedFor, DC!PatternsOf, DC!Pattern
  <2>6. CubeIsAskedFor'
    BY <1>5, <2>2, <2>5 DEF Restruct, CubeIsAskedFor
  <2> QED BY <2>1, <2>3, <2>4, <2>6
<1>6. CASE RestructEmpty
  <2>1. MergeInv'
    BY <1>6, FrozenKeepsMergeInv DEF RestructEmpty
  <2>2. UNCHANGED <<pc, solution_c, solution_inputs, off, on, dc_in1cases, dc_in2cases>>
    BY <1>6 DEF RestructEmpty, mergeVars, coverVars, searchVars, dcVars
  <2>3. StageControl'
    BY <1>6, <2>2 DEF RestructEmpty, StageControl
  <2>4. StoredIsAskedFor'
    BY <2>2 DEF StoredIsAskedFor, DC!PatternsOf, DC!Pattern
  <2> QED BY <1>6, <2>1, <2>3, <2>4 DEF RestructEmpty, CubeIsAskedFor
<1>7. CASE UNCHANGED rewriteVars
  <2> USE <1>7 DEF rewriteVars
  <2>1. MergeInv'
    BY FrozenKeepsMergeInv
  <2>2. UNCHANGED <<pc, solution_c, solution_inputs, off, on>>
    BY DEF mergeVars, coverVars, searchVars
  <2>3. UNCHANGED <<stage, dcVars, nodeVars>>
    OBVIOUS
  <2>4. StageControl'
    BY <2>2, <2>3 DEF StageControl, dcVars, nodeVars
  <2>5. StoredIsAskedFor'
    BY <2>2, <2>3 DEF StoredIsAskedFor, DC!PatternsOf, DC!Pattern, dcVars
  <2> QED BY <2>1, <2>2, <2>3, <2>4, <2>5 DEF CubeIsAskedFor, nodeVars
<1> QED BY <1>1, <1>2, <1>3, <1>4, <1>5, <1>6, <1>7 DEF RewriteNext

\* Alarms, colliding keys or not, the cube of a rewritten seed is not empty and
\* gives 1 only where some minterm asks for it.
THEOREM CubeAlwaysAskedFor == RewriteSpec => []CubeIsAskedFor
<1>1. RewriteInv => CubeIsAskedFor
  BY DEF RewriteInv
<1> QED BY <1>1, RewriteInit_Inv, RewriteInvStep, PTL DEF RewriteSpec

-----------------------------------------------------------------------------
\* The types, apart from the search's: the bits of a pattern that fit the int
\* are of the solution's inputs, and so are the rows of the seed's cube.
RewriteTypeInv ==
  /\ stage = "search" => dc_packed = {}
  /\ dc_packed \subseteq solution_inputs
  /\ dc_pc \in {"solve", "done", "aborted"}
  /\ node_inputs \subseteq CandInputs
  /\ node_cube \subseteq SUBSET node_inputs

\* The stored cases are patterns of the solution's inputs.
LEMMA CasesArePatterns ==
  ASSUME RewriteInv
  PROVE  /\ dc_in1cases \subseteq SUBSET solution_inputs
         /\ dc_in2cases \subseteq SUBSET solution_inputs
         /\ solution_inputs \subseteq CandInputs
<1>1. solution_inputs \subseteq CandInputs
  BY DEF RewriteInv, MergeInv, MergeTypeOK, CoverTypeOK
<1>2. \A ms : DC!PatternsOf(ms) \subseteq SUBSET solution_inputs
  BY DEF DC!PatternsOf, DC!Pattern
<1> QED BY <1>1, <1>2 DEF RewriteInv, StoredIsAskedFor

\* Every step keeps the types.
LEMMA RewriteTypeStep ==
  RewriteInv /\ RewriteTypeInv /\ [RewriteNext]_rewriteVars => RewriteTypeInv'
<1> SUFFICES ASSUME RewriteInv, RewriteTypeInv, [RewriteNext]_rewriteVars PROVE RewriteTypeInv'
  OBVIOUS
<1> USE DEF RewriteTypeInv
<1>1. CASE Search
  BY <1>1 DEF Search, dcVars, nodeVars
<1>2. CASE StartOnSet
  <2>1. dc_packed' \subseteq solution_inputs /\ solution_inputs' = solution_inputs
    BY <1>2 DEF StartOnSet, DC!IsPacking, mergeVars, coverVars
  <2> QED BY <1>2, <2>1 DEF StartOnSet, nodeVars
<1>3. CASE RestoreSeed
  BY <1>3 DEF RestoreSeed, dcVars, nodeVars, mergeVars, coverVars
<1>4. CASE Enumerate
  <2>1. dc_pc' \in {"solve", "done", "aborted"}
    BY <1>4 DEF Enumerate, DC!OnSetNext, DC!FindCase, DC!FindSeenKey, DC!AssertFails,
                DC!NoMoreCases, DC!QueryTimesOut, DC!onSetVars
  <2> QED BY <1>4, <2>1 DEF Enumerate, nodeVars, mergeVars, coverVars
<1>5. CASE Restruct
  BY <1>5, CasesArePatterns DEF Restruct, dcVars, mergeVars, coverVars
<1>6. CASE RestructEmpty
  BY <1>6 DEF RestructEmpty, dcVars, nodeVars, mergeVars, coverVars
<1>7. CASE UNCHANGED rewriteVars
  BY <1>7 DEF rewriteVars, dcVars, nodeVars, mergeVars, coverVars
<1> QED BY <1>1, <1>2, <1>3, <1>4, <1>5, <1>6, <1>7 DEF RewriteNext

\* Type correctness of the whole: among the rest, that the rows of the cube
\* Restruct writes are over the inputs it links (node.cpp 543-560).
THEOREM RewriteIsWellTyped == RewriteSpec => []RewriteTypeOK
<1>1. RewriteInit => RewriteTypeInv
  <2> SUFFICES ASSUME RewriteInit PROVE RewriteTypeInv
    OBVIOUS
  <2> QED BY DEF RewriteInit, RewriteTypeInv
<1>2. RewriteInv /\ RewriteTypeInv => RewriteTypeOK
  <2> SUFFICES ASSUME RewriteInv, RewriteTypeInv PROVE RewriteTypeOK
    OBVIOUS
  <2>1. DC!OnSetTypeOK
    BY CasesArePatterns DEF DC!OnSetTypeOK, RewriteTypeInv
  <2> QED BY <2>1 DEF RewriteTypeOK, RewriteInv, RewriteTypeInv, MergeInv, StageControl
<1> QED BY <1>1, <1>2, RewriteInit_Inv, RewriteInvStep, RewriteTypeStep, PTL DEF RewriteSpec

-----------------------------------------------------------------------------
\* Without alarms the enumeration leaves no care pattern out.
NothingLeftOut == dc_pc = "done" => DC!PatternsOf(off \cup on) \subseteq DC!Recorded

RightInv ==
  /\ RewriteInv
  /\ FoundInv
  /\ NothingLeftOut
  /\ RewriteIsCorrect
  /\ RestructIsDefined

\* The steps after the search leave its answer right.
LEMMA FrozenKeepsFoundInv ==
  ASSUME ~Timeouts
  PROVE  FoundInv /\ UNCHANGED mergeVars => FoundInv'
BY FoundInvStep

\* The patterns enumerated when the loop is left decide every care minterm.
LEMMA EnumerationDecides ==
  ASSUME RightInv, stage = "onset", dc_pc = "done"
  PROVE  /\ \A m \in off : m \cap solution_inputs \notin dc_in2cases
         /\ \A m \in on : m \cap solution_inputs \in dc_in2cases
         /\ dc_in2cases # {}
<1> USE DEF RightInv
<1>1. Separates(solution_inputs, off, on)
  BY DEF RewriteInv, StageControl, FoundInv, SolutionSeparates
<1>2. \A x \in off, y \in on : x \cap solution_inputs # y \cap solution_inputs
  BY <1>1 DEF Separates, Agree
<1>3. \A p \in dc_in1cases : \E x \in off : p = x \cap solution_inputs
  BY DEF RewriteInv, StoredIsAskedFor, DC!PatternsOf, DC!Pattern
<1>4. \A p \in dc_in2cases : \E y \in on : p = y \cap solution_inputs
  BY DEF RewriteInv, StoredIsAskedFor, DC!PatternsOf, DC!Pattern
<1>5. \A m \in on : m \cap solution_inputs \in dc_in1cases \cup dc_in2cases
  BY DEF NothingLeftOut, DC!PatternsOf, DC!Pattern, DC!Recorded
<1>6. \A m \in off : m \cap solution_inputs \notin dc_in2cases
  BY <1>2, <1>4
<1>7. \A m \in on : m \cap solution_inputs \in dc_in2cases
  BY <1>2, <1>3, <1>5
<1>8. on # {}
  <2>1. solution_c # <<>>
    BY DEF RewriteInv, StageControl
  <2>2. in1cases # {} /\ in1cases \subseteq on
    BY <2>1 DEF RewriteInv, MergeInv, SearchControl, RowsAreAllPairs, MergeTypeOK
  <2> QED BY <2>2
<1> QED BY <1>6, <1>7, <1>8

\* Without alarms every step keeps the answer right: the search's, then the
\* enumeration's, then the seed's.
LEMMA RightInvStep ==
  ASSUME ~Timeouts
  PROVE  RightInv /\ [RewriteNext]_rewriteVars => RightInv'
<1> SUFFICES ASSUME RightInv, [RewriteNext]_rewriteVars
             PROVE  FoundInv' /\ NothingLeftOut' /\ RewriteIsCorrect' /\ RestructIsDefined'
  BY RewriteInvStep DEF RightInv
<1> USE DEF RightInv
<1>1. CASE Search
  <2>1. FoundInv'
    BY <1>1, FoundInvStep DEF Search
  <2>2. dc_pc' = "solve" /\ stage' = "search"
    BY <1>1 DEF Search, dcVars, RewriteInv, StageControl
  <2> QED BY <2>1, <2>2 DEF NothingLeftOut, RewriteIsCorrect, RestructIsDefined
<1>2. CASE StartOnSet
  <2>1. FoundInv'
    BY <1>2, FrozenKeepsFoundInv DEF StartOnSet
  <2>2. dc_pc' = "solve" /\ stage' = "onset"
    BY <1>2 DEF StartOnSet, RewriteInv, StageControl
  <2> QED BY <2>1, <2>2 DEF NothingLeftOut, RewriteIsCorrect, RestructIsDefined
<1>3. CASE RestoreSeed
  <2>1. FoundInv'
    BY <1>3, FrozenKeepsFoundInv DEF RestoreSeed
  <2>2. dc_pc' = "solve" /\ stage' = "restored"
    BY <1>3 DEF RestoreSeed, dcVars, RewriteInv, StageControl
  <2> QED BY <2>1, <2>2 DEF NothingLeftOut, RewriteIsCorrect, RestructIsDefined
<1>4. CASE Enumerate
  <2>1. FoundInv'
    BY <1>4, FrozenKeepsFoundInv DEF Enumerate
  <2>2. stage' = "onset"
    BY <1>4 DEF Enumerate
  <2>3. UNCHANGED <<off, on, solution_inputs>>
    BY <1>4 DEF Enumerate, mergeVars, coverVars
  <2>4. NothingLeftOut'
    <3>1. CASE DC!FindCase
      <4>1. dc_pc' = "solve"
        BY <3>1 DEF DC!FindCase
      <4> QED BY <4>1 DEF NothingLeftOut
    <3>2. CASE DC!FindSeenKey
      <4>1. dc_pc' = "solve"
        BY <3>2 DEF DC!FindSeenKey, DC!onSetVars
      <4> QED BY <4>1 DEF NothingLeftOut
    <3>3. CASE DC!NoMoreCases
      <4>1. \A m \in off \cup on : m \cap solution_inputs \in dc_in1cases \cup dc_in2cases
        BY <3>3 DEF DC!NoMoreCases, DC!Unblocked, DC!Pattern, DC!Recorded
      <4>2. UNCHANGED <<dc_in1cases, dc_in2cases>>
        BY <3>3 DEF DC!NoMoreCases
      <4> QED BY <2>3, <4>1, <4>2 DEF NothingLeftOut, DC!PatternsOf, DC!Pattern, DC!Recorded
    <3>4. CASE DC!QueryTimesOut
      BY <3>4 DEF DC!QueryTimesOut
    <3>5. CASE DC!AssertFails
      <4>1. dc_pc' = "aborted"
        BY <3>5 DEF DC!AssertFails
      <4> QED BY <4>1 DEF NothingLeftOut
    <3> QED BY <1>4, <3>1, <3>2, <3>3, <3>4, <3>5 DEF Enumerate, DC!OnSetNext
  <2> QED BY <2>1, <2>2, <2>4 DEF RewriteIsCorrect, RestructIsDefined
<1>5. CASE Restruct
  <2>1. FoundInv'
    BY <1>5, FrozenKeepsFoundInv DEF Restruct
  <2>2. UNCHANGED <<solution_inputs, off, on, dcVars>>
    BY <1>5 DEF Restruct, mergeVars, coverVars
  <2>3. NothingLeftOut'
    BY <2>2 DEF NothingLeftOut, DC!PatternsOf, DC!Pattern, DC!Recorded, dcVars
  <2>4. RewriteIsCorrect'
    BY <1>5, <2>2, EnumerationDecides DEF Restruct, RewriteIsCorrect
  <2> QED BY <1>5, <2>1, <2>3, <2>4 DEF Restruct, RestructIsDefined
<1>6. CASE RestructEmpty
  BY <1>6, EnumerationDecides DEF RestructEmpty
<1>7. CASE UNCHANGED rewriteVars
  <2> USE <1>7 DEF rewriteVars
  <2>1. FoundInv'
    BY FrozenKeepsFoundInv
  <2>2. UNCHANGED <<solution_inputs, off, on, stage, dcVars, nodeVars>>
    BY DEF mergeVars, coverVars
  <2>3. NothingLeftOut'
    BY <2>2 DEF NothingLeftOut, DC!PatternsOf, DC!Pattern, DC!Recorded, dcVars
  <2> QED BY <2>1, <2>2, <2>3 DEF RewriteIsCorrect, RestructIsDefined, nodeVars
<1> QED BY <1>1, <1>2, <1>3, <1>4, <1>5, <1>6, <1>7 DEF RewriteNext

\* Without alarms a rewrite is always right and never undefined: whatever the
\* candidates, the limits and the width of the int the patterns are packed
\* into, the new function of the seed agrees with the specification on every
\* minterm where the seed matters.
THEOREM RewriteCorrect ==
  ASSUME ~Timeouts
  PROVE  RewriteSpec => [](RewriteIsCorrect /\ RestructIsDefined)
<1>1. RewriteInit => RightInv
  <2> SUFFICES ASSUME RewriteInit PROVE RightInv
    OBVIOUS
  <2>1. FoundInv
    BY InitEstablishes DEF RewriteInit, FoundInv, MergeInit, FlagMeaning, SolutionSeparates
  <2> QED BY <2>1, RewriteInit_Inv
       DEF RewriteInit, RightInv, NothingLeftOut, RewriteIsCorrect, RestructIsDefined
<1>2. RightInv /\ [RewriteNext]_rewriteVars => RightInv'
  BY RightInvStep
<1>3. RightInv => RewriteIsCorrect /\ RestructIsDefined
  BY DEF RightInv
<1> QED BY <1>1, <1>2, <1>3, PTL DEF RewriteSpec
=============================================================================
