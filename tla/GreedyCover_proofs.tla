------------------------- MODULE GreedyCover_proofs -------------------------
(***************************************************************************)
(* What the greedy rule of the set cover gives Solve_c, for every list of  *)
(* candidates, limit and requirement: covers without waste, a first choice *)
(* within a factor of two, and no single separator missed; and with that   *)
(* the refinement of SeparatorSearch.                                      *)
(***************************************************************************)
EXTENDS MergeSelection_proofs, FiniteSetTheorems, WellFoundedInduction,
        SequenceTheorems

\* The solution under construction: its inputs are those of its clusters, it
\* stays within the limit and takes no cluster twice; once handed back it covers
\* the rows.
ChoiceInv ==
  /\ solution_inputs = InputsOf(solution_c)
  /\ Len(solution_c) <= limit
  /\ \A j, k \in DOMAIN solution_c : solution_c[j] = solution_c[k] => j = k
  /\ ~selecting /\ solution_c # <<>> => \A r \in rows : Covers(solution_inputs, r)

\* A search has seen finitely many cases, none before the first answer.
FiniteCases ==
  /\ IsFiniteSet(in0cases) /\ IsFiniteSet(in1cases)
  /\ first_iteration => in0cases = {} /\ in1cases = {}

\* No candidate covers more rows than the first one chosen.
FirstIsBest ==
  selecting /\ Len(solution_c) = 1 =>
    \A j \in DOMAIN cands :
      Cardinality(GenOr(cands[j])) <= Cardinality(GenOr(cands[solution_c[1]]))

GreedyInv == MergeInv /\ ChoiceInv /\ FiniteCases /\ FirstIsBest

\* With a candidate that would do alone, the first choice covers everything.
OneIsEnough ==
  (\E i \in DOMAIN cands : Separates(cands[i], off, on)) =>
    /\ Len(solution_c) <= 1
    /\ selecting /\ Len(solution_c) = 1 => mask = rows
    /\ pc = "cover" /\ ~selecting => solution_c # <<>>
    /\ pc = "solve" /\ ~first_iteration => solution_c # <<>>
    /\ pc = "done" => off = {} \/ on = {} \/ solution_c # <<>>

-----------------------------------------------------------------------------
\* A set of naturals that has a member has a least one.
LEMMA LeastNatural ==
  ASSUME NEW T, T \subseteq Nat, T # {}
  PROVE  \E m \in T : \A k \in T : m <= k
<1> DEFINE F == {0 .. m : m \in T}
<1>1. ASSUME NEW m \in T PROVE 0 .. m \in FiniteSubsetsOf(Nat)
  <2>1. IsFiniteSet(0 .. m)
    <3>1. 0 \in Int /\ m \in Int
      OBVIOUS
    <3> HIDE DEF F
    <3> QED BY <3>1, FS_Interval
  <2>2. 0 .. m \in SUBSET Nat
    OBVIOUS
  <2> QED BY <2>1, <2>2 DEF FiniteSubsetsOf
<1>2. F \subseteq FiniteSubsetsOf(Nat) /\ F # {}
  BY <1>1
<1>3. IsWellFoundedOn(StrictSubsetOrdering(Nat), FiniteSubsetsOf(Nat))
  BY FS_StrictSubsetOrderingWellFounded
<1>4. \E X \in F : \A Y \in F : ~(<<Y, X>> \in StrictSubsetOrdering(Nat))
  <2> HIDE DEF F
  <2> QED BY <1>2, <1>3, WFMin
<1>5. PICK X \in F : \A Y \in F : ~(<<Y, X>> \in StrictSubsetOrdering(Nat))
  BY <1>4
<1>6. PICK m \in T : X = 0 .. m
  OBVIOUS
<1>7. ASSUME NEW k \in T, k < m PROVE FALSE
  <2>1. 0 .. k \subseteq 0 .. m /\ m \in 0 .. m /\ m \notin 0 .. k
    BY <1>7
  <2>2. <<0 .. k, X>> \in StrictSubsetOrdering(Nat)
    BY <1>6, <2>1 DEF StrictSubsetOrdering
  <2> QED BY <1>5, <2>2
<1> QED BY <1>7

\* Of a finite set of rows, what a set of inputs covers and what it covers
\* beyond the mask are counted (GenOr and mask_count).
LEMMA CountsAreNaturals ==
  ASSUME IsFiniteSet(rows), NEW i
  PROVE  /\ IsFiniteSet(GenOr(cands[i]))
         /\ Cardinality(GenOr(cands[i])) \in Nat
         /\ Cardinality(GenOr(cands[i])) <= Cardinality(rows)
         /\ IsFiniteSet(GenOr(cands[i]) \ mask)
         /\ Gain(i) \in Nat
         /\ Gain(i) > 0 => \E r \in GenOr(cands[i]) : r \notin mask
<1>1. GenOr(cands[i]) \in SUBSET rows
  BY DEF GenOr
<1>2. IsFiniteSet(GenOr(cands[i]))
        /\ Cardinality(GenOr(cands[i])) <= Cardinality(rows)
  BY <1>1, FS_Subset
<1>3. GenOr(cands[i]) \ mask \in SUBSET rows
  BY <1>1
<1>4. IsFiniteSet(GenOr(cands[i]) \ mask)
  BY <1>3, FS_Subset
<1>5. Gain(i) \in Nat
  BY <1>4, FS_CardinalityType DEF Gain
<1>6. GenOr(cands[i]) \ mask = {} => Gain(i) = 0
  BY FS_EmptySet DEF Gain
<1>7. Cardinality(GenOr(cands[i])) \in Nat
  BY <1>2, FS_CardinalityType
<1> QED BY <1>2, <1>4, <1>5, <1>6, <1>7

\* Finitely many cases make finitely many rows.
LEMMA RowsAreFinite ==
  ASSUME RowsAreAllPairs, FiniteCases
  PROVE  IsFiniteSet(rows)
BY FS_Product DEF RowsAreAllPairs, FiniteCases

\* The inputs of a solution with one more cluster.
LEMMA InputsOfAppend ==
  ASSUME NEW s \in Seq(DOMAIN cands), NEW i \in DOMAIN cands
  PROVE  InputsOf(Append(s, i)) = InputsOf(s) \cup cands[i]
<1>1. DOMAIN Append(s, i) = 1 .. Len(s) + 1 /\ DOMAIN s = 1 .. Len(s) /\ Len(s) \in Nat
  OBVIOUS
<1>2. \A k \in DOMAIN s : Append(s, i)[k] = s[k]
  OBVIOUS
<1>3. Append(s, i)[Len(s) + 1] = i
  OBVIOUS
<1>4. ASSUME NEW x \in InputsOf(Append(s, i)) PROVE x \in InputsOf(s) \cup cands[i]
  <2>1. PICK k \in DOMAIN Append(s, i) : x \in cands[Append(s, i)[k]]
    BY DEF InputsOf
  <2>2. k \in DOMAIN s \/ k = Len(s) + 1
    BY <1>1
  <2> QED BY <1>2, <1>3, <2>1, <2>2 DEF InputsOf
<1>5. ASSUME NEW x \in InputsOf(s) PROVE x \in InputsOf(Append(s, i))
  <2>1. PICK k \in DOMAIN s : x \in cands[s[k]]
    BY DEF InputsOf
  <2>2. k \in DOMAIN Append(s, i)
    BY <1>1
  <2> QED BY <1>2, <2>1, <2>2 DEF InputsOf
<1>6. ASSUME NEW x \in cands[i] PROVE x \in InputsOf(Append(s, i))
  <2>1. Len(s) + 1 \in DOMAIN Append(s, i)
    BY <1>1
  <2> QED BY <1>3, <2>1 DEF InputsOf
<1> QED BY <1>4, <1>5, <1>6

\* The inputs of an empty solution.
LEMMA InputsOfEmpty == InputsOf(<<>>) = {}
BY DEF InputsOf

-----------------------------------------------------------------------------
\* The greedy choice is new: what is chosen covers a row that the clusters
\* chosen before do not (SelectOnce).
LEMMA ChosenIsNew ==
  ASSUME MergeInv, ChoiceInv, FiniteCases, selecting,
         NEW i \in DOMAIN cands, IsSelected(i)
  PROVE  \A k \in DOMAIN solution_c : solution_c[k] # i
<1>1. PICK r \in GenOr(cands[i]) : r \notin mask
  <2>1. IsFiniteSet(rows)
    BY RowsAreFinite DEF MergeInv
  <2> QED BY <2>1, CountsAreNaturals DEF IsSelected
<1>2. mask = GenOr(solution_inputs)
  BY DEF MergeInv, SearchControl, MaskIsCovered
<1>3. r \in rows /\ Covers(cands[i], r) /\ ~Covers(solution_inputs, r)
  BY <1>1, <1>2 DEF GenOr
<1>4. ASSUME NEW k \in DOMAIN solution_c, solution_c[k] = i PROVE FALSE
  <2>1. cands[i] \subseteq solution_inputs
    BY <1>4 DEF ChoiceInv, InputsOf
  <2> QED BY <1>3, <2>1 DEF Covers
<1> QED BY <1>4

\* The inputs of a solution are read off the candidates and the solution alone.
LEMMA InputsOfUnchanged ==
  ASSUME UNCHANGED <<cands, solution_c>>
  PROVE  InputsOf(solution_c)' = InputsOf(solution_c)
BY DEF InputsOf

\* An empty solution is a choice within every limit.
LEMMA EmptyChoice ==
  ASSUME solution_c' = <<>>, solution_inputs' = {}, limit' \in Nat
  PROVE  ChoiceInv'
<1>1. (InputsOf(solution_c))' = {}
  BY DEF InputsOf
<1> QED BY <1>1 DEF ChoiceInv

\* A turn of Select's loop extends the choice by a new cluster, gives it up or
\* hands it back.
LEMMA CoverKeepsChoice ==
  ASSUME MergeInv, ChoiceInv, FiniteCases, Cover
  PROVE  ChoiceInv'
<1>0. selecting /\ cands' = cands /\ limit' = limit /\ rows' = rows
  BY DEF Cover, SelectStep, SelectOnce, SelectOverLimit, SelectFails, SelectDone
<1>1. limit \in Nat /\ solution_c \in Seq(DOMAIN cands) /\ Len(solution_c) \in Nat
  BY DEF MergeInv, MergeTypeOK, CoverTypeOK
<1>2. CASE SelectOnce
  <2>1. PICK i \in DOMAIN cands :
          /\ IsSelected(i)
          /\ solution_c' = Append(solution_c, i)
          /\ solution_inputs' = solution_inputs \cup cands[i]
    BY <1>2 DEF SelectOnce
  <2>2. InputsOf(solution_c)' = InputsOf(Append(solution_c, i))
    BY <1>0, <2>1 DEF InputsOf
  <2>3. solution_inputs' = InputsOf(solution_c)'
    BY <1>1, <2>1, <2>2, InputsOfAppend DEF ChoiceInv
  <2>4. Len(solution_c') <= limit'
    BY <1>0, <1>1, <1>2, <2>1 DEF SelectOnce
  <2>5. \A k \in DOMAIN solution_c : solution_c[k] # i
    BY <1>0, <2>1, ChosenIsNew
  <2>6. \A j, k \in DOMAIN solution_c' : solution_c'[j] = solution_c'[k] => j = k
    BY <1>1, <2>1, <2>5 DEF ChoiceInv
  <2>7. selecting'
    BY <1>2 DEF SelectOnce
  <2> QED BY <2>3, <2>4, <2>6, <2>7 DEF ChoiceInv
<1>3. CASE SelectOverLimit \/ SelectFails
  BY <1>0, <1>1, <1>3, EmptyChoice DEF SelectOverLimit, SelectFails
<1>4. CASE SelectDone
  <2>1. UNCHANGED <<cands, limit, rows, solution_c, solution_inputs>>
    BY <1>4 DEF SelectDone
  <2>2. rows = GenOr(solution_inputs)
    BY <1>0, <1>4 DEF SelectDone, MergeInv, SearchControl, MaskIsCovered
  <2>3. \A r \in rows' : Covers(solution_inputs', r)
    BY <2>1, <2>2 DEF GenOr
  <2>4. \A r \in rows' : Covers(solution_inputs, r)'
    BY <2>3 DEF Covers, Columns
  <2> QED BY <2>1, <2>4, InputsOfUnchanged DEF ChoiceInv
<1> QED BY <1>2, <1>3, <1>4 DEF Cover, SelectStep

\* Every step keeps the choice, alarms or not.
LEMMA ChoiceInvStep ==
  ASSUME MergeInv, ChoiceInv, FiniteCases, [MergeNext]_mergeVars
  PROVE  ChoiceInv'
<1>1. CASE SolveSat
  <2>1. solution_c' = <<>> /\ solution_inputs' = {} /\ limit' = limit
    BY <1>1 DEF SolveSat, AddRows
  <2> QED BY <2>1, EmptyChoice DEF MergeInv, MergeTypeOK, CoverTypeOK
<1>2. CASE Cover
  BY <1>2, CoverKeepsChoice
<1>3. CASE UNCHANGED coverVars
  <2>1. UNCHANGED <<cands, limit, rows, solution_c, solution_inputs, selecting>>
    BY <1>3 DEF coverVars
  <2>2. (\A r \in rows : Covers(solution_inputs, r))
          = (\A r \in rows : Covers(solution_inputs, r))'
    BY <2>1 DEF Covers, Columns
  <2> QED BY <2>1, <2>2, InputsOfUnchanged DEF ChoiceInv
<1> QED BY <1>1, <1>2, <1>3
  DEF MergeNext, SolveUnsat, SolveTimeout, LateAlarm, CoverReturns, mergeVars

\* A satisfiable query adds at most one case of each kind; nothing else adds
\* any.
LEMMA FiniteCasesStep ==
  ASSUME FiniteCases, [MergeNext]_mergeVars
  PROVE  FiniteCases'
<1>1. CASE SolveSat
  <2>1. PICK x \in off, y \in on :
          /\ in0cases' = IF no_in0case THEN in0cases ELSE in0cases \cup {x}
          /\ in1cases' = IF no_in1case THEN in1cases ELSE in1cases \cup {y}
    BY <1>1 DEF SolveSat
  <2>2. IsFiniteSet(in0cases \cup {x}) /\ IsFiniteSet(in1cases \cup {y})
    BY FS_AddElement DEF FiniteCases
  <2> QED BY <1>1, <2>1, <2>2 DEF SolveSat, FiniteCases
<1>2. CASE UNCHANGED <<in0cases, in1cases, first_iteration>>
  BY <1>2 DEF FiniteCases
<1> QED BY <1>1, <1>2
  DEF MergeNext, SolveUnsat, SolveTimeout, LateAlarm, Cover, CoverReturns, mergeVars, searchVars

-----------------------------------------------------------------------------
\* What a candidate covers depends on the rows and the candidates alone.
LEMMA GenOrUnchanged ==
  ASSUME UNCHANGED <<cands, rows>>
  PROVE  \A i : GenOr(cands[i])' = GenOr(cands[i])
BY DEF GenOr, Covers, Columns

\* With nothing chosen yet the mask is empty, and the gain of a candidate is
\* all it covers.
LEMMA FirstGain ==
  ASSUME MergeInv, ChoiceInv, selecting, solution_c = <<>>
  PROVE  mask = {} /\ \A i : Gain(i) = Cardinality(GenOr(cands[i]))
<1>1. solution_inputs = {}
  BY DEF ChoiceInv, InputsOf
<1>2. mask = GenOr({})
  BY <1>1 DEF MergeInv, SearchControl, MaskIsCovered
<1>3. mask = {}
  BY <1>2 DEF GenOr, Covers
<1>4. \A S : S \ {} = S
  OBVIOUS
<1> QED BY <1>3, <1>4 DEF Gain

\* Every step leaves the first choice the best one.
LEMMA FirstIsBestStep ==
  ASSUME MergeInv, ChoiceInv, FirstIsBest, [MergeNext]_mergeVars
  PROVE  FirstIsBest'
<1>1. solution_c \in Seq(DOMAIN cands)
  BY DEF MergeInv, MergeTypeOK, CoverTypeOK
<1>2. CASE Cover /\ SelectOnce
  <2>0. UNCHANGED <<cands, rows>> /\ selecting
    BY <1>2 DEF SelectOnce
  <2>1. PICK i \in DOMAIN cands : IsSelected(i) /\ solution_c' = Append(solution_c, i)
    BY <1>2 DEF SelectOnce
  <2>2. CASE solution_c = <<>>
    <3>1. \A j \in DOMAIN cands :
            Cardinality(GenOr(cands[j])) <= Cardinality(GenOr(cands[i]))
      BY <2>0, <2>1, <2>2, FirstGain DEF IsSelected
    <3>2. solution_c'[1] = i
      BY <2>1, <2>2
    <3>3. \A j \in DOMAIN cands :
            Cardinality(GenOr(cands[j])') <= Cardinality(GenOr(cands[i])')
      BY <2>0, <3>1, GenOrUnchanged
    <3> QED BY <2>0, <3>2, <3>3 DEF FirstIsBest, GenOr
  <2>3. CASE solution_c # <<>>
    <3>1. Len(solution_c') # 1
      BY <1>1, <2>1, <2>3
    <3> QED BY <3>1 DEF FirstIsBest
  <2> QED BY <2>2, <2>3
<1>3. CASE SolveSat
  BY <1>3 DEF SolveSat, AddRows, FirstIsBest
<1>4. CASE Cover /\ ~SelectOnce
  BY <1>4 DEF Cover, SelectStep, SelectOverLimit, SelectFails, SelectDone, FirstIsBest
<1>5. CASE UNCHANGED coverVars
  <2>1. UNCHANGED <<cands, rows, solution_c, selecting>>
    BY <1>5 DEF coverVars
  <2>2. ASSUME selecting, Len(solution_c) = 1, NEW j \in DOMAIN cands
        PROVE  Cardinality(GenOr(cands[j])') <= Cardinality(GenOr(cands[solution_c[1]])')
    <3>1. Cardinality(GenOr(cands[j])) <= Cardinality(GenOr(cands[solution_c[1]]))
      BY <2>2 DEF FirstIsBest
    <3> QED BY <2>1, <3>1 DEF GenOr, Covers, Columns
  <2> QED BY <2>1, <2>2 DEF FirstIsBest, GenOr
<1> QED BY <1>2, <1>3, <1>4, <1>5
  DEF MergeNext, SolveUnsat, SolveTimeout, LateAlarm, CoverReturns, mergeVars

\* The initial states.
LEMMA GreedyInvInit == MergeInit => GreedyInv
<1> SUFFICES ASSUME MergeInit PROVE GreedyInv
  OBVIOUS
<1>1. MergeInv
  BY InitEstablishes
<1>2. ChoiceInv
  BY <1>1 DEF MergeInit, CoverInit, ChoiceInv, InputsOf, MergeInv, MergeTypeOK, CoverTypeOK
<1>3. FiniteCases
  BY FS_EmptySet DEF MergeInit, FiniteCases
<1>4. FirstIsBest
  BY DEF MergeInit, CoverInit, FirstIsBest
<1> QED BY <1>1, <1>2, <1>3, <1>4 DEF GreedyInv

\* Every step keeps the invariant, alarms or not.
LEMMA GreedyInvStep == GreedyInv /\ [MergeNext]_mergeVars => GreedyInv'
BY MergeInvStep, ChoiceInvStep, FiniteCasesStep, FirstIsBestStep DEF GreedyInv

\* A cover Select hands back covers every row, within the limit, and takes no
\* cluster twice; its inputs are those of its clusters (setcover_m.cpp 170-194),
\* for every list of candidates, limit and requirement, alarms or not.
THEOREM CoversWithoutWaste == MergeSpec => []SelectionCovers
<1>1. GreedyInv => SelectionCovers
  BY DEF GreedyInv, ChoiceInv, SelectionCovers
<1> QED BY <1>1, GreedyInvInit, GreedyInvStep, PTL DEF MergeSpec

\* The greedy bound: if two of the candidates together cover all rows, the first
\* choice covers at least half of them (SelectOnce's largest gain), for every
\* list of candidates, limit and requirement, alarms or not.
THEOREM FirstChoiceIsHalf == MergeSpec => []FirstChoiceCoversHalf
<1>1. GreedyInv => FirstChoiceCoversHalf
  <2> SUFFICES ASSUME GreedyInv, selecting, Len(solution_c) = 1,
                      NEW i \in DOMAIN cands, NEW j \in DOMAIN cands,
                      \A r \in rows : Covers(cands[i] \cup cands[j], r)
               PROVE  2 * Cardinality(mask) >= Cardinality(rows)
    BY DEF FirstChoiceCoversHalf
  <2> DEFINE A == GenOr(cands[i])
             B == GenOr(cands[j])
             F == GenOr(cands[solution_c[1]])
  <2>1. IsFiniteSet(rows)
    BY RowsAreFinite DEF GreedyInv, MergeInv
  <2>2. rows = A \cup B
    BY DEF GenOr, Covers
  <2>3. IsFiniteSet(A) /\ Cardinality(A) \in Nat
    BY <2>1, CountsAreNaturals
  <2>4. IsFiniteSet(B) /\ Cardinality(B) \in Nat
    BY <2>1, CountsAreNaturals
  <2>5. Cardinality(F) \in Nat
    BY <2>1, CountsAreNaturals
  <2>6. mask = F
    <3>1. InputsOf(solution_c) = cands[solution_c[1]]
      <4>1. DOMAIN solution_c = {1}
        BY DEF GreedyInv, MergeInv, MergeTypeOK, CoverTypeOK
      <4> QED BY <4>1 DEF InputsOf
    <3> QED BY <3>1 DEF GreedyInv, ChoiceInv, MergeInv, SearchControl, MaskIsCovered
  <2>7. Cardinality(A) <= Cardinality(F) /\ Cardinality(B) <= Cardinality(F)
    BY DEF GreedyInv, FirstIsBest
  <2>8. Cardinality(A \cup B) <= Cardinality(A) + Cardinality(B)
    <3> HIDE DEF A, B
    <3>1. Cardinality(A \cup B)
            = Cardinality(A) + Cardinality(B) - Cardinality(A \cap B)
      BY <2>3, <2>4, FS_Union
    <3>2. Cardinality(A \cap B) \in Nat
      BY <2>3, FS_Intersection, FS_CardinalityType
    <3> QED BY <2>3, <2>4, <3>1, <3>2
  <2>9. Cardinality(A \cup B) \in Nat
    BY <2>1, <2>2, FS_CardinalityType
  <2> HIDE DEF A, B, F
  <2> QED BY <2>2, <2>3, <2>4, <2>5, <2>6, <2>7, <2>8, <2>9
<1> QED BY <1>1, GreedyInvInit, GreedyInvStep, PTL DEF MergeSpec

-----------------------------------------------------------------------------
\* A candidate that would do alone covers every row: the rows are pairs of
\* cases of the requirement.
LEMMA SeparatorCoversRows ==
  ASSUME MergeTypeOK, RowsAreAllPairs, NEW S, Separates(S, off, on)
  PROVE  GenOr(S) = rows
<1> SUFFICES ASSUME NEW r \in rows PROVE Covers(S, r)
  BY DEF GenOr
<1>1. PICK x \in in0cases, y \in in1cases : r = <<x, y>>
  BY DEF RowsAreAllPairs
<1>2. ~Agree(x, y, S)
  BY DEF Separates, MergeTypeOK
<1> QED BY <1>1, <1>2, CoversIsDisagree

\* Then nothing covers more, and the first that covers as much is selected.
LEMMA SomethingIsSelected ==
  ASSUME IsFiniteSet(rows), rows # {}, mask = {},
         \A j : Gain(j) = Cardinality(GenOr(cands[j])),
         DOMAIN cands \subseteq Nat,
         NEW s \in DOMAIN cands, GenOr(cands[s]) = rows
  PROVE  \E i \in DOMAIN cands : IsSelected(i)
<1> DEFINE N == Cardinality(rows)
           T == {j \in DOMAIN cands : Gain(j) = N}
<1>1. s \in T /\ T \subseteq Nat
  OBVIOUS
<1>2. PICK m \in T : \A k \in T : m <= k
  <2> HIDE DEF T
  <2> QED BY <1>1, LeastNatural
<1>3. N \in Nat /\ N > 0
  BY FS_CardinalityType, FS_EmptySet
<1>4. \A j : Gain(j) \in Nat /\ Gain(j) <= N
  BY CountsAreNaturals
<1>5. ASSUME NEW j \in DOMAIN cands, j < m PROVE Gain(j) < N
  <2>1. j \notin T
    BY <1>1, <1>2, <1>5
  <2>2. Gain(j) # N
    BY <2>1
  <2> QED BY <1>3, <1>4, <2>2
<1>6. Gain(m) = N /\ m \in DOMAIN cands
  OBVIOUS
<1> HIDE DEF N, T
<1> QED BY <1>3, <1>4, <1>5, <1>6 DEF IsSelected

\* OneIsEnough for a candidate that would do alone.
EnoughOnce ==
  /\ Len(solution_c) <= 1
  /\ selecting /\ Len(solution_c) = 1 => mask = rows
  /\ pc = "cover" /\ ~selecting => solution_c # <<>>
  /\ pc = "solve" /\ ~first_iteration => solution_c # <<>>
  /\ pc = "done" => off = {} \/ on = {} \/ solution_c # <<>>

\* With such a candidate a turn of Select's loop takes one cluster that covers
\* all rows, or hands it back.
LEMMA CoverKeepsEnough ==
  ASSUME GreedyInv, EnoughOnce, Cover,
         NEW s \in DOMAIN cands, Separates(cands[s], off, on)
  PROVE  EnoughOnce'
<1>1. pc' = "cover" /\ selecting /\ rows' = rows /\ pc = "cover"
  BY DEF Cover, SelectStep, SelectOnce, SelectOverLimit, SelectFails, SelectDone, searchVars
<1>2. /\ limit \in Nat \ {0} /\ solution_c \in Seq(DOMAIN cands)
      /\ Len(solution_c) \in Nat /\ DOMAIN cands \subseteq Nat
  BY DEF GreedyInv, MergeInv, MergeTypeOK, CoverTypeOK
<1>3. IsFiniteSet(rows) /\ rows # {}
  BY <1>1, RowsAreFinite DEF GreedyInv, MergeInv, SearchControl
<1>4. GenOr(cands[s]) = rows
  BY SeparatorCoversRows DEF GreedyInv, MergeInv
<1>5. mask # rows => solution_c = <<>>
  <2>1. solution_c # <<>> => Len(solution_c) \in Nat \ {0}
    BY <1>2, EmptySeq, Zenon
  <2>2. mask # rows => Len(solution_c) <= 1 /\ Len(solution_c) # 1
    BY <1>1 DEF EnoughOnce
  <2>3. \A n \in Nat \ {0} : n <= 1 => n = 1
    BY SMT
  <2> QED BY <2>1, <2>2, <2>3, Zenon
<1>6. solution_c = <<>> =>
        mask = {} /\ \A i : Gain(i) = Cardinality(GenOr(cands[i]))
  BY <1>1, FirstGain DEF GreedyInv
<1>7. CASE SelectOnce
  <2>1. PICK i \in DOMAIN cands :
          /\ IsSelected(i)
          /\ mask' = mask \cup GenOr(cands[i])
          /\ solution_c' = Append(solution_c, i)
    BY <1>7 DEF SelectOnce
  <2>2. solution_c = <<>>
    BY <1>5, <1>7 DEF SelectOnce
  <2>3. Cardinality(rows) <= Cardinality(GenOr(cands[i]))
    BY <1>4, <1>6, <2>1, <2>2 DEF IsSelected
  <2>4. Cardinality(GenOr(cands[i])) <= Cardinality(rows)
    BY <1>3, CountsAreNaturals
  <2>5. Cardinality(rows) \in Nat /\ Cardinality(GenOr(cands[i])) \in Nat
    BY <1>3, CountsAreNaturals, FS_CardinalityType
  <2>6. GenOr(cands[i]) \in SUBSET rows
    BY DEF GenOr
  <2>7. GenOr(cands[i]) = rows
    BY <1>3, <2>3, <2>4, <2>5, <2>6, FS_Subset
  <2>8. mask' = rows'
    BY <1>1, <1>6, <2>1, <2>2, <2>7
  <2>9. Len(solution_c') = 1
    BY <2>1, <2>2
  <2> QED BY <1>1, <1>7, <2>8, <2>9 DEF EnoughOnce, SelectOnce
<1>8. CASE SelectOverLimit
  BY <1>2, <1>5, <1>8 DEF SelectOverLimit
<1>9. CASE SelectFails
  BY <1>2, <1>3, <1>4, <1>5, <1>6, <1>9, SomethingIsSelected DEF SelectFails
<1>10. CASE SelectDone
  <2>1. solution_c # <<>>
    BY <1>3, <1>6, <1>10 DEF SelectDone
  <2>2. solution_c' = solution_c /\ selecting' = FALSE
    BY <1>10 DEF SelectDone
  <2> QED BY <1>1, <2>1, <2>2 DEF EnoughOnce
<1> QED BY <1>7, <1>8, <1>9, <1>10 DEF Cover, SelectStep

\* An unsatisfiable first query says that the seed is a constant.
LEMMA NoFirstAnswer ==
  ASSUME GreedyInv, first_iteration, ~Satisfiable
  PROVE  off = {} \/ on = {}
<1> SUFFICES ASSUME NEW x \in off, NEW y \in on PROVE IsModel(x, y)
  BY DEF Satisfiable
<1>1. solution_inputs = {}
  BY DEF GreedyInv, MergeInv, SearchControl, ChoiceInv, InputsOf
<1> QED BY <1>1 DEF IsModel, Agree, GreedyInv, FiniteCases

\* The question is never changed.
LEMMA QuestionIsKept ==
  ASSUME [MergeNext]_mergeVars
  PROVE  UNCHANGED <<cands, limit, off, on>>
BY DEF MergeNext, SolveSat, AddRows, SolveUnsat, SolveTimeout, LateAlarm, Cover, SelectStep,
       SelectOnce, SelectOverLimit, SelectFails, SelectDone, CoverReturns, mergeVars, coverVars

\* Without alarms, every step keeps it.
LEMMA OneIsEnoughStep ==
  ASSUME ~Timeouts, GreedyInv, OneIsEnough, [MergeNext]_mergeVars
  PROVE  OneIsEnough'
<1>1. UNCHANGED <<cands, off, on>>
  BY QuestionIsKept
<1> SUFFICES ASSUME NEW s \in DOMAIN cands, Separates(cands[s], off, on)
             PROVE  EnoughOnce'
  BY <1>1 DEF OneIsEnough, EnoughOnce, Separates, Agree
<1>2. EnoughOnce
  BY DEF OneIsEnough, EnoughOnce
<1>3. pc # "cover" => ~selecting
  BY DEF GreedyInv, MergeInv, SearchControl
<1>4. CASE SolveSat
  BY <1>4 DEF SolveSat, AddRows, EnoughOnce
<1>5. CASE SolveUnsat
  <2>1. UNCHANGED <<mask, rows, selecting, solution_c, first_iteration>>
    BY <1>5 DEF SolveUnsat, coverVars
  <2>2. pc = "solve" /\ pc' \in {"solve", "done"}
    BY <1>5 DEF SolveUnsat, NoAnswer
  <2>3. first_iteration => off = {} \/ on = {}
    BY <1>5, NoFirstAnswer DEF SolveUnsat
  <2>4. first_iteration => pc' = "done"
    BY <1>5 DEF SolveUnsat, NoAnswer
  <2> QED BY <1>1, <1>2, <1>3, <2>1, <2>2, <2>3, <2>4 DEF EnoughOnce
<1>6. CASE SolveTimeout \/ LateAlarm
  BY <1>6 DEF SolveTimeout, LateAlarm
<1>7. CASE Cover
  BY <1>2, <1>7, CoverKeepsEnough
<1>8. CASE CoverReturns
  BY <1>2, <1>8 DEF CoverReturns, coverVars, EnoughOnce
<1>9. CASE UNCHANGED mergeVars
  BY <1>2, <1>9 DEF mergeVars, coverVars, searchVars, EnoughOnce
<1> QED BY <1>4, <1>5, <1>6, <1>7, <1>8, <1>9 DEF MergeNext

\* Without alarms, both invariants and what a found solution means.
SearchInv == GreedyInv /\ FlagMeaning /\ SolutionSeparates /\ OneIsEnough

\* Before the first query nothing is chosen and nothing is done.
LEMMA SearchInvInit == MergeInit => SearchInv
<1> SUFFICES ASSUME MergeInit PROVE SearchInv
  OBVIOUS
<1>1. GreedyInv
  BY GreedyInvInit
<1> QED BY <1>1 DEF SearchInv, MergeInit, CoverInit, FlagMeaning, SolutionSeparates, OneIsEnough

\* Without alarms every step keeps it.
LEMMA SearchInvStep ==
  ASSUME ~Timeouts
  PROVE  SearchInv /\ [MergeNext]_mergeVars => SearchInv'
BY GreedyInvStep, FoundInvStep, OneIsEnoughStep DEF SearchInv, FoundInv, GreedyInv

\* Without alarms no cluster that could replace the seed's inputs on its own
\* is missed: unless the seed is a constant, the search ends with one cluster
\* (Solve_c, lines 129-292), for every list of candidates, limit and
\* requirement.
THEOREM NoSingleSeparatorIsMissed ==
  ASSUME ~Timeouts
  PROVE  MergeSpec => []SingleSeparatorIsFound
<1>1. SearchInv => SingleSeparatorIsFound
  <2> SUFFICES ASSUME SearchInv, pc = "done", off # {}, on # {},
                      NEW i \in DOMAIN cands, Separates(cands[i], off, on)
               PROVE  Len(solution_c) = 1
    BY DEF SingleSeparatorIsFound
  <2>1. solution_c # <<>>
    BY DEF SearchInv, OneIsEnough
  <2>2. solution_c \in Seq(DOMAIN cands)
    BY DEF SearchInv, GreedyInv, MergeInv, MergeTypeOK, CoverTypeOK
  <2>3. Len(solution_c) \in Nat \ {0}
    BY <2>1, <2>2, EmptySeq, Zenon
  <2>4. Len(solution_c) <= 1
    BY DEF SearchInv, OneIsEnough
  <2>5. \A n \in Nat \ {0} : n <= 1 => n = 1
    OBVIOUS
  <2> QED BY <2>3, <2>4, <2>5, Zenon
<1> QED BY <1>1, SearchInvInit, SearchInvStep, PTL DEF MergeSpec

-----------------------------------------------------------------------------
\* The end of the search is an answer SeparatorSearch allows: the clusters
\* found separate, within the limit, and none only if none may be.
LEMMA EndIsAnAnswer ==
  ASSUME SearchInv', UNCHANGED <<cands, limit, off, on>>, pc # "done", pc' = "done"
  PROVE  Abstract!Answer
<1> USE DEF SearchInv
<1>1. /\ limit \in Nat /\ DOMAIN cands = 1 .. Len(cands)
      /\ solution_c' \in Seq(DOMAIN cands)
  BY DEF GreedyInv, MergeInv, MergeTypeOK, CoverTypeOK
<1>2. CASE solution_c' = <<>>
  <2>1. off = {} \/ on = {} \/ \A i \in DOMAIN cands : ~Separates(cands[i], off, on)
    BY <1>2 DEF OneIsEnough, Separates, Agree
  <2>2. Abstract!AnswerNone
    BY <1>2, <2>1 DEF Abstract!AnswerNone, Abstract!Separates, Separates, Agree
  <2> QED BY <2>2 DEF Abstract!Answer
<1>3. CASE solution_c' # <<>>
  <2> DEFINE s == solution_c'
             n == Len(s)
  <2>1. n \in Nat \ {0}
    BY <1>1, <1>3, EmptySeq, Zenon
  <2>2. n <= limit
    BY DEF GreedyInv, ChoiceInv
  <2>3. n \in 1 .. limit
    BY <1>1, <2>1, <2>2
  <2>4. s \in [1 .. n -> DOMAIN cands]
    BY <1>1
  <2>5. Abstract!InputsOf(s) = solution_inputs'
    BY DEF GreedyInv, ChoiceInv, InputsOf, Abstract!InputsOf
  <2>6. \A x \in off, y \in on : x \cap solution_inputs' # y \cap solution_inputs'
    BY <1>3 DEF SolutionSeparates, Separates, Agree
  <2>7. Abstract!Separates(Abstract!InputsOf(s))
    BY <2>5, <2>6 DEF Abstract!Separates
  <2>8. Abstract!AnswerWith(s)
    BY <2>3, <2>7 DEF Abstract!AnswerWith
  <2> QED BY <2>3, <2>4, <2>8 DEF Abstract!Answer
<1> QED BY <1>2, <1>3

\* Every step of Solve_c is the answer or leaves the abstract state alone.
LEMMA StepIsAnswerOrStutter ==
  ASSUME SearchInv', [MergeNext]_mergeVars
  PROVE  [Abstract!Answer]_(Abstract!searchVars)
<1>1. UNCHANGED <<cands, limit, off, on>>
  BY QuestionIsKept
<1>2. CASE pc # "done" /\ pc' = "done"
  BY <1>1, <1>2, EndIsAnAnswer
<1>3. CASE pc # "done" /\ pc' # "done"
  BY <1>1, <1>3 DEF Abstract!searchVars
<1>4. CASE pc = "done"
  <2>1. UNCHANGED <<pc, solution_c>>
    BY <1>4 DEF MergeNext, SolveSat, SolveUnsat, SolveTimeout, LateAlarm, Cover, CoverReturns,
                mergeVars, coverVars, searchVars
  <2> QED BY <1>1, <2>1 DEF Abstract!searchVars
<1> QED BY <1>2, <1>3, <1>4

\* Without alarms Solve_c implements the safety part of SeparatorSearch, for
\* every list of candidates, limit and requirement: it answers at most once,
\* with clusters that are right, and with none only when it may
\* (mergeselection.cpp 129-292).
THEOREM SolveImplementsSearch ==
  ASSUME ~Timeouts
  PROVE  MergeSpec => Abstract!SafeSpec
<1>1. MergeInit => Abstract!Init
  BY DEF MergeInit, Abstract!Init
<1>2. SearchInv' /\ [MergeNext]_mergeVars => [Abstract!Answer]_(Abstract!searchVars)
  BY StepIsAnswerOrStutter
<1> QED BY <1>1, <1>2, SearchInvInit, SearchInvStep, PTL DEF MergeSpec, Abstract!SafeSpec
=============================================================================
