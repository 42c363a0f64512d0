------------------------------ MODULE SetCover ------------------------------
(***************************************************************************)
(* The greedy set cover of src/src/setcover/setcover_m.cpp in its cluster  *)
(* form (the one MergeSelection uses).                                     *)
(*                                                                         *)
(* A candidate cluster is known to the cover only by the set of its input  *)
(* nodes.  A valuation of the candidate inputs is the set of the inputs    *)
(* that are 1; a row stands for a pair of valuations, and the columns set  *)
(* in it are the inputs on which the two valuations differ.                *)
(***************************************************************************)
EXTENDS Integers, Sequences, FiniteSets

CONSTANTS
  CandInputs,      \* the nodes that may be an input of a candidate cluster
  CandidateLists,  \* the lists of candidate clusters (their input sets) met
  Limits           \* the values the caller passes for limit

ASSUME CandidateListsAssumption == CandidateLists \subseteq Seq(SUBSET CandInputs)
ASSUME LimitsAssumption == Limits \subseteq Nat \ {0}

VARIABLES
  cands,           \* cands_c: the input sets of the candidates, in vector order
  limit,           \* the largest number of clusters Select may choose
  rows,            \* the rows added so far
  mask,            \* the rows whose bit is set in mask
  solution_c,      \* the positions in cands of the clusters selected so far
  solution_inputs, \* the input nodes of the selected clusters
  selecting        \* TRUE while Select is running

coverVars == <<cands, limit, rows, mask, solution_c, solution_inputs, selecting>>

Valuations == SUBSET CandInputs

-----------------------------------------------------------------------------
\* The columns set in a row: the inputs on which its two valuations differ.
Columns(r) == (r[1] \ r[2]) \cup (r[2] \ r[1])

Covers(inputs, r) == inputs \cap Columns(r) # {}

\* GenOr: the rows in which some input of the set has a 1.
GenOr(inputs) == {r \in rows : Covers(inputs, r)}

\* mask_count: how many rows candidate i covers that the mask does not.
Gain(i) == Cardinality(GenOr(cands[i]) \ mask)

\* Fault variant: the first candidate with a gain is taken, not the best.
IsSelectedFirst(i) ==
  /\ i \in DOMAIN cands
  /\ Gain(i) > 0
  /\ \A j \in DOMAIN cands : j < i => Gain(j) = 0

\* The candidate SelectOnce settles on: the first with the largest gain.
IsSelected(i) ==
  /\ i \in DOMAIN cands
  /\ Gain(i) > 0
  /\ \A j \in DOMAIN cands : Gain(j) <= Gain(i) /\ (j < i => Gain(j) < Gain(i))

CoverInit ==
  /\ cands \in CandidateLists
  /\ limit \in Limits
  /\ rows = {} /\ mask = {}
  /\ solution_c = <<>> /\ solution_inputs = {}
  /\ selecting = FALSE

\* Fault variant: the new rows are appended but the mask keeps its old bits.
AddRowsKeepingMask(new) ==
  /\ ~selecting
  /\ rows' = rows \cup new
  /\ solution_c' = <<>> /\ solution_inputs' = {}
  /\ selecting' = TRUE
  /\ UNCHANGED <<cands, limit, mask>>

\* The caller clears its solution, adds the rows (which clears the mask) and
\* calls Select.
AddRows(new) ==
  /\ ~selecting
  /\ rows' = rows \cup new
  /\ mask' = {}
  /\ solution_c' = <<>> /\ solution_inputs' = {}
  /\ selecting' = TRUE
  /\ UNCHANGED <<cands, limit>>

\* One turn of Select's loop in which SelectOnce chooses a cluster and the
\* number of clusters stays within the limit.
SelectOnce ==
  /\ selecting /\ mask # rows
  /\ Len(solution_c) < limit
  /\ \E i \in DOMAIN cands :
       /\ IsSelected(i)
       /\ mask' = mask \cup GenOr(cands[i])
       /\ solution_c' = Append(solution_c, i)
       /\ solution_inputs' = solution_inputs \cup cands[i]
  /\ UNCHANGED <<cands, limit, rows, selecting>>

\* SelectOnce chooses a cluster, but it is one too many: no solution.
SelectOverLimit ==
  /\ selecting /\ mask # rows
  /\ Len(solution_c) >= limit
  /\ \E i \in DOMAIN cands : IsSelected(i) /\ mask' = mask \cup GenOr(cands[i])
  /\ solution_c' = <<>> /\ solution_inputs' = {}
  /\ selecting' = FALSE
  /\ UNCHANGED <<cands, limit, rows>>

\* SelectOnce finds no cluster that covers a further row: no solution.
SelectFails ==
  /\ selecting /\ mask # rows
  /\ ~ \E i \in DOMAIN cands : IsSelected(i)
  /\ solution_c' = <<>> /\ solution_inputs' = {}
  /\ selecting' = FALSE
  /\ UNCHANGED <<cands, limit, rows, mask>>

\* Every row is covered: the loop ends with the solution.
SelectDone ==
  /\ selecting /\ mask = rows
  /\ selecting' = FALSE
  /\ UNCHANGED <<cands, limit, rows, mask, solution_c, solution_inputs>>

SelectStep == SelectOnce \/ SelectOverLimit \/ SelectFails \/ SelectDone

-----------------------------------------------------------------------------
\* The types of the cover's members; the mask has no bit for a row that is not
\* there, and the solution lists candidates (setcover_m.h).
CoverTypeOK ==
  /\ cands \in Seq(Valuations)
  /\ limit \in Nat \ {0}
  /\ rows \subseteq Valuations \X Valuations
  /\ mask \subseteq rows
  /\ solution_c \in Seq(DOMAIN cands)
  /\ solution_inputs \subseteq CandInputs
  /\ selecting \in BOOLEAN

InputsOf(s) == UNION {cands[s[k]] : k \in DOMAIN s}

\* A cover Select hands back (setcover_m.cpp 170-194) covers every row added
\* since the beginning, the rows of earlier rounds included, uses at most
\* `limit` clusters and no cluster twice, and its inputs are exactly those of
\* the chosen clusters.
SelectionCovers ==
  ~selecting /\ solution_c # <<>> =>
    /\ \A r \in rows : Covers(solution_inputs, r)
    /\ Len(solution_c) <= limit
    /\ \A j, k \in DOMAIN solution_c : solution_c[j] = solution_c[k] => j = k
    /\ solution_inputs = InputsOf(solution_c)

\* When two candidates together cover all the rows, the first greedy choice
\* covers at least half of them (the bound the greedy rule is used for).
FirstChoiceCoversHalf ==
  selecting /\ Len(solution_c) = 1
    /\ (\E i, j \in DOMAIN cands : \A r \in rows : Covers(cands[i] \cup cands[j], r))
  => 2 * Cardinality(mask) >= Cardinality(rows)
=============================================================================
