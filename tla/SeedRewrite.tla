---------------------------- MODULE SeedRewrite ----------------------------
(***************************************************************************)
(* What SelectMerge (src/src/circuit/nodemerge.cpp 66-133) does with the   *)
(* logic of one seed: search for clusters (MergeSelection), enumerate the  *)
(* seed's new function over their inputs (GetOnSet, module OnSet) and give *)
(* the seed that function (Restruct), or restore it.  What happens to the  *)
(* graph of nodes and clusters is in module NodeMerge.                     *)
(***************************************************************************)
EXTENDS MergeSelection

CONSTANTS
  limit_in,  \* NodeMerge's limit on the inputs of a solution of 2 or 3 clusters
  IntBits,   \* the bits of the int getDC packs a pattern into (32)
  Breakages  \* sets of minterms that earlier rewrites may have broken

ASSUME limit_inAssumption == limit_in \in Nat
ASSUME IntBitsAssumption == IntBits \in Nat
ASSUME BreakagesAssumption == Breakages \subseteq SUBSET Valuations

VARIABLES
  broken,       \* minterms where no value of the seed is right any more
  stage,        \* "search", "onset", "rewritten", "restored" or "undefined"
  dc_packed, dc_in1cases, dc_in2cases, dc_pc,   \* the getDC object
  node_inputs,  \* the inputs of the seed after Restruct
  node_cube     \* the patterns of node_inputs on which its cube gives 1

dcVars == <<dc_packed, dc_in1cases, dc_in2cases, dc_pc>>
nodeVars == <<node_inputs, node_cube>>
rewriteVars == <<mergeVars, broken, stage, dcVars, nodeVars>>

\* The enumeration over the inputs of the solution.
DC == INSTANCE OnSet
  WITH DCTimeouts <- Timeouts, signals <- solution_inputs, packed <- dc_packed,
       in1cases <- dc_in1cases, in2cases <- dc_in2cases, pc <- dc_pc

-----------------------------------------------------------------------------
RewriteInit ==
  /\ MergeInit
  /\ \E ms \in Breakages : broken = Project(ms, CandidateInputs)
  /\ stage = "search"
  /\ dc_packed = {} /\ dc_in1cases = {} /\ dc_in2cases = {} /\ dc_pc = "solve"
  /\ node_inputs = {} /\ node_cube = {}

Search ==
  /\ stage = "search"
  /\ MergeNext
  /\ UNCHANGED <<broken, stage, dcVars, nodeVars>>

\* The three branches of SelectMerge that rewrite the seed; only those for two
\* and three clusters look at the number of inputs.
IsUsable ==
  \/ Len(solution_c) = 1
  \/ /\ Len(solution_c) \in 2 .. 3
     /\ Len(solution_c) <= limit
     /\ Cardinality(solution_inputs) <= limit_in

StartOnSet ==
  /\ stage = "search" /\ pc = "done" /\ IsUsable
  /\ stage' = "onset"
  /\ \E kept \in SUBSET solution_inputs :
       DC!IsPacking(kept, solution_inputs) /\ dc_packed' = kept
  /\ UNCHANGED <<mergeVars, broken, dc_in1cases, dc_in2cases, dc_pc, nodeVars>>

RestoreSeed ==
  /\ stage = "search" /\ pc = "done" /\ ~IsUsable
  /\ stage' = "restored"
  /\ UNCHANGED <<mergeVars, broken, dcVars, nodeVars>>

Enumerate ==
  /\ stage = "onset"
  /\ DC!OnSetNext
  /\ UNCHANGED <<mergeVars, broken, stage, dc_packed, nodeVars>>

\* Fault variant: the cube lists the patterns of the off-set.
RestructOffSet ==
  /\ stage = "onset" /\ dc_pc = "done"
  /\ dc_in2cases # {}
  /\ node_inputs' = solution_inputs
  /\ node_cube' = dc_in1cases
  /\ stage' = "rewritten"
  /\ UNCHANGED <<mergeVars, broken, dcVars>>

\* Fault variant: the cube is written but the inputs are not.
RestructUnlinked ==
  /\ stage = "onset" /\ dc_pc = "done"
  /\ dc_in2cases # {}
  /\ node_cube' = dc_in2cases
  /\ stage' = "rewritten"
  /\ UNCHANGED <<mergeVars, broken, dcVars, node_inputs>>

\* Restruct: the inputs are the keys of in2cases[0], one cube row per case.
Restruct ==
  /\ stage = "onset" /\ dc_pc = "done"
  /\ dc_in2cases # {}
  /\ node_inputs' = solution_inputs
  /\ node_cube' = dc_in2cases
  /\ stage' = "rewritten"
  /\ UNCHANGED <<mergeVars, broken, dcVars>>

\* Restruct on an empty onset reads in2cases[0] of an empty vector.
RestructEmpty ==
  /\ stage = "onset" /\ dc_pc = "done"
  /\ dc_in2cases = {}
  /\ stage' = "undefined"
  /\ UNCHANGED <<mergeVars, broken, dcVars, nodeVars>>

RewriteNext ==
  Search \/ StartOnSet \/ RestoreSeed \/ Enumerate \/ Restruct \/ RestructEmpty

RewriteSpec == RewriteInit /\ [][RewriteNext]_rewriteVars

RewriteFairSpec == RewriteSpec /\ WF_rewriteVars(RewriteNext)

-----------------------------------------------------------------------------
\* The types of the whole; the cube rows of the seed are over its inputs
\* (node.cpp 543-560).
RewriteTypeOK ==
  /\ MergeTypeOK
  /\ stage \in {"search", "onset", "rewritten", "restored", "undefined"}
  /\ DC!OnSetTypeOK
  /\ node_inputs \subseteq CandInputs
  /\ node_cube \subseteq SUBSET node_inputs

\* A rewritten seed computes, over its new inputs, a 0 on every minterm where
\* it must be 0 and a 1 on every one where it must be 1: the circuit still
\* matches the specification (nodemerge.cpp 71-79, 87-92, 107-112).
RewriteIsCorrect ==
  stage = "rewritten" =>
    /\ \A m \in off : m \cap node_inputs \notin node_cube
    /\ \A m \in on : m \cap node_inputs \in node_cube

\* Restruct never reads the first case of an empty onset (node.cpp 551).
RestructIsDefined == stage # "undefined"

\* Alarms or not, colliding keys or not, what the cube says of a pattern is
\* what some care minterm asks for, and it says something (getDC.cpp 155-189).
CubeIsAskedFor ==
  stage = "rewritten" =>
    node_cube # {} /\ \A p \in node_cube : \E m \in on : p = m \cap node_inputs

\* "no more cases, all the other input is Don't Care" (getDC.cpp 241).
RestIsDontCare == DC!RestIsDontCare

\* "Do not add if already added!" (getDC.cpp 173).
SeenKeyMeansAdded == DC!SeenKeyMeansAdded

\* Every seed is dealt with: SelectMerge gets to its next one, or assert(0)
\* ends the program.
SeedIsDealtWith == <>(stage \in {"rewritten", "restored"} \/ dc_pc = "aborted")
=============================================================================
