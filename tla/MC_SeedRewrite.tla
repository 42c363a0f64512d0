--------------------------- MODULE MC_SeedRewrite ---------------------------
(***************************************************************************)
(* One seed from the search to the rewrite, over three candidate inputs:   *)
(* every requirement with few valuations of each kind, and lists of        *)
(* candidates with disjoint, overlapping, single and no inputs.            *)
(***************************************************************************)
EXTENDS SeedRewrite, FiniteSetsExt

CONSTANTS a, b, c,  \* three candidate inputs
          MaxOff,   \* the most valuations where the seed must be 0
          MaxOn     \* the most where it must be 1

MCInputs == {a, b, c}
MCLists  == {<<>>, <<{a}, {b, c}>>, <<{a, b}, {b, c}, {a, c}>>, <<{a}, {b}, {c}>>}
MCLimits == {1, 2, 3}
MCBreakages == {{}, {{a, b}}}

FewOf(max) == UNION {kSubset(k, SUBSET MCInputs) : k \in 0 .. max}
MCRequirements == FewOf(MaxOff) \X FewOf(MaxOn)
=============================================================================
