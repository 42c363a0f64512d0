---------------------------- MODULE MC_NodeMerge ----------------------------
(***************************************************************************)
(* The passes on small circuits of four primary inputs and six gates,      *)
(* with a limit of three inputs.                                           *)
(***************************************************************************)
EXTENDS NodeMerge, TLC

CONSTANTS w, x, y, z,  \* the primary inputs
          g1, g2, g3, g4, g5, g6

MCInputs == {w, x, y, z}

\* A network by the inputs of its gates.
Network(gates, pos) ==
  [inputs |-> (w :> {}) @@ (x :> {}) @@ (y :> {}) @@ (z :> {}) @@ gates, outputs |-> pos]

MCNodes == MCInputs \cup {g1, g2, g3, g4, g5, g6}

\* g4's cone collapses into one cluster; g1 and g2 go when g5 is rewritten, and
\* g6 may then be given g1 for an input.
Collapsing ==
  Network((g1 :> {x, y}) @@ (g2 :> {g1, x}) @@ (g3 :> {x, y}) @@ (g4 :> {g2, g3})
            @@ (g5 :> {g4, z}) @@ (g6 :> {x, y}), {g3, g5, g6})

\* In the others g6 is a constant output.

\* A ladder, each gate reads the two before it; the last reads four nodes.
Ladder ==
  Network((g1 :> {x, y}) @@ (g2 :> {g1, y}) @@ (g3 :> {g1, g2}) @@ (g4 :> {g2, g3})
            @@ (g5 :> {g1, g3, g4, z}) @@ (g6 :> {}), {g5, g6})

\* Two outputs that share a first level.
Shared ==
  Network((g1 :> {x, y}) @@ (g2 :> {y, z}) @@ (g3 :> {g1, g2}) @@ (g4 :> {g1, z})
            @@ (g5 :> {g2, g3}) @@ (g6 :> {}), {g4, g5, g6})

\* A chain whose links are too wide for FaninMerge; the gates two apart share
\* inputs.
Chain ==
  Network((g1 :> {w, x}) @@ (g2 :> {g1, y, z}) @@ (g3 :> {g2, w}) @@ (g4 :> {g3, y, z})
            @@ (g5 :> {g4, w}) @@ (g6 :> {}), {g5, g6})

MCCircuits == {Collapsing, Ladder, Shared, Chain}

MainPasses ==
  << <<"select", 1>>, <<"fanin">>, <<"select", 2>>, <<"fanin">>, <<"quick">> >>
=============================================================================
