----------------------------- MODULE NodeMerge -----------------------------
(***************************************************************************)
(* The passes of src/src/circuit/nodemerge.cpp over the clusters, in the   *)
(* order main.cpp runs them: SelectMerge, FaninMerge and QuickMerge.       *)
(*                                                                         *)
(* Which clusters MergeSelection chooses for a seed depends on the logic   *)
(* of the circuit (modules MergeSelection and SeedRewrite); here it may    *)
(* choose any candidates the greedy cover could have chosen, or none.      *)
(*                                                                         *)
(* Each pass walks the unordered set of clusters with an iterator; the     *)
(* order is unspecified, so the next cluster is any not visited yet.       *)
(***************************************************************************)
EXTENDS Circuit

CONSTANTS
  limit_in,  \* NodeMerge's limit on the inputs of a cluster (6)
  Passes,    \* the passes of main: <<"select", lmt>>, <<"fanin">>, <<"quick">>
  NoCluster  \* all_clusters.end()

ASSUME limit_inNAssumption == limit_in \in Nat
ASSUME PassesAssumption ==
  /\ Passes \in Seq({<<"fanin">>, <<"quick">>} \cup ({"select"} \X (Nat \ {0})))
  /\ Passes # <<>>
ASSUME NoClusterAssumption == NoCluster \notin Nodes

VARIABLES
  pass,       \* the number of the pass that is running
  it,         \* the iterator: the cluster it points to, or NoCluster
  unvisited,  \* the clusters the iterator has not come to
  pc,         \* "visit": at the loop's head; "remove": in the loop over
              \* inputs_pre; "done"; "undefined": a step without a meaning
  pending     \* what is left of inputs_pre in that loop

walkVars == <<pass, it, unvisited, pc, pending>>
nmVars == <<circuitVars, walkVars>>

\* Fault variant: erased clusters are still walked over.
MoveToErased(rest) ==
  \/ rest = {} /\ it' = NoCluster /\ unvisited' = {}
  \/ \E c \in rest : it' = c /\ unvisited' = (unvisited \cup rest) \ {c}

\* Fault variant: the walk does not move.
MoveToNowhere(rest) == it' = it /\ unvisited' = rest

\* The iterator moves to some cluster not visited yet, or to the end.
MoveTo(rest) ==
  \/ rest = {} /\ it' = NoCluster /\ unvisited' = {}
  \/ \E c \in rest : it' = c /\ unvisited' = rest \ {c}

NodeMergeInit ==
  /\ CircuitInit
  /\ pass = 1 /\ pc = "visit" /\ pending = {}
  /\ it \in Gates /\ unvisited = Gates \ {it}

Visiting(kind) ==
  /\ pc = "visit" /\ it \in clusters.all_clusters
  /\ Passes[pass][1] = kind

-----------------------------------------------------------------------------
(* SelectMerge *)

\* The node of a seed cluster SelectMerge works on.
IsSeed(c, n) == clusters.nodes_c[c] = {n} /\ (outputs[n] # {} \/ is_output(n))

\* Fault variant: clusters in the fan-out of the seed are candidates too.
CandidatesUnfiltered(c, n) ==
  LET tfo == FanoutCone(n)
      pos == {m \in tfo \cup {n} : is_output(m)}
      pis == UNION {SpecFaninInputs(m) : m \in pos}
  IN  {clusters.my_cluster[m] : m \in UNION {FanoutCone(i) : i \in pis}} \ {c}

\* InitCand: the clusters of the nodes that depend on a primary input of the
\* specification's cones of the seed's outputs, but not on the seed.
Candidates(c, n) ==
  LET tfo == FanoutCone(n)
      pos == {m \in tfo \cup {n} : is_output(m)}
      pis == UNION {SpecFaninInputs(m) : m \in pos}
      cand_nodes == (UNION {FanoutCone(i) : i \in pis}) \ tfo
  IN  {clusters.my_cluster[m] : m \in cand_nodes} \ (ClusterFanoutCone(c) \cup {c})

InputsOfAll(s) == UNION {clusters.input_nodes[s[k]] : k \in DOMAIN s}

\* A solution SelectMerge uses: distinct candidates, each with an input the
\* earlier ones lack (SelectOnce takes no cluster without a gain), and for two
\* or three clusters few inputs in all.
Solutions(cand, lmt) ==
  {s \in UNION {[1 .. k -> cand] : k \in 1 .. lmt} :
     /\ \A k \in DOMAIN s :
          ~(clusters.input_nodes[s[k]]
              \subseteq UNION {clusters.input_nodes[s[j]] : j \in 1 .. k - 1})
     /\ Len(s) > 1 => Cardinality(InputsOfAll(s)) <= limit_in}

\* Not a seed, or no solution for it: the seed is restored and `it` moves on.
KeepSeed ==
  /\ Visiting("select")
  /\ MoveTo(unvisited)
  /\ UNCHANGED <<circuitVars, pass, pc, pending>>

\* A solution is found: Restruct gives the seed the inputs of the solution,
\* the clusters of the solution and the seed's become one, and the iterator
\* continues after the seed's.
RewriteSeed ==
  /\ Visiting("select")
  /\ \E n \in clusters.nodes_c[it] :
       /\ IsSeed(it, n)
       /\ \E s \in Solutions(Candidates(it, n), Passes[pass][2]) :
            LET new_inputs == InputsOfAll(s)
                others == {s[k] : k \in DOMAIN s \ {1}} \cup {it}
                ins == [inputs EXCEPT ![n] = new_inputs]
            IN  /\ inputs' = ins
                /\ outputs' = Relinked(n, new_inputs)
                /\ clusters' = Merged(clusters, ins, s[1], others)
                /\ MoveTo(unvisited \ others)
                /\ pending' = inputs[n]
  /\ pc' = "remove"
  /\ UNCHANGED <<spec, all_nodes, pass>>

\* One turn of the loop over inputs_pre for a node that is still used.
KeepInput ==
  /\ pc = "remove"
  /\ \E n \in pending : ~IsUnused(n) /\ pending' = pending \ {n}
  /\ UNCHANGED <<circuitVars, pass, it, unvisited, pc>>

\* One turn for an unused node: Remove.
RemoveInput ==
  /\ pc = "remove"
  /\ \E n \in pending :
       /\ IsUnused(n)
       /\ LET gone == Removed(n)
          IN  /\ gone \subseteq all_nodes
              /\ all_nodes' = all_nodes \ gone
              /\ outputs' = [m \in Nodes |-> outputs[m] \ gone]
              /\ \E kept \in LastMembers(clusters, gone) :
                   clusters' = WithoutNodes(clusters, gone, kept)
       /\ pending' = pending \ {n}
  /\ unvisited' = unvisited \cap clusters'.all_clusters
  /\ UNCHANGED <<spec, inputs, pass, it, pc>>

\* Remove meets a node that is not in all_nodes any more: it erases end().
RemoveTwice ==
  /\ pc = "remove"
  /\ \E n \in pending : IsUnused(n) /\ ~(Removed(n) \subseteq all_nodes)
  /\ pc' = "undefined"
  /\ UNCHANGED <<circuitVars, pass, it, unvisited, pending>>

RemovalEnds ==
  /\ pc = "remove" /\ pending = {}
  /\ pc' = "visit"
  /\ UNCHANGED <<circuitVars, pass, it, unvisited, pending>>

\* The loop's head uses an iterator to an erased element.
UseErasedIterator ==
  /\ pc = "visit" /\ it # NoCluster /\ it \notin clusters.all_clusters
  /\ pc' = "undefined"
  /\ UNCHANGED <<circuitVars, pass, it, unvisited, pending>>

-----------------------------------------------------------------------------
(* FaninMerge *)

FaninClusters(c) == {clusters.my_cluster[n] : n \in clusters.input_nodes[c] \ Inputs}

\* fanin_new, and the limit on it with the primary inputs of the seed.
FaninNew(c) == UNION {clusters.input_nodes[d] : d \in FaninClusters(c)}

\* Fault variant: the primary inputs of the seed do not count.
FaninFitsUncounted(c) == FaninNew(c) # {} /\ Cardinality(FaninNew(c)) <= limit_in

FaninFits(c) ==
  /\ FaninNew(c) # {}
  /\ Cardinality(FaninNew(c) \cup (clusters.input_nodes[c] \cap Inputs)) <= limit_in

\* The inputs of a cluster that point to cluster d, and the removed nodes among
\* them: those still point to d when Merge has emptied it.
PointingTo(c, d) == {n \in clusters.input_nodes[c] \ Inputs : clusters.my_cluster[n] = d}
Strays(c, d) == PointingTo(c, d) \ clusters.nodes_c[d]

\* Merge the clusters of all inputs into the seed.
FaninAbsorb ==
  /\ Visiting("fanin")
  /\ FaninFits(it)
  /\ LET others == FaninClusters(it) \ {it}
         primary == [clusters EXCEPT !.input_nodes[it] = @ \cap Inputs]
     IN  /\ others \subseteq clusters.all_clusters
         /\ \A d \in others : Cardinality(Strays(it, d)) <= 1
         /\ clusters' = Merged(primary, inputs, it, others)
         /\ MoveTo(unvisited \ others)
  /\ UNCHANGED <<spec, all_nodes, inputs, outputs, pass, pc, pending>>

\* Merge is asked to erase a cluster that is not there, or one that an input
\* met earlier has had merged: it erases end().
FaninErasesEnd ==
  /\ Visiting("fanin")
  /\ FaninFits(it)
  /\ \E d \in FaninClusters(it) \ {it} :
       \/ d \notin clusters.all_clusters
       \/ \E n \in Strays(it, d) : PointingTo(it, d) # {n}
  /\ pc' = "undefined"
  /\ UNCHANGED <<circuitVars, pass, it, unvisited, pending>>

FaninSkip ==
  /\ Visiting("fanin")
  /\ ~FaninFits(it)
  /\ MoveTo(unvisited)
  /\ UNCHANGED <<circuitVars, pass, pc, pending>>

-----------------------------------------------------------------------------
(* QuickMerge *)

JointInputs(c, d) == clusters.input_nodes[c] \cup clusters.input_nodes[d]

\* Fault variant: clusters in the fan-out are considered too.
QuickCandidatesUnfiltered(c) == clusters.all_clusters \ ({c} \cup ClusterFaninCone(c))

QuickCandidates(c) ==
  clusters.all_clusters \ ({c} \cup ClusterFanoutCone(c) \cup ClusterFaninCone(c))

\* The candidates with the fewest joint inputs, when those fit the limit.
QuickBest(c) ==
  {d \in QuickCandidates(c) :
     /\ Cardinality(JointInputs(c, d)) <= limit_in
     /\ \A e \in QuickCandidates(c) :
          Cardinality(JointInputs(c, d)) <= Cardinality(JointInputs(c, e))}

QuickContinues(c) == Cardinality(clusters.input_nodes[c]) < limit_in /\ QuickBest(c) # {}

\* One turn of the inner loop: merge, and stay at the seed.
QuickAbsorb ==
  /\ Visiting("quick")
  /\ QuickContinues(it)
  /\ \E d \in QuickBest(it) :
       /\ clusters' = Merged(clusters, inputs, it, {d})
       /\ unvisited' = unvisited \ {d}
  /\ UNCHANGED <<spec, all_nodes, inputs, outputs, pass, it, pc, pending>>

QuickNext ==
  /\ Visiting("quick")
  /\ ~QuickContinues(it)
  /\ MoveTo(unvisited)
  /\ UNCHANGED <<circuitVars, pass, pc, pending>>

-----------------------------------------------------------------------------
\* The iterator is at the end: main calls the next pass, or is through.
EndPass ==
  /\ pc = "visit" /\ it = NoCluster
  /\ \/ /\ pass < Len(Passes)
        /\ pass' = pass + 1
        /\ MoveTo(clusters.all_clusters)
        /\ UNCHANGED pc
     \/ /\ pass = Len(Passes)
        /\ pc' = "done"
        /\ UNCHANGED <<pass, it, unvisited>>
  /\ UNCHANGED <<circuitVars, pending>>

NodeMergeNext ==
  \/ KeepSeed \/ RewriteSeed \/ KeepInput \/ RemoveInput \/ RemoveTwice \/ RemovalEnds
  \/ UseErasedIterator
  \/ FaninAbsorb \/ FaninErasesEnd \/ FaninSkip
  \/ QuickAbsorb \/ QuickNext
  \/ EndPass

NodeMergeSpec == NodeMergeInit /\ [][NodeMergeNext]_nmVars

NodeMergeFairSpec == NodeMergeSpec /\ WF_nmVars(NodeMergeNext)

-----------------------------------------------------------------------------
\* The types of the network and the walk; the walk has only clusters ahead of it
\* that are in the set.
NodeMergeTypeOK ==
  /\ CircuitTypeOK
  /\ pass \in 1 .. Len(Passes)
  /\ it \in Gates \cup {NoCluster}
  /\ unvisited \subseteq clusters.all_clusters
  /\ pc \in {"visit", "remove", "done", "undefined"}
  /\ pending \subseteq Nodes

\* Between two visits no gate is left that nothing uses.
NoUselessGateLeft == pc = "visit" => NothingUseless

\* No cluster has more inputs in the circuit than NodeMerge's limit, except the
\* one of a gate that was read with more: every merge of the three passes keeps
\* to it (nodemerge.cpp 87, 165, 192, 206).
InputsWithinLimit ==
  \A c \in clusters.all_clusters :
    LET live == Cardinality(clusters.input_nodes[c] \cap all_nodes)
    IN  live <= limit_in \/ live <= Cardinality(spec.inputs[c])

\* The cached inputs of the clusters agree with the links.
CachesExact ==
  \A c \in clusters.all_clusters : clusters.input_nodes[c] = ActualInputs(c)

\* As long as no gate reads a removed node, rewriting and merging keep the
\* cached inputs exact: only Remove, which does not recompute them, makes them
\* list what no gate of the cluster reads (node.cpp 562-581, 657-667, node.h
\* 59-69).
OnlyRemoveMakesStale ==
  [][pc = "visit" /\ CachesExact /\ NothingUsedIsRemoved => CachesExact']_nmVars

\* As long as the cached inputs are exact, no step closes a combinational loop,
\* nor gives a seed a removed node for an input: the clusters InitCand leaves
\* out are enough (nodemerge.cpp 265, 285-293).
SoundWhileExact ==
  [][CachesExact /\ NodesAcyclic /\ NothingUsedIsRemoved
       => NodesAcyclic' /\ NothingUsedIsRemoved']_nmVars

\* Up to the first removal nothing goes wrong: the iterator points into the set,
\* every Merge finds what it erases, and in a circuit read without a loop the
\* caches are exact and no rewrite has closed one.  Every failure of the passes
\* has a Remove before it (node.cpp 562-581).
SoundUntilRemoval ==
  all_nodes = Nodes =>
    /\ pc # "undefined"
    /\ it \in clusters.all_clusters \cup {NoCluster}
    /\ Acyclic(spec.inputs, Gates) => CachesExact /\ NodesAcyclic

\* QuickMerge, which leaves out the clusters before and after the seed, and
\* SelectMerge(1), which puts the seed into one cluster that is not after it,
\* close no loop of clusters (FaninMerge and SelectMerge(2) may; nodemerge.cpp
\* 76-81, 192-224).
ClustersStayAcyclic ==
  [][/\ ClustersAcyclic
     /\ Passes[pass] \in {<<"quick">>, <<"select", 1>>}
     /\ CachesExact
     => ClustersAcyclic']_nmVars

\* The iterator of SelectMerge, which Merge returned, still points into the
\* set when the loop's head uses it ("get a seed cluster", nodemerge.cpp 55-58,
\* 81).
IteratorIsValid == pc = "visit" => it \in clusters.all_clusters \cup {NoCluster}

\* The removal loop calls Remove only for nodes still in the circuit: "remove
\* the nodes in fanin cone which is not used any more" (nodemerge.cpp 82-85).
RemovesNoNodeTwice ==
  pc = "remove" => \A n \in pending : IsUnused(n) => n \in all_nodes

\* The passes of main end.
PassesEnd == <>(pc \in {"done", "undefined"})
=============================================================================
