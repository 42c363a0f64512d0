------------------------------ MODULE Circuit ------------------------------
(***************************************************************************)
(* The network of src/src/circuit/node.cpp and node.h: nodes with fan-in   *)
(* and fan-out links, and clusters of nodes with cached input sets, each   *)
(* structure updated on its own by SetTargets, Restruct, Remove and Merge. *)
(*                                                                         *)
(* A cluster is named by the node InitCluster made it for.  Vectors of     *)
(* nodes are sets here: no gate lists an input twice.                      *)
(***************************************************************************)
EXTENDS Integers, FiniteSets, Sequences

CONSTANTS
  Nodes,     \* every node of the circuits considered
  Inputs,    \* the primary inputs (is_input)
  Circuits   \* the circuits read: records of fan-in links and outputs

Gates == Nodes \ Inputs

ASSUME NodesAssumption == IsFiniteSet(Nodes)
ASSUME InputsAssumption == Inputs \subseteq Nodes
ASSUME CircuitsAssumption ==
  /\ Circuits \subseteq [inputs : [Nodes -> SUBSET Nodes], outputs : SUBSET Gates]
  /\ \A circuit \in Circuits : \A i \in Inputs : circuit.inputs[i] = {}

VARIABLES
  spec,       \* the circuit as it was read; main reads it twice
  all_nodes,  \* the nodes in the implementation
  inputs,     \* Node::inputs
  outputs,    \* Node::outputs
  clusters    \* all_clusters, and of each cluster nodes_c and input_nodes;
              \* my_cluster of each gate

circuitVars == <<spec, all_nodes, inputs, outputs, clusters>>

is_output(n) == n \in spec.outputs

-----------------------------------------------------------------------------
(* Cones *)

\* The nodes a walk from n along links (to the next nodes) reaches, n excepted:
\* those in every set that has n and is closed under links.
Cone(links, n) ==
  LET ends == {n} \cup UNION {links[m] : m \in Nodes}
      closed == {S \in SUBSET ends : n \in S /\ \A m \in S : links[m] \subseteq S}
  IN  {m \in ends \ {n} : \A S \in closed : m \in S}

FanoutCone(n) == Cone(outputs, n)

\* GetFaninCone stops at primary inputs, which have no inputs here.
SpecFaninInputs(n) == Cone(spec.inputs, n) \cap Inputs

\* Which clusters the members of a cluster feed, and which feed them.
ClusterOutputs(c) ==
  UNION {{clusters.my_cluster[o] : o \in outputs[n]} : n \in clusters.nodes_c[c]}
ClusterInputs(c) ==
  UNION {{clusters.my_cluster[i] : i \in inputs[n] \ Inputs} : n \in clusters.nodes_c[c]}

ClusterFanoutCone(c) == Cone([d \in Nodes |-> IF d \in Gates THEN ClusterOutputs(d) ELSE {}], c)
ClusterFaninCone(c)  == Cone([d \in Nodes |-> IF d \in Gates THEN ClusterInputs(d) ELSE {}], c)

-----------------------------------------------------------------------------
(* Operations *)

\* The parser's network and InitCluster: a cluster for every gate.
CircuitInit ==
  /\ spec \in Circuits
  /\ all_nodes = Nodes
  /\ inputs = spec.inputs
  /\ outputs = [n \in Nodes |-> {m \in Nodes : n \in spec.inputs[m]}]
  /\ clusters = [all_clusters |-> Gates,
                 nodes_c      |-> [c \in Gates |-> {c}],
                 input_nodes  |-> [c \in Gates |-> spec.inputs[c]],
                 my_cluster   |-> [n \in Gates |-> n]]

\* Fault variant: the old inputs keep the target in their outputs.
RelinkedKeeping(target, new_inputs) ==
  [m \in Nodes |-> IF m \in new_inputs THEN outputs[m] \cup {target} ELSE outputs[m]]

\* SetTargets takes the target out of the outputs of its inputs, Restruct
\* gives it new inputs and puts it into their outputs.
Relinked(target, new_inputs) ==
  [m \in Nodes |-> IF m \in new_inputs THEN outputs[m] \cup {target}
                                       ELSE outputs[m] \ {target}]

\* Fault variant: the inputs of the appended nodes are not added.
MergedForgetful(cs, ins, c1, c2s) ==
  LET added == UNION {cs.nodes_c[c] : c \in c2s}
      nodes == cs.nodes_c[c1] \cup added
  IN  [all_clusters |-> cs.all_clusters \ c2s,
       nodes_c      |-> [cs.nodes_c EXCEPT ![c1] = nodes],
       input_nodes  |-> [cs.input_nodes EXCEPT ![c1] = @ \ nodes],
       my_cluster   |-> [n \in Gates |-> IF n \in added THEN c1 ELSE cs.my_cluster[n]]]

\* Fault variant: the merged clusters stay in all_clusters.
MergedKeeping(cs, ins, c1, c2s) ==
  LET added == UNION {cs.nodes_c[c] : c \in c2s}
      nodes == cs.nodes_c[c1] \cup added
  IN  [all_clusters |-> cs.all_clusters,
       nodes_c      |-> [cs.nodes_c EXCEPT ![c1] = nodes],
       input_nodes  |-> [cs.input_nodes EXCEPT
                           ![c1] = (@ \cup UNION {ins[n] : n \in added}) \ nodes],
       my_cluster   |-> [n \in Gates |-> IF n \in added THEN c1 ELSE cs.my_cluster[n]]]

\* Merge each cluster of c2s into c1: append its nodes with their inputs, then
\* drop from the inputs what is inside.  The merged clusters leave the set.
Merged(cs, ins, c1, c2s) ==
  LET added == UNION {cs.nodes_c[c] : c \in c2s}
      nodes == cs.nodes_c[c1] \cup added
  IN  [all_clusters |-> cs.all_clusters \ c2s,
       nodes_c      |-> [cs.nodes_c EXCEPT ![c1] = nodes],
       input_nodes  |-> [cs.input_nodes EXCEPT
                           ![c1] = (@ \cup UNION {ins[n] : n \in added}) \ nodes],
       my_cluster   |-> [n \in Gates |-> IF n \in added THEN c1 ELSE cs.my_cluster[n]]]

\* A node that may go: it feeds nothing and is no primary input or output.
IsUnused(n) == outputs[n] = {} /\ n \notin Inputs /\ ~is_output(n)

\* Fault variant: Remove does not descend into the inputs.
RemovedOnly(n) == {n}

\* Everything Remove(n) removes: n, and in turn each input left without
\* outputs.
Removed(n) ==
  LET closed(R) ==
        /\ n \in R
        /\ \A m \in Gates \ R :
             is_output(m) \/ ~(\E r \in R : m \in inputs[r]) \/ ~(outputs[m] \subseteq R)
  IN  {m \in Gates : \A R \in SUBSET Gates : closed(R) => m \in R}

\* The nodes Remove may have come to last in the clusters that go with them: one
\* of each such cluster, and none whose removal led to another of its members.
LastMembers(cs, gone) ==
  LET below(n) == Cone([m \in Nodes |-> inputs[m] \cap gone], n)
      last(c) == {n \in cs.nodes_c[c] : cs.nodes_c[c] = {n} \/ below(n) \cap cs.nodes_c[c] = {}}
  IN  {kept \in SUBSET gone :
         \A c \in cs.all_clusters :
           IF cs.nodes_c[c] \subseteq gone
           THEN \E n \in last(c) : kept \cap cs.nodes_c[c] = {n}
           ELSE kept \cap cs.nodes_c[c] = {}}

\* What Remove does to the clusters: a cluster loses the removed nodes, or
\* leaves the set with its last one, which stays its member (a walk may come to
\* it through a removed node); the cached inputs of a cluster stay.
WithoutNodes(cs, gone, kept) ==
  [cs EXCEPT
     !.all_clusters = {c \in @ : ~(cs.nodes_c[c] \subseteq gone)},
     !.nodes_c = [c \in Gates |-> IF c \in cs.all_clusters THEN @[c] \ (gone \ kept) ELSE @[c]]]

-----------------------------------------------------------------------------
\* The types of the network's structures (node.h).
CircuitTypeOK ==
  /\ spec \in Circuits
  /\ all_nodes \subseteq Nodes
  /\ inputs \in [Nodes -> SUBSET Nodes]
  /\ outputs \in [Nodes -> SUBSET Nodes]
  /\ clusters \in [all_clusters : SUBSET Gates,
                   nodes_c      : [Gates -> SUBSET Gates],
                   input_nodes  : [Gates -> SUBSET Nodes],
                   my_cluster   : [Gates -> Gates]]

LiveGates == all_nodes \cap Gates

\* Fan-in and fan-out links of the nodes in the circuit mirror each other, and
\* no node has a removed one in its fan-out (the assert of node.cpp 459; the
\* finds of 577 and 610 that must succeed).
LinksMirror ==
  \A m \in all_nodes : outputs[m] = {n \in LiveGates : m \in inputs[n]}

\* Every gate in the circuit is a member of exactly one live cluster, the one
\* it points to, and no live cluster is empty or holds a removed gate
\* (node.h 59-69, node.cpp 567-574, 657-667).
ClustersPartition ==
  /\ \A n \in LiveGates :
       /\ clusters.my_cluster[n] \in clusters.all_clusters
       /\ \A c \in clusters.all_clusters :
            n \in clusters.nodes_c[c] <=> c = clusters.my_cluster[n]
  /\ \A c \in clusters.all_clusters :
       clusters.nodes_c[c] # {} /\ clusters.nodes_c[c] \subseteq LiveGates

\* What a cluster's gates read from outside, and what the cluster says it reads.
ActualInputs(c) == (UNION {inputs[n] : n \in clusters.nodes_c[c]}) \ clusters.nodes_c[c]

\* The cached inputs of a cluster include every node of the circuit that its
\* gates read from outside (the covers of setcover_m and the limits of
\* nodemerge.cpp count them).  Of a removed node this is not so: FaninMerge
\* forgets one that a gate has been given for an input (nodemerge.cpp 165-177).
CachedInputsSuffice ==
  \A c \in clusters.all_clusters :
    ActualInputs(c) \cap all_nodes \subseteq clusters.input_nodes[c]

\* No gate is left that nothing uses: removal after a rewrite takes everything
\* the rewrite made useless ("remove the nodes in fanin cone which is not used
\* any more", nodemerge.cpp 82), provided the circuit was read without such gates.
NothingUseless ==
  (\A n \in Gates : n \in spec.outputs \/ \E m \in Gates : n \in spec.inputs[m]) =>
    \A n \in LiveGates : ~IsUnused(n)

\* Nothing that is still in use has been removed: no gate of the circuit reads
\* a removed node and no primary output is gone.
NothingUsedIsRemoved ==
  /\ spec.outputs \subseteq all_nodes
  /\ \A n \in LiveGates : inputs[n] \subseteq all_nodes

\* There is no loop of links in S: every part of S has a member that none of
\* the part follows.
Acyclic(links, S) == \A P \in (SUBSET S) \ {{}} : \E n \in P : links[n] \cap P = {}

\* The network has no combinational loop.
NodesAcyclic == Acyclic(inputs, LiveGates)

\* No cluster depends on itself through others.
ClustersAcyclic ==
  Acyclic([c \in Gates |-> ClusterOutputs(c) \ {c}], clusters.all_clusters)
=============================================================================
