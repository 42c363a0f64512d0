-------------------------- MODULE NodeMerge_proofs --------------------------
(***************************************************************************)
(* The passes for every circuit, limit and list of passes: the links       *)
(* mirror each other, the clusters partition the gates of the circuit,     *)
(* what is cached of a cluster's inputs suffices and keeps to the limit,   *)
(* and no gate is left that nothing uses.                                  *)
(*                                                                         *)
(* The properties lean on each other: that a merge keeps the caches        *)
(* sufficient needs each gate to be in one cluster, that this stays so     *)
(* needs the candidates to be clusters of the set, and that they are needs *)
(* the links to mirror each other.                                         *)
(***************************************************************************)
EXTENDS NodeMerge, FiniteSetTheorems, SequenceTheorems, TLAPS

\* Every gate is read, or an output, when the circuit is read.
ReadWithoutWaste == \A n \in Gates : n \in spec.outputs \/ \E m \in Gates : n \in spec.inputs[m]

\* A gate that nothing uses is still to be met by the removal loop.
UselessArePending ==
  /\ pc = "visit" => pending = {}
  /\ pc \in {"visit", "remove"} /\ ReadWithoutWaste =>
       \A n \in LiveGates : IsUnused(n) => n \in pending

NetInv ==
  /\ NodeMergeTypeOK
  /\ Inputs \subseteq all_nodes
  /\ LinksMirror
  /\ ClustersPartition
  /\ CachedInputsSuffice
  /\ InputsWithinLimit
  /\ UselessArePending

\* What the network's structures promise, apart from the walk over them.
GraphInv ==
  /\ CircuitTypeOK
  /\ Inputs \subseteq all_nodes
  /\ LinksMirror
  /\ ClustersPartition
  /\ CachedInputsSuffice
  /\ InputsWithinLimit

WalkTypeOK ==
  /\ pass \in 1 .. Len(Passes)
  /\ it \in Gates \cup {NoCluster}
  /\ unvisited \subseteq clusters.all_clusters
  /\ pc \in {"visit", "remove", "done", "undefined"}
  /\ pending \subseteq Nodes

\* The invariant, regrouped.
LEMMA NetInvParts == NetInv <=> GraphInv /\ WalkTypeOK /\ UselessArePending
BY DEF NetInv, GraphInv, NodeMergeTypeOK, WalkTypeOK

\* A step that leaves the network alone keeps what it promises.
LEMMA FrozenKeepsGraph ==
  ASSUME GraphInv, UNCHANGED circuitVars
  PROVE  GraphInv'
<1> USE DEF GraphInv, circuitVars
<1>1. LiveGates' = LiveGates
  BY DEF LiveGates
<1>2. CircuitTypeOK'
  BY DEF CircuitTypeOK
<1>3. LinksMirror'
  BY <1>1 DEF LinksMirror
<1>4. ClustersPartition'
  BY <1>1 DEF ClustersPartition
<1>5. CachedInputsSuffice'
  BY DEF CachedInputsSuffice, ActualInputs
<1>6. InputsWithinLimit'
  BY DEF InputsWithinLimit
<1> QED BY <1>2, <1>3, <1>4, <1>5, <1>6

-----------------------------------------------------------------------------
(* Cones and candidates *)

\* A set with n that is closed under links has the whole cone of n.
LEMMA ConeLeast ==
  ASSUME NEW links, NEW n \in Nodes,
         NEW S \in SUBSET Nodes, n \in S, \A m \in S : links[m] \subseteq S
  PROVE  Cone(links, n) \subseteq S /\ n \notin Cone(links, n)
<1> DEFINE ends == {n} \cup UNION {links[m] : m \in Nodes}
           R == S \cap ends
<1>1. R \in SUBSET ends /\ n \in R
  OBVIOUS
<1>2. ASSUME NEW m \in R PROVE links[m] \subseteq R
  OBVIOUS
<1>3. ASSUME NEW m \in Cone(links, n) PROVE m \in R /\ m # n
  <2> HIDE DEF R
  <2> QED BY <1>1, <1>2, <1>3 DEF Cone
<1> QED BY <1>3

\* Walking along outputs from a node of the circuit meets only gates of the
\* circuit (GetFanoutCone).
LEMMA FanoutIsLive ==
  ASSUME CircuitTypeOK, LinksMirror, NEW i \in all_nodes
  PROVE  FanoutCone(i) \subseteq LiveGates
<1> DEFINE S == {i} \cup LiveGates
<1>1. ASSUME NEW m \in S PROVE outputs[m] \subseteq S
  <2>1. m \in all_nodes
    BY DEF LiveGates
  <2>2. outputs[m] \subseteq LiveGates
    BY <2>1 DEF LinksMirror
  <2> QED BY <2>2
<1>2. i \in Nodes /\ S \in SUBSET Nodes
  BY DEF CircuitTypeOK, LiveGates, Gates
<1> HIDE DEF S
<1>3. Cone(outputs, i) \subseteq S /\ i \notin Cone(outputs, i)
  <2>1. i \in S
    BY DEF S
  <2> QED BY <1>1, <1>2, <2>1, ConeLeast
<1> QED BY <1>3 DEF S, FanoutCone

\* The candidates of a seed are live clusters other than its own (InitCand).
LEMMA CandidatesAreLive ==
  ASSUME CircuitTypeOK, Inputs \subseteq all_nodes, LinksMirror, ClustersPartition,
         NEW c, NEW n, NEW d \in Candidates(c, n)
  PROVE  d \in clusters.all_clusters /\ d # c
<1> DEFINE pos == {m \in FanoutCone(n) \cup {n} : is_output(m)}
           pis == UNION {SpecFaninInputs(m) : m \in pos}
<1>1. PICK m \in UNION {FanoutCone(i) : i \in pis} : d = clusters.my_cluster[m]
  BY DEF Candidates
<1>2. PICK i \in pis : m \in FanoutCone(i)
  BY <1>1
<1>3. i \in all_nodes
  BY <1>2 DEF SpecFaninInputs
<1>4. m \in LiveGates
  BY <1>2, <1>3, FanoutIsLive
<1>5. d \in clusters.all_clusters
  BY <1>1, <1>4 DEF ClustersPartition
<1>6. d # c
  BY DEF Candidates
<1> QED BY <1>5, <1>6

-----------------------------------------------------------------------------
(* Merging *)

ClusterRecords ==
  [all_clusters : SUBSET Gates, nodes_c : [Gates -> SUBSET Gates],
   input_nodes : [Gates -> SUBSET Nodes], my_cluster : [Gates -> Gates]]

\* What is added to a cluster: the nodes of the merged ones.
Added(cs, c2s) == UNION {cs.nodes_c[c] : c \in c2s}

\* Merge, field by field (node.cpp 657-667, node.h 59-69).
LEMMA MergedFields ==
  ASSUME NEW cs \in ClusterRecords, NEW ins \in [Nodes -> SUBSET Nodes],
         NEW c1 \in Gates, NEW c2s \in SUBSET Gates,
         NEW new, new = Merged(cs, ins, c1, c2s)
  PROVE  /\ new \in ClusterRecords
         /\ new.all_clusters = cs.all_clusters \ c2s
         /\ new.nodes_c[c1] = cs.nodes_c[c1] \cup Added(cs, c2s)
         /\ new.input_nodes[c1] =
              (cs.input_nodes[c1] \cup UNION {ins[n] : n \in Added(cs, c2s)})
                \ (cs.nodes_c[c1] \cup Added(cs, c2s))
         /\ \A d \in Gates \ {c1} :
              /\ new.nodes_c[d] = cs.nodes_c[d]
              /\ new.input_nodes[d] = cs.input_nodes[d]
         /\ \A n \in Gates :
              new.my_cluster[n] = IF n \in Added(cs, c2s) THEN c1 ELSE cs.my_cluster[n]
<1> DEFINE added == Added(cs, c2s)
           nodes == cs.nodes_c[c1] \cup added
<1>1. added \subseteq Gates
  BY DEF Added, ClusterRecords
<1>2. UNION {ins[n] : n \in added} \subseteq Nodes
  BY <1>1 DEF Gates
<1>3. nodes \subseteq Gates
  BY <1>1 DEF ClusterRecords
<1>4. new = [all_clusters |-> cs.all_clusters \ c2s,
             nodes_c      |-> [cs.nodes_c EXCEPT ![c1] = nodes],
             input_nodes  |-> [cs.input_nodes EXCEPT
                                 ![c1] = (@ \cup UNION {ins[n] : n \in added}) \ nodes],
             my_cluster   |-> [n \in Gates |-> IF n \in added THEN c1 ELSE cs.my_cluster[n]]]
  BY DEF Merged, Added
<1>5. cs.input_nodes[c1] \subseteq Nodes
  BY DEF ClusterRecords
<1> HIDE DEF added, nodes
<1>6. new \in ClusterRecords
  BY <1>1, <1>2, <1>3, <1>4, <1>5 DEF ClusterRecords
<1>7. /\ new.all_clusters = cs.all_clusters \ c2s
      /\ new.nodes_c[c1] = nodes
      /\ new.input_nodes[c1] = (cs.input_nodes[c1] \cup UNION {ins[n] : n \in added}) \ nodes
      /\ \A d \in Gates \ {c1} :
           /\ new.nodes_c[d] = cs.nodes_c[d]
           /\ new.input_nodes[d] = cs.input_nodes[d]
      /\ \A n \in Gates :
           new.my_cluster[n] = IF n \in added THEN c1 ELSE cs.my_cluster[n]
  BY <1>4 DEF ClusterRecords
<1> QED BY <1>6, <1>7 DEF added, nodes

\* clusters' is clusters with others merged into c1, whose cached inputs may
\* have been reset before to those in cs; only merged gates get other inputs.
MergesInto(cs, c1, others) ==
  /\ cs \in ClusterRecords
  /\ cs.all_clusters = clusters.all_clusters
  /\ cs.nodes_c = clusters.nodes_c
  /\ cs.my_cluster = clusters.my_cluster
  /\ \A d \in Gates \ {c1} : cs.input_nodes[d] = clusters.input_nodes[d]
  /\ c1 \in clusters.all_clusters
  /\ others \subseteq clusters.all_clusters \ {c1}
  /\ UNCHANGED <<spec, all_nodes>>
  /\ inputs' \in [Nodes -> SUBSET Nodes]
  /\ \A n \in LiveGates : n \notin Added(clusters, others) => inputs'[n] = inputs[n]
  /\ clusters' = Merged(cs, inputs', c1, others)

\* The fields after such a merge.
LEMMA MergesIntoFields ==
  ASSUME CircuitTypeOK, NEW cs, NEW c1, NEW others, MergesInto(cs, c1, others)
  PROVE  /\ clusters' \in ClusterRecords
         /\ c1 \in Gates /\ others \subseteq Gates
         /\ clusters'.all_clusters = clusters.all_clusters \ others
         /\ clusters'.nodes_c[c1] = clusters.nodes_c[c1] \cup Added(clusters, others)
         /\ clusters'.input_nodes[c1] =
              (cs.input_nodes[c1] \cup UNION {inputs'[n] : n \in Added(clusters, others)})
                \ (clusters.nodes_c[c1] \cup Added(clusters, others))
         /\ \A d \in Gates \ {c1} :
              /\ clusters'.nodes_c[d] = clusters.nodes_c[d]
              /\ clusters'.input_nodes[d] = clusters.input_nodes[d]
         /\ \A n \in Gates : clusters'.my_cluster[n] =
              IF n \in Added(clusters, others) THEN c1 ELSE clusters.my_cluster[n]
<1> USE DEF MergesInto
<1>1. c1 \in Gates /\ others \in SUBSET Gates
  BY DEF CircuitTypeOK
<1>2. Added(cs, others) = Added(clusters, others)
  BY DEF Added
<1> QED BY <1>1, <1>2, MergedFields

\* A merge keeps every live gate in one live cluster, the one it points to.
LEMMA MergeKeepsPartition ==
  ASSUME CircuitTypeOK, ClustersPartition,
         NEW cs, NEW c1, NEW others, MergesInto(cs, c1, others)
  PROVE  ClustersPartition'
<1> DEFINE added == Added(clusters, others)
           all == clusters.all_clusters
<1>1. c1 \in all /\ others \subseteq all \ {c1} /\ all \subseteq Gates
  BY DEF MergesInto, CircuitTypeOK
<1>2. LiveGates' = LiveGates /\ LiveGates \subseteq Gates
  BY DEF MergesInto, LiveGates
<1>3. /\ clusters'.all_clusters = all \ others
      /\ clusters'.nodes_c[c1] = clusters.nodes_c[c1] \cup added
      /\ \A d \in Gates \ {c1} : clusters'.nodes_c[d] = clusters.nodes_c[d]
      /\ \A n \in Gates :
           clusters'.my_cluster[n] = IF n \in added THEN c1 ELSE clusters.my_cluster[n]
  BY MergesIntoFields
<1>4. \A n \in LiveGates : n \in added <=> clusters.my_cluster[n] \in others
  BY <1>1 DEF Added, ClustersPartition
<1>5. ASSUME NEW n \in LiveGates
      PROVE  /\ clusters'.my_cluster[n] \in clusters'.all_clusters
             /\ \A d \in clusters'.all_clusters :
                  n \in clusters'.nodes_c[d] <=> d = clusters'.my_cluster[n]
  <2> HIDE DEF added
  <2>1. CASE n \in added
    <3>1. clusters'.my_cluster[n] = c1 /\ c1 \in clusters'.all_clusters
      BY <1>1, <1>2, <1>3, <2>1
    <3>2. ASSUME NEW d \in clusters'.all_clusters, d # c1 PROVE n \notin clusters'.nodes_c[d]
      <4>1. d \in all /\ d # clusters.my_cluster[n] /\ d \in Gates
        BY <1>1, <1>3, <1>4, <2>1, <3>2
      <4> QED BY <1>3, <3>2, <4>1 DEF ClustersPartition
    <3>3. n \in clusters'.nodes_c[c1]
      BY <1>3, <2>1
    <3> QED BY <3>1, <3>2, <3>3
  <2>2. CASE n \notin added
    <3>1. clusters'.my_cluster[n] = clusters.my_cluster[n]
      BY <1>2, <1>3, <2>2
    <3>2. clusters.my_cluster[n] \in clusters'.all_clusters
      BY <1>3, <1>4, <2>2 DEF ClustersPartition
    <3>3. ASSUME NEW d \in clusters'.all_clusters
          PROVE  n \in clusters'.nodes_c[d] <=> n \in clusters.nodes_c[d]
      BY <1>1, <1>3, <2>2
    <3> QED BY <1>3, <3>1, <3>2, <3>3 DEF ClustersPartition
  <2> QED BY <2>1, <2>2
<1>6. ASSUME NEW d \in clusters'.all_clusters
      PROVE  clusters'.nodes_c[d] # {} /\ clusters'.nodes_c[d] \subseteq LiveGates
  <2>1. added \subseteq LiveGates
    BY <1>1 DEF Added, ClustersPartition
  <2>2. clusters.nodes_c[d] # {} /\ clusters.nodes_c[d] \subseteq LiveGates
    BY <1>3 DEF ClustersPartition
  <2> QED BY <1>1, <1>3, <2>1, <2>2
<1> QED BY <1>2, <1>5, <1>6 DEF ClustersPartition

\* What a cluster reads from outside, now and after a step.
LEMMA ReadFromOutside ==
  ASSUME NEW c
  PROVE  \A i :
    /\ i \in ActualInputs(c) <=>
         i \notin clusters.nodes_c[c] /\ \E n \in clusters.nodes_c[c] : i \in inputs[n]
    /\ i \in ActualInputs(c)' <=>
         i \notin clusters'.nodes_c[c] /\ \E n \in clusters'.nodes_c[c] : i \in inputs'[n]
<1>1. ASSUME NEW i
      PROVE  i \in ActualInputs(c) <=>
               i \notin clusters.nodes_c[c] /\ \E n \in clusters.nodes_c[c] : i \in inputs[n]
  BY Zenon DEF ActualInputs
<1>2. ASSUME NEW i
      PROVE  i \in ActualInputs(c)' <=>
               i \notin clusters'.nodes_c[c] /\ \E n \in clusters'.nodes_c[c] : i \in inputs'[n]
  BY Zenon DEF ActualInputs
<1> QED BY <1>1, <1>2

\* What the gates of a cluster read is listed or inside.
LEMMA ReadIsListed ==
  ASSUME ClustersPartition, CachedInputsSuffice,
         NEW d \in clusters.all_clusters, NEW g \in clusters.nodes_c[d]
  PROVE  /\ g \in LiveGates
         /\ inputs[g] \cap all_nodes \subseteq clusters.input_nodes[d] \cup clusters.nodes_c[d]
<1>1. g \in LiveGates
  BY DEF ClustersPartition
<1>2. ASSUME NEW i \in inputs[g] \cap all_nodes, i \notin clusters.nodes_c[d]
      PROVE  i \in clusters.input_nodes[d]
  <2>1. i \in ActualInputs(d)
    BY <1>2, ReadFromOutside
  <2> QED BY <2>1 DEF CachedInputsSuffice
<1> QED BY <1>1, <1>2

\* A cluster that is not merged away keeps its gates and what they read.
LEMMA KeptInputs ==
  ASSUME CircuitTypeOK, ClustersPartition,
         NEW cs, NEW c1, NEW others, MergesInto(cs, c1, others),
         NEW e \in clusters.all_clusters, e \notin others, NEW m \in clusters.nodes_c[e]
  PROVE  m \in LiveGates /\ inputs'[m] = inputs[m] /\ m \notin Added(clusters, others)
<1>1. others \subseteq clusters.all_clusters
  BY DEF MergesInto
<1>2. m \in LiveGates /\ clusters.my_cluster[m] = e
  BY DEF ClustersPartition
<1>3. m \notin Added(clusters, others)
  BY <1>1, <1>2 DEF Added, ClustersPartition
<1> QED BY <1>2, <1>3 DEF MergesInto

\* A merge keeps the caches sufficient, if the cluster merged into lists what
\* its gates read or has it merged in.
LEMMA MergeKeepsCaches ==
  ASSUME CircuitTypeOK, ClustersPartition, CachedInputsSuffice,
         NEW cs, NEW c1, NEW others, MergesInto(cs, c1, others),
         \A n \in clusters.nodes_c[c1] :
           inputs[n] \cap all_nodes
             \subseteq cs.input_nodes[c1] \cup clusters.nodes_c[c1] \cup Added(clusters, others)
  PROVE  CachedInputsSuffice'
<1> DEFINE added == Added(clusters, others)
<1>0. all_nodes' = all_nodes
  BY DEF MergesInto
<1> SUFFICES ASSUME NEW d \in clusters'.all_clusters, NEW n \in clusters'.nodes_c[d],
                    NEW i \in inputs'[n] \cap all_nodes, i \notin clusters'.nodes_c[d]
             PROVE  i \in clusters'.input_nodes[d]
  <2> SUFFICES ASSUME NEW d \in clusters'.all_clusters, NEW i \in ActualInputs(d)', i \in all_nodes
               PROVE  i \in clusters'.input_nodes[d]
    BY <1>0 DEF CachedInputsSuffice
  <2>1. PICK n \in clusters'.nodes_c[d] : i \in inputs'[n]
    BY ReadFromOutside
  <2>2. i \notin clusters'.nodes_c[d]
    BY ReadFromOutside
  <2> QED BY <2>1, <2>2
<1>1. /\ clusters'.all_clusters = clusters.all_clusters \ others
      /\ clusters'.nodes_c[c1] = clusters.nodes_c[c1] \cup added
      /\ clusters'.input_nodes[c1] =
           (cs.input_nodes[c1] \cup UNION {inputs'[m] : m \in added})
             \ (clusters.nodes_c[c1] \cup added)
      /\ \A e \in Gates \ {c1} :
           /\ clusters'.nodes_c[e] = clusters.nodes_c[e]
           /\ clusters'.input_nodes[e] = clusters.input_nodes[e]
  BY MergesIntoFields
<1>2. c1 \in clusters.all_clusters /\ others \subseteq clusters.all_clusters
        /\ clusters.all_clusters \subseteq Gates
  BY DEF MergesInto, CircuitTypeOK
<1>3. ASSUME NEW e \in clusters.all_clusters, e \notin others, NEW m \in clusters.nodes_c[e]
      PROVE  inputs'[m] = inputs[m]
  BY <1>3, KeptInputs
<1>4. c1 \notin others
  BY DEF MergesInto
<1>5. CASE d = c1
  <2>1. CASE n \in added
    BY <1>1, <1>5, <2>1
  <2>2. CASE n \in clusters.nodes_c[c1]
    <3>1. inputs'[n] = inputs[n]
      BY <1>2, <1>3, <1>4, <2>2
    <3> QED BY <1>1, <1>5, <2>2, <3>1
  <2> QED BY <1>1, <1>5, <2>1, <2>2
<1>6. CASE d # c1
  <2>1. d \in clusters.all_clusters /\ d \notin others /\ d \in Gates
    BY <1>1, <1>2
  <2>2. n \in clusters.nodes_c[d] /\ i \notin clusters.nodes_c[d]
    BY <1>1, <1>6, <2>1
  <2>3. inputs'[n] = inputs[n]
    BY <1>3, <2>1, <2>2
  <2>4. i \in ActualInputs(d) \cap all_nodes
    BY <2>2, <2>3, ReadFromOutside
  <2>5. i \in clusters.input_nodes[d]
    BY <2>1, <2>4 DEF CachedInputsSuffice
  <2> QED BY <1>1, <1>6, <2>1, <2>5
<1> QED BY <1>5, <1>6

\* A merge changes the cached inputs of the cluster merged into alone.
LEMMA MergeKeepsLimit ==
  ASSUME CircuitTypeOK, InputsWithinLimit,
         NEW cs, NEW c1, NEW others, MergesInto(cs, c1, others),
         LET live == Cardinality(clusters'.input_nodes[c1] \cap all_nodes)
         IN  live <= limit_in \/ live <= Cardinality(spec.inputs[c1])
  PROVE  InputsWithinLimit'
<1>1. /\ clusters'.all_clusters = clusters.all_clusters \ others
      /\ \A d \in Gates \ {c1} : clusters'.input_nodes[d] = clusters.input_nodes[d]
  BY MergesIntoFields
<1>2. clusters.all_clusters \subseteq Gates
  BY DEF CircuitTypeOK
<1>3. UNCHANGED <<spec, all_nodes>>
  BY DEF MergesInto
<1> SUFFICES ASSUME NEW d \in clusters'.all_clusters, d # c1
             PROVE  LET live == Cardinality(clusters'.input_nodes[d] \cap all_nodes)
                    IN  live <= limit_in \/ live <= Cardinality(spec.inputs[d])
  BY <1>3 DEF InputsWithinLimit
<1>4. d \in clusters.all_clusters /\ clusters'.input_nodes[d] = clusters.input_nodes[d]
  BY <1>1, <1>2
<1> QED BY <1>4 DEF InputsWithinLimit

-----------------------------------------------------------------------------
(* Sizes *)

\* Sets of nodes are finite, and a part of one is no larger.
LEMMA PartIsSmaller ==
  ASSUME NEW T \in SUBSET Nodes, NEW S \in SUBSET T
  PROVE  /\ Cardinality(S) \in Nat /\ Cardinality(T) \in Nat
         /\ Cardinality(S) <= Cardinality(T)
<1>1. IsFiniteSet(T)
  BY NodesAssumption, FS_Subset
<1>2. IsFiniteSet(S) /\ Cardinality(S) <= Cardinality(T)
  BY <1>1, FS_Subset
<1> QED BY <1>1, <1>2, FS_CardinalityType

\* A merge that leaves the cluster with live inputs of T alone, of which there
\* are few or which are a part of its old ones, keeps to the limit.
LEMMA FewInputs ==
  ASSUME CircuitTypeOK, NEW c1 \in Gates, NEW T \in SUBSET Nodes,
         clusters'.input_nodes[c1] \cap all_nodes \subseteq T,
         \/ Cardinality(T) <= limit_in
         \/ Cardinality(T) <= Cardinality(spec.inputs[c1])
  PROVE  LET live == Cardinality(clusters'.input_nodes[c1] \cap all_nodes)
         IN  live <= limit_in \/ live <= Cardinality(spec.inputs[c1])
<1> DEFINE L == clusters'.input_nodes[c1] \cap all_nodes
<1>1. Cardinality(L) \in Nat /\ Cardinality(T) \in Nat /\ Cardinality(L) <= Cardinality(T)
  BY PartIsSmaller
<1>2. spec.inputs[c1] \in SUBSET Nodes
  BY CircuitsAssumption DEF CircuitTypeOK, Gates
<1>3. Cardinality(spec.inputs[c1]) \in Nat
  BY <1>2, PartIsSmaller
<1> HIDE DEF L
<1>4. Cardinality(L) <= limit_in \/ Cardinality(L) <= Cardinality(spec.inputs[c1])
  BY <1>1, <1>3, limit_inNAssumption
<1> QED BY <1>4 DEF L

-----------------------------------------------------------------------------
(* The circuit as it is read *)

\* The parser and InitCluster establish the invariant.
LEMMA NetInvInit == NodeMergeInit => NetInv
<1> SUFFICES ASSUME NodeMergeInit PROVE NetInv
  OBVIOUS
<1> USE DEF NodeMergeInit, CircuitInit
<1>1. /\ spec.inputs \in [Nodes -> SUBSET Nodes] /\ spec.outputs \subseteq Gates
      /\ \A i \in Inputs : spec.inputs[i] = {}
  BY CircuitsAssumption
<1>2. Gates \subseteq Nodes /\ LiveGates = Gates /\ Inputs \subseteq all_nodes
  BY InputsAssumption DEF Gates, LiveGates
<1>3. CircuitTypeOK
  <2>1. clusters \in [all_clusters : SUBSET Gates, nodes_c : [Gates -> SUBSET Gates],
                      input_nodes : [Gates -> SUBSET Nodes], my_cluster : [Gates -> Gates]]
    BY <1>1, <1>2
  <2> QED BY <1>1, <2>1 DEF CircuitTypeOK
<1>4. WalkTypeOK
  <2>1. 1 \in 1 .. Len(Passes)
    <3>1. Len(Passes) \in Nat \ {0}
      BY PassesAssumption, EmptySeq, LenProperties, Zenon
    <3> QED BY <3>1
  <2> QED BY <2>1 DEF WalkTypeOK
<1>5. LinksMirror
  BY <1>1, <1>2 DEF LinksMirror, Gates
<1>6. ClustersPartition
  BY <1>2 DEF ClustersPartition
<1>7. CachedInputsSuffice
  BY <1>2 DEF CachedInputsSuffice, ActualInputs
<1>8. InputsWithinLimit
  <2> SUFFICES ASSUME NEW c \in clusters.all_clusters
               PROVE  Cardinality(clusters.input_nodes[c] \cap all_nodes)
                        <= Cardinality(spec.inputs[c])
    BY DEF InputsWithinLimit
  <2>1. spec.inputs[c] \in SUBSET Nodes
    BY <1>1, <1>2
  <2>2. clusters.input_nodes[c] \cap all_nodes = spec.inputs[c]
    BY <2>1
  <2>3. Cardinality(spec.inputs[c]) <= Cardinality(spec.inputs[c])
    BY <2>1, PartIsSmaller
  <2> QED BY <2>2, <2>3
<1>9. UselessArePending
  BY <1>1, <1>2 DEF UselessArePending, ReadWithoutWaste, IsUnused, is_output, Gates
<1> QED BY <1>2, <1>3, <1>4, <1>5, <1>6, <1>7, <1>8, <1>9, NetInvParts DEF GraphInv

-----------------------------------------------------------------------------
(* SelectMerge *)

\* The clusters merged into the first one of a solution.
OthersOf(s) == {s[k] : k \in DOMAIN s \ {1}} \cup {it}

\* A solution consists of live clusters other than the seed's, and the first is
\* not among the others: each has an input the earlier ones lack.
LEMMA SolutionIsLive ==
  ASSUME GraphInv, it \in clusters.all_clusters, NEW n \in clusters.nodes_c[it],
         NEW lmt \in Nat, NEW s \in Solutions(Candidates(it, n), lmt)
  PROVE  /\ s \in Seq(clusters.all_clusters) /\ Len(s) \in Nat \ {0}
         /\ DOMAIN s = 1 .. Len(s) /\ 1 \in DOMAIN s
         /\ \A k \in DOMAIN s : s[k] \in clusters.all_clusters \ {it}
         /\ OthersOf(s) \subseteq clusters.all_clusters \ {s[1]}
         /\ Len(s) > 1 => Cardinality(InputsOfAll(s)) <= limit_in
<1> DEFINE cand == Candidates(it, n)
<1>1. \A d \in cand : d \in clusters.all_clusters /\ d # it
  BY CandidatesAreLive DEF GraphInv
<1> HIDE DEF cand
<1>2. PICK k2 \in 1 .. lmt : s \in [1 .. k2 -> cand]
  BY DEF Solutions, cand
<1>3. s \in [1 .. k2 -> clusters.all_clusters] /\ k2 \in Nat \ {0}
  BY <1>1, <1>2
<1>4. s \in Seq(clusters.all_clusters) /\ Len(s) = k2
  BY <1>3
<1>5. \A k \in DOMAIN s : s[k] \in clusters.all_clusters \ {it}
  BY <1>1, <1>2
<1>6. DOMAIN s = 1 .. k2
  BY <1>2
<1>7. ASSUME NEW k \in DOMAIN s \ {1} PROVE s[k] # s[1]
  <2>1. ~(clusters.input_nodes[s[k]] \subseteq UNION {clusters.input_nodes[s[j]] : j \in 1 .. k - 1})
    BY DEF Solutions
  <2>2. 1 \in 1 .. k - 1
    BY <1>6
  <2> QED BY <2>1, <2>2
<1>8. 1 \in DOMAIN s
  BY <1>3, <1>6
<1>9. OthersOf(s) \subseteq clusters.all_clusters \ {s[1]}
  BY <1>5, <1>7, <1>8 DEF OthersOf
<1>10. Len(s) > 1 => Cardinality(InputsOfAll(s)) <= limit_in
  BY DEF Solutions
<1> QED BY <1>3, <1>4, <1>5, <1>6, <1>8, <1>9, <1>10

\* A pass of SelectMerge has a limit on the clusters of a solution.
LEMMA SelectHasLimit ==
  ASSUME WalkTypeOK, Passes[pass][1] = "select"
  PROVE  Passes[pass][2] \in Nat \ {0}
<1> DEFINE Kinds == {<<"fanin">>, <<"quick">>} \cup ({"select"} \X (Nat \ {0}))
<1>1. pass \in 1 .. Len(Passes)
  BY DEF WalkTypeOK
<1>2. Passes[pass] \in Kinds
  <2> HIDE DEF Kinds
  <2> QED BY <1>1, PassesAssumption DEF Kinds
<1>3. Passes[pass] \in {"select"} \X (Nat \ {0})
  BY <1>2
<1> QED BY <1>3

\* What RewriteSeed does to the network, for the seed's node n and a solution s.
Rewrites(n, s) ==
  /\ it \in clusters.all_clusters /\ clusters.nodes_c[it] = {n} /\ n \in LiveGates
  /\ s \in Solutions(Candidates(it, n), Passes[pass][2])
  /\ Len(s) \in Nat \ {0} /\ DOMAIN s = 1 .. Len(s)
  /\ \A k \in DOMAIN s : s[k] \in clusters.all_clusters \ {it}
  /\ InputsOfAll(s) \subseteq Nodes
  /\ Len(s) > 1 => Cardinality(InputsOfAll(s)) <= limit_in
  /\ inputs' = [inputs EXCEPT ![n] = InputsOfAll(s)]
  /\ outputs' = Relinked(n, InputsOfAll(s))
  /\ MergesInto(clusters, s[1], OthersOf(s))
  /\ n \in Added(clusters, OthersOf(s))

\* The seed's node is in the circuit, the clusters of the solution are live, and
\* the step merges them (nodemerge.cpp 55-81).
LEMMA RewriteRewrites ==
  ASSUME GraphInv, WalkTypeOK, RewriteSeed
  PROVE  \E n, s : Rewrites(n, s)
<1>0. Visiting("select")
  BY DEF RewriteSeed
<1> USE <1>0 DEF Visiting
<1>a. PICK n \in clusters.nodes_c[it] :
        \E s \in Solutions(Candidates(it, n), Passes[pass][2]) :
          /\ IsSeed(it, n)
          /\ inputs' = [inputs EXCEPT ![n] = InputsOfAll(s)]
          /\ outputs' = Relinked(n, InputsOfAll(s))
          /\ clusters' = Merged(clusters, inputs', s[1], OthersOf(s))
          /\ UNCHANGED <<spec, all_nodes>>
  BY DEF RewriteSeed, OthersOf
<1>1. PICK s \in Solutions(Candidates(it, n), Passes[pass][2]) :
          /\ IsSeed(it, n)
          /\ inputs' = [inputs EXCEPT ![n] = InputsOfAll(s)]
          /\ outputs' = Relinked(n, InputsOfAll(s))
          /\ clusters' = Merged(clusters, inputs', s[1], OthersOf(s))
          /\ UNCHANGED <<spec, all_nodes>>
  BY <1>a
<1> DEFINE new == InputsOfAll(s)
           c1 == s[1]
           others == OthersOf(s)
           added == Added(clusters, others)
<1>2. Passes[pass][2] \in Nat
  BY SelectHasLimit
<1>3. /\ Len(s) \in Nat \ {0}
      /\ DOMAIN s = 1 .. Len(s) /\ 1 \in DOMAIN s
      /\ \A k \in DOMAIN s : s[k] \in clusters.all_clusters \ {it}
      /\ others \subseteq clusters.all_clusters \ {c1}
      /\ Len(s) > 1 => Cardinality(new) <= limit_in
  BY <1>2, SolutionIsLive
<1>4. CircuitTypeOK /\ ClustersPartition
  BY DEF GraphInv
<1>5. clusters.nodes_c[it] = {n} /\ n \in LiveGates /\ n \in Gates /\ n \in Nodes
  BY <1>1, <1>4 DEF IsSeed, ClustersPartition, LiveGates, Gates
<1>6. it \in others /\ n \in added
  BY <1>5 DEF OthersOf, Added
<1>7. new \subseteq Nodes
  BY <1>3, <1>4 DEF InputsOfAll, CircuitTypeOK
<1>8. inputs' \in [Nodes -> SUBSET Nodes]
        /\ \A g \in LiveGates : g # n => inputs'[g] = inputs[g]
  BY <1>1, <1>4, <1>5, <1>7 DEF CircuitTypeOK, LiveGates
<1>9. clusters \in ClusterRecords
  BY <1>4 DEF CircuitTypeOK, ClusterRecords
<1>10. MergesInto(clusters, c1, others)
  BY <1>1, <1>3, <1>6, <1>8, <1>9 DEF MergesInto
<1> QED BY <1>1, <1>3, <1>5, <1>6, <1>7, <1>10 DEF Rewrites

\* A seed is rewritten with a solution: the links mirror each other, the
\* clusters of the solution and the seed's become one within the limit.
LEMMA RewriteKeepsGraph ==
  ASSUME GraphInv, WalkTypeOK, RewriteSeed
  PROVE  GraphInv'
<1>1. PICK n, s : Rewrites(n, s)
  BY RewriteRewrites
<1> DEFINE new == InputsOfAll(s)
           c1 == s[1]
           others == OthersOf(s)
           added == Added(clusters, others)
<1>2. /\ UNCHANGED <<spec, all_nodes>>
      /\ inputs' \in [Nodes -> SUBSET Nodes]
      /\ new \subseteq Nodes
      /\ outputs' = Relinked(n, new)
  BY <1>1 DEF Rewrites, MergesInto
<1>3. /\ Len(s) \in Nat \ {0}
      /\ DOMAIN s = 1 .. Len(s) /\ 1 \in DOMAIN s
      /\ \A k \in DOMAIN s : s[k] \in clusters.all_clusters \ {it}
      /\ Len(s) > 1 => Cardinality(new) <= limit_in
  BY <1>1 DEF Rewrites
<1>4. CircuitTypeOK /\ ClustersPartition /\ LinksMirror /\ CachedInputsSuffice
        /\ InputsWithinLimit /\ Inputs \subseteq all_nodes
  BY DEF GraphInv
<1>5. clusters.nodes_c[it] = {n} /\ n \in LiveGates /\ n \in Gates /\ n \in Nodes
  BY <1>1 DEF Rewrites, LiveGates, Gates
<1>7. new \subseteq Nodes
  BY <1>2
<1>8. inputs' \in [Nodes -> SUBSET Nodes] /\ inputs'[n] = new
        /\ \A g \in LiveGates : g # n => inputs'[g] = inputs[g]
  BY <1>1, <1>4, <1>5 DEF Rewrites, CircuitTypeOK, LiveGates, MergesInto
<1>10. MergesInto(clusters, c1, others)
  BY <1>1 DEF Rewrites
<1>11. ClustersPartition'
  BY <1>4, <1>10, MergeKeepsPartition
<1>12. LiveGates' = LiveGates
  BY <1>2 DEF LiveGates
<1>13. outputs' \in [Nodes -> SUBSET Nodes]
  BY <1>2, <1>4, <1>5 DEF Relinked, CircuitTypeOK
<1>14. CircuitTypeOK'
  BY <1>2, <1>4, <1>8, <1>10, <1>13, MergesIntoFields DEF CircuitTypeOK, ClusterRecords
<1>15. LinksMirror'
  <2> SUFFICES ASSUME NEW m \in all_nodes
               PROVE  outputs'[m] = {g \in LiveGates : m \in inputs'[g]}
    BY <1>2, <1>12 DEF LinksMirror
  <2>1. m \in Nodes /\ outputs[m] = {g \in LiveGates : m \in inputs[g]}
    BY <1>4 DEF LinksMirror, CircuitTypeOK
  <2>2. outputs'[m] = IF m \in new THEN outputs[m] \cup {n} ELSE outputs[m] \ {n}
    BY <1>2, <2>1 DEF Relinked
  <2> HIDE DEF new
  <2> QED BY <1>5, <1>8, <2>1, <2>2
<1>16. Inputs \subseteq all_nodes'
  BY <1>2, <1>4
<1>17. ASSUME NEW d \in clusters.all_clusters, NEW g \in clusters.nodes_c[d]
       PROVE  g \in LiveGates
                /\ inputs[g] \cap all_nodes \subseteq clusters.input_nodes[d] \cup clusters.nodes_c[d]
  BY <1>4, ReadIsListed
<1>18. CachedInputsSuffice'
  <2>1. \A g \in clusters.nodes_c[c1] :
          inputs[g] \cap all_nodes \subseteq clusters.input_nodes[c1] \cup clusters.nodes_c[c1] \cup added
    BY <1>3, <1>17
  <2> QED BY <1>4, <1>10, <2>1, MergeKeepsCaches
<1>19. \A k \in DOMAIN s : clusters.input_nodes[s[k]] \subseteq new
  BY DEF InputsOfAll
<1>20. clusters'.input_nodes[c1] \cap all_nodes \subseteq new
  <2>1. clusters'.input_nodes[c1] =
          (clusters.input_nodes[c1] \cup UNION {inputs'[g] : g \in added})
            \ (clusters.nodes_c[c1] \cup added)
    BY <1>4, <1>10, MergesIntoFields
  <2> SUFFICES ASSUME NEW g \in added, NEW i \in inputs'[g] \cap all_nodes, i \notin added
               PROVE  i \in new
    BY <1>3, <1>19, <2>1
  <2>2. PICK d \in others : g \in clusters.nodes_c[d]
    BY DEF Added
  <2>3. CASE g = n
    BY <1>8, <2>3
  <2>4. CASE g # n
    <3>1. d # it
      BY <1>5, <2>2, <2>4
    <3>2. PICK k \in DOMAIN s : d = s[k]
      BY <3>1 DEF OthersOf
    <3>3. d \in clusters.all_clusters
      BY <1>3, <3>2
    <3>4. g \in LiveGates /\ i \in clusters.input_nodes[d] \cup clusters.nodes_c[d]
      BY <1>8, <1>17, <2>2, <2>4, <3>3
    <3>5. i \notin clusters.nodes_c[d]
      BY <2>2 DEF Added
    <3> QED BY <1>19, <3>2, <3>4, <3>5
  <2> QED BY <2>3, <2>4
<1>21. InputsWithinLimit'
  <2>1. c1 \in Gates /\ c1 \in clusters.all_clusters
    BY <1>3, <1>4 DEF CircuitTypeOK
  <2>2. CASE Len(s) > 1
    BY <1>3, <1>4, <1>7, <1>10, <1>20, <2>1, <2>2, FewInputs, MergeKeepsLimit
  <2>3. CASE ~(Len(s) > 1)
    <3>1. Len(s) = 1
      BY <1>3, <2>3
    <3>2. new = clusters.input_nodes[c1]
      BY <1>3, <3>1 DEF InputsOfAll
    <3>3. clusters'.input_nodes[c1] \cap all_nodes \subseteq new \cap all_nodes
      BY <1>20
    <3>4. \/ Cardinality(new \cap all_nodes) <= limit_in
          \/ Cardinality(new \cap all_nodes) <= Cardinality(spec.inputs[c1])
      BY <1>4, <2>1, <3>2 DEF InputsWithinLimit
    <3> QED BY <1>4, <1>7, <1>10, <2>1, <3>3, <3>4, FewInputs, MergeKeepsLimit
  <2> QED BY <2>2, <2>3
<1> QED BY <1>11, <1>14, <1>15, <1>16, <1>18, <1>21 DEF GraphInv

-----------------------------------------------------------------------------
(* Remove *)

\* A gate that only removed gates read, and one does, is removed too, unless it
\* is an output (Remove descends into the inputs left without outputs).
LEMMA RemovedDescends ==
  ASSUME NEW n, NEW g \in Gates, ~is_output(g),
         NEW r \in Removed(n), g \in inputs[r], outputs[g] \subseteq Removed(n)
  PROVE  g \in Removed(n)
<1> DEFINE closed(R) ==
      /\ n \in R
      /\ \A m \in Gates \ R :
           is_output(m) \/ ~(\E q \in R : m \in inputs[q]) \/ ~(outputs[m] \subseteq R)
<1>1. Removed(n) = {m \in Gates : \A R \in SUBSET Gates : closed(R) => m \in R}
  BY DEF Removed
<1> SUFFICES ASSUME NEW R \in SUBSET Gates, closed(R), g \notin R
             PROVE  FALSE
  BY <1>1
<1> HIDE DEF closed
<1>2. Removed(n) \subseteq R
  BY <1>1
<1>3. r \in R /\ outputs[g] \subseteq R
  BY <1>2
<1> QED BY <1>3 DEF closed

\* The nodes removed are gates, the one that is asked for among them.
LEMMA RemovedHasNode ==
  ASSUME NEW n \in Gates
  PROVE  n \in Removed(n) /\ Removed(n) \subseteq Gates
<1> DEFINE closed(R) ==
      /\ n \in R
      /\ \A m \in Gates \ R :
           is_output(m) \/ ~(\E r \in R : m \in inputs[r]) \/ ~(outputs[m] \subseteq R)
<1>1. Removed(n) = {m \in Gates : \A R \in SUBSET Gates : closed(R) => m \in R}
  BY DEF Removed
<1>2. \A R : closed(R) => n \in R
  OBVIOUS
<1> HIDE DEF closed
<1> QED BY <1>1, <1>2

\* What Remove does, for the nodes it takes out.
Removes(gone) ==
  /\ gone \subseteq LiveGates
  /\ all_nodes' = all_nodes \ gone
  /\ outputs' = [m \in Nodes |-> outputs[m] \ gone]
  /\ \E kept \in LastMembers(clusters, gone) : clusters' = WithoutNodes(clusters, gone, kept)
  /\ UNCHANGED <<spec, inputs>>

\* Of a cluster nothing is kept unless it goes as a whole.
LEMMA LastMembersGo ==
  ASSUME NEW cs, NEW gone, NEW kept \in LastMembers(cs, gone), NEW c \in cs.all_clusters,
         ~(cs.nodes_c[c] \subseteq gone)
  PROVE  kept \cap cs.nodes_c[c] = {}
BY DEF LastMembers

\* What WithoutNodes does to each field.
LEMMA WithoutNodesFields ==
  ASSUME NEW cs \in ClusterRecords, NEW gone, NEW kept \in LastMembers(cs, gone),
         NEW new, new = WithoutNodes(cs, gone, kept)
  PROVE  /\ new \in ClusterRecords
         /\ new.all_clusters = {c \in cs.all_clusters : ~(cs.nodes_c[c] \subseteq gone)}
         /\ \A c \in Gates : new.nodes_c[c] \subseteq cs.nodes_c[c]
         /\ \A c \in new.all_clusters : new.nodes_c[c] = cs.nodes_c[c] \ gone
         /\ new.input_nodes = cs.input_nodes
         /\ new.my_cluster = cs.my_cluster
<1>1. /\ new.all_clusters = {c \in cs.all_clusters : ~(cs.nodes_c[c] \subseteq gone)}
      /\ \A c \in Gates :
           new.nodes_c[c] = IF c \in cs.all_clusters THEN cs.nodes_c[c] \ (gone \ kept) ELSE cs.nodes_c[c]
      /\ new.input_nodes = cs.input_nodes
      /\ new.my_cluster = cs.my_cluster
      /\ new \in ClusterRecords
  BY DEF WithoutNodes, ClusterRecords
<1>2. cs.all_clusters \subseteq Gates
  BY DEF ClusterRecords
<1>3. ASSUME NEW c \in new.all_clusters PROVE new.nodes_c[c] = cs.nodes_c[c] \ gone
  <2>1. c \in cs.all_clusters /\ c \in Gates /\ ~(cs.nodes_c[c] \subseteq gone)
    BY <1>1, <1>2
  <2>2. kept \cap cs.nodes_c[c] = {}
    BY <2>1, LastMembersGo
  <2>3. new.nodes_c[c] = cs.nodes_c[c] \ (gone \ kept)
    BY <1>1, <2>1
  <2> QED BY <2>2, <2>3
<1> QED BY <1>1, <1>3

\* Removal only takes away: the rest of the network stays as it is, and the
\* inputs a cluster has in the circuit become fewer.
LEMMA RemovalKeepsGraph ==
  ASSUME GraphInv, NEW gone, Removes(gone)
  PROVE  GraphInv'
<1> USE DEF Removes
<1>1. CircuitTypeOK /\ ClustersPartition /\ LinksMirror /\ CachedInputsSuffice
        /\ InputsWithinLimit /\ Inputs \subseteq all_nodes
  BY DEF GraphInv
<1>2. LiveGates' = LiveGates \ gone
  BY DEF LiveGates
<1>3. clusters \in ClusterRecords
  BY <1>1 DEF CircuitTypeOK, ClusterRecords
<1>4. /\ clusters' \in ClusterRecords
      /\ clusters'.all_clusters = {c \in clusters.all_clusters : ~(clusters.nodes_c[c] \subseteq gone)}
      /\ \A c \in clusters'.all_clusters : clusters'.nodes_c[c] = clusters.nodes_c[c] \ gone
      /\ clusters'.input_nodes = clusters.input_nodes
      /\ clusters'.my_cluster = clusters.my_cluster
  <2>1. PICK kept \in LastMembers(clusters, gone) : clusters' = WithoutNodes(clusters, gone, kept)
    OBVIOUS
  <2> QED BY <1>3, <2>1, WithoutNodesFields
<1>5. clusters.all_clusters \subseteq Gates
  BY <1>3 DEF ClusterRecords
<1>6. CircuitTypeOK'
  BY <1>1, <1>4 DEF CircuitTypeOK, ClusterRecords
<1>7. Inputs \subseteq all_nodes'
  BY <1>1 DEF LiveGates, Gates
<1>8. LinksMirror'
  <2> SUFFICES ASSUME NEW m \in all_nodes, m \notin gone
               PROVE  outputs'[m] = {g \in LiveGates \ gone : m \in inputs[g]}
    BY <1>2 DEF LinksMirror
  <2>1. m \in Nodes /\ outputs[m] = {g \in LiveGates : m \in inputs[g]}
    BY <1>1 DEF LinksMirror, CircuitTypeOK
  <2> QED BY <2>1
<1>9. ClustersPartition'
  <2>1. ASSUME NEW g \in LiveGates, g \notin gone
        PROVE  /\ clusters'.my_cluster[g] \in clusters'.all_clusters
               /\ \A c \in clusters'.all_clusters :
                    g \in clusters'.nodes_c[c] <=> c = clusters'.my_cluster[g]
    <3>1. /\ clusters.my_cluster[g] \in clusters.all_clusters
          /\ \A c \in clusters.all_clusters : g \in clusters.nodes_c[c] <=> c = clusters.my_cluster[g]
      BY <1>1 DEF ClustersPartition
    <3>2. clusters.my_cluster[g] \in clusters'.all_clusters
      BY <1>4, <2>1, <3>1
    <3> QED BY <1>4, <1>5, <2>1, <3>1, <3>2
  <2>2. ASSUME NEW c \in clusters'.all_clusters
        PROVE  clusters'.nodes_c[c] # {} /\ clusters'.nodes_c[c] \subseteq LiveGates \ gone
    <3>1. clusters.nodes_c[c] \subseteq LiveGates
      BY <1>1, <1>4 DEF ClustersPartition
    <3> QED BY <1>4, <1>5, <3>1
  <2> QED BY <1>2, <2>1, <2>2 DEF ClustersPartition
<1>10. CachedInputsSuffice'
  <2> SUFFICES ASSUME NEW c \in clusters'.all_clusters, NEW i \in ActualInputs(c)', i \in all_nodes'
               PROVE  i \in clusters.input_nodes[c]
    BY <1>4 DEF CachedInputsSuffice
  <2>1. PICK g \in clusters'.nodes_c[c] : i \in inputs[g]
    BY ReadFromOutside
  <2>2. i \notin clusters'.nodes_c[c]
    BY ReadFromOutside
  <2>3. c \in clusters.all_clusters /\ c \in Gates
    BY <1>4, <1>5
  <2>4. g \in clusters.nodes_c[c] /\ i \notin clusters.nodes_c[c] /\ i \in all_nodes
    BY <1>4, <2>1, <2>2, <2>3
  <2>5. i \in ActualInputs(c)
    BY <2>1, <2>4, ReadFromOutside
  <2> QED BY <1>1, <2>3, <2>4, <2>5 DEF CachedInputsSuffice
<1>11. InputsWithinLimit'
  <2> SUFFICES ASSUME NEW c \in clusters'.all_clusters
               PROVE  LET live == Cardinality(clusters.input_nodes[c] \cap all_nodes')
                      IN  live <= limit_in \/ live <= Cardinality(spec.inputs[c])
    BY <1>4 DEF InputsWithinLimit
  <2>1. c \in clusters.all_clusters /\ c \in Gates
    BY <1>4, <1>5
  <2> DEFINE T == clusters.input_nodes[c] \cap all_nodes
  <2>2. T \subseteq Nodes
    BY <1>1 DEF CircuitTypeOK
  <2>3. Cardinality(T) <= limit_in \/ Cardinality(T) <= Cardinality(spec.inputs[c])
    BY <1>1, <2>1 DEF InputsWithinLimit
  <2>4. spec.inputs[c] \in SUBSET Nodes
    BY <1>1, <2>1, CircuitsAssumption DEF CircuitTypeOK, Gates
  <2>5. Cardinality(spec.inputs[c]) \in Nat
    BY <2>4, PartIsSmaller
  <2> DEFINE L == clusters.input_nodes[c] \cap all_nodes'
  <2>6. L \subseteq T
    OBVIOUS
  <2>7. Cardinality(L) \in Nat /\ Cardinality(T) \in Nat /\ Cardinality(L) <= Cardinality(T)
    BY <2>2, <2>6, PartIsSmaller
  <2> HIDE DEF L, T
  <2>8. Cardinality(L) <= limit_in \/ Cardinality(L) <= Cardinality(spec.inputs[c])
    BY <2>3, <2>5, <2>7, limit_inNAssumption
  <2> QED BY <2>8 DEF L
<1> QED BY <1>6, <1>7, <1>8, <1>9, <1>10, <1>11 DEF GraphInv

\* A turn of the removal loop removes the nodes of Removed.
LEMMA RemoveInputRemoves ==
  ASSUME WalkTypeOK, RemoveInput
  PROVE  \E n \in pending : /\ IsUnused(n) /\ n \in LiveGates
                            /\ Removes(Removed(n))
                            /\ pending' = pending \ {n}
<1>1. PICK n \in pending : /\ IsUnused(n)
                           /\ Removed(n) \subseteq all_nodes
                           /\ all_nodes' = all_nodes \ Removed(n)
                           /\ outputs' = [m \in Nodes |-> outputs[m] \ Removed(n)]
                           /\ \E kept \in LastMembers(clusters, Removed(n)) :
                                clusters' = WithoutNodes(clusters, Removed(n), kept)
                           /\ UNCHANGED <<spec, inputs>>
                           /\ pending' = pending \ {n}
  BY DEF RemoveInput
<1>2. n \in Gates
  BY <1>1 DEF IsUnused, WalkTypeOK, Gates
<1>3. n \in Removed(n) /\ Removed(n) \subseteq LiveGates
  BY <1>1, <1>2, RemovedHasNode DEF LiveGates
<1> QED BY <1>1, <1>3 DEF Removes

-----------------------------------------------------------------------------
(* FaninMerge and QuickMerge *)

\* A merge that leaves the links as they are keeps the network sound, if the
\* cluster merged into has or lists what its gates read, and few inputs remain.
LEMMA MergeKeepsGraph ==
  ASSUME GraphInv, UNCHANGED <<inputs, outputs>>,
         NEW cs, NEW c1, NEW others, MergesInto(cs, c1, others),
         \A g \in clusters.nodes_c[c1] :
           inputs[g] \cap all_nodes
             \subseteq cs.input_nodes[c1] \cup clusters.nodes_c[c1] \cup Added(clusters, others),
         NEW T \in SUBSET Nodes, Cardinality(T) <= limit_in,
         cs.input_nodes[c1] \subseteq T,
         \A d \in others : clusters.input_nodes[d] \subseteq T
  PROVE  GraphInv'
<1> DEFINE added == Added(clusters, others)
<1>1. CircuitTypeOK /\ ClustersPartition /\ LinksMirror /\ CachedInputsSuffice
        /\ InputsWithinLimit /\ Inputs \subseteq all_nodes
  BY DEF GraphInv
<1>2. UNCHANGED <<spec, all_nodes>> /\ others \subseteq clusters.all_clusters
  BY DEF MergesInto
<1>3. CircuitTypeOK'
  BY <1>1, <1>2, MergesIntoFields DEF CircuitTypeOK, ClusterRecords
<1>4. LinksMirror' /\ Inputs \subseteq all_nodes'
  BY <1>1, <1>2 DEF LinksMirror, LiveGates
<1>5. ClustersPartition'
  BY <1>1, MergeKeepsPartition
<1>6. CachedInputsSuffice'
  BY <1>1, MergeKeepsCaches
<1>7. clusters'.input_nodes[c1] \cap all_nodes \subseteq T
  <2>1. clusters'.input_nodes[c1] =
          (cs.input_nodes[c1] \cup UNION {inputs'[g] : g \in added})
            \ (clusters.nodes_c[c1] \cup added)
    BY <1>1, MergesIntoFields
  <2> SUFFICES ASSUME NEW g \in added, NEW i \in inputs'[g] \cap all_nodes, i \notin added
               PROVE  i \in T
    BY <2>1
  <2>2. PICK d \in others : g \in clusters.nodes_c[d]
    BY DEF Added
  <2>3. i \in clusters.input_nodes[d] \cup clusters.nodes_c[d]
    BY <1>1, <1>2, <2>2, ReadIsListed
  <2>4. i \notin clusters.nodes_c[d]
    BY <2>2 DEF Added
  <2> QED BY <2>3, <2>4
<1>8. InputsWithinLimit'
  <2>1. c1 \in Gates
    BY <1>1, MergesIntoFields
  <2> QED BY <1>1, <1>7, <2>1, FewInputs, MergeKeepsLimit
<1> QED BY <1>3, <1>4, <1>5, <1>6, <1>8 DEF GraphInv

\* What FaninAbsorb merges, and into what: the seed with its primary inputs.
FaninOthers == FaninClusters(it) \ {it}
FaninSeed == [clusters EXCEPT !.input_nodes[it] = @ \cap Inputs]

\* FaninMerge merges live clusters into the seed, which keeps its primary inputs.
LEMMA FaninMerges ==
  ASSUME GraphInv, FaninAbsorb
  PROVE  /\ it \in clusters.all_clusters
         /\ MergesInto(FaninSeed, it, FaninOthers)
         /\ FaninSeed.input_nodes[it] = clusters.input_nodes[it] \cap Inputs
         /\ UNCHANGED <<inputs, outputs>>
         /\ Cardinality(FaninNew(it) \cup (clusters.input_nodes[it] \cap Inputs)) <= limit_in
<1>1. /\ it \in clusters.all_clusters
      /\ FaninOthers \subseteq clusters.all_clusters \ {it}
      /\ clusters' = Merged(FaninSeed, inputs, it, FaninOthers)
      /\ UNCHANGED <<spec, all_nodes, inputs, outputs>>
      /\ Cardinality(FaninNew(it) \cup (clusters.input_nodes[it] \cap Inputs)) <= limit_in
  BY DEF FaninAbsorb, Visiting, FaninFits, FaninOthers, FaninSeed
<1>2. clusters \in ClusterRecords /\ inputs \in [Nodes -> SUBSET Nodes] /\ it \in Gates
  BY <1>1 DEF GraphInv, CircuitTypeOK, ClusterRecords
<1>3. /\ FaninSeed \in ClusterRecords
      /\ FaninSeed.all_clusters = clusters.all_clusters
      /\ FaninSeed.nodes_c = clusters.nodes_c
      /\ FaninSeed.my_cluster = clusters.my_cluster
      /\ FaninSeed.input_nodes[it] = clusters.input_nodes[it] \cap Inputs
      /\ \A d \in Gates \ {it} : FaninSeed.input_nodes[d] = clusters.input_nodes[d]
  BY <1>2 DEF ClusterRecords, FaninSeed
<1> QED BY <1>1, <1>2, <1>3 DEF MergesInto

\* An inner node the seed lists lies in one of the clusters merged.
LEMMA ListedIsMerged ==
  ASSUME ClustersPartition, NEW i \in LiveGates, i \in clusters.input_nodes[it]
  PROVE  i \in clusters.nodes_c[it] \cup Added(clusters, FaninOthers)
<1>1. clusters.my_cluster[i] \in FaninClusters(it)
  BY DEF FaninClusters, LiveGates, Gates
<1>2. i \in clusters.nodes_c[clusters.my_cluster[i]]
  BY DEF ClustersPartition
<1> QED BY <1>1, <1>2 DEF FaninOthers, Added

\* FaninMerge: what the seed's gates read lies in the merged clusters or among
\* the primary inputs it keeps.
LEMMA FaninKeepsGraph ==
  ASSUME GraphInv, FaninAbsorb
  PROVE  GraphInv'
<1> DEFINE T == FaninNew(it) \cup (clusters.input_nodes[it] \cap Inputs)
<1>1. /\ it \in clusters.all_clusters
      /\ MergesInto(FaninSeed, it, FaninOthers)
      /\ FaninSeed.input_nodes[it] = clusters.input_nodes[it] \cap Inputs
      /\ UNCHANGED <<inputs, outputs>>
      /\ Cardinality(T) <= limit_in
  BY FaninMerges
<1>2. CircuitTypeOK /\ ClustersPartition /\ CachedInputsSuffice
  BY DEF GraphInv
<1>3. clusters \in ClusterRecords /\ it \in Gates
  BY <1>1, <1>2 DEF CircuitTypeOK, ClusterRecords
<1>4. T \in SUBSET Nodes
  <2>1. \A d \in FaninClusters(it) : d \in Gates
    BY <1>1, <1>3 DEF FaninOthers, MergesInto, ClusterRecords
  <2>2. FaninNew(it) \subseteq Nodes
    BY <1>3, <2>1 DEF FaninNew, ClusterRecords
  <2> QED BY <2>2, InputsAssumption
<1>5. /\ FaninSeed.input_nodes[it] \subseteq T
      /\ \A d \in FaninOthers : clusters.input_nodes[d] \subseteq T
  BY <1>1 DEF FaninOthers, FaninNew
<1>6. ASSUME NEW g \in clusters.nodes_c[it], NEW i \in inputs[g] \cap all_nodes
      PROVE  i \in FaninSeed.input_nodes[it] \cup clusters.nodes_c[it]
                     \cup Added(clusters, FaninOthers)
  <2>1. i \in clusters.input_nodes[it] \cup clusters.nodes_c[it]
    BY <1>1, <1>2, ReadIsListed
  <2>2. i \in Inputs \/ i \in LiveGates
    BY <1>2 DEF LiveGates, Gates, CircuitTypeOK
  <2> QED BY <1>1, <1>2, <2>1, <2>2, ListedIsMerged
<1> QED BY <1>1, <1>4, <1>5, <1>6, MergeKeepsGraph

\* QuickMerge merges another live cluster into the seed.
LEMMA QuickMerges ==
  ASSUME GraphInv, QuickAbsorb
  PROVE  /\ it \in clusters.all_clusters
         /\ UNCHANGED <<inputs, outputs>>
         /\ \E d \in QuickBest(it) :
              /\ d \in clusters.all_clusters /\ d # it
              /\ MergesInto(clusters, it, {d})
<1>1. PICK d \in QuickBest(it) : clusters' = Merged(clusters, inputs, it, {d})
  BY DEF QuickAbsorb
<1>2. it \in clusters.all_clusters /\ UNCHANGED <<spec, all_nodes, inputs, outputs>>
  BY DEF QuickAbsorb, Visiting
<1>3. d \in clusters.all_clusters /\ d # it
  BY DEF QuickBest, QuickCandidates
<1>4. clusters \in ClusterRecords /\ inputs \in [Nodes -> SUBSET Nodes]
  BY DEF GraphInv, CircuitTypeOK, ClusterRecords
<1>5. MergesInto(clusters, it, {d})
  BY <1>1, <1>2, <1>3, <1>4 DEF MergesInto
<1> QED BY <1>2, <1>3, <1>5

\* Its candidate fits the limit with the seed.
LEMMA QuickKeepsGraph ==
  ASSUME GraphInv, QuickAbsorb
  PROVE  GraphInv'
<1>1. it \in clusters.all_clusters /\ UNCHANGED <<inputs, outputs>>
  BY QuickMerges
<1>2. PICK d \in QuickBest(it) : d \in clusters.all_clusters /\ MergesInto(clusters, it, {d})
  BY QuickMerges
<1> DEFINE T == JointInputs(it, d)
<1>3. Cardinality(T) <= limit_in
  BY DEF QuickBest
<1>4. ClustersPartition /\ CachedInputsSuffice /\ clusters \in ClusterRecords
  BY DEF GraphInv, CircuitTypeOK, ClusterRecords
<1>5. \A g \in clusters.nodes_c[it] : inputs[g] \cap all_nodes
        \subseteq clusters.input_nodes[it] \cup clusters.nodes_c[it] \cup Added(clusters, {d})
  BY <1>1, <1>4, ReadIsListed
<1>6. T \in SUBSET Nodes
  BY <1>1, <1>2, <1>4 DEF JointInputs, ClusterRecords
<1>7. /\ clusters.input_nodes[it] \subseteq T
      /\ \A e \in {d} : clusters.input_nodes[e] \subseteq T
  BY DEF JointInputs
<1> HIDE DEF T
<1>8. ASSUME NEW others, others = {d} PROVE GraphInv'
  BY <1>1, <1>2, <1>3, <1>5, <1>6, <1>7, <1>8, MergeKeepsGraph
<1> QED BY <1>8

-----------------------------------------------------------------------------
(* The walk over the clusters *)

\* A step of the iterator to what is ahead of it.
LEMMA MoveKeepsWalk ==
  ASSUME CircuitTypeOK', NEW rest, rest \subseteq clusters'.all_clusters, MoveTo(rest),
         pass' \in 1 .. Len(Passes),
         pc' \in {"visit", "remove", "done", "undefined"},
         pending' \subseteq Nodes
  PROVE  WalkTypeOK'
<1>1. clusters'.all_clusters \subseteq Gates
  BY DEF CircuitTypeOK
<1>2. it' \in Gates \cup {NoCluster} /\ unvisited' \subseteq clusters'.all_clusters
  BY <1>1 DEF MoveTo
<1> QED BY <1>2 DEF WalkTypeOK

\* The walk never has a cluster ahead of it that a merge or a removal erased.
LEMMA WalkStep ==
  ASSUME GraphInv, GraphInv', WalkTypeOK, NodeMergeNext
  PROVE  WalkTypeOK'
<1>0. /\ CircuitTypeOK /\ CircuitTypeOK'
      /\ clusters \in ClusterRecords
  BY DEF GraphInv, CircuitTypeOK, ClusterRecords
<1> USE DEF WalkTypeOK
<1>1. CASE KeepSeed
  BY <1>0, <1>1, MoveKeepsWalk DEF KeepSeed, circuitVars
<1>2. CASE RewriteSeed
  <2>1. PICK n \in clusters.nodes_c[it] :
          \E s \in Solutions(Candidates(it, n), Passes[pass][2]) :
            /\ inputs' = [inputs EXCEPT ![n] = InputsOfAll(s)]
            /\ clusters' = Merged(clusters, inputs', s[1], OthersOf(s))
            /\ MoveTo(unvisited \ OthersOf(s))
            /\ pending' = inputs[n]
            /\ UNCHANGED pass
            /\ pc' = "remove"
    BY <1>2 DEF RewriteSeed, OthersOf
  <2>2. PICK s \in Solutions(Candidates(it, n), Passes[pass][2]) :
            /\ clusters' = Merged(clusters, inputs', s[1], OthersOf(s))
            /\ MoveTo(unvisited \ OthersOf(s))
    BY <2>1
  <2>3. clusters'.all_clusters = clusters.all_clusters \ OthersOf(s)
    BY <2>2 DEF Merged
  <2>4. pending' \subseteq Nodes
    <3>1. it \in clusters.all_clusters
      BY <1>2 DEF RewriteSeed, Visiting
    <3>2. n \in Nodes
      BY <1>0, <3>1 DEF ClusterRecords, Gates
    <3> QED BY <1>0, <2>1, <3>2 DEF CircuitTypeOK
  <2> QED BY <1>0, <2>1, <2>2, <2>3, <2>4, MoveKeepsWalk
<1>3. CASE KeepInput
  BY <1>3 DEF KeepInput, circuitVars
<1>4. CASE RemoveInput
  BY <1>4 DEF RemoveInput
<1>5. CASE RemoveTwice \/ RemovalEnds \/ UseErasedIterator \/ FaninErasesEnd
  BY <1>5 DEF RemoveTwice, RemovalEnds, UseErasedIterator, FaninErasesEnd, circuitVars
<1>6. CASE FaninAbsorb
  <2> DEFINE others == FaninClusters(it) \ {it}
             primary == [clusters EXCEPT !.input_nodes[it] = @ \cap Inputs]
  <2>1. /\ clusters' = Merged(primary, inputs, it, others)
        /\ MoveTo(unvisited \ others)
        /\ UNCHANGED <<pass, pc, pending>>
    BY <1>6 DEF FaninAbsorb
  <2>2. primary.all_clusters = clusters.all_clusters
    BY <1>0 DEF ClusterRecords
  <2> HIDE DEF others, primary
  <2>3. clusters'.all_clusters = clusters.all_clusters \ others
    BY <2>1, <2>2 DEF Merged
  <2> QED BY <1>0, <2>1, <2>3, MoveKeepsWalk
<1>7. CASE FaninSkip
  BY <1>0, <1>7, MoveKeepsWalk DEF FaninSkip, circuitVars
<1>8. CASE QuickAbsorb
  <2>1. PICK d : /\ clusters' = Merged(clusters, inputs, it, {d})
                 /\ unvisited' = unvisited \ {d}
    BY <1>8 DEF QuickAbsorb
  <2>2. clusters'.all_clusters = clusters.all_clusters \ {d}
    BY <2>1 DEF Merged
  <2> QED BY <1>8, <2>1, <2>2 DEF QuickAbsorb
<1>9. CASE QuickNext
  BY <1>0, <1>9, MoveKeepsWalk DEF QuickNext, circuitVars
<1>10. CASE EndPass
  <2>1. CASE pass < Len(Passes) /\ pass' = pass + 1 /\ MoveTo(clusters.all_clusters) /\ UNCHANGED pc
    <3>1. Len(Passes) \in Nat
      BY PassesAssumption, LenProperties
    <3>2. pass' \in 1 .. Len(Passes)
      BY <2>1, <3>1
    <3> QED BY <1>0, <1>10, <2>1, <3>2, MoveKeepsWalk DEF EndPass, circuitVars
  <2>2. CASE pc' = "done" /\ UNCHANGED <<pass, it, unvisited>>
    BY <1>10, <2>2 DEF EndPass, circuitVars
  <2> QED BY <1>10, <2>1, <2>2 DEF EndPass
<1> QED BY <1>1, <1>2, <1>3, <1>4, <1>5, <1>6, <1>7, <1>8, <1>9, <1>10 DEF NodeMergeNext

-----------------------------------------------------------------------------
(* Gates that nothing uses *)

\* A rewrite leaves only old inputs of the seed without outputs.
LEMMA RewriteLeavesPending ==
  ASSUME GraphInv, WalkTypeOK, UselessArePending, RewriteSeed
  PROVE  UselessArePending'
<1>0. Visiting("select")
  BY DEF RewriteSeed
<1>1. PICK n \in clusters.nodes_c[it] :
        /\ \E s : outputs' = Relinked(n, InputsOfAll(s))
        /\ pending' = inputs[n]
        /\ pc' = "remove"
        /\ UNCHANGED <<spec, all_nodes>>
  BY DEF RewriteSeed
<1> SUFFICES ASSUME ReadWithoutWaste, NEW g \in LiveGates, IsUnused(g)'
             PROVE  g \in inputs[n]
  BY <1>1 DEF UselessArePending, ReadWithoutWaste, LiveGates
<1>2. pc = "visit" /\ pending = {}
  BY <1>0 DEF Visiting, UselessArePending
<1>3. ~IsUnused(g)
  BY <1>2 DEF UselessArePending
<1>4. g \in Nodes /\ outputs'[g] = {} /\ outputs[g] # {}
  BY <1>1, <1>3 DEF IsUnused, is_output, LiveGates, Gates
<1>5. n \in outputs[g]
  BY <1>1, <1>4 DEF Relinked
<1> QED BY <1>5 DEF GraphInv, LinksMirror, LiveGates

\* Remove takes along every input it leaves without outputs.
LEMMA RemovalLeavesPending ==
  ASSUME GraphInv, WalkTypeOK, UselessArePending, RemoveInput
  PROVE  UselessArePending'
<1>1. PICK n \in pending : /\ IsUnused(n) /\ n \in LiveGates
                           /\ Removes(Removed(n))
                           /\ pending' = pending \ {n}
  BY RemoveInputRemoves
<1> DEFINE gone == Removed(n)
<1>2. /\ all_nodes' = all_nodes \ gone
      /\ outputs' = [m \in Nodes |-> outputs[m] \ gone]
      /\ gone \subseteq LiveGates /\ n \in gone
      /\ UNCHANGED spec
      /\ pc = "remove" /\ pc' = "remove"
  BY <1>1, RemovedHasNode DEF Removes, RemoveInput, LiveGates
<1> HIDE DEF gone
<1> SUFFICES ASSUME ReadWithoutWaste, NEW g \in LiveGates, g \notin gone, IsUnused(g)'
             PROVE  g \in pending \ {n}
  BY <1>1, <1>2 DEF UselessArePending, ReadWithoutWaste, LiveGates
<1>3. g \in Nodes /\ g \in Gates /\ outputs[g] \subseteq gone /\ ~is_output(g) /\ g \notin Inputs
  BY <1>2 DEF IsUnused, is_output, LiveGates, Gates
<1>4. CASE outputs[g] = {}
  BY <1>2, <1>3, <1>4 DEF UselessArePending, IsUnused
<1>5. CASE outputs[g] # {}
  <2>1. PICK r \in outputs[g] : r \in gone
    BY <1>3, <1>5
  <2>2. g \in inputs[r]
    BY <2>1 DEF GraphInv, LinksMirror, LiveGates
  <2>3. g \in gone
    BY <1>3, <2>1, <2>2, RemovedDescends DEF gone
  <2> QED BY <2>3
<1> QED BY <1>4, <1>5

\* In between, the gates nothing uses are among the inputs still to be met.
LEMMA UselessStep ==
  ASSUME GraphInv, WalkTypeOK, UselessArePending, NodeMergeNext
  PROVE  UselessArePending'
<1> DEFINE linkVars == <<spec, all_nodes, outputs>>
<1>1. ASSUME UNCHANGED linkVars
      PROVE  /\ LiveGates' = LiveGates /\ ReadWithoutWaste' = ReadWithoutWaste
             /\ \A g : IsUnused(g)' <=> IsUnused(g)
  BY <1>1 DEF LiveGates, ReadWithoutWaste, IsUnused, is_output
<1>2. CASE KeepSeed \/ FaninSkip \/ QuickNext \/ FaninAbsorb \/ QuickAbsorb
  <2>1. UNCHANGED linkVars /\ UNCHANGED <<pc, pending>>
    BY <1>2 DEF KeepSeed, FaninSkip, QuickNext, FaninAbsorb, QuickAbsorb, circuitVars
  <2> QED BY <1>1, <2>1 DEF UselessArePending
<1>3. CASE RemoveTwice \/ UseErasedIterator \/ FaninErasesEnd
  <2>1. pc' = "undefined"
    BY <1>3 DEF RemoveTwice, UseErasedIterator, FaninErasesEnd
  <2> QED BY <2>1 DEF UselessArePending
<1>4. CASE RemovalEnds
  <2>1. UNCHANGED linkVars /\ pending = {} /\ pending' = {} /\ pc = "remove"
    BY <1>4 DEF RemovalEnds, circuitVars
  <2> QED BY <1>1, <2>1 DEF UselessArePending
<1>5. CASE KeepInput
  <2>1. PICK n \in pending : ~IsUnused(n) /\ pending' = pending \ {n}
    BY <1>5 DEF KeepInput
  <2>2. UNCHANGED linkVars /\ pc = "remove" /\ pc' = "remove"
    BY <1>5 DEF KeepInput, circuitVars
  <2> QED BY <1>1, <2>1, <2>2 DEF UselessArePending
<1>6. CASE EndPass
  <2>1. UNCHANGED linkVars /\ UNCHANGED pending /\ pc = "visit" /\ pc' \in {"visit", "done"}
    BY <1>6 DEF EndPass, circuitVars
  <2> QED BY <1>1, <2>1 DEF UselessArePending
<1> QED BY <1>2, <1>3, <1>4, <1>5, <1>6, RewriteLeavesPending, RemovalLeavesPending
        DEF NodeMergeNext

-----------------------------------------------------------------------------
(* The invariant *)

\* Every step keeps what the network's structures promise.
LEMMA GraphStep ==
  ASSUME GraphInv, WalkTypeOK, NodeMergeNext
  PROVE  GraphInv'
<1>1. CASE UNCHANGED circuitVars
  BY <1>1, FrozenKeepsGraph
<1>2. CASE RemoveInput
  <2>1. PICK n : Removes(Removed(n))
    BY <1>2, RemoveInputRemoves
  <2> QED BY <2>1, RemovalKeepsGraph
<1>3. CASE RewriteSeed \/ FaninAbsorb \/ QuickAbsorb
  BY <1>3, RewriteKeepsGraph, FaninKeepsGraph, QuickKeepsGraph
<1> QED BY <1>1, <1>2, <1>3
        DEF NodeMergeNext, KeepSeed, KeepInput, RemoveTwice, RemovalEnds, UseErasedIterator,
            FaninErasesEnd, FaninSkip, QuickNext, EndPass

\* The invariant is inductive.
LEMMA NetInvStep == NetInv /\ [NodeMergeNext]_nmVars => NetInv'
<1> SUFFICES ASSUME NetInv, [NodeMergeNext]_nmVars PROVE NetInv'
  OBVIOUS
<1>1. GraphInv /\ WalkTypeOK /\ UselessArePending
  BY NetInvParts
<1>2. NetInv' <=> GraphInv' /\ WalkTypeOK' /\ UselessArePending'
  BY NetInvParts, PTL
<1>3. CASE NodeMergeNext
  BY <1>1, <1>2, <1>3, GraphStep, WalkStep, UselessStep
<1>4. CASE UNCHANGED nmVars
  <2>1. GraphInv'
    BY <1>1, <1>4, FrozenKeepsGraph DEF nmVars
  <2>2. WalkTypeOK' /\ UselessArePending'
    BY <1>1, <1>4 DEF nmVars, walkVars, circuitVars, WalkTypeOK, UselessArePending,
                      ReadWithoutWaste, LiveGates, IsUnused, is_output
  <2> QED BY <1>2, <2>1, <2>2
<1> QED BY <1>3, <1>4

\* The invariant holds throughout every run of main's passes.
THEOREM NetInvariant == NodeMergeSpec => []NetInv
<1>1. NodeMergeInit => NetInv
  BY NetInvInit
<1>2. NetInv /\ [NodeMergeNext]_nmVars => NetInv'
  BY NetInvStep
<1> QED BY <1>1, <1>2, PTL DEF NodeMergeSpec

-----------------------------------------------------------------------------
\* Type correctness of the network and of the walk over the clusters: the
\* iterator never has an erased cluster ahead of it (nodemerge.cpp 55-88).
THEOREM WalkIsWellTyped == NodeMergeSpec => []NodeMergeTypeOK
<1>1. NetInv => NodeMergeTypeOK
  BY DEF NetInv
<1> QED BY <1>1, NetInvariant, PTL

\* Whatever is rewritten, merged and removed, fan-in and fan-out links of the
\* nodes in the circuit mirror each other: the assert of node.cpp 459 holds, and
\* the finds of 577 and 610 succeed.
THEOREM LinksStayMirrored == NodeMergeSpec => []LinksMirror
<1>1. NetInv => LinksMirror
  BY DEF NetInv
<1> QED BY <1>1, NetInvariant, PTL

\* Every gate of the circuit is in exactly one live cluster, the one it points
\* to, although Restruct, Remove and Merge each update only their own part
\* (node.h 59-69, node.cpp 567-574, 657-667).
THEOREM GatesStayPartitioned == NodeMergeSpec => []ClustersPartition
<1>1. NetInv => ClustersPartition
  BY DEF NetInv
<1> QED BY <1>1, NetInvariant, PTL

\* The inputs a cluster lists suffice for the gates of the circuit it holds,
\* although no rewrite recomputes them for the clusters that read the seed.
THEOREM ListedInputsSuffice == NodeMergeSpec => []CachedInputsSuffice
<1>1. NetInv => CachedInputsSuffice
  BY DEF NetInv
<1> QED BY <1>1, NetInvariant, PTL

\* No merge of the three passes makes a cluster with more inputs in the circuit
\* than the limit (nodemerge.cpp 87, 165, 192, 206).
THEOREM MergesKeepToLimit == NodeMergeSpec => []InputsWithinLimit
<1>1. NetInv => InputsWithinLimit
  BY DEF NetInv
<1> QED BY <1>1, NetInvariant, PTL

\* After the removal loop of a rewrite no gate is left that nothing uses
\* (nodemerge.cpp 82-85).
THEOREM RemovalIsThorough == NodeMergeSpec => []NoUselessGateLeft
<1>1. NetInv => NoUselessGateLeft
  BY DEF NetInv, UselessArePending, NoUselessGateLeft, NothingUseless, ReadWithoutWaste
<1> QED BY <1>1, NetInvariant, PTL
=============================================================================
