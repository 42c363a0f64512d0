----------------------- MODULE NodeMergeSteps_proofs -----------------------
(***************************************************************************)
(* What a step of the passes may never do, for every circuit: make cached  *)
(* inputs inexact except by removing, and, as long as they are exact,      *)
(* close a combinational loop or lose a node that is still read.           *)
(***************************************************************************)
EXTENDS NodeMerge_proofs

(* Caches *)

\* A merge keeps every cache exact, if that of the cluster merged into agrees
\* with what its gates read, on all nodes that stay outside.
LEMMA MergeKeepsExact ==
  ASSUME CircuitTypeOK, ClustersPartition, CachesExact,
         NEW cs, NEW c1, NEW others, MergesInto(cs, c1, others),
         \A i : i \notin clusters.nodes_c[c1] \cup Added(clusters, others) =>
           (i \in cs.input_nodes[c1] <=> \E g \in clusters.nodes_c[c1] : i \in inputs[g])
  PROVE  CachesExact'
<1> DEFINE added == Added(clusters, others)
<1>1. /\ clusters'.all_clusters = clusters.all_clusters \ others
      /\ clusters'.nodes_c[c1] = clusters.nodes_c[c1] \cup added
      /\ clusters'.input_nodes[c1] =
           (cs.input_nodes[c1] \cup UNION {inputs'[m] : m \in added})
             \ (clusters.nodes_c[c1] \cup added)
      /\ \A e \in Gates \ {c1} :
           /\ clusters'.nodes_c[e] = clusters.nodes_c[e]
           /\ clusters'.input_nodes[e] = clusters.input_nodes[e]
  BY MergesIntoFields
<1>2. /\ c1 \in clusters.all_clusters /\ c1 \notin others
      /\ others \subseteq clusters.all_clusters
      /\ clusters.all_clusters \subseteq Gates
  BY DEF MergesInto, CircuitTypeOK
<1>3. ASSUME NEW e \in clusters.all_clusters, e \notin others, NEW m \in clusters.nodes_c[e]
      PROVE  inputs'[m] = inputs[m]
  BY <1>2, <1>3, KeptInputs
<1> SUFFICES ASSUME NEW d \in clusters'.all_clusters, NEW i
             PROVE  i \in clusters'.input_nodes[d] <=> i \in ActualInputs(d)'
  <2>1. \A d \in clusters'.all_clusters :
          \A i : i \in clusters'.input_nodes[d] <=> i \in ActualInputs(d)'
    OBVIOUS
  <2>2. \A d \in clusters'.all_clusters : clusters'.input_nodes[d] = ActualInputs(d)'
    BY <2>1
  <2> QED BY <2>2 DEF CachesExact
<1>4. i \in ActualInputs(d)' <=>
        i \notin clusters'.nodes_c[d] /\ \E n \in clusters'.nodes_c[d] : i \in inputs'[n]
  BY ReadFromOutside
<1>5. CASE d = c1
  <2>1. \A g \in clusters.nodes_c[c1] : inputs'[g] = inputs[g]
    BY <1>2, <1>3
  <2>2. i \in clusters'.input_nodes[c1] <=>
          /\ i \notin clusters.nodes_c[c1] \cup added
          /\ i \in cs.input_nodes[c1] \/ \E m \in added : i \in inputs'[m]
    BY <1>1
  <2>3. (\E n \in clusters'.nodes_c[c1] : i \in inputs'[n]) <=>
          \/ \E g \in clusters.nodes_c[c1] : i \in inputs[g]
          \/ \E m \in added : i \in inputs'[m]
    BY <1>1, <2>1
  <2> HIDE DEF added
  <2> QED BY <1>1, <1>4, <1>5, <2>2, <2>3 DEF added
<1>6. CASE d # c1
  <2>1. d \in clusters.all_clusters /\ d \notin others /\ d \in Gates
    BY <1>1, <1>2
  <2>2. clusters'.nodes_c[d] = clusters.nodes_c[d]
          /\ clusters'.input_nodes[d] = clusters.input_nodes[d]
    BY <1>1, <1>6, <2>1
  <2>3. \A g \in clusters.nodes_c[d] : inputs'[g] = inputs[g]
    BY <1>3, <2>1
  <2>4. clusters.input_nodes[d] = ActualInputs(d)
    BY <2>1 DEF CachesExact
  <2> QED BY <1>4, <2>2, <2>3, <2>4, ReadFromOutside
<1> QED BY <1>5, <1>6

\* What a cluster lists is what its gates read, when caches are exact.
LEMMA ListedIsRead ==
  ASSUME CachesExact, NEW d \in clusters.all_clusters
  PROVE  \A i : i \in clusters.input_nodes[d] <=>
           i \notin clusters.nodes_c[d] /\ \E g \in clusters.nodes_c[d] : i \in inputs[g]
BY ReadFromOutside DEF CachesExact

\* FaninMerge forgets what the seed listed, and only the merged clusters and the
\* primary inputs were listed unless a removed node was.
LEMMA FaninKeepsExact ==
  ASSUME GraphInv, CachesExact, NothingUsedIsRemoved, FaninAbsorb
  PROVE  CachesExact'
<1>1. /\ it \in clusters.all_clusters
      /\ MergesInto(FaninSeed, it, FaninOthers)
      /\ FaninSeed.input_nodes[it] = clusters.input_nodes[it] \cap Inputs
  BY FaninMerges
<1>2. CircuitTypeOK /\ ClustersPartition
  BY DEF GraphInv
<1>3. ASSUME NEW i, i \notin clusters.nodes_c[it] \cup Added(clusters, FaninOthers)
      PROVE  i \in FaninSeed.input_nodes[it] <=> \E g \in clusters.nodes_c[it] : i \in inputs[g]
  <2>1. i \in clusters.input_nodes[it] <=> \E g \in clusters.nodes_c[it] : i \in inputs[g]
    BY <1>1, <1>3, ListedIsRead
  <2>2. ASSUME i \in clusters.input_nodes[it] PROVE i \in Inputs
    <3>1. PICK g \in clusters.nodes_c[it] : i \in inputs[g]
      BY <2>1, <2>2
    <3>2. g \in LiveGates
      BY <1>1, <1>2 DEF ClustersPartition
    <3>3. i \in all_nodes
      BY <3>1, <3>2 DEF NothingUsedIsRemoved
    <3>4. i \notin LiveGates
      BY <1>2, <1>3, <2>2, ListedIsMerged
    <3> QED BY <1>2, <3>3, <3>4 DEF LiveGates, Gates, CircuitTypeOK
  <2> QED BY <1>1, <2>1, <2>2
<1> QED BY <1>1, <1>2, <1>3, MergeKeepsExact

\* SelectMerge and QuickMerge merge into a cluster as it is.
LEMMA PlainMergeKeepsExact ==
  ASSUME GraphInv, CachesExact, NEW c1, NEW others, MergesInto(clusters, c1, others)
  PROVE  CachesExact'
<1>1. c1 \in clusters.all_clusters /\ CircuitTypeOK /\ ClustersPartition
  BY DEF MergesInto, GraphInv
<1>2. \A i : i \notin clusters.nodes_c[c1] \cup Added(clusters, others) =>
        (i \in clusters.input_nodes[c1] <=> \E g \in clusters.nodes_c[c1] : i \in inputs[g])
  BY <1>1, ListedIsRead
<1> QED BY <1>1, <1>2, MergeKeepsExact

\* A step other than a removal keeps the caches exact.
LEMMA StepKeepsExact ==
  ASSUME GraphInv, WalkTypeOK, CachesExact, NothingUsedIsRemoved, pc = "visit", NodeMergeNext
  PROVE  CachesExact'
<1>1. CASE UNCHANGED circuitVars
  BY <1>1 DEF CachesExact, ActualInputs, circuitVars
<1>2. CASE RewriteSeed
  BY <1>2, RewriteRewrites, PlainMergeKeepsExact DEF Rewrites
<1>3. CASE FaninAbsorb
  BY <1>3, FaninKeepsExact
<1>4. CASE QuickAbsorb
  BY <1>4, QuickMerges, PlainMergeKeepsExact
<1> QED BY <1>1, <1>2, <1>3, <1>4
        DEF NodeMergeNext, KeepSeed, KeepInput, RemoveInput, RemoveTwice, RemovalEnds,
            UseErasedIterator, FaninErasesEnd, FaninSkip, QuickNext, EndPass

\* As long as no gate reads a removed node, rewriting and merging keep the cached
\* inputs exact; removal alone makes them list what no gate of the cluster reads
\* (node.cpp 562-581, 657-667, node.h 59-69).
THEOREM RemovalAloneMakesStale == NodeMergeSpec => OnlyRemoveMakesStale
<1>1. ASSUME NetInv, [NodeMergeNext]_nmVars, pc = "visit", CachesExact, NothingUsedIsRemoved
      PROVE  CachesExact'
  <2>1. GraphInv /\ WalkTypeOK
    BY <1>1, NetInvParts
  <2>2. CASE NodeMergeNext
    BY <1>1, <2>1, <2>2, StepKeepsExact
  <2>3. CASE UNCHANGED nmVars
    BY <1>1, <2>3 DEF nmVars, circuitVars, CachesExact, ActualInputs
  <2> QED BY <1>1, <2>2, <2>3
<1> QED BY <1>1, NetInvariant, PTL DEF NodeMergeSpec, OnlyRemoveMakesStale

-----------------------------------------------------------------------------
(* Loops *)

\* A cone has with each node the nodes that follow it.
LEMMA ConeClosed ==
  ASSUME NEW links, NEW n, NEW m \in Nodes, m \in Cone(links, n) \cup {n}
  PROVE  links[m] \subseteq Cone(links, n) \cup {n}
<1> DEFINE ends == {n} \cup UNION {links[q] : q \in Nodes}
           closed == {S \in SUBSET ends : n \in S /\ \A q \in S : links[q] \subseteq S}
<1> SUFFICES ASSUME NEW i \in links[m], i # n PROVE i \in Cone(links, n)
  OBVIOUS
<1>1. i \in ends \ {n}
  OBVIOUS
<1>2. Cone(links, n) = {q \in ends \ {n} : \A S \in closed : q \in S}
  BY DEF Cone
<1>3. ASSUME NEW S \in closed PROVE i \in S
  <2>1. n \in S /\ \A q \in S : links[q] \subseteq S
    OBVIOUS
  <2>2. m \in S
    BY <1>2, <2>1
  <2> QED BY <2>1, <2>2
<1> HIDE DEF ends, closed
<1> QED BY <1>1, <1>2, <1>3

\* What follows a gate lies in the clusters that follow its cluster.
LEMMA ConeOfCluster ==
  ASSUME GraphInv, NEW c \in clusters.all_clusters, NEW n \in clusters.nodes_c[c],
         NEW m \in FanoutCone(n) \cup {n}
  PROVE  m \in LiveGates /\ clusters.my_cluster[m] \in ClusterFanoutCone(c) \cup {c}
<1> DEFINE F == [d \in Nodes |-> IF d \in Gates THEN ClusterOutputs(d) ELSE {}]
           CC == Cone(F, c) \cup {c}
           S == {g \in LiveGates : clusters.my_cluster[g] \in CC}
<1>1. CircuitTypeOK /\ LinksMirror /\ ClustersPartition
  BY DEF GraphInv
<1>2. n \in LiveGates /\ clusters.my_cluster[n] = c
  BY <1>1 DEF ClustersPartition
<1>3. n \in S
  BY <1>2
<1>4. ASSUME NEW g \in S PROVE outputs[g] \subseteq S
  <2> SUFFICES ASSUME NEW o \in outputs[g] PROVE o \in S
    OBVIOUS
  <2>1. o \in LiveGates
    BY <1>1 DEF LinksMirror, LiveGates
  <2> DEFINE d == clusters.my_cluster[g]
  <2>2. d \in Gates /\ d \in Nodes /\ g \in clusters.nodes_c[d] /\ d \in CC
    BY <1>1 DEF ClustersPartition, CircuitTypeOK, LiveGates, Gates
  <2>3. clusters.my_cluster[o] \in ClusterOutputs(d)
    BY <2>2 DEF ClusterOutputs
  <2>4. clusters.my_cluster[o] \in F[d]
    BY <2>2, <2>3
  <2> HIDE DEF F, d
  <2>5. F[d] \subseteq CC
    BY <2>2, ConeClosed
  <2> QED BY <2>1, <2>4, <2>5
<1>5. S \in SUBSET Nodes /\ n \in Nodes
  BY <1>2 DEF LiveGates, Gates
<1>6. FanoutCone(n) \subseteq S
  <2> HIDE DEF S
  <2> QED BY <1>3, <1>4, <1>5, ConeLeast DEF FanoutCone
<1>7. m \in S
  BY <1>3, <1>6
<1> QED BY <1>7 DEF ClusterFanoutCone

\* With exact caches the new inputs of a seed are in the circuit, and none
\* depends on the seed: InitCand leaves out the clusters that follow it.
LEMMA NewInputsPrecede ==
  ASSUME GraphInv, CachesExact, NothingUsedIsRemoved, NEW n, NEW s, Rewrites(n, s),
         NEW i \in InputsOfAll(s)
  PROVE  i \in all_nodes /\ i \notin FanoutCone(n) \cup {n}
<1>1. PICK k \in DOMAIN s : i \in clusters.input_nodes[s[k]]
  BY DEF InputsOfAll
<1> DEFINE d == s[k]
<1>2. d \in clusters.all_clusters /\ it \in clusters.all_clusters /\ n \in clusters.nodes_c[it]
  BY DEF Rewrites
<1>3. PICK g \in clusters.nodes_c[d] : i \in inputs[g]
  BY <1>1, <1>2, ListedIsRead
<1>4. g \in LiveGates /\ clusters.my_cluster[g] = d
  BY <1>2 DEF GraphInv, ClustersPartition
<1>5. i \in all_nodes
  BY <1>3, <1>4 DEF NothingUsedIsRemoved
<1>6. d \notin ClusterFanoutCone(it) \cup {it}
  <2> DEFINE cand == Candidates(it, n)
  <2>1. \A e \in cand : e \notin ClusterFanoutCone(it) \cup {it}
    BY DEF Candidates
  <2> HIDE DEF cand
  <2>2. PICK k2 : s \in [1 .. k2 -> cand]
    BY DEF Rewrites, Solutions, cand
  <2> QED BY <2>1, <2>2
<1>7. ASSUME i \in FanoutCone(n) \cup {n} PROVE FALSE
  <2>1. g \in outputs[i]
    BY <1>3, <1>4, <1>5 DEF GraphInv, LinksMirror
  <2>2. i \in Nodes
    BY <1>5 DEF GraphInv, CircuitTypeOK
  <2>3. g \in FanoutCone(n) \cup {n}
    BY <1>7, <2>1, <2>2, ConeClosed DEF FanoutCone
  <2>4. clusters.my_cluster[g] \in ClusterFanoutCone(it) \cup {it}
    BY <1>2, <2>3, ConeOfCluster
  <2> QED BY <1>4, <1>6, <2>4
<1> QED BY <1>5, <1>7

\* Giving a gate inputs that do not depend on it closes no loop.
LEMMA RewriteClosesNoLoop ==
  ASSUME GraphInv, CachesExact, NothingUsedIsRemoved, NodesAcyclic,
         NEW n, NEW s, Rewrites(n, s)
  PROVE  NodesAcyclic' /\ NothingUsedIsRemoved'
<1> DEFINE T == FanoutCone(n) \cup {n}
           new == InputsOfAll(s)
<1>1. CircuitTypeOK /\ LinksMirror /\ n \in LiveGates
  BY DEF GraphInv, Rewrites
<1>2. /\ LiveGates' = LiveGates /\ UNCHANGED <<spec, all_nodes>>
      /\ inputs'[n] = new
      /\ \A g \in LiveGates : g # n => inputs'[g] = inputs[g]
  BY <1>1 DEF Rewrites, MergesInto, LiveGates, CircuitTypeOK
<1>3. new \subseteq all_nodes /\ new \cap T = {}
  BY NewInputsPrecede
<1>4. NothingUsedIsRemoved'
  BY <1>2, <1>3 DEF NothingUsedIsRemoved
<1>5. ASSUME NEW m \in LiveGates, m \notin T PROVE inputs[m] \cap T = {}
  <2> SUFFICES ASSUME NEW i \in inputs[m], i \in T PROVE FALSE
    OBVIOUS
  <2>1. i \in all_nodes /\ i \in Nodes
    BY <1>1 DEF NothingUsedIsRemoved, CircuitTypeOK
  <2>2. m \in outputs[i]
    BY <1>1, <2>1 DEF LinksMirror
  <2> QED BY <1>5, <2>1, <2>2, ConeClosed DEF FanoutCone
<1>6. NodesAcyclic'
  <2> HIDE DEF T, new
  <2> SUFFICES ASSUME NEW P \in (SUBSET LiveGates) \ {{}}
               PROVE  \E m \in P : inputs'[m] \cap P = {}
    BY <1>2 DEF NodesAcyclic, Acyclic
  <2>1. \A Q \in (SUBSET LiveGates) \ {{}} : \E m \in Q : inputs[m] \cap Q = {}
    BY DEF NodesAcyclic, Acyclic
  <2>2. n \in T
    BY DEF T
  <2>3. CASE P \subseteq T
    <3>1. CASE n \in P
      BY <1>2, <1>3, <2>3, <3>1
    <3>2. CASE n \notin P
      BY <1>2, <2>1, <3>2
    <3> QED BY <3>1, <3>2
  <2>4. CASE ~(P \subseteq T)
    <3>1. P \ T \in (SUBSET LiveGates) \ {{}}
      BY <2>4
    <3>2. PICK m \in P \ T : inputs[m] \cap (P \ T) = {}
      BY <2>1, <3>1
    <3>3. inputs'[m] = inputs[m] /\ inputs[m] \cap T = {}
      BY <1>2, <1>5, <2>2, <3>2
    <3> QED BY <3>2, <3>3
  <2> QED BY <2>3, <2>4
<1> QED BY <1>4, <1>6

\* Nothing that stays reads what is removed, and no output is removed.
LEMMA RemovedIsUnread ==
  ASSUME NEW n \in Gates, IsUnused(n), NEW m \in Removed(n)
  PROVE  ~is_output(m) /\ outputs[m] \subseteq Removed(n)
<1> DEFINE gone == Removed(n)
           R == {g \in gone : ~is_output(g) /\ outputs[g] \subseteq gone}
           closed(Q) ==
             /\ n \in Q
             /\ \A g \in Gates \ Q :
                  is_output(g) \/ ~(\E q \in Q : g \in inputs[q]) \/ ~(outputs[g] \subseteq Q)
<1>1. n \in gone /\ gone \subseteq Gates
  BY RemovedHasNode
<1>2. gone = {g \in Gates : \A Q \in SUBSET Gates : closed(Q) => g \in Q}
  BY DEF Removed
<1>3. closed(R)
  <2>1. n \in R
    BY <1>1 DEF IsUnused
  <2>2. ASSUME NEW g \in Gates \ R, ~is_output(g), NEW q \in R, g \in inputs[q],
               outputs[g] \subseteq R
        PROVE  FALSE
    <3>1. g \in gone
      BY <2>2, RemovedDescends
    <3> QED BY <2>2, <3>1
  <2> HIDE DEF R
  <2> QED BY <2>1, <2>2
<1>4. R \in SUBSET Gates
  BY <1>1
<1>5. gone \subseteq R
  <2> HIDE DEF closed, R
  <2> QED BY <1>2, <1>3, <1>4
<1> QED BY <1>5

\* A removal leaves no loop and loses nothing that is read.
LEMMA RemovalIsSound ==
  ASSUME GraphInv, WalkTypeOK, NodesAcyclic, NothingUsedIsRemoved, RemoveInput
  PROVE  NodesAcyclic' /\ NothingUsedIsRemoved'
<1>1. PICK n \in pending : IsUnused(n) /\ n \in LiveGates /\ Removes(Removed(n))
  BY RemoveInputRemoves
<1> DEFINE gone == Removed(n)
<1>2. /\ gone \subseteq LiveGates /\ all_nodes' = all_nodes \ gone
      /\ UNCHANGED <<spec, inputs>>
  BY <1>1 DEF Removes
<1>3. \A m \in gone : ~is_output(m) /\ outputs[m] \subseteq gone
  BY <1>1, RemovedIsUnread DEF LiveGates
<1> HIDE DEF gone
<1>4. LiveGates' = LiveGates \ gone
  BY <1>2 DEF LiveGates
<1>5. NodesAcyclic'
  BY <1>2, <1>4 DEF NodesAcyclic, Acyclic
<1>6. spec.outputs \subseteq all_nodes'
  BY <1>2, <1>3 DEF NothingUsedIsRemoved, is_output
<1>7. ASSUME NEW g \in LiveGates \ gone, NEW i \in inputs[g] PROVE i \notin gone
  <2> SUFFICES ASSUME i \in gone PROVE FALSE
    OBVIOUS
  <2>1. i \in all_nodes
    BY <1>2 DEF LiveGates
  <2>2. g \in outputs[i]
    BY <2>1 DEF GraphInv, LinksMirror
  <2> QED BY <1>3, <2>2
<1>8. NothingUsedIsRemoved'
  BY <1>2, <1>4, <1>6, <1>7 DEF NothingUsedIsRemoved
<1> QED BY <1>5, <1>8

\* No step closes a loop or loses a node in use while caches are exact.
LEMMA StepIsSound ==
  ASSUME GraphInv, WalkTypeOK, CachesExact, NodesAcyclic, NothingUsedIsRemoved, NodeMergeNext
  PROVE  NodesAcyclic' /\ NothingUsedIsRemoved'
<1>1. CASE UNCHANGED <<spec, all_nodes, inputs>>
  BY <1>1 DEF NodesAcyclic, Acyclic, NothingUsedIsRemoved, LiveGates
<1>2. CASE RewriteSeed
  BY <1>2, RewriteRewrites, RewriteClosesNoLoop
<1>3. CASE RemoveInput
  BY <1>3, RemovalIsSound
<1> QED BY <1>1, <1>2, <1>3
        DEF NodeMergeNext, KeepSeed, KeepInput, RemoveTwice, RemovalEnds, UseErasedIterator,
            FaninAbsorb, FaninErasesEnd, FaninSkip, QuickAbsorb, QuickNext, EndPass, circuitVars

\* As long as the cached inputs are exact, no step closes a combinational loop
\* or gives a seed a removed node for an input, however many clusters a solution
\* has: leaving out the clusters that follow the seed is enough (nodemerge.cpp
\* 265, 285-293).
THEOREM RewritesAreSound == NodeMergeSpec => SoundWhileExact
<1>1. ASSUME NetInv, [NodeMergeNext]_nmVars, CachesExact, NodesAcyclic, NothingUsedIsRemoved
      PROVE  NodesAcyclic' /\ NothingUsedIsRemoved'
  <2>1. GraphInv /\ WalkTypeOK
    BY <1>1, NetInvParts
  <2>2. CASE NodeMergeNext
    BY <1>1, <2>1, <2>2, StepIsSound
  <2>3. CASE UNCHANGED nmVars
    BY <1>1, <2>3 DEF nmVars, circuitVars, NodesAcyclic, Acyclic, NothingUsedIsRemoved, LiveGates
  <2> QED BY <1>1, <2>2, <2>3
<1> QED BY <1>1, NetInvariant, PTL DEF NodeMergeSpec, SoundWhileExact

-----------------------------------------------------------------------------
(* Loops of clusters *)

\* S is a part of V that links F do not leave within V.
Closed(F, V, S) == S \subseteq V /\ \A m \in S : F[m] \cap V \subseteq S

\* What links F lead to within V from c, c included.
Reach(F, V, c) == {v \in V : \A S \in SUBSET V : c \in S /\ Closed(F, V, S) => v \in S}

\* The reach is the least closed set.
LEMMA ReachIsClosed ==
  ASSUME NEW F, NEW V, NEW c \in V
  PROVE  /\ c \in Reach(F, V, c)
         /\ Closed(F, V, Reach(F, V, c))
         /\ \A S \in SUBSET V : c \in S /\ Closed(F, V, S) => Reach(F, V, c) \subseteq S
<1>1. c \in Reach(F, V, c) /\ Reach(F, V, c) \subseteq V
  BY DEF Reach
<1>2. ASSUME NEW S \in SUBSET V, c \in S, Closed(F, V, S) PROVE Reach(F, V, c) \subseteq S
  BY <1>2 DEF Reach
<1>3. ASSUME NEW m \in Reach(F, V, c), NEW i \in F[m] \cap V PROVE i \in Reach(F, V, c)
  <2> SUFFICES ASSUME NEW S \in SUBSET V, c \in S, Closed(F, V, S) PROVE i \in S
    BY DEF Reach
  <2>1. m \in S
    BY <1>2
  <2> QED BY <2>1 DEF Closed
<1> QED BY <1>1, <1>2, <1>3 DEF Closed

\* Without a loop, nothing that c leads to leads back to c.
LEMMA NoReturn ==
  ASSUME NEW F, NEW V, Acyclic(F, V), NEW c \in V, NEW m \in Reach(F, V, c)
  PROVE  c \notin F[m]
<1> SUFFICES ASSUME c \in F[m] PROVE FALSE
  OBVIOUS
<1> DEFINE R == Reach(F, V, c)
           Avoiding == {S \in SUBSET V : Closed(F, V, S) /\ c \notin S}
           B == UNION Avoiding
           U == R \ B
<1>1. Closed(F, V, R) /\ c \in R /\ \A S \in SUBSET V : c \in S /\ Closed(F, V, S) => R \subseteq S
  BY ReachIsClosed
<1>2. Closed(F, V, B) /\ c \notin B
  BY DEF Closed
<1>3. \A S \in SUBSET V : Closed(F, V, S) /\ c \notin S => S \subseteq B
  OBVIOUS
<1> HIDE DEF R, B
<1>4. m \notin B
  BY <1>2 DEF Closed
<1>5. \A P \in (SUBSET V) \ {{}} : \E v \in P : F[v] \cap P = {}
  BY DEF Acyclic
<1>6. c \in U /\ U \in (SUBSET V) \ {{}}
  BY <1>1, <1>2 DEF Closed
<1>7. PICK v \in U : F[v] \cap U = {}
  BY <1>5, <1>6
<1>8. F[v] \cap V \subseteq B
  BY <1>1, <1>7 DEF Closed
<1>9. Closed(F, V, B \cup {v})
  BY <1>2, <1>6, <1>8 DEF Closed
<1>10. CASE v # c
  <2>1. B \cup {v} \subseteq B
    BY <1>2, <1>3, <1>9, <1>10 DEF Closed
  <2> QED BY <2>1
<1>11. CASE v = c
  <2>1. R \subseteq B \cup {c}
    BY <1>1, <1>9, <1>11 DEF Closed
  <2>2. m = c
    BY <1>4, <2>1 DEF R
  <2>3. {c} \in (SUBSET V) \ {{}}
    OBVIOUS
  <2>4. F[c] \cap {c} = {}
    BY <1>5, <2>3
  <2> QED BY <2>2, <2>4
<1> QED BY <1>10, <1>11

\* Putting d into c, when neither leads to the other, closes no loop.
LEMMA ContractionIsAcyclic ==
  ASSUME NEW F, NEW V, Acyclic(F, V), NEW c \in V, NEW d \in V, c # d,
         d \notin Reach(F, V, c), c \notin Reach(F, V, d),
         NEW G,
         \A m \in V \ {c, d} : /\ G[m] \cap V \subseteq F[m] \cup {c}
                               /\ c \in G[m] => c \in F[m] \/ d \in F[m],
         G[c] \cap V \subseteq (F[c] \cup F[d]) \ {c, d}
  PROVE  Acyclic(G, V \ {d})
<1> DEFINE Rc == Reach(F, V, c)
           Rd == Reach(F, V, d)
           A == (Rc \cup Rd) \ {c, d}
<1>1. Closed(F, V, Rc) /\ Closed(F, V, Rd) /\ c \in Rc /\ d \in Rd
  BY ReachIsClosed
<1>2. (\A m \in Rc : c \notin F[m]) /\ (\A m \in Rd : d \notin F[m])
  BY NoReturn
<1>3. d \notin Rc /\ c \notin Rd
  OBVIOUS
<1> HIDE DEF Rc, Rd
<1>4. \A m \in A : F[m] \cap V \subseteq A
  BY <1>1, <1>2, <1>3 DEF Closed
<1>5. F[c] \cap V \subseteq A /\ F[d] \cap V \subseteq A
  BY <1>1, <1>2, <1>3 DEF Closed
<1>6. A \subseteq V \ {c, d}
  BY <1>1 DEF Closed
<1>7. \A P \in (SUBSET V) \ {{}} : \E v \in P : F[v] \cap P = {}
  BY DEF Acyclic
<1> HIDE DEF A
<1> SUFFICES ASSUME NEW P \in (SUBSET (V \ {d})) \ {{}}
             PROVE  \E m \in P : G[m] \cap P = {}
  BY DEF Acyclic
<1>8. P \in (SUBSET V) \ {{}}
  OBVIOUS
<1>9. CASE c \notin P
  <2>1. PICK m \in P : F[m] \cap P = {}
    BY <1>7, <1>8
  <2>2. m \in V \ {c, d}
    BY <1>9
  <2>3. G[m] \cap V \subseteq F[m] \cup {c}
    BY <2>2
  <2> QED BY <1>9, <2>1, <2>3
<1>10. CASE c \in P /\ P \cap A = {}
  BY <1>5, <1>10
<1>11. CASE c \in P /\ P \cap A # {}
  <2>1. P \cap A \in (SUBSET V) \ {{}}
    BY <1>11
  <2>2. PICK m \in P \cap A : F[m] \cap (P \cap A) = {}
    BY <1>7, <2>1
  <2>3. m \in V \ {c, d} /\ F[m] \cap V \subseteq A
    BY <1>4, <1>6, <2>2
  <2>4. c \notin F[m] /\ d \notin F[m]
    BY <1>6, <2>3
  <2>5. G[m] \cap V \subseteq F[m]
    BY <2>3, <2>4
  <2> QED BY <2>2, <2>3, <2>5
<1> QED BY <1>9, <1>10, <1>11

\* Which clusters a cluster feeds, itself left out.
Feeds == [c \in Gates |-> ClusterOutputs(c) \ {c}]

\* Membership in a union of images.
LEMMA InSomeImage ==
  ASSUME NEW f, NEW A, NEW B
  PROVE  \A e : e \in UNION {{f[o] : o \in B[g]} : g \in A} <=>
                  \E g \in A : \E o \in B[g] : e = f[o]
<1>1. ASSUME NEW e, NEW g \in A, NEW o \in B[g], e = f[o]
      PROVE  e \in UNION {{f[p] : p \in B[q]} : q \in A}
  <2>1. e \in {f[p] : p \in B[g]}
    BY <1>1
  <2> QED BY <2>1
<1>2. ASSUME NEW e, e \in UNION {{f[p] : p \in B[q]} : q \in A}
      PROVE  \E g \in A : \E o \in B[g] : e = f[o]
  <2>1. PICK g \in A : e \in {f[p] : p \in B[g]}
    BY <1>2
  <2> QED BY <2>1
<1> QED BY <1>1, <1>2

\* What a cluster feeds, gate by gate.
LEMMA FedClusters ==
  ASSUME NEW c \in Gates
  PROVE  \A e : /\ e \in Feeds[c] <=>
                     e # c /\ \E g \in clusters.nodes_c[c] : \E o \in outputs[g] :
                                e = clusters.my_cluster[o]
                /\ e \in Feeds'[c] <=>
                     e # c /\ \E g \in clusters'.nodes_c[c] : \E o \in outputs'[g] :
                                e = clusters'.my_cluster[o]
<1>1. Feeds[c] = ClusterOutputs(c) \ {c} /\ Feeds'[c] = ClusterOutputs(c)' \ {c}
  BY DEF Feeds
<1>2. \A e : e \in ClusterOutputs(c) <=>
        \E g \in clusters.nodes_c[c] : \E o \in outputs[g] : e = clusters.my_cluster[o]
  BY InSomeImage DEF ClusterOutputs
<1>3. \A e : e \in ClusterOutputs(c)' <=>
        \E g \in clusters'.nodes_c[c] : \E o \in outputs'[g] : e = clusters'.my_cluster[o]
  BY InSomeImage DEF ClusterOutputs
<1> QED BY <1>1, <1>2, <1>3

\* The fan-out cone of a cluster has all it leads to.
LEMMA FanoutConeReaches ==
  ASSUME GraphInv, NEW c \in clusters.all_clusters, NEW d \in clusters.all_clusters,
         d # c, d \notin ClusterFanoutCone(c)
  PROVE  d \notin Reach(Feeds, clusters.all_clusters, c)
<1> DEFINE F == [e \in Nodes |-> IF e \in Gates THEN ClusterOutputs(e) ELSE {}]
           V == clusters.all_clusters
           S == (Cone(F, c) \cup {c}) \cap V
<1>1. V \subseteq Gates /\ Gates \subseteq Nodes
  BY DEF GraphInv, CircuitTypeOK, Gates
<1>2. ASSUME NEW m \in S PROVE Feeds[m] \cap V \subseteq S
  <2>1. F[m] = ClusterOutputs(m) /\ Feeds[m] \subseteq ClusterOutputs(m) /\ m \in Nodes
    BY <1>1 DEF Feeds
  <2> HIDE DEF F
  <2>2. F[m] \subseteq Cone(F, c) \cup {c}
    BY <2>1, ConeClosed
  <2> QED BY <2>1, <2>2
<1>3. S \in SUBSET V /\ c \in S /\ d \notin S
  BY DEF ClusterFanoutCone
<1>4. Closed(Feeds, V, S)
  BY <1>2 DEF Closed
<1> HIDE DEF S
<1> QED BY <1>3, <1>4, ReachIsClosed

\* The fan-in cone of a cluster has all that leads to it.
LEMMA FaninConeReaches ==
  ASSUME GraphInv, NEW c \in clusters.all_clusters, NEW d \in clusters.all_clusters,
         d # c, d \notin ClusterFaninCone(c)
  PROVE  c \notin Reach(Feeds, clusters.all_clusters, d)
<1> DEFINE F == [e \in Nodes |-> IF e \in Gates THEN ClusterInputs(e) ELSE {}]
           V == clusters.all_clusters
           S == V \ (Cone(F, c) \cup {c})
<1>0. ClustersPartition /\ LinksMirror
  BY DEF GraphInv
<1>1. V \subseteq Gates /\ Gates \subseteq Nodes
  BY DEF GraphInv, CircuitTypeOK, Gates
<1>2. ASSUME NEW m \in S, NEW e \in Feeds[m] \cap V PROVE e \in S
  <2>1. PICK g \in clusters.nodes_c[m] : \E o \in outputs[g] : e = clusters.my_cluster[o]
    BY <1>1, FedClusters
  <2>2. PICK o \in outputs[g] : e = clusters.my_cluster[o]
    BY <2>1
  <2>3. g \in LiveGates /\ clusters.my_cluster[g] = m
    BY <1>0 DEF ClustersPartition
  <2>4. o \in LiveGates /\ g \in inputs[o]
    BY <1>0, <2>3 DEF LinksMirror, LiveGates
  <2>5. o \in clusters.nodes_c[e]
    BY <1>0, <2>2, <2>4 DEF ClustersPartition
  <2>6. m \in ClusterInputs(e)
    BY <2>3, <2>4, <2>5 DEF ClusterInputs, LiveGates, Gates
  <2>7. F[e] = ClusterInputs(e) /\ e \in Nodes
    BY <1>1
  <2> HIDE DEF F
  <2>8. e \in Cone(F, c) \cup {c} => m \in Cone(F, c) \cup {c}
    BY <2>6, <2>7, ConeClosed
  <2> QED BY <2>8
<1>3. S \in SUBSET V /\ d \in S /\ c \notin S
  BY DEF ClusterFaninCone
<1>4. Closed(Feeds, V, S)
  BY <1>2 DEF Closed
<1> HIDE DEF S
<1> QED BY <1>3, <1>4, ReachIsClosed

\* QuickMerge leaves out the clusters before and after the seed.
LEMMA QuickClosesNoLoop ==
  ASSUME GraphInv, ClustersAcyclic, QuickAbsorb
  PROVE  ClustersAcyclic'
<1> DEFINE V == clusters.all_clusters
<1>1. it \in V /\ UNCHANGED <<inputs, outputs>>
  BY QuickMerges
<1>2. PICK d \in QuickBest(it) : d \in V /\ d # it /\ MergesInto(clusters, it, {d})
  BY QuickMerges
<1>3. CircuitTypeOK /\ ClustersPartition /\ LinksMirror
  BY DEF GraphInv
<1>4. it \in Gates /\ d \in Gates /\ V \subseteq Gates
  BY <1>1, <1>2, <1>3 DEF CircuitTypeOK
<1>5. Added(clusters, {d}) = clusters.nodes_c[d]
  BY DEF Added
<1>6. /\ clusters'.all_clusters = V \ {d}
      /\ clusters'.nodes_c[it] = clusters.nodes_c[it] \cup clusters.nodes_c[d]
      /\ \A e \in Gates \ {it} : clusters'.nodes_c[e] = clusters.nodes_c[e]
      /\ \A n \in Gates : clusters'.my_cluster[n] =
           IF n \in clusters.nodes_c[d] THEN it ELSE clusters.my_cluster[n]
  BY <1>2, <1>3, <1>5, MergesIntoFields
<1>7. ASSUME NEW m \in V, NEW g \in clusters.nodes_c[m], NEW o \in outputs[g]
      PROVE  clusters'.my_cluster[o] =
               IF clusters.my_cluster[o] = d THEN it ELSE clusters.my_cluster[o]
  <2>1. g \in LiveGates
    BY <1>3 DEF ClustersPartition
  <2>2. o \in LiveGates /\ o \in Gates
    BY <1>3, <2>1 DEF LinksMirror, LiveGates
  <2>3. o \in clusters.nodes_c[d] <=> clusters.my_cluster[o] = d
    BY <1>2, <1>3, <2>2 DEF ClustersPartition
  <2> QED BY <1>6, <2>2, <2>3
<1>8. ASSUME NEW m \in V \ {it, d}
      PROVE  /\ Feeds'[m] \cap V \subseteq Feeds[m] \cup {it}
             /\ it \in Feeds'[m] => it \in Feeds[m] \/ d \in Feeds[m]
  <2>1. clusters'.nodes_c[m] = clusters.nodes_c[m] /\ m \in Gates /\ m \in V
    BY <1>4, <1>6
  <2>2. ASSUME NEW e \in Feeds'[m]
        PROVE  e \in Feeds[m] \/ (e = it /\ d \in Feeds[m])
    <3>1. e # m /\ \E g \in clusters.nodes_c[m] : \E o \in outputs[g] : e = clusters'.my_cluster[o]
      BY <1>1, <2>1, FedClusters
    <3>2. PICK g \in clusters.nodes_c[m] : \E o \in outputs[g] : e = clusters'.my_cluster[o]
      BY <3>1
    <3>3. PICK o \in outputs[g] : e = clusters'.my_cluster[o]
      BY <3>2
    <3>4. clusters.my_cluster[o] = d \/ e = clusters.my_cluster[o]
      BY <1>7, <2>1, <3>3
    <3>5. clusters.my_cluster[o] # m => clusters.my_cluster[o] \in Feeds[m]
      BY <2>1, <3>3, FedClusters
    <3> QED BY <1>7, <2>1, <3>1, <3>3, <3>4, <3>5
  <2> QED BY <2>2
<1>9. Feeds'[it] \cap V \subseteq (Feeds[it] \cup Feeds[d]) \ {it, d}
  <2> SUFFICES ASSUME NEW e \in Feeds'[it] PROVE e \in (Feeds[it] \cup Feeds[d]) \ {it, d}
    OBVIOUS
  <2>1. PICK g \in clusters.nodes_c[it] \cup clusters.nodes_c[d] :
          \E o \in outputs[g] : e = clusters'.my_cluster[o]
    BY <1>1, <1>4, <1>6, FedClusters
  <2>2. PICK o \in outputs[g] : e = clusters'.my_cluster[o]
    BY <2>1
  <2>3. e # it
    BY <1>4, FedClusters
  <2>4. e = clusters.my_cluster[o] /\ e # d
    BY <1>1, <1>2, <1>7, <2>2, <2>3
  <2> QED BY <1>4, <2>2, <2>3, <2>4, FedClusters
<1>10. d \notin ClusterFanoutCone(it) /\ d \notin ClusterFaninCone(it)
  BY DEF QuickBest, QuickCandidates
<1>11. d \notin Reach(Feeds, V, it) /\ it \notin Reach(Feeds, V, d)
  BY <1>1, <1>2, <1>10, FanoutConeReaches, FaninConeReaches
<1>12. Acyclic(Feeds, V)
  BY DEF ClustersAcyclic, Feeds
<1>13. Acyclic(Feeds', V \ {d})
  BY <1>1, <1>2, <1>8, <1>9, <1>11, <1>12, ContractionIsAcyclic
<1> QED BY <1>6, <1>13 DEF ClustersAcyclic, Feeds

\* SelectMerge(1): the seed gives up what it read, reads what the cluster reads
\* that it is put into, and that cluster is not after the seed's.
LEMMA RewriteOneClosesNoLoop ==
  ASSUME GraphInv, CachesExact, ClustersAcyclic,
         NEW n, NEW s, Rewrites(n, s), Passes[pass] = <<"select", 1>>
  PROVE  ClustersAcyclic'
<1> DEFINE V == clusters.all_clusters
           c == s[1]
           F == [m \in Gates |-> Feeds[m] \ {it}]
<1>1. CircuitTypeOK /\ ClustersPartition /\ LinksMirror
  BY DEF GraphInv
<1>2. /\ it \in V /\ clusters.nodes_c[it] = {n} /\ n \in LiveGates
      /\ c \in V /\ c # it
      /\ outputs' = Relinked(n, InputsOfAll(s))
      /\ MergesInto(clusters, c, OthersOf(s))
  BY DEF Rewrites
<1>3. c \in Candidates(it, n) /\ DOMAIN s = {1}
  <2> DEFINE cand == Candidates(it, n)
  <2> HIDE DEF cand
  <2>1. s \in Solutions(cand, 1)
    BY DEF Rewrites, cand
  <2>2. s \in [1 .. 1 -> cand]
    BY <2>1 DEF Solutions
  <2> QED BY <2>2 DEF cand
<1>4. OthersOf(s) = {it}
  BY <1>3 DEF OthersOf
<1>5. InputsOfAll(s) = clusters.input_nodes[c]
  BY <1>3 DEF InputsOfAll
<1>6. it \in Gates /\ c \in Gates /\ V \subseteq Gates /\ Gates \subseteq Nodes
  BY <1>1, <1>2 DEF CircuitTypeOK, Gates
<1> HIDE DEF c
<1>7. Added(clusters, OthersOf(s)) = {n}
  BY <1>2, <1>4 DEF Added
<1>8. /\ clusters'.all_clusters = V \ {it}
      /\ clusters'.nodes_c[c] = clusters.nodes_c[c] \cup {n}
      /\ \A e \in Gates \ {c} : clusters'.nodes_c[e] = clusters.nodes_c[e]
      /\ \A g \in Gates : clusters'.my_cluster[g] = IF g = n THEN c ELSE clusters.my_cluster[g]
  <2> DEFINE others == OthersOf(s)
             added == Added(clusters, others)
  <2>1. others = {it} /\ added = {n}
    BY <1>4, <1>7
  <2>0. CircuitTypeOK /\ MergesInto(clusters, c, others)
    BY <1>1, <1>2
  <2> HIDE DEF others, added
  <2>2. /\ clusters'.all_clusters = V \ others
        /\ clusters'.nodes_c[c] = clusters.nodes_c[c] \cup added
        /\ \A e \in Gates \ {c} : clusters'.nodes_c[e] = clusters.nodes_c[e]
        /\ \A g \in Gates : clusters'.my_cluster[g] = IF g \in added THEN c ELSE clusters.my_cluster[g]
    BY <2>0, MergesIntoFields DEF added
  <2> QED BY <2>1, <2>2
<1>9. \A g \in Nodes : outputs'[g] = IF g \in clusters.input_nodes[c] THEN outputs[g] \cup {n}
                                                                     ELSE outputs[g] \ {n}
  BY <1>2, <1>5 DEF Relinked
<1> HIDE DEF V, F
\* A link after the step: to the seed, which the cluster was read by, or an old one.
<1>10. ASSUME NEW m \in V, NEW g \in clusters.nodes_c[m], NEW o \in outputs'[g]
       PROVE  \/ /\ clusters'.my_cluster[o] = c
                 /\ o = n
                 /\ m # it => c = m \/ c \in F[m]
              \/ /\ clusters'.my_cluster[o] = clusters.my_cluster[o]
                 /\ clusters.my_cluster[o] # it
                 /\ clusters.my_cluster[o] = m \/ clusters.my_cluster[o] \in F[m]
  <2>1. g \in LiveGates /\ g \in all_nodes /\ g \in Nodes /\ m \in Gates
    BY <1>1, <1>6 DEF ClustersPartition, LiveGates, Gates, V
  <2>2. CASE o = n
    <3>1. clusters'.my_cluster[o] = c
      BY <1>2, <1>8, <2>2 DEF LiveGates
    <3>2. CASE g \in clusters.input_nodes[c]
      <4>1. PICK h \in clusters.nodes_c[c] : g \in inputs[h]
        BY <1>2, <3>2, ListedIsRead DEF V
      <4>2. h \in LiveGates /\ clusters.my_cluster[h] = c
        BY <1>1, <1>2 DEF ClustersPartition, V
      <4>3. h \in outputs[g]
        BY <1>1, <2>1, <4>1, <4>2 DEF LinksMirror
      <4>4. c = m \/ c \in Feeds[m]
        BY <2>1, <4>2, <4>3, FedClusters
      <4> QED BY <1>2, <2>1, <2>2, <3>1, <4>4 DEF F
    <3>3. CASE g \notin clusters.input_nodes[c]
      BY <1>9, <2>1, <2>2, <3>3
    <3> QED BY <3>2, <3>3
  <2>3. CASE o # n
    <3>1. o \in outputs[g]
      BY <1>9, <2>1, <2>3
    <3>2. o \in LiveGates /\ o \in Gates
      BY <1>1, <2>1, <3>1 DEF LinksMirror, LiveGates
    <3>3. clusters'.my_cluster[o] = clusters.my_cluster[o] /\ clusters.my_cluster[o] # it
      BY <1>1, <1>2, <1>8, <2>3, <3>2 DEF ClustersPartition
    <3>4. clusters.my_cluster[o] = m \/ clusters.my_cluster[o] \in Feeds[m]
      BY <2>1, <3>1, FedClusters
    <3> QED BY <2>1, <3>3, <3>4 DEF F
  <2> QED BY <2>2, <2>3
<1>11. ASSUME NEW m \in V \ {c, it}
       PROVE  /\ Feeds'[m] \cap V \subseteq F[m] \cup {c}
              /\ c \in Feeds'[m] => c \in F[m] \/ it \in F[m]
  <2>1. clusters'.nodes_c[m] = clusters.nodes_c[m] /\ m \in Gates /\ m \in V
    BY <1>6, <1>8
  <2>2. ASSUME NEW e \in Feeds'[m] PROVE e \in F[m]
    <3>1. e # m /\ \E g \in clusters.nodes_c[m] : \E o \in outputs'[g] : e = clusters'.my_cluster[o]
      BY <2>1, FedClusters
    <3>2. PICK g \in clusters.nodes_c[m] : \E o \in outputs'[g] : e = clusters'.my_cluster[o]
      BY <3>1
    <3>3. PICK o \in outputs'[g] : e = clusters'.my_cluster[o]
      BY <3>2
    <3> QED BY <1>10, <2>1, <3>1, <3>3
  <2> QED BY <2>2
<1>12. Feeds'[c] \cap V \subseteq (F[c] \cup F[it]) \ {c, it}
  <2> SUFFICES ASSUME NEW e \in Feeds'[c] PROVE e \in (F[c] \cup F[it]) \ {c, it}
    OBVIOUS
  <2>1. e # c /\ \E g \in clusters'.nodes_c[c] : \E o \in outputs'[g] : e = clusters'.my_cluster[o]
    BY <1>6, FedClusters
  <2>2. PICK g \in clusters'.nodes_c[c] : \E o \in outputs'[g] : e = clusters'.my_cluster[o]
    BY <2>1
  <2>3. PICK o \in outputs'[g] : e = clusters'.my_cluster[o]
    BY <2>2
  <2>4. PICK m \in {c, it} : g \in clusters.nodes_c[m]
    BY <1>2, <1>8
  <2>5. m \in V
    BY <1>2, <2>4 DEF V
  <2>6. e = clusters.my_cluster[o] /\ e # it /\ (e = m \/ e \in F[m])
    BY <1>10, <2>1, <2>3, <2>4, <2>5
  <2> QED BY <2>1, <2>4, <2>6
<1>13. c \notin Reach(F, V, it)
  <2> DEFINE R == Reach(Feeds, V, it)
  <2>1. c \notin R
    BY <1>2, <1>3, FanoutConeReaches DEF Candidates, V
  <2>2. Closed(Feeds, V, R) /\ it \in R
    BY <1>2, ReachIsClosed DEF V
  <2> HIDE DEF R
  <2>3. Closed(F, V, R)
    BY <1>6, <2>2 DEF Closed, F, V
  <2>4. Reach(F, V, it) \subseteq R
    BY <1>2, <2>2, <2>3, ReachIsClosed DEF Closed, V
  <2> QED BY <2>1, <2>4
<1>14. it \notin Reach(F, V, c)
  <2>1. Closed(F, V, V \ {it})
    BY <1>6 DEF Closed, F, V
  <2>2. Reach(F, V, c) \subseteq V \ {it}
    BY <1>2, <2>1, ReachIsClosed DEF V
  <2> QED BY <2>2
<1>15. Acyclic(F, V)
  <2>1. Acyclic(Feeds, V)
    BY DEF ClustersAcyclic, Feeds, V
  <2>2. \A m \in V : F[m] \subseteq Feeds[m]
    BY <1>6 DEF F
  <2> QED BY <2>1, <2>2 DEF Acyclic
<1>16. Acyclic(Feeds', V \ {it})
  BY <1>2, <1>11, <1>12, <1>13, <1>14, <1>15, ContractionIsAcyclic DEF V
<1> QED BY <1>8, <1>16 DEF ClustersAcyclic, Feeds

\* A removal takes links away and adds none.
LEMMA RemovalClosesNoLoop ==
  ASSUME GraphInv, WalkTypeOK, ClustersAcyclic, RemoveInput
  PROVE  ClustersAcyclic'
<1>1. PICK n \in pending : Removes(Removed(n))
  BY RemoveInputRemoves
<1> DEFINE gone == Removed(n)
           V == clusters.all_clusters
<1>2. clusters \in ClusterRecords /\ V \subseteq Gates
  BY DEF GraphInv, CircuitTypeOK, ClusterRecords
<1>3. /\ outputs' = [m \in Nodes |-> outputs[m] \ gone]
      /\ \E kept \in LastMembers(clusters, gone) : clusters' = WithoutNodes(clusters, gone, kept)
  BY <1>1 DEF Removes
<1> HIDE DEF gone
<1>4. /\ clusters'.all_clusters \subseteq V
      /\ \A c \in Gates : clusters'.nodes_c[c] \subseteq clusters.nodes_c[c]
      /\ clusters'.my_cluster = clusters.my_cluster
  <2>1. PICK kept \in LastMembers(clusters, gone) : clusters' = WithoutNodes(clusters, gone, kept)
    BY <1>3
  <2> QED BY <1>2, <2>1, WithoutNodesFields
<1>5. ASSUME NEW c \in V, NEW e \in Feeds'[c] PROVE e \in Feeds[c]
  <2>1. c \in Gates /\ clusters.nodes_c[c] \subseteq Nodes
    BY <1>2 DEF ClusterRecords, Gates
  <2>2. e # c /\ \E g \in clusters'.nodes_c[c] : \E o \in outputs'[g] : e = clusters'.my_cluster[o]
    BY <2>1, FedClusters
  <2>3. PICK g \in clusters'.nodes_c[c] : \E o \in outputs'[g] : e = clusters'.my_cluster[o]
    BY <2>2
  <2>4. PICK o \in outputs'[g] : e = clusters'.my_cluster[o]
    BY <2>3
  <2>5. g \in clusters.nodes_c[c] /\ o \in outputs[g] /\ e = clusters.my_cluster[o]
    BY <1>3, <1>4, <2>1, <2>4
  <2> QED BY <2>1, <2>2, <2>5, FedClusters
<1>6. \A P \in (SUBSET V) \ {{}} : \E c \in P : Feeds[c] \cap P = {}
  BY DEF ClustersAcyclic, Acyclic, Feeds
<1>7. \A P \in (SUBSET clusters'.all_clusters) \ {{}} : \E c \in P : Feeds'[c] \cap P = {}
  BY <1>4, <1>5, <1>6
<1> QED BY <1>7 DEF ClustersAcyclic, Acyclic, Feeds

\* A step that leaves the network alone closes no loop of clusters.
LEMMA FrozenKeepsClustersAcyclic ==
  ASSUME ClustersAcyclic, UNCHANGED circuitVars
  PROVE  ClustersAcyclic'
<1>1. Feeds' = Feeds /\ clusters' = clusters
  BY DEF Feeds, ClusterOutputs, circuitVars
<1>2. Acyclic(Feeds, clusters.all_clusters)
  BY DEF ClustersAcyclic, Feeds
<1>3. Acyclic(Feeds', clusters'.all_clusters)
  BY <1>1, <1>2
<1> QED BY <1>3 DEF ClustersAcyclic, Feeds

\* In the passes of QuickMerge and SelectMerge(1) no step closes a loop of
\* clusters.
LEMMA StepKeepsClustersAcyclic ==
  ASSUME GraphInv, WalkTypeOK, ClustersAcyclic, CachesExact, NodeMergeNext,
         Passes[pass] \in {<<"quick">>, <<"select", 1>>}
  PROVE  ClustersAcyclic'
<1>1. CASE UNCHANGED circuitVars
  BY <1>1, FrozenKeepsClustersAcyclic
<1>2. CASE RewriteSeed
  <2>1. Passes[pass] = <<"select", 1>>
    BY <1>2 DEF RewriteSeed, Visiting
  <2> QED BY <1>2, <2>1, RewriteRewrites, RewriteOneClosesNoLoop
<1>3. CASE RemoveInput
  BY <1>3, RemovalClosesNoLoop
<1>4. CASE QuickAbsorb
  BY <1>4, QuickClosesNoLoop
<1>5. ~FaninAbsorb
  BY DEF FaninAbsorb, Visiting
<1> QED BY <1>1, <1>2, <1>3, <1>4, <1>5
        DEF NodeMergeNext, KeepSeed, KeepInput, RemoveTwice, RemovalEnds, UseErasedIterator,
            FaninErasesEnd, FaninSkip, QuickNext, EndPass

\* QuickMerge, whose seed takes in a cluster neither before nor after it, and
\* SelectMerge(1), whose seed goes into a cluster not after it, close no loop of
\* clusters (nodemerge.cpp 76-81, 192-224).
THEOREM ClustersKeepOrder == NodeMergeSpec => ClustersStayAcyclic
<1>1. ASSUME NetInv, [NodeMergeNext]_nmVars, ClustersAcyclic,
             Passes[pass] \in {<<"quick">>, <<"select", 1>>}, CachesExact
      PROVE  ClustersAcyclic'
  <2>1. GraphInv /\ WalkTypeOK
    BY <1>1, NetInvParts
  <2>2. CASE NodeMergeNext
    BY <1>1, <2>1, <2>2, StepKeepsClustersAcyclic
  <2>3. CASE UNCHANGED nmVars
    BY <1>1, <2>3, FrozenKeepsClustersAcyclic DEF nmVars
  <2> QED BY <1>1, <2>2, <2>3
<1> QED BY <1>1, NetInvariant, PTL DEF NodeMergeSpec, ClustersStayAcyclic

-----------------------------------------------------------------------------
(* Up to the first removal *)

\* A removal leaves fewer nodes than were read.
LEMMA RemovalIsFinal ==
  ASSUME GraphInv, WalkTypeOK, RemoveInput
  PROVE  all_nodes' # Nodes
<1>1. PICK n \in pending : n \in LiveGates /\ Removes(Removed(n))
  BY RemoveInputRemoves
<1>2. n \in Removed(n) /\ n \in Nodes
  BY <1>1, RemovedHasNode DEF LiveGates, Gates
<1> QED BY <1>1, <1>2 DEF Removes

\* The other steps remove nothing.
LEMMA OthersRemoveNothing ==
  ASSUME NodeMergeNext, ~RemoveInput
  PROVE  all_nodes' = all_nodes /\ spec' = spec
BY DEF NodeMergeNext, KeepSeed, RewriteSeed, KeepInput, RemoveTwice, RemovalEnds,
       UseErasedIterator, FaninAbsorb, FaninErasesEnd, FaninSkip, QuickAbsorb, QuickNext,
       EndPass, circuitVars

\* While all nodes are there nothing in use has been removed.
LEMMA WholeLosesNothing ==
  ASSUME CircuitTypeOK, all_nodes = Nodes
  PROVE  NothingUsedIsRemoved
<1>1. spec.outputs \subseteq Nodes
  BY CircuitsAssumption DEF CircuitTypeOK, Gates
<1>2. \A n \in LiveGates : inputs[n] \subseteq Nodes
  BY DEF CircuitTypeOK, LiveGates, Gates
<1> QED BY <1>1, <1>2 DEF NothingUsedIsRemoved

\* While all nodes are there no step is without a meaning: what is removed or
\* merged is in the circuit.
LEMMA WholeStepHasMeaning ==
  ASSUME GraphInv, WalkTypeOK, SoundUntilRemoval, all_nodes = Nodes, NodeMergeNext
  PROVE  pc' # "undefined"
<1>1. /\ pc # "undefined" /\ it \in clusters.all_clusters \cup {NoCluster}
      /\ CircuitTypeOK /\ ClustersPartition
      /\ LiveGates = Gates
  BY DEF SoundUntilRemoval, GraphInv, LiveGates, Gates
<1>2. ~RemoveTwice
  <2> SUFFICES ASSUME NEW n \in pending, IsUnused(n), ~(Removed(n) \subseteq all_nodes)
               PROVE  FALSE
    BY DEF RemoveTwice
  <2>1. n \in Gates
    BY DEF IsUnused, WalkTypeOK, Gates
  <2>2. Removed(n) \subseteq Gates
    BY <2>1, RemovedHasNode
  <2> QED BY <2>2 DEF Gates
<1>3. ~UseErasedIterator
  BY <1>1 DEF UseErasedIterator
<1>4. ~FaninErasesEnd
  <2> SUFFICES ASSUME it \in clusters.all_clusters, NEW d \in FaninClusters(it),
                      \/ d \notin clusters.all_clusters
                      \/ \E n \in Strays(it, d) : TRUE
               PROVE  FALSE
    BY DEF FaninErasesEnd, Visiting
  <2>1. clusters.input_nodes[it] \subseteq Nodes
    BY <1>1 DEF CircuitTypeOK
  <2>2. \A n \in clusters.input_nodes[it] \ Inputs : n \in LiveGates
    BY <1>1, <2>1 DEF Gates
  <2>3. d \in clusters.all_clusters
    BY <1>1, <2>2 DEF FaninClusters, ClustersPartition
  <2>4. \A n \in PointingTo(it, d) : n \in clusters.nodes_c[d]
    BY <1>1, <2>2, <2>3 DEF PointingTo, ClustersPartition
  <2> QED BY <2>3, <2>4 DEF Strays
<1> QED BY <1>1, <1>2, <1>3, <1>4
        DEF NodeMergeNext, KeepSeed, RewriteSeed, KeepInput, RemoveInput, RemovalEnds,
            FaninAbsorb, FaninSkip, QuickAbsorb, QuickNext, EndPass

\* A move of the iterator to what is ahead leaves it in the set.
LEMMA MoveStaysInSet ==
  ASSUME NEW rest, MoveTo(rest), rest \subseteq clusters'.all_clusters
  PROVE  it' \in clusters'.all_clusters \cup {NoCluster}
BY DEF MoveTo

\* While nothing is removed the iterator stays in the set: what the passes merge
\* away is another cluster, or one the iterator has left.
LEMMA WholeKeepsIterator ==
  ASSUME GraphInv, WalkTypeOK, NodeMergeNext, ~RemoveInput,
         it \in clusters.all_clusters \cup {NoCluster}
  PROVE  it' \in clusters'.all_clusters \cup {NoCluster}
<1>0. unvisited \subseteq clusters.all_clusters
  BY DEF WalkTypeOK
<1>1. CASE UNCHANGED <<clusters, it>>
  BY <1>1
<1>2. CASE KeepSeed \/ FaninSkip \/ QuickNext
  <2>1. MoveTo(unvisited) /\ UNCHANGED clusters
    BY <1>2 DEF KeepSeed, FaninSkip, QuickNext, circuitVars
  <2> QED BY <1>0, <2>1, MoveStaysInSet
<1>3. CASE RewriteSeed
  <2>1. PICK n \in clusters.nodes_c[it] :
          \E s \in Solutions(Candidates(it, n), Passes[pass][2]) :
            /\ clusters' = Merged(clusters, [inputs EXCEPT ![n] = InputsOfAll(s)], s[1], OthersOf(s))
            /\ MoveTo(unvisited \ OthersOf(s))
    BY <1>3 DEF RewriteSeed, OthersOf
  <2>2. PICK s \in Solutions(Candidates(it, n), Passes[pass][2]) :
            /\ clusters' = Merged(clusters, [inputs EXCEPT ![n] = InputsOfAll(s)], s[1], OthersOf(s))
            /\ MoveTo(unvisited \ OthersOf(s))
    BY <2>1
  <2>3. clusters'.all_clusters = clusters.all_clusters \ OthersOf(s)
    BY <2>2 DEF Merged
  <2> QED BY <1>0, <2>2, <2>3, MoveStaysInSet
<1>4. CASE FaninAbsorb
  <2>1. MoveTo(unvisited \ FaninOthers)
    BY <1>4 DEF FaninAbsorb, FaninOthers
  <2>2. clusters'.all_clusters = clusters.all_clusters \ FaninOthers
    BY <1>4, FaninMerges, MergesIntoFields DEF GraphInv
  <2> QED BY <1>0, <2>1, <2>2, MoveStaysInSet
<1>5. CASE QuickAbsorb
  <2>1. PICK d \in QuickBest(it) : clusters' = Merged(clusters, inputs, it, {d})
    BY <1>5 DEF QuickAbsorb
  <2>2. d # it /\ clusters'.all_clusters = clusters.all_clusters \ {d}
    BY <2>1 DEF QuickBest, QuickCandidates, Merged
  <2> QED BY <1>5, <2>2 DEF QuickAbsorb
<1>6. CASE EndPass
  <2>1. UNCHANGED clusters /\ (MoveTo(clusters.all_clusters) \/ UNCHANGED it)
    BY <1>6 DEF EndPass, circuitVars
  <2> QED BY <2>1, MoveStaysInSet
<1> QED BY <1>1, <1>2, <1>3, <1>4, <1>5, <1>6
        DEF NodeMergeNext, KeepInput, RemoveTwice, RemovalEnds, UseErasedIterator,
            FaninErasesEnd, circuitVars

\* When the circuit is read, every gate is a cluster of its own.
LEMMA SoundAtFirst == NodeMergeInit => SoundUntilRemoval
<1> SUFFICES ASSUME NodeMergeInit PROVE SoundUntilRemoval
  OBVIOUS
<1>1. /\ inputs = spec.inputs /\ all_nodes = Nodes
      /\ clusters.all_clusters = Gates
      /\ \A c \in Gates : clusters.nodes_c[c] = {c} /\ clusters.input_nodes[c] = spec.inputs[c]
      /\ pc = "visit" /\ it \in Gates
  BY DEF NodeMergeInit, CircuitInit
<1>2. LiveGates = Gates
  BY <1>1 DEF LiveGates, Gates
<1>3. ASSUME Acyclic(spec.inputs, Gates), NEW c \in Gates
      PROVE  clusters.input_nodes[c] = ActualInputs(c)
  <2>1. c \notin inputs[c]
    <3>1. {c} \in (SUBSET Gates) \ {{}}
      OBVIOUS
    <3> QED BY <1>1, <1>3, <3>1 DEF Acyclic
  <2>2. UNION {inputs[n] : n \in {c}} = inputs[c]
    OBVIOUS
  <2> QED BY <1>1, <2>1, <2>2 DEF ActualInputs
<1> QED BY <1>1, <1>2, <1>3 DEF SoundUntilRemoval, CachesExact, NodesAcyclic

\* Before the first removal every step has a meaning, keeps the caches exact and
\* closes no loop.
LEMMA SoundUntilRemovalStep ==
  ASSUME GraphInv, WalkTypeOK, SoundUntilRemoval, NodeMergeNext
  PROVE  SoundUntilRemoval'
<1>1. CASE RemoveInput
  <2>1. all_nodes' # Nodes
    BY <1>1, RemovalIsFinal
  <2> QED BY <2>1 DEF SoundUntilRemoval
<1>2. CASE ~RemoveInput
  <2>1. all_nodes' = all_nodes /\ spec' = spec
    BY <1>2, OthersRemoveNothing
  <2> SUFFICES ASSUME all_nodes = Nodes PROVE SoundUntilRemoval'
    BY <2>1 DEF SoundUntilRemoval
  <2>2. pc' # "undefined"
    BY WholeStepHasMeaning
  <2>3. it' \in clusters'.all_clusters \cup {NoCluster}
    BY <1>2, WholeKeepsIterator DEF SoundUntilRemoval
  <2>4. ASSUME Acyclic(spec.inputs, Gates) PROVE CachesExact' /\ NodesAcyclic'
    <3>1. CachesExact /\ NodesAcyclic /\ NothingUsedIsRemoved
      BY <2>4, WholeLosesNothing DEF SoundUntilRemoval, GraphInv
    <3>2. NodesAcyclic'
      BY <3>1, StepIsSound
    <3>3. CASE pc = "visit"
      BY <3>1, <3>2, <3>3, StepKeepsExact
    <3>4. CASE pc # "visit"
      <4>1. UNCHANGED circuitVars
        BY <1>2, <3>4
           DEF NodeMergeNext, KeepSeed, RewriteSeed, KeepInput, RemoveTwice, RemovalEnds,
               UseErasedIterator, FaninAbsorb, FaninErasesEnd, FaninSkip, QuickAbsorb,
               QuickNext, EndPass, Visiting
      <4> QED BY <3>1, <3>2, <4>1 DEF CachesExact, ActualInputs, circuitVars
    <3> QED BY <3>3, <3>4
  <2> QED BY <2>1, <2>2, <2>3, <2>4 DEF SoundUntilRemoval
<1> QED BY <1>1, <1>2

\* Up to the first removal every step of the passes has a meaning, the iterator
\* points into the set, and in a circuit read without a loop the caches are exact
\* and no loop has been closed: whatever goes wrong later has a Remove, which
\* leaves cached inputs behind, before it (node.cpp 562-581).
THEOREM PassesSoundUntilRemoval == NodeMergeSpec => []SoundUntilRemoval
<1>1. NodeMergeInit => SoundUntilRemoval
  BY SoundAtFirst
<1>2. ASSUME NetInv, SoundUntilRemoval, [NodeMergeNext]_nmVars
      PROVE  SoundUntilRemoval'
  <2>1. GraphInv /\ WalkTypeOK
    BY <1>2, NetInvParts
  <2>2. CASE NodeMergeNext
    BY <1>2, <2>1, <2>2, SoundUntilRemovalStep
  <2>3. CASE UNCHANGED nmVars
    BY <1>2, <2>3 DEF nmVars, walkVars, circuitVars, SoundUntilRemoval, CachesExact,
                      ActualInputs, NodesAcyclic, Acyclic, LiveGates
  <2> QED BY <1>2, <2>2, <2>3
<1> QED BY <1>1, <1>2, NetInvariant, PTL DEF NodeMergeSpec

-----------------------------------------------------------------------------
(* The passes come to an end *)

\* The clusters a pass has still to visit, the present one included.
Ahead == unvisited \cup ({it} \ {NoCluster})

\* The present cluster is not among those ahead.
NoSecondVisit == it \notin unvisited

\* What a step of the passes gets on with: the visit in hand is closer to its
\* end, or the pass has fewer clusters ahead or in all, or it is the next one.
PhaseLeft ==
  CASE pc = "remove" -> Cardinality(pending) + 2
    [] pc = "visit"  -> 1
    [] OTHER         -> 0
PassLeft == Cardinality(Ahead) + Cardinality(clusters.all_clusters)
PassesLeft == Len(Passes) - pass

\* How many steps main's passes take at most from here.
StepsLeft ==
  (PassesLeft * (2 * Cardinality(Nodes) + 1) + PassLeft) * (Cardinality(Nodes) + 3) + PhaseLeft

\* A move of the iterator to what was ahead of it leaves less ahead of it.
LEMMA MoveAdvances ==
  ASSUME WalkTypeOK, CircuitTypeOK, NoSecondVisit, it \in clusters.all_clusters,
         NEW rest \in SUBSET unvisited, MoveTo(rest)
  PROVE  Ahead' \subseteq Ahead /\ Ahead' # Ahead /\ NoSecondVisit'
<1>1. it \in Ahead
  BY NoClusterAssumption DEF Ahead, CircuitTypeOK, Gates
<1>2. Ahead' \subseteq rest /\ NoSecondVisit'
  BY NoClusterAssumption DEF MoveTo, Ahead, NoSecondVisit, WalkTypeOK, CircuitTypeOK, Gates
<1> QED BY <1>1, <1>2 DEF NoSecondVisit, Ahead

\* What a step gets on with, in sets.
Advances ==
  \/ pass' = pass + 1 /\ pass < Len(Passes)
  \/ /\ pass' = pass
     /\ Ahead' \subseteq Ahead /\ clusters'.all_clusters \subseteq clusters.all_clusters
     /\ \/ Ahead' # Ahead \/ clusters'.all_clusters # clusters.all_clusters
        \/ pc = "remove" /\ pc' = "remove" /\ \E n \in pending : pending' = pending \ {n}
        \/ pc = "remove" /\ pc' \in {"visit", "undefined"}
        \/ pc = "visit" /\ pc' \in {"done", "undefined"}

\* Every step leaves less ahead, or as much and a later phase.
LEMMA StepAdvances ==
  ASSUME GraphInv, WalkTypeOK, NoSecondVisit, NodeMergeNext
  PROVE  Advances /\ NoSecondVisit'
<1>0. CircuitTypeOK
  BY DEF GraphInv
<1>1. CASE KeepSeed \/ FaninSkip \/ QuickNext
  <2>1. /\ it \in clusters.all_clusters /\ MoveTo(unvisited)
        /\ UNCHANGED <<clusters, pass>>
    BY <1>1 DEF KeepSeed, FaninSkip, QuickNext, Visiting, circuitVars
  <2> QED BY <1>0, <2>1, MoveAdvances DEF Advances
<1>2. CASE RewriteSeed
  <2>1. it \in clusters.all_clusters /\ pass' = pass
    BY <1>2 DEF RewriteSeed, Visiting
  <2>2. PICK n \in clusters.nodes_c[it] :
          \E s \in Solutions(Candidates(it, n), Passes[pass][2]) :
            /\ clusters' = Merged(clusters, [inputs EXCEPT ![n] = InputsOfAll(s)], s[1], OthersOf(s))
            /\ MoveTo(unvisited \ OthersOf(s))
    BY <1>2 DEF RewriteSeed, OthersOf
  <2>3. PICK s \in Solutions(Candidates(it, n), Passes[pass][2]) :
            /\ clusters' = Merged(clusters, [inputs EXCEPT ![n] = InputsOfAll(s)], s[1], OthersOf(s))
            /\ MoveTo(unvisited \ OthersOf(s))
    BY <2>2
  <2>4. clusters'.all_clusters \subseteq clusters.all_clusters
    BY <2>3 DEF Merged
  <2> QED BY <1>0, <2>1, <2>3, <2>4, MoveAdvances DEF Advances
<1>3. CASE KeepInput
  <2>1. \E n \in pending : pending' = pending \ {n}
    BY <1>3 DEF KeepInput
  <2> QED BY <1>3, <2>1 DEF KeepInput, Advances, NoSecondVisit, Ahead, circuitVars
<1>4. CASE RemoveInput
  <2>1. \E n \in pending : pending' = pending \ {n}
    BY <1>4 DEF RemoveInput
  <2>2. clusters'.all_clusters \subseteq clusters.all_clusters
    <3>1. PICK R : \E kept : clusters' = WithoutNodes(clusters, R, kept)
      BY <1>4 DEF RemoveInput
    <3> QED BY <1>0, <3>1 DEF WithoutNodes, CircuitTypeOK
  <2>3. unvisited' \subseteq unvisited /\ it' = it /\ pass' = pass /\ pc = "remove" /\ pc' = "remove"
    BY <1>4 DEF RemoveInput
  <2>4. Ahead' \subseteq Ahead /\ NoSecondVisit'
    BY <2>3 DEF Ahead, NoSecondVisit
  <2> QED BY <2>1, <2>2, <2>3, <2>4 DEF Advances
<1>5. CASE RemoveTwice \/ RemovalEnds
  BY <1>5 DEF RemoveTwice, RemovalEnds, Advances, NoSecondVisit, Ahead, circuitVars
<1>6. CASE UseErasedIterator \/ FaninErasesEnd
  BY <1>6 DEF UseErasedIterator, FaninErasesEnd, Visiting, Advances, NoSecondVisit, Ahead,
              circuitVars
<1>7. CASE FaninAbsorb
  <2>1. MoveTo(unvisited \ FaninOthers) /\ pass' = pass /\ it \in clusters.all_clusters
    BY <1>7 DEF FaninAbsorb, FaninOthers, Visiting
  <2>2. clusters'.all_clusters = clusters.all_clusters \ FaninOthers
    BY <1>0, <1>7, FaninMerges, MergesIntoFields
  <2> QED BY <1>0, <2>1, <2>2, MoveAdvances DEF Advances
<1>8. CASE QuickAbsorb
  <2>1. PICK d \in QuickBest(it) : /\ clusters' = Merged(clusters, inputs, it, {d})
                                   /\ unvisited' = unvisited \ {d}
    BY <1>8 DEF QuickAbsorb
  <2>2. d \in clusters.all_clusters /\ clusters'.all_clusters = clusters.all_clusters \ {d}
    BY <2>1 DEF QuickBest, QuickCandidates, Merged
  <2>3. it' = it /\ pass' = pass
    BY <1>8 DEF QuickAbsorb
  <2> QED BY <2>1, <2>2, <2>3 DEF Advances, NoSecondVisit, Ahead
<1>9. CASE EndPass
  <2>1. pc = "visit" /\ UNCHANGED clusters
    BY <1>9 DEF EndPass, circuitVars
  <2>2. CASE pass < Len(Passes) /\ pass' = pass + 1 /\ MoveTo(clusters.all_clusters)
    <3>1. NoSecondVisit'
      BY <2>2 DEF MoveTo, NoSecondVisit
    <3> QED BY <2>2, <3>1 DEF Advances
  <2>3. CASE pc' = "done" /\ UNCHANGED <<pass, it, unvisited>>
    BY <2>1, <2>3 DEF Advances, NoSecondVisit, Ahead
  <2> QED BY <1>9, <2>2, <2>3 DEF EndPass
<1> QED BY <1>1, <1>2, <1>3, <1>4, <1>5, <1>6, <1>7, <1>8, <1>9 DEF NodeMergeNext

\* The counts are natural numbers within bounds.
LEMMA CountsBounded ==
  ASSUME GraphInv, WalkTypeOK, NoSecondVisit
  PROVE  /\ Cardinality(Nodes) \in Nat
         /\ IsFiniteSet(Ahead) /\ IsFiniteSet(clusters.all_clusters) /\ IsFiniteSet(pending)
         /\ PassesLeft \in Nat
         /\ PassLeft \in 0 .. 2 * Cardinality(Nodes)
         /\ PhaseLeft \in 0 .. Cardinality(Nodes) + 2
<1>1. /\ Ahead \subseteq Nodes /\ clusters.all_clusters \subseteq Nodes /\ pending \subseteq Nodes
  BY DEF GraphInv, CircuitTypeOK, WalkTypeOK, Ahead, Gates
<1>2. ASSUME NEW S, S \subseteq Nodes
      PROVE  IsFiniteSet(S) /\ Cardinality(S) \in 0 .. Cardinality(Nodes)
  BY <1>2, NodesAssumption, FS_Subset, FS_CardinalityType
<1>3. Cardinality(Nodes) \in Nat
  BY NodesAssumption, FS_CardinalityType
<1>4. PassesLeft \in Nat
  <2>1. Len(Passes) \in Nat
    BY PassesAssumption, LenProperties
  <2> QED BY <2>1 DEF PassesLeft, WalkTypeOK
<1>5. PassLeft \in 0 .. 2 * Cardinality(Nodes)
  <2>1. Cardinality(Ahead) \in 0 .. Cardinality(Nodes)
    BY <1>1, <1>2
  <2>2. Cardinality(clusters.all_clusters) \in 0 .. Cardinality(Nodes)
    BY <1>1, <1>2
  <2> QED BY <1>3, <2>1, <2>2 DEF PassLeft
<1>6. PhaseLeft \in 0 .. Cardinality(Nodes) + 2
  <2>1. Cardinality(pending) \in 0 .. Cardinality(Nodes)
    BY <1>1, <1>2
  <2>2. PhaseLeft \in {Cardinality(pending) + 2, 1, 0}
    BY DEF PhaseLeft, WalkTypeOK
  <2> QED BY <1>3, <2>1, <2>2
<1> QED BY <1>1, <1>2, <1>3, <1>4, <1>5, <1>6

\* Digits: more in the high one outweighs the low one.
LEMMA HighDigitDecides ==
  ASSUME NEW a \in Nat, NEW b \in Nat, NEW base \in Nat, NEW x \in Nat, NEW y \in Nat,
         x < base, a < b
  PROVE  a * base + x < b * base + y
<1>1. PICK k \in Nat : b = a + 1 + k
  <2>1. b - a - 1 \in Nat /\ b = a + 1 + (b - a - 1)
    OBVIOUS
  <2> QED BY <2>1
<1>2. k * base \in Nat /\ a * base \in Nat
  OBVIOUS
<1>3. b * base = a * base + base + k * base
  BY <1>1
<1> QED BY <1>2, <1>3

\* With fewer clusters ahead or in all, or less of the visit left, fewer steps are
\* left.
LEMMA AdvanceTakesSteps ==
  ASSUME GraphInv, WalkTypeOK, NoSecondVisit, GraphInv', WalkTypeOK', NoSecondVisit', Advances
  PROVE  StepsLeft \in Nat /\ StepsLeft' < StepsLeft
<1> DEFINE N == Cardinality(Nodes)
           W == 2 * N + 1
           inner == PassesLeft * W + PassLeft
<1>1. /\ N \in Nat
      /\ IsFiniteSet(Ahead) /\ IsFiniteSet(clusters.all_clusters) /\ IsFiniteSet(pending)
      /\ PassesLeft \in Nat /\ PassLeft \in 0 .. 2 * N /\ PhaseLeft \in 0 .. N + 2
  BY CountsBounded
<1>2. PassesLeft' \in Nat /\ PassLeft' \in 0 .. 2 * N /\ PhaseLeft' \in 0 .. N + 2
  <2>1. GraphInv /\ WalkTypeOK /\ NoSecondVisit =>
          PassesLeft \in Nat /\ PassLeft \in 0 .. 2 * N /\ PhaseLeft \in 0 .. N + 2
    BY CountsBounded
  <2>2. (GraphInv /\ WalkTypeOK /\ NoSecondVisit =>
          PassesLeft \in Nat /\ PassLeft \in 0 .. 2 * N /\ PhaseLeft \in 0 .. N + 2)'
    BY CountsBounded, PTL
  <2> QED BY <2>2
<1>0. inner' = PassesLeft' * W + PassLeft'
  OBVIOUS
<1>9. W \in Nat /\ PassLeft < W /\ PassLeft' < W /\ PassLeft \in Nat /\ PassLeft' \in Nat
  BY <1>1, <1>2
<1> HIDE DEF N, W
<1>3. inner \in Nat /\ inner' \in Nat
  <2>1. PassesLeft * W \in Nat /\ PassesLeft' * W \in Nat
    <3>1. \A a, b \in Nat : a * b \in Nat
      OBVIOUS
    <3> HIDE DEF inner
    <3> QED BY <1>1, <1>2, <1>9, <3>1
  <2> QED BY <1>0, <1>9, <2>1
<1>4. inner' < inner \/ (inner' = inner /\ PhaseLeft' < PhaseLeft)
  <2>1. CASE pass' = pass + 1 /\ pass < Len(Passes)
    <3>1. PassesLeft' < PassesLeft
      <4>1. Len(Passes) \in Nat /\ pass \in Nat
        BY PassesAssumption, LenProperties DEF WalkTypeOK
      <4> QED BY <2>1, <4>1 DEF PassesLeft
    <3> QED BY <1>0, <1>1, <1>2, <1>9, <3>1, HighDigitDecides
  <2>2. CASE /\ pass' = pass
             /\ Ahead' \subseteq Ahead
             /\ clusters'.all_clusters \subseteq clusters.all_clusters
    <3>1. PassesLeft' = PassesLeft
      BY <2>2 DEF PassesLeft
    <3>2. ASSUME NEW S, NEW T, IsFiniteSet(S), T \subseteq S
          PROVE  /\ Cardinality(T) \in Nat /\ Cardinality(S) \in Nat
                 /\ Cardinality(T) <= Cardinality(S)
                 /\ T # S => Cardinality(T) < Cardinality(S)
      BY <3>2, FS_Subset, FS_CardinalityType
    <3>3. CASE Ahead' # Ahead \/ clusters'.all_clusters # clusters.all_clusters
      <4>1. /\ Cardinality(Ahead') \in Nat /\ Cardinality(Ahead) \in Nat
            /\ Cardinality(Ahead') <= Cardinality(Ahead)
            /\ Ahead' # Ahead => Cardinality(Ahead') < Cardinality(Ahead)
        BY <1>1, <2>2, <3>2
      <4>2. /\ Cardinality(clusters'.all_clusters) \in Nat
            /\ Cardinality(clusters.all_clusters) \in Nat
            /\ Cardinality(clusters'.all_clusters) <= Cardinality(clusters.all_clusters)
            /\ clusters'.all_clusters # clusters.all_clusters =>
                 Cardinality(clusters'.all_clusters) < Cardinality(clusters.all_clusters)
        BY <1>1, <2>2, <3>2
      <4>3. PassLeft' < PassLeft
        BY <3>3, <4>1, <4>2 DEF PassLeft
      <4>4. PassesLeft * W \in Nat
        BY <1>1, <1>9
      <4> QED BY <1>0, <1>9, <3>1, <4>3, <4>4
    <3>4. CASE Ahead' = Ahead /\ clusters'.all_clusters = clusters.all_clusters
      <4>1. inner' = inner
        BY <1>0, <3>1, <3>4 DEF PassLeft
      <4>2. Cardinality(pending) \in Nat
        BY <1>1, FS_CardinalityType
      <4>3. CASE pc = "remove" /\ pc' = "remove" /\ \E n \in pending : pending' = pending \ {n}
        <5>1. pending' \subseteq pending /\ pending' # pending
          BY <4>3
        <5>2. Cardinality(pending') \in Nat /\ Cardinality(pending') < Cardinality(pending)
          BY <1>1, <3>2, <5>1
        <5> QED BY <4>1, <4>2, <4>3, <5>2 DEF PhaseLeft
      <4>4. CASE pc = "remove" /\ pc' \in {"visit", "undefined"}
        BY <4>1, <4>2, <4>4 DEF PhaseLeft
      <4>5. CASE pc = "visit" /\ pc' \in {"done", "undefined"}
        BY <4>1, <4>5 DEF PhaseLeft
      <4>6. pass' # pass + 1
        BY <2>2 DEF WalkTypeOK
      <4> QED BY <3>4, <4>3, <4>4, <4>5, <4>6 DEF Advances
    <3> QED BY <3>3, <3>4
  <2> QED BY <2>1, <2>2 DEF Advances
<1>5. StepsLeft = inner * (N + 3) + PhaseLeft /\ StepsLeft' = inner' * (N + 3) + PhaseLeft'
  BY <1>0 DEF StepsLeft, N, W
<1> HIDE DEF inner
<1>6. inner * (N + 3) \in Nat /\ PhaseLeft \in Nat /\ PhaseLeft' \in Nat
        /\ PhaseLeft' < N + 3 /\ N + 3 \in Nat
  BY <1>1, <1>2, <1>3
<1>7. CASE inner' < inner
  BY <1>3, <1>5, <1>6, <1>7, HighDigitDecides
<1>8. CASE inner' = inner /\ PhaseLeft' < PhaseLeft
  BY <1>5, <1>6, <1>8
<1> QED BY <1>4, <1>5, <1>6, <1>7, <1>8

\* Every step of the passes leaves fewer steps to take.
StepsRunOut == [][StepsLeft' < StepsLeft /\ StepsLeft \in Nat]_nmVars

\* On every circuit, with every list of passes, limit and choice of clusters, the
\* passes of main take no more steps than StepsLeft says at the start: no pass
\* walks for ever, although merging goes on at the same seed and erases clusters
\* of the set that is walked (nodemerge.cpp 55-88, 155-180, 196-226).
THEOREM PassesAreBounded == NodeMergeSpec => StepsRunOut
<1>1. NodeMergeInit => NoSecondVisit
  BY DEF NodeMergeInit, NoSecondVisit
<1>2. ASSUME NetInv, NetInv', NoSecondVisit, [NodeMergeNext]_nmVars
      PROVE  NoSecondVisit' /\ [StepsLeft' < StepsLeft /\ StepsLeft \in Nat]_nmVars
  <2>1. GraphInv /\ WalkTypeOK /\ GraphInv' /\ WalkTypeOK'
    BY <1>2 DEF NetInv, GraphInv, NodeMergeTypeOK, WalkTypeOK
  <2>2. CASE NodeMergeNext
    BY <1>2, <2>1, <2>2, StepAdvances, AdvanceTakesSteps
  <2>3. CASE UNCHANGED nmVars
    BY <1>2, <2>3 DEF nmVars, walkVars, NoSecondVisit
  <2> QED BY <1>2, <2>2, <2>3
<1> QED BY <1>1, <1>2, NetInvariant, PTL DEF NodeMergeSpec, StepsRunOut
=============================================================================
