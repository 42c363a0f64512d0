-------------------------- MODULE FrontEnd_proofs --------------------------
(***************************************************************************)
(* Reading, ordering and asking, for every file.  The lexer leaves the     *)
(* nodes a sequence; a pass that raised nothing found every gate below its *)
(* inputs; an order is raised only to one above a reader, and only so      *)
(* often; sorting moves nodes and nothing else.  A search's CNFs are well  *)
(* formed, its solver's literals name the solver's variables, and at the   *)
(* end of MakeSolver the clauses ask what the search is for, as those of   *)
(* getDC's two solvers do from the first case to the last.                 *)
(***************************************************************************)
EXTENDS FrontEnd, CnfEncoding_proofs

\* Appending keeps a sequence one.
LEMMA AppendSequence ==
  ASSUME NEW s, NEW e, IsSequence(s)
  PROVE  IsSequence(Append(s, e))
<1>1. PICK S : s \in Seq(S)
  BY DEF IsSequence
<1>2. s \in Seq(S \cup {e})
  BY <1>1
<1>3. Append(s, e) \in Seq(S \cup {e})
  BY <1>2
<1> QED BY <1>3 DEF IsSequence

\* A function on the indices of a sequence is a sequence of the same length.
LEMMA MappedSequence ==
  ASSUME NEW s, NEW f, IsSequence(s), f = [i \in DOMAIN s |-> f[i]]
  PROVE  IsSequence(f)
<1>1. PICK S : s \in Seq(S)
  BY DEF IsSequence
<1> DEFINE T == {f[i] : i \in DOMAIN s}
<1>2. DOMAIN s = 1 .. Len(s) /\ Len(s) \in Nat
  BY <1>1
<1>3. f \in [1 .. Len(s) -> T]
  BY <1>2
<1>4. f \in Seq(T)
  BY <1>2, <1>3
<1> QED BY <1>4 DEF IsSequence

-----------------------------------------------------------------------------
\* Every element of a sequence that is asked for has a place among those that are:
\* the indices kept, counted from below, are numbered without a gap.
LEMMA KeptAreNumbered ==
  ASSUME NEW kept, kept \subseteq Nat, IsFiniteSet(kept), NEW k \in 1 .. Cardinality(kept)
  PROVE  \E i \in kept : Cardinality({j \in kept : j <= i}) = k
<1> DEFINE n == Cardinality(kept)
           upTo(i) == {j \in kept : j <= i}
           rank == [i \in kept |-> Cardinality(upTo(i))]
<1>1. n \in Nat
  BY FS_CardinalityType
<1>2. \A i \in kept : IsFiniteSet(upTo(i)) /\ Cardinality(upTo(i)) <= n /\ Cardinality(upTo(i)) \in Nat
  BY FS_Subset, FS_CardinalityType
<1>3. \A i \in kept : Cardinality(upTo(i)) # 0
  <2> SUFFICES ASSUME NEW i \in kept, Cardinality(upTo(i)) = 0 PROVE FALSE
    OBVIOUS
  <2>1. i \in upTo(i)
    OBVIOUS
  <2>2. upTo(i) = {}
    BY <1>2, FS_EmptySet
  <2> QED BY <2>1, <2>2
<1>4. rank \in [kept -> 1 .. n]
  BY <1>1, <1>2, <1>3
<1>5. ASSUME NEW i \in kept, NEW j \in kept, i < j
      PROVE  rank[i] # rank[j]
  <2>1. upTo(i) \subseteq upTo(j) /\ j \in upTo(j) /\ j \notin upTo(i)
    <3>1. i \in Nat /\ j \in Nat /\ ~(j <= i) /\ j <= j
      BY <1>5
    <3>2. \A x \in kept : x <= i => x <= j
      BY <1>5, <3>1
    <3> QED BY <3>1, <3>2
  <2>2. Cardinality(upTo(i)) # Cardinality(upTo(j))
    <3> HIDE DEF upTo
    <3> QED BY <1>2, <2>1, FS_Subset
  <2> QED BY <2>2
<1>6. rank \in Injection(kept, 1 .. n)
  <2> HIDE DEF rank, n, upTo
  <2>1. \A i, j \in kept : rank[i] = rank[j] => i = j
    BY <1>5
  <2> QED BY <1>4, <2>1 DEF Injection, IsInjective
<1>7. IsFiniteSet(1 .. n) /\ Cardinality(1 .. n) = n
  BY <1>1, FS_Interval
<1>8. rank \in Surjection(kept, 1 .. n)
  <2> HIDE DEF rank
  <2> QED BY <1>6, <1>7, FS_Injection
<1>9. \E i \in kept : rank[i] = k
  <2> HIDE DEF rank
  <2> QED BY <1>8 DEF Surjection
<1> QED BY <1>9

\* Only keeps the elements of s that are in S, and no others.
LEMMA OnlyElements ==
  ASSUME NEW T, NEW s \in Seq(T), NEW S
  PROVE  Only(s, S) \in Seq(T \cap S) /\ ToSet(Only(s, S)) = ToSet(s) \cap S
<1> DEFINE kept == {k \in DOMAIN s : s[k] \in S}
           numbered(i, k) == Cardinality({j \in kept : j <= i}) = k
           nth(k) == CHOOSE i \in kept : numbered(i, k)
           n == Cardinality(kept)
<1>1. kept \subseteq Nat /\ IsFiniteSet(kept)
  <2>1. Len(s) \in Nat /\ kept \subseteq 1 .. Len(s)
    OBVIOUS
  <2>2. IsFiniteSet(1 .. Len(s))
    BY <2>1, FS_Interval
  <2>3. IsFiniteSet(kept)
    <3> HIDE DEF kept
    <3> QED BY <2>1, <2>2, FS_Subset
  <2> QED BY <2>1, <2>3
<1>2. n \in Nat
  BY <1>1, FS_CardinalityType
<1>3. \A k \in 1 .. n : nth(k) \in kept
  <2> SUFFICES ASSUME NEW k \in 1 .. n PROVE nth(k) \in kept
    OBVIOUS
  <2>1. \E i \in kept : numbered(i, k)
    <3> HIDE DEF kept
    <3> QED BY <1>1, KeptAreNumbered
  <2> HIDE DEF kept, numbered
  <2> QED BY <2>1
<1>4. Only(s, S) = [k \in 1 .. n |-> s[nth(k)]]
  BY DEF Only
<1>5. \A k \in kept : s[k] \in T \cap S
  OBVIOUS
<1>6. Only(s, S) \in [1 .. n -> T \cap S]
  <2> HIDE DEF kept, nth, n
  <2> QED BY <1>3, <1>4, <1>5
<1>7. Only(s, S) \in Seq(T \cap S)
  <2> HIDE DEF n, kept
  <2> QED BY <1>2, <1>6
<1>8. ASSUME NEW i \in kept PROVE \E k \in 1 .. n : nth(k) = i
  <2> DEFINE upTo(x) == {j \in kept : j <= x}
             k == Cardinality(upTo(i))
  <2>1. IsFiniteSet(upTo(i)) /\ k <= n /\ k \in Nat
    BY <1>1, FS_Subset, FS_CardinalityType
  <2>2. k # 0
    <3>1. i \in upTo(i)
      BY <1>1
    <3> HIDE DEF upTo
    <3> QED BY <2>1, <3>1, FS_EmptySet
  <2>3. k \in 1 .. n
    BY <1>2, <2>1, <2>2
  <2>4. \A j \in kept : numbered(j, k) => j = i
    <3> SUFFICES ASSUME NEW j \in kept, numbered(j, k), j # i PROVE FALSE
      OBVIOUS
    <3>1. upTo(j) \subseteq upTo(i) \/ upTo(i) \subseteq upTo(j)
      BY <1>1
    <3>2. i \in upTo(i) /\ j \in upTo(j) /\ (i \notin upTo(j) \/ j \notin upTo(i))
      BY <1>1
    <3>3. IsFiniteSet(upTo(j)) /\ Cardinality(upTo(j)) = Cardinality(upTo(i))
      BY <1>1, FS_Subset
    <3> HIDE DEF upTo
    <3> QED BY <2>1, <3>1, <3>2, <3>3, FS_Subset
  <2>5. numbered(i, k)
    OBVIOUS
  <2>6. nth(k) = i
    <3> HIDE DEF kept, numbered, k
    <3> QED BY <2>4, <2>5
  <2> HIDE DEF kept, nth, n, k
  <2> QED BY <2>3, <2>6
<1>9. ToSet(Only(s, S)) = {s[k] : k \in kept}
  <2>1. ToSet(Only(s, S)) = {s[nth(k)] : k \in 1 .. n}
    <3> HIDE DEF n, nth, kept
    <3>1. DOMAIN Only(s, S) = 1 .. n /\ \A k \in 1 .. n : Only(s, S)[k] = s[nth(k)]
      BY <1>4
    <3> QED BY <3>1 DEF ToSet
  <2> HIDE DEF kept, nth, n
  <2> QED BY <1>3, <1>8, <2>1
<1> QED BY <1>7, <1>9 DEF ToSet

-----------------------------------------------------------------------------
\* A node's links are to other nodes, and are there on both sides.
NodeOK(ns, i) ==
  /\ DOMAIN ns[i] = {"name", "is_input", "is_output", "inputs", "outputs", "cube"}
  /\ ns[i].is_input \in BOOLEAN
  /\ ns[i].inputs \in Seq(DOMAIN ns \ {i}) /\ ns[i].outputs \in Seq(DOMAIN ns \ {i})

LinksMutual(ns) ==
  \A i, j \in DOMAIN ns : j \in ToSet(ns[i].inputs) <=> i \in ToSet(ns[j].outputs)

NodesOK(ns) == IsSequence(ns) /\ (\A i \in DOMAIN ns : NodeOK(ns, i)) /\ LinksMutual(ns)

CircuitOK(cc) ==
  /\ DOMAIN cc = {"name", "nodes", "inputs", "outputs", "all_nodes_map"}
  /\ NodesOK(cc.nodes)
  /\ cc.inputs \in Seq(DOMAIN cc.nodes) /\ cc.outputs \in Seq(DOMAIN cc.nodes)
  /\ \A n \in DOMAIN cc.all_nodes_map : cc.all_nodes_map[n] \in DOMAIN cc.nodes

\* The names of an unfinished line are nodes, and so is the current one.
LexerOK(l) ==
  /\ DOMAIN l = {"mode", "current_node", "nodes", "circuit"}
  /\ CircuitOK(l.circuit)
  /\ l.mode \in Keywords \cup {"none", "rows"}
  /\ l.current_node \in 0 .. Len(l.circuit.nodes)
  /\ l.nodes \in Seq(DOMAIN l.circuit.nodes)
  /\ l.nodes # <<>> => l.current_node # 0

\* One element more of the same set.
LEMMA AppendIn ==
  ASSUME NEW S, NEW s \in Seq(S), NEW e \in S
  PROVE  Append(s, e) \in Seq(S)
OBVIOUS

\* The elements of a sequence, one more, and two sequences one after the other.
LEMMA AppendElements ==
  ASSUME NEW S, NEW s \in Seq(S), NEW e
  PROVE  ToSet(Append(s, e)) = ToSet(s) \cup {e}
<1>1. s \in Seq(S \cup {e}) /\ e \in S \cup {e}
  OBVIOUS
<1>2. Len(s) \in Nat /\ DOMAIN s = 1 .. Len(s)
  OBVIOUS
<1>3. /\ DOMAIN Append(s, e) = 1 .. Len(s) + 1
      /\ Append(s, e)[Len(s) + 1] = e
      /\ \A k \in 1 .. Len(s) : Append(s, e)[k] = s[k]
  BY <1>1
<1>4. 1 .. Len(s) + 1 = (1 .. Len(s)) \cup {Len(s) + 1}
  BY <1>2
<1> DEFINE t == Append(s, e)
<1>5. DOMAIN t = DOMAIN s \cup {Len(s) + 1} /\ t[Len(s) + 1] = e /\ \A k \in DOMAIN s : t[k] = s[k]
  BY <1>2, <1>3, <1>4
<1> HIDE DEF t
<1>6. {t[k] : k \in DOMAIN t} = {s[k] : k \in DOMAIN s} \cup {e}
  BY <1>5
<1> QED BY <1>6 DEF ToSet, t

\* Two sequences of the same set, one after the other.
LEMMA ConcatElements ==
  ASSUME NEW S, NEW s \in Seq(S), NEW t \in Seq(S)
  PROVE  s \o t \in Seq(S) /\ ToSet(s \o t) = ToSet(s) \cup ToSet(t)
<1> DEFINE u == s \o t
<1>1. /\ Len(s) \in Nat /\ Len(t) \in Nat /\ Len(u) = Len(s) + Len(t) /\ u \in Seq(S)
      /\ DOMAIN s = 1 .. Len(s) /\ DOMAIN t = 1 .. Len(t) /\ DOMAIN u = 1 .. Len(s) + Len(t)
      /\ \A k \in 1 .. Len(s) : u[k] = s[k]
      /\ \A k \in 1 .. Len(t) : u[Len(s) + k] = t[k]
  OBVIOUS
<1> HIDE DEF u
<1>2. \A k \in DOMAIN u : u[k] \in ToSet(s) \cup ToSet(t)
  <2> SUFFICES ASSUME NEW k \in DOMAIN u PROVE u[k] \in ToSet(s) \cup ToSet(t)
    OBVIOUS
  <2>1. CASE k \in 1 .. Len(s)
    BY <1>1, <2>1 DEF ToSet
  <2>2. CASE k \notin 1 .. Len(s)
    <3>1. k - Len(s) \in 1 .. Len(t) /\ Len(s) + (k - Len(s)) = k
      BY <1>1, <2>2
    <3>2. u[k] = t[k - Len(s)]
      BY <1>1, <3>1
    <3> QED BY <1>1, <3>1, <3>2 DEF ToSet
  <2> QED BY <2>1, <2>2
<1>3. \A k \in DOMAIN s : \E j \in DOMAIN u : u[j] = s[k]
  BY <1>1
<1>4. \A k \in DOMAIN t : \E j \in DOMAIN u : u[j] = t[k]
  <2> SUFFICES ASSUME NEW k \in DOMAIN t PROVE \E j \in DOMAIN u : u[j] = t[k]
    OBVIOUS
  <2>1. Len(s) + k \in DOMAIN u /\ u[Len(s) + k] = t[k]
    BY <1>1
  <2> QED BY <2>1
<1> QED BY <1>1, <1>2, <1>3, <1>4 DEF ToSet, u

-----------------------------------------------------------------------------
\* A new node has no links and takes the next position.
LEMMA WithNodeOK ==
  ASSUME NEW cc, NEW n, NEW in \in BOOLEAN, NEW out, CircuitOK(cc)
  PROVE  /\ CircuitOK(WithNode(cc, n, in, out))
         /\ DOMAIN WithNode(cc, n, in, out).nodes = DOMAIN cc.nodes \cup {Len(cc.nodes) + 1}
         /\ Len(WithNode(cc, n, in, out).nodes) = Len(cc.nodes) + 1
         /\ Len(cc.nodes) \in Nat
         /\ DOMAIN cc.nodes = 1 .. Len(cc.nodes)
         /\ n \in DOMAIN WithNode(cc, n, in, out).all_nodes_map
         /\ WithNode(cc, n, in, out).all_nodes_map[n] = Len(cc.nodes) + 1
<1> DEFINE d == WithNode(cc, n, in, out)
           new == [name |-> n, is_input |-> in, is_output |-> out,
                   inputs |-> <<>>, outputs |-> <<>>, cube |-> <<>>]
           ns == Append(cc.nodes, new)
           N == DOMAIN cc.nodes
           last == Len(cc.nodes) + 1
           map == [m \in {n} \cup DOMAIN cc.all_nodes_map |->
                     IF m = n THEN last ELSE cc.all_nodes_map[m]]
<1>1. PICK S : cc.nodes \in Seq(S)
  BY DEF CircuitOK, NodesOK, IsSequence
<1>2. Len(cc.nodes) \in Nat /\ N = 1 .. Len(cc.nodes) /\ last \notin N
  BY <1>1
<1>3. /\ DOMAIN ns = N \cup {last} /\ Len(ns) = last
      /\ ns[last] = new /\ \A i \in N : ns[i] = cc.nodes[i]
  <2>1. cc.nodes \in Seq(S \cup {new}) /\ new \in S \cup {new}
    BY <1>1
  <2> HIDE DEF new
  <2>2. DOMAIN ns = 1 .. Len(cc.nodes) + 1 /\ Len(ns) = last
        /\ ns[last] = new /\ \A i \in 1 .. Len(cc.nodes) : ns[i] = cc.nodes[i]
    BY <2>1
  <2> QED BY <1>2, <2>2
<1>4. IsSequence(ns)
  BY AppendSequence DEF CircuitOK, NodesOK
<1>5. DOMAIN map = DOMAIN cc.all_nodes_map \cup {n} /\ map[n] = last
      /\ \A x \in DOMAIN cc.all_nodes_map : map[x] \in N \cup {last}
  BY DEF CircuitOK
<1>6. /\ DOMAIN d = {"name", "nodes", "inputs", "outputs", "all_nodes_map"}
      /\ d.nodes = ns /\ d.all_nodes_map = map /\ d.inputs = cc.inputs /\ d.outputs = cc.outputs
  <2>1. d = [cc EXCEPT !.nodes = ns, !.all_nodes_map = map]
    BY Zenon DEF WithNode
  <2> HIDE DEF d, ns, map
  <2> QED BY <2>1 DEF CircuitOK
<1>7. new.inputs = <<>> /\ new.outputs = <<>> /\ new.is_input = in
      /\ DOMAIN new = {"name", "is_input", "is_output", "inputs", "outputs", "cube"}
  OBVIOUS
<1> HIDE DEF d, ns, new, N, last, map
<1>8. ASSUME NEW i \in DOMAIN ns PROVE NodeOK(ns, i)
  <2>1. CASE i = last
    <3>1. \A X : <<>> \in Seq(X)
      OBVIOUS
    <3>2. ns[i] = new
      BY <1>3, <2>1
    <3> QED BY <1>7, <3>1, <3>2 DEF NodeOK
  <2>2. CASE i \in N
    <3>1. NodeOK(cc.nodes, i)
      BY <2>2 DEF CircuitOK, NodesOK, N
    <3>2. DOMAIN cc.nodes \ {i} \subseteq DOMAIN ns \ {i}
      BY <1>3 DEF N
    <3>3. ns[i] = cc.nodes[i]
      BY <1>3, <2>2
    <3> QED BY <3>1, <3>2, <3>3, LargerRange DEF NodeOK
  <2> QED BY <1>3, <2>1, <2>2
<1>9. LinksMutual(ns)
  <2>1. ToSet(<<>>) = {}
    BY DEF ToSet
  <2>2. \A i \in N : last \notin ToSet(cc.nodes[i].inputs) /\ last \notin ToSet(cc.nodes[i].outputs)
    <3> SUFFICES ASSUME NEW i \in N
                 PROVE  last \notin ToSet(cc.nodes[i].inputs) /\ last \notin ToSet(cc.nodes[i].outputs)
      OBVIOUS
    <3>1. cc.nodes[i].inputs \in Seq(N \ {i}) /\ cc.nodes[i].outputs \in Seq(N \ {i})
      BY DEF CircuitOK, NodesOK, NodeOK, N
    <3> QED BY <1>2, <3>1 DEF ToSet
  <2>3. \A i, j \in N : j \in ToSet(cc.nodes[i].inputs) <=> i \in ToSet(cc.nodes[j].outputs)
    BY DEF CircuitOK, NodesOK, LinksMutual, N
  <2> QED BY <1>3, <1>7, <2>1, <2>2, <2>3 DEF LinksMutual
<1>10. d.inputs \in Seq(DOMAIN d.nodes) /\ d.outputs \in Seq(DOMAIN d.nodes)
  <2>1. N \subseteq DOMAIN d.nodes
    BY <1>3, <1>6
  <2> QED BY <1>6, <2>1, LargerRange DEF CircuitOK, N
<1>11. CircuitOK(d)
  BY <1>3, <1>4, <1>5, <1>6, <1>8, <1>9, <1>10 DEF CircuitOK, NodesOK
<1> QED BY <1>2, <1>3, <1>5, <1>6, <1>11 DEF d, N, last, map

\* The end of a line adds a link for every other name of it, on both sides.
LEMMA LinkedNodesOK ==
  ASSUME NEW l, LexerOK(l)
  PROVE  NodesOK(LinkedNodes(l)) /\ DOMAIN LinkedNodes(l) = DOMAIN l.circuit.nodes
<1> DEFINE ns == l.circuit.nodes
           N == DOMAIN ns
           last == l.current_node
           ins == Only(l.nodes, ToSet(l.nodes) \ {last})
           again(i) == [k \in 1 .. Len(Only(ins, {i})) |-> last]
           new == LinkedNodes(l)
<1>1. NodesOK(ns) /\ l.nodes \in Seq(N)
  BY DEF LexerOK, CircuitOK
<1>2. N = 1 .. Len(ns) /\ Len(ns) \in Nat
  BY <1>1, SequenceDomain DEF NodesOK
<1>3. ins \in Seq(N \ {last})
  <2>1. ins \in Seq(N \cap (ToSet(l.nodes) \ {last}))
    BY <1>1, OnlyElements
  <2>2. N \cap (ToSet(l.nodes) \ {last}) \subseteq N \ {last}
    OBVIOUS
  <2> QED BY <2>1, <2>2, LargerRange
<1>4. ASSUME NEW i \in N
      PROVE  /\ again(i) \in Seq(N \ {i})
             /\ ToSet(again(i)) = {j \in {last} : i \in ToSet(ins)}
  <2> DEFINE some == Only(ins, {i})
             copies == [k \in 1 .. Len(some) |-> last]
  <2>1. some \in Seq((N \ {last}) \cap {i}) /\ ToSet(some) = ToSet(ins) \cap {i}
    <3> HIDE DEF ins, N, last
    <3> QED BY <1>3, OnlyElements
  <2>2. Len(some) \in Nat /\ DOMAIN some = 1 .. Len(some)
    BY <2>1
  <2>3. ToSet(some) = {some[k] : k \in 1 .. Len(some)}
    BY <2>2 DEF ToSet
  <2>4. CASE Len(some) = 0
    <3>1. i \notin ToSet(ins)
      <4> HIDE DEF some, ins, N, last
      <4>1. ToSet(some) = {}
        BY <2>3, <2>4
      <4> QED BY <2>1, <4>1
    <3>2. copies = <<>>
      <4> HIDE DEF some
      <4> QED BY <2>4
    <3>3. <<>> \in Seq(N \ {i}) /\ ToSet(<<>>) = {}
      BY DEF ToSet
    <3>4. again(i) = <<>>
      BY <3>2
    <3> QED BY <3>1, <3>3, <3>4
  <2>5. CASE Len(some) # 0
    <3>1. 1 \in 1 .. Len(some)
      <4> HIDE DEF some
      <4> QED BY <2>2, <2>5
    <3>2. some[1] \in ToSet(some)
      <4> HIDE DEF some
      <4> QED BY <2>3, <3>1
    <3>3. i \in ToSet(ins)
      <4> HIDE DEF ins
      <4> QED BY <2>1, <3>2
    <3>4. l.nodes # <<>>
      <4> SUFFICES ASSUME l.nodes = <<>> PROVE FALSE
        OBVIOUS
      <4>1. ToSet(<<>>) = {}
        BY DEF ToSet
      <4>2. ToSet(ins) = ToSet(l.nodes) \cap (ToSet(l.nodes) \ {last})
        BY <1>1, OnlyElements
      <4> QED BY <3>3, <4>1, <4>2
    <3>5. last \in N
      BY <1>2, <3>4 DEF LexerOK
    <3>6. last # i
      <4> HIDE DEF ins, last
      <4> QED BY <1>3, <3>3 DEF ToSet
    <3>7. copies \in Seq(N \ {i}) /\ ToSet(copies) = {last}
      <4> HIDE DEF some, N, last
      <4> QED BY <2>2, <3>1, <3>5, <3>6 DEF ToSet
    <3> HIDE DEF ins, N, last
    <3> QED BY <3>3, <3>7
  <2> QED BY <2>4, <2>5
<1>5. /\ DOMAIN new = N
      /\ new = [i \in DOMAIN new |-> new[i]]
      /\ \A i \in N : new[i] = [ns[i] EXCEPT !.inputs  = IF i = last THEN @ \o ins ELSE @,
                                             !.outputs = @ \o again(i)]
  BY DEF LinkedNodes
<1> HIDE DEF ns, N, last, ins, again, new
<1>6. IsSequence(new)
  BY <1>1, <1>5, MappedSequence DEF NodesOK, N
<1>7. ASSUME NEW i \in N
      PROVE  /\ ns[i].inputs \in Seq(N \ {i}) /\ ns[i].outputs \in Seq(N \ {i})
             /\ ns[i].is_input \in BOOLEAN
             /\ DOMAIN ns[i] = {"name", "is_input", "is_output", "inputs", "outputs", "cube"}
  BY <1>1 DEF NodesOK, NodeOK, N
<1>8. ASSUME NEW i \in N
      PROVE  /\ new[i].inputs = IF i = last THEN ns[i].inputs \o ins ELSE ns[i].inputs
             /\ new[i].outputs = ns[i].outputs \o again(i)
             /\ new[i].is_input = ns[i].is_input
             /\ DOMAIN new[i] = DOMAIN ns[i]
  <2> DEFINE a == IF i = last THEN ns[i].inputs \o ins ELSE ns[i].inputs
             b == ns[i].outputs \o again(i)
  <2>1. new[i] = [ns[i] EXCEPT !.inputs = a, !.outputs = b]
    BY <1>5, Zenon
  <2> HIDE DEF a, b
  <2>2. /\ new[i].inputs = a /\ new[i].outputs = b
        /\ new[i].is_input = ns[i].is_input /\ DOMAIN new[i] = DOMAIN ns[i]
    BY <1>7, <2>1
  <2> QED BY <2>2 DEF a, b
<1>9. ASSUME NEW i \in N
      PROVE  /\ new[i].inputs \in Seq(N \ {i})
             /\ ToSet(new[i].inputs) = ToSet(ns[i].inputs) \cup {j \in ToSet(ins) : i = last}
  <2>1. CASE i = last
    <3>1. ins \in Seq(N \ {i}) /\ ns[i].inputs \in Seq(N \ {i})
      BY <1>3, <1>7, <2>1
    <3>2. new[i].inputs = ns[i].inputs \o ins
      BY <1>8, <2>1
    <3>3. /\ new[i].inputs \in Seq(N \ {i})
          /\ ToSet(new[i].inputs) = ToSet(ns[i].inputs) \cup ToSet(ins)
      BY <3>1, <3>2, ConcatElements
    <3> QED BY <2>1, <3>3
  <2>2. CASE i # last
    BY <1>7, <1>8, <2>2
  <2> QED BY <2>1, <2>2
<1>10. ASSUME NEW i \in N
       PROVE  /\ new[i].outputs \in Seq(N \ {i})
              /\ ToSet(new[i].outputs) = ToSet(ns[i].outputs) \cup {j \in {last} : i \in ToSet(ins)}
  <2>1. again(i) \in Seq(N \ {i}) /\ ns[i].outputs \in Seq(N \ {i})
    BY <1>4, <1>7
  <2>2. /\ ns[i].outputs \o again(i) \in Seq(N \ {i})
        /\ ToSet(ns[i].outputs \o again(i)) = ToSet(ns[i].outputs) \cup ToSet(again(i))
    BY <2>1, ConcatElements
  <2> QED BY <1>4, <1>8, <2>2
<1>11. \A i \in DOMAIN new : NodeOK(new, i)
  BY <1>5, <1>7, <1>8, <1>9, <1>10 DEF NodeOK
<1>12. LinksMutual(new)
  <2>1. \A i, j \in N : j \in ToSet(ns[i].inputs) <=> i \in ToSet(ns[j].outputs)
    BY <1>1 DEF NodesOK, LinksMutual, N
  <2> SUFFICES ASSUME NEW i \in N, NEW j \in N
               PROVE  j \in ToSet(new[i].inputs) <=> i \in ToSet(new[j].outputs)
    BY <1>5 DEF LinksMutual
  <2>2. j \in ToSet(new[i].inputs) <=> j \in ToSet(ns[i].inputs) \/ (j \in ToSet(ins) /\ i = last)
    BY <1>9
  <2>3. i \in ToSet(new[j].outputs) <=> i \in ToSet(ns[j].outputs) \/ (i = last /\ j \in ToSet(ins))
    BY <1>10
  <2> QED BY <2>1, <2>2, <2>3
<1> QED BY <1>5, <1>6, <1>11, <1>12 DEF NodesOK, new, N, ns

-----------------------------------------------------------------------------
\* What one match can do, the modes and rules forgotten.
LEMMA LexAlternatives ==
  ASSUME NEW l, NEW t
  PROVE  \/ t[1] \in Keywords /\ Lex(l, t) = [l EXCEPT !.mode = t[1]]
         \/ Lex(l, t) = [l EXCEPT !.circuit.name = t[2], !.mode = "none"]
         \/ Lex(l, t) = Declared(l, t[2], l.mode = "inputs")
         \/ Lex(l, t) = Mentioned(l, t[2])
         \/ Lex(l, t) = Linked(l)
         \/ Lex(l, t) = [l EXCEPT !.circuit.nodes[l.current_node].cube = Append(@, t[2])]
         \/ Lex(l, t) = l
<1>1. CASE t[1] \in Keywords
  <2>1. ~(t[1] = "id") /\ ~(t[1] = "newline") /\ ~(t[1] = "array")
    BY <1>1, SMT DEF Keywords
  <2>2. Lex(l, t) = [l EXCEPT !.mode = t[1]]
    BY <1>1, <2>1, Zenon DEF Lex
  <2> QED BY <1>1, <2>2
<1>2. CASE ~(t[1] \in Keywords) /\ t[1] = "id" /\ l.mode = "model"
  <2>1. ~(l.mode \in {"inputs", "outputs"}) /\ ~(l.mode = "names") /\ ~(t[1] = "newline") /\ ~(t[1] = "array")
    BY <1>2, SMT
  <2>2. Lex(l, t) = [l EXCEPT !.circuit.name = t[2], !.mode = "none"]
    BY <1>2, <2>1, Zenon DEF Lex
  <2> QED BY <2>2
<1>3. CASE ~(t[1] \in Keywords) /\ t[1] = "id" /\ l.mode \in {"inputs", "outputs"}
  <2>1. ~(l.mode = "model") /\ ~(l.mode = "names") /\ ~(t[1] = "newline") /\ ~(t[1] = "array")
    BY <1>3, SMT
  <2>2. Lex(l, t) = Declared(l, t[2], l.mode = "inputs")
    BY <1>3, <2>1, Zenon DEF Lex
  <2> QED BY <2>2
<1>4. CASE ~(t[1] \in Keywords) /\ t[1] = "id" /\ l.mode = "names"
  <2>1. ~(l.mode = "model") /\ ~(l.mode \in {"inputs", "outputs"}) /\ ~(t[1] = "newline") /\ ~(t[1] = "array")
    BY <1>4, SMT
  <2>2. Lex(l, t) = Mentioned(l, t[2])
    BY <1>4, <2>1, Zenon DEF Lex
  <2> QED BY <2>2
<1>5. CASE ~(t[1] \in Keywords) /\ t[1] = "newline" /\ l.mode = "names"
  <2>1. ~(t[1] = "id") /\ ~(t[1] = "array")
    BY <1>5, SMT
  <2>2. Lex(l, t) = Linked(l)
    BY <1>5, <2>1, Zenon DEF Lex
  <2> QED BY <2>2
<1>6. CASE ~(t[1] \in Keywords) /\ t[1] = "array" /\ l.mode = "rows"
  <2>1. ~(t[1] = "id") /\ ~(t[1] = "newline")
    BY <1>6, SMT
  <2>2. Lex(l, t) = [l EXCEPT !.circuit.nodes[l.current_node].cube = Append(@, t[2])]
    BY <1>6, <2>1, Zenon DEF Lex
  <2> QED BY <2>2
<1>7. CASE /\ ~(t[1] \in Keywords)
           /\ ~(t[1] = "id" /\ l.mode = "model")
           /\ ~(t[1] = "id" /\ l.mode \in {"inputs", "outputs"})
           /\ ~(t[1] = "id" /\ l.mode = "names")
           /\ ~(t[1] = "newline" /\ l.mode = "names")
           /\ ~(t[1] = "array" /\ l.mode = "rows")
  <2>1. Lex(l, t) = l
    BY <1>7, Zenon DEF Lex
  <2> QED BY <2>1
<1> QED BY <1>1, <1>2, <1>3, <1>4, <1>5, <1>6, <1>7, Zenon

\* A name met first on a .names line gets a node of its own.
LEMMA MentionedNodeOK ==
  ASSUME NEW cc, NEW n, CircuitOK(cc)
  PROVE  /\ CircuitOK(WithNode(cc, n, FALSE, FALSE))
         /\ DOMAIN WithNode(cc, n, FALSE, FALSE).nodes = DOMAIN cc.nodes \cup {Len(cc.nodes) + 1}
         /\ WithNode(cc, n, FALSE, FALSE).all_nodes_map[n] = Len(cc.nodes) + 1
<1>1. FALSE \in BOOLEAN
  OBVIOUS
<1>2. CircuitOK(WithNode(cc, n, FALSE, FALSE))
  BY <1>1, WithNodeOK, Zenon
<1>3. Len(WithNode(cc, n, FALSE, FALSE).nodes) = Len(cc.nodes) + 1
  BY <1>1, WithNodeOK, Zenon
<1>4. WithNode(cc, n, FALSE, FALSE).all_nodes_map[n] = Len(cc.nodes) + 1
  BY <1>1, WithNodeOK, Zenon
<1>5. DOMAIN WithNode(cc, n, FALSE, FALSE).nodes = DOMAIN cc.nodes \cup {Len(cc.nodes) + 1}
  <2> DEFINE d == WithNode(cc, n, FALSE, FALSE)
  <2>1. CircuitOK(d) /\ Len(d.nodes) = Len(cc.nodes) + 1
    BY <1>2, <1>3
  <2> HIDE DEF d
  <2>2. DOMAIN d.nodes = 1 .. Len(d.nodes) /\ DOMAIN cc.nodes = 1 .. Len(cc.nodes) /\ Len(cc.nodes) \in Nat
    BY <2>1, SequenceDomain DEF CircuitOK, NodesOK
  <2>3. DOMAIN d.nodes = DOMAIN cc.nodes \cup {Len(cc.nodes) + 1}
    BY <2>1, <2>2
  <2> QED BY <2>3 DEF d
<1> QED BY <1>2, <1>4, <1>5

\* A rule of the lexer keeps the circuit well formed.
LEMMA LexKeepsOK ==
  ASSUME NEW l, NEW t, LexerOK(l)
  PROVE  LexerOK(Lex(l, t))
<1> DEFINE cc == l.circuit
           N == DOMAIN cc.nodes
<1>0. /\ DOMAIN l = {"mode", "current_node", "nodes", "circuit"}
      /\ DOMAIN cc = {"name", "nodes", "inputs", "outputs", "all_nodes_map"}
      /\ CircuitOK(cc) /\ l.nodes \in Seq(N) /\ l.current_node \in 0 .. Len(cc.nodes)
      /\ l.mode \in Keywords \cup {"none", "rows"}
      /\ l.nodes # <<>> => l.current_node # 0
  BY DEF LexerOK, CircuitOK
<1>1. N = 1 .. Len(cc.nodes) /\ Len(cc.nodes) \in Nat
  BY <1>0, SequenceDomain DEF CircuitOK, NodesOK
<1>2. CASE t[1] \in Keywords /\ Lex(l, t) = [l EXCEPT !.mode = t[1]]
  BY <1>0, <1>2 DEF LexerOK
<1>3. CASE Lex(l, t) = [l EXCEPT !.circuit.name = t[2], !.mode = "none"]
  <2> DEFINE d == [cc EXCEPT !.name = t[2]]
  <2>1. /\ DOMAIN d = DOMAIN cc /\ d.nodes = cc.nodes /\ d.inputs = cc.inputs
        /\ d.outputs = cc.outputs /\ d.all_nodes_map = cc.all_nodes_map
    BY <1>0
  <2>2. Lex(l, t) = [l EXCEPT !.circuit = d, !.mode = "none"]
    BY <1>3, Zenon
  <2> HIDE DEF d
  <2>3. CircuitOK(d)
    BY <1>0, <2>1 DEF CircuitOK
  <2> QED BY <1>0, <2>1, <2>2, <2>3 DEF LexerOK
<1>4. CASE Lex(l, t) = Declared(l, t[2], l.mode = "inputs")
  <2> DEFINE in == l.mode = "inputs"
             d == WithNode(cc, t[2], in, ~in)
             id == Len(cc.nodes) + 1
             e == [d EXCEPT !.inputs  = IF in THEN Append(@, id) ELSE @,
                            !.outputs = IF in THEN @ ELSE Append(@, id)]
  <2>1. in \in BOOLEAN
    OBVIOUS
  <2>2. CircuitOK(d) /\ DOMAIN d.nodes = N \cup {id} /\ Len(d.nodes) = id
    <3>1. ASSUME NEW b \in BOOLEAN, NEW o
          PROVE  /\ CircuitOK(WithNode(cc, t[2], b, o))
                 /\ DOMAIN WithNode(cc, t[2], b, o).nodes = N \cup {id}
                 /\ Len(WithNode(cc, t[2], b, o).nodes) = id
      <4>1. CircuitOK(cc)
        BY <1>0
      <4> HIDE DEF cc
      <4> QED BY <4>1, WithNodeOK
    <3> QED BY <2>1, <3>1
  <2>3. Lex(l, t) = [l EXCEPT !.current_node = id, !.circuit = e]
    BY <1>4, Zenon DEF Declared, Listed
  <2> HIDE DEF d
  <2>4. /\ DOMAIN e = DOMAIN d /\ e.nodes = d.nodes /\ e.all_nodes_map = d.all_nodes_map
        /\ e.inputs \in {d.inputs, Append(d.inputs, id)}
        /\ e.outputs \in {d.outputs, Append(d.outputs, id)}
    BY <2>2 DEF CircuitOK
  <2>5. e.inputs \in Seq(DOMAIN d.nodes) /\ e.outputs \in Seq(DOMAIN d.nodes)
    BY <2>2, <2>4 DEF CircuitOK
  <2> HIDE DEF e
  <2>6. CircuitOK(e)
    BY <2>2, <2>4, <2>5 DEF CircuitOK
  <2>7. l.nodes \in Seq(DOMAIN e.nodes)
    BY <1>0, <2>2, <2>4, LargerRange
  <2>8. id \in 0 .. Len(e.nodes) /\ id # 0
    BY <1>1, <2>2, <2>4
  <2> HIDE DEF id
  <2> QED BY <1>0, <2>3, <2>6, <2>7, <2>8 DEF LexerOK
<1>5. CASE Lex(l, t) = Mentioned(l, t[2])
  <2> DEFINE known == t[2] \in DOMAIN cc.all_nodes_map
             d == IF known THEN cc ELSE WithNode(cc, t[2], FALSE, FALSE)
             id == d.all_nodes_map[t[2]]
  <2>1. CircuitOK(d) /\ N \subseteq DOMAIN d.nodes /\ id \in DOMAIN d.nodes
    <3>1. CASE known
      BY <1>0, <3>1 DEF CircuitOK
    <3>2. CASE ~known
      <4> DEFINE w == WithNode(cc, t[2], FALSE, FALSE)
      <4>1. /\ CircuitOK(w) /\ DOMAIN w.nodes = N \cup {Len(cc.nodes) + 1}
            /\ w.all_nodes_map[t[2]] = Len(cc.nodes) + 1
        <5>1. CircuitOK(cc)
          BY <1>0
        <5> HIDE DEF cc, N, known, d, id, w
        <5> QED BY <5>1, MentionedNodeOK DEF w, N
      <4>2. d = w
        BY <3>2
      <4> HIDE DEF d, w, N
      <4> QED BY <4>1, <4>2
    <3> QED BY <3>1, <3>2
  <2>2. Lex(l, t) = [l EXCEPT !.current_node = id, !.nodes = Append(@, id), !.circuit = d]
    BY <1>5, Zenon DEF Mentioned
  <2> HIDE DEF d, id
  <2>3. DOMAIN d.nodes = 1 .. Len(d.nodes) /\ Len(d.nodes) \in Nat
    BY <2>1, SequenceDomain DEF CircuitOK, NodesOK
  <2>4. Append(l.nodes, id) \in Seq(DOMAIN d.nodes)
    <3>1. l.nodes \in Seq(DOMAIN d.nodes)
      BY <1>0, <2>1, LargerRange
    <3> QED BY <2>1, <3>1, AppendIn
  <2>5. id \in 0 .. Len(d.nodes) /\ id # 0
    BY <2>1, <2>3
  <2>6. /\ Lex(l, t).current_node = id /\ Lex(l, t).nodes = Append(l.nodes, id)
        /\ Lex(l, t).circuit = d /\ Lex(l, t).mode = l.mode /\ DOMAIN Lex(l, t) = DOMAIN l
    BY <1>0, <2>2
  <2> QED BY <1>0, <2>1, <2>4, <2>5, <2>6 DEF LexerOK
<1>6. CASE Lex(l, t) = Linked(l)
  <2> DEFINE d == [cc EXCEPT !.nodes = LinkedNodes(l)]
  <2>1. /\ DOMAIN d = DOMAIN cc /\ d.nodes = LinkedNodes(l) /\ d.inputs = cc.inputs
        /\ d.outputs = cc.outputs /\ d.all_nodes_map = cc.all_nodes_map
    BY <1>0
  <2>2. NodesOK(LinkedNodes(l)) /\ DOMAIN LinkedNodes(l) = N
    BY LinkedNodesOK
  <2>3. Lex(l, t) = [l EXCEPT !.mode = "rows", !.nodes = <<>>, !.circuit = d]
    BY <1>6, Zenon DEF Linked
  <2> HIDE DEF d
  <2>4. CircuitOK(d)
    BY <1>0, <2>1, <2>2 DEF CircuitOK
  <2>5. Len(d.nodes) = Len(cc.nodes)
    <3>1. DOMAIN d.nodes = 1 .. Len(d.nodes) /\ Len(d.nodes) \in Nat
      BY <2>4, SequenceDomain DEF CircuitOK, NodesOK
    <3> QED BY <1>1, <2>1, <2>2, <3>1
  <2>6. <<>> \in Seq(DOMAIN d.nodes)
    OBVIOUS
  <2>7. /\ Lex(l, t).nodes = <<>> /\ Lex(l, t).circuit = d /\ Lex(l, t).mode = "rows"
        /\ Lex(l, t).current_node = l.current_node /\ DOMAIN Lex(l, t) = DOMAIN l
    BY <1>0, <2>3
  <2> QED BY <1>0, <2>4, <2>5, <2>6, <2>7 DEF LexerOK
<1>7. CASE Lex(l, t) = [l EXCEPT !.circuit.nodes[l.current_node].cube = Append(@, t[2])]
  <2> DEFINE i == l.current_node
             new == [cc.nodes EXCEPT ![i].cube = Append(@, t[2])]
             d == [cc EXCEPT !.nodes = new]
  <2>1. /\ DOMAIN d = DOMAIN cc /\ d.nodes = new /\ d.inputs = cc.inputs
        /\ d.outputs = cc.outputs /\ d.all_nodes_map = cc.all_nodes_map
    BY <1>0
  <2>2. Lex(l, t) = [l EXCEPT !.circuit = d]
    BY <1>7, Zenon
  <2>3. DOMAIN new = N /\ IsSequence(new)
    BY <1>0, MappedSequence DEF CircuitOK, NodesOK
  <2>4. ASSUME NEW k \in N
        PROVE  /\ DOMAIN new[k] = DOMAIN cc.nodes[k]
               /\ new[k].is_input = cc.nodes[k].is_input
               /\ new[k].inputs = cc.nodes[k].inputs /\ new[k].outputs = cc.nodes[k].outputs
    <3>1. NodeOK(cc.nodes, k)
      BY <1>0 DEF CircuitOK, NodesOK
    <3>2. CASE k = i
      <4>1. new[k] = [cc.nodes[k] EXCEPT !.cube = Append(@, t[2])]
        BY <3>2
      <4> HIDE DEF new
      <4> QED BY <3>1, <4>1 DEF NodeOK
    <3>3. CASE k # i
      BY <3>3
    <3> QED BY <3>2, <3>3
  <2> HIDE DEF d, new
  <2>5. \A k \in DOMAIN new : NodeOK(new, k)
    BY <1>0, <2>3, <2>4 DEF CircuitOK, NodesOK, NodeOK
  <2>6. LinksMutual(new)
    BY <1>0, <2>3, <2>4 DEF CircuitOK, NodesOK, LinksMutual
  <2>7. CircuitOK(d)
    BY <1>0, <2>1, <2>3, <2>5, <2>6 DEF CircuitOK, NodesOK
  <2>8. Len(d.nodes) = Len(cc.nodes)
    <3>1. DOMAIN d.nodes = 1 .. Len(d.nodes) /\ Len(d.nodes) \in Nat
      BY <2>7, SequenceDomain DEF CircuitOK, NodesOK
    <3> QED BY <1>1, <2>1, <2>3, <3>1
  <2>9. /\ Lex(l, t).nodes = l.nodes /\ Lex(l, t).circuit = d /\ Lex(l, t).mode = l.mode
        /\ Lex(l, t).current_node = l.current_node /\ DOMAIN Lex(l, t) = DOMAIN l
    BY <1>0, <2>2
  <2> QED BY <1>0, <2>1, <2>3, <2>7, <2>8, <2>9 DEF LexerOK
<1>8. CASE Lex(l, t) = l
  BY <1>8
<1> QED BY <1>2, <1>3, <1>4, <1>5, <1>6, <1>7, <1>8, LexAlternatives, Zenon

-----------------------------------------------------------------------------
\* Every input of gate k that is a node is above it.
Settled(k) ==
  ~nodes[k].is_input =>
    \A j \in ToSet(nodes[k].inputs) \cap DOMAIN nodes : order[j] > order[k]

\* The gates that read node i.
ReadersOf(i) == {m \in DOMAIN nodes : ~nodes[m].is_input /\ i \in ToSet(nodes[m].inputs)}

\* A node is no more than one above some gate that reads it.
Justified == \A i \in DOMAIN nodes : order[i] = 0 \/ \E m \in ReadersOf(i) : order[i] <= order[m] + 1

\* A pass that has raised nothing has left settled what it has seen.
PassInv ==
  /\ visited \in 0 .. Len(nodes)
  /\ ~flag => \A k \in 1 .. visited : Settled(k)

\* What the order of the nodes rests on, from the first token on.
OrderInv ==
  /\ LexerOK(lexer)
  /\ flag \in BOOLEAN
  /\ pc = "lex" => visited = 0 /\ ~flag
  /\ pc # "lex" => order \in [DOMAIN nodes -> Nat] /\ Justified
  /\ pc \in {"order", "sort"} => all_nodes = [i \in DOMAIN nodes |-> i]
  /\ pc = "order" => PassInv
  /\ pc \notin {"lex", "order"} => \A k \in DOMAIN nodes : Settled(k)
  /\ pc \notin {"lex", "order", "sort"} =>
       all_nodes \in [DOMAIN nodes -> DOMAIN nodes] /\ Sorted(all_nodes)

\* The nodes as positions.
LEMMA NodesSequence ==
  ASSUME LexerOK(lexer)
  PROVE  Len(nodes) \in Nat /\ DOMAIN nodes = 1 .. Len(nodes)
BY SequenceDomain DEF LexerOK, CircuitOK, NodesOK, nodes, c

\* What a justified order rests on.
LEMMA SameJustified ==
  ASSUME nodes' = nodes, order' = order
  PROVE  Justified' <=> Justified
BY DEF Justified, ReadersOf

\* Before the first token there are no nodes.
LEMMA InitOrderInv == FrontEndInit => OrderInv
<1> SUFFICES ASSUME FrontEndInit PROVE OrderInv
  OBVIOUS
<1>1. IsSequence(<<>>)
  <2>1. <<>> \in Seq({})
    OBVIOUS
  <2> QED BY <2>1 DEF IsSequence
<1>2. LexerOK(lexer)
  <2>1. DOMAIN <<>> = {} /\ Len(<<>>) = 0 /\ \A S : <<>> \in Seq(S)
    OBVIOUS
  <2>2. CircuitOK(EmptyCircuit)
    BY <1>1, <2>1 DEF EmptyCircuit, CircuitOK, NodesOK, LinksMutual
  <2>3. LexerInit.circuit = EmptyCircuit /\ EmptyCircuit.nodes = <<>>
    BY DEF LexerInit, EmptyCircuit
  <2> QED BY <2>1, <2>2, <2>3 DEF FrontEndInit, LexerInit, LexerOK
<1> QED BY <1>2 DEF FrontEndInit, OrderInv

\* Reading a token.
LEMMA LexTokenOrderInv == OrderInv /\ LexToken => OrderInv'
BY LexKeepsOK DEF OrderInv, LexToken, orderVars

\* All orders are 0 and no node has been seen.
LEMMA EndOfFileOrderInv == OrderInv /\ EndOfFile => OrderInv'
<1> SUFFICES ASSUME OrderInv, EndOfFile PROVE OrderInv'
  OBVIOUS
<1>1. lexer' = lexer /\ visited' = visited /\ flag' = flag /\ pc' = "order"
  BY DEF EndOfFile, readVars
<1>2. nodes' = nodes /\ Len(nodes) \in Nat
  BY <1>1, NodesSequence DEF nodes, c, OrderInv
<1>3. visited = 0 /\ ~flag
  BY DEF OrderInv, EndOfFile
<1>4. PassInv'
  BY <1>1, <1>2, <1>3 DEF PassInv
<1>5. Justified'
  BY <1>2 DEF EndOfFile, Justified
<1> QED BY <1>1, <1>2, <1>4, <1>5 DEF EndOfFile, OrderInv

\* The inputs of a gate go above it, or were there.
LEMMA AssignStepOrderInv == OrderInv /\ AssignStep => OrderInv'
<1> SUFFICES ASSUME OrderInv, AssignStep PROVE OrderInv'
  OBVIOUS
<1>1. lexer' = lexer /\ nodes' = nodes /\ all_nodes' = all_nodes /\ pc = "order" /\ pc' = "order"
  BY DEF AssignStep, readVars, nodes, c
<1>2. Len(nodes) \in Nat /\ DOMAIN nodes = 1 .. Len(nodes)
  BY NodesSequence DEF OrderInv
<1>3. all_nodes = [i \in DOMAIN nodes |-> i] /\ order \in [DOMAIN nodes -> Nat] /\ PassInv
  BY <1>1 DEF OrderInv
<1>4. Len(all_nodes) = Len(nodes)
  BY <1>2, <1>3
<1> DEFINE i == visited + 1
<1>5. i \in DOMAIN nodes /\ all_nodes[i] = i /\ order' = Raised(order, i) /\ visited' = i
  BY <1>2, <1>3, <1>4 DEF AssignStep, PassInv
<1>6. order' \in [DOMAIN nodes -> Nat]
  BY <1>3, <1>5 DEF Raised
<1>7. ~flag' => \A k \in 1 .. i : Settled(k)'
  <2> SUFFICES ASSUME ~flag' PROVE \A k \in 1 .. i : Settled(k)'
    OBVIOUS
  <2>1. order' = order /\ ~flag
    BY DEF AssignStep
  <2>2. \A k \in 1 .. visited : Settled(k)
    BY <1>3, <2>1 DEF PassInv
  <2>3. Settled(i)
    BY <1>3, <1>5, <2>1 DEF Settled, Raised
  <2>4. \A k \in 1 .. i : Settled(k)
    BY <1>3, <2>2, <2>3 DEF PassInv
  <2> QED BY <1>1, <1>5, <2>1, <2>4 DEF Settled
<1>8. PassInv'
  BY <1>1, <1>2, <1>5, <1>7 DEF PassInv
<1>9. flag' \in BOOLEAN
  BY DEF AssignStep
<1>10. Justified'
  <2>1. \A m \in DOMAIN nodes : order'[m] >= order[m]
    BY <1>3, <1>5 DEF Raised
  <2>2. \A m \in DOMAIN nodes : order'[m] # order[m] => i \in ReadersOf(m) /\ order'[m] = order[i] + 1
    BY <1>3, <1>5 DEF Raised, ReadersOf
  <2> SUFFICES ASSUME NEW m \in DOMAIN nodes
               PROVE  order'[m] = 0 \/ \E r \in ReadersOf(m) : order'[m] <= order'[r] + 1
    BY <1>1 DEF Justified, ReadersOf
  <2>3. CASE order'[m] = order[m]
    <3>1. CASE \E r \in ReadersOf(m) : order[m] <= order[r] + 1
      BY <1>3, <1>6, <2>1, <2>3, <3>1 DEF ReadersOf
    <3>2. CASE order[m] = 0
      BY <2>3, <3>2
    <3> QED BY <1>1, <3>1, <3>2 DEF OrderInv, Justified
  <2>4. CASE order'[m] # order[m]
    BY <1>3, <1>5, <1>6, <2>1, <2>2, <2>4
  <2> QED BY <2>3, <2>4
<1> QED BY <1>1, <1>3, <1>6, <1>8, <1>9, <1>10 DEF OrderInv

\* A new pass has seen nothing.
LEMMA AssignAgainOrderInv == OrderInv /\ AssignAgain => OrderInv'
<1> SUFFICES ASSUME OrderInv, AssignAgain PROVE OrderInv'
  OBVIOUS
<1>1. lexer' = lexer /\ nodes' = nodes /\ all_nodes' = all_nodes /\ order' = order
  BY DEF AssignAgain, readVars, nodes, c
<1>2. PassInv'
  BY <1>1, NodesSequence DEF AssignAgain, PassInv, OrderInv
<1> QED BY <1>1, <1>2, SameJustified DEF AssignAgain, OrderInv

\* The pass that raised nothing has seen every node.
LEMMA ReturnsOrderInv == OrderInv /\ AssignOrderReturns => OrderInv'
<1> SUFFICES ASSUME OrderInv, AssignOrderReturns PROVE OrderInv'
  OBVIOUS
<1>1. /\ lexer' = lexer /\ nodes' = nodes /\ all_nodes' = all_nodes /\ order' = order
      /\ flag' = flag /\ ~flag /\ pc = "order" /\ pc' = "sort"
  BY DEF AssignOrderReturns, readVars, orderVars, nodes, c
<1>2. Len(nodes) \in Nat /\ DOMAIN nodes = 1 .. Len(nodes)
  BY NodesSequence DEF OrderInv
<1>3. all_nodes = [i \in DOMAIN nodes |-> i] /\ PassInv
  BY <1>1 DEF OrderInv
<1>4. visited = Len(nodes)
  BY <1>2, <1>3 DEF AssignOrderReturns
<1>5. \A k \in DOMAIN nodes : Settled(k)
  BY <1>1, <1>2, <1>3, <1>4 DEF PassInv
<1>6. (\A k \in DOMAIN nodes : Settled(k))'
  BY <1>1, <1>5 DEF Settled
<1> QED BY <1>1, <1>6, SameJustified DEF OrderInv

\* std::sort only moves nodes.
LEMMA SortOrderInv == OrderInv /\ SortByOrder => OrderInv'
<1> SUFFICES ASSUME OrderInv, SortByOrder PROVE OrderInv'
  OBVIOUS
<1>1. /\ lexer' = lexer /\ nodes' = nodes /\ order' = order /\ flag' = flag
      /\ pc = "sort" /\ pc' = "sorted"
  BY DEF SortByOrder, readVars, nodes, c
<1>2. all_nodes' \in [DOMAIN nodes -> DOMAIN nodes] /\ Sorted(all_nodes')
  BY DEF SortByOrder, Bijection, Injection
<1>3. Sorted(all_nodes)'
  BY <1>1, <1>2 DEF Sorted
<1>4. (\A k \in DOMAIN nodes : Settled(k))'
  BY <1>1 DEF OrderInv, Settled
<1> QED BY <1>1, <1>2, <1>3, <1>4, SameJustified DEF OrderInv

\* What comes after leaves the circuit and its order alone.
LEMMA LaterOrderInv ==
  ASSUME OrderInv, UNCHANGED <<lexer, orderVars>>,
         pc \notin {"lex", "order", "sort"}, pc' \notin {"lex", "order", "sort"}
  PROVE  OrderInv'
<1>1. nodes' = nodes /\ all_nodes' = all_nodes /\ order' = order /\ flag' = flag /\ lexer' = lexer
  BY DEF orderVars, nodes, c
<1>2. (\A k \in DOMAIN nodes : Settled(k))' /\ Sorted(all_nodes)'
  BY <1>1 DEF OrderInv, Settled, Sorted
<1> QED BY <1>1, <1>2, SameJustified DEF OrderInv

\* A step that changes nothing.
LEMMA StutterOrderInv == OrderInv /\ UNCHANGED frontVars => OrderInv'
<1> SUFFICES ASSUME OrderInv, UNCHANGED frontVars PROVE OrderInv'
  OBVIOUS
<1>1. /\ nodes' = nodes /\ all_nodes' = all_nodes /\ order' = order /\ flag' = flag
      /\ lexer' = lexer /\ visited' = visited /\ pc' = pc
  BY DEF frontVars, readVars, orderVars, nodes, c
<1>2. \A k : Settled(k)' <=> Settled(k)
  BY <1>1 DEF Settled
<1>3. Sorted(all_nodes)' <=> Sorted(all_nodes)
  BY <1>1 DEF Sorted
<1>4. PassInv' <=> PassInv
  BY <1>1, <1>2 DEF PassInv
<1> QED BY <1>1, <1>2, <1>3, <1>4, SameJustified DEF OrderInv

\* Every step of the front end keeps the invariant.
LEMMA StepOrderInv == OrderInv /\ [FrontEndNext]_frontVars => OrderInv'
<1> SUFFICES ASSUME OrderInv, [FrontEndNext]_frontVars PROVE OrderInv'
  OBVIOUS
<1>1. CASE ReadAndOrder
  BY <1>1, LexTokenOrderInv, EndOfFileOrderInv, AssignStepOrderInv, AssignAgainOrderInv,
     ReturnsOrderInv, SortOrderInv DEF ReadAndOrder
<1>2. CASE StartSearch
  BY <1>2, LaterOrderInv DEF StartSearch, readVars
<1>3. CASE AddCopies \/ TieInputs \/ TieOutputs \/ MakeSwitches \/ AddTrigger \/ RemoveCases
  BY <1>3, LaterOrderInv DEF AddCopies, TieInputs, TieOutputs, MakeSwitches, AddTrigger,
     RemoveCases, readVars
<1>4. CASE FindIn0Case \/ FindIn1Case \/ TimeOut \/ GetOnSet \/ FindCase
  BY <1>4, LaterOrderInv DEF FindIn0Case, FindIn1Case, TimeOut, GetOnSet, FindCase, readVars
<1>5. CASE UNCHANGED frontVars
  BY <1>5, StutterOrderInv
<1> QED BY <1>1, <1>2, <1>3, <1>4, <1>5 DEF FrontEndNext

\* A reader is below what it reads, and the sort puts it first.
LEMMA InvReadersFirst == OrderInv => ReadersComeFirst
<1> SUFFICES ASSUME OrderInv, pc \notin {"lex", "order", "sort"},
                    NEW j \in DOMAIN all_nodes, NEW k \in DOMAIN all_nodes,
                    j < k, ~nodes[all_nodes[k]].is_input,
                    all_nodes[j] \in ToSet(nodes[all_nodes[k]].inputs)
             PROVE  FALSE
  BY DEF ReadersComeFirst
<1>1. all_nodes \in [DOMAIN nodes -> DOMAIN nodes] /\ order \in [DOMAIN nodes -> Nat]
  BY DEF OrderInv
<1>2. Settled(all_nodes[k])
  BY <1>1 DEF OrderInv
<1>3. order[all_nodes[j]] > order[all_nodes[k]]
  BY <1>1, <1>2 DEF Settled
<1>4. order[all_nodes[j]] <= order[all_nodes[k]]
  BY DEF OrderInv, Sorted
<1> QED BY <1>1, <1>3, <1>4

\* Settled, an order is no less than one above every reader; justified, no
\* more than one above some.
LEMMA InvLongestPath == OrderInv => OrderIsLongestPath
<1> SUFFICES ASSUME OrderInv, pc \notin {"lex", "order"}, NEW i \in DOMAIN nodes
             PROVE  order[i] = Max({0} \cup {order[m] + 1 : m \in ReadersOf(i)})
  BY DEF OrderIsLongestPath, ReadersOf
<1> DEFINE S == {0} \cup {order[m] + 1 : m \in ReadersOf(i)}
<1>1. order \in [DOMAIN nodes -> Nat] /\ Justified
  BY DEF OrderInv
<1>2. \A m \in ReadersOf(i) : order[i] > order[m]
  BY DEF OrderInv, Settled, ReadersOf
<1>3. S \subseteq Nat /\ ReadersOf(i) \subseteq DOMAIN nodes
  BY <1>1 DEF ReadersOf
<1>4. \A x \in S : order[i] >= x
  BY <1>1, <1>2, <1>3
<1>5. order[i] \in S
  BY <1>1, <1>2, <1>3 DEF Justified
<1>6. \A x \in S : (\A y \in S : x >= y) => x = order[i]
  BY <1>3, <1>4, <1>5
<1> QED BY <1>4, <1>5, <1>6 DEF Max

\* For every file: AssignOrder leaves every node at the length of the longest
\* way to a node without readers (node.cpp 299-314).
THEOREM LongestPath == FrontEndSpec => []OrderIsLongestPath
<1>1. FrontEndInit => OrderInv
  BY InitOrderInv
<1>2. OrderInv /\ [FrontEndNext]_frontVars => OrderInv'
  BY StepOrderInv
<1>3. OrderInv => OrderIsLongestPath
  BY InvLongestPath
<1> QED BY <1>1, <1>2, <1>3, PTL DEF FrontEndSpec

\* For every file, however its nodes are listed and whatever order std::sort
\* gives to equals: once the nodes are sorted, no node comes before a gate
\* that reads it (node.cpp 299-318, 324-326).
THEOREM ReadersFirst == FrontEndSpec => []ReadersComeFirst
<1>1. FrontEndInit => OrderInv
  BY InitOrderInv
<1>2. OrderInv /\ [FrontEndNext]_frontVars => OrderInv'
  BY StepOrderInv
<1>3. OrderInv => ReadersComeFirst
  BY InvReadersFirst
<1> QED BY <1>1, <1>2, <1>3, PTL DEF FrontEndSpec

-----------------------------------------------------------------------------
\* A walk gets to the neighbours of where it starts and of what it reaches.
LEMMA ReachedStep ==
  ASSUME NEW links, NEW n \in DOMAIN nodes, NEW m \in DOMAIN nodes, NEW k \in DOMAIN nodes,
         m = n \/ m \in Reached(links, n), k \in links[m], k # n
  PROVE  k \in Reached(links, n)
<1> DEFINE closed == {S \in SUBSET DOMAIN nodes : n \in S /\ \A x \in S : links[x] \subseteq S}
<1>1. \A S \in closed : m \in S
  BY DEF Reached
<1>2. \A S \in closed : links[m] \subseteq S
  BY <1>1
<1>3. \A S \in closed : k \in S
  BY <1>2
<1> QED BY <1>3 DEF Reached

\* The nodes that have node i in their fan-in cone.
Above(i) == {m \in DOMAIN nodes : i \in FaninOf(m)}

\* Without a loop, what is above a reader of i is above i, and the reader is so too.
LEMMA ReaderIsAbove ==
  ASSUME LexerOK(lexer), Loopless, NEW i \in DOMAIN nodes, NEW m \in ReadersOf(i)
  PROVE  Above(m) \subseteq Above(i) /\ m \in Above(i) /\ m \notin Above(m) /\ m \in DOMAIN nodes
<1> DEFINE links == [x \in DOMAIN nodes |-> ToSet(nodes[x].inputs)]
<1>1. m \in DOMAIN nodes /\ i \in ToSet(nodes[m].inputs) /\ links[m] = ToSet(nodes[m].inputs)
  BY DEF ReadersOf
<1>2. i # m
  <2>1. nodes[m].inputs \in Seq(DOMAIN nodes \ {m})
    BY <1>1 DEF LexerOK, CircuitOK, NodesOK, NodeOK, nodes, c
  <2> QED BY <1>1, <2>1 DEF ToSet
<1>3. \A n : FaninOf(n) = Reached(links, n)
  BY DEF FaninOf
<1> HIDE DEF links
<1>4. m \in Above(i)
  BY <1>1, <1>2, <1>3, ReachedStep DEF Above
<1>5. ASSUME NEW q \in Above(m) PROVE q \in Above(i)
  <2>1. q \in DOMAIN nodes /\ m \in FaninOf(q)
    BY <1>5 DEF Above
  <2>2. q # i
    BY <1>1, <2>1 DEF Loopless
  <2>3. i \in FaninOf(q)
    BY <1>1, <1>3, <2>1, <2>2, ReachedStep
  <2> QED BY <2>1, <2>3 DEF Above
<1>6. m \notin FaninOf(m)
  BY DEF FaninOf, Reached
<1> QED BY <1>1, <1>4, <1>5, <1>6 DEF Above

\* The nodes are a finite set.
LEMMA NodesFinite ==
  ASSUME LexerOK(lexer)
  PROVE  IsFiniteSet(DOMAIN nodes) /\ Cardinality(DOMAIN nodes) = Len(nodes)
<1>1. Len(nodes) \in Nat /\ DOMAIN nodes = 1 .. Len(nodes)
  BY NodesSequence
<1> DEFINE n == Len(nodes)
<1> HIDE DEF n
<1>2. n \in Nat => IsFiniteSet(1 .. n) /\ Cardinality(1 .. n) = n
  BY FS_Interval
<1> QED BY <1>1, <1>2 DEF n

\* A justified order is no greater than the number of nodes above: of the nodes it
\* were greater for, one with fewest above would have a reader it is greater for too.
LEMMA OrderBelowAbove ==
  ASSUME LexerOK(lexer), Loopless, order \in [DOMAIN nodes -> Nat], Justified,
         NEW i \in DOMAIN nodes
  PROVE  order[i] <= Cardinality(Above(i))
<1> DEFINE N == DOMAIN nodes
           Bad == {k \in N : ~(order[k] <= Cardinality(Above(k)))}
           F == {Above(k) : k \in Bad}
<1> SUFFICES ASSUME Bad # {} PROVE FALSE
  OBVIOUS
<1>1. \A k \in N : IsFiniteSet(Above(k)) /\ Cardinality(Above(k)) \in Nat /\ Above(k) \in SUBSET N
  <2> SUFFICES ASSUME NEW k \in N
               PROVE IsFiniteSet(Above(k)) /\ Cardinality(Above(k)) \in Nat /\ Above(k) \in SUBSET N
    OBVIOUS
  <2>1. Above(k) \in SUBSET N
    BY DEF Above
  <2> QED BY <2>1, NodesFinite, FS_Subset, FS_CardinalityType
<1>2. F # {} /\ F \subseteq FiniteSubsetsOf(N)
  BY <1>1 DEF FiniteSubsetsOf
<1>3. PICK X \in F : \A Y \in F : ~(<<Y, X>> \in StrictSubsetOrdering(N))
  <2> HIDE DEF F, N
  <2> QED BY <1>2, FS_StrictSubsetOrderingWellFounded, WFMin
<1>4. PICK k \in Bad : X = Above(k)
  OBVIOUS
<1>5. order[k] \in Nat /\ order[k] # 0
  BY <1>1
<1>6. PICK m \in ReadersOf(k) : order[k] <= order[m] + 1
  BY <1>5 DEF Justified
<1>7. Above(m) \subseteq Above(k) /\ m \in Above(k) /\ m \notin Above(m) /\ m \in N
  BY ReaderIsAbove
<1>8. m \notin Bad
  <2> SUFFICES ASSUME m \in Bad PROVE FALSE
    OBVIOUS
  <2>1. Above(m) \in F
    OBVIOUS
  <2>2. <<Above(m), X>> \in StrictSubsetOrdering(N)
    <3>1. Above(m) # Above(k)
      BY <1>7
    <3>2. Above(m) \in SUBSET N /\ Above(k) \in SUBSET N
      BY <1>1, <1>7
    <3> HIDE DEF N, Bad, F
    <3> QED BY <1>4, <1>7, <3>1, <3>2 DEF StrictSubsetOrdering
  <2> QED BY <1>3, <2>1, <2>2
<1>9. Cardinality(Above(m)) < Cardinality(Above(k))
  <2>1. Cardinality(Above(m)) <= Cardinality(Above(k)) /\ Cardinality(Above(m)) # Cardinality(Above(k))
    BY <1>1, <1>7, FS_Subset
  <2> QED BY <1>1, <1>7, <2>1
<1>10. order[m] <= Cardinality(Above(m)) /\ order[m] \in Nat
  BY <1>7, <1>8
<1>11. order[k] <= Cardinality(Above(k))
  BY <1>1, <1>5, <1>6, <1>7, <1>9, <1>10
<1> QED BY <1>11

\* On a circuit without a loop the orders stay below the number of nodes, in the
\* middle of a pass as well (node.cpp 299-314).
OrdersBelowNodes ==
  pc # "lex" /\ Loopless => \A i \in DOMAIN nodes : order[i] < Len(nodes)

\* Only gates above a node raise its order.
LEMMA InvOrdersBelow == OrderInv => OrdersBelowNodes
<1> SUFFICES ASSUME OrderInv, pc # "lex", Loopless, NEW i \in DOMAIN nodes
             PROVE  order[i] < Len(nodes)
  BY DEF OrdersBelowNodes
<1>1. order \in [DOMAIN nodes -> Nat] /\ LexerOK(lexer) /\ Justified
  BY DEF OrderInv
<1>2. order[i] <= Cardinality(Above(i))
  BY <1>1, OrderBelowAbove
<1>3. IsFiniteSet(DOMAIN nodes) /\ Cardinality(DOMAIN nodes) = Len(nodes) /\ Len(nodes) \in Nat
  BY <1>1, NodesFinite, NodesSequence
<1>4. Above(i) \in SUBSET DOMAIN nodes /\ i \notin Above(i)
  BY DEF Above, FaninOf, Reached
<1>5. IsFiniteSet(Above(i)) /\ Cardinality(Above(i)) <= Len(nodes) /\ Cardinality(Above(i)) # Len(nodes)
  BY <1>3, <1>4, FS_Subset
<1>6. Cardinality(Above(i)) \in Nat
  BY <1>5, FS_CardinalityType
<1> QED BY <1>1, <1>2, <1>3, <1>5, <1>6

\* For every file without a loop: no order reaches the number of nodes.
THEOREM OrdersStayBelow == FrontEndSpec => []OrdersBelowNodes
<1>1. FrontEndInit => OrderInv
  BY InitOrderInv
<1>2. OrderInv /\ [FrontEndNext]_frontVars => OrderInv'
  BY StepOrderInv
<1>3. OrderInv => OrdersBelowNodes
  BY InvOrdersBelow
<1> QED BY <1>1, <1>2, <1>3, PTL DEF FrontEndSpec

-----------------------------------------------------------------------------
\* The raises AssignOrder has room for: orders above the ones the nodes have, up to
\* the number of nodes.
Room == {r \in (DOMAIN nodes) \X (0 .. Len(nodes)) : order[r[1]] < r[2]}

\* A pass that raises something takes room, one that has not may be the last, and a
\* pass has so many nodes to see.
PassesOpen   == 2 * Cardinality(Room) + IF flag THEN 1 ELSE 0
OrderingLeft == PassesOpen * (Len(nodes) + 1) + (Len(nodes) - visited)

\* While AssignOrder works on a circuit without a loop, in a build in which it
\* returns, every step takes from OrderingLeft (node.cpp 299-314).
OrderingRunsOut ==
  [][pc = "order" /\ Returns /\ Loopless =>
       OrderingLeft \in Nat /\ (pc' = "order" => OrderingLeft' < OrderingLeft)]_frontVars

\* There is only so much room.
LEMMA RoomFinite ==
  ASSUME LexerOK(lexer)
  PROVE  IsFiniteSet(Room) /\ Cardinality(Room) \in Nat
<1>1. Len(nodes) \in Nat /\ IsFiniteSet(DOMAIN nodes)
  BY NodesSequence, NodesFinite
<1>2. IsFiniteSet(0 .. Len(nodes))
  BY <1>1, FS_Interval
<1>3. IsFiniteSet((DOMAIN nodes) \X (0 .. Len(nodes)))
  BY <1>1, <1>2, FS_Product
<1>4. Room \in SUBSET ((DOMAIN nodes) \X (0 .. Len(nodes)))
  BY DEF Room
<1> QED BY <1>3, <1>4, FS_Subset, FS_CardinalityType

\* A product's high factor decides.
LEMMA HighFactorDecides ==
  ASSUME NEW a \in Nat, NEW b \in Nat, NEW base \in Nat, NEW x \in Nat, NEW y \in Nat,
         x < base, a < b
  PROVE  a * base + x < b * base + y
<1>1. PICK k \in Nat : b = a + 1 + k
  <2>1. b - a - 1 \in Nat /\ b = a + 1 + (b - a - 1)
    OBVIOUS
  <2> QED BY <2>1
<1>2. k * base \in Nat /\ a * base \in Nat
  OBVIOUS
<1>3. b * base = a * base + base + k * base
  BY <1>1
<1> QED BY <1>2, <1>3

\* What is left is a number.
LEMMA OrderingLeftNat ==
  OrderInv /\ pc = "order" =>
    /\ OrderingLeft \in Nat /\ PassesOpen \in Nat /\ Cardinality(Room) \in Nat
    /\ Len(nodes) \in Nat /\ visited \in 0 .. Len(nodes)
<1> SUFFICES ASSUME OrderInv, pc = "order"
             PROVE  /\ OrderingLeft \in Nat /\ PassesOpen \in Nat /\ Cardinality(Room) \in Nat
                    /\ Len(nodes) \in Nat /\ visited \in 0 .. Len(nodes)
  OBVIOUS
<1>1. Cardinality(Room) \in Nat /\ Len(nodes) \in Nat /\ visited \in 0 .. Len(nodes)
  BY RoomFinite, NodesSequence DEF OrderInv, PassInv
<1>2. PassesOpen \in Nat
  BY <1>1 DEF PassesOpen
<1>3. \A a, b \in Nat : a * b \in Nat
  OBVIOUS
<1>4. PassesOpen * (Len(nodes) + 1) \in Nat
  <2>1. Len(nodes) + 1 \in Nat
    BY <1>1
  <2> QED BY <1>2, <1>3, <2>1
<1>5. Len(nodes) - visited \in Nat
  BY <1>1
<1> QED BY <1>1, <1>2, <1>4, <1>5 DEF OrderingLeft

\* A raise takes room: the raised node has no longer the order it has now.
LEMMA StepTakesRoom ==
  ASSUME OrderInv, OrderInv', OrdersBelowNodes', Loopless', AssignStep
  PROVE  IF order' = order THEN Room' = Room ELSE Cardinality(Room') < Cardinality(Room)
<1>1. /\ lexer' = lexer /\ nodes' = nodes /\ pc = "order" /\ pc' = "order"
      /\ all_nodes = [i \in DOMAIN nodes |-> i]
  BY DEF AssignStep, readVars, nodes, c, OrderInv
<1>2. order \in [DOMAIN nodes -> Nat] /\ order' \in [DOMAIN nodes -> Nat]
  BY <1>1 DEF OrderInv
<1>3. Len(nodes) \in Nat /\ DOMAIN nodes = 1 .. Len(nodes) /\ Len(all_nodes) = Len(nodes)
  <2>1. Len(nodes) \in Nat /\ DOMAIN nodes = 1 .. Len(nodes)
    BY NodesSequence DEF OrderInv
  <2> QED BY <1>1, <2>1
<1>4. order' = Raised(order, visited + 1) /\ visited + 1 \in DOMAIN nodes
  BY <1>1, <1>3 DEF AssignStep, OrderInv, PassInv
<1>5. \A j \in DOMAIN nodes : order[j] <= order'[j]
  BY <1>2, <1>4 DEF Raised
<1>6. CASE order' = order
  BY <1>1, <1>6 DEF Room
<1>7. CASE order' # order
  <2>1. PICK j \in DOMAIN nodes : order'[j] # order[j]
    BY <1>2, <1>7
  <2>2. order'[j] < Len(nodes)
    BY <1>1 DEF OrdersBelowNodes
  <2>3. Room' \subseteq Room
    <3>1. Room' = {r \in (DOMAIN nodes) \X (0 .. Len(nodes)) : order'[r[1]] < r[2]}
      BY <1>1 DEF Room
    <3> QED BY <1>2, <1>5, <3>1 DEF Room
  <2>4. <<j, order'[j]>> \in Room /\ <<j, order'[j]>> \notin Room'
    <3>1. order'[j] \in 0 .. Len(nodes) /\ order[j] < order'[j] /\ ~(order'[j] < order'[j])
      BY <1>2, <1>3, <1>5, <2>1, <2>2
    <3> QED BY <3>1 DEF Room
  <2>5. IsFiniteSet(Room) /\ Cardinality(Room) \in Nat
    BY RoomFinite DEF OrderInv
  <2>6. Cardinality(Room') <= Cardinality(Room) /\ Cardinality(Room') # Cardinality(Room)
    BY <2>3, <2>4, <2>5, FS_Subset
  <2>7. Cardinality(Room') \in Nat
    BY <2>3, <2>5, FS_Subset, FS_CardinalityType
  <2> QED BY <1>7, <2>5, <2>6, <2>7
<1> QED BY <1>6, <1>7

\* Seeing a node takes a visit; raising something takes room worth two passes, of
\* which the next one costs at most one.
LEMMA AssignStepRunsOut ==
  ASSUME OrderInv, OrderInv', OrdersBelowNodes', Loopless', AssignStep
  PROVE  OrderingLeft' < OrderingLeft
<1>1. /\ lexer' = lexer /\ nodes' = nodes /\ pc = "order" /\ pc' = "order"
      /\ visited' = visited + 1 /\ flag' = (flag \/ order' # order)
  BY DEF AssignStep, readVars, nodes, c
<1>2. /\ OrderingLeft \in Nat /\ PassesOpen \in Nat /\ Cardinality(Room) \in Nat
      /\ Len(nodes) \in Nat /\ visited \in 0 .. Len(nodes)
  BY <1>1, OrderingLeftNat
<1>3. /\ PassesOpen' \in Nat /\ Cardinality(Room') \in Nat /\ visited' \in 0 .. Len(nodes)
  <2>1. (OrderInv /\ pc = "order" =>
           /\ OrderingLeft \in Nat /\ PassesOpen \in Nat /\ Cardinality(Room) \in Nat
           /\ Len(nodes) \in Nat /\ visited \in 0 .. Len(nodes))'
    BY OrderingLeftNat, PTL
  <2> QED BY <1>1, <2>1
<1>4. Len(nodes') = Len(nodes)
  BY <1>1
<1> DEFINE base == Len(nodes) + 1
<1>5. /\ OrderingLeft  = PassesOpen * base + (Len(nodes) - visited)
      /\ OrderingLeft' = PassesOpen' * base + (Len(nodes) - visited')
  BY <1>1 DEF OrderingLeft
<1>6. /\ base \in Nat /\ Len(nodes) - visited \in Nat /\ Len(nodes) - visited' \in Nat
      /\ Len(nodes) - visited' < base /\ Len(nodes) - visited' < Len(nodes) - visited
  BY <1>1, <1>2, <1>3
<1>7. CASE order' = order
  <2>1. Room' = Room
    BY <1>7, StepTakesRoom
  <2>2. flag' = flag
    BY <1>1, <1>7 DEF OrderInv
  <2>3. PassesOpen' = PassesOpen
    BY <2>1, <2>2 DEF PassesOpen
  <2>4. \A a, b \in Nat : a * b \in Nat
    OBVIOUS
  <2>5. PassesOpen * base \in Nat
    BY <1>2, <1>6, <2>4
  <2> DEFINE p == PassesOpen * base
  <2>6. OrderingLeft = p + (Len(nodes) - visited) /\ OrderingLeft' = p + (Len(nodes) - visited')
    BY <1>5, <2>3
  <2> HIDE DEF p, base
  <2> QED BY <1>6, <2>5, <2>6 DEF p
<1>8. CASE order' # order
  <2>1. Cardinality(Room') < Cardinality(Room)
    BY <1>8, StepTakesRoom
  <2>2. PassesOpen' < PassesOpen
    <3>1. PassesOpen' <= 2 * Cardinality(Room') + 1 /\ PassesOpen >= 2 * Cardinality(Room)
      BY <1>2, <1>3 DEF PassesOpen
    <3> QED BY <1>2, <1>3, <2>1, <3>1
  <2> HIDE DEF base
  <2> QED BY <1>2, <1>3, <1>5, <1>6, <2>2, HighFactorDecides
<1> QED BY <1>7, <1>8

\* A new pass takes the flag.
LEMMA AssignAgainRunsOut ==
  ASSUME OrderInv, OrderInv', Returns, AssignAgain
  PROVE  OrderingLeft' < OrderingLeft
<1>1. /\ lexer' = lexer /\ nodes' = nodes /\ pc = "order" /\ pc' = "order" /\ order' = order
      /\ visited' = 0 /\ flag' = FALSE /\ flag = TRUE
  BY DEF AssignAgain, readVars, nodes, c, OrderInv
<1>2. /\ PassesOpen \in Nat /\ Cardinality(Room) \in Nat
      /\ Len(nodes) \in Nat /\ visited \in 0 .. Len(nodes)
  BY <1>1, OrderingLeftNat
<1>3. Room' = Room
  BY <1>1 DEF Room
<1>4. PassesOpen' \in Nat /\ PassesOpen' < PassesOpen
  BY <1>1, <1>2, <1>3 DEF PassesOpen
<1> DEFINE base == Len(nodes) + 1
<1>5. /\ OrderingLeft  = PassesOpen * base + (Len(nodes) - visited)
      /\ OrderingLeft' = PassesOpen' * base + (Len(nodes) - visited')
  BY <1>1 DEF OrderingLeft
<1>6. /\ base \in Nat /\ Len(nodes) - visited \in Nat /\ Len(nodes) - visited' \in Nat
      /\ Len(nodes) - visited' < base
  BY <1>1, <1>2
<1> HIDE DEF base
<1> QED BY <1>2, <1>4, <1>5, <1>6, HighFactorDecides

\* For every file without a loop AssignOrder takes no more steps than OrderingLeft
\* says when it begins: what is left of AssignOrderEnds when fairness is left out.
THEOREM OrderingIsBounded == FrontEndSpec => OrderingRunsOut
<1> DEFINE Advances == pc = "order" /\ Returns /\ Loopless =>
                          OrderingLeft \in Nat /\ (pc' = "order" => OrderingLeft' < OrderingLeft)
<1>1. FrontEndInit => OrderInv
  BY InitOrderInv
<1>2. OrderInv /\ [FrontEndNext]_frontVars => OrderInv'
  BY StepOrderInv
<1>3. OrderInv /\ OrderInv' /\ [FrontEndNext]_frontVars => [Advances]_frontVars
  <2> SUFFICES ASSUME OrderInv, OrderInv', FrontEndNext, pc = "order", Returns, Loopless
               PROVE  OrderingLeft \in Nat /\ (pc' = "order" => OrderingLeft' < OrderingLeft)
    OBVIOUS
  <2>1. OrderingLeft \in Nat
    BY OrderingLeftNat
  <2>2. SUFFICES ASSUME pc' = "order" PROVE OrderingLeft' < OrderingLeft
    BY <2>1
  <2>3. AssignStep \/ AssignAgain
    BY <2>2 DEF FrontEndNext, ReadAndOrder, LexToken, EndOfFile, AssignOrderReturns, SortByOrder,
         StartSearch, AddCopies, TieInputs, TieOutputs, MakeSwitches, AddTrigger, RemoveCases,
         FindIn0Case, FindIn1Case, TimeOut, GetOnSet, FindCase
  <2>4. CASE AssignStep
    <3>1. lexer' = lexer
      BY <2>4 DEF AssignStep, readVars
    <3>2. Loopless'
      BY <3>1 DEF Loopless, FaninOf, Reached, nodes, c
    <3>3. (OrderInv => OrdersBelowNodes)'
      BY InvOrdersBelow, PTL
    <3> QED BY <2>4, <3>2, <3>3, AssignStepRunsOut
  <2>5. CASE AssignAgain
    BY <2>5, AssignAgainRunsOut
  <2> QED BY <2>3, <2>4, <2>5
<1> QED BY <1>1, <1>2, <1>3, PTL DEF FrontEndSpec, OrderingRunsOut

-----------------------------------------------------------------------------
\* The signals of a CNF are numbered below numVars, and its clauses are of them.
CnfOK(cnf) ==
  /\ numVars(cnf) \in Nat
  /\ \A n \in DOMAIN cnf.signals : cnf.signals[n] \in 0 .. numVars(cnf) - 1
  /\ \A cl \in cnf.clauses : \A v \in DOMAIN cl : v \in 0 .. numVars(cnf) - 1 /\ cl[v] \in BOOLEAN

\* A list of the elements of a finite set.
LEMMA ListedSet ==
  ASSUME NEW S, IsFiniteSet(S)
  PROVE  SetToSeq(S) \in Seq(S)
<1>1. Cardinality(S) \in Nat /\ ExistsBijection(1 .. Cardinality(S), S)
  BY FS_CardinalityType
<1>2. \E f \in [1 .. Cardinality(S) -> S] : IsInjective(f)
  BY <1>1, Zenon DEF ExistsBijection, Bijection, Injection
<1>3. SetToSeq(S) \in [1 .. Cardinality(S) -> S]
  BY <1>2, Zenon DEF SetToSeq
<1> QED BY <1>1, <1>3

\* The names of a list of nodes are names of the circuit.
LEMMA NamedList ==
  ASSUME NEW cc, NEW ids \in Seq(DOMAIN cc.nodes)
  PROVE  NamesOf(cc, ids) \in Seq({cc.nodes[i].name : i \in DOMAIN cc.nodes})
BY DEF NamesOf

\* What follows in a concatenation.
LEMMA Concatenated ==
  ASSUME NEW S, NEW s \in Seq(S), NEW t \in Seq(S)
  PROVE  /\ s \o t \in Seq(S)
         /\ \A k \in DOMAIN t : k + Len(s) \in DOMAIN (s \o t) /\ (s \o t)[k + Len(s)] = t[k]
OBVIOUS

\* Of the netlist: each gate is one of the circuit, with its inputs.
LEMMA NetlistGates ==
  ASSUME NEW cc, CircuitOK(cc), NEW listed \in Seq(DOMAIN cc.nodes), NEW ex_in, NEW ex_out
  PROVE  \E gates \in Seq(DOMAIN cc.nodes) :
           Netlist(cc, listed, ex_in, ex_out) =
             [k \in DOMAIN gates |->
                [out |-> cc.nodes[gates[k]].name, ins |-> NamesOf(cc, cc.nodes[gates[k]].inputs),
                 row |-> cc.nodes[gates[k]].cube[1]]]
<1>1. Reverse(listed) \in Seq(DOMAIN cc.nodes)
  BY DEF Reverse
<1>2. \E S : Netlist(cc, listed, ex_in, ex_out) =
             [k \in DOMAIN Only(Reverse(listed), S) |->
                [out |-> cc.nodes[Only(Reverse(listed), S)[k]].name,
                 ins |-> NamesOf(cc, cc.nodes[Only(Reverse(listed), S)[k]].inputs),
                 row |-> cc.nodes[Only(Reverse(listed), S)[k]].cube[1]]]
  BY Zenon DEF Netlist
<1>3. PICK S : Netlist(cc, listed, ex_in, ex_out) =
             [k \in DOMAIN Only(Reverse(listed), S) |->
                [out |-> cc.nodes[Only(Reverse(listed), S)[k]].name,
                 ins |-> NamesOf(cc, cc.nodes[Only(Reverse(listed), S)[k]].inputs),
                 row |-> cc.nodes[Only(Reverse(listed), S)[k]].cube[1]]]
  BY <1>2
<1>4. Only(Reverse(listed), S) \in Seq(DOMAIN cc.nodes)
  <2>1. Only(Reverse(listed), S) \in Seq(DOMAIN cc.nodes \cap S)
    BY <1>1, OnlyElements
  <2> QED BY <2>1, LargerRange
<1> QED BY <1>3, <1>4

\* What Cnf gives for a circuit is in order: Finalize may look up any input,
\* output or node that was cut open or asked for, and finds a signal of the CNF.
LEMMA CnfWellFormed ==
  ASSUME NEW cc, CircuitOK(cc), NEW listed \in Seq(DOMAIN cc.nodes),
         NEW ex_in \in SUBSET DOMAIN cc.nodes, NEW ex_out \in Seq(DOMAIN cc.nodes)
  PROVE  /\ CnfOK(Cnf(cc, listed, ex_in, ex_out))
         /\ \A i \in ToSet(cc.inputs) \cup ToSet(cc.outputs) \cup ex_in \cup ToSet(ex_out) :
              cc.nodes[i].name \in DOMAIN Cnf(cc, listed, ex_in, ex_out).signals
<1> DEFINE D == DOMAIN cc.nodes
           Nm == {cc.nodes[i].name : i \in D}
           net == Netlist(cc, listed, ex_in, ex_out)
           met == [k \in DOMAIN net |-> Append(net[k].ins, net[k].out)]
           first == <<PiNames(cc, ex_in), PoNames(cc, ex_out)>>
           lists == first \o met
           sig == Numbered(lists)
           ids == ToSet(cc.inputs) \cup ToSet(cc.outputs) \cup ex_in \cup ToSet(ex_out)
           cached == {cc.nodes[i].name : i \in ids}
           signals == [n \in cached \cup DOMAIN sig |-> IF n \in DOMAIN sig THEN sig[n] ELSE 0]
           cnf == Cnf(cc, listed, ex_in, ex_out)
<1>0. IsFiniteSet(D) /\ cc.inputs \in Seq(D) /\ cc.outputs \in Seq(D)
      /\ \A i \in D : cc.nodes[i].inputs \in Seq(D)
  <2>1. IsSequence(cc.nodes) /\ \A i \in D : cc.nodes[i].inputs \in Seq(D \ {i})
    BY DEF CircuitOK, NodesOK, NodeOK
  <2>2. D = 1 .. Len(cc.nodes) /\ Len(cc.nodes) \in Nat
    BY <2>1, SequenceDomain
  <2>3. IsFiniteSet(D)
    <3> DEFINE n == Len(cc.nodes)
    <3> HIDE DEF n, D
    <3>1. n \in Nat => IsFiniteSet(1 .. n)
      BY FS_Interval
    <3> QED BY <2>2, <3>1 DEF n
  <2>4. \A i \in D : cc.nodes[i].inputs \in Seq(D)
    <3> SUFFICES ASSUME NEW i \in D PROVE cc.nodes[i].inputs \in Seq(D)
      OBVIOUS
    <3>1. cc.nodes[i].inputs \in Seq(D \ {i})
      BY <2>1
    <3> HIDE DEF D
    <3> QED BY <3>1, LargerRange
  <2> QED BY <2>3, <2>4 DEF CircuitOK
<1>1. PiNames(cc, ex_in) \in Seq(Nm)
  <2> DEFINE cut == {i \in ex_in : ~cc.nodes[i].is_input}
  <2>1. cut \in SUBSET D /\ IsFiniteSet(cut)
    BY <1>0, FS_Subset
  <2>2. SetToSeq(cut) \in Seq(cut)
    <3> HIDE DEF cut
    <3> QED BY <2>1, ListedSet
  <2>3. SetToSeq(cut) \in Seq(D)
    <3> HIDE DEF cut, D
    <3> QED BY <2>1, <2>2, LargerRange
  <2> HIDE DEF cut
  <2>4. cc.inputs \o SetToSeq(cut) \in Seq(D)
    BY <1>0, <2>3, Concatenated
  <2> QED BY <2>4, NamedList DEF PiNames, cut
<1>2. PoNames(cc, ex_out) \in Seq(Nm)
  <2> DEFINE shown == Only(ex_out, {i \in ToSet(ex_out) : ~cc.nodes[i].is_output})
  <2>1. shown \in Seq(D)
    <3>1. \A S : Only(ex_out, S) \in Seq(D \cap S)
      BY OnlyElements
    <3>2. \A S : Only(ex_out, S) \in Seq(D)
      <4> HIDE DEF D
      <4> QED BY <3>1, LargerRange
    <3> QED BY <3>2
  <2> HIDE DEF shown
  <2>2. cc.outputs \o shown \in Seq(D)
    BY <1>0, <2>1, Concatenated
  <2> QED BY <2>2, NamedList DEF PoNames, shown
<1>3. PICK gates \in Seq(D) :
        net = [k \in DOMAIN gates |->
                 [out |-> cc.nodes[gates[k]].name, ins |-> NamesOf(cc, cc.nodes[gates[k]].inputs),
                  row |-> cc.nodes[gates[k]].cube[1]]]
  BY NetlistGates
<1>4. \A k \in DOMAIN net : net[k].out \in Nm /\ net[k].ins \in Seq(Nm)
  <2> SUFFICES ASSUME NEW k \in DOMAIN net PROVE net[k].out \in Nm /\ net[k].ins \in Seq(Nm)
    OBVIOUS
  <2>1. k \in DOMAIN gates /\ gates[k] \in D
    BY <1>3
  <2>2. net[k].out = cc.nodes[gates[k]].name /\ net[k].ins = NamesOf(cc, cc.nodes[gates[k]].inputs)
    BY <1>3, <2>1
  <2>3. cc.nodes[gates[k]].inputs \in Seq(D)
    BY <1>0, <2>1
  <2> QED BY <2>1, <2>2, <2>3, NamedList
<1>5. net \in Seq({net[k] : k \in DOMAIN net}) /\ DOMAIN net = 1 .. Len(gates) /\ Len(gates) \in Nat
  <2>1. DOMAIN gates = 1 .. Len(gates) /\ Len(gates) \in Nat
    OBVIOUS
  <2>2. DOMAIN net = 1 .. Len(gates) /\ net = [k \in 1 .. Len(gates) |-> net[k]]
    BY <1>3, <2>1
  <2> HIDE DEF net
  <2> QED BY <2>1, <2>2
<1> HIDE DEF net
<1>6. met \in Seq(Seq(Nm)) /\ DOMAIN met = DOMAIN net
  <2>1. \A k \in DOMAIN net : Append(net[k].ins, net[k].out) \in Seq(Nm)
    <3> HIDE DEF Nm
    <3> QED BY <1>4
  <2> HIDE DEF Nm
  <2> QED BY <1>5, <2>1
<1>7. first \in Seq(Seq(Nm)) /\ Len(first) = 2
  <2> HIDE DEF Nm
  <2> QED BY <1>1, <1>2
<1>8. lists \in Seq(Seq(Nm)) /\ \A k \in DOMAIN met : k + 2 \in DOMAIN lists /\ lists[k + 2] = met[k]
  <2> DEFINE T == Seq(Nm)
  <2>0. first \in Seq(T) /\ met \in Seq(T)
    BY <1>6, <1>7
  <2> HIDE DEF Nm, met, first, T
  <2>1. /\ first \o met \in Seq(T)
        /\ \A k \in DOMAIN met :
             k + Len(first) \in DOMAIN (first \o met) /\ (first \o met)[k + Len(first)] = met[k]
    BY <2>0, Concatenated
  <2> QED BY <1>7, <2>1 DEF T
<1> HIDE DEF lists
<1>9. /\ sig \in [NamesIn(lists) -> 0 .. Cardinality(NamesIn(lists)) - 1]
      /\ IsFiniteSet(NamesIn(lists)) /\ Cardinality(NamesIn(lists)) \in Nat
  <2>1. IsFiniteSet(NamesIn(lists))
    <3> HIDE DEF Nm
    <3>1. lists \in Seq(Seq(Nm))
      BY <1>8
    <3> QED BY <3>1, NamesFinite DEF NamesIn
  <2> HIDE DEF Nm
  <2> QED BY <1>8, <2>1, SignalsAreDistinct, FS_CardinalityType
<1> HIDE DEF sig
<1>10. cnf = [signals |-> signals, clauses |-> UNION {GateClauses(sig, net[k]) : k \in DOMAIN net}]
  BY DEF Cnf, sig, net, lists
<1> HIDE DEF cnf
<1>11. IsFiniteSet(cached \cup NamesIn(lists)) /\ NamesIn(lists) \in SUBSET (cached \cup NamesIn(lists))
  <2>1. IsFiniteSet(Nm)
    <3> DEFINE all == [i \in D |-> i]
    <3>1. all \in Seq(D) /\ DOMAIN all = D
      <4>1. D = 1 .. Len(cc.nodes) /\ Len(cc.nodes) \in Nat
        BY SequenceDomain DEF CircuitOK, NodesOK
      <4> HIDE DEF D
      <4> QED BY <4>1
    <3>2. NamesOf(cc, all) \in Seq(Nm)
      <4> HIDE DEF all
      <4> QED BY <3>1, NamedList
    <3>3. ToSet(NamesOf(cc, all)) = Nm
      BY <3>1 DEF ToSet, NamesOf
    <3> HIDE DEF Nm, all
    <3> QED BY <3>2, <3>3, ElementsFinite
  <2>2. cached \in SUBSET Nm
    BY <1>0 DEF ToSet
  <2>3. IsFiniteSet(cached)
    <3> HIDE DEF Nm, cached
    <3> QED BY <2>1, <2>2, FS_Subset
  <2> HIDE DEF cached
  <2> QED BY <1>9, <2>3, FS_Union
<1> DEFINE n == Cardinality(cached \cup NamesIn(lists))
<1>12. n \in Nat /\ Cardinality(NamesIn(lists)) <= n
  <2> HIDE DEF cached
  <2> QED BY <1>11, FS_CardinalityType, FS_Subset
<1>13. numVars(cnf) = n /\ DOMAIN cnf.signals = cached \cup NamesIn(lists)
  <2>1. DOMAIN cnf.signals = cached \cup NamesIn(lists)
    <3> HIDE DEF cached
    <3> QED BY <1>9, <1>10
  <2> QED BY <2>1 DEF numVars
<1>14. \A m \in DOMAIN sig : sig[m] \in 0 .. n - 1
  BY <1>9, <1>12
<1>15. \A m \in DOMAIN cnf.signals : cnf.signals[m] \in 0 .. n - 1
  <2> SUFFICES ASSUME NEW m \in DOMAIN cnf.signals PROVE cnf.signals[m] \in 0 .. n - 1
    OBVIOUS
  <2>1. m \in cached \cup NamesIn(lists)
    BY <1>13
  <2>2. n # 0
    <3> HIDE DEF cached
    <3> QED BY <1>11, <2>1, FS_EmptySet
  <2>3. cnf.signals[m] = IF m \in DOMAIN sig THEN sig[m] ELSE 0
    <3> HIDE DEF cached, n
    <3> QED BY <1>9, <1>10, <2>1
  <2> HIDE DEF n
  <2> QED BY <1>12, <1>14, <2>2, <2>3
<1>16. ASSUME NEW cl \in cnf.clauses, NEW v \in DOMAIN cl
       PROVE  v \in 0 .. n - 1 /\ cl[v] \in BOOLEAN
  <2>1. PICK k \in DOMAIN net : cl \in GateClauses(sig, net[k])
    BY <1>10
  <2>2. net[k].out \in NamesIn(lists) /\ \A j \in DOMAIN net[k].ins : net[k].ins[j] \in NamesIn(lists)
    <3>1. net[k].ins \in Seq(Nm) /\ net[k].out \in Nm
      BY <1>4
    <3>2. met[k] = Append(net[k].ins, net[k].out) /\ k + 2 \in DOMAIN lists /\ lists[k + 2] = met[k]
      BY <1>6, <1>8
    <3>3. ToSet(Append(net[k].ins, net[k].out)) \subseteq NamesIn(lists)
      <4> HIDE DEF met
      <4> QED BY <3>2 DEF NamesIn
    <3> HIDE DEF Nm, met
    <3>4. \A e \in ToSet(net[k].ins) \cup {net[k].out} : e \in ToSet(Append(net[k].ins, net[k].out))
      BY <3>1, AppendElements
    <3> QED BY <3>3, <3>4 DEF ToSet
  <2>3. sig[net[k].out] \in 0 .. n - 1 /\ \A j \in DOMAIN net[k].ins : sig[net[k].ins[j]] \in 0 .. n - 1
    BY <1>9, <1>14, <2>2
  <2>4. net[k].ins \in Seq(Nm)
    BY <1>4
  <2> DEFINE X == 0 .. n - 1
  <2>5. sig[net[k].out] \in X /\ \A j \in DOMAIN net[k].ins : sig[net[k].ins[j]] \in X
    BY <2>3
  <2> HIDE DEF n, Nm, X
  <2>6. DOMAIN cl \subseteq X /\ \A u \in DOMAIN cl : cl[u] \in BOOLEAN
    BY <2>1, <2>4, <2>5, GateClausesValues
  <2> QED BY <2>6 DEF X
<1>17. \A i \in ids : cc.nodes[i].name \in DOMAIN cnf.signals
  BY <1>13
<1> HIDE DEF n, ids
<1>18. CnfOK(cnf)
  BY <1>12, <1>13, <1>15, <1>16 DEF CnfOK
<1> QED BY <1>17, <1>18 DEF cnf, ids

\* The inputs of a gate that does not depend on n are not n: a gate that reads n is
\* in its fan-out cone, for links are on both sides.
LEMMA CandidatesAreOthers ==
  ASSUME LexerOK(lexer), NEW n \in DOMAIN nodes
  PROVE  CandInputs(n) \subseteq DOMAIN nodes \ {n} /\ IsFiniteSet(CandInputs(n))
<1> DEFINE links == [x \in DOMAIN nodes |-> ToSet(nodes[x].outputs)]
<1>1. FanoutOf(n) = Reached(links, n) /\ \A m : FanoutOf(m) \subseteq DOMAIN nodes
  BY DEF FanoutOf, Reached
<1>2. ASSUME NEW i \in CandInputs(n)
      PROVE  i \in DOMAIN nodes \ {n}
  <2>1. PICK m \in DOMAIN nodes : m \notin FanoutOf(n) \cup {n} /\ i \in ToSet(nodes[m].inputs)
    BY <1>1 DEF CandInputs
  <2>2. i \in DOMAIN nodes
    <3>1. nodes[m].inputs \in Seq(DOMAIN nodes \ {m})
      BY DEF LexerOK, CircuitOK, NodesOK, NodeOK, nodes, c
    <3> QED BY <2>1, <3>1 DEF ToSet
  <2>3. SUFFICES ASSUME i = n PROVE FALSE
    BY <2>2
  <2>4. m \in links[n]
    <3>1. LinksMutual(nodes)
      BY DEF LexerOK, CircuitOK, NodesOK, nodes, c
    <3>2. m \in ToSet(nodes[n].outputs)
      BY <2>1, <2>3, <3>1 DEF LinksMutual
    <3> QED BY <3>2
  <2> HIDE DEF links
  <2>5. m \in Reached(links, n)
    BY <2>1, <2>4, ReachedStep
  <2> QED BY <1>1, <2>1, <2>5
<1>3. CandInputs(n) \in SUBSET DOMAIN nodes
  BY <1>2
<1> QED BY <1>2, <1>3, NodesFinite, FS_Subset

-----------------------------------------------------------------------------
\* The signals MakeSolver and getDC look up are there.
Named(cnf, S) == \A i \in S : nodes[i].name \in DOMAIN cnf.signals

Ends == ToSet(c.inputs) \cup ToSet(c.outputs)

CnfsOK ==
  /\ CnfOK(impl) /\ Named(impl, {seed} \cup Cands \cup Ends)
  /\ CnfOK(spec) /\ Named(spec, Ends)

\* The variables of a copy are a block of their own.
LEMMA VarsInBlock ==
  ASSUME NEW cnf, CnfOK(cnf), NEW at \in Nat, NEW S, Named(cnf, S), NEW ids \in Seq(S)
  PROVE  /\ Vars(cnf, at, ids) \in Seq(at .. at + numVars(cnf) - 1)
         /\ DOMAIN Vars(cnf, at, ids) = DOMAIN ids
         /\ numVars(cnf) \in Nat
<1>1. \A i \in S : GetIndex(cnf, nodes[i].name) \in 0 .. numVars(cnf) - 1
  BY DEF CnfOK, GetIndex, Named
<1>2. numVars(cnf) \in Nat
  BY DEF CnfOK
<1> DEFINE n == numVars(cnf)
           block == at .. at + n - 1
           var(i) == GetIndex(cnf, nodes[i].name) + at
<1>3. \A i \in S : var(i) \in block
  <2> SUFFICES ASSUME NEW i \in S PROVE var(i) \in block
    OBVIOUS
  <2>1. PICK g \in 0 .. n - 1 : g = GetIndex(cnf, nodes[i].name)
    BY <1>1
  <2>2. g + at \in block
    <3> HIDE DEF n
    <3>1. n \in Nat
      BY <1>2 DEF n
    <3> QED BY <3>1
  <2>3. var(i) = g + at
    BY <2>1
  <2> HIDE DEF var, block
  <2> QED BY <2>2, <2>3
<1>4. Vars(cnf, at, ids) = [k \in DOMAIN ids |-> var(ids[k])]
  BY DEF Vars
<1>5. DOMAIN ids = 1 .. Len(ids) /\ Len(ids) \in Nat /\ \A k \in DOMAIN ids : ids[k] \in S
  OBVIOUS
<1>6. \A k \in DOMAIN ids : var(ids[k]) \in block
  BY <1>3, <1>5
<1> HIDE DEF var, block
<1>7. [k \in DOMAIN ids |-> var(ids[k])] \in Seq(block)
  BY <1>5, <1>6
<1> QED BY <1>2, <1>4, <1>7 DEF block

\* The variable of one node.
LEMMA VarInBlock ==
  ASSUME NEW cnf, CnfOK(cnf), NEW at \in Nat, NEW i, Named(cnf, {i})
  PROVE  /\ Vars(cnf, at, <<i>>)[1] \in at .. at + numVars(cnf) - 1
         /\ numVars(cnf) \in Nat
<1>1. <<i>> \in Seq({i}) /\ 1 \in DOMAIN <<i>>
  OBVIOUS
<1>2. /\ Vars(cnf, at, <<i>>) \in Seq(at .. at + numVars(cnf) - 1)
      /\ DOMAIN Vars(cnf, at, <<i>>) = DOMAIN <<i>> /\ numVars(cnf) \in Nat
  <2> DEFINE ids == <<i>>
             S == {i}
  <2>1. ids \in Seq(S) /\ Named(cnf, S)
    BY <1>1
  <2> HIDE DEF ids, S
  <2>2. /\ Vars(cnf, at, ids) \in Seq(at .. at + numVars(cnf) - 1)
        /\ DOMAIN Vars(cnf, at, ids) = DOMAIN ids /\ numVars(cnf) \in Nat
    BY <2>1, VarsInBlock
  <2> QED BY <2>2 DEF ids
<1> DEFINE vs == Vars(cnf, at, <<i>>)
<1> HIDE DEF vs
<1> QED BY <1>1, <1>2 DEF vs

\* The variables of the six copies.
Total == numVars(impl) * 4 + numVars(spec) * 2

\* The six copies of AddCopies take six ranges of variables one after the other.
LEMMA Blocks ==
  ASSUME CnfOK(impl), CnfOK(spec)
  PROVE  /\ Total \in Nat
         /\ \A k \in 0 .. 3 : ImplAt(k) \in Nat /\ ImplAt(k) + numVars(impl) <= SpecAt(0)
         /\ \A k \in 0 .. 1 : SpecAt(k) \in Nat /\ SpecAt(k) + numVars(spec) <= Total
         /\ SpecAt(0) <= Total
<1>1. PICK a \in Nat : a = numVars(impl)
  BY DEF CnfOK
<1>2. PICK b \in Nat : b = numVars(spec)
  BY DEF CnfOK
<1>3. \A k \in 0 .. 3 : ImplAt(k) \in Nat /\ ImplAt(k) + a <= a * 4
  <2> SUFFICES ASSUME NEW k \in 0 .. 3 PROVE ImplAt(k) \in Nat /\ ImplAt(k) + a <= a * 4
    OBVIOUS
  <2>1. k = 0 \/ k = 1 \/ k = 2 \/ k = 3
    OBVIOUS
  <2> QED BY <1>1, <2>1 DEF ImplAt
<1>4. SpecAt(0) = a * 4 /\ SpecAt(1) = a * 4 + b
  BY <1>1, <1>2 DEF SpecAt
<1>5. Total = a * 4 + b * 2
  BY <1>1, <1>2 DEF Total
<1> QED BY <1>1, <1>2, <1>3, <1>4, <1>5

\* Before the first seed is taken.
Before == pc \in {"lex", "order", "sort", "sorted"}

\* What the searches start from.
SeedInv ==
  /\ file \in Files /\ pos \in 0 .. Len(file.text)
  /\ pc = "lex" => order = <<>> /\ all_nodes = <<>> /\ visited = 0
  /\ pc = "order" => \A i \in DOMAIN nodes : order[i] <= MaxOrder + visited
  /\ pc # "lex" => /\ visited \in 0 .. Len(nodes)
                   /\ \A i \in DOMAIN nodes : order[i] <= MaxOrder + Len(nodes)
  /\ Before => seed = 0 /\ cand_inputs = <<>>
  /\ ~Before => seed \in DOMAIN nodes /\ cand_inputs \in Seq(DOMAIN nodes \ {seed})
  /\ ~Before /\ pc # "aborted" => CnfsOK

SwitchesOK ==
  /\ switches \in [en_in0 : Nat, en_in1 : Nat, eq_trigger : Seq(Nat)]
  /\ Len(switches.eq_trigger) <= Len(cand_inputs)

\* The search's solver, switches and cases.
SolverInv ==
  /\ pc \in {"lex", "order", "sort", "sorted", "aborted", "copies", "inputs", "outputs",
             "switches", "triggers", "ask", "onset"}
  /\ SolverOK(glu)
  /\ pc \in {"triggers", "ask", "onset"} => SwitchesOK
  /\ UNION (in0cases \cup in1cases) \subseteq Cands

FrontInv == OrderInv /\ SeedInv /\ SolverInv

\* Nothing has been read yet.
LEMMA InitFrontInv == FrontEndInit => FrontInv
<1> SUFFICES ASSUME FrontEndInit PROVE FrontInv
  OBVIOUS
<1>1. OrderInv
  BY InitOrderInv
<1>2. SeedInv
  BY FilesAssumption DEF FrontEndInit, SeedInv, Before
<1>3. SolverOK(NewSolver)
  BY DEF SolverOK, NewSolver, LiteralsBelow
<1> QED BY <1>1, <1>2, <1>3 DEF FrontEndInit, SolverInv, FrontInv

\* What a step that leaves the seed and its CNFs alone keeps of them.
LEMMA SameCnfs ==
  ASSUME UNCHANGED <<readVars, seedVars>>
  PROVE  CnfsOK' <=> CnfsOK
BY DEF CnfsOK, CnfOK, Named, Ends, Cands, nodes, c, readVars, seedVars, numVars

\* A step of a search that leaves the circuit, the seed and its candidates alone.
LEMMA LaterSeedInv ==
  ASSUME SeedInv, UNCHANGED <<readVars, orderVars, seedVars>>,
         ~Before, ~Before', pc # "aborted"
  PROVE  SeedInv'
<1>1. CnfsOK'
  BY SameCnfs DEF SeedInv
<1> QED BY <1>1 DEF SeedInv, Before, readVars, orderVars, seedVars, nodes, c

\* A step before the searches chooses no seed.
LEMMA OrderSeedInv ==
  ASSUME OrderInv, SeedInv, ReadAndOrder
  PROVE  SeedInv'
<1>0. Before /\ Before' /\ UNCHANGED seedVars
  BY DEF ReadAndOrder, LexToken, EndOfFile, AssignStep, AssignAgain, AssignOrderReturns, SortByOrder,
         Before
<1>1. seed' = 0 /\ cand_inputs' = <<>>
  BY <1>0 DEF SeedInv, seedVars
<1>2. Len(nodes) \in Nat /\ DOMAIN nodes = 1 .. Len(nodes)
  BY NodesSequence DEF OrderInv
<1>3. file \in Files /\ Len(file.text) \in Nat /\ pos \in 0 .. Len(file.text)
  BY FilesAssumption DEF SeedInv
<1>4. CASE LexToken
  <2>1. pos' \in 0 .. Len(file'.text) /\ file' = file
    BY <1>3, <1>4 DEF LexToken
  <2> QED BY <1>0, <1>1, <1>3, <1>4, <2>1 DEF SeedInv, LexToken, orderVars
<1>5. CASE EndOfFile
  <2>1. pos' = pos /\ file' = file /\ nodes' = nodes /\ visited' = 0 /\ pc' = "order"
    BY <1>5 DEF EndOfFile, readVars, nodes, c, SeedInv
  <2>2. \A i \in DOMAIN nodes : order'[i] = 0
    BY <1>5 DEF EndOfFile
  <2> QED BY <1>0, <1>1, <1>2, <1>3, <2>1, <2>2, MaxOrderAssumption DEF SeedInv
<1>6. CASE AssignStep
  <2>1. /\ pos' = pos /\ file' = file /\ nodes' = nodes /\ visited' = visited + 1
        /\ pc = "order" /\ pc' = "order" /\ visited < Len(all_nodes)
        /\ order' = Raised(order, all_nodes[visited + 1])
    BY <1>6 DEF AssignStep, readVars, nodes, c
  <2>2. all_nodes = [i \in DOMAIN nodes |-> i] /\ order \in [DOMAIN nodes -> Nat]
        /\ visited \in 0 .. Len(nodes)
    BY <2>1 DEF OrderInv, PassInv
  <2>3. Len(all_nodes) = Len(nodes)
    BY <1>2, <2>2
  <2>4. visited + 1 \in DOMAIN nodes /\ order' = Raised(order, visited + 1)
    BY <1>2, <2>1, <2>2, <2>3
  <2>5. \A i \in DOMAIN nodes : order[i] <= MaxOrder + visited
    BY <2>1 DEF SeedInv
  <2>6. \A i \in DOMAIN nodes : order'[i] <= MaxOrder + visited'
    BY <2>1, <2>2, <2>4, <2>5, MaxOrderAssumption DEF Raised
  <2>7. \A i \in DOMAIN nodes : order'[i] \in Nat
    BY <2>2, <2>4 DEF Raised
  <2>8. visited' \in 0 .. Len(nodes)
    BY <1>2, <2>1, <2>4
  <2>9. \A i \in DOMAIN nodes : order'[i] <= MaxOrder + Len(nodes)
    BY <1>2, <2>6, <2>7, <2>8, MaxOrderAssumption
  <2> QED BY <1>0, <1>1, <1>3, <2>1, <2>6, <2>8, <2>9 DEF SeedInv
<1>7. CASE AssignAgain
  <2>1. /\ pos' = pos /\ file' = file /\ nodes' = nodes /\ visited' = 0 /\ order' = order
        /\ pc = "order" /\ pc' = "order"
        /\ \A i \in DOMAIN order : order[i] <= MaxOrder
    BY <1>7 DEF AssignAgain, readVars, nodes, c
  <2>2. order \in [DOMAIN nodes -> Nat]
    BY <2>1 DEF OrderInv
  <2>3. \A i \in DOMAIN nodes : order'[i] <= MaxOrder + visited'
    BY <2>1, <2>2, MaxOrderAssumption
  <2>4. \A i \in DOMAIN nodes : order'[i] <= MaxOrder + Len(nodes)
    BY <2>1 DEF SeedInv
  <2> QED BY <1>0, <1>1, <1>2, <1>3, <2>1, <2>3, <2>4 DEF SeedInv
<1>8. CASE AssignOrderReturns
  <2>1. /\ pos' = pos /\ file' = file /\ nodes' = nodes /\ visited' = visited /\ order' = order
        /\ pc = "order" /\ pc' = "sort"
    BY <1>8 DEF AssignOrderReturns, readVars, orderVars, nodes, c
  <2> QED BY <1>0, <1>1, <1>3, <2>1 DEF SeedInv
<1>9. CASE SortByOrder
  <2>1. /\ pos' = pos /\ file' = file /\ nodes' = nodes /\ visited' = visited /\ order' = order
        /\ pc = "sort" /\ pc' = "sorted"
    BY <1>9 DEF SortByOrder, readVars, nodes, c
  <2> QED BY <1>0, <1>1, <1>3, <2>1 DEF SeedInv
<1> QED BY <1>4, <1>5, <1>6, <1>7, <1>8, <1>9 DEF ReadAndOrder

\* The first seed, its candidates and the two CNFs.
LEMMA StartSeedInv ==
  ASSUME OrderInv, SeedInv, StartSearch
  PROVE  SeedInv'
<1>1. /\ file' = file /\ pos' = pos /\ lexer' = lexer /\ nodes' = nodes /\ c' = c /\ UNCHANGED orderVars
      /\ pc = "sorted" /\ pc' \in {"copies", "aborted"}
  BY DEF StartSearch, readVars, nodes, c
<1>2. PICK n \in DOMAIN nodes : seed' = n /\ cand_inputs' = SetToSeq(CandInputs(n))
  BY DEF StartSearch
<1>3. LexerOK(lexer) /\ CircuitOK(c) /\ c.nodes = nodes
  BY DEF OrderInv, LexerOK, c, nodes
<1>4. cand_inputs' \in Seq(DOMAIN nodes \ {n}) /\ cand_inputs' \in Seq(DOMAIN nodes)
  <2> DEFINE S == CandInputs(n)
  <2>1. S \subseteq DOMAIN nodes \ {n} /\ IsFiniteSet(S)
    BY <1>3, CandidatesAreOthers
  <2> HIDE DEF S
  <2>2. SetToSeq(S) \in Seq(S)
    BY <2>1, ListedSet
  <2>3. SetToSeq(S) \in Seq(DOMAIN nodes \ {n})
    BY <2>1, <2>2, LargerRange
  <2>4. SetToSeq(S) \in Seq(DOMAIN nodes)
    BY <2>1, <2>2, LargerRange
  <2> QED BY <1>2, <2>3, <2>4 DEF S
<1>5. all_nodes \in Seq(DOMAIN nodes)
  <2>1. all_nodes \in [DOMAIN nodes -> DOMAIN nodes]
    BY <1>1 DEF OrderInv
  <2>2. Len(nodes) \in Nat /\ DOMAIN nodes = 1 .. Len(nodes)
    BY <1>3, NodesSequence
  <2> DEFINE D == DOMAIN nodes
  <2>3. all_nodes \in [1 .. Len(nodes) -> D]
    BY <2>1, <2>2
  <2> HIDE DEF D
  <2>4. all_nodes \in Seq(D)
    BY <2>2, <2>3
  <2> QED BY <2>4 DEF D
<1>6. pc' # "aborted" => CnfsOK'
  <2> SUFFICES ASSUME pc' # "aborted" PROVE CnfsOK'
    OBVIOUS
  <2>1. impl' = Cnf(c, all_nodes, {n}, cand_inputs') /\ spec' = Cnf(c, all_nodes, {}, <<>>)
    BY <1>2 DEF StartSearch
  <2> DEFINE cc == c
             listed == all_nodes
             cands == cand_inputs'
             cut == {n}
             none == {}
             empty == <<>>
  <2>2. /\ CircuitOK(cc) /\ listed \in Seq(DOMAIN cc.nodes) /\ cands \in Seq(DOMAIN cc.nodes)
        /\ cut \in SUBSET DOMAIN cc.nodes /\ none \in SUBSET DOMAIN cc.nodes
        /\ empty \in Seq(DOMAIN cc.nodes)
    BY <1>3, <1>4, <1>5
  <2>3. /\ impl' = Cnf(cc, listed, cut, cands)
        /\ spec' = Cnf(cc, listed, none, empty)
    BY <2>1
  <2> HIDE DEF cc, listed, cands, cut, none, empty
  <2>4. /\ CnfOK(Cnf(cc, listed, cut, cands))
        /\ \A i \in ToSet(cc.inputs) \cup ToSet(cc.outputs) \cup cut \cup ToSet(cands) :
             cc.nodes[i].name \in DOMAIN Cnf(cc, listed, cut, cands).signals
    BY <2>2, CnfWellFormed
  <2>5. /\ CnfOK(Cnf(cc, listed, none, empty))
        /\ \A i \in ToSet(cc.inputs) \cup ToSet(cc.outputs) \cup none \cup ToSet(empty) :
             cc.nodes[i].name \in DOMAIN Cnf(cc, listed, none, empty).signals
    BY <2>2, CnfWellFormed
  <2>6. CnfOK(impl') /\ CnfOK(spec')
    BY <2>3, <2>4, <2>5
  <2>7. /\ \A i \in ToSet(cc.inputs) \cup ToSet(cc.outputs) \cup cut \cup ToSet(cands) :
             cc.nodes[i].name \in DOMAIN impl'.signals
        /\ \A i \in ToSet(cc.inputs) \cup ToSet(cc.outputs) : cc.nodes[i].name \in DOMAIN spec'.signals
    BY <2>3, <2>4, <2>5
  <2>8. nodes' = cc.nodes /\ c' = cc /\ seed' = n /\ Cands' = ToSet(cands)
    BY <1>1, <1>2, <1>3 DEF cc, cands, Cands
  <2>9. Named(impl, {seed} \cup Cands \cup Ends)' /\ Named(spec, Ends)'
    BY <2>7, <2>8 DEF Named, Ends, cut
  <2> QED BY <2>6, <2>9 DEF CnfsOK
<1> QED BY <1>1, <1>2, <1>4, <1>6 DEF SeedInv, Before, orderVars

\* What a later state needs of an earlier one.
SearchOK == CnfsOK /\ seed \in DOMAIN nodes /\ cand_inputs \in Seq(DOMAIN nodes \ {seed})
            /\ c.inputs \in Seq(DOMAIN nodes) /\ c.outputs \in Seq(DOMAIN nodes)

\* Within a search the network is read, the seed is a node and the copies are well formed.
LEMMA InSearch ==
  ASSUME OrderInv, SeedInv, ~Before, pc # "aborted"
  PROVE  SearchOK
BY DEF OrderInv, LexerOK, CircuitOK, SeedInv, SearchOK, nodes, c

\* A block of variables that ends before t lies below t.
LEMMA Interval ==
  ASSUME NEW a \in Nat, NEW n \in Nat, NEW t \in Nat, a + n <= t
  PROVE  a .. a + n - 1 \subseteq 0 .. t - 1
OBVIOUS

\* The elements of two sequences.
LEMMA PairElements ==
  ASSUME NEW S, NEW s \in Seq(S), NEW t \in Seq(S), DOMAIN t = DOMAIN s
  PROVE  \A i \in DOMAIN s : s[i] \in S /\ t[i] \in S
OBVIOUS

\* A sequence is one over its elements.
LEMMA OwnElements ==
  ASSUME NEW S, NEW s \in Seq(S)
  PROVE  s \in Seq(ToSet(s))
BY DEF ToSet

\* The variables of the inputs and outputs in any copy, of the seed and of each
\* candidate in any copy of impl.
LEMMA EndsInBlocks ==
  ASSUME SearchOK
  PROVE  /\ \A k \in 0 .. 3 : /\ Vars(impl, ImplAt(k), c.inputs) \in Seq(0 .. Total - 1)
                              /\ DOMAIN Vars(impl, ImplAt(k), c.inputs) = DOMAIN c.inputs
                              /\ Vars(impl, ImplAt(k), c.outputs) \in Seq(0 .. Total - 1)
                              /\ DOMAIN Vars(impl, ImplAt(k), c.outputs) = DOMAIN c.outputs
                              /\ \A i \in {seed} \cup Cands :
                                   Vars(impl, ImplAt(k), <<i>>)[1] \in 0 .. Total - 1
         /\ \A k \in 0 .. 1 : /\ Vars(spec, SpecAt(k), c.inputs) \in Seq(0 .. Total - 1)
                              /\ DOMAIN Vars(spec, SpecAt(k), c.inputs) = DOMAIN c.inputs
                              /\ Vars(spec, SpecAt(k), c.outputs) \in Seq(0 .. Total - 1)
                              /\ DOMAIN Vars(spec, SpecAt(k), c.outputs) = DOMAIN c.outputs
<1> DEFINE I == ToSet(c.inputs)
           O == ToSet(c.outputs)
<1>1. /\ CnfOK(impl) /\ CnfOK(spec) /\ Total \in Nat
      /\ \A k \in 0 .. 3 : ImplAt(k) \in Nat /\ ImplAt(k) + numVars(impl) <= Total
      /\ \A k \in 0 .. 1 : SpecAt(k) \in Nat /\ SpecAt(k) + numVars(spec) <= Total
      /\ numVars(impl) \in Nat /\ numVars(spec) \in Nat
  <2>1. CnfOK(impl) /\ CnfOK(spec) /\ numVars(impl) \in Nat /\ numVars(spec) \in Nat
    BY DEF SearchOK, CnfsOK, CnfOK
  <2>2. /\ Total \in Nat /\ SpecAt(0) <= Total /\ SpecAt(0) \in Nat
        /\ \A k \in 0 .. 3 : ImplAt(k) \in Nat /\ ImplAt(k) + numVars(impl) <= SpecAt(0)
        /\ \A k \in 0 .. 1 : SpecAt(k) \in Nat /\ SpecAt(k) + numVars(spec) <= Total
    BY <2>1, Blocks
  <2> QED BY <2>1, <2>2
<1>2. /\ c.inputs \in Seq(I) /\ c.outputs \in Seq(O)
      /\ Named(impl, I) /\ Named(impl, O) /\ Named(spec, I) /\ Named(spec, O)
      /\ \A i \in {seed} \cup Cands : Named(impl, {i})
  <2>1. c.inputs \in Seq(I) /\ c.outputs \in Seq(O)
    BY OwnElements DEF SearchOK
  <2>2. Named(impl, {seed} \cup Cands \cup Ends) /\ Named(spec, Ends) /\ I \subseteq Ends /\ O \subseteq Ends
    BY DEF SearchOK, CnfsOK, Ends
  <2> HIDE DEF I, O
  <2> QED BY <2>1, <2>2 DEF Named
<1> HIDE DEF I, O
<1>3. ASSUME NEW cnf, CnfOK(cnf), NEW at \in Nat, numVars(cnf) \in Nat, at + numVars(cnf) <= Total,
             NEW S, Named(cnf, S), NEW ids \in Seq(S)
      PROVE  Vars(cnf, at, ids) \in Seq(0 .. Total - 1) /\ DOMAIN Vars(cnf, at, ids) = DOMAIN ids
  <2> DEFINE block == at .. at + numVars(cnf) - 1
             all == 0 .. Total - 1
  <2>1. Vars(cnf, at, ids) \in Seq(block) /\ DOMAIN Vars(cnf, at, ids) = DOMAIN ids
    BY <1>3, VarsInBlock
  <2>2. block \subseteq all
    BY <1>1, <1>3, Interval
  <2> HIDE DEF block, all
  <2>3. Vars(cnf, at, ids) \in Seq(all)
    BY <2>1, <2>2, LargerRange
  <2> QED BY <2>1, <2>3 DEF all
<1>4. ASSUME NEW k \in 0 .. 3, NEW i \in {seed} \cup Cands
      PROVE  Vars(impl, ImplAt(k), <<i>>)[1] \in 0 .. Total - 1
  <2>1. Vars(impl, ImplAt(k), <<i>>)[1] \in ImplAt(k) .. ImplAt(k) + numVars(impl) - 1
    BY <1>1, <1>2, VarInBlock
  <2> QED BY <1>1, <2>1
<1>5. ASSUME NEW k \in 0 .. 3
      PROVE  /\ Vars(impl, ImplAt(k), c.inputs) \in Seq(0 .. Total - 1)
             /\ DOMAIN Vars(impl, ImplAt(k), c.inputs) = DOMAIN c.inputs
             /\ Vars(impl, ImplAt(k), c.outputs) \in Seq(0 .. Total - 1)
             /\ DOMAIN Vars(impl, ImplAt(k), c.outputs) = DOMAIN c.outputs
  <2> DEFINE at == ImplAt(k)
  <2>1. at \in Nat /\ at + numVars(impl) <= Total
    BY <1>1
  <2> HIDE DEF at
  <2>2. \A S : Named(impl, S) => \A ids \in Seq(S) :
          Vars(impl, at, ids) \in Seq(0 .. Total - 1) /\ DOMAIN Vars(impl, at, ids) = DOMAIN ids
    BY <1>1, <1>3, <2>1
  <2> QED BY <1>2, <2>2 DEF at
<1>6. ASSUME NEW k \in 0 .. 1
      PROVE  /\ Vars(spec, SpecAt(k), c.inputs) \in Seq(0 .. Total - 1)
             /\ DOMAIN Vars(spec, SpecAt(k), c.inputs) = DOMAIN c.inputs
             /\ Vars(spec, SpecAt(k), c.outputs) \in Seq(0 .. Total - 1)
             /\ DOMAIN Vars(spec, SpecAt(k), c.outputs) = DOMAIN c.outputs
  <2> DEFINE at == SpecAt(k)
  <2>1. at \in Nat /\ at + numVars(spec) <= Total
    BY <1>1
  <2> HIDE DEF at
  <2>2. \A S : Named(spec, S) => \A ids \in Seq(S) :
          Vars(spec, at, ids) \in Seq(0 .. Total - 1) /\ DOMAIN Vars(spec, at, ids) = DOMAIN ids
    BY <1>1, <1>3, <2>1
  <2> QED BY <1>2, <2>2 DEF at
<1> QED BY <1>4, <1>5, <1>6

-----------------------------------------------------------------------------
\* Clauses over variables below a bound, taken together.
LEMMA BothBelow ==
  ASSUME NEW A, NEW B, NEW bound, LiteralsBelow(A, bound), LiteralsBelow(B, bound)
  PROVE  LiteralsBelow(A \cup B, bound)
BY DEF LiteralsBelow

\* The copies of the two circuits and the four unit clauses on the seed.
LEMMA CopiesBelow ==
  ASSUME SearchOK
  PROVE  LiteralsBelow((UNION {CopyClauses(impl, ImplAt(k)) : k \in 0 .. 3})
                 \cup (UNION {CopyClauses(spec, SpecAt(k)) : k \in 0 .. 1})
                 \cup {{Lit(Vars(impl, ImplAt(k), <<seed>>)[1], k % 2 # 0)} : k \in 0 .. 3}, Total)
<1>1. /\ CnfOK(impl) /\ CnfOK(spec) /\ Total \in Nat
      /\ \A k \in 0 .. 3 : ImplAt(k) \in Nat /\ ImplAt(k) + numVars(impl) <= Total
      /\ \A k \in 0 .. 1 : SpecAt(k) \in Nat /\ SpecAt(k) + numVars(spec) <= Total
  <2>1. CnfOK(impl) /\ CnfOK(spec) /\ numVars(impl) \in Nat
    BY DEF SearchOK, CnfsOK, CnfOK
  <2>2. /\ Total \in Nat /\ SpecAt(0) <= Total /\ SpecAt(0) \in Nat
        /\ \A k \in 0 .. 3 : ImplAt(k) \in Nat /\ ImplAt(k) + numVars(impl) <= SpecAt(0)
        /\ \A k \in 0 .. 1 : SpecAt(k) \in Nat /\ SpecAt(k) + numVars(spec) <= Total
    BY <2>1, Blocks
  <2> QED BY <2>1, <2>2
<1>2. ASSUME NEW k \in 0 .. 3 PROVE LiteralsBelow(CopyClauses(impl, ImplAt(k)), Total)
  BY <1>1, CopyLiterals DEF CnfOK
<1>3. ASSUME NEW k \in 0 .. 1 PROVE LiteralsBelow(CopyClauses(spec, SpecAt(k)), Total)
  BY <1>1, CopyLiterals DEF CnfOK
<1>4. ASSUME NEW k \in 0 .. 3
      PROVE  Lit(Vars(impl, ImplAt(k), <<seed>>)[1], k % 2 # 0) \in (0 .. Total - 1) \X BOOLEAN
  <2>1. Vars(impl, ImplAt(k), <<seed>>)[1] \in 0 .. Total - 1
    BY EndsInBlocks
  <2>2. PICK b \in BOOLEAN : b = (k % 2 # 0)
    OBVIOUS
  <2>3. Lit(Vars(impl, ImplAt(k), <<seed>>)[1], b) \in (0 .. Total - 1) \X BOOLEAN
    BY <1>1, <2>1, LitBelow
  <2> QED BY <2>2, <2>3, Zenon
<1>5. \A l \in UNION {{Lit(Vars(impl, ImplAt(k), <<seed>>)[1], k % 2 # 0)} : k \in 0 .. 3} :
        l \in (0 .. Total - 1) \X BOOLEAN
  BY <1>4, Zenon
<1>6. /\ \A l \in UNION UNION {CopyClauses(impl, ImplAt(k)) : k \in 0 .. 3} : l \in (0 .. Total - 1) \X BOOLEAN
      /\ \A l \in UNION UNION {CopyClauses(spec, SpecAt(k)) : k \in 0 .. 1} : l \in (0 .. Total - 1) \X BOOLEAN
  BY <1>2, <1>3, Zenon DEF LiteralsBelow
<1> DEFINE A == UNION {CopyClauses(impl, ImplAt(k)) : k \in 0 .. 3}
           B == UNION {CopyClauses(spec, SpecAt(k)) : k \in 0 .. 1}
           C == {{Lit(Vars(impl, ImplAt(k), <<seed>>)[1], k % 2 # 0)} : k \in 0 .. 3}
<1> HIDE DEF A, B, C
<1>7. LiteralsBelow(A, Total) /\ LiteralsBelow(B, Total) /\ LiteralsBelow(C, Total)
  <2>1. /\ \A l \in UNION A : l \in (0 .. Total - 1) \X BOOLEAN
        /\ \A l \in UNION B : l \in (0 .. Total - 1) \X BOOLEAN
        /\ \A l \in UNION C : l \in (0 .. Total - 1) \X BOOLEAN
    BY <1>5, <1>6, Zenon DEF A, B, C
  <2> QED BY <2>1, Zenon DEF LiteralsBelow
<1>8. LiteralsBelow(A \cup B \cup C, Total)
  BY <1>7, BothBelow
<1> QED BY <1>8 DEF A, B, C

\* The equalities between the inputs of the copies.
LEMMA InputTiesBelow ==
  ASSUME SearchOK
  PROVE  LiteralsBelow(UNION {TieClauses(Vars(impl, ImplAt(k), c.inputs),
                                         Vars(spec, SpecAt(k \div 2), c.inputs)) : k \in 0 .. 3}, Total)
<1>1. Total \in Nat
  BY Blocks DEF SearchOK, CnfsOK
<1>2. ASSUME NEW k \in 0 .. 3
      PROVE  LiteralsBelow(TieClauses(Vars(impl, ImplAt(k), c.inputs),
                                      Vars(spec, SpecAt(k \div 2), c.inputs)), Total)
  <2>1. PICK j \in 0 .. 1 : j = k \div 2
    OBVIOUS
  <2> DEFINE vs == Vars(impl, ImplAt(k), c.inputs)
             ws == Vars(spec, SpecAt(j), c.inputs)
  <2>2. vs \in Seq(0 .. Total - 1) /\ ws \in Seq(0 .. Total - 1) /\ DOMAIN ws = DOMAIN vs
    BY EndsInBlocks
  <2> HIDE DEF vs, ws
  <2>3. LiteralsBelow(TieClauses(vs, ws), Total)
    <3>1. \A i \in DOMAIN vs : vs[i] \in 0 .. Total - 1 /\ ws[i] \in 0 .. Total - 1
      <4> DEFINE S == 0 .. Total - 1
      <4>1. vs \in Seq(S) /\ ws \in Seq(S) /\ DOMAIN ws = DOMAIN vs
        BY <2>2
      <4> HIDE DEF S
      <4>2. \A i \in DOMAIN vs : vs[i] \in S /\ ws[i] \in S
        BY <4>1, PairElements
      <4> QED BY <4>2 DEF S
    <3> QED BY <1>1, <3>1, TieLiterals
  <2> QED BY <2>1, <2>3 DEF vs, ws
<1> QED BY <1>2, Zenon DEF LiteralsBelow

\* setEqual and setNEqual of variables below a bound.
LEMMA EqualKeepsOK ==
  ASSUME NEW s, SolverOK(s), NEW bound \in Nat,
         NEW vs \in Seq(0 .. bound - 1), NEW ws \in Seq(0 .. bound - 1), DOMAIN ws = DOMAIN vs
  PROVE  SolverOK(setEqual(s, vs, ws)) /\ setEqual(s, vs, ws).nVars >= s.nVars
<1>1. \A i \in DOMAIN vs : vs[i] \in 0 .. bound - 1 /\ ws[i] \in 0 .. bound - 1
  OBVIOUS
<1>2. LiteralsBelow(TieClauses(vs, ws), bound)
  BY <1>1, TieLiterals
<1> QED BY <1>2, AddedLiterals DEF setEqual

\* setNEqual on a well-formed solver.
LEMMA DifferKeepsOK ==
  ASSUME NEW s, SolverOK(s), NEW bound \in Nat,
         NEW vs \in Seq(0 .. bound - 1), NEW ws \in Seq(0 .. bound - 1), DOMAIN ws = DOMAIN vs
  PROVE  SolverOK(setNEqual(s, vs, ws)) /\ setNEqual(s, vs, ws).nVars >= s.nVars
<1>1. s.nVars \in Nat /\ Len(vs) \in Nat /\ DOMAIN vs = 1 .. Len(vs)
  BY DEF SolverOK
<1> DEFINE big == bound + s.nVars + Len(vs)
<1>2. big \in Nat /\ s.nVars + Len(vs) <= big
  BY <1>1
<1>3. \A i \in DOMAIN vs : vs[i] \in 0 .. big - 1 /\ ws[i] \in 0 .. big - 1
  <2> SUFFICES ASSUME NEW i \in DOMAIN vs PROVE vs[i] \in 0 .. big - 1 /\ ws[i] \in 0 .. big - 1
    OBVIOUS
  <2>1. vs[i] \in 0 .. bound - 1 /\ ws[i] \in 0 .. bound - 1
    <3> DEFINE T == 0 .. bound - 1
    <3>1. vs \in Seq(T) /\ ws \in Seq(T) /\ i \in DOMAIN vs /\ i \in DOMAIN ws
      OBVIOUS
    <3> HIDE DEF T, big
    <3>2. vs[i] \in T /\ ws[i] \in T
      BY <3>1
    <3> QED BY <3>2 DEF T
  <2>2. 0 .. bound - 1 \subseteq 0 .. big - 1
    BY <1>1
  <2> HIDE DEF big
  <2> QED BY <2>1, <2>2
<1> HIDE DEF big
<1>4. LiteralsBelow(DifferClauses(s.nVars, vs, ws), big)
  BY <1>1, <1>2, <1>3, DifferLiterals
<1> QED BY <1>2, <1>4, AddedLiterals DEF setNEqual

\* The pattern clauses are of candidates and switches.
LEMMA RemovalsBelow ==
  ASSUME SearchOK, NEW sw, sw.en_in0 \in Nat, sw.en_in1 \in Nat, NEW in0, NEW in1,
         NEW bound \in Nat, Total <= bound, sw.en_in0 < bound, sw.en_in1 < bound
  PROVE  LiteralsBelow(Removals(sw, in0, in1), bound)
<1> SUFFICES ASSUME NEW cl \in Removals(sw, in0, in1), NEW l \in cl
             PROVE  l \in (0 .. bound - 1) \X BOOLEAN
  BY DEF LiteralsBelow
<1>1. ASSUME NEW k \in 0 .. 3, NEW i \in Cands
      PROVE  Vars(impl, ImplAt(k), <<i>>)[1] \in 0 .. bound - 1
  <2>1. Vars(impl, ImplAt(k), <<i>>)[1] \in 0 .. Total - 1 /\ Total \in Nat
    BY EndsInBlocks, Blocks DEF SearchOK, CnfsOK
  <2> QED BY <2>1
<1>2. ImplAt(0) = 0
  <2>1. numVars(impl) \in Nat
    BY DEF SearchOK, CnfsOK, CnfOK
  <2> QED BY <2>1 DEF ImplAt
<1>3. ASSUME NEW en \in 0 .. bound - 1, NEW k \in {0, 2}, NEW p,
             l \in Excluding(impl, ImplAt(k), Cands, p) \cup {Lit(en, TRUE) : i \in Cands}
      PROVE  l \in (0 .. bound - 1) \X BOOLEAN
  <2>1. CASE l \in Excluding(impl, ImplAt(k), Cands, p)
    <3>1. PICK i \in Cands : l = Lit(Vars(impl, ImplAt(k), <<i>>)[1], i \notin p)
      BY <2>1 DEF Excluding
    <3>2. PICK b \in BOOLEAN : b = (i \notin p)
      OBVIOUS
    <3>3. Lit(Vars(impl, ImplAt(k), <<i>>)[1], b) \in (0 .. bound - 1) \X BOOLEAN
      BY <1>1, LitBelow
    <3> QED BY <3>1, <3>2, <3>3, Zenon
  <2>2. CASE l \in {Lit(en, TRUE) : i \in Cands}
    BY <2>2, LitBelow
  <2> QED BY <1>3, <2>1, <2>2
<1>4. \/ \E p : cl = Excluding(impl, ImplAt(0), Cands, p) \cup {Lit(sw.en_in0, TRUE) : i \in Cands}
      \/ \E p : cl = Excluding(impl, ImplAt(2), Cands, p) \cup {Lit(sw.en_in1, TRUE) : i \in Cands}
  BY <1>2, Zenon DEF Removals
<1>5. sw.en_in0 \in 0 .. bound - 1 /\ sw.en_in1 \in 0 .. bound - 1
  OBVIOUS
<1> QED BY <1>3, <1>4, <1>5

\* The solver of a new search has the copies and nothing else.
LEMMA CopiesSolver ==
  ASSUME OrderInv, SeedInv, SolverInv, AddCopies
  PROVE  SolverInv'
<1>1. /\ SearchOK /\ SolverOK(glu) /\ Total \in Nat
      /\ pc' = "inputs" /\ Cands' = Cands /\ in0cases' = in0cases /\ in1cases' = in1cases
  <2>1. SearchOK
    BY InSearch DEF AddCopies, Before
  <2>2. Total \in Nat
    BY <2>1, Blocks DEF SearchOK, CnfsOK
  <2> QED BY <2>1, <2>2 DEF AddCopies, SolverInv, seedVars, Cands
<1> DEFINE cls == (UNION {CopyClauses(impl, ImplAt(k)) : k \in 0 .. 3})
                    \cup (UNION {CopyClauses(spec, SpecAt(k)) : k \in 0 .. 1})
                    \cup {{Lit(Vars(impl, ImplAt(k), <<seed>>)[1], k % 2 # 0)} : k \in 0 .. 3}
<1>2. glu' = AddClauses(glu, cls)
  BY DEF AddCopies
<1>3. LiteralsBelow(cls, Total)
  BY <1>1, CopiesBelow
<1> HIDE DEF cls
<1>4. SolverOK(glu')
  BY <1>1, <1>2, <1>3, AddedLiterals
<1> QED BY <1>1, <1>4 DEF SolverInv

\* Tying the inputs.
LEMMA InputsSolver ==
  ASSUME OrderInv, SeedInv, SolverInv, TieInputs
  PROVE  SolverInv'
<1>1. /\ SearchOK /\ SolverOK(glu) /\ Total \in Nat
      /\ pc' = "outputs" /\ Cands' = Cands /\ in0cases' = in0cases /\ in1cases' = in1cases
  <2>1. SearchOK
    BY InSearch DEF TieInputs, Before
  <2>2. Total \in Nat
    BY <2>1, Blocks DEF SearchOK, CnfsOK
  <2> QED BY <2>1, <2>2 DEF TieInputs, SolverInv, seedVars, Cands
<1> DEFINE cls == UNION {TieClauses(Vars(impl, ImplAt(k), c.inputs),
                                    Vars(spec, SpecAt(k \div 2), c.inputs)) : k \in 0 .. 3}
<1>2. glu' = AddClauses(glu, cls)
  BY DEF TieInputs
<1>3. LiteralsBelow(cls, Total)
  BY <1>1, InputTiesBelow
<1> HIDE DEF cls
<1>4. SolverOK(glu')
  BY <1>1, <1>2, <1>3, AddedLiterals
<1> QED BY <1>1, <1>4 DEF SolverInv

\* Tying the outputs makes the variables of setNEqual.
LEMMA OutputsSolver ==
  ASSUME OrderInv, SeedInv, SolverInv, TieOutputs
  PROVE  SolverInv'
<1>1. /\ SearchOK /\ SolverOK(glu) /\ Total \in Nat
      /\ pc' = "switches" /\ Cands' = Cands /\ in0cases' = in0cases /\ in1cases' = in1cases
  <2>1. SearchOK
    BY InSearch DEF TieOutputs, Before
  <2>2. Total \in Nat
    BY <2>1, Blocks DEF SearchOK, CnfsOK
  <2> QED BY <2>1, <2>2 DEF TieOutputs, SolverInv, seedVars, Cands
<1> DEFINE i(k) == Vars(impl, ImplAt(k), c.outputs)
           s(k) == Vars(spec, SpecAt(k), c.outputs)
           one == setEqual(glu, i(0), s(0))
           equal == setEqual(one, i(3), s(1))
           three == setNEqual(equal, i(1), s(0))
<1>2. glu' = setNEqual(three, i(2), s(1))
  BY DEF TieOutputs
<1>3. /\ \A k \in 0 .. 3 : i(k) \in Seq(0 .. Total - 1) /\ DOMAIN i(k) = DOMAIN c.outputs
      /\ \A k \in 0 .. 1 : s(k) \in Seq(0 .. Total - 1) /\ DOMAIN s(k) = DOMAIN c.outputs
  BY <1>1, EndsInBlocks
<1> HIDE DEF i, s
<1>4. SolverOK(one)
  BY <1>1, <1>3, EqualKeepsOK
<1> HIDE DEF one
<1>5. SolverOK(equal)
  BY <1>1, <1>3, <1>4, EqualKeepsOK
<1> HIDE DEF equal
<1>6. SolverOK(three)
  BY <1>1, <1>3, <1>5, DifferKeepsOK
<1> HIDE DEF three
<1>7. SolverOK(glu')
  BY <1>1, <1>2, <1>3, <1>6, DifferKeepsOK
<1> QED BY <1>1, <1>7 DEF SolverInv

\* The switches are the next two variables.
LEMMA SwitchesSolver ==
  ASSUME OrderInv, SeedInv, SolverInv, MakeSwitches
  PROVE  SolverInv'
<1>1. /\ SearchOK /\ SolverOK(glu) /\ glu.nVars \in Nat
      /\ pc' = "triggers" /\ Cands' = Cands /\ in0cases' = in0cases /\ in1cases' = in1cases
      /\ cand_inputs' = cand_inputs /\ Len(cand_inputs) \in Nat
  BY InSearch DEF MakeSwitches, SolverInv, seedVars, Cands, Before, SolverOK, SearchOK
<1>2. SwitchesOK'
  <2>1. switches' = [en_in0 |-> glu.nVars, en_in1 |-> glu.nVars + 1, eq_trigger |-> <<>>]
    BY DEF MakeSwitches
  <2> QED BY <1>1, <2>1 DEF SwitchesOK
<1>3. SolverOK(glu')
  <2>1. /\ DOMAIN glu' = {"nVars", "clauses"} /\ glu'.nVars = glu.nVars + 2
        /\ glu'.clauses = glu.clauses
    BY <1>1 DEF MakeSwitches, SolverOK
  <2>2. LiteralsBelow(glu.clauses, glu.nVars + 2)
    BY <1>1, LargerBound DEF SolverOK
  <2> QED BY <1>1, <2>1, <2>2 DEF SolverOK
<1> QED BY <1>1, <1>2, <1>3 DEF SolverInv

\* The candidate a trigger is made for.
LEMMA CandidatePair ==
  ASSUME SearchOK, NEW i \in Cands
  PROVE  /\ DOMAIN Vars(impl, 0, <<i>>) = {1} /\ DOMAIN Vars(impl, ImplAt(2), <<i>>) = {1}
         /\ Vars(impl, 0, <<i>>)[1] \in 0 .. Total - 1
         /\ Vars(impl, ImplAt(2), <<i>>)[1] \in 0 .. Total - 1
<1>1. ImplAt(0) = 0
  <2>1. numVars(impl) \in Nat
    BY DEF SearchOK, CnfsOK, CnfOK
  <2> QED BY <2>1 DEF ImplAt
<1>2. \A k \in 0 .. 3 : Vars(impl, ImplAt(k), <<i>>)[1] \in 0 .. Total - 1
  BY EndsInBlocks
<1>3. \A at : DOMAIN Vars(impl, at, <<i>>) = {1}
  BY DEF Vars
<1>4. 0 \in 0 .. 3 /\ 2 \in 0 .. 3
  OBVIOUS
<1> QED BY <1>1, <1>2, <1>3, <1>4

\* A trigger is the next variable, for the next candidate.
LEMMA TriggerSolver ==
  ASSUME OrderInv, SeedInv, SolverInv, AddTrigger
  PROVE  SolverInv'
<1>1. /\ SearchOK /\ SolverOK(glu) /\ glu.nVars \in Nat /\ SwitchesOK /\ Total \in Nat
      /\ pc' = "triggers" /\ Cands' = Cands /\ in0cases' = in0cases /\ in1cases' = in1cases
      /\ cand_inputs' = cand_inputs /\ Len(cand_inputs) \in Nat
  <2>1. SearchOK
    BY InSearch DEF AddTrigger, Before
  <2>2. Total \in Nat
    BY <2>1, Blocks DEF SearchOK, CnfsOK
  <2> QED BY <2>1, <2>2 DEF AddTrigger, SolverInv, seedVars, Cands, SolverOK, SearchOK
<1> DEFINE n == Len(switches.eq_trigger)
           i == cand_inputs[n + 1]
<1>2. n \in Nat /\ n < Len(cand_inputs) /\ i \in Cands
  <2>1. n \in Nat /\ n < Len(cand_inputs)
    BY <1>1 DEF AddTrigger, SwitchesOK
  <2>2. n + 1 \in DOMAIN cand_inputs
    BY <1>1, <2>1 DEF SearchOK
  <2> QED BY <2>1, <2>2 DEF Cands, ToSet
<1>3. /\ switches' = [switches EXCEPT !.eq_trigger = Append(@, glu.nVars)]
      /\ glu' = ifTrue_thenEQ(glu, Vars(impl, 0, <<i>>), Vars(impl, ImplAt(2), <<i>>), glu.nVars)
  BY DEF AddTrigger
<1>4. SwitchesOK'
  <2>1. switches \in [en_in0 : Nat, en_in1 : Nat, eq_trigger : Seq(Nat)]
    BY <1>1 DEF SwitchesOK
  <2>2. Append(switches.eq_trigger, glu.nVars) \in Seq(Nat)
        /\ Len(Append(switches.eq_trigger, glu.nVars)) = n + 1
    BY <1>1, <2>1
  <2>3. switches' \in [en_in0 : Nat, en_in1 : Nat, eq_trigger : Seq(Nat)]
        /\ switches'.eq_trigger = Append(switches.eq_trigger, glu.nVars)
    <3> DEFINE T == Seq(Nat)
    <3>1. switches \in [en_in0 : Nat, en_in1 : Nat, eq_trigger : T]
          /\ Append(switches.eq_trigger, glu.nVars) \in T
      BY <2>1, <2>2
    <3> HIDE DEF T
    <3>2. switches' \in [en_in0 : Nat, en_in1 : Nat, eq_trigger : T]
          /\ switches'.eq_trigger = Append(switches.eq_trigger, glu.nVars)
      BY <1>3, <3>1
    <3> QED BY <3>2 DEF T
  <2> QED BY <1>1, <1>2, <2>2, <2>3 DEF SwitchesOK
<1>5. SolverOK(glu')
  <2> DEFINE bound == Total + glu.nVars + 1
             vs == Vars(impl, 0, <<i>>)
             ws == Vars(impl, ImplAt(2), <<i>>)
             cls == UNION {EqualClauses({Lit(glu.nVars, FALSE)}, vs[k], ws[k]) : k \in DOMAIN vs}
  <2>1. DOMAIN vs = {1} /\ vs[1] \in 0 .. Total - 1 /\ ws[1] \in 0 .. Total - 1
    <3> HIDE DEF i
    <3> QED BY <1>1, <1>2, CandidatePair
  <2>2. bound \in Nat /\ glu.nVars \in 0 .. bound - 1
        /\ \A k \in DOMAIN vs : vs[k] \in 0 .. bound - 1 /\ ws[k] \in 0 .. bound - 1
    <3> HIDE DEF vs, ws
    <3> QED BY <1>1, <2>1
  <2>3. glu' = AddClauses(glu, cls)
    BY <1>3 DEF ifTrue_thenEQ
  <2> HIDE DEF vs, ws, bound
  <2>4. LiteralsBelow(cls, bound)
    <3>1. \A cl \in cls : \E k \in DOMAIN vs : cl \in EqualClauses({Lit(glu.nVars, FALSE)}, vs[k], ws[k])
      BY Zenon
    <3> HIDE DEF cls
    <3> QED BY <2>2, <3>1, TriggerLiterals
  <2> HIDE DEF cls
  <2> QED BY <1>1, <2>2, <2>3, <2>4, AddedLiterals
<1> QED BY <1>1, <1>4, <1>5 DEF SolverInv

\* Removing cases.
LEMMA RemovedKeepsOK ==
  ASSUME SearchOK, SolverOK(glu), SwitchesOK, NEW in0, NEW in1
  PROVE  /\ SolverOK(AddClauses(glu, Removals(switches, in0, in1)))
         /\ AddClauses(glu, Removals(switches, in0, in1)).nVars >= glu.nVars
<1>1. Total \in Nat
  BY Blocks DEF SearchOK, CnfsOK
<1> DEFINE bound == Total + switches.en_in0 + switches.en_in1 + 1
<1>2. switches.en_in0 \in Nat /\ switches.en_in1 \in Nat
  BY DEF SwitchesOK
<1>3. /\ bound \in Nat /\ Total <= bound /\ switches.en_in0 < bound /\ switches.en_in1 < bound
  BY <1>1, <1>2
<1> HIDE DEF bound
<1>4. LiteralsBelow(Removals(switches, in0, in1), bound)
  BY <1>2, <1>3, RemovalsBelow
<1> QED BY <1>3, <1>4, AddedLiterals

\* Removed cases, repeated after a rebuild, and the cases an answer adds.
LEMMA RemoveSolver ==
  ASSUME OrderInv, SeedInv, SolverInv, RemoveCases \/ FindIn0Case \/ FindIn1Case
  PROVE  SolverInv'
<1>1. /\ SearchOK /\ SolverOK(glu) /\ SwitchesOK
      /\ pc' = "ask" /\ Cands' = Cands /\ switches' = switches /\ cand_inputs' = cand_inputs
  BY InSearch DEF RemoveCases, FindIn0Case, FindIn1Case, SolverInv, seedVars, Cands, Before
<1>2. SwitchesOK'
  BY <1>1 DEF SwitchesOK
<1>3. SolverOK(glu')
  BY <1>1, RemovedKeepsOK DEF RemoveCases, FindIn0Case, FindIn1Case
<1>4. UNION (in0cases' \cup in1cases') \subseteq Cands
  <2>1. UNION (in0cases \cup in1cases) \subseteq Cands
    BY DEF SolverInv
  <2>2. \A X : \A p \in Patterns(X, Cands) : p \subseteq Cands
    BY DEF Patterns, Pattern
  <2>3. CASE RemoveCases
    BY <2>1, <2>3 DEF RemoveCases
  <2>4. CASE FindIn0Case
    <3>1. PICK p : p \subseteq Cands /\ in0cases' = in0cases \cup {p} /\ in1cases' = in1cases
      BY <2>2, <2>4 DEF FindIn0Case
    <3> QED BY <2>1, <3>1
  <2>5. CASE FindIn1Case
    <3>1. PICK p : p \subseteq Cands /\ in1cases' = in1cases \cup {p} /\ in0cases' = in0cases
      BY <2>2, <2>5 DEF FindIn1Case
    <3> QED BY <2>1, <3>1
  <2> QED BY <2>3, <2>4, <2>5
<1> QED BY <1>1, <1>2, <1>3, <1>4 DEF SolverInv

\* Steps that leave the solver alone or start a new search.
LEMMA OtherSolver ==
  ASSUME OrderInv, SeedInv, SolverInv, ReadAndOrder \/ StartSearch \/ TimeOut \/ GetOnSet \/ FindCase
  PROVE  SolverInv'
<1>1. SolverOK(NewSolver)
  BY DEF SolverOK, NewSolver, LiteralsBelow
<1>2. CASE ReadAndOrder
  <2>1. /\ UNCHANGED <<seedVars, searchVars>> /\ Before'
        /\ pc' \in {"lex", "order", "sort", "sorted"}
    BY <1>2 DEF ReadAndOrder, LexToken, EndOfFile, AssignStep, AssignAgain, AssignOrderReturns,
         SortByOrder, Before
  <2> QED BY <2>1 DEF SolverInv, seedVars, searchVars, Cands
<1>3. CASE StartSearch
  <2>1. UNCHANGED searchVars /\ pc' \in {"copies", "aborted"} /\ pc = "sorted"
    BY <1>3 DEF StartSearch
  <2>2. cand_inputs = <<>>
    BY <2>1 DEF SeedInv, Before
  <2>3. Cands = {}
    BY <2>2 DEF Cands, ToSet
  <2> QED BY <2>1, <2>3 DEF SolverInv, searchVars
<1>4. CASE TimeOut
  BY <1>1, <1>4 DEF TimeOut, SolverInv, seedVars, Cands
<1>5. CASE GetOnSet \/ FindCase
  <2>1. UNCHANGED <<seedVars, searchVars>> /\ pc' = "onset" /\ pc \in {"ask", "onset"}
    BY <1>5 DEF GetOnSet, FindCase
  <2> QED BY <2>1 DEF SolverInv, seedVars, searchVars, Cands, SwitchesOK
<1> QED BY <1>2, <1>3, <1>4, <1>5

\* Every step keeps the inductive invariant.
LEMMA StepFrontInv == FrontInv /\ [FrontEndNext]_frontVars => FrontInv'
<1> SUFFICES ASSUME FrontInv, [FrontEndNext]_frontVars PROVE FrontInv'
  OBVIOUS
<1>1. OrderInv /\ SeedInv /\ SolverInv
  BY DEF FrontInv
<1>2. OrderInv'
  BY <1>1, StepOrderInv
<1>3. SeedInv' /\ SolverInv'
  <2>1. CASE ReadAndOrder
    BY <1>1, <2>1, OrderSeedInv, OtherSolver
  <2>2. CASE StartSearch
    BY <1>1, <2>2, StartSeedInv, OtherSolver
  <2>3. CASE AddCopies \/ TieInputs \/ TieOutputs \/ MakeSwitches \/ AddTrigger \/ RemoveCases
             \/ FindIn0Case \/ FindIn1Case \/ TimeOut \/ GetOnSet \/ FindCase
    <3>1. UNCHANGED <<readVars, orderVars, seedVars>> /\ ~Before /\ ~Before' /\ pc # "aborted"
      BY <2>3 DEF AddCopies, TieInputs, TieOutputs, MakeSwitches, AddTrigger, RemoveCases,
           FindIn0Case, FindIn1Case, TimeOut, GetOnSet, FindCase, Before
    <3>2. SeedInv'
      BY <1>1, <3>1, LaterSeedInv
    <3> QED BY <1>1, <2>3, <3>2, CopiesSolver, InputsSolver, OutputsSolver, SwitchesSolver,
             TriggerSolver, RemoveSolver, OtherSolver
  <2>4. CASE UNCHANGED frontVars
    <3>1. UNCHANGED <<pc, readVars, orderVars, seedVars, searchVars>>
      BY <2>4 DEF frontVars
    <3>2. CnfsOK' <=> CnfsOK
      BY <3>1, SameCnfs
    <3>3. SeedInv'
      BY <1>1, <3>1, <3>2 DEF SeedInv, Before, readVars, orderVars, seedVars, nodes, c
    <3>4. SolverInv'
      BY <1>1, <3>1 DEF SolverInv, seedVars, searchVars, Cands, SwitchesOK
    <3> QED BY <3>3, <3>4
  <2> QED BY <2>1, <2>2, <2>3, <2>4 DEF FrontEndNext
<1> QED BY <1>2, <1>3 DEF FrontInv

\* The type invariant is part of the inductive one.
LEMMA InvFrontEndTypeOK == FrontInv => FrontEndTypeOK
<1> SUFFICES ASSUME FrontInv PROVE FrontEndTypeOK
  OBVIOUS
<1>1. LexerOK(lexer) /\ SeedInv /\ SolverInv /\ OrderInv
  BY DEF FrontInv, OrderInv
<1>2. Len(nodes) \in Nat /\ DOMAIN nodes = 1 .. Len(nodes)
  BY <1>1, NodesSequence
<1>3. \A i \in DOMAIN nodes : ToSet(nodes[i].inputs \o nodes[i].outputs) \subseteq DOMAIN nodes
  <2> SUFFICES ASSUME NEW i \in DOMAIN nodes
               PROVE  ToSet(nodes[i].inputs \o nodes[i].outputs) \subseteq DOMAIN nodes
    OBVIOUS
  <2> DEFINE S == DOMAIN nodes \ {i}
             s == nodes[i].inputs
             t == nodes[i].outputs
  <2>1. s \in Seq(S) /\ t \in Seq(S)
    BY <1>1 DEF LexerOK, CircuitOK, NodesOK, NodeOK, nodes, c
  <2> HIDE DEF s, t, S
  <2>2. s \o t \in Seq(S)
    BY <2>1, Concatenated
  <2>3. ToSet(s \o t) \subseteq S
    BY <2>2 DEF ToSet
  <2> QED BY <2>3 DEF s, t, S
<1>4. lexer.mode \in Keywords \cup {"none", "rows"} /\ lexer.current_node \in 0 .. Len(nodes)
  BY <1>1 DEF LexerOK, nodes, c
<1>5. \A i \in DOMAIN order : order[i] \in 0 .. MaxOrder + Len(nodes)
  <2>1. CASE pc = "lex"
    BY <1>1, <2>1 DEF SeedInv
  <2>2. CASE pc # "lex"
    <3>1. order \in [DOMAIN nodes -> Nat] /\ \A i \in DOMAIN nodes : order[i] <= MaxOrder + Len(nodes)
      BY <1>1, <2>2 DEF SeedInv, OrderInv
    <3> QED BY <1>2, <3>1, MaxOrderAssumption
  <2> QED BY <2>1, <2>2
<1>6. visited \in 0 .. Len(all_nodes) /\ flag \in BOOLEAN
  <2>1. CASE pc = "lex"
    BY <1>1, <2>1 DEF SeedInv, OrderInv
  <2>2. CASE pc # "lex"
    <3>1. visited \in 0 .. Len(nodes) /\ flag \in BOOLEAN
      BY <1>1, <2>2 DEF SeedInv, OrderInv
    <3>2. DOMAIN all_nodes = DOMAIN nodes /\ all_nodes = [i \in DOMAIN nodes |-> all_nodes[i]]
      BY <1>1, <2>2 DEF OrderInv
    <3>3. Len(all_nodes) = Len(nodes)
      BY <1>2, <3>2
    <3> QED BY <3>1, <3>3
  <2> QED BY <2>1, <2>2
<1>7. seed \in 0 .. Len(nodes) /\ Cands \subseteq DOMAIN nodes \ {seed}
  <2>1. CASE Before
    BY <1>1, <1>2, <2>1 DEF SeedInv, Cands, ToSet
  <2>2. CASE ~Before
    <3>1. seed \in DOMAIN nodes /\ cand_inputs \in Seq(DOMAIN nodes \ {seed})
      BY <1>1, <2>2 DEF SeedInv
    <3> DEFINE S == DOMAIN nodes \ {seed}
    <3>2. Cands \subseteq S
      <4> HIDE DEF S
      <4>1. cand_inputs \in Seq(S)
        BY <3>1 DEF S
      <4> QED BY <4>1 DEF Cands, ToSet
    <3> QED BY <1>2, <3>1, <3>2
  <2> QED BY <2>1, <2>2
<1>8. /\ pc \in {"lex", "order", "sort", "sorted", "aborted", "copies", "inputs", "outputs",
                 "switches", "triggers", "ask", "onset"}
      /\ pos \in 0 .. Len(file.text)
      /\ UNION glu.clauses \subseteq (0 .. glu.nVars - 1) \X BOOLEAN
      /\ UNION (in0cases \cup in1cases) \subseteq Cands
  BY <1>1 DEF SeedInv, SolverInv, SolverOK, LiteralsBelow
<1> QED BY <1>3, <1>4, <1>5, <1>6, <1>7, <1>8 DEF FrontEndTypeOK

\* For every set of files: no link of the lexer leaves the circuit, no order passes its
\* bound, no candidate input is the seed, and every literal of the search's solver is
\* of a variable it has made, after removals and rebuilds as well.
THEOREM FrontEndIsWellTyped == FrontEndSpec => []FrontEndTypeOK
<1>1. FrontEndInit => FrontInv
  BY InitFrontInv
<1>2. FrontInv /\ [FrontEndNext]_frontVars => FrontInv'
  BY StepFrontInv
<1>3. FrontInv => FrontEndTypeOK
  BY InvFrontEndTypeOK
<1> QED BY <1>1, <1>2, <1>3, PTL DEF FrontEndSpec

-----------------------------------------------------------------------------
(***************************************************************************)
(* What the clauses of a search ask, followed along MakeSolver and every   *)
(* case that is found.                                                     *)
(***************************************************************************)

\* The outputs of a copy.
ImplOuts(k) == Vars(impl, ImplAt(k), c.outputs)
SpecOuts(k) == Vars(spec, SpecAt(k), c.outputs)

\* What the search asks of an assignment.  Every copy computes its circuit, the seed
\* is 0, 1, 0 and 1.
CopiesHold(m) ==
  /\ \A k \in 0 .. 3 : /\ SatisfiesMaps({v \in Nat : v + ImplAt(k) \in m}, impl.clauses)
                       /\ Vars(impl, ImplAt(k), <<seed>>)[1] \in m <=> k % 2 # 0
  /\ \A k \in 0 .. 1 : SatisfiesMaps({v \in Nat : v + SpecAt(k) \in m}, spec.clauses)

\* Copies 0 and 1 are on the inputs of the first spec, 2 and 3 on those of the second.
InputsTied(m) ==
  \A k \in 0 .. 3 : Same(m, Vars(impl, ImplAt(k), c.inputs), Vars(spec, SpecAt(k \div 2), c.inputs))

\* On the first inputs the seed must be 0, on the second it must be 1.
RightOutputs(m) == Same(m, ImplOuts(0), SpecOuts(0)) /\ Same(m, ImplOuts(3), SpecOuts(1))
WrongOutputs(m) == Differ(m, ImplOuts(1), SpecOuts(0)) /\ Differ(m, ImplOuts(2), SpecOuts(1))

\* The candidates that are 1 in the copy at an offset.
Shown(m, at) == {i \in Cands : Vars(impl, at, <<i>>)[1] \in m}

\* A candidate whose trigger is assumed is the same on both inputs.
TriggersHold(m, triggers) ==
  \A k \in DOMAIN triggers :
    triggers[k] \in m => (Vars(impl, 0, <<cand_inputs[k]>>)[1] \in m
                            <=> Vars(impl, ImplAt(2), <<cand_inputs[k]>>)[1] \in m)

\* No pattern of a kind that is not given up is one that was found before.
CasesHold(m, sw, in0, in1) ==
  /\ \A p \in in0 : Shown(m, 0) # p \/ (sw.en_in0 \in m /\ Cands # {})
  /\ \A p \in in1 : Shown(m, ImplAt(2)) # p \/ (sw.en_in1 \in m /\ Cands # {})

\* The copies are asked to compute.
LEMMA CopiesMean ==
  ASSUME SearchOK, NEW m
  PROVE  Satisfies(m, (UNION {CopyClauses(impl, ImplAt(k)) : k \in 0 .. 3})
                         \cup (UNION {CopyClauses(spec, SpecAt(k)) : k \in 0 .. 1})
                         \cup {{Lit(Vars(impl, ImplAt(k), <<seed>>)[1], k % 2 # 0)} : k \in 0 .. 3})
           <=> CopiesHold(m)
<1>1. /\ CnfOK(impl) /\ CnfOK(spec)
      /\ \A k \in 0 .. 3 : ImplAt(k) \in Nat
      /\ \A k \in 0 .. 1 : SpecAt(k) \in Nat
  BY Blocks DEF SearchOK, CnfsOK
<1>2. /\ \A cl \in impl.clauses : \A v \in DOMAIN cl : v \in Nat /\ cl[v] \in BOOLEAN
      /\ \A cl \in spec.clauses : \A v \in DOMAIN cl : v \in Nat /\ cl[v] \in BOOLEAN
  BY <1>1 DEF CnfOK
<1>3. ASSUME NEW k \in 0 .. 3
      PROVE  Satisfies(m, CopyClauses(impl, ImplAt(k)))
               <=> SatisfiesMaps({v \in Nat : v + ImplAt(k) \in m}, impl.clauses)
  BY <1>1, <1>2, CopyMeans
<1>4. ASSUME NEW k \in 0 .. 1
      PROVE  Satisfies(m, CopyClauses(spec, SpecAt(k)))
               <=> SatisfiesMaps({v \in Nat : v + SpecAt(k) \in m}, spec.clauses)
  BY <1>1, <1>2, CopyMeans
<1> DEFINE unit(k) == {Lit(Vars(impl, ImplAt(k), <<seed>>)[1], k % 2 # 0)}
<1>5. ASSUME NEW k \in 0 .. 3
      PROVE  (\E l \in unit(k) : Holds(m, l))
               <=> (Vars(impl, ImplAt(k), <<seed>>)[1] \in m <=> k % 2 # 0)
  <2>1. Vars(impl, ImplAt(k), <<seed>>)[1] \in Nat
    <3>1. Vars(impl, ImplAt(k), <<seed>>)[1] \in 0 .. Total - 1
      BY EndsInBlocks
    <3> QED BY <3>1
  <2>2. PICK b \in BOOLEAN : b = (k % 2 # 0)
    OBVIOUS
  <2>3. (\E l \in {Lit(Vars(impl, ImplAt(k), <<seed>>)[1], b)} : Holds(m, l))
          <=> (Vars(impl, ImplAt(k), <<seed>>)[1] \in m <=> b)
    BY <2>1, UnitMeans
  <2> QED BY <2>2, <2>3, Zenon
<1> DEFINE A == UNION {CopyClauses(impl, ImplAt(k)) : k \in 0 .. 3}
           B == UNION {CopyClauses(spec, SpecAt(k)) : k \in 0 .. 1}
           C == {unit(k) : k \in 0 .. 3}
<1>6. Satisfies(m, A) <=> \A k \in 0 .. 3 : Satisfies(m, CopyClauses(impl, ImplAt(k)))
  BY Zenon DEF Satisfies
<1>7. Satisfies(m, B) <=> \A k \in 0 .. 1 : Satisfies(m, CopyClauses(spec, SpecAt(k)))
  BY Zenon DEF Satisfies
<1> HIDE DEF unit
<1>8. Satisfies(m, C) <=> \A k \in 0 .. 3 : \E l \in unit(k) : Holds(m, l)
  BY Zenon DEF Satisfies
<1> HIDE DEF A, B, C
<1>9. Satisfies(m, A \cup B \cup C) <=> Satisfies(m, A) /\ Satisfies(m, B) /\ Satisfies(m, C)
  BY BothSatisfied
<1>10. Satisfies(m, A \cup B \cup C) <=> CopiesHold(m)
  BY <1>3, <1>4, <1>5, <1>6, <1>7, <1>8, <1>9, Zenon DEF CopiesHold
<1> QED BY <1>10 DEF A, B, C, unit

\* The inputs are asked to be the same.
LEMMA InputsMean ==
  ASSUME SearchOK, NEW m
  PROVE  Satisfies(m, UNION {TieClauses(Vars(impl, ImplAt(k), c.inputs),
                                        Vars(spec, SpecAt(k \div 2), c.inputs)) : k \in 0 .. 3})
           <=> InputsTied(m)
<1>1. ASSUME NEW k \in 0 .. 3
      PROVE  Satisfies(m, TieClauses(Vars(impl, ImplAt(k), c.inputs), Vars(spec, SpecAt(k \div 2), c.inputs)))
               <=> Same(m, Vars(impl, ImplAt(k), c.inputs), Vars(spec, SpecAt(k \div 2), c.inputs))
  <2>1. PICK j \in 0 .. 1 : j = k \div 2
    OBVIOUS
  <2> DEFINE vs == Vars(impl, ImplAt(k), c.inputs)
             ws == Vars(spec, SpecAt(j), c.inputs)
             S == 0 .. Total - 1
  <2>2. vs \in Seq(S) /\ ws \in Seq(S) /\ DOMAIN ws = DOMAIN vs
    BY EndsInBlocks
  <2>3. \A x \in S : x \in Nat
    OBVIOUS
  <2> HIDE DEF vs, ws, S
  <2>4. \A i \in DOMAIN vs : vs[i] \in Nat /\ ws[i] \in Nat
    BY <2>2, <2>3, PairElements
  <2>5. Satisfies(m, TieClauses(vs, ws)) <=> Same(m, vs, ws)
    BY <2>4, TieMeans
  <2> QED BY <2>1, <2>5 DEF vs, ws
<1> DEFINE ties(k) == TieClauses(Vars(impl, ImplAt(k), c.inputs), Vars(spec, SpecAt(k \div 2), c.inputs))
<1>2. Satisfies(m, UNION {ties(k) : k \in 0 .. 3}) <=> \A k \in 0 .. 3 : Satisfies(m, ties(k))
  BY Zenon DEF Satisfies
<1> QED BY <1>1, <1>2, Zenon DEF InputsTied

\* A clause over the candidates of a copy excludes one pattern of them, while the
\* switch of its kind is off.
LEMMA ExcludingMeans ==
  ASSUME SearchOK, NEW m, NEW k \in {0, 2}, NEW en \in Nat, NEW p \in SUBSET Cands
  PROVE  (\E l \in Excluding(impl, ImplAt(k), Cands, p) \cup {Lit(en, TRUE) : i \in Cands} : Holds(m, l))
           <=> Shown(m, ImplAt(k)) # p \/ (en \in m /\ Cands # {})
<1> DEFINE var(i) == Vars(impl, ImplAt(k), <<i>>)[1]
<1>1. ASSUME NEW i \in Cands
      PROVE  Holds(m, Lit(var(i), i \notin p)) <=> (var(i) \in m <=> i \notin p)
  <2>1. var(i) \in Nat
    <3>1. var(i) \in 0 .. Total - 1
      BY EndsInBlocks
    <3> QED BY <3>1
  <2>2. PICK b \in BOOLEAN : b = (i \notin p)
    OBVIOUS
  <2>3. Holds(m, Lit(var(i), b)) <=> (var(i) \in m <=> b)
    BY <2>1, LitHolds
  <2> HIDE DEF var
  <2> QED BY <2>2, <2>3, Zenon
<1>2. Excluding(impl, ImplAt(k), Cands, p) = {Lit(var(i), i \notin p) : i \in Cands}
  BY DEF Excluding
<1>3. Shown(m, ImplAt(k)) = {i \in Cands : var(i) \in m}
  BY DEF Shown
<1> HIDE DEF var
<1>4. (\E l \in Excluding(impl, ImplAt(k), Cands, p) : Holds(m, l))
        <=> \E i \in Cands : var(i) \in m <=> i \notin p
  BY <1>1, <1>2, Zenon
<1>5. Shown(m, ImplAt(k)) # p <=> \E i \in Cands : var(i) \in m <=> i \notin p
  BY <1>3
<1>6. (\E l \in {Lit(en, TRUE) : i \in Cands} : Holds(m, l)) <=> en \in m /\ Cands # {}
  <2>1. Holds(m, Lit(en, TRUE)) <=> en \in m
    BY LitHolds
  <2> QED BY <2>1
<1> DEFINE A == Excluding(impl, ImplAt(k), Cands, p)
           B == {Lit(en, TRUE) : i \in Cands}
<1> HIDE DEF A, B
<1>7. (\E l \in A \cup B : Holds(m, l)) <=> (\E l \in A : Holds(m, l)) \/ (\E l \in B : Holds(m, l))
  BY Zenon
<1> QED BY <1>4, <1>5, <1>6, <1>7, Zenon DEF A, B

\* removeCase.
LEMMA RemovalsMean ==
  ASSUME SearchOK, NEW m, NEW sw, sw.en_in0 \in Nat, sw.en_in1 \in Nat,
         NEW in0 \in SUBSET SUBSET Cands, NEW in1 \in SUBSET SUBSET Cands
  PROVE  Satisfies(m, Removals(sw, in0, in1)) <=> CasesHold(m, sw, in0, in1)
<1>1. ImplAt(0) = 0
  <2>1. numVars(impl) \in Nat
    BY DEF SearchOK, CnfsOK, CnfOK
  <2> QED BY <2>1 DEF ImplAt
<1> DEFINE out0(p) == Excluding(impl, ImplAt(0), Cands, p) \cup {Lit(sw.en_in0, TRUE) : i \in Cands}
           out1(p) == Excluding(impl, ImplAt(2), Cands, p) \cup {Lit(sw.en_in1, TRUE) : i \in Cands}
<1>2. Removals(sw, in0, in1) = {out0(p) : p \in in0} \cup {out1(p) : p \in in1}
  BY <1>1 DEF Removals
<1>3. ASSUME NEW p \in in0
      PROVE  (\E l \in out0(p) : Holds(m, l)) <=> Shown(m, 0) # p \/ (sw.en_in0 \in m /\ Cands # {})
  <2>1. (\E l \in out0(p) : Holds(m, l)) <=> Shown(m, ImplAt(0)) # p \/ (sw.en_in0 \in m /\ Cands # {})
    BY ExcludingMeans
  <2> QED BY <1>1, <2>1
<1>4. ASSUME NEW p \in in1
      PROVE  (\E l \in out1(p) : Holds(m, l)) <=> Shown(m, ImplAt(2)) # p \/ (sw.en_in1 \in m /\ Cands # {})
  BY ExcludingMeans
<1> HIDE DEF out0, out1
<1>5. Satisfies(m, {out0(p) : p \in in0} \cup {out1(p) : p \in in1}) <=>
        /\ \A p \in in0 : \E l \in out0(p) : Holds(m, l)
        /\ \A p \in in1 : \E l \in out1(p) : Holds(m, l)
  <2>1. /\ Satisfies(m, {out0(p) : p \in in0}) <=> \A p \in in0 : \E l \in out0(p) : Holds(m, l)
        /\ Satisfies(m, {out1(p) : p \in in1}) <=> \A p \in in1 : \E l \in out1(p) : Holds(m, l)
    BY Zenon DEF Satisfies
  <2> QED BY <2>1, BothSatisfied, Zenon
<1> QED BY <1>2, <1>3, <1>4, <1>5, Zenon DEF CasesHold

\* What does not depend on the switches; what setNEqual spells out, in the variables
\* from base on.
Plain(m) == CopiesHold(m) /\ InputsTied(m) /\ RightOutputs(m)

Spelled(m, base) ==
  /\ Differing(m, base, ImplOuts(1), SpecOuts(0))
  /\ Differing(m, base + Len(c.outputs), ImplOuts(2), SpecOuts(1))

\* Nothing plain is asked of a variable from base on, and no output is one.
BaseOK(base) ==
  /\ \A k \in DOMAIN c.outputs : SpecOuts(1)[k] < base
  /\ \A m, n \in SUBSET Nat : (\A v \in 0 .. base - 1 : v \in n <=> v \in m) => (Plain(m) <=> Plain(n))

\* The switches follow the auxiliary variables, the triggers the switches.
NumbersOK ==
  /\ switches.en_in1 = switches.en_in0 + 1 /\ switches.en_in1 < glu.nVars
  /\ \A k \in DOMAIN switches.eq_trigger :
       /\ switches.en_in1 < switches.eq_trigger[k] /\ switches.eq_trigger[k] < glu.nVars
       /\ \A j \in DOMAIN switches.eq_trigger :
            j < k => switches.eq_trigger[j] < switches.eq_trigger[k]

\* What the solver's clauses ask, from one step of MakeSolver to the next.
EncodeInv ==
  /\ Before \/ pc = "copies" => glu = NewSolver
  /\ pc = "inputs" => \A m \in SUBSET Nat : Satisfies(m, glu.clauses) <=> CopiesHold(m)
  /\ pc = "outputs" =>
       \A m \in SUBSET Nat : Satisfies(m, glu.clauses) <=> CopiesHold(m) /\ InputsTied(m)
  /\ pc = "switches" =>
       \E base \in Nat :
         /\ glu.nVars = base + 2 * Len(c.outputs) /\ BaseOK(base)
         /\ \A m \in SUBSET Nat : Satisfies(m, glu.clauses) <=> Plain(m) /\ Spelled(m, base)
  /\ pc = "triggers" =>
       \E base \in Nat :
         /\ switches.en_in0 = base + 2 * Len(c.outputs) /\ BaseOK(base) /\ NumbersOK
         /\ \A m \in SUBSET Nat :
              Satisfies(m, glu.clauses) <=>
                Plain(m) /\ Spelled(m, base) /\ TriggersHold(m, switches.eq_trigger)
  /\ pc = "ask" =>
       \E base \in Nat :
         /\ switches.en_in0 = base + 2 * Len(c.outputs) /\ BaseOK(base) /\ NumbersOK
         /\ Len(switches.eq_trigger) = Len(cand_inputs)
         /\ \A m \in SUBSET Nat :
              Satisfies(m, glu.clauses) <=>
                /\ Plain(m) /\ Spelled(m, base) /\ TriggersHold(m, switches.eq_trigger)
                /\ CasesHold(m, switches, in0cases, in1cases)

\* A step that leaves the circuit, the seed and the CNFs alone changes nothing of
\* what is asked of an assignment.
LEMMA SameQuestions ==
  ASSUME UNCHANGED <<readVars, seedVars>>, NEW m, NEW base
  PROVE  /\ CopiesHold(m)' <=> CopiesHold(m)
         /\ InputsTied(m)' <=> InputsTied(m)
         /\ RightOutputs(m)' <=> RightOutputs(m)
         /\ Plain(m)' <=> Plain(m)
         /\ Spelled(m, base)' <=> Spelled(m, base)
         /\ TriggersHold(m, switches.eq_trigger)' <=> TriggersHold(m, switches'.eq_trigger)
         /\ CasesHold(m, switches, in0cases, in1cases)'
              <=> CasesHold(m, switches', in0cases', in1cases')
<1>1. /\ impl' = impl /\ spec' = spec /\ seed' = seed /\ cand_inputs' = cand_inputs
      /\ lexer' = lexer /\ c' = c /\ nodes' = nodes
  BY DEF readVars, seedVars, c, nodes
<1>2. \A k : ImplOuts(k)' = ImplOuts(k) /\ SpecOuts(k)' = SpecOuts(k)
  BY <1>1 DEF ImplOuts, SpecOuts, Vars, ImplAt, SpecAt
<1>3. CopiesHold(m)' <=> CopiesHold(m)
  BY <1>1 DEF CopiesHold, Vars, ImplAt, SpecAt
<1>4. InputsTied(m)' <=> InputsTied(m)
  BY <1>1 DEF InputsTied, Vars, ImplAt, SpecAt
<1>5. RightOutputs(m)' <=> RightOutputs(m)
  BY <1>2 DEF RightOutputs
<1>6. Spelled(m, base)' <=> Spelled(m, base)
  BY <1>1, <1>2 DEF Spelled
<1>7. TriggersHold(m, switches.eq_trigger)' <=> TriggersHold(m, switches'.eq_trigger)
  BY <1>1 DEF TriggersHold, Vars, ImplAt
<1>8. CasesHold(m, switches, in0cases, in1cases)' <=> CasesHold(m, switches', in0cases', in1cases')
  BY <1>1 DEF CasesHold, Shown, Cands, Vars, ImplAt
<1> QED BY <1>3, <1>4, <1>5, <1>6, <1>7, <1>8 DEF Plain

\* Nor of where the auxiliary variables may start.
LEMMA SameBase ==
  ASSUME UNCHANGED <<readVars, seedVars>>, NEW base, BaseOK(base)
  PROVE  BaseOK(base)'
<1>1. \A m : Plain(m)' <=> Plain(m)
  BY SameQuestions
<1>2. SpecOuts(1)' = SpecOuts(1) /\ c' = c
  BY DEF SpecOuts, Vars, SpecAt, readVars, seedVars, c, nodes
<1> QED BY <1>1, <1>2 DEF BaseOK

\* The copies alone.
LEMMA CopiesEncode ==
  ASSUME FrontInv, EncodeInv, AddCopies
  PROVE  EncodeInv'
<1>1. SearchOK /\ glu = NewSolver
  BY InSearch DEF FrontInv, AddCopies, Before, EncodeInv
<1>2. pc' = "inputs" /\ ~Before' /\ UNCHANGED <<readVars, seedVars>>
  BY DEF AddCopies, Before
<1> DEFINE cls == (UNION {CopyClauses(impl, ImplAt(k)) : k \in 0 .. 3})
                    \cup (UNION {CopyClauses(spec, SpecAt(k)) : k \in 0 .. 1})
                    \cup {{Lit(Vars(impl, ImplAt(k), <<seed>>)[1], k % 2 # 0)} : k \in 0 .. 3}
<1>3. glu' = AddClauses(NewSolver, cls)
  BY <1>1 DEF AddCopies
<1>4. ASSUME NEW m \in SUBSET Nat
      PROVE  Satisfies(m, glu'.clauses) <=> CopiesHold(m)'
  <2>1. Satisfies(m, cls) <=> CopiesHold(m)
    BY <1>1, CopiesMean
  <2> HIDE DEF cls
  <2>2. Satisfies(m, glu'.clauses) <=> Satisfies(m, cls)
    BY <1>3, NothingAsked
  <2>3. CopiesHold(m)' <=> CopiesHold(m)
    BY <1>2, SameQuestions
  <2> QED BY <2>1, <2>2, <2>3
<1> QED BY <1>2, <1>4 DEF EncodeInv

\* The inputs tied.
LEMMA InputsEncode ==
  ASSUME FrontInv, EncodeInv, TieInputs
  PROVE  EncodeInv'
<1>1. SearchOK /\ \A m \in SUBSET Nat : Satisfies(m, glu.clauses) <=> CopiesHold(m)
  BY InSearch DEF FrontInv, TieInputs, Before, EncodeInv
<1>2. pc' = "outputs" /\ ~Before' /\ UNCHANGED <<readVars, seedVars>>
  BY DEF TieInputs, Before
<1> DEFINE cls == UNION {TieClauses(Vars(impl, ImplAt(k), c.inputs),
                                    Vars(spec, SpecAt(k \div 2), c.inputs)) : k \in 0 .. 3}
<1>3. glu' = AddClauses(glu, cls)
  BY DEF TieInputs
<1>4. ASSUME NEW m \in SUBSET Nat
      PROVE  Satisfies(m, glu'.clauses) <=> (CopiesHold(m) /\ InputsTied(m))'
  <2>1. Satisfies(m, cls) <=> InputsTied(m)
    BY <1>1, InputsMean
  <2> HIDE DEF cls
  <2>2. Satisfies(m, glu'.clauses) <=> Satisfies(m, glu.clauses) /\ Satisfies(m, cls)
    BY <1>3, AddedClauses
  <2>3. (CopiesHold(m)' <=> CopiesHold(m)) /\ (InputsTied(m)' <=> InputsTied(m))
    BY <1>2, SameQuestions
  <2> QED BY <1>1, <2>1, <2>2, <2>3
<1> QED BY <1>2, <1>4 DEF EncodeInv

\* What setEqual ties, it mentions: the solver has a variable above it.
LEMMA TiedBelow ==
  ASSUME NEW s, NEW vs, NEW ws, SolverOK(setEqual(s, vs, ws)),
         NEW k \in DOMAIN vs, vs[k] # ws[k], ws[k] \in Nat
  PROVE  ws[k] < setEqual(s, vs, ws).nVars
<1> DEFINE t == setEqual(s, vs, ws)
           cl == {} \cup {Lit(vs[k], TRUE), Lit(ws[k], FALSE)}
<1>1. cl \in EqualClauses({}, vs[k], ws[k])
  BY DEF EqualClauses
<1>2. cl \in TieClauses(vs, ws)
  BY <1>1 DEF TieClauses
<1>3. t.clauses = s.clauses \cup TieClauses(vs, ws)
  BY DEF setEqual, AddClauses
<1>4. Lit(ws[k], FALSE) \in UNION t.clauses
  BY <1>2, <1>3
<1>5. Lit(ws[k], FALSE) = <<ws[k], FALSE>>
  BY SMT DEF Lit
<1> HIDE DEF t
<1>6. <<ws[k], FALSE>> \in (0 .. t.nVars - 1) \X BOOLEAN /\ t.nVars \in Nat
  BY <1>4, <1>5 DEF SolverOK, LiteralsBelow, t
<1>7. ws[k] < t.nVars
  BY <1>6
<1> QED BY <1>7 DEF t

\* The outputs of the copies, one block above the other.
LEMMA OutputBlocks ==
  ASSUME SearchOK
  PROVE  LET L == Len(c.outputs)  low == SpecAt(0)  high == SpecAt(1)  S == 0 .. Total - 1
         IN  /\ L \in Nat /\ DOMAIN c.outputs = 1 .. L
             /\ low \in Nat /\ high \in Nat /\ low <= high /\ Total \in Nat
             /\ \A k \in 0 .. 3 :
                  /\ ImplOuts(k) \in Seq(S) /\ DOMAIN ImplOuts(k) = 1 .. L
                  /\ \A j \in 1 .. L : ImplOuts(k)[j] \in Nat /\ ImplOuts(k)[j] < low
                  /\ \A i \in Cands : /\ Vars(impl, ImplAt(k), <<i>>)[1] \in Nat
                                       /\ Vars(impl, ImplAt(k), <<i>>)[1] < low
             /\ \A k \in 0 .. 1 : SpecOuts(k) \in Seq(S) /\ DOMAIN SpecOuts(k) = 1 .. L
             /\ \A j \in 1 .. L : /\ SpecOuts(0)[j] \in Nat /\ low <= SpecOuts(0)[j] /\ SpecOuts(0)[j] < high
                                  /\ SpecOuts(1)[j] \in Nat /\ high <= SpecOuts(1)[j]
<1> DEFINE L == Len(c.outputs)
           O == ToSet(c.outputs)
<1>1. L \in Nat /\ DOMAIN c.outputs = 1 .. L
  BY DEF SearchOK
<1>2. /\ CnfOK(impl) /\ CnfOK(spec) /\ numVars(impl) \in Nat /\ numVars(spec) \in Nat
      /\ Total \in Nat /\ SpecAt(0) \in Nat /\ SpecAt(1) \in Nat /\ SpecAt(0) + numVars(spec) = SpecAt(1)
      /\ \A k \in 0 .. 3 : ImplAt(k) \in Nat /\ ImplAt(k) + numVars(impl) <= SpecAt(0)
  <2>1. CnfOK(impl) /\ CnfOK(spec) /\ numVars(impl) \in Nat /\ numVars(spec) \in Nat
    BY DEF SearchOK, CnfsOK, CnfOK
  <2>2. SpecAt(0) + numVars(spec) = SpecAt(1)
    BY <2>1 DEF SpecAt
  <2> QED BY <2>1, <2>2, Blocks
<1>3. /\ c.outputs \in Seq(O) /\ Named(impl, O) /\ Named(spec, O)
      /\ \A i \in Cands : Named(impl, {i})
  <2>1. c.outputs \in Seq(O)
    BY OwnElements DEF SearchOK
  <2>2. Named(impl, {seed} \cup Cands \cup Ends) /\ Named(spec, Ends) /\ O \subseteq Ends
    BY DEF SearchOK, CnfsOK, Ends
  <2> HIDE DEF O
  <2> QED BY <2>1, <2>2 DEF Named
<1> HIDE DEF O
<1>4. ASSUME NEW cnf, CnfOK(cnf), Named(cnf, O), NEW at \in Nat
      PROVE  \A j \in 1 .. L : /\ Vars(cnf, at, c.outputs)[j] \in Nat
                               /\ at <= Vars(cnf, at, c.outputs)[j]
                               /\ Vars(cnf, at, c.outputs)[j] < at + numVars(cnf)
  <2> DEFINE ids == c.outputs
             block == at .. at + numVars(cnf) - 1
  <2>1. ids \in Seq(O)
    BY <1>3
  <2>2. DOMAIN ids = 1 .. L
    BY <1>1, Zenon
  <2> HIDE DEF ids
  <2>3. Vars(cnf, at, ids) \in Seq(block) /\ DOMAIN Vars(cnf, at, ids) = DOMAIN ids
        /\ numVars(cnf) \in Nat
    BY <1>4, <2>1, VarsInBlock
  <2>4. \A j \in 1 .. L : Vars(cnf, at, ids)[j] \in block
    <3> DEFINE vs == Vars(cnf, at, ids)
    <3>1. vs \in Seq(block) /\ DOMAIN vs = 1 .. L
      BY <2>2, <2>3, Zenon
    <3> HIDE DEF vs, block, L
    <3>2. \A j \in DOMAIN vs : vs[j] \in block
      BY <3>1, PairElements
    <3> QED BY <3>1, <3>2 DEF vs
  <2> QED BY <2>3, <2>4 DEF ids
<1>5. ASSUME NEW k \in 0 .. 3
      PROVE  /\ ImplOuts(k) \in Seq(0 .. Total - 1) /\ DOMAIN ImplOuts(k) = 1 .. L
             /\ \A j \in 1 .. L : ImplOuts(k)[j] \in Nat /\ ImplOuts(k)[j] < SpecAt(0)
             /\ \A i \in Cands : Vars(impl, ImplAt(k), <<i>>)[1] \in Nat
                                   /\ Vars(impl, ImplAt(k), <<i>>)[1] < SpecAt(0)
  <2>1. ImplAt(k) \in Nat /\ ImplAt(k) + numVars(impl) <= SpecAt(0)
    BY <1>2
  <2>2. ImplOuts(k) \in Seq(0 .. Total - 1) /\ DOMAIN ImplOuts(k) = 1 .. L
    BY <1>1, EndsInBlocks DEF ImplOuts
  <2>3. \A j \in 1 .. L : /\ ImplOuts(k)[j] \in Nat /\ ImplOuts(k)[j] < ImplAt(k) + numVars(impl)
    <3> HIDE DEF L
    <3> QED BY <1>2, <1>3, <1>4, <2>1 DEF ImplOuts
  <2>4. \A j \in 1 .. L : ImplOuts(k)[j] < SpecAt(0)
    <3> HIDE DEF L
    <3> QED BY <1>2, <2>1, <2>3
  <2>5. ASSUME NEW i \in Cands
        PROVE  Vars(impl, ImplAt(k), <<i>>)[1] \in ImplAt(k) .. ImplAt(k) + numVars(impl) - 1
    BY <1>2, <1>3, <2>1, VarInBlock
  <2>6. \A i \in Cands : Vars(impl, ImplAt(k), <<i>>)[1] \in Nat
                           /\ Vars(impl, ImplAt(k), <<i>>)[1] < SpecAt(0)
    <3> SUFFICES ASSUME NEW i \in Cands
                 PROVE  Vars(impl, ImplAt(k), <<i>>)[1] \in Nat
                          /\ Vars(impl, ImplAt(k), <<i>>)[1] < SpecAt(0)
      OBVIOUS
    <3>1. PICK v \in ImplAt(k) .. ImplAt(k) + numVars(impl) - 1 : v = Vars(impl, ImplAt(k), <<i>>)[1]
      BY <2>5
    <3>2. v \in Nat /\ v < SpecAt(0)
      BY <1>2, <2>1
    <3> QED BY <3>1, <3>2
  <2> QED BY <2>2, <2>3, <2>4, <2>6
<1>6. ASSUME NEW k \in 0 .. 1
      PROVE  /\ SpecOuts(k) \in Seq(0 .. Total - 1) /\ DOMAIN SpecOuts(k) = 1 .. L
             /\ \A j \in 1 .. L : /\ SpecOuts(k)[j] \in Nat /\ SpecAt(k) <= SpecOuts(k)[j]
                                  /\ SpecOuts(k)[j] < SpecAt(k) + numVars(spec)
  <2>1. SpecAt(k) \in Nat
    <3>1. k = 0 \/ k = 1
      OBVIOUS
    <3> QED BY <1>2, <3>1
  <2>2. SpecOuts(k) \in Seq(0 .. Total - 1) /\ DOMAIN SpecOuts(k) = 1 .. L
    BY <1>1, EndsInBlocks DEF SpecOuts
  <2>3. \A j \in 1 .. L : /\ SpecOuts(k)[j] \in Nat /\ SpecAt(k) <= SpecOuts(k)[j]
                          /\ SpecOuts(k)[j] < SpecAt(k) + numVars(spec)
    <3> HIDE DEF L
    <3> QED BY <1>2, <1>3, <1>4, <2>1 DEF SpecOuts
  <2> QED BY <2>2, <2>3
<1> HIDE DEF L
<1>7. \A j \in 1 .. L : /\ SpecOuts(0)[j] \in Nat /\ SpecAt(0) <= SpecOuts(0)[j] /\ SpecOuts(0)[j] < SpecAt(1)
                        /\ SpecOuts(1)[j] \in Nat /\ SpecAt(1) <= SpecOuts(1)[j]
  <2>1. 0 \in 0 .. 1 /\ 1 \in 0 .. 1
    OBVIOUS
  <2>2. \A j \in 1 .. L : SpecOuts(0)[j] \in Nat /\ SpecAt(0) <= SpecOuts(0)[j]
                          /\ SpecOuts(0)[j] < SpecAt(0) + numVars(spec)
    BY <1>6, <2>1
  <2>3. \A j \in 1 .. L : SpecOuts(1)[j] \in Nat /\ SpecAt(1) <= SpecOuts(1)[j]
    BY <1>6, <2>1
  <2>4. SpecAt(0) + numVars(spec) = SpecAt(1)
    BY <1>2
  <2> QED BY <2>2, <2>3, <2>4
<1>8. SpecAt(0) <= SpecAt(1)
  BY <1>2
<1> QED BY <1>1, <1>2, <1>5, <1>6, <1>7, <1>8 DEF L

\* A sequence of numbers below a bound.
LEMMA BoundedElements ==
  ASSUME NEW S, NEW s \in Seq(S), NEW L \in Nat, DOMAIN s = 1 .. L, NEW b \in Nat,
         \A j \in 1 .. L : s[j] \in Nat /\ s[j] < b
  PROVE  s \in Seq(0 .. b - 1) /\ s \in Seq(Nat) /\ Len(s) = L
<1>1. s = [j \in 1 .. L |-> s[j]] /\ Len(s) = L
  OBVIOUS
<1>2. \A j \in 1 .. L : s[j] \in 0 .. b - 1
  OBVIOUS
<1>3. s \in [1 .. L -> 0 .. b - 1] /\ s \in [1 .. L -> Nat]
  BY <1>1, <1>2
<1> QED BY <1>1, <1>3

\* The outputs tied and told apart: setNEqual takes twice as many variables as there
\* are outputs, all of them above what has been used.
LEMMA OutputsEncode ==
  ASSUME FrontInv, EncodeInv, TieOutputs
  PROVE  EncodeInv'
<1> DEFINE L == Len(c.outputs)
           i0 == ImplOuts(0)
           i1 == ImplOuts(1)
           i2 == ImplOuts(2)
           i3 == ImplOuts(3)
           s0 == SpecOuts(0)
           s1 == SpecOuts(1)
           once == setEqual(glu, i0, s0)
           equal == setEqual(once, i3, s1)
           base == equal.nVars
           first == setNEqual(equal, i1, s0)
           S == 0 .. Total - 1
<1>1. /\ SearchOK /\ SolverOK(glu)
      /\ \A m \in SUBSET Nat : Satisfies(m, glu.clauses) <=> CopiesHold(m) /\ InputsTied(m)
  BY InSearch DEF FrontInv, TieOutputs, Before, EncodeInv, SolverInv
<1>2. pc' = "switches" /\ ~Before' /\ UNCHANGED <<readVars, seedVars>> /\ c' = c
  BY DEF TieOutputs, Before, readVars, c
<1>3. glu' = setNEqual(first, i2, s1)
  BY DEF TieOutputs, ImplOuts, SpecOuts
<1>4. /\ L \in Nat /\ Total \in Nat /\ DOMAIN c.outputs = 1 .. L
      /\ i0 \in Seq(S) /\ i1 \in Seq(S) /\ i2 \in Seq(S) /\ i3 \in Seq(S)
      /\ s0 \in Seq(S) /\ s1 \in Seq(S)
      /\ DOMAIN i0 = 1 .. L /\ DOMAIN i1 = 1 .. L /\ DOMAIN i2 = 1 .. L /\ DOMAIN i3 = 1 .. L
      /\ DOMAIN s0 = 1 .. L /\ DOMAIN s1 = 1 .. L
  BY <1>1, OutputBlocks
<1>5. \A j \in 1 .. L : /\ i0[j] \in Nat /\ i1[j] \in Nat /\ i2[j] \in Nat /\ i3[j] \in Nat
                       /\ s0[j] \in Nat /\ s1[j] \in Nat /\ s0[j] < s1[j]
                       /\ i1[j] < s1[j] /\ i2[j] < s1[j] /\ i3[j] < s1[j]
  <2> SUFFICES ASSUME NEW j \in 1 .. L
               PROVE  /\ i0[j] \in Nat /\ i1[j] \in Nat /\ i2[j] \in Nat /\ i3[j] \in Nat
                      /\ s0[j] \in Nat /\ s1[j] \in Nat /\ s0[j] < s1[j]
                      /\ i1[j] < s1[j] /\ i2[j] < s1[j] /\ i3[j] < s1[j]
    OBVIOUS
  <2>1. /\ SpecAt(0) \in Nat /\ SpecAt(1) \in Nat /\ SpecAt(0) <= SpecAt(1)
        /\ \A k \in 0 .. 3 : ImplOuts(k)[j] \in Nat /\ ImplOuts(k)[j] < SpecAt(0)
        /\ s0[j] \in Nat /\ s0[j] < SpecAt(1) /\ s1[j] \in Nat /\ SpecAt(1) <= s1[j]
    BY <1>1, OutputBlocks
  <2>2. /\ i0[j] \in Nat /\ i1[j] \in Nat /\ i2[j] \in Nat /\ i3[j] \in Nat
        /\ i1[j] < SpecAt(0) /\ i2[j] < SpecAt(0) /\ i3[j] < SpecAt(0)
    BY <2>1
  <2> HIDE DEF i0, i1, i2, i3, s0, s1, L
  <2> QED BY <2>1, <2>2
<1>6. \A m : RightOutputs(m) <=> Same(m, i0, s0) /\ Same(m, i3, s1)
  BY DEF RightOutputs
<1> HIDE DEF L, i0, i1, i2, i3, s0, s1
<1>7. SolverOK(equal)
  <2>1. SolverOK(once)
    BY <1>1, <1>4, EqualKeepsOK
  <2> HIDE DEF once
  <2> QED BY <1>4, <2>1, EqualKeepsOK
<1>8. base \in Nat /\ WellNumbered(equal)
  BY <1>7, SolverNumbered DEF SolverOK
<1>9. ASSUME NEW m \in SUBSET Nat
      PROVE  Satisfies(m, equal.clauses) <=> Plain(m)
  <2>1. /\ \A j \in DOMAIN i0 : i0[j] \in Nat /\ s0[j] \in Nat
        /\ \A j \in DOMAIN i3 : i3[j] \in Nat /\ s1[j] \in Nat
    BY <1>4, <1>5
  <2>2. Satisfies(m, once.clauses) <=> Satisfies(m, glu.clauses) /\ Same(m, i0, s0)
    BY <2>1, EqualityIsEncoded DEF Same
  <2> HIDE DEF once
  <2>3. Satisfies(m, equal.clauses) <=> Satisfies(m, once.clauses) /\ Same(m, i3, s1)
    BY <2>1, EqualityIsEncoded DEF Same
  <2> QED BY <1>1, <1>6, <2>2, <2>3 DEF Plain
<1>10. \A j \in 1 .. L : s1[j] < base
  <2> SUFFICES ASSUME NEW j \in 1 .. L PROVE s1[j] < base
    OBVIOUS
  <2>1. i3[j] \in Nat /\ s1[j] \in Nat /\ i3[j] < s1[j]
    BY <1>5
  <2>2. j \in DOMAIN i3 /\ i3[j] # s1[j] /\ s1[j] \in Nat
    BY <1>4, <2>1
  <2> HIDE DEF once
  <2> QED BY <1>7, <2>2, TiedBelow
<1> HIDE DEF equal, base
<1>11. BaseOK(base)
  <2>1. \A k \in DOMAIN c.outputs : SpecOuts(1)[k] < base
    BY <1>4, <1>10 DEF s1
  <2>2. ASSUME NEW m \in SUBSET Nat, NEW n \in SUBSET Nat, \A v \in 0 .. base - 1 : v \in n <=> v \in m
        PROVE  Plain(m) <=> Plain(n)
    <3>1. (Satisfies(m, equal.clauses) => Satisfies(n, equal.clauses))
      BY <1>8, <2>2, AgreementSuffices DEF base
    <3>2. (Satisfies(n, equal.clauses) => Satisfies(m, equal.clauses))
      BY <1>8, <2>2, AgreementSuffices DEF base
    <3> QED BY <1>9, <3>1, <3>2
  <2> QED BY <2>1, <2>2 DEF BaseOK
<1>12. /\ i1 \in Seq(0 .. base - 1) /\ i2 \in Seq(0 .. base - 1)
       /\ s0 \in Seq(0 .. base - 1) /\ s1 \in Seq(0 .. base - 1)
       /\ i1 \in Seq(Nat) /\ i2 \in Seq(Nat) /\ s0 \in Seq(Nat) /\ s1 \in Seq(Nat)
       /\ Len(i1) = L /\ Len(i2) = L
  <2>1. \A j \in 1 .. L : i1[j] \in Nat /\ i1[j] < base
    BY <1>5, <1>8, <1>10
  <2>2. \A j \in 1 .. L : i2[j] \in Nat /\ i2[j] < base
    BY <1>5, <1>8, <1>10
  <2>3. \A j \in 1 .. L : s0[j] \in Nat /\ s0[j] < base
    BY <1>5, <1>8, <1>10
  <2>4. \A j \in 1 .. L : s1[j] \in Nat /\ s1[j] < base
    BY <1>5, <1>10
  <2> HIDE DEF S
  <2>5. i1 \in Seq(0 .. base - 1) /\ i1 \in Seq(Nat) /\ Len(i1) = L
    BY <1>4, <1>8, <2>1, BoundedElements
  <2>6. i2 \in Seq(0 .. base - 1) /\ i2 \in Seq(Nat) /\ Len(i2) = L
    BY <1>4, <1>8, <2>2, BoundedElements
  <2>7. s0 \in Seq(0 .. base - 1) /\ s0 \in Seq(Nat)
    BY <1>4, <1>8, <2>3, BoundedElements
  <2>8. s1 \in Seq(0 .. base - 1) /\ s1 \in Seq(Nat)
    BY <1>4, <1>8, <2>4, BoundedElements
  <2> QED BY <2>5, <2>6, <2>7, <2>8
<1>13. WellNumbered(first) /\ first.nVars = base + L
  <2>1. DOMAIN s0 = DOMAIN i1
    BY <1>4
  <2> QED BY <1>8, <1>12, <2>1, AuxiliariesAreFresh DEF base
<1>14. i2 \in Seq(0 .. first.nVars - 1) /\ s1 \in Seq(0 .. first.nVars - 1)
  <2> DEFINE top == first.nVars
  <2>1. top \in Nat /\ base <= top
    BY <1>4, <1>8, <1>13
  <2> HIDE DEF top
  <2> DEFINE A == 0 .. base - 1
             B == 0 .. top - 1
  <2>2. A \subseteq B
    BY <1>8, <2>1
  <2>3. i2 \in Seq(A) /\ s1 \in Seq(A)
    BY <1>12
  <2> HIDE DEF A, B
  <2>4. i2 \in Seq(B) /\ s1 \in Seq(B)
    BY <2>2, <2>3, LargerRange
  <2> QED BY <2>4 DEF B, top
<1>15. glu'.nVars = base + 2 * L
  <2> HIDE DEF first
  <2>1. DOMAIN s1 = DOMAIN i2
    BY <1>4
  <2>2. setNEqual(first, i2, s1).nVars = first.nVars + Len(i2)
    BY <1>13, <1>14, <2>1, AuxiliariesAreFresh
  <2> QED BY <1>3, <1>4, <1>8, <1>12, <1>13, <2>2
<1>16. ASSUME NEW m \in SUBSET Nat
       PROVE  Satisfies(m, glu'.clauses) <=> Plain(m) /\ Spelled(m, base)
  <2>1. DOMAIN s0 = DOMAIN i1 /\ DOMAIN s1 = DOMAIN i2
    BY <1>4
  <2>2. equal.nVars \in Nat
    BY <1>8 DEF base
  <2>3. Satisfies(m, first.clauses) <=> Satisfies(m, equal.clauses) /\ Differing(m, equal.nVars, i1, s0)
    <3>1. i1 \in Seq(Nat) /\ s0 \in Seq(Nat)
      BY <1>12
    <3> HIDE DEF once, first, S
    <3>2. Satisfies(m, setNEqual(equal, i1, s0).clauses) <=>
            Satisfies(m, equal.clauses) /\ Differing(m, equal.nVars, i1, s0)
      BY <2>1, <2>2, <3>1, DifferenceMeans DEF Differing
    <3> QED BY <3>2 DEF first
  <2> HIDE DEF first
  <2>4. first.nVars \in Nat
    BY <1>4, <1>8, <1>13
  <2>5. Satisfies(m, glu'.clauses) <=> Satisfies(m, first.clauses) /\ Differing(m, first.nVars, i2, s1)
    BY <1>3, <1>12, <2>1, <2>4, DifferenceMeans DEF Differing
  <2>6. Spelled(m, base) <=> Differing(m, base, i1, s0) /\ Differing(m, base + L, i2, s1)
    BY DEF Spelled, i1, i2, s0, s1, L
  <2>7. Differing(m, base, i1, s0) <=> Differing(m, equal.nVars, i1, s0)
    BY DEF base
  <2> QED BY <1>9, <1>13, <2>3, <2>5, <2>6, <2>7
<1>17. \E b \in Nat : /\ glu'.nVars = b + 2 * Len(c'.outputs) /\ BaseOK(b)'
                      /\ \A m \in SUBSET Nat : Satisfies(m, glu'.clauses) <=> Plain(m)' /\ Spelled(m, b)'
  <2>1. PICK b \in Nat : b = base
    BY <1>8
  <2>2. glu'.nVars = b + 2 * Len(c'.outputs)
    BY <1>2, <1>15, <2>1 DEF L
  <2>3. BaseOK(b)'
    BY <1>2, <1>11, <2>1, SameBase
  <2>4. ASSUME NEW m \in SUBSET Nat
        PROVE  Satisfies(m, glu'.clauses) <=> Plain(m)' /\ Spelled(m, b)'
    <3>1. (Plain(m)' <=> Plain(m)) /\ (Spelled(m, b)' <=> Spelled(m, b))
      BY <1>2, SameQuestions
    <3> QED BY <1>16, <2>1, <3>1
  <2> QED BY <2>2, <2>3, <2>4
<1> QED BY <1>2, <1>17 DEF EncodeInv

\* The switches follow.
LEMMA SwitchesEncode ==
  ASSUME FrontInv, EncodeInv, MakeSwitches
  PROVE  EncodeInv'
<1>1. SolverOK(glu)
  BY DEF FrontInv, SolverInv
<1>2. pc' = "triggers" /\ ~Before' /\ UNCHANGED <<readVars, seedVars>> /\ c' = c
  BY DEF MakeSwitches, Before, readVars, c
<1>3. PICK base \in Nat :
        /\ glu.nVars = base + 2 * Len(c.outputs) /\ BaseOK(base)
        /\ \A m \in SUBSET Nat : Satisfies(m, glu.clauses) <=> Plain(m) /\ Spelled(m, base)
  BY DEF MakeSwitches, EncodeInv
<1>4. /\ switches' = [en_in0 |-> glu.nVars, en_in1 |-> glu.nVars + 1, eq_trigger |-> <<>>]
      /\ glu'.clauses = glu.clauses /\ glu'.nVars = glu.nVars + 2 /\ glu.nVars \in Nat
  BY <1>1 DEF MakeSwitches, SolverOK
<1>5. NumbersOK'
  BY <1>4 DEF NumbersOK
<1>6. BaseOK(base)'
  BY <1>2, <1>3, SameBase
<1>7. ASSUME NEW m \in SUBSET Nat
      PROVE  Satisfies(m, glu'.clauses) <=>
               Plain(m)' /\ Spelled(m, base)' /\ TriggersHold(m, switches.eq_trigger)'
  <2>1. (Plain(m)' <=> Plain(m)) /\ (Spelled(m, base)' <=> Spelled(m, base))
    BY <1>2, SameQuestions
  <2>2. TriggersHold(m, switches.eq_trigger)'
    <3>1. TriggersHold(m, switches'.eq_trigger)
      BY <1>4 DEF TriggersHold
    <3> QED BY <1>2, <3>1, SameQuestions
  <2> QED BY <1>3, <1>4, <2>1, <2>2
<1>8. switches'.en_in0 = base + 2 * Len(c'.outputs)
  BY <1>2, <1>3, <1>4
<1> QED BY <1>2, <1>5, <1>6, <1>7, <1>8 DEF EncodeInv

\* One trigger more.
LEMMA OneTriggerMore ==
  ASSUME NEW m, NEW triggers \in Seq(Nat), NEW trigger
  PROVE  TriggersHold(m, Append(triggers, trigger)) <=>
           /\ TriggersHold(m, triggers)
           /\ trigger \in m =>
                (Vars(impl, 0, <<cand_inputs[Len(triggers) + 1]>>)[1] \in m
                   <=> Vars(impl, ImplAt(2), <<cand_inputs[Len(triggers) + 1]>>)[1] \in m)
<1> DEFINE more == Append(triggers, trigger)
           n == Len(triggers) + 1
           equal(k) == Vars(impl, 0, <<cand_inputs[k]>>)[1] \in m
                         <=> Vars(impl, ImplAt(2), <<cand_inputs[k]>>)[1] \in m
<1>1. /\ DOMAIN more = DOMAIN triggers \cup {n} /\ more[n] = trigger
      /\ \A k \in DOMAIN triggers : more[k] = triggers[k]
  OBVIOUS
<1>2. /\ TriggersHold(m, more) <=> \A k \in DOMAIN more : more[k] \in m => equal(k)
      /\ TriggersHold(m, triggers) <=> \A k \in DOMAIN triggers : triggers[k] \in m => equal(k)
  BY DEF TriggersHold
<1> HIDE DEF more, n, equal
<1>3. TriggersHold(m, more) <=> TriggersHold(m, triggers) /\ (trigger \in m => equal(n))
  BY <1>1, <1>2
<1> QED BY <1>3 DEF more, n, equal

\* A trigger is made.
LEMMA TriggerEncode ==
  ASSUME FrontInv, EncodeInv, AddTrigger
  PROVE  EncodeInv'
<1>1. SearchOK /\ SolverOK(glu) /\ SwitchesOK /\ pc = "triggers" /\ SolverOK(glu')
  <2>1. SolverInv'
    BY TriggerSolver DEF FrontInv
  <2> QED BY <2>1, InSearch DEF FrontInv, AddTrigger, Before, SolverInv
<1>2. pc' = "triggers" /\ ~Before' /\ UNCHANGED <<readVars, seedVars>> /\ c' = c
  BY DEF AddTrigger, Before, readVars, c
<1>3. PICK base \in Nat :
        /\ switches.en_in0 = base + 2 * Len(c.outputs) /\ BaseOK(base) /\ NumbersOK
        /\ \A m \in SUBSET Nat :
             Satisfies(m, glu.clauses) <=>
               Plain(m) /\ Spelled(m, base) /\ TriggersHold(m, switches.eq_trigger)
  BY <1>1 DEF EncodeInv
<1> DEFINE triggers == switches.eq_trigger
           trigger == glu.nVars
           i == cand_inputs[Len(triggers) + 1]
           vs == Vars(impl, 0, <<i>>)
           ws == Vars(impl, ImplAt(2), <<i>>)
<1>4. triggers \in Seq(Nat) /\ trigger \in Nat /\ switches.en_in0 \in Nat /\ switches.en_in1 \in Nat
  BY <1>1 DEF SwitchesOK, SolverOK
<1>5. i \in Cands
  <2>1. Len(triggers) \in Nat /\ Len(triggers) < Len(cand_inputs)
    BY <1>4 DEF AddTrigger
  <2>2. Len(triggers) + 1 \in DOMAIN cand_inputs
    BY <1>1, <2>1 DEF SearchOK
  <2> QED BY <2>2 DEF Cands, ToSet
<1>6. /\ switches'.eq_trigger = Append(triggers, trigger)
      /\ switches'.en_in0 = switches.en_in0 /\ switches'.en_in1 = switches.en_in1
      /\ glu' = ifTrue_thenEQ(glu, vs, ws, trigger)
  BY <1>1 DEF AddTrigger, SwitchesOK
<1>7. DOMAIN vs = {1} /\ vs[1] \in Nat /\ ws[1] \in Nat
  <2>1. DOMAIN vs = {1} /\ vs[1] \in 0 .. Total - 1 /\ ws[1] \in 0 .. Total - 1
    <3> HIDE DEF i
    <3> QED BY <1>1, <1>5, CandidatePair
  <2> HIDE DEF vs, ws
  <2> QED BY <2>1
<1>8. \A m : TriggersHold(m, Append(triggers, trigger)) <=>
               TriggersHold(m, triggers) /\ (trigger \in m => (vs[1] \in m <=> ws[1] \in m))
  <2> HIDE DEF triggers, trigger
  <2> QED BY <1>4, OneTriggerMore
<1> HIDE DEF i, vs, ws, triggers, trigger
<1>9. trigger < glu'.nVars /\ glu'.nVars \in Nat
  <2> DEFINE cl == {Lit(trigger, FALSE)} \cup {Lit(vs[1], TRUE), Lit(ws[1], FALSE)}
  <2>1. cl \in EqualClauses({Lit(trigger, FALSE)}, vs[1], ws[1])
    BY DEF EqualClauses
  <2>2. cl \in glu'.clauses
    <3>1. EqualClauses({Lit(trigger, FALSE)}, vs[1], ws[1]) \subseteq glu'.clauses
      BY <1>6, <1>7 DEF ifTrue_thenEQ, AddClauses
    <3> QED BY <2>1, <3>1
  <2>3. Lit(trigger, FALSE) \in UNION glu'.clauses
    BY <2>2
  <2>4. Lit(trigger, FALSE) = <<trigger, FALSE>>
    BY <1>4, SMT DEF Lit
  <2>5. <<trigger, FALSE>> \in (0 .. glu'.nVars - 1) \X BOOLEAN /\ glu'.nVars \in Nat
    BY <1>1, <2>3, <2>4 DEF SolverOK, LiteralsBelow
  <2> QED BY <1>4, <2>5
<1>10. NumbersOK'
  <2>1. /\ switches.en_in1 = switches.en_in0 + 1 /\ switches.en_in1 < trigger
        /\ \A k \in DOMAIN triggers :
             /\ switches.en_in1 < triggers[k] /\ triggers[k] < trigger
             /\ \A j \in DOMAIN triggers : j < k => triggers[j] < triggers[k]
    BY <1>3 DEF NumbersOK, triggers, trigger
  <2> DEFINE more == Append(triggers, trigger)
             n == Len(triggers) + 1
  <2>2. /\ DOMAIN more = DOMAIN triggers \cup {n} /\ more[n] = trigger
        /\ \A k \in DOMAIN triggers : more[k] = triggers[k] /\ k < n /\ k \in Nat /\ triggers[k] \in Nat
        /\ n \in Nat
    BY <1>4
  <2> HIDE DEF more, n
  <2>3. \A k \in DOMAIN more : switches.en_in1 < more[k] /\ more[k] < glu'.nVars
    BY <1>4, <1>9, <2>1, <2>2
  <2>4. \A k, j \in DOMAIN more : j < k => more[j] < more[k]
    BY <2>1, <2>2
  <2>5. switches.en_in1 < glu'.nVars
    BY <1>4, <1>9, <2>1
  <2> QED BY <1>6, <2>1, <2>3, <2>4, <2>5 DEF NumbersOK, more
<1>11. BaseOK(base)'
  BY <1>2, <1>3, SameBase
<1>12. ASSUME NEW m \in SUBSET Nat
       PROVE  Satisfies(m, glu'.clauses) <=>
                Plain(m)' /\ Spelled(m, base)' /\ TriggersHold(m, switches.eq_trigger)'
  <2>1. /\ Plain(m)' <=> Plain(m)
        /\ Spelled(m, base)' <=> Spelled(m, base)
        /\ TriggersHold(m, switches.eq_trigger)' <=> TriggersHold(m, switches'.eq_trigger)
    BY <1>2, SameQuestions
  <2>2. \A k \in DOMAIN vs : vs[k] \in Nat /\ ws[k] \in Nat
    BY <1>7
  <2>3. Satisfies(m, ifTrue_thenEQ(glu, vs, ws, trigger).clauses) <=>
          Satisfies(m, glu.clauses) /\ (trigger \in m => \A k \in DOMAIN vs : vs[k] \in m <=> ws[k] \in m)
    BY <1>4, <2>2, TriggerIsEncoded
  <2>4. Satisfies(m, glu'.clauses) <=>
          Satisfies(m, glu.clauses) /\ (trigger \in m => (vs[1] \in m <=> ws[1] \in m))
    BY <1>6, <1>7, <2>3
  <2>5. Satisfies(m, glu.clauses) <=> Plain(m) /\ Spelled(m, base) /\ TriggersHold(m, triggers)
    BY <1>3 DEF triggers
  <2>6. TriggersHold(m, switches'.eq_trigger) <=> TriggersHold(m, Append(triggers, trigger))
    BY <1>6, Zenon
  <2> QED BY <1>8, <2>1, <2>4, <2>5, <2>6, Zenon
<1>13. switches'.en_in0 = base + 2 * Len(c'.outputs)
  BY <1>2, <1>3, <1>6
<1> QED BY <1>2, <1>10, <1>11, <1>12, <1>13 DEF EncodeInv

\* Cases are removed together or one after the other.
LEMMA CasesTogether ==
  ASSUME NEW m, NEW sw, NEW in0, NEW in1, NEW new0, NEW new1
  PROVE  CasesHold(m, sw, in0 \cup new0, in1 \cup new1)
           <=> CasesHold(m, sw, in0, in1) /\ CasesHold(m, sw, new0, new1)
BY DEF CasesHold

\* A solver that is made anew is told the cases of the old one.
LEMMA RemoveEncode ==
  ASSUME FrontInv, EncodeInv, RemoveCases
  PROVE  EncodeInv'
<1>1. SearchOK /\ SolverOK(glu) /\ SwitchesOK /\ pc = "triggers"
      /\ in0cases \in SUBSET SUBSET Cands /\ in1cases \in SUBSET SUBSET Cands
  <2>1. UNION (in0cases \cup in1cases) \subseteq Cands
    BY DEF FrontInv, SolverInv
  <2> QED BY <2>1, InSearch DEF FrontInv, RemoveCases, Before, SolverInv
<1>2. /\ pc' = "ask" /\ ~Before' /\ UNCHANGED <<readVars, seedVars>> /\ c' = c
      /\ switches' = switches /\ in0cases' = in0cases /\ in1cases' = in1cases
      /\ cand_inputs' = cand_inputs
  BY DEF RemoveCases, Before, readVars, seedVars, c
<1>3. PICK base \in Nat :
        /\ switches.en_in0 = base + 2 * Len(c.outputs) /\ BaseOK(base) /\ NumbersOK
        /\ \A m \in SUBSET Nat :
             Satisfies(m, glu.clauses) <=>
               Plain(m) /\ Spelled(m, base) /\ TriggersHold(m, switches.eq_trigger)
  BY <1>1 DEF EncodeInv
<1>4. glu' = AddClauses(glu, Removals(switches, in0cases, in1cases))
      /\ Len(switches.eq_trigger) = Len(cand_inputs)
  BY DEF RemoveCases
<1>5. NumbersOK' /\ BaseOK(base)'
  <2>1. glu'.nVars >= glu.nVars /\ SolverOK(glu')
    BY <1>1, <1>4, RemovedKeepsOK
  <2>2. /\ glu.nVars \in Nat /\ glu'.nVars \in Nat /\ switches.en_in1 \in Nat
        /\ \A k \in DOMAIN switches.eq_trigger : switches.eq_trigger[k] \in Nat
    BY <1>1, <2>1 DEF SolverOK, SwitchesOK
  <2>3. NumbersOK'
    BY <1>2, <1>3, <2>1, <2>2 DEF NumbersOK
  <2>4. BaseOK(base)'
    BY <1>2, <1>3, SameBase
  <2> QED BY <2>3, <2>4
<1>6. ASSUME NEW m \in SUBSET Nat
      PROVE  Satisfies(m, glu'.clauses) <=>
               /\ Plain(m)' /\ Spelled(m, base)' /\ TriggersHold(m, switches.eq_trigger)'
               /\ CasesHold(m, switches, in0cases, in1cases)'
  <2>1. /\ Plain(m)' <=> Plain(m)
        /\ Spelled(m, base)' <=> Spelled(m, base)
        /\ TriggersHold(m, switches.eq_trigger)' <=> TriggersHold(m, switches.eq_trigger)
        /\ CasesHold(m, switches, in0cases, in1cases)' <=> CasesHold(m, switches, in0cases, in1cases)
    BY <1>2, SameQuestions
  <2>2. Satisfies(m, Removals(switches, in0cases, in1cases))
          <=> CasesHold(m, switches, in0cases, in1cases)
    BY <1>1, RemovalsMean DEF SwitchesOK
  <2>3. Satisfies(m, glu'.clauses) <=>
          Satisfies(m, glu.clauses) /\ Satisfies(m, Removals(switches, in0cases, in1cases))
    BY <1>4, AddedClauses
  <2> QED BY <1>3, <2>1, <2>2, <2>3
<1>7. switches'.en_in0 = base + 2 * Len(c'.outputs) /\ Len(switches'.eq_trigger) = Len(cand_inputs')
  BY <1>2, <1>3, <1>4
<1> QED BY <1>2, <1>5, <1>6, <1>7 DEF EncodeInv

\* The cases an answer adds.
LEMMA FindEncode ==
  ASSUME FrontInv, EncodeInv, FindIn0Case \/ FindIn1Case
  PROVE  EncodeInv'
<1>1. SearchOK /\ SolverOK(glu) /\ SwitchesOK /\ pc = "ask"
  BY InSearch DEF FrontInv, FindIn0Case, FindIn1Case, Before, SolverInv
<1>2. /\ pc' = "ask" /\ ~Before' /\ UNCHANGED <<readVars, seedVars>> /\ c' = c
      /\ switches' = switches /\ cand_inputs' = cand_inputs
  BY <1>1 DEF FindIn0Case, FindIn1Case, Before, readVars, seedVars, c
<1>3. PICK base \in Nat :
        /\ switches.en_in0 = base + 2 * Len(c.outputs) /\ BaseOK(base) /\ NumbersOK
        /\ Len(switches.eq_trigger) = Len(cand_inputs)
        /\ \A m \in SUBSET Nat :
             Satisfies(m, glu.clauses) <=>
               /\ Plain(m) /\ Spelled(m, base) /\ TriggersHold(m, switches.eq_trigger)
               /\ CasesHold(m, switches, in0cases, in1cases)
  BY <1>1 DEF EncodeInv
<1>4. PICK new0 \in SUBSET SUBSET Cands, new1 \in SUBSET SUBSET Cands :
        /\ in0cases' = in0cases \cup new0 /\ in1cases' = in1cases \cup new1
        /\ glu' = AddClauses(glu, Removals(switches, new0, new1))
  <2>1. \A X : \A p \in Patterns(X, Cands) : p \subseteq Cands
    BY DEF Patterns, Pattern
  <2>2. CASE FindIn0Case
    <3>1. PICK p \in SUBSET Cands :
            /\ in0cases' = in0cases \cup {p} /\ in1cases' = in1cases \cup {}
            /\ glu' = AddClauses(glu, Removals(switches, {p}, {}))
      BY <2>1, <2>2 DEF FindIn0Case
    <3> QED BY <3>1
  <2>3. CASE FindIn1Case
    <3>1. PICK p \in SUBSET Cands :
            /\ in0cases' = in0cases \cup {} /\ in1cases' = in1cases \cup {p}
            /\ glu' = AddClauses(glu, Removals(switches, {}, {p}))
      BY <2>1, <2>3 DEF FindIn1Case
    <3> QED BY <3>1
  <2> QED BY <2>2, <2>3
<1>5. NumbersOK' /\ BaseOK(base)'
  <2>1. glu'.nVars >= glu.nVars /\ SolverOK(glu')
    BY <1>1, <1>4, RemovedKeepsOK
  <2>2. /\ glu.nVars \in Nat /\ glu'.nVars \in Nat /\ switches.en_in1 \in Nat
        /\ \A k \in DOMAIN switches.eq_trigger : switches.eq_trigger[k] \in Nat
    BY <1>1, <2>1 DEF SolverOK, SwitchesOK
  <2>3. NumbersOK'
    BY <1>2, <1>3, <2>1, <2>2 DEF NumbersOK
  <2>4. BaseOK(base)'
    BY <1>2, <1>3, SameBase
  <2> QED BY <2>3, <2>4
<1>6. ASSUME NEW m \in SUBSET Nat
      PROVE  Satisfies(m, glu'.clauses) <=>
               /\ Plain(m)' /\ Spelled(m, base)' /\ TriggersHold(m, switches.eq_trigger)'
               /\ CasesHold(m, switches, in0cases, in1cases)'
  <2>1. /\ Plain(m)' <=> Plain(m)
        /\ Spelled(m, base)' <=> Spelled(m, base)
        /\ TriggersHold(m, switches.eq_trigger)' <=> TriggersHold(m, switches.eq_trigger)
        /\ CasesHold(m, switches, in0cases, in1cases)'
             <=> CasesHold(m, switches, in0cases \cup new0, in1cases \cup new1)
    BY <1>2, <1>4, SameQuestions
  <2>2. Satisfies(m, Removals(switches, new0, new1)) <=> CasesHold(m, switches, new0, new1)
    BY <1>1, RemovalsMean DEF SwitchesOK
  <2>3. Satisfies(m, glu'.clauses) <=>
          Satisfies(m, glu.clauses) /\ Satisfies(m, Removals(switches, new0, new1))
    BY <1>4, AddedClauses
  <2> QED BY <1>3, <2>1, <2>2, <2>3, CasesTogether
<1>7. switches'.en_in0 = base + 2 * Len(c'.outputs) /\ Len(switches'.eq_trigger) = Len(cand_inputs')
  BY <1>2, <1>3
<1> QED BY <1>2, <1>5, <1>6, <1>7 DEF EncodeInv

\* Nothing has been asked.
LEMMA InitEncodeInv == FrontEndInit => EncodeInv
BY DEF FrontEndInit, EncodeInv

\* Every step of MakeSolver asks what it is for.
LEMMA StepEncodeInv ==
  ASSUME FrontInv, EncodeInv, [FrontEndNext]_frontVars
  PROVE  EncodeInv'
<1>1. CASE ReadAndOrder
  <2>1. Before /\ Before' /\ UNCHANGED searchVars
    BY <1>1 DEF ReadAndOrder, LexToken, EndOfFile, AssignStep, AssignAgain, AssignOrderReturns,
         SortByOrder, Before
  <2> QED BY <2>1 DEF EncodeInv, Before, searchVars
<1>2. CASE StartSearch
  <2>1. Before /\ pc' \in {"copies", "aborted"} /\ UNCHANGED searchVars
    BY <1>2 DEF StartSearch, Before
  <2> QED BY <2>1 DEF EncodeInv, Before, searchVars
<1>3. CASE TimeOut
  BY <1>3 DEF TimeOut, EncodeInv, Before
<1>4. CASE GetOnSet \/ FindCase
  <2>1. pc' = "onset"
    BY <1>4 DEF GetOnSet, FindCase
  <2> QED BY <2>1 DEF EncodeInv, Before
<1>5. CASE UNCHANGED frontVars
  <2>1. UNCHANGED <<readVars, seedVars>> /\ pc' = pc /\ glu' = glu /\ switches' = switches
        /\ in0cases' = in0cases /\ in1cases' = in1cases /\ c' = c /\ cand_inputs' = cand_inputs
    BY <1>5 DEF frontVars, searchVars, readVars, seedVars, c
  <2>2. \A m \in SUBSET Nat, base \in Nat :
          /\ CopiesHold(m)' <=> CopiesHold(m)
          /\ InputsTied(m)' <=> InputsTied(m)
          /\ Plain(m)' <=> Plain(m)
          /\ Spelled(m, base)' <=> Spelled(m, base)
          /\ TriggersHold(m, switches.eq_trigger)' <=> TriggersHold(m, switches.eq_trigger)
          /\ CasesHold(m, switches, in0cases, in1cases)'
               <=> CasesHold(m, switches, in0cases, in1cases)
    BY <2>1, SameQuestions
  <2>3. \A base \in Nat : BaseOK(base) => BaseOK(base)'
    BY <2>1, SameBase
  <2>4. NumbersOK' <=> NumbersOK
    BY <2>1 DEF NumbersOK
  <2> QED BY <2>1, <2>2, <2>3, <2>4 DEF EncodeInv, Before
<1> QED BY <1>1, <1>2, <1>3, <1>4, <1>5, CopiesEncode, InputsEncode, OutputsEncode, SwitchesEncode,
           TriggerEncode, RemoveEncode, FindEncode DEF FrontEndNext

\* The variables setNEqual adds, below the switches; an assignment apart from them.
Auxiliary == switches.en_in0 - 2 * Len(c.outputs) .. switches.en_in0 - 1
Extends(n, m) == AlikeApart(n, m, Auxiliary)

\* What the search is asked: the question of MakeSolver without setNEqual's
\* auxiliary variables.
IsAsked(m) ==
  /\ CopiesHold(m) /\ InputsTied(m) /\ RightOutputs(m) /\ WrongOutputs(m)
  /\ TriggersHold(m, switches.eq_trigger) /\ CasesHold(m, switches, in0cases, in1cases)

\* There is a trigger for each candidate, no two the same, and no trigger is a
\* switch; an assignment of the other variables is one of the solver's exactly if
\* it is one that is asked for.
SolverAsksQuestion ==
  pc = "ask" =>
    /\ DOMAIN switches.eq_trigger = DOMAIN cand_inputs
    /\ switches.en_in0 # switches.en_in1
    /\ \A k \in DOMAIN switches.eq_trigger :
         /\ switches.eq_trigger[k] \notin {switches.en_in0, switches.en_in1}
         /\ \A j \in DOMAIN switches.eq_trigger \ {k} : switches.eq_trigger[j] # switches.eq_trigger[k]
    /\ \A m \in SUBSET Nat :
         IsAsked(m) <=> \E n \in SUBSET Nat : Satisfies(n, glu.clauses) /\ Extends(n, m)

\* No variable of the question is auxiliary.
LEMMA NothingAuxiliary ==
  ASSUME FrontInv, EncodeInv, pc = "ask", NEW base \in Nat,
         switches.en_in0 = base + 2 * Len(c.outputs), BaseOK(base), NumbersOK,
         Len(switches.eq_trigger) = Len(cand_inputs), Len(c.outputs) > 0
  PROVE  /\ \A k \in 0 .. 3 : \A j \in DOMAIN c.outputs : ImplOuts(k)[j] \in 0 .. base - 1
         /\ \A k \in 0 .. 1 : \A j \in DOMAIN c.outputs : SpecOuts(k)[j] \in 0 .. base - 1
         /\ \A k \in 0 .. 3 : \A i \in Cands : Vars(impl, ImplAt(k), <<i>>)[1] \in 0 .. base - 1
<1>1. SearchOK
  BY InSearch DEF FrontInv, Before
<1> DEFINE L == Len(c.outputs)
           low == SpecAt(0)
           high == SpecAt(1)
<1>2. /\ L \in Nat /\ DOMAIN c.outputs = 1 .. L
      /\ low \in Nat /\ high \in Nat /\ low <= high
  BY <1>1, OutputBlocks
<1>3. ASSUME NEW k \in 0 .. 3
      PROVE  /\ \A j \in 1 .. L : ImplOuts(k)[j] \in Nat /\ ImplOuts(k)[j] < low
             /\ \A i \in Cands : /\ Vars(impl, ImplAt(k), <<i>>)[1] \in Nat
                                  /\ Vars(impl, ImplAt(k), <<i>>)[1] < low
  BY <1>1, OutputBlocks
<1>4. \A j \in 1 .. L : /\ SpecOuts(0)[j] \in Nat /\ SpecOuts(0)[j] < high
                        /\ SpecOuts(1)[j] \in Nat /\ high <= SpecOuts(1)[j]
  BY <1>1, OutputBlocks
<1>5. \A j \in 1 .. L : SpecOuts(1)[j] < base
  BY <1>2 DEF BaseOK
<1> HIDE DEF L, low, high
<1>6. high < base
  <2>1. 1 \in 1 .. L
    BY <1>2 DEF L
  <2> QED BY <1>2, <1>4, <1>5, <2>1
<1>7. \A k \in 0 .. 3 : \A j \in 1 .. L : ImplOuts(k)[j] \in 0 .. base - 1
  <2> SUFFICES ASSUME NEW k \in 0 .. 3, NEW j \in 1 .. L PROVE ImplOuts(k)[j] \in 0 .. base - 1
    OBVIOUS
  <2>1. ImplOuts(k)[j] \in Nat /\ ImplOuts(k)[j] < low
    BY <1>3
  <2> QED BY <1>2, <1>6, <2>1
<1>8. \A k \in 0 .. 1 : \A j \in 1 .. L : SpecOuts(k)[j] \in 0 .. base - 1
  <2> SUFFICES ASSUME NEW k \in 0 .. 1, NEW j \in 1 .. L PROVE SpecOuts(k)[j] \in 0 .. base - 1
    OBVIOUS
  <2>1. CASE k = 0
    BY <1>2, <1>4, <1>6, <2>1
  <2>2. CASE k = 1
    BY <1>4, <1>5, <2>2
  <2> QED BY <2>1, <2>2
<1>9. \A k \in 0 .. 3 : \A i \in Cands : Vars(impl, ImplAt(k), <<i>>)[1] \in 0 .. base - 1
  <2> SUFFICES ASSUME NEW k \in 0 .. 3, NEW i \in Cands
               PROVE  Vars(impl, ImplAt(k), <<i>>)[1] \in 0 .. base - 1
    OBVIOUS
  <2>1. Vars(impl, ImplAt(k), <<i>>)[1] \in Nat /\ Vars(impl, ImplAt(k), <<i>>)[1] < low
    BY <1>3
  <2> QED BY <1>2, <1>6, <2>1
<1> QED BY <1>2, <1>7, <1>8, <1>9

\* Assignments that agree apart from the auxiliary variables are asked the same.
LEMMA AskedAlike ==
  ASSUME FrontInv, EncodeInv, pc = "ask", NEW base \in Nat,
         switches.en_in0 = base + 2 * Len(c.outputs), BaseOK(base), NumbersOK,
         Len(switches.eq_trigger) = Len(cand_inputs), Len(c.outputs) > 0,
         NEW m \in SUBSET Nat, NEW n \in SUBSET Nat, Extends(n, m)
  PROVE  /\ Plain(n) <=> Plain(m)
         /\ WrongOutputs(n) <=> WrongOutputs(m)
         /\ TriggersHold(n, switches.eq_trigger) <=> TriggersHold(m, switches.eq_trigger)
         /\ CasesHold(n, switches, in0cases, in1cases) <=> CasesHold(m, switches, in0cases, in1cases)
<1>1. SearchOK /\ SwitchesOK
  BY InSearch DEF FrontInv, Before, SolverInv
<1> DEFINE L == Len(c.outputs)
<1>2. /\ L \in Nat /\ DOMAIN c.outputs = 1 .. L
      /\ \A k \in 0 .. 3 : DOMAIN ImplOuts(k) = 1 .. L
      /\ \A k \in 0 .. 3 : \A j \in 1 .. L : ImplOuts(k)[j] \in 0 .. base - 1
      /\ \A k \in 0 .. 1 : \A j \in 1 .. L : SpecOuts(k)[j] \in 0 .. base - 1
      /\ \A k \in 0 .. 3 : \A i \in Cands : Vars(impl, ImplAt(k), <<i>>)[1] \in 0 .. base - 1
  <2>1. /\ L \in Nat /\ DOMAIN c.outputs = 1 .. L
        /\ \A k \in 0 .. 3 : DOMAIN ImplOuts(k) = 1 .. L
    BY <1>1, OutputBlocks
  <2> QED BY <2>1, NothingAuxiliary
<1>3. ImplAt(0) = 0
  <2>1. numVars(impl) \in Nat
    BY <1>1 DEF SearchOK, CnfsOK, CnfOK
  <2> QED BY <2>1 DEF ImplAt
<1>4. Auxiliary = base .. base + 2 * L - 1
  BY <1>2 DEF Auxiliary
<1> HIDE DEF L
<1>5. \A v \in Nat : v < base \/ v >= base + 2 * L => (v \in n <=> v \in m)
  BY <1>2, <1>4 DEF Extends, AlikeApart
<1>6. \A v \in 0 .. base - 1 : v \in n <=> v \in m
  BY <1>5
<1>7. Plain(n) <=> Plain(m)
  BY <1>6 DEF BaseOK
<1>8. WrongOutputs(n) <=> WrongOutputs(m)
  <2>1. ASSUME NEW j \in 1 .. L
        PROVE  /\ ImplOuts(1)[j] \in n <=> ImplOuts(1)[j] \in m
               /\ ImplOuts(2)[j] \in n <=> ImplOuts(2)[j] \in m
               /\ SpecOuts(0)[j] \in n <=> SpecOuts(0)[j] \in m
               /\ SpecOuts(1)[j] \in n <=> SpecOuts(1)[j] \in m
    <3>1. /\ ImplOuts(1)[j] \in 0 .. base - 1 /\ ImplOuts(2)[j] \in 0 .. base - 1
          /\ SpecOuts(0)[j] \in 0 .. base - 1 /\ SpecOuts(1)[j] \in 0 .. base - 1
      BY <1>2
    <3> QED BY <1>6, <3>1
  <2>2. DOMAIN ImplOuts(1) = 1 .. L /\ DOMAIN ImplOuts(2) = 1 .. L
    BY <1>2
  <2> QED BY <2>1, <2>2, Zenon DEF WrongOutputs, Differ
<1>9. /\ switches.en_in0 \in n <=> switches.en_in0 \in m
      /\ switches.en_in1 \in n <=> switches.en_in1 \in m
      /\ \A k \in DOMAIN switches.eq_trigger :
           switches.eq_trigger[k] \in n <=> switches.eq_trigger[k] \in m
  <2>1. /\ switches.en_in0 \in Nat /\ switches.en_in1 \in Nat
        /\ \A k \in DOMAIN switches.eq_trigger : switches.eq_trigger[k] \in Nat
    BY <1>1 DEF SwitchesOK
  <2>2. switches.en_in0 = base + 2 * L /\ switches.en_in1 = switches.en_in0 + 1
        /\ \A k \in DOMAIN switches.eq_trigger : switches.en_in1 < switches.eq_trigger[k]
    BY DEF NumbersOK, L
  <2>3. ASSUME NEW k \in DOMAIN switches.eq_trigger
        PROVE  switches.eq_trigger[k] >= base + 2 * L
    BY <1>2, <2>1, <2>2
  <2>4. switches.en_in0 >= base + 2 * L /\ switches.en_in1 >= base + 2 * L
    BY <1>2, <2>1, <2>2
  <2>5. \A v \in Nat : v >= base + 2 * L => (v \in n <=> v \in m)
    BY <1>5
  <2>6. ASSUME NEW k \in DOMAIN switches.eq_trigger
        PROVE  switches.eq_trigger[k] \in n <=> switches.eq_trigger[k] \in m
    BY <2>1, <2>3, <2>5
  <2> QED BY <2>1, <2>4, <2>5, <2>6
<1>10. \A k \in 0 .. 3 : \A i \in Cands :
         Vars(impl, ImplAt(k), <<i>>)[1] \in n <=> Vars(impl, ImplAt(k), <<i>>)[1] \in m
  BY <1>2, <1>6
<1>11. \A k \in {0, 2} : Shown(n, ImplAt(k)) = Shown(m, ImplAt(k))
  BY <1>10 DEF Shown
<1>12. CasesHold(n, switches, in0cases, in1cases) <=> CasesHold(m, switches, in0cases, in1cases)
  BY <1>3, <1>9, <1>11, Zenon DEF CasesHold
<1>13. DOMAIN switches.eq_trigger = DOMAIN cand_inputs /\ \A k \in DOMAIN cand_inputs : cand_inputs[k] \in Cands
  <2>1. switches.eq_trigger \in Seq(Nat) /\ cand_inputs \in Seq(DOMAIN nodes \ {seed})
    BY <1>1 DEF SwitchesOK, SearchOK
  <2>2. cand_inputs \in Seq(Cands)
    BY <2>1, OwnElements DEF Cands
  <2> QED BY <2>1, <2>2
<1>14. TriggersHold(n, switches.eq_trigger) <=> TriggersHold(m, switches.eq_trigger)
  <2>1. ASSUME NEW k \in DOMAIN switches.eq_trigger
        PROVE  /\ Vars(impl, 0, <<cand_inputs[k]>>)[1] \in n <=> Vars(impl, 0, <<cand_inputs[k]>>)[1] \in m
               /\ Vars(impl, ImplAt(2), <<cand_inputs[k]>>)[1] \in n
                    <=> Vars(impl, ImplAt(2), <<cand_inputs[k]>>)[1] \in m
    <3>1. cand_inputs[k] \in Cands
      BY <1>13
    <3>2. 0 \in 0 .. 3 /\ 2 \in 0 .. 3
      OBVIOUS
    <3> QED BY <1>3, <1>10, <3>1, <3>2
  <2> QED BY <1>9, <2>1, Zenon DEF TriggersHold
<1> QED BY <1>7, <1>8, <1>12, <1>14

\* What the solver is asked is what the search means to ask.
LEMMA QuestionAsked ==
  ASSUME FrontInv, EncodeInv
  PROVE  SolverAsksQuestion
<1> SUFFICES ASSUME pc = "ask" PROVE SolverAsksQuestion
  BY DEF SolverAsksQuestion
<1>1. SearchOK /\ SwitchesOK
  BY InSearch DEF FrontInv, Before, SolverInv
<1>2. PICK base \in Nat :
        /\ switches.en_in0 = base + 2 * Len(c.outputs) /\ BaseOK(base) /\ NumbersOK
        /\ Len(switches.eq_trigger) = Len(cand_inputs)
        /\ \A m \in SUBSET Nat :
             Satisfies(m, glu.clauses) <=>
               /\ Plain(m) /\ Spelled(m, base) /\ TriggersHold(m, switches.eq_trigger)
               /\ CasesHold(m, switches, in0cases, in1cases)
  BY DEF EncodeInv
<1>3. /\ switches.en_in0 \in Nat /\ switches.en_in1 \in Nat /\ switches.eq_trigger \in Seq(Nat)
      /\ cand_inputs \in Seq(DOMAIN nodes \ {seed})
  BY <1>1 DEF SwitchesOK, SearchOK
<1> DEFINE L == Len(c.outputs)
<1>4. /\ L \in Nat /\ DOMAIN c.outputs = 1 .. L
      /\ \A k \in 0 .. 3 : DOMAIN ImplOuts(k) = 1 .. L
      /\ \A k \in 0 .. 1 : DOMAIN SpecOuts(k) = 1 .. L
  BY <1>1, OutputBlocks
<1>5. Auxiliary = base .. base + 2 * L - 1
  BY <1>2, <1>4 DEF Auxiliary
<1>6. \A m \in SUBSET Nat : IsAsked(m) <=>
        /\ Plain(m) /\ WrongOutputs(m) /\ TriggersHold(m, switches.eq_trigger)
        /\ CasesHold(m, switches, in0cases, in1cases)
  BY DEF IsAsked, Plain
<1>7. ASSUME NEW m \in SUBSET Nat, IsAsked(m)
      PROVE  \E n \in SUBSET Nat : Satisfies(n, glu.clauses) /\ Extends(n, m)
  <2>1. Differ(m, ImplOuts(1), SpecOuts(0)) /\ Differ(m, ImplOuts(2), SpecOuts(1))
    BY <1>7 DEF IsAsked, WrongOutputs
  <2>2. L > 0
    BY <1>4, <2>1 DEF Differ
  <2>3. \A k \in 1 .. L : /\ ImplOuts(1)[k] \in 0 .. base - 1 /\ SpecOuts(0)[k] \in 0 .. base - 1
                          /\ ImplOuts(2)[k] \in 0 .. base - 1 /\ SpecOuts(1)[k] \in 0 .. base - 1
    BY <1>2, <1>4, <2>2, NothingAuxiliary
  <2>4. /\ DOMAIN ImplOuts(1) = 1 .. L /\ DOMAIN SpecOuts(0) = 1 .. L
        /\ DOMAIN ImplOuts(2) = 1 .. L /\ DOMAIN SpecOuts(1) = 1 .. L
    BY <1>4
  <2>5. PICK n \in SUBSET Nat :
          /\ Differing(n, base, ImplOuts(1), SpecOuts(0)) /\ Differing(n, base + L, ImplOuts(2), SpecOuts(1))
          /\ \A v \in Nat \ (base .. base + 2 * L - 1) : v \in n <=> v \in m
    <3> DEFINE vs == ImplOuts(1)
               ws == SpecOuts(0)
               xs == ImplOuts(2)
               ys == SpecOuts(1)
    <3>1. L \in Nat
      BY <1>4
    <3>2. /\ Below(vs, L, base) /\ Below(ws, L, base)
          /\ Below(xs, L, base) /\ Below(ys, L, base)
      BY <2>3, <2>4 DEF Below
    <3>3. Differ(m, vs, ws) /\ Differ(m, xs, ys)
      BY <2>1
    <3> HIDE DEF L, vs, ws, xs, ys
    <3>4. \E n \in SUBSET Nat :
            /\ Differing(n, base, vs, ws) /\ Differing(n, base + L, xs, ys)
            /\ AlikeApart(n, m, base .. base + 2 * L - 1)
      BY <3>1, <3>2, <3>3, BothExtended
    <3> QED BY <3>4 DEF vs, ws, xs, ys, AlikeApart
  <2>6. Extends(n, m) /\ Spelled(n, base)
    BY <1>5, <2>5 DEF Extends, AlikeApart, Spelled
  <2>7. /\ Plain(n) <=> Plain(m)
        /\ TriggersHold(n, switches.eq_trigger) <=> TriggersHold(m, switches.eq_trigger)
        /\ CasesHold(n, switches, in0cases, in1cases) <=> CasesHold(m, switches, in0cases, in1cases)
    BY <1>2, <2>2, <2>6, AskedAlike
  <2>8. Satisfies(n, glu.clauses)
    BY <1>2, <1>6, <1>7, <2>6, <2>7
  <2> QED BY <2>6, <2>8
<1>8. ASSUME NEW m \in SUBSET Nat, NEW n \in SUBSET Nat, Satisfies(n, glu.clauses), Extends(n, m)
      PROVE  IsAsked(m)
  <2>1. /\ Plain(n) /\ Spelled(n, base) /\ TriggersHold(n, switches.eq_trigger)
        /\ CasesHold(n, switches, in0cases, in1cases)
    BY <1>2, <1>8
  <2>2. WrongOutputs(n)
    BY <2>1, DifferingDiffer DEF Spelled, WrongOutputs
  <2>3. L > 0
    BY <1>4, <2>2 DEF WrongOutputs, Differ
  <2>4. /\ Plain(n) <=> Plain(m)
        /\ WrongOutputs(n) <=> WrongOutputs(m)
        /\ TriggersHold(n, switches.eq_trigger) <=> TriggersHold(m, switches.eq_trigger)
        /\ CasesHold(n, switches, in0cases, in1cases) <=> CasesHold(m, switches, in0cases, in1cases)
    BY <1>2, <1>8, <2>3, AskedAlike
  <2> QED BY <1>6, <2>1, <2>2, <2>4
<1>9. DOMAIN switches.eq_trigger = DOMAIN cand_inputs /\ switches.en_in0 # switches.en_in1
  BY <1>2, <1>3 DEF NumbersOK
<1>10. ASSUME NEW k \in DOMAIN switches.eq_trigger
       PROVE  /\ switches.eq_trigger[k] \notin {switches.en_in0, switches.en_in1}
              /\ \A j \in DOMAIN switches.eq_trigger \ {k} :
                   switches.eq_trigger[j] # switches.eq_trigger[k]
  <2>1. \A j \in DOMAIN switches.eq_trigger : switches.eq_trigger[j] \in Nat /\ j \in Nat
    BY <1>3
  <2>2. /\ switches.en_in1 = switches.en_in0 + 1
        /\ switches.en_in1 < switches.eq_trigger[k]
        /\ \A i, j \in DOMAIN switches.eq_trigger :
             j < i => switches.eq_trigger[j] < switches.eq_trigger[i]
    BY <1>2 DEF NumbersOK
  <2>3. switches.eq_trigger[k] \notin {switches.en_in0, switches.en_in1}
    BY <1>3, <2>1, <2>2
  <2>4. ASSUME NEW j \in DOMAIN switches.eq_trigger, j # k
        PROVE  switches.eq_trigger[j] # switches.eq_trigger[k]
    <3>1. j < k \/ k < j
      BY <2>1, <2>4
    <3>2. switches.eq_trigger[j] < switches.eq_trigger[k] \/ switches.eq_trigger[k] < switches.eq_trigger[j]
      BY <2>2, <3>1
    <3> QED BY <2>1, <3>2
  <2> QED BY <2>3, <2>4
<1> QED BY <1>7, <1>8, <1>9, <1>10 DEF SolverAsksQuestion

\* When MakeSolver has returned, and after every case that was found, the solver's
\* clauses ask exactly what the search is for (mergeselection.cpp 56-127,
\* glucoseInterface.cpp 103-167, 256-270): the copies compute their circuits with the
\* seed 0, 1, 0 and 1, the copies of a half have the same inputs, the right seed value
\* gives the right outputs and the wrong one does not, every trigger assumed makes its
\* candidate equal, and no case found before is found again.
THEOREM SearchIsEncoded == FrontEndSpec => []SolverAsksQuestion
<1>1. FrontEndInit => FrontInv /\ EncodeInv
  BY InitFrontInv, InitEncodeInv
<1>2. FrontInv /\ EncodeInv /\ [FrontEndNext]_frontVars => (FrontInv /\ EncodeInv)'
  BY StepFrontInv, StepEncodeInv
<1>3. FrontInv /\ EncodeInv => SolverAsksQuestion
  BY QuestionAsked
<1> QED BY <1>1, <1>2, <1>3, PTL DEF FrontEndSpec

-----------------------------------------------------------------------------
(***************************************************************************)
(* What the clauses of getDC's two solvers ask, from its constructor to    *)
(* the last case that is stored.                                           *)
(***************************************************************************)

\* The ends of the copies getDC makes: of impl at 0 and at ImplAt(1), of spec in check.
CheckIns  == Vars(spec, CheckAt, c.inputs)
CheckOuts == Vars(spec, CheckAt, c.outputs)
ImplIns(k) == Vars(impl, ImplAt(k), c.inputs)

\* Where the two solvers' copies lie.
LEMMA OnSetBlocks ==
  ASSUME SearchOK
  PROVE  /\ ImplAt(0) = 0 /\ ImplAt(1) = CheckAt /\ CheckAt = numVars(impl) /\ CheckAt \in Nat
         /\ Total \in Nat /\ CheckAt <= Total
         /\ CheckIns \in Seq(0 .. Total - 1) /\ DOMAIN CheckIns = DOMAIN c.inputs
         /\ CheckOuts \in Seq(0 .. Total - 1) /\ DOMAIN CheckOuts = DOMAIN c.outputs
         /\ \A j \in DOMAIN c.outputs : CheckOuts[j] \in Nat /\ CheckAt <= CheckOuts[j]
         /\ LiteralsBelow(CopyClauses(impl, 0), Total)
         /\ LiteralsBelow(CopyClauses(impl, ImplAt(1)), Total)
         /\ LiteralsBelow(CopyClauses(spec, CheckAt), Total)
         /\ \A i \in {seed} \cup Cands \cup Ends : Vars(impl, 0, <<i>>)[1] \in 0 .. CheckAt - 1
<1>1. /\ CnfOK(impl) /\ CnfOK(spec) /\ Named(impl, {seed} \cup Cands \cup Ends) /\ Named(spec, Ends)
      /\ c.inputs \in Seq(DOMAIN nodes) /\ c.outputs \in Seq(DOMAIN nodes)
  BY DEF SearchOK, CnfsOK
<1>2. PICK a \in Nat : a = numVars(impl)
  BY <1>1 DEF CnfOK
<1>3. PICK b \in Nat : b = numVars(spec)
  BY <1>1 DEF CnfOK
<1>4. /\ ImplAt(0) = 0 /\ ImplAt(1) = a /\ CheckAt = a
      /\ Total \in Nat /\ a <= Total /\ a + a <= Total /\ a + b <= Total
  BY <1>2, <1>3 DEF ImplAt, CheckAt, Total
<1>5. /\ LiteralsBelow(CopyClauses(impl, 0), Total)
      /\ LiteralsBelow(CopyClauses(impl, a), Total)
      /\ LiteralsBelow(CopyClauses(spec, a), Total)
  <2>1. /\ \A cl \in impl.clauses : \A v \in DOMAIN cl : v \in 0 .. a - 1 /\ cl[v] \in BOOLEAN
        /\ \A cl \in spec.clauses : \A v \in DOMAIN cl : v \in 0 .. b - 1 /\ cl[v] \in BOOLEAN
    BY <1>1, <1>2, <1>3 DEF CnfOK
  <2>2. 0 + a <= Total
    BY <1>4
  <2>3. LiteralsBelow(CopyClauses(impl, 0), Total)
    BY <1>4, <2>1, <2>2, CopyLiterals
  <2>4. LiteralsBelow(CopyClauses(impl, a), Total)
    BY <1>4, <2>1, CopyLiterals
  <2>5. LiteralsBelow(CopyClauses(spec, a), Total)
    BY <1>4, <2>1, CopyLiterals
  <2> QED BY <2>3, <2>4, <2>5
<1>6. ASSUME NEW S, S \subseteq Ends, NEW ids \in Seq(S)
      PROVE  /\ Vars(spec, CheckAt, ids) \in Seq(0 .. Total - 1)
             /\ DOMAIN Vars(spec, CheckAt, ids) = DOMAIN ids
             /\ \A j \in DOMAIN ids : Vars(spec, CheckAt, ids)[j] \in Nat
                                        /\ CheckAt <= Vars(spec, CheckAt, ids)[j]
  <2> DEFINE vs == Vars(spec, CheckAt, ids)
             block == CheckAt .. CheckAt + numVars(spec) - 1
             all == 0 .. Total - 1
  <2>1. Named(spec, S)
    BY <1>1, <1>6 DEF Named
  <2>2. vs \in Seq(block) /\ DOMAIN vs = DOMAIN ids
    BY <1>1, <1>4, <2>1, VarsInBlock
  <2>3. block \subseteq all /\ \A v \in block : v \in Nat /\ CheckAt <= v
    BY <1>3, <1>4
  <2> HIDE DEF vs, block, all
  <2>4. vs \in Seq(all)
    BY <2>2, <2>3, LargerRange
  <2>5. \A j \in DOMAIN vs : vs[j] \in block
    BY <2>2, PairElements
  <2> QED BY <2>2, <2>3, <2>4, <2>5 DEF vs, all
<1>7. /\ CheckIns \in Seq(0 .. Total - 1) /\ DOMAIN CheckIns = DOMAIN c.inputs
      /\ CheckOuts \in Seq(0 .. Total - 1) /\ DOMAIN CheckOuts = DOMAIN c.outputs
      /\ \A j \in DOMAIN c.outputs : CheckOuts[j] \in Nat /\ CheckAt <= CheckOuts[j]
  <2> DEFINE I == ToSet(c.inputs)
             O == ToSet(c.outputs)
  <2>1. c.inputs \in Seq(I) /\ c.outputs \in Seq(O) /\ I \subseteq Ends /\ O \subseteq Ends
    BY <1>1, OwnElements DEF Ends
  <2> HIDE DEF I, O
  <2> QED BY <1>6, <2>1 DEF CheckIns, CheckOuts
<1>8. ASSUME NEW i \in {seed} \cup Cands \cup Ends
      PROVE  Vars(impl, 0, <<i>>)[1] \in 0 .. CheckAt - 1
  <2>1. Named(impl, {i})
    BY <1>1 DEF Named
  <2>2. Vars(impl, 0, <<i>>)[1] \in 0 .. 0 + numVars(impl) - 1
    BY <1>1, <2>1, VarInBlock
  <2> QED BY <1>2, <1>4, <2>2
<1> QED BY <1>2, <1>4, <1>5, <1>7, <1>8

\* What check asks, apart from the cases it has been asked about: both copies
\* compute their circuits, with the same inputs and the same outputs.
CheckHolds(m) ==
  /\ SatisfiesMaps({v \in Nat : v + 0 \in m}, impl.clauses)
  /\ SatisfiesMaps({v \in Nat : v + CheckAt \in m}, spec.clauses)
  /\ Same(m, ImplIns(0), CheckIns) /\ Same(m, ImplOuts(0), CheckOuts)

\* What main asks of the two copies of impl: the seed is 1 and 0, the inputs are
\* the same; the outputs are not; the pattern of the signals is new.
MainHolds(m) ==
  /\ \A k \in 0 .. 1 : SatisfiesMaps({v \in Nat : v + ImplAt(k) \in m}, impl.clauses)
  /\ Vars(impl, ImplAt(0), <<seed>>)[1] \in m /\ Vars(impl, ImplAt(1), <<seed>>)[1] \notin m
  /\ Same(m, ImplIns(0), ImplIns(1))
Distinguished(m) == Differ(m, ImplOuts(0), ImplOuts(1))
NewPattern(m, sigs, cases) == \A p \in cases : {i \in sigs : Vars(impl, 0, <<i>>)[1] \in m} # p

\* The solvers getDC's constructor makes.
TiedMain ==
  LET twice == AddCNF(AddCNF(NewSolver, impl, 0), impl, ImplAt(1))
      forced == AddClauses(twice, {{Lit(Vars(impl, 0, <<seed>>)[1], TRUE)},
                                   {Lit(Vars(impl, ImplAt(1), <<seed>>)[1], FALSE)}})
  IN  setEqual(forced, Vars(impl, 0, c.inputs), Vars(impl, ImplAt(1), c.inputs))
FirstMain == setNEqual(TiedMain, Vars(impl, 0, c.outputs), Vars(impl, ImplAt(1), c.outputs))
FirstCheck ==
  LET both == AddCNF(AddCNF(NewSolver, impl, 0), spec, CheckAt)
      same(s, ids) == setEqual(s, Vars(impl, 0, ids), Vars(spec, CheckAt, ids))
  IN  same(same(both, c.inputs), c.outputs)

\* The ends of the copies of impl below Total.
LEMMA ImplEnds ==
  ASSUME SearchOK, NEW k \in 0 .. 1
  PROVE  /\ ImplIns(k) \in Seq(0 .. Total - 1) /\ DOMAIN ImplIns(k) = DOMAIN c.inputs
         /\ ImplOuts(k) \in Seq(0 .. Total - 1) /\ DOMAIN ImplOuts(k) = DOMAIN c.outputs
         /\ Vars(impl, ImplAt(k), <<seed>>)[1] \in 0 .. Total - 1
<1>1. k \in 0 .. 3
  OBVIOUS
<1> QED BY <1>1, EndsInBlocks DEF ImplIns, ImplOuts

\* A solver well formed with clauses below a bound added.
LEMMA AddedOK ==
  ASSUME NEW s, SolverOK(s), NEW cls, NEW bound \in Nat, LiteralsBelow(cls, bound)
  PROVE  SolverOK(AddClauses(s, cls))
BY AddedLiterals

\* A copy of a well-formed CNF added.
LEMMA AddedCopy ==
  ASSUME NEW s, NEW cnf, CnfOK(cnf), NEW offset \in Nat, NEW m
  PROVE  Satisfies(m, AddCNF(s, cnf, offset).clauses) <=>
           Satisfies(m, s.clauses) /\ SatisfiesMaps({v \in Nat : v + offset \in m}, cnf.clauses)
<1>1. \A cl \in cnf.clauses : \A v \in DOMAIN cl : v \in Nat /\ cl[v] \in BOOLEAN
  BY DEF CnfOK
<1> QED BY <1>1, CopyIsEncoded

\* The first clauses of check.
LEMMA CheckFirst ==
  ASSUME SearchOK
  PROVE  /\ SolverOK(FirstCheck)
         /\ \A m : Satisfies(m, FirstCheck.clauses) <=> CheckHolds(m)
         /\ \A j \in DOMAIN c.outputs : CheckOuts[j] < FirstCheck.nVars
<1> DEFINE one == AddCNF(NewSolver, impl, 0)
           both == AddCNF(one, spec, CheckAt)
           ins == setEqual(both, ImplIns(0), CheckIns)
           outs == setEqual(ins, ImplOuts(0), CheckOuts)
           S == 0 .. Total - 1
<1>1. /\ ImplAt(0) = 0 /\ CheckAt \in Nat /\ Total \in Nat
      /\ CheckIns \in Seq(S) /\ DOMAIN CheckIns = DOMAIN c.inputs
      /\ CheckOuts \in Seq(S) /\ DOMAIN CheckOuts = DOMAIN c.outputs
      /\ \A j \in DOMAIN c.outputs : CheckOuts[j] \in Nat /\ CheckAt <= CheckOuts[j]
      /\ LiteralsBelow(CopyClauses(impl, 0), Total)
      /\ LiteralsBelow(CopyClauses(spec, CheckAt), Total)
  BY OnSetBlocks
<1>2. /\ ImplIns(0) \in Seq(S) /\ DOMAIN ImplIns(0) = DOMAIN c.inputs
      /\ ImplOuts(0) \in Seq(S) /\ DOMAIN ImplOuts(0) = DOMAIN c.outputs
  <2>1. 0 \in 0 .. 1
    OBVIOUS
  <2> QED BY <2>1, ImplEnds
<1>3. FirstCheck = outs
  BY <1>1 DEF FirstCheck, ImplIns, ImplOuts, CheckIns, CheckOuts
<1>4. CnfOK(impl) /\ CnfOK(spec) /\ \A v \in S : v \in Nat
  BY DEF SearchOK, CnfsOK
<1> HIDE DEF S
<1>5. /\ \A j \in DOMAIN ImplIns(0) : ImplIns(0)[j] \in Nat /\ CheckIns[j] \in Nat
      /\ \A j \in DOMAIN ImplOuts(0) : ImplOuts(0)[j] \in Nat /\ CheckOuts[j] \in Nat
  <2>1. /\ \A j \in DOMAIN ImplIns(0) : ImplIns(0)[j] \in S /\ CheckIns[j] \in S
        /\ \A j \in DOMAIN ImplOuts(0) : ImplOuts(0)[j] \in S /\ CheckOuts[j] \in S
    BY <1>1, <1>2, PairElements
  <2> QED BY <1>4, <2>1
<1>6. ASSUME NEW m
      PROVE  Satisfies(m, outs.clauses) <=> CheckHolds(m)
  <2>1. Satisfies(m, NewSolver.clauses)
    BY DEF NewSolver, Satisfies
  <2>2. Satisfies(m, one.clauses) <=> SatisfiesMaps({v \in Nat : v + 0 \in m}, impl.clauses)
    BY <1>4, <2>1, AddedCopy
  <2> HIDE DEF one
  <2>3. Satisfies(m, both.clauses) <=>
          Satisfies(m, one.clauses) /\ SatisfiesMaps({v \in Nat : v + CheckAt \in m}, spec.clauses)
    BY <1>1, <1>4, AddedCopy
  <2> HIDE DEF both
  <2>4. Satisfies(m, ins.clauses) <=> Satisfies(m, both.clauses) /\ Same(m, ImplIns(0), CheckIns)
    BY <1>5, EqualityIsEncoded DEF Same
  <2> HIDE DEF ins
  <2>5. Satisfies(m, outs.clauses) <=> Satisfies(m, ins.clauses) /\ Same(m, ImplOuts(0), CheckOuts)
    BY <1>5, EqualityIsEncoded DEF Same
  <2> QED BY <2>2, <2>3, <2>4, <2>5 DEF CheckHolds
<1>7. SolverOK(outs)
  <2>1. SolverOK(NewSolver)
    BY DEF SolverOK, NewSolver, LiteralsBelow
  <2>2. SolverOK(one)
    BY <1>1, <2>1, AddedOK DEF AddCNF
  <2> HIDE DEF one
  <2>3. SolverOK(both)
    BY <1>1, <2>2, AddedOK DEF AddCNF
  <2> HIDE DEF both
  <2>4. SolverOK(ins)
    BY <1>1, <1>2, <2>3, EqualKeepsOK DEF S
  <2> HIDE DEF ins
  <2> QED BY <1>1, <1>2, <2>4, EqualKeepsOK DEF S
<1>8. ASSUME NEW j \in DOMAIN c.outputs
      PROVE  CheckOuts[j] < outs.nVars
  <2>1. ImplOuts(0)[j] \in Nat /\ ImplOuts(0)[j] < CheckAt
    <3> DEFINE i == c.outputs[j]
    <3>1. i \in Ends /\ ImplOuts(0)[j] = Vars(impl, 0, <<i>>)[1]
      BY <1>1 DEF Ends, ToSet, ImplOuts, Vars
    <3>2. Vars(impl, 0, <<i>>)[1] \in 0 .. CheckAt - 1
      <4> HIDE DEF i
      <4> QED BY <3>1, OnSetBlocks
    <3> QED BY <1>1, <3>1, <3>2
  <2>2. j \in DOMAIN ImplOuts(0) /\ ImplOuts(0)[j] # CheckOuts[j] /\ CheckOuts[j] \in Nat
    BY <1>1, <1>2, <2>1
  <2> HIDE DEF ins
  <2> QED BY <1>7, <2>2, TiedBelow
<1> HIDE DEF outs
<1> QED BY <1>3, <1>6, <1>7, <1>8

\* Every output but the seed and the inputs is in a clause of impl (CNFGenerator
\* writes clauses for every gate of at most two inputs).
OutputsNamed ==
  \A i \in ToSet(c.outputs) \ ({seed} \cup ToSet(c.inputs)) :
    \E cl \in impl.clauses : GetIndex(impl, nodes[i].name) \in DOMAIN cl

\* The clauses of main before setNEqual; an output that is named has a variable.
LEMMA MainTied ==
  ASSUME SearchOK
  PROVE  /\ SolverOK(TiedMain)
         /\ \A m : Satisfies(m, TiedMain.clauses) <=> MainHolds(m)
         /\ OutputsNamed => \A j \in DOMAIN c.outputs : ImplOuts(1)[j] < TiedMain.nVars
<1> DEFINE one == AddCNF(NewSolver, impl, 0)
           twice == AddCNF(one, impl, ImplAt(1))
           v0 == Vars(impl, 0, <<seed>>)[1]
           v1 == Vars(impl, ImplAt(1), <<seed>>)[1]
           units == {{Lit(v0, TRUE)}, {Lit(v1, FALSE)}}
           forced == AddClauses(twice, units)
           tied == setEqual(forced, ImplIns(0), ImplIns(1))
           S == 0 .. Total - 1
<1>1. /\ ImplAt(0) = 0 /\ ImplAt(1) \in Nat /\ Total \in Nat
      /\ LiteralsBelow(CopyClauses(impl, 0), Total)
      /\ LiteralsBelow(CopyClauses(impl, ImplAt(1)), Total)
      /\ CnfOK(impl) /\ \A v \in S : v \in Nat
  <2>1. CnfOK(impl)
    BY DEF SearchOK, CnfsOK
  <2>2. ImplAt(1) \in Nat
    BY OnSetBlocks
  <2> QED BY <2>1, <2>2, OnSetBlocks
<1>2. /\ ImplIns(0) \in Seq(S) /\ ImplIns(1) \in Seq(S) /\ DOMAIN ImplIns(1) = DOMAIN ImplIns(0)
      /\ v0 \in S /\ v1 \in S
  <2>1. 0 \in 0 .. 1 /\ 1 \in 0 .. 1
    OBVIOUS
  <2> QED BY <1>1, <2>1, ImplEnds
<1>3. TiedMain = tied
  BY <1>1 DEF TiedMain, ImplIns
<1> HIDE DEF S
<1>4. v0 \in Nat /\ v1 \in Nat /\ \A j \in DOMAIN ImplIns(0) : ImplIns(0)[j] \in Nat /\ ImplIns(1)[j] \in Nat
  <2>1. \A j \in DOMAIN ImplIns(0) : ImplIns(0)[j] \in S /\ ImplIns(1)[j] \in S
    BY <1>2, PairElements
  <2> QED BY <1>1, <1>2, <2>1
<1> HIDE DEF v0, v1
<1>5. ASSUME NEW m
      PROVE  Satisfies(m, tied.clauses) <=> MainHolds(m)
  <2>1. Satisfies(m, NewSolver.clauses)
    BY DEF NewSolver, Satisfies
  <2>2. Satisfies(m, one.clauses) <=> SatisfiesMaps({v \in Nat : v + 0 \in m}, impl.clauses)
    <3>1. CnfOK(impl) /\ 0 \in Nat
      BY <1>1
    <3> QED BY <2>1, <3>1, AddedCopy
  <2> HIDE DEF one
  <2>3. Satisfies(m, twice.clauses) <=>
          Satisfies(m, one.clauses) /\ SatisfiesMaps({v \in Nat : v + ImplAt(1) \in m}, impl.clauses)
    BY <1>1, AddedCopy
  <2> HIDE DEF twice
  <2>4. Satisfies(m, units) <=> v0 \in m /\ v1 \notin m
    <3>1. (\E l \in {Lit(v0, TRUE)} : Holds(m, l)) <=> (v0 \in m <=> TRUE)
      <4>1. Holds(m, Lit(v0, TRUE)) <=> (v0 \in m <=> TRUE)
        BY <1>4, LitHolds
      <4> QED BY <4>1
    <3>2. (\E l \in {Lit(v1, FALSE)} : Holds(m, l)) <=> (v1 \in m <=> FALSE)
      <4>1. Holds(m, Lit(v1, FALSE)) <=> (v1 \in m <=> FALSE)
        BY <1>4, LitHolds
      <4> QED BY <4>1
    <3> QED BY <3>1, <3>2, Zenon DEF Satisfies
  <2> HIDE DEF units
  <2>5. Satisfies(m, forced.clauses) <=> Satisfies(m, twice.clauses) /\ Satisfies(m, units)
    BY AddedClauses
  <2> HIDE DEF forced
  <2>6. Satisfies(m, tied.clauses) <=> Satisfies(m, forced.clauses) /\ Same(m, ImplIns(0), ImplIns(1))
    BY <1>4, EqualityIsEncoded DEF Same
  <2> HIDE DEF tied
  <2>7. MainHolds(m) <=>
          /\ SatisfiesMaps({v \in Nat : v + 0 \in m}, impl.clauses)
          /\ SatisfiesMaps({v \in Nat : v + ImplAt(1) \in m}, impl.clauses)
          /\ v0 \in m /\ v1 \notin m /\ Same(m, ImplIns(0), ImplIns(1))
    <3>1. \A k : k \in 0 .. 1 <=> k = 0 \/ k = 1
      OBVIOUS
    <3>2. (\A k \in 0 .. 1 : SatisfiesMaps({v \in Nat : v + ImplAt(k) \in m}, impl.clauses)) <=>
            /\ SatisfiesMaps({v \in Nat : v + ImplAt(0) \in m}, impl.clauses)
            /\ SatisfiesMaps({v \in Nat : v + ImplAt(1) \in m}, impl.clauses)
      BY <3>1
    <3> QED BY <1>1, <3>2 DEF MainHolds, v0, v1
  <2> QED BY <2>2, <2>3, <2>4, <2>5, <2>6, <2>7
<1>6. SolverOK(forced)
  <2>1. SolverOK(NewSolver)
    BY DEF SolverOK, NewSolver, LiteralsBelow
  <2>2. SolverOK(one)
    BY <1>1, <2>1, AddedOK DEF AddCNF
  <2> HIDE DEF one
  <2>3. SolverOK(twice)
    BY <1>1, <2>2, AddedOK DEF AddCNF
  <2> HIDE DEF twice
  <2>4. LiteralsBelow(units, Total)
    <3>1. Lit(v0, TRUE) \in (0 .. Total - 1) \X BOOLEAN /\ Lit(v1, FALSE) \in (0 .. Total - 1) \X BOOLEAN
      BY <1>1, <1>2, LitBelow DEF S
    <3> QED BY <3>1 DEF LiteralsBelow
  <2> HIDE DEF units
  <2> QED BY <1>1, <2>3, <2>4, AddedOK
<1>7. SolverOK(tied)
  <2> HIDE DEF forced
  <2> QED BY <1>1, <1>2, <1>6, EqualKeepsOK DEF S
<1>8. ASSUME OutputsNamed, NEW j \in DOMAIN c.outputs
      PROVE  ImplOuts(1)[j] < tied.nVars
  <2> DEFINE i == c.outputs[j]
             g == GetIndex(impl, nodes[i].name)
             a == ImplAt(1)
  <2>1. ImplOuts(1)[j] = g + a
    BY DEF ImplOuts, Vars
  <2>2. ImplOuts(1)[j] \in Nat
    <3>1. 1 \in 0 .. 1
      OBVIOUS
    <3>2. ImplOuts(1) \in Seq(S) /\ DOMAIN ImplOuts(1) = DOMAIN c.outputs
      BY <3>1, ImplEnds DEF S
    <3>3. ImplOuts(1)[j] \in S
      BY <3>2, PairElements
    <3> QED BY <1>1, <3>3
  <2>3. g \in Nat /\ a \in Nat /\ a > 0
    <3>1. i \in Ends
      BY DEF Ends, ToSet
    <3>2. CnfOK(impl) /\ nodes[i].name \in DOMAIN impl.signals
      BY <3>1 DEF SearchOK, CnfsOK, Named
    <3>3. g \in 0 .. numVars(impl) - 1 /\ numVars(impl) \in Nat
      BY <3>2 DEF CnfOK, GetIndex
    <3>4. a = numVars(impl)
      BY OnSetBlocks
    <3> HIDE DEF g, a
    <3> QED BY <3>3, <3>4
  <2>4. \E l \in UNION tied.clauses : l[1] = g + a
    <3>1. /\ CopyClauses(impl, a) \subseteq tied.clauses /\ units \subseteq tied.clauses
      BY DEF AddCNF, AddClauses, setEqual
    <3>2. CASE i = seed
      <4>1. v1 = g + a
        BY <3>2 DEF v1, Vars
      <4>2. Lit(v1, FALSE) \in UNION tied.clauses
        BY <3>1
      <4>3. Lit(v1, FALSE)[1] = v1
        BY <1>4 DEF Lit
      <4> QED BY <4>1, <4>2, <4>3
    <3>3. CASE i # seed /\ i \notin ToSet(c.inputs)
      <4>1. PICK cl \in impl.clauses : g \in DOMAIN cl
        BY <1>8, <3>3 DEF OutputsNamed, ToSet
      <4> DEFINE copy == {Lit(v + a, cl[v]) : v \in DOMAIN cl}
      <4>2. copy \in CopyClauses(impl, a)
        BY DEF CopyClauses
      <4>3. Lit(g + a, cl[g]) \in copy
        BY <4>1
      <4>4. Lit(g + a, cl[g])[1] = g + a
        BY <2>1, <2>2 DEF Lit
      <4> HIDE DEF copy
      <4> QED BY <3>1, <4>2, <4>3, <4>4
    <3>4. CASE i # seed /\ i \in ToSet(c.inputs)
      <4>1. PICK n \in DOMAIN c.inputs : c.inputs[n] = i
        BY <3>4 DEF ToSet
      <4> DEFINE cl == {} \cup {Lit(ImplIns(0)[n], TRUE), Lit(ImplIns(1)[n], FALSE)}
      <4>2. /\ DOMAIN ImplIns(0) = DOMAIN c.inputs
            /\ ImplIns(0)[n] = g + 0 /\ ImplIns(1)[n] = g + a
        BY <1>1, <4>1 DEF ImplIns, Vars
      <4>3. g + a # g + 0
        BY <2>3
      <4>4. cl \in EqualClauses({}, ImplIns(0)[n], ImplIns(1)[n])
        BY DEF EqualClauses
      <4>5. cl \in TieClauses(ImplIns(0), ImplIns(1))
        BY <4>1, <4>2, <4>3, <4>4 DEF TieClauses
      <4>6. TieClauses(ImplIns(0), ImplIns(1)) \subseteq tied.clauses
        BY DEF setEqual, AddClauses
      <4>7. Lit(g + a, FALSE) \in cl
        BY <4>2
      <4>8. Lit(g + a, FALSE)[1] = g + a
        BY <2>1, <2>2 DEF Lit
      <4> HIDE DEF cl, tied
      <4> QED BY <4>5, <4>6, <4>7, <4>8
    <3> QED BY <3>2, <3>3, <3>4
  <2> HIDE DEF tied, g, a
  <2>5. PICK l \in UNION tied.clauses : l[1] = g + a
    BY <2>4
  <2>6. l \in (0 .. tied.nVars - 1) \X BOOLEAN /\ tied.nVars \in Nat
    BY <1>7 DEF SolverOK, LiteralsBelow
  <2> QED BY <2>1, <2>5, <2>6
<1> HIDE DEF tied
<1> QED BY <1>3, <1>5, <1>7, <1>8

\* The outputs of the two copies of impl, one block above the other.
LEMMA OutsApart ==
  ASSUME SearchOK
  PROVE  /\ Len(c.outputs) \in Nat /\ DOMAIN c.outputs = 1 .. Len(c.outputs)
         /\ \A k \in 0 .. 1 : ImplOuts(k) \in Seq(Nat) /\ DOMAIN ImplOuts(k) = 1 .. Len(c.outputs)
         /\ \A j \in 1 .. Len(c.outputs) :
              /\ ImplOuts(0)[j] \in Nat /\ ImplOuts(0)[j] < CheckAt
              /\ ImplOuts(1)[j] \in Nat /\ CheckAt <= ImplOuts(1)[j]
<1> DEFINE L == Len(c.outputs)
           S == 0 .. Total - 1
<1>1. L \in Nat /\ DOMAIN c.outputs = 1 .. L
  BY DEF SearchOK
<1>2. ASSUME NEW k \in 0 .. 1
      PROVE  ImplOuts(k) \in Seq(Nat) /\ DOMAIN ImplOuts(k) = 1 .. L
  <2>1. ImplOuts(k) \in Seq(S) /\ DOMAIN ImplOuts(k) = 1 .. L
    BY <1>1, ImplEnds
  <2>2. S \subseteq Nat
    BY OnSetBlocks
  <2> HIDE DEF S, L
  <2> QED BY <2>1, <2>2, LargerRange
<1>3. ASSUME NEW j \in 1 .. L
      PROVE  /\ ImplOuts(0)[j] \in Nat /\ ImplOuts(0)[j] < CheckAt
             /\ ImplOuts(1)[j] \in Nat /\ CheckAt <= ImplOuts(1)[j]
  <2> DEFINE i == c.outputs[j]
             g == GetIndex(impl, nodes[i].name)
  <2>1. i \in Ends
    BY <1>1 DEF Ends, ToSet
  <2>2. Vars(impl, 0, <<i>>)[1] = g + 0
    BY DEF Vars
  <2>3. CheckAt \in Nat /\ ImplAt(0) = 0 /\ ImplAt(1) = CheckAt
    BY OnSetBlocks
  <2>4. ImplOuts(0)[j] = g + 0 /\ ImplOuts(1)[j] = g + CheckAt
    BY <1>1, <2>3 DEF ImplOuts, Vars
  <2>5. g \in 0 .. CheckAt - 1
    <3>1. CnfOK(impl) /\ nodes[i].name \in DOMAIN impl.signals
      BY <2>1 DEF SearchOK, CnfsOK, Named
    <3>2. g \in 0 .. numVars(impl) - 1
      BY <3>1 DEF CnfOK, GetIndex
    <3> QED BY <3>2 DEF CheckAt
  <2> HIDE DEF g
  <2> QED BY <2>3, <2>4, <2>5
<1> QED BY <1>1, <1>2, <1>3

\* Without outputs the seed would matter nowhere.
LEMMA OutputsMatter ==
  ASSUME SearchOK, Off # {}
  PROVE  Len(c.outputs) > 0
<1> SUFFICES ASSUME ~(Len(c.outputs) > 0) PROVE FALSE
  OBVIOUS
<1>1. DOMAIN c.outputs = {}
  BY OutsApart
<1>2. \A T : Outs(T) = {}
  BY <1>1 DEF Outs, ToSet
<1>3. \A x, b : Right(x, b)
  BY <1>2 DEF Right
<1> QED BY <1>3 DEF Off

\* What the two solvers of the enumeration ask.  The variables of check from base on
\* are the controls of the cases it has been asked about.
CheckOK(d, base) ==
  /\ d.check.nVars = base + Cardinality(d.cases) /\ CheckAt <= base
  /\ \A m, n \in SUBSET Nat :
       (\A v \in 0 .. base - 1 : v \in n <=> v \in m) => (CheckHolds(m) <=> CheckHolds(n))
  /\ \A m \in SUBSET Nat :
       Satisfies(m, d.check.clauses) <=>
         CheckHolds(m) /\ \A v \in base .. base + Cardinality(d.cases) - 1 : v \notin m

MainOK(d, base) ==
  /\ \A m, n \in SUBSET Nat :
       (\A v \in 0 .. base - 1 : v \in n <=> v \in m) => (MainHolds(m) <=> MainHolds(n))
  /\ \A m \in SUBSET Nat :
       Satisfies(m, d.main.clauses) <=>
         /\ MainHolds(m) /\ Differing(m, base, ImplOuts(0), ImplOuts(1))
         /\ NewPattern(m, d.signals, d.cases)
  /\ OutputsNamed => /\ CheckAt < base /\ \A j \in DOMAIN c.outputs : ImplOuts(1)[j] < base
                     /\ d.main.nVars = base + Len(c.outputs)

EnumerationOK(d) ==
  /\ DOMAIN d = {"signals", "cases", "main", "check"}
  /\ d.signals \subseteq Cands /\ IsFiniteSet(d.cases)
  /\ SolverOK(d.check) /\ SolverOK(d.main)
  /\ \E base \in Nat : CheckOK(d, base)
  /\ \E base \in Nat : MainOK(d, base)

OnSetInv == pc = "onset" => EnumerationOK(dc) /\ Len(c.outputs) > 0

\* A step that leaves the circuit, the seed and the CNFs alone changes nothing of it.
LEMMA SameEnumeration ==
  ASSUME UNCHANGED <<readVars, seedVars>>
  PROVE  EnumerationOK(dc)' <=> EnumerationOK(dc')
<1>1. /\ impl' = impl /\ spec' = spec /\ seed' = seed /\ cand_inputs' = cand_inputs
      /\ lexer' = lexer /\ c' = c /\ nodes' = nodes
  BY DEF readVars, seedVars, c, nodes
<1>2. \A k : ImplOuts(k)' = ImplOuts(k) /\ ImplIns(k)' = ImplIns(k)
  BY <1>1 DEF ImplOuts, ImplIns, Vars, ImplAt
<1>3. CheckIns' = CheckIns /\ CheckOuts' = CheckOuts /\ CheckAt' = CheckAt
  BY <1>1 DEF CheckIns, CheckOuts, Vars, CheckAt
<1>4. \A m : CheckHolds(m)' <=> CheckHolds(m)
  BY <1>1, <1>2, <1>3 DEF CheckHolds
<1>5. \A m : MainHolds(m)' <=> MainHolds(m)
  BY <1>1, <1>2 DEF MainHolds, Vars, ImplAt
<1>6. \A m, sigs, cases : NewPattern(m, sigs, cases)' <=> NewPattern(m, sigs, cases)
  BY <1>1 DEF NewPattern, Vars
<1>7. OutputsNamed' <=> OutputsNamed
  BY <1>1 DEF OutputsNamed
<1>8. \A base : CheckOK(dc, base)' <=> CheckOK(dc', base)
  BY <1>3, <1>4 DEF CheckOK
<1>9. \A base : MainOK(dc, base)' <=> MainOK(dc', base)
  BY <1>1, <1>2, <1>3, <1>5, <1>6, <1>7 DEF MainOK
<1>10. Cands' = Cands
  BY <1>1 DEF Cands
<1> QED BY <1>8, <1>9, <1>10 DEF EnumerationOK

\* check before the first case.
LEMMA FirstCheckOK ==
  ASSUME SearchOK, Len(c.outputs) > 0, NEW d, d.check = FirstCheck, d.cases = {}
  PROVE  FirstCheck.nVars \in Nat /\ CheckOK(d, FirstCheck.nVars)
<1> DEFINE base == FirstCheck.nVars
<1>1. /\ SolverOK(FirstCheck)
      /\ \A m : Satisfies(m, FirstCheck.clauses) <=> CheckHolds(m)
      /\ \A j \in DOMAIN c.outputs : CheckOuts[j] < base
  BY CheckFirst
<1>2. base \in Nat /\ WellNumbered(FirstCheck)
  BY <1>1, SolverNumbered DEF SolverOK
<1>3. CheckAt <= base
  <2>1. 1 \in DOMAIN c.outputs
    BY OutsApart
  <2>2. CheckOuts[1] \in Nat /\ CheckAt <= CheckOuts[1] /\ CheckAt \in Nat /\ CheckOuts[1] < base
    BY <1>1, <2>1, OnSetBlocks
  <2> HIDE DEF base
  <2> QED BY <1>2, <2>2
<1>4. ASSUME NEW m \in SUBSET Nat, NEW n \in SUBSET Nat, \A v \in 0 .. base - 1 : v \in n <=> v \in m
      PROVE  CheckHolds(m) <=> CheckHolds(n)
  <2>1. Satisfies(m, FirstCheck.clauses) => Satisfies(n, FirstCheck.clauses)
    BY <1>2, <1>4, AgreementSuffices
  <2>2. Satisfies(n, FirstCheck.clauses) => Satisfies(m, FirstCheck.clauses)
    BY <1>2, <1>4, AgreementSuffices
  <2> QED BY <1>1, <2>1, <2>2
<1>5. Cardinality(d.cases) = 0
  BY FS_EmptySet
<1> HIDE DEF base
<1>6. base .. base + Cardinality(d.cases) - 1 = {}
  BY <1>2, <1>5
<1>7. d.check.nVars = base + Cardinality(d.cases)
  BY <1>2, <1>5 DEF base
<1>8. \A m \in SUBSET Nat :
        Satisfies(m, d.check.clauses) <=>
          CheckHolds(m) /\ \A v \in base .. base + Cardinality(d.cases) - 1 : v \notin m
  BY <1>1, <1>6
<1> QED BY <1>2, <1>3, <1>4, <1>7, <1>8 DEF CheckOK, base

\* main before the first case.
LEMMA FirstMainOK ==
  ASSUME SearchOK, Len(c.outputs) > 0, NEW d, d.main = FirstMain, d.cases = {}
  PROVE  SolverOK(FirstMain) /\ TiedMain.nVars \in Nat /\ MainOK(d, TiedMain.nVars)
<1> DEFINE base == TiedMain.nVars
           L == Len(c.outputs)
           vs == ImplOuts(0)
           ws == ImplOuts(1)
           S == 0 .. Total - 1
<1>1. /\ SolverOK(TiedMain)
      /\ \A m : Satisfies(m, TiedMain.clauses) <=> MainHolds(m)
      /\ OutputsNamed => \A j \in DOMAIN c.outputs : ws[j] < base
  BY MainTied
<1>2. base \in Nat /\ WellNumbered(TiedMain)
  BY <1>1, SolverNumbered DEF SolverOK
<1>3. /\ L \in Nat /\ DOMAIN c.outputs = 1 .. L /\ CheckAt \in Nat /\ Total \in Nat
      /\ vs \in Seq(Nat) /\ ws \in Seq(Nat) /\ DOMAIN vs = 1 .. L /\ DOMAIN ws = 1 .. L
      /\ \A j \in 1 .. L : /\ vs[j] \in Nat /\ vs[j] < CheckAt
                           /\ ws[j] \in Nat /\ CheckAt <= ws[j]
  <2>1. 0 \in 0 .. 1 /\ 1 \in 0 .. 1
    OBVIOUS
  <2> QED BY <2>1, OutsApart, OnSetBlocks
<1>4. vs \in Seq(S) /\ ws \in Seq(S)
  <2>1. 0 \in 0 .. 1 /\ 1 \in 0 .. 1
    OBVIOUS
  <2> QED BY <2>1, ImplEnds
<1>5. FirstMain = setNEqual(TiedMain, vs, ws)
  <2>1. ImplAt(0) = 0
    BY OnSetBlocks
  <2> QED BY <2>1 DEF FirstMain, ImplOuts
<1> HIDE DEF vs, ws, L
<1>6. SolverOK(FirstMain)
  <2>1. DOMAIN ws = DOMAIN vs
    BY <1>3
  <2> QED BY <1>1, <1>3, <1>4, <1>5, <2>1, DifferKeepsOK
<1>7. ASSUME NEW m \in SUBSET Nat, NEW n \in SUBSET Nat, \A v \in 0 .. base - 1 : v \in n <=> v \in m
      PROVE  MainHolds(m) <=> MainHolds(n)
  <2>1. Satisfies(m, TiedMain.clauses) => Satisfies(n, TiedMain.clauses)
    BY <1>2, <1>7, AgreementSuffices
  <2>2. Satisfies(n, TiedMain.clauses) => Satisfies(m, TiedMain.clauses)
    BY <1>2, <1>7, AgreementSuffices
  <2> QED BY <1>1, <2>1, <2>2
<1>8. ASSUME NEW m \in SUBSET Nat
      PROVE  Satisfies(m, FirstMain.clauses) <=> MainHolds(m) /\ Differing(m, base, vs, ws)
  <2>1. DOMAIN ws = DOMAIN vs
    BY <1>3
  <2>2. TiedMain.nVars \in Nat /\ vs \in Seq(Nat) /\ ws \in Seq(Nat)
    BY <1>2, <1>3
  <2>3. Satisfies(m, setNEqual(TiedMain, vs, ws).clauses) <=>
          Satisfies(m, TiedMain.clauses) /\ Differing(m, TiedMain.nVars, vs, ws)
    BY <2>1, <2>2, DifferenceMeans DEF Differing
  <2> QED BY <1>1, <1>5, <2>3
<1>9. ASSUME OutputsNamed
      PROVE  CheckAt < base /\ FirstMain.nVars = base + L
  <2> HIDE DEF base, S
  <2>1. ASSUME NEW j \in 1 .. L
        PROVE  vs[j] \in Nat /\ vs[j] < base /\ ws[j] \in Nat /\ ws[j] < base
    <3>1. CheckAt \in Nat /\ base \in Nat
      BY <1>2, <1>3
    <3>2. vs[j] \in Nat /\ vs[j] < CheckAt /\ ws[j] \in Nat /\ CheckAt <= ws[j]
      BY <1>3
    <3>3. j \in DOMAIN c.outputs
      BY <1>3
    <3>4. ws[j] < base
      BY <1>1, <1>9, <3>3
    <3> QED BY <3>1, <3>2, <3>4
  <2>2. \A j \in 1 .. L : ws[j] \in Nat /\ ws[j] < base
    BY <2>1
  <2>3. vs \in Seq(0 .. base - 1) /\ Len(vs) = L
    BY <1>2, <1>3, <1>4, <2>1, BoundedElements
  <2>4. ws \in Seq(0 .. base - 1) /\ Len(ws) = L
    BY <1>2, <1>3, <1>4, <2>2, BoundedElements
  <2>5. setNEqual(TiedMain, vs, ws).nVars = TiedMain.nVars + Len(vs)
    <3>1. DOMAIN ws = DOMAIN vs
      BY <1>3
    <3> QED BY <1>2, <2>3, <2>4, <3>1, AuxiliariesAreFresh DEF base
  <2>6. L > 0
    BY DEF L
  <2>7. 1 \in 1 .. L
    BY <1>3, <2>6
  <2>8. CheckAt < base
    BY <1>2, <1>3, <2>2, <2>7
  <2> QED BY <1>5, <2>3, <2>5, <2>8 DEF base
<1>10. \A m : NewPattern(m, d.signals, d.cases)
  BY DEF NewPattern
<1> HIDE DEF base
<1>11. MainOK(d, base)
  <2>1. \A m \in SUBSET Nat :
          Satisfies(m, d.main.clauses) <=>
            /\ MainHolds(m) /\ Differing(m, base, ImplOuts(0), ImplOuts(1))
            /\ NewPattern(m, d.signals, d.cases)
    BY <1>8, <1>10 DEF vs, ws
  <2>2. OutputsNamed => /\ CheckAt < base /\ \A j \in DOMAIN c.outputs : ImplOuts(1)[j] < base
                        /\ d.main.nVars = base + Len(c.outputs)
    BY <1>1, <1>9 DEF ws, L, base
  <2> QED BY <1>7, <2>1, <2>2 DEF MainOK
<1> QED BY <1>2, <1>6, <1>11 DEF base

\* getDC's constructor.
LEMMA GetOnSetEncode ==
  ASSUME FrontInv, GetOnSet
  PROVE  OnSetInv'
<1>1. SearchOK
  BY InSearch DEF FrontInv, GetOnSet, Before
<1>2. UNCHANGED <<readVars, seedVars>> /\ c' = c
  BY DEF GetOnSet, readVars, c
<1>3. PICK sigs \in SUBSET Cands :
        /\ Off # {}
        /\ dc' = [signals |-> sigs, cases |-> {}, main |-> FirstMain, check |-> FirstCheck]
  BY DEF GetOnSet, FirstMain, TiedMain, FirstCheck
<1>4. Len(c.outputs) > 0
  BY <1>1, <1>3, OutputsMatter
<1> DEFINE d == [signals |-> sigs, cases |-> {}, main |-> FirstMain, check |-> FirstCheck]
<1>5. /\ DOMAIN d = {"signals", "cases", "main", "check"}
      /\ d.signals = sigs /\ d.cases = {} /\ d.main = FirstMain /\ d.check = FirstCheck
  OBVIOUS
<1>6. dc' = d
  BY <1>3
<1> HIDE DEF d
<1>7. SolverOK(FirstCheck)
  BY <1>1, CheckFirst
<1>8. FirstCheck.nVars \in Nat /\ CheckOK(d, FirstCheck.nVars)
  BY <1>1, <1>4, <1>5, FirstCheckOK
<1>9. SolverOK(FirstMain) /\ TiedMain.nVars \in Nat /\ MainOK(d, TiedMain.nVars)
  BY <1>1, <1>4, <1>5, FirstMainOK
<1>10. IsFiniteSet(d.cases)
  BY <1>5, FS_EmptySet
<1>11. EnumerationOK(d)
  BY <1>5, <1>7, <1>8, <1>9, <1>10 DEF EnumerationOK
<1>12. EnumerationOK(dc)'
  BY <1>2, <1>6, <1>11, SameEnumeration
<1> QED BY <1>2, <1>4, <1>12 DEF OnSetInv

\* Whether i is in x is a sign.
LEMMA SignOf ==
  ASSUME NEW i, NEW x
  PROVE  \E b \in BOOLEAN : b = (i \in x)
<1>1. CASE i \in x
  BY <1>1
<1>2. CASE ~(i \in x)
  <2>1. FALSE = (i \in x)
    BY <1>2
  <2> QED BY <2>1, Zenon
<1> QED BY <1>1, <1>2

\* A question of check ends with its control variable, the next one, switched off:
\* the clauses that fix the inputs ask nothing any more.
LEMMA AskedMeans ==
  ASSUME SearchOK, SolverOK(dc.check), CheckAt <= dc.check.nVars, NEW x
  PROVE  /\ SolverOK(Asked(x)) /\ Asked(x).nVars = dc.check.nVars + 1
         /\ \A m : Satisfies(m, Asked(x).clauses) <=> Satisfies(m, dc.check.clauses) /\ dc.check.nVars \notin m
<1> DEFINE s == dc.check
           control == s.nVars
           var(i) == Vars(impl, 0, <<i>>)[1]
           question(i) == {Lit(var(i), i \in x), Lit(control, FALSE)}
           fixed == {question(i) : i \in InputIds}
           off == {Lit(control, FALSE)}
           cls == fixed \cup {off}
<1>1. Asked(x) = AddClauses(s, cls)
  BY DEF Asked
<1>2. control \in Nat /\ CheckAt \in Nat
  BY OnSetBlocks DEF SolverOK
<1>3. ASSUME NEW i \in InputIds PROVE var(i) \in Nat /\ var(i) < control
  <2>1. var(i) \in 0 .. CheckAt - 1
    <3>1. i \in Ends
      BY DEF Ends, InputIds
    <3> QED BY <3>1, OnSetBlocks
  <2> HIDE DEF var
  <2> QED BY <1>2, <2>1
<1>4. \A m : Holds(m, Lit(control, FALSE)) <=> control \notin m
  <2> SUFFICES ASSUME NEW m PROVE Holds(m, Lit(control, FALSE)) <=> control \notin m
    OBVIOUS
  <2>1. Holds(m, Lit(control, FALSE)) <=> (control \in m <=> FALSE)
    BY <1>2, LitHolds
  <2> QED BY <2>1
<1>5. ASSUME NEW m PROVE Satisfies(m, cls) <=> control \notin m
  <2>1. \A i : Lit(control, FALSE) \in question(i)
    OBVIOUS
  <2>2. \A l \in off : l = Lit(control, FALSE)
    OBVIOUS
  <2>3. Lit(control, FALSE) \in off
    OBVIOUS
  <2> HIDE DEF question, off, control
  <2>4. Satisfies(m, cls) => Holds(m, Lit(control, FALSE))
    BY <2>2, Zenon DEF Satisfies
  <2>5. Holds(m, Lit(control, FALSE)) => Satisfies(m, cls)
    BY <2>1, <2>3, Zenon DEF Satisfies
  <2> QED BY <1>4, <2>4, <2>5
<1>6. PICK bound \in Nat : bound = control + 1
  <2> HIDE DEF control
  <2> QED BY <1>2
<1>7. LiteralsBelow(cls, bound)
  <2> DEFINE all == (0 .. bound - 1) \X BOOLEAN
  <2>1. control \in 0 .. bound - 1 /\ \A i \in InputIds : var(i) \in 0 .. bound - 1
    <3> HIDE DEF var, control
    <3> QED BY <1>2, <1>3, <1>6
  <2>2. Lit(control, FALSE) \in all
    <3> HIDE DEF control
    <3> QED BY <2>1, LitBelow
  <2>3. ASSUME NEW i \in InputIds PROVE Lit(var(i), i \in x) \in all
    <3>1. PICK b \in BOOLEAN : b = (i \in x)
      BY SignOf
    <3>2. Lit(var(i), b) \in all
      <4> HIDE DEF var
      <4> QED BY <2>1, LitBelow
    <3> HIDE DEF var, all
    <3> QED BY <3>1, <3>2, Zenon
  <2> HIDE DEF all, var, control
  <2>4. \A l \in UNION cls : l \in all
    BY <2>2, <2>3, Zenon
  <2> HIDE DEF cls
  <2> QED BY <2>4, Zenon DEF LiteralsBelow, all
<1>8. Lit(control, FALSE) \in UNION cls
  <2> HIDE DEF control, fixed
  <2> QED BY Zenon
<1> HIDE DEF cls
<1> DEFINE t == AddClauses(s, cls)
<1>9. /\ SolverOK(t) /\ t.nVars >= control /\ t.nVars <= bound
      /\ LiteralsBelow(cls, t.nVars)
  <2>1. control <= bound
    BY <1>2, <1>6
  <2> QED BY <1>7, <2>1, AddedLiterals
<1>10. \A m : Satisfies(m, t.clauses) <=> Satisfies(m, s.clauses) /\ control \notin m
  BY <1>5, AddedClauses
<1> HIDE DEF t
<1>11. t.nVars = control + 1
  <2>1. Lit(control, FALSE) = <<control, FALSE>>
    BY <1>2, SMT DEF Lit
  <2>2. Lit(control, FALSE) \in (0 .. t.nVars - 1) \X BOOLEAN
    BY <1>8, <1>9 DEF LiteralsBelow
  <2>3. t.nVars \in Nat
    BY <1>9 DEF SolverOK
  <2> HIDE DEF control
  <2>4. <<control, FALSE>> \in (0 .. t.nVars - 1) \X BOOLEAN
    BY <2>1, <2>2, Zenon
  <2> QED BY <1>2, <1>6, <1>9, <2>3, <2>4
<1> QED BY <1>1, <1>9, <1>10, <1>11 DEF t

\* A pattern of the signals is excluded.
LEMMA PatternExcluded ==
  ASSUME SearchOK, NEW sigs \in SUBSET Cands, NEW p \in SUBSET sigs
  PROVE  /\ LiteralsBelow({Excluding(impl, 0, sigs, p)}, CheckAt)
         /\ \A m : Satisfies(m, {Excluding(impl, 0, sigs, p)}) <=>
                     {i \in sigs : Vars(impl, 0, <<i>>)[1] \in m} # p
<1> DEFINE var(i) == Vars(impl, 0, <<i>>)[1]
           clause == Excluding(impl, 0, sigs, p)
<1>1. CheckAt \in Nat /\ \A i \in sigs : var(i) \in 0 .. CheckAt - 1
  BY OnSetBlocks
<1>2. clause = {Lit(var(i), i \notin p) : i \in sigs}
  BY DEF Excluding
<1> HIDE DEF var, clause
<1>3. LiteralsBelow({clause}, CheckAt)
  <2>1. ASSUME NEW i \in sigs
        PROVE  Lit(var(i), i \notin p) \in (0 .. CheckAt - 1) \X BOOLEAN
    <3>1. PICK b \in BOOLEAN : b = (i \notin p)
      OBVIOUS
    <3>2. Lit(var(i), b) \in (0 .. CheckAt - 1) \X BOOLEAN
      BY <1>1, LitBelow
    <3> QED BY <3>1, <3>2, Zenon
  <2>2. \A l \in clause : l \in (0 .. CheckAt - 1) \X BOOLEAN
    BY <1>2, <2>1, Zenon
  <2> QED BY <2>2, Zenon DEF LiteralsBelow
<1>4. ASSUME NEW m
      PROVE  Satisfies(m, {clause}) <=> {i \in sigs : var(i) \in m} # p
  <2>1. ASSUME NEW i \in sigs
        PROVE  Holds(m, Lit(var(i), i \notin p)) <=> (var(i) \in m <=> i \notin p)
    <3>1. var(i) \in Nat
      BY <1>1
    <3>2. PICK b \in BOOLEAN : b = (i \notin p)
      OBVIOUS
    <3>3. Holds(m, Lit(var(i), b)) <=> (var(i) \in m <=> b)
      BY <3>1, LitHolds
    <3> QED BY <3>2, <3>3, Zenon
  <2>2. Satisfies(m, {clause}) <=> \E l \in clause : Holds(m, l)
    BY Zenon DEF Satisfies
  <2>3. (\E l \in clause : Holds(m, l)) <=> \E i \in sigs : var(i) \in m <=> i \notin p
    BY <1>2, <2>1, Zenon
  <2>4. {i \in sigs : var(i) \in m} # p <=> \E i \in sigs : var(i) \in m <=> i \notin p
    OBVIOUS
  <2> QED BY <2>2, <2>3, <2>4
<1> QED BY <1>3, <1>4 DEF var, clause

\* A pattern more, and one control variable more.
LEMMA CheckGrows ==
  ASSUME SearchOK, EnumerationOK(dc), NEW x, NEW p, p \notin dc.cases, NEW d,
         d.check = Asked(x), d.cases = dc.cases \cup {p}
  PROVE  SolverOK(d.check) /\ IsFiniteSet(d.cases) /\ \E base \in Nat : CheckOK(d, base)
<1>1. PICK base \in Nat : CheckOK(dc, base)
  BY DEF EnumerationOK
<1> DEFINE n == Cardinality(dc.cases)
<1>2. /\ SolverOK(dc.check) /\ IsFiniteSet(dc.cases) /\ n \in Nat
      /\ IsFiniteSet(d.cases) /\ Cardinality(d.cases) = n + 1
  BY FS_CardinalityType, FS_AddElement DEF EnumerationOK
<1>3. CheckAt \in Nat /\ CheckAt <= base /\ dc.check.nVars = base + n
  BY <1>1, OnSetBlocks DEF CheckOK
<1> HIDE DEF n
<1>4. /\ SolverOK(Asked(x)) /\ Asked(x).nVars = dc.check.nVars + 1
      /\ \A m : Satisfies(m, Asked(x).clauses) <=> Satisfies(m, dc.check.clauses) /\ dc.check.nVars \notin m
  <2>1. CheckAt <= dc.check.nVars
    BY <1>2, <1>3
  <2> QED BY <1>2, <2>1, AskedMeans
<1>5. d.check.nVars = base + Cardinality(d.cases)
  BY <1>2, <1>3, <1>4
<1>6. ASSUME NEW m \in SUBSET Nat
      PROVE  Satisfies(m, d.check.clauses) <=>
               CheckHolds(m) /\ \A v \in base .. base + Cardinality(d.cases) - 1 : v \notin m
  <2>1. Satisfies(m, dc.check.clauses) <=>
          CheckHolds(m) /\ \A v \in base .. base + n - 1 : v \notin m
    BY <1>1 DEF CheckOK, n
  <2>2. base .. base + (n + 1) - 1 = (base .. base + n - 1) \cup {base + n}
    BY <1>2
  <2> QED BY <1>2, <1>3, <1>4, <2>1, <2>2
<1>7. CheckOK(d, base)
  BY <1>1, <1>3, <1>5, <1>6 DEF CheckOK
<1> QED BY <1>2, <1>4, <1>7

\* The pattern is excluded from main, whose variables stay what they are.
LEMMA MainGrows ==
  ASSUME SearchOK, EnumerationOK(dc), NEW p \in SUBSET dc.signals, NEW d, d.signals = dc.signals,
         d.main = AddClauses(dc.main, {Excluding(impl, 0, dc.signals, p)}), d.cases = dc.cases \cup {p}
  PROVE  SolverOK(d.main) /\ \E base \in Nat : MainOK(d, base)
<1>1. PICK base \in Nat : MainOK(dc, base)
  BY DEF EnumerationOK
<1> DEFINE cls == {Excluding(impl, 0, dc.signals, p)}
           t == AddClauses(dc.main, cls)
           shown(m) == {i \in dc.signals : Vars(impl, 0, <<i>>)[1] \in m}
<1>2. SolverOK(dc.main) /\ dc.main.nVars \in Nat /\ CheckAt \in Nat
  BY OnSetBlocks DEF EnumerationOK, SolverOK
<1>3. /\ LiteralsBelow(cls, CheckAt)
      /\ \A m : Satisfies(m, cls) <=> shown(m) # p
  <2>1. dc.signals \in SUBSET Cands
    BY DEF EnumerationOK
  <2> QED BY <2>1, PatternExcluded
<1> HIDE DEF cls, shown
<1>4. SolverOK(t) /\ \A m : Satisfies(m, t.clauses) <=> Satisfies(m, dc.main.clauses) /\ shown(m) # p
  BY <1>2, <1>3, AddedOK, AddedClauses
<1>5. ASSUME OutputsNamed
      PROVE  t.nVars = base + Len(c.outputs)
  <2>1. CheckAt < base /\ dc.main.nVars = base + Len(c.outputs) /\ Len(c.outputs) \in Nat
    BY <1>1, <1>5, OutsApart DEF MainOK
  <2>2. CheckAt <= dc.main.nVars
    BY <1>2, <2>1
  <2>3. LiteralsBelow(cls, dc.main.nVars)
    BY <1>2, <1>3, <2>2, LargerBound
  <2>4. t.nVars >= dc.main.nVars /\ t.nVars <= dc.main.nVars
    BY <1>2, <2>3, AddedLiterals
  <2>5. t.nVars \in Nat
    BY <1>4 DEF SolverOK
  <2> HIDE DEF t
  <2> QED BY <1>2, <2>1, <2>4, <2>5
<1>6. d.main = t
  BY DEF t, cls
<1> HIDE DEF t
<1>7. ASSUME NEW m
      PROVE  NewPattern(m, d.signals, d.cases) <=> NewPattern(m, dc.signals, dc.cases) /\ shown(m) # p
  BY DEF NewPattern, shown
<1>8. \A m \in SUBSET Nat :
        Satisfies(m, d.main.clauses) <=>
          /\ MainHolds(m) /\ Differing(m, base, ImplOuts(0), ImplOuts(1))
          /\ NewPattern(m, d.signals, d.cases)
  BY <1>1, <1>4, <1>6, <1>7 DEF MainOK
<1>9. MainOK(d, base)
  BY <1>1, <1>5, <1>6, <1>8 DEF MainOK
<1> QED BY <1>4, <1>6, <1>9

\* A case is stored.
LEMMA FindCaseEncode ==
  ASSUME FrontInv, OnSetInv, FindCase
  PROVE  OnSetInv'
<1>1. SearchOK
  BY InSearch DEF FrontInv, FindCase, Before
<1>2. UNCHANGED <<readVars, seedVars>> /\ c' = c
  BY DEF FindCase, readVars, c
<1>3. EnumerationOK(dc) /\ Len(c.outputs) > 0
  BY DEF OnSetInv, FindCase
<1>4. PICK x : /\ Pattern(x, dc.signals) \notin dc.cases
               /\ dc' = [dc EXCEPT !.cases = @ \cup {Pattern(x, dc.signals)},
                           !.main  = AddClauses(@, {Excluding(impl, 0, dc.signals, Pattern(x, dc.signals))}),
                           !.check = Asked(x)]
  BY DEF FindCase
<1> DEFINE p == Pattern(x, dc.signals)
           d == [dc EXCEPT !.cases = @ \cup {p},
                           !.main  = AddClauses(@, {Excluding(impl, 0, dc.signals, p)}),
                           !.check = Asked(x)]
<1>5. p \in SUBSET dc.signals /\ p \notin dc.cases
  BY <1>4 DEF Pattern
<1> HIDE DEF p
<1>6. DOMAIN dc = {"signals", "cases", "main", "check"} /\ dc.signals \subseteq Cands
  BY <1>3 DEF EnumerationOK
<1>7. /\ DOMAIN d = {"signals", "cases", "main", "check"}
      /\ d.signals = dc.signals /\ d.cases = dc.cases \cup {p}
      /\ d.main = AddClauses(dc.main, {Excluding(impl, 0, dc.signals, p)}) /\ d.check = Asked(x)
  BY <1>6
<1>8. dc' = d
  BY <1>4 DEF p
<1> HIDE DEF d
<1>9. SolverOK(d.check) /\ IsFiniteSet(d.cases) /\ \E base \in Nat : CheckOK(d, base)
  BY <1>1, <1>3, <1>5, <1>7, CheckGrows
<1>10. SolverOK(d.main) /\ \E base \in Nat : MainOK(d, base)
  BY <1>1, <1>3, <1>5, <1>7, MainGrows
<1>11. EnumerationOK(d)
  BY <1>6, <1>7, <1>9, <1>10 DEF EnumerationOK
<1>12. EnumerationOK(dc)'
  BY <1>2, <1>8, <1>11, SameEnumeration
<1> QED BY <1>2, <1>3, <1>12 DEF OnSetInv

\* No enumeration has begun.
LEMMA InitOnSetInv == FrontEndInit => OnSetInv
BY DEF FrontEndInit, OnSetInv

\* Every other step is outside the enumeration.
LEMMA StepOnSetInv ==
  ASSUME FrontInv, OnSetInv, [FrontEndNext]_frontVars
  PROVE  OnSetInv'
<1>1. CASE ReadAndOrder \/ StartSearch
  <2>1. pc' # "onset"
    BY <1>1 DEF ReadAndOrder, LexToken, EndOfFile, AssignStep, AssignAgain, AssignOrderReturns,
         SortByOrder, StartSearch
  <2> QED BY <2>1 DEF OnSetInv
<1>2. CASE AddCopies \/ TieInputs \/ TieOutputs \/ MakeSwitches \/ AddTrigger \/ RemoveCases
           \/ FindIn0Case \/ FindIn1Case \/ TimeOut
  <2>1. pc' # "onset"
    BY <1>2 DEF AddCopies, TieInputs, TieOutputs, MakeSwitches, AddTrigger, RemoveCases,
         FindIn0Case, FindIn1Case, TimeOut
  <2> QED BY <2>1 DEF OnSetInv
<1>3. CASE UNCHANGED frontVars
  <2>1. UNCHANGED <<readVars, seedVars>> /\ pc' = pc /\ dc' = dc /\ c' = c
    BY <1>3 DEF frontVars, readVars, c
  <2>2. EnumerationOK(dc)' <=> EnumerationOK(dc)
    BY <2>1, SameEnumeration
  <2> QED BY <2>1, <2>2 DEF OnSetInv
<1> QED BY <1>1, <1>2, <1>3, GetOnSetEncode, FindCaseEncode DEF FrontEndNext

\* The controls of the cases check has been asked about; main's auxiliary variables.
Controls == dc.check.nVars - Cardinality(dc.cases) .. dc.check.nVars - 1
Told     == dc.main.nVars - Len(c.outputs) .. dc.main.nVars - 1

\* What has been asked of check leaves it as it was: apart from the controls, which
\* are no signals of impl, its assignments are those of the first clauses.  main
\* finds nothing but inputs on which the seed matters, with a new pattern; and all
\* of them, when every output has a clause.
OnSetAsksQuestion ==
  pc = "onset" =>
    /\ \A v \in Controls : CheckAt <= v
    /\ \A m \in SUBSET Nat :
         CheckHolds(m) <=>
           \E n \in SUBSET Nat : Satisfies(n, dc.check.clauses) /\ AlikeApart(n, m, Controls)
    /\ \A n \in SUBSET Nat :
         Satisfies(n, dc.main.clauses) =>
           MainHolds(n) /\ Distinguished(n) /\ NewPattern(n, dc.signals, dc.cases)
    /\ OutputsNamed =>
         \A m \in SUBSET Nat :
           MainHolds(m) /\ Distinguished(m) /\ NewPattern(m, dc.signals, dc.cases) =>
             \E n \in SUBSET Nat : Satisfies(n, dc.main.clauses) /\ AlikeApart(n, m, Told)

\* What was asked of check about a case is switched off by the control of the case.
LEMMA CheckAsksAgain ==
  ASSUME SearchOK, EnumerationOK(dc)
  PROVE  /\ \A v \in Controls : CheckAt <= v
         /\ \A m \in SUBSET Nat :
              CheckHolds(m) <=>
                \E n \in SUBSET Nat : Satisfies(n, dc.check.clauses) /\ AlikeApart(n, m, Controls)
<1>1. PICK base \in Nat : CheckOK(dc, base)
  BY DEF EnumerationOK
<1> DEFINE k == Cardinality(dc.cases)
           block == base .. base + k - 1
<1>2. k \in Nat /\ CheckAt \in Nat /\ CheckAt <= base /\ dc.check.nVars = base + k
  BY <1>1, FS_CardinalityType, OnSetBlocks DEF EnumerationOK, CheckOK
<1>3. Controls = block
  <2> HIDE DEF k
  <2>1. (base + k) - k = base
    BY <1>2
  <2> QED BY <1>2, <2>1 DEF Controls, k
<1>4. /\ \A m \in SUBSET Nat :
           Satisfies(m, dc.check.clauses) <=> CheckHolds(m) /\ \A v \in block : v \notin m
      /\ \A m, n \in SUBSET Nat :
           (\A v \in 0 .. base - 1 : v \in n <=> v \in m) => (CheckHolds(m) <=> CheckHolds(n))
  BY <1>1 DEF CheckOK
<1> HIDE DEF k
<1>5. /\ \A v \in block : CheckAt <= v
      /\ \A v \in 0 .. base - 1 : v \in Nat \ block
  BY <1>2
<1> HIDE DEF block
<1>6. ASSUME NEW m \in SUBSET Nat, CheckHolds(m)
      PROVE  \E n \in SUBSET Nat : Satisfies(n, dc.check.clauses) /\ AlikeApart(n, m, block)
  <2> DEFINE n == m \ block
  <2>1. n \in SUBSET Nat /\ (\A v \in block : v \notin n) /\ AlikeApart(n, m, block)
    BY DEF AlikeApart
  <2>2. \A v \in 0 .. base - 1 : v \in n <=> v \in m
    BY <1>5
  <2> HIDE DEF n
  <2>3. CheckHolds(n)
    BY <1>4, <1>6, <2>1, <2>2
  <2> QED BY <1>4, <2>1, <2>3
<1>7. ASSUME NEW m \in SUBSET Nat, NEW n \in SUBSET Nat,
             Satisfies(n, dc.check.clauses), AlikeApart(n, m, block)
      PROVE  CheckHolds(m)
  <2>1. \A v \in 0 .. base - 1 : v \in n <=> v \in m
    BY <1>5, <1>7 DEF AlikeApart
  <2> QED BY <1>4, <1>7, <2>1
<1> QED BY <1>3, <1>5, <1>6, <1>7

\* main finds what it is asked for.
LEMMA MainAsksForNew ==
  ASSUME SearchOK, EnumerationOK(dc)
  PROVE  /\ \A n \in SUBSET Nat :
              Satisfies(n, dc.main.clauses) =>
                MainHolds(n) /\ Distinguished(n) /\ NewPattern(n, dc.signals, dc.cases)
         /\ OutputsNamed =>
              \A m \in SUBSET Nat :
                MainHolds(m) /\ Distinguished(m) /\ NewPattern(m, dc.signals, dc.cases) =>
                  \E n \in SUBSET Nat : Satisfies(n, dc.main.clauses) /\ AlikeApart(n, m, Told)
<1>1. PICK base \in Nat : MainOK(dc, base)
  BY DEF EnumerationOK
<1> DEFINE L == Len(c.outputs)
           vs == ImplOuts(0)
           ws == ImplOuts(1)
           block == base .. base + L - 1
<1>2. /\ \A m \in SUBSET Nat :
           Satisfies(m, dc.main.clauses) <=>
             MainHolds(m) /\ Differing(m, base, vs, ws) /\ NewPattern(m, dc.signals, dc.cases)
      /\ \A m, n \in SUBSET Nat :
           (\A v \in 0 .. base - 1 : v \in n <=> v \in m) => (MainHolds(m) <=> MainHolds(n))
  BY <1>1 DEF MainOK
<1>3. /\ L \in Nat /\ DOMAIN c.outputs = 1 .. L /\ CheckAt \in Nat
      /\ DOMAIN vs = 1 .. L /\ DOMAIN ws = 1 .. L
      /\ \A j \in 1 .. L : /\ vs[j] \in Nat /\ vs[j] < CheckAt /\ ws[j] \in Nat
  <2>1. 0 \in 0 .. 1 /\ 1 \in 0 .. 1
    OBVIOUS
  <2> QED BY <2>1, OutsApart, OnSetBlocks
<1>4. dc.signals \subseteq Cands /\ \A i \in Cands : Vars(impl, 0, <<i>>)[1] \in 0 .. CheckAt - 1
  BY OnSetBlocks DEF EnumerationOK
<1>5. \A m : Distinguished(m) <=> Differ(m, vs, ws)
  BY DEF Distinguished
<1>6. ASSUME OutputsNamed
      PROVE  /\ CheckAt < base /\ dc.main.nVars = base + L
             /\ \A j \in 1 .. L : ws[j] < base
  BY <1>1, <1>3, <1>6 DEF MainOK
<1> HIDE DEF L, vs, ws
<1>7. ASSUME NEW n \in SUBSET Nat, Satisfies(n, dc.main.clauses)
      PROVE  MainHolds(n) /\ Distinguished(n) /\ NewPattern(n, dc.signals, dc.cases)
  BY <1>2, <1>5, <1>7, DifferingDiffer
<1>8. ASSUME OutputsNamed, NEW m \in SUBSET Nat,
             MainHolds(m), Distinguished(m), NewPattern(m, dc.signals, dc.cases)
      PROVE  \E n \in SUBSET Nat : Satisfies(n, dc.main.clauses) /\ AlikeApart(n, m, Told)
  <2>1. Told = block
    <3>1. (base + L) - L = base
      BY <1>3
    <3> QED BY <1>6, <1>8, <3>1 DEF Told, L
  <2>2. Below(vs, L, base) /\ Below(ws, L, base)
    BY <1>3, <1>6, <1>8 DEF Below
  <2>3. PICK n \in SUBSET Nat : Differing(n, base, vs, ws) /\ AlikeApart(n, m, block)
    <3>1. Differ(m, vs, ws)
      BY <1>5, <1>8
    <3> QED BY <1>3, <2>2, <3>1, OneExtended
  <2>4. \A v \in 0 .. base - 1 : v \in n <=> v \in m
    <3>1. \A v \in 0 .. base - 1 : v \in Nat \ block
      BY <1>3
    <3> HIDE DEF block
    <3> QED BY <2>3, <3>1 DEF AlikeApart
  <2>5. MainHolds(n)
    BY <1>2, <1>8, <2>4
  <2>6. NewPattern(n, dc.signals, dc.cases)
    <3> DEFINE var(i) == Vars(impl, 0, <<i>>)[1]
    <3>1. \A i \in dc.signals : var(i) \in 0 .. base - 1
      <4>1. \A i \in dc.signals : var(i) \in 0 .. CheckAt - 1
        BY <1>4
      <4> HIDE DEF var
      <4> QED BY <1>3, <1>6, <1>8, <4>1
    <3> HIDE DEF var
    <3>2. {i \in dc.signals : var(i) \in n} = {i \in dc.signals : var(i) \in m}
      BY <2>4, <3>1
    <3> QED BY <1>8, <3>2 DEF NewPattern, var
  <2>7. Satisfies(n, dc.main.clauses)
    BY <1>2, <2>3, <2>5, <2>6
  <2> QED BY <2>1, <2>3, <2>7
<1> QED BY <1>7, <1>8

\* The two solvers of getDC ask what they are for from the first case to the last
\* (getDC.cpp 121-153, 183-189, 242-264; glucoseInterface.cpp 103-167): main for
\* inputs on which the seed matters and whose pattern has not been stored, check for
\* the value the seed must have there; a question put to check leaves nothing behind.
THEOREM OnSetIsEncoded == FrontEndSpec => []OnSetAsksQuestion
<1>1. FrontEndInit => FrontInv /\ OnSetInv
  BY InitFrontInv, InitOnSetInv
<1>2. FrontInv /\ OnSetInv /\ [FrontEndNext]_frontVars => (FrontInv /\ OnSetInv)'
  BY StepFrontInv, StepOnSetInv
<1>3. FrontInv /\ OnSetInv => OnSetAsksQuestion
  <2> SUFFICES ASSUME FrontInv, OnSetInv, pc = "onset" PROVE OnSetAsksQuestion
    BY DEF OnSetAsksQuestion
  <2>1. SearchOK
    BY InSearch DEF FrontInv, Before
  <2>2. EnumerationOK(dc)
    BY DEF OnSetInv
  <2> QED BY <2>1, <2>2, CheckAsksAgain, MainAsksForNew DEF OnSetAsksQuestion
<1> QED BY <1>1, <1>2, <1>3, PTL DEF FrontEndSpec
=============================================================================
