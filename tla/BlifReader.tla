----------------------------- MODULE BlifReader -----------------------------
(***************************************************************************)
(* The lexer of src/src/parser/bfparser.l, which builds the circuit while  *)
(* it reads, and the writers of src/src/circuit/node.cpp.                  *)
(*                                                                         *)
(* A file is a sequence of tokens <<rule, value>>: the text of one match   *)
(* of the rule, with a name for {id} and a row <<input bits, value>> for   *)
(* {array}; "other" is what the rule `.` swallows, a backslash included.   *)
(* A node is named by its position in all_nodes as read.  A row has no     *)
(* dashes: covers of one cube are enough for what is checked here.         *)
(***************************************************************************)
EXTENDS Integers, SequencesExt

Token(rule) == <<rule, "">>
Id(n)       == <<"id", n>>
Row(r)      == <<"array", r>>

Keywords == {"model", "outputs", "inputs", "names", "end"}

EmptyCircuit ==
  [name |-> "", nodes |-> <<>>, inputs |-> <<>>, outputs |-> <<>>, all_nodes_map |-> <<>>]

\* The lexer's members; mode 254 is "none", 132 is "rows", the other modes are
\* called by their keywords.
LexerInit == [mode |-> "none", current_node |-> 0, nodes |-> <<>>, circuit |-> EmptyCircuit]

-----------------------------------------------------------------------------
(* The rules *)

\* A new node, which takes over its name in all_nodes_map.
WithNode(c, n, in, out) ==
  [c EXCEPT !.nodes = Append(@, [name |-> n, is_input |-> in, is_output |-> out,
                                 inputs |-> <<>>, outputs |-> <<>>, cube |-> <<>>]),
            !.all_nodes_map = [m \in {n} \cup DOMAIN @ |->
                                 IF m = n THEN Len(c.nodes) + 1 ELSE c.all_nodes_map[m]]]

Listed(l, c, id, in) ==
  [l EXCEPT !.current_node = id,
            !.circuit = [c EXCEPT !.inputs  = IF in THEN Append(@, id) ELSE @,
                                  !.outputs = IF in THEN @ ELSE Append(@, id)]]

\* A name after .inputs or .outputs is a new node, whether it is known or not.
Declared(l, n, in) ==
  Listed(l, WithNode(l.circuit, n, in, ~in), Len(l.circuit.nodes) + 1, in)

\* Fault variant: a node that was there does not become the current one.
MentionedAnew(l, n) ==
  LET known == n \in DOMAIN l.circuit.all_nodes_map
      c == IF known THEN l.circuit ELSE WithNode(l.circuit, n, FALSE, FALSE)
      id == c.all_nodes_map[n]
  IN  [l EXCEPT !.current_node = IF known THEN @ ELSE id, !.nodes = Append(@, id), !.circuit = c]

\* A name after .names is the node it names, made if there is none.
Mentioned(l, n) ==
  LET c == IF n \in DOMAIN l.circuit.all_nodes_map
           THEN l.circuit ELSE WithNode(l.circuit, n, FALSE, FALSE)
      id == c.all_nodes_map[n]
  IN  [l EXCEPT !.current_node = id, !.nodes = Append(@, id), !.circuit = c]

\* The elements of s that are in S, in their order.
Only(s, S) ==
  LET kept == {k \in DOMAIN s : s[k] \in S}
      nth(k) == CHOOSE i \in kept : Cardinality({j \in kept : j <= i}) = k
  IN  [k \in 1 .. Cardinality(kept) |-> s[nth(k)]]

\* Every other name of the line is linked to the last one, on both sides.
LinkedNodes(l) ==
  LET last == l.current_node
      ins == Only(l.nodes, ToSet(l.nodes) \ {last})
  IN  [i \in DOMAIN l.circuit.nodes |->
         [l.circuit.nodes[i] EXCEPT
            !.inputs  = IF i = last THEN @ \o ins ELSE @,
            !.outputs = @ \o [k \in 1 .. Len(Only(ins, {i})) |-> last]]]

\* Fault variant: the names of the line are not forgotten.
LinkedKeeping(l) == [l EXCEPT !.mode = "rows", !.circuit.nodes = LinkedNodes(l)]

\* The end of a line that began with .names.
Linked(l) == [l EXCEPT !.mode = "rows", !.nodes = <<>>, !.circuit.nodes = LinkedNodes(l)]

\* One match: every pair of a mode and a rule not listed does nothing.
Lex(l, t) ==
  CASE t[1] \in Keywords -> [l EXCEPT !.mode = t[1]]
    [] t[1] = "id" /\ l.mode = "model" -> [l EXCEPT !.circuit.name = t[2], !.mode = "none"]
    [] t[1] = "id" /\ l.mode \in {"inputs", "outputs"} -> Declared(l, t[2], l.mode = "inputs")
    [] t[1] = "id" /\ l.mode = "names" -> Mentioned(l, t[2])
    [] t[1] = "newline" /\ l.mode = "names" -> Linked(l)
    [] t[1] = "array" /\ l.mode = "rows" ->
         [l EXCEPT !.circuit.nodes[l.current_node].cube = Append(@, t[2])]
    [] OTHER -> l

Lexed(text) == FoldLeft(Lex, LexerInit, text).circuit

-----------------------------------------------------------------------------
(* The writers *)

Newline == Token("newline")

\* .inputs and .outputs: a backslash, a line break and a name each time.
NameList(c, ids) ==
  FlattenSeq([k \in DOMAIN ids |-> <<Token("other"), Newline, Id(c.nodes[ids[k]].name)>>])

\* A constant's row is written without the blank that {array} asks for.
Constant(c, n) ==
  IF n \in DOMAIN c.all_nodes_map
  THEN <<Token("names"), Id(n), Newline, Token("other"), Newline>> ELSE <<>>

Constants == {"zero", "one"}

InputNames(nodes, i) == [k \in DOMAIN nodes[i].inputs |-> Id(nodes[nodes[i].inputs[k]].name)]

Cover(nodes, i) ==
  FlattenSeq([k \in DOMAIN nodes[i].cube |-> <<Row(nodes[i].cube[k]), Newline>>])

\* Fault variant: the node's name is written before those of its inputs.
GateOutFirst(nodes, i) ==
  <<Token("names"), Id(nodes[i].name)>> \o InputNames(nodes, i) \o <<Newline>>
    \o Cover(nodes, i) \o <<Newline>>

\* .names, the inputs, the node, and the cover as it was read or built.
Gate(nodes, i) ==
  <<Token("names")>> \o InputNames(nodes, i) \o <<Id(nodes[i].name), Newline>>
    \o Cover(nodes, i) \o <<Newline>>

\* WriteBlif lists all_nodes, WriteBlif_m the members of one cluster after the
\* other, with a line of = before each: every node but the inputs once.
Written(c, listed) ==
  <<Token("model"), Id(c.name), Newline, Token("inputs")>> \o NameList(c, c.inputs)
    \o <<Newline, Token("outputs")>> \o NameList(c, c.outputs) \o <<Newline>>
    \o Constant(c, "zero") \o Constant(c, "one")
    \o FlattenSeq(LET gates == SelectSeq(listed, LAMBDA i : ~c.nodes[i].is_input
                                                       /\ c.nodes[i].name \notin Constants)
                  IN  [k \in DOMAIN gates |-> Gate(c.nodes, gates[k])])
    \o <<Token("end"), Newline, Newline>>

-----------------------------------------------------------------------------
(* What a circuit says, whatever the order of its nodes *)

NamesOf(c, ids) == [k \in DOMAIN ids |-> c.nodes[ids[k]].name]

NodeMeaning(c, i) ==
  [name |-> c.nodes[i].name, is_input |-> c.nodes[i].is_input,
   is_output |-> c.nodes[i].is_output, inputs |-> NamesOf(c, c.nodes[i].inputs),
   fanout |-> Len(c.nodes[i].outputs), cube |-> c.nodes[i].cube]

SameCircuit(c, d) ==
  /\ c.name = d.name /\ Len(c.nodes) = Len(d.nodes)
  /\ NamesOf(c, c.inputs) = NamesOf(d, d.inputs)
  /\ NamesOf(c, c.outputs) = NamesOf(d, d.outputs)
  /\ {NodeMeaning(c, i) : i \in DOMAIN c.nodes} = {NodeMeaning(d, i) : i \in DOMAIN d.nodes}
=============================================================================
