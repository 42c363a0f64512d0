------------------------------ MODULE FrontEnd ------------------------------
(***************************************************************************)
(* From the file to the solvers: main (src/src/main.cpp) reads the circuit *)
(* and orders its nodes (node.cpp), SelectMerge takes a first seed, and    *)
(* MergeSelection and getDC make the SAT instances all later decisions     *)
(* rest on (mergeselection.cpp, getDC.cpp).                                *)
(*                                                                         *)
(* main reads the file twice, for the specification and for the circuit it *)
(* rewrites; nothing is rewritten before the first seed, so one circuit    *)
(* stands for both here.                                                   *)
(***************************************************************************)
EXTENDS CnfEncoding

CONSTANTS
  Files,     \* records of a network `meant`, a `layout` and the `text`
  Returns,   \* FALSE: the compiler takes the end of AssignOrder for unreachable
  MaxOrder,  \* bound: no pass starts with an order above it
  MaxCases   \* bound on the cases found in one search, and in one enumeration

ASSUME FilesAssumption == \A f \in Files : Len(f.text) \in Nat
ASSUME ReturnsAssumption == Returns \in BOOLEAN
ASSUME MaxOrderAssumption == MaxOrder \in Nat

VARIABLES
  pc,
  file, pos,             \* the file and what is read of it
  lexer,
  order, all_nodes,      \* Node::order, and the circuit's vector of nodes
  visited, flag,              \* AssignOrder: nodes seen in this pass, something raised
  seed, cand_inputs,
  impl, spec,            \* the CNFs
  glu, switches,         \* the search's solver, its en_in0, en_in1, eq_trigger
  in0cases, in1cases,
  dc                     \* the enumeration's solvers, signals and cases

readVars   == <<file, pos, lexer>>
orderVars  == <<order, all_nodes, visited, flag>>
seedVars   == <<seed, cand_inputs, impl, spec>>
searchVars == <<glu, switches, in0cases, in1cases>>
frontVars  == <<pc, readVars, orderVars, seedVars, searchVars, dc>>

c == lexer.circuit
nodes == c.nodes

FrontEndInit ==
  /\ pc = "lex"
  /\ file \in Files /\ pos = 0
  /\ lexer = LexerInit
  /\ order = <<>> /\ all_nodes = <<>> /\ visited = 0 /\ flag = FALSE
  /\ seed = 0 /\ cand_inputs = <<>>
  /\ impl = <<>> /\ spec = <<>>
  /\ glu = NewSolver /\ switches = <<>>
  /\ in0cases = {} /\ in1cases = {}
  /\ dc = <<>>

-----------------------------------------------------------------------------
(* Reading and ordering *)

LexToken ==
  /\ pc = "lex" /\ pos < Len(file.text)
  /\ pos' = pos + 1
  /\ lexer' = Lex(lexer, file.text[pos + 1])
  /\ UNCHANGED <<pc, file, orderVars, seedVars, searchVars, dc>>

\* The end of the file: every node has order 0.
EndOfFile ==
  /\ pc = "lex" /\ pos = Len(file.text)
  /\ pc' = "order"
  /\ order' = [i \in DOMAIN nodes |-> 0]
  /\ all_nodes' = [i \in DOMAIN nodes |-> i]
  /\ UNCHANGED <<readVars, visited, flag, seedVars, searchVars, dc>>

\* Fault variant: the gate is raised and not its inputs.
RaisedGate(o, i) ==
  IF nodes[i].is_input THEN o
  ELSE [o EXCEPT ![i] = @ + Cardinality({j \in ToSet(nodes[i].inputs) : o[j] <= @})]

\* The inputs of a gate go above it (the gate is not one of them: the code
\* would see its new order halfway).
Raised(o, i) ==
  IF nodes[i].is_input THEN o
  ELSE [j \in DOMAIN o |-> IF j \in ToSet(nodes[i].inputs) /\ o[j] <= o[i] THEN o[i] + 1 ELSE o[j]]

AssignStep ==
  /\ pc = "order" /\ visited < Len(all_nodes)
  /\ visited' = visited + 1
  /\ order' = Raised(order, all_nodes[visited + 1])
  /\ flag' = (flag \/ order' # order)
  /\ UNCHANGED <<pc, readVars, all_nodes, seedVars, searchVars, dc>>

\* After a pass that raised something there is another one.  AssignOrder has no
\* return statement after the loop: a compiler may take it to have no end.
AssignAgain ==
  /\ pc = "order" /\ visited = Len(all_nodes)
  /\ flag \/ ~Returns
  /\ \A i \in DOMAIN order : order[i] <= MaxOrder
  /\ visited' = 0 /\ flag' = FALSE
  /\ UNCHANGED <<pc, readVars, order, all_nodes, seedVars, searchVars, dc>>

\* Fault variant: the loop is left after one pass.
LeaveAtOnce ==
  /\ pc = "order" /\ visited = Len(all_nodes)
  /\ Returns
  /\ pc' = "sort"
  /\ UNCHANGED <<readVars, orderVars, seedVars, searchVars, dc>>

AssignOrderReturns ==
  /\ pc = "order" /\ visited = Len(all_nodes)
  /\ ~flag /\ Returns
  /\ pc' = "sort"
  /\ UNCHANGED <<readVars, orderVars, seedVars, searchVars, dc>>

\* Fault variant: the nodes are sorted the other way.
SortedBack(s) ==
  \A i, j \in DOMAIN s : i < j => order[s[i]] >= order[s[j]]

Sorted(s) ==
  \A i, j \in DOMAIN s : i < j => order[s[i]] <= order[s[j]]

\* std::sort puts nodes of the same order in any order.
SortByOrder ==
  /\ pc = "sort"
  /\ pc' = "sorted"
  /\ \E s \in Bijection(DOMAIN nodes, DOMAIN nodes) : Sorted(s) /\ all_nodes' = s
  /\ UNCHANGED <<readVars, order, visited, flag, seedVars, searchVars, dc>>

-----------------------------------------------------------------------------
(* The first seed *)

\* What a walk from n along links reaches, n excepted.
Reached(links, n) ==
  LET closed == {S \in SUBSET DOMAIN nodes : n \in S /\ \A m \in S : links[m] \subseteq S}
  IN  {m \in DOMAIN nodes \ {n} : \A S \in closed : m \in S}

FanoutOf(n) == Reached([m \in DOMAIN nodes |-> ToSet(nodes[m].outputs)], n)
FaninOf(n)  == Reached([m \in DOMAIN nodes |-> ToSet(nodes[m].inputs)], n)

\* Fault variant: gates that depend on n are candidates.
CandInputsOfAll(n) ==
  LET pos_ == {m \in FanoutOf(n) \cup {n} : nodes[m].is_output}
      pis  == {m \in UNION {FaninOf(m) : m \in pos_} : nodes[m].is_input}
  IN  UNION {ToSet(nodes[m].inputs) : m \in (UNION {FanoutOf(m) : m \in pis}) \ {n}}

\* InitCand, when every cluster is a gate: the inputs of the gates that depend
\* on a primary input of the cones of n's outputs, and not on n.
CandInputs(n) ==
  LET pos_ == {m \in FanoutOf(n) \cup {n} : nodes[m].is_output}
      pis  == {m \in UNION {FaninOf(m) : m \in pos_} : nodes[m].is_input}
      cands == (UNION {FanoutOf(m) : m \in pis}) \ (FanoutOf(n) \cup {n})
  IN  UNION {ToSet(nodes[m].inputs) : m \in cands}

\* SelectMerge calls MergeSelection, whose constructor makes the CNFs: the
\* circuit with the seed cut open and the candidate inputs visible, and the
\* specification.  Circuit2Abc asserts that every cover has a row.
StartSearch ==
  /\ pc = "sorted"
  /\ \E n \in DOMAIN nodes :
       /\ ~nodes[n].is_input
       /\ nodes[n].outputs # <<>> \/ nodes[n].is_output
       /\ seed' = n
       /\ cand_inputs' = SetToSeq(CandInputs(n))
  /\ IF AllCovered(c, {seed'}) /\ AllCovered(c, {})
     THEN /\ pc' = "copies"
          /\ impl' = Cnf(c, all_nodes, {seed'}, cand_inputs')
          /\ spec' = Cnf(c, all_nodes, {}, <<>>)
     ELSE pc' = "aborted" /\ UNCHANGED <<impl, spec>>
  /\ UNCHANGED <<readVars, orderVars, searchVars, dc>>

-----------------------------------------------------------------------------
(* MakeSolver: four copies of impl, two of spec *)

ImplAt(copy) == numVars(impl) * copy
SpecAt(copy) == numVars(impl) * 4 + numVars(spec) * copy

\* The variables of the nodes with these numbers, in a copy of a CNF.
Vars(cnf, at, ids) == [k \in DOMAIN ids |-> GetIndex(cnf, nodes[ids[k]].name) + at]

\* The copies, with the seed 0, 1, 0 and 1 in the four of impl.
AddCopies ==
  /\ pc = "copies"
  /\ pc' = "inputs"
  /\ glu' = AddClauses(glu,
               (UNION {CopyClauses(impl, ImplAt(k)) : k \in 0 .. 3})
                 \cup (UNION {CopyClauses(spec, SpecAt(k)) : k \in 0 .. 1})
                 \cup {{Lit(Vars(impl, ImplAt(k), <<seed>>)[1], k % 2 # 0)} : k \in 0 .. 3})
  /\ UNCHANGED <<readVars, orderVars, seedVars, switches, in0cases, in1cases, dc>>

\* Copies 0 and 1 have the inputs of the first spec, 2 and 3 those of the second.
TieInputs ==
  /\ pc = "inputs"
  /\ pc' = "outputs"
  /\ glu' = AddClauses(glu, UNION {TieClauses(Vars(impl, ImplAt(k), c.inputs),
                                              Vars(spec, SpecAt(k \div 2), c.inputs)) : k \in 0 .. 3})
  /\ UNCHANGED <<readVars, orderVars, seedVars, switches, in0cases, in1cases, dc>>

\* With the seed 0 the first pair is right and with 1 wrong, the second pair
\* the other way round.
TieOutputs ==
  /\ pc = "outputs"
  /\ pc' = "switches"
  /\ LET i(k) == Vars(impl, ImplAt(k), c.outputs)
         s(k) == Vars(spec, SpecAt(k), c.outputs)
         equal == setEqual(setEqual(glu, i(0), s(0)), i(3), s(1))
     IN  glu' = setNEqual(setNEqual(equal, i(1), s(0)), i(2), s(1))
  /\ UNCHANGED <<readVars, orderVars, seedVars, switches, in0cases, in1cases, dc>>

\* "Not this pattern of the signals", in the copy at an offset.
Excluding(cnf, at, sigs, p) ==
  {Lit(Vars(cnf, at, <<i>>)[1], i \notin p) : i \in sigs}

Cands == ToSet(cand_inputs)

\* removeCase of each kind: while en_in0 (en_in1) is false, the pattern is not
\* found again.
Removals(sw, in0, in1) ==
  {Excluding(impl, 0, Cands, p) \cup {Lit(sw.en_in0, TRUE) : i \in Cands} : p \in in0} \cup
  {Excluding(impl, ImplAt(2), Cands, p) \cup {Lit(sw.en_in1, TRUE) : i \in Cands} : p \in in1}

\* en_in0 and en_in1 are the next two variables.
MakeSwitches ==
  /\ pc = "switches"
  /\ pc' = "triggers"
  /\ switches' = [en_in0 |-> glu.nVars, en_in1 |-> glu.nVars + 1, eq_trigger |-> <<>>]
  /\ glu' = [glu EXCEPT !.nVars = @ + 2]
  /\ UNCHANGED <<readVars, orderVars, seedVars, in0cases, in1cases, dc>>

\* A trigger for each candidate input, that makes it equal in copies 0 and 2: the
\* next variable each time.
AddTrigger ==
  /\ pc = "triggers" /\ Len(switches.eq_trigger) < Len(cand_inputs)
  /\ LET cand == <<cand_inputs[Len(switches.eq_trigger) + 1]>>
     IN  /\ switches' = [switches EXCEPT !.eq_trigger = Append(@, glu.nVars)]
         /\ glu' = ifTrue_thenEQ(glu, Vars(impl, 0, cand), Vars(impl, ImplAt(2), cand), glu.nVars)
  /\ UNCHANGED <<pc, readVars, orderVars, seedVars, in0cases, in1cases, dc>>

\* A solver that is made anew is told the cases again.
RemoveCases ==
  /\ pc = "triggers" /\ Len(switches.eq_trigger) = Len(cand_inputs)
  /\ pc' = "ask"
  /\ glu' = AddClauses(glu, Removals(switches, in0cases, in1cases))
  /\ UNCHANGED <<readVars, orderVars, seedVars, switches, in0cases, in1cases, dc>>

-----------------------------------------------------------------------------
(* What the circuit computes.  A valuation of the inputs is the set of those *)
(* that are 1, a valuation of the nodes likewise.                            *)

InputIds == ToSet(c.inputs)
Outs(T)  == T \cap ToSet(c.outputs)

GateIsOne(i, T) ==
  LET rows == ToSet(nodes[i].cube)
      fits(r) == \A k \in DOMAIN r[1] : Bool(r[1][k]) = (nodes[i].inputs[k] \in T)
  IN  \E r \in rows : fits(r) = Bool(r[2])

\* The nodes that are 1 on x, with node n held at b (no node if n is 0).
Eval(x, n, b) ==
  FoldLeft(LAMBDA T, i : IF (IF i = n THEN b ELSE ~nodes[i].is_input /\ GateIsOne(i, T))
                         THEN T \cup {i} ELSE T,
           x, Reverse(all_nodes))

Right(x, b) == Outs(Eval(x, seed, b)) = Outs(Eval(x, 0, FALSE))

\* The inputs on which the seed must be 0, or 1, for the outputs to be right.
Off == {x \in SUBSET InputIds : Right(x, FALSE) /\ ~Right(x, TRUE)}
On  == {x \in SUBSET InputIds : Right(x, TRUE) /\ ~Right(x, FALSE)}

Pattern(x, sigs) == Eval(x, seed, FALSE) \cap sigs
Patterns(X, sigs) == {Pattern(x, sigs) : x \in X}

-----------------------------------------------------------------------------
(* The search's cases: those the solver finds (SolverAnswersQuestion).  A    *)
(* candidate input that feeds the seed's fan-out only has the value the      *)
(* solver finds for it, for no candidate depends on the seed.  With no       *)
(* candidates the first cover fails, and nothing more is asked.              *)

FindIn0Case ==
  /\ pc = "ask" /\ Cands # {}
  /\ Cardinality(in0cases \cup in1cases) < MaxCases
  /\ \E p \in Patterns(Off, Cands) \ in0cases :
       /\ in0cases' = in0cases \cup {p}
       /\ glu' = AddClauses(glu, Removals(switches, {p}, {}))
  /\ UNCHANGED <<pc, readVars, orderVars, seedVars, switches, in1cases, dc>>

FindIn1Case ==
  /\ pc = "ask" /\ Cands # {}
  /\ Cardinality(in0cases \cup in1cases) < MaxCases
  /\ \E p \in Patterns(On, Cands) \ in1cases :
       /\ in1cases' = in1cases \cup {p}
       /\ glu' = AddClauses(glu, Removals(switches, {}, {p}))
  /\ UNCHANGED <<pc, readVars, orderVars, seedVars, switches, in0cases, dc>>

\* The alarm rings: the solver is thrown away and made anew.
TimeOut ==
  /\ pc = "ask"
  /\ pc' = "copies"
  /\ glu' = NewSolver
  /\ UNCHANGED <<readVars, orderVars, seedVars, switches, in0cases, in1cases, dc>>

-----------------------------------------------------------------------------
(* getDC, once the search has found inputs that separate Off and On          *)

CheckAt == numVars(impl)

GetOnSet ==
  /\ pc = "ask"
  /\ pc' = "onset"
  /\ \E sigs \in SUBSET Cands :
       /\ Off # {} /\ On # {} /\ Patterns(Off, sigs) \cap Patterns(On, sigs) = {}
       /\ LET ins == c.inputs  outs == c.outputs
              twice == AddCNF(AddCNF(NewSolver, impl, 0), impl, ImplAt(1))
              forced == AddClauses(twice, {{Lit(Vars(impl, 0, <<seed>>)[1], TRUE)},
                                           {Lit(Vars(impl, ImplAt(1), <<seed>>)[1], FALSE)}})
              tied == setEqual(forced, Vars(impl, 0, ins), Vars(impl, ImplAt(1), ins))
              both == AddCNF(AddCNF(NewSolver, impl, 0), spec, CheckAt)
              same(s, ids) == setEqual(s, Vars(impl, 0, ids), Vars(spec, CheckAt, ids))
          IN  dc' = [signals |-> sigs, cases |-> {},
                     main |-> setNEqual(tied, Vars(impl, 0, outs), Vars(impl, ImplAt(1), outs)),
                     check |-> same(same(both, ins), outs)]
  /\ UNCHANGED <<readVars, orderVars, seedVars, searchVars>>

\* Fault variant: the case's inputs stay fixed in check.
AskedForGood(x) ==
  AddClauses(dc.check, {{Lit(Vars(impl, 0, <<i>>)[1], i \in x)} : i \in InputIds})

\* check is asked about x under a control variable of its own, which is false
\* from then on.
Asked(x) ==
  LET control == dc.check.nVars
  IN  AddClauses(dc.check,
        {{Lit(Vars(impl, 0, <<i>>)[1], i \in x), Lit(control, FALSE)} : i \in InputIds}
          \cup {{Lit(control, FALSE)}})

\* The pattern of a case main has found is stored and excluded from main.
FindCase ==
  /\ pc = "onset"
  /\ Cardinality(dc.cases) < MaxCases
  /\ \E x \in {y \in Off \cup On : Pattern(y, dc.signals) \notin dc.cases} :
       LET p == Pattern(x, dc.signals)
       IN  dc' = [dc EXCEPT !.cases = @ \cup {p},
                            !.main  = AddClauses(@, {Excluding(impl, 0, dc.signals, p)}),
                            !.check = Asked(x)]
  /\ UNCHANGED <<pc, readVars, orderVars, seedVars, searchVars>>

ReadAndOrder ==
  LexToken \/ EndOfFile \/ AssignStep \/ AssignAgain \/ AssignOrderReturns \/ SortByOrder

FrontEndNext ==
  \/ ReadAndOrder
  \/ StartSearch \/ AddCopies \/ TieInputs \/ TieOutputs
  \/ MakeSwitches \/ AddTrigger \/ RemoveCases
  \/ FindIn0Case \/ FindIn1Case \/ TimeOut \/ GetOnSet \/ FindCase

FrontEndSpec == FrontEndInit /\ [][FrontEndNext]_frontVars

\* One thread reads and orders, and waits for nothing.
FrontEndFairSpec == FrontEndSpec /\ WF_frontVars(ReadAndOrder)

-----------------------------------------------------------------------------
\* The types of the lexer's, the circuit's and the searches' members.
FrontEndTypeOK ==
  /\ pc \in {"lex", "order", "sort", "sorted", "aborted", "copies", "inputs", "outputs",
             "switches", "triggers", "ask", "onset"}
  /\ pos \in 0 .. Len(file.text)
  /\ lexer.mode \in Keywords \cup {"none", "rows"}
  /\ lexer.current_node \in 0 .. Len(nodes)
  /\ \A i \in DOMAIN nodes : ToSet(nodes[i].inputs \o nodes[i].outputs) \subseteq DOMAIN nodes
  /\ \A i \in DOMAIN order : order[i] \in 0 .. MaxOrder + Len(nodes)
  /\ visited \in 0 .. Len(all_nodes) /\ flag \in BOOLEAN
  /\ seed \in 0 .. Len(nodes) /\ Cands \subseteq DOMAIN nodes \ {seed}
  /\ UNION glu.clauses \subseteq (0 .. glu.nVars - 1) \X BOOLEAN
  /\ UNION (in0cases \cup in1cases) \subseteq Cands

\* What the lexer makes of a file: the inputs, outputs and gates it means, each
\* gate with its inputs and rows in their order, and no node besides
\* (bfparser.l 38-93).  Two layouts are read as something else: a line of
\* names that is continued behind a backslash, and a constant's row without a
\* blank; and a name that is both input and output has two nodes.
ReadsAsMeant ==
  LET meant == file.meant
      id(n) == c.all_nodes_map[n]
      named == ToSet(meant.inputs \o meant.outputs)
                 \cup UNION {ToSet(Append(meant.gates[k].ins, meant.gates[k].out)) :
                               k \in DOMAIN meant.gates}
  IN  pc = "order" /\ file.layout \notin {"split", "bare"}
        /\ ToSet(meant.inputs) \cap ToSet(meant.outputs) = {} =>
      /\ NamesOf(c, c.inputs) = meant.inputs /\ NamesOf(c, c.outputs) = meant.outputs
      /\ DOMAIN c.all_nodes_map = named /\ Len(nodes) = Cardinality(named)
      /\ \A n \in named :
           /\ nodes[id(n)].name = n
           /\ nodes[id(n)].is_input = (n \in ToSet(meant.inputs))
           /\ nodes[id(n)].is_output = (n \in ToSet(meant.outputs))
           /\ LET gate == SelectSeq(meant.gates, LAMBDA g : g.out = n)
              IN  /\ NamesOf(c, nodes[id(n)].inputs) = FlattenSeq([k \in DOMAIN gate |-> gate[k].ins])
                  /\ nodes[id(n)].cube = FlattenSeq([k \in DOMAIN gate |-> gate[k].rows])

\* A file the writers write is read back as the same circuit, fan-out counts
\* and covers included, in whatever order the nodes are listed (node.cpp
\* 180-258, main.cpp 106).  Nodes called zero and one are excepted: the row
\* the writers give to one is not read as a row.
WrittenReadsBack ==
  pc \in {"order", "sorted"} /\ DOMAIN c.all_nodes_map \cap Constants = {} =>
    \A listed \in {all_nodes, Reverse(all_nodes)} : SameCircuit(Lexed(Written(c, listed)), c)

\* AssignOrder leaves every node one above the highest gate that reads it, at
\* 0 if there is none: the longest way to a node without readers, however the
\* nodes were listed (node.cpp 299-314).
OrderIsLongestPath ==
  pc \notin {"lex", "order"} =>
    \A i \in DOMAIN nodes :
      LET readers == {m \in DOMAIN nodes : ~nodes[m].is_input /\ i \in ToSet(nodes[m].inputs)}
      IN  order[i] = Max({0} \cup {order[m] + 1 : m \in readers})

\* After SortByOrder no node comes before a gate that reads it, whatever order
\* std::sort gives to equals (node.cpp 316-318, 324-326).
ReadersComeFirst ==
  pc \notin {"lex", "order", "sort"} =>
    \A j, k \in DOMAIN all_nodes :
      j < k /\ ~nodes[all_nodes[k]].is_input =>
        all_nodes[j] \notin ToSet(nodes[all_nodes[k]].inputs)

\* The assert on flag stops the program only on a circuit with a node nothing
\* drives, a constant without a row, or a name that is both input and output,
\* or on a layout that is misread (CNFGenerator.cpp 168-179).
OnlyOddFilesAbort ==
  LET meant == file.meant
      driven == {meant.gates[k].out : k \in {j \in DOMAIN meant.gates : meant.gates[j].rows # <<>>}}
      used == ToSet(meant.outputs) \cup UNION {ToSet(meant.gates[k].ins) : k \in DOMAIN meant.gates}
  IN  pc = "aborted" =>
        \/ file.layout \in {"split", "bare"}
        \/ ToSet(meant.inputs) \cap ToSet(meant.outputs) # {}
        \/ ~(used \subseteq driven \cup ToSet(meant.inputs))
        \/ \E k \in DOMAIN meant.gates : meant.gates[k].rows = <<>>

\* The models of a CNF are the valuations of its circuit: of impl with the seed
\* free, on the inputs, outputs and candidate inputs, and of spec
\* (CNFGenerator.cpp 111-185, 339-485).
CnfIsTheCircuit ==
  LET shown(cnf, ids) ==
        {{i \in ids : Vars(cnf, 0, <<i>>)[1] \in m} :
           m \in Models(AddCNF(NewSolver, cnf, 0).clauses, [k \in 1 .. numVars(cnf) |-> k - 1])}
      ends == ToSet(c.inputs \o c.outputs)
      seen == ends \cup {seed} \cup Cands
  IN  pc = "copies" =>
        /\ shown(impl, seen) = {Eval(x, seed, b) \cap seen : x \in SUBSET InputIds, b \in BOOLEAN}
        /\ shown(spec, ends) = {Eval(x, 0, FALSE) \cap ends : x \in SUBSET InputIds}

\* Models of a solver; the inputs in the copies at `impls` (of impl) and `specs`
\* (of spec) are chosen first, the variables in `free` not at all.
ModelsOf(s, cls, impls, specs, free) ==
  LET first == FlattenSeq([k \in DOMAIN c.inputs |->
                 [o \in DOMAIN specs |-> Vars(spec, specs[o], <<c.inputs[k]>>)[1]]
                   \o [o \in DOMAIN impls |-> Vars(impl, impls[o], <<c.inputs[k]>>)[1]]])
      rest == SelectSeq([k \in 1 .. s.nVars |-> k - 1],
                        LAMBDA v : v \notin ToSet(first) \cup free)
  IN  Models(cls, first \o rest)

\* Whatever solution the triggers assume and whichever kinds may be found
\* again, the instance has a model for exactly the pairs the search asks for: a
\* pattern where the seed must be 0 and one where it must be 1, equal on the
\* solution and, of a kind not given up, not removed.  No two constraints share
\* an auxiliary variable (mergeselection.cpp 56-127, 152-170;
\* glucoseInterface.cpp 103-167, 256-270).
SolverAnswersQuestion ==
  pc = "ask" =>
    LET en0 == switches.en_in0
        en1 == switches.en_in1
        trigger == switches.eq_trigger
        switch == {en0, en1} \cup ToSet(trigger)
        switched == {cl \in glu.clauses : \E l \in cl : l[1] \in switch}
        models == ModelsOf(glu, glu.clauses \ switched, [k \in 1 .. 4 |-> ImplAt(k - 1)],
                           <<SpecAt(0), SpecAt(1)>>, switch)
        shown(m, copy) == {i \in Cands : Vars(impl, ImplAt(copy), <<i>>)[1] \in m}
        holds(m, on) == \A cl \in switched : \E l \in cl : (l[1] \in m \cup on) = l[2]
    IN  \A T \in SUBSET DOMAIN cand_inputs, no0, no1 \in BOOLEAN :
          LET on == {trigger[k] : k \in T} \cup {v \in {en0} : no0} \cup {v \in {en1} : no1}
              solution == {cand_inputs[k] : k \in T}
          IN  {<<shown(m, 0), shown(m, 2)>> : m \in {n \in models : holds(n, on)}} =
              {q \in Patterns(Off, Cands) \X Patterns(On, Cands) :
                 /\ q[1] \cap solution = q[2] \cap solution
                 /\ no0 \/ q[1] \notin in0cases
                 /\ no1 \/ q[2] \notin in1cases}

\* main finds exactly the inputs on which the seed matters and whose pattern
\* has not been stored, and on each of them check has the value the seed must
\* have and the same pattern, however many questions it has been asked
\* (getDC.cpp 121-153, 184-189, 243-266).
OnSetAnswers ==
  pc = "onset" =>
    LET open == {x \in Off \cup On : Pattern(x, dc.signals) \notin dc.cases}
        var(i) == Vars(impl, 0, <<i>>)[1]
        shown(m, ids) == {i \in ids : var(i) \in m}
        fixed(x) == {{Lit(var(i), i \in x)} : i \in InputIds}
        answers(x) == ModelsOf(dc.check, dc.check.clauses \cup fixed(x), <<0>>, <<CheckAt>>, {})
    IN  /\ {shown(m, InputIds) : m \in ModelsOf(dc.main, dc.main.clauses, <<0, ImplAt(1)>>, <<>>, {})}
             = open
        /\ \A x \in open :
             {shown(m, {seed} \cup dc.signals) : m \in answers(x)}
               = {Pattern(x, dc.signals) \cup {s \in {seed} : x \in On}}

\* No gate is in its own fan-in.
Loopless ==
  \A i \in DOMAIN nodes : ~\E m \in FaninOf(i) : i \in ToSet(nodes[m].inputs)

\* AssignOrder comes to an end on a circuit without a combinational loop
\* ("assign order", node.h 95; the function is declared to return an int and
\* main goes on to sort, main.cpp 127-128).
AssignOrderEnds == pc = "order" /\ Loopless ~> pc = "sort"
=============================================================================
