---------------------------- MODULE CnfEncoding ----------------------------
(***************************************************************************)
(* CNFGenerator (src/src/CNFGenerator/CNFGenerator.cpp) turns a circuit    *)
(* with some nodes cut open into numbered signals and clauses; GInterface  *)
(* (src/src/glucose-interface/glucoseInterface.cpp) builds a SAT instance  *)
(* from copies of them and constraints with auxiliary variables.           *)
(*                                                                         *)
(* A literal is <<variable, sign>>, a clause a set of literals.  ABC, which *)
(* CNFGenerator hands the circuit to, is external: it drops what no output *)
(* needs and gives back the other gates, inputs before readers.            *)
(***************************************************************************)
EXTENDS BlifReader

Bool(i) == i = 1

-----------------------------------------------------------------------------
(* CNFGenerator *)

\* Circuit2Abc passes over inputs, the nodes cut open (ex_in), and nodes that
\* carry the name of an input.
Given(c, ex_in) ==
  {i \in DOMAIN c.nodes :
     /\ ~c.nodes[i].is_input /\ i \notin ex_in
     /\ c.nodes[i].inputs # <<>> =>
          \A k \in DOMAIN c.inputs : c.nodes[c.inputs[k]].name # c.nodes[i].name}

\* The assert on flag: every cover handed on has a row.
AllCovered(c, ex_in) == \A i \in Given(c, ex_in) : c.nodes[i].cube # <<>>

\* The inputs and outputs of the ABC network: those of the circuit, and the
\* nodes in ex_in and ex_out (a sequence) that are not among them.
PiNames(c, ex_in)  == NamesOf(c, c.inputs \o SetToSeq({i \in ex_in : ~c.nodes[i].is_input}))
PoNames(c, ex_out) ==
  NamesOf(c, c.outputs \o Only(ex_out, {i \in ToSet(ex_out) : ~c.nodes[i].is_output}))

\* External: the gates some output needs, inputs before their readers (listed
\* has readers first).
Netlist(c, listed, ex_in, ex_out) ==
  LET driver(n) == {i \in Given(c, ex_in) : c.nodes[i].name = n}
      needed == FoldLeft(LAMBDA S, i : IF i \in S
                           THEN S \cup UNION {driver(NamesOf(c, c.nodes[i].inputs)[k]) :
                                                k \in DOMAIN c.nodes[i].inputs}
                           ELSE S,
                         UNION {driver(PoNames(c, ex_out)[k]) : k \in DOMAIN PoNames(c, ex_out)},
                         listed)
      gates == Only(Reverse(listed), needed)
      gate(i) == [out |-> c.nodes[i].name, ins |-> NamesOf(c, c.nodes[i].inputs),
                  row |-> c.nodes[i].cube[1]]
  IN  [k \in DOMAIN gates |-> gate(gates[k])]

\* signals: a name gets the next number when it is first met, in one list of
\* names after the other; its number is how many names have been met before it.
Numbered(lists) ==
  LET names == UNION {ToSet(lists[k]) : k \in DOMAIN lists}
      met(n, k, j) == \/ \E i \in 1 .. k - 1 : n \in ToSet(lists[i])
                      \/ \E i \in 1 .. j : lists[k][i] = n
      before(m, n) == \E k \in DOMAIN lists : \E j \in DOMAIN lists[k] :
                        lists[k][j] = m /\ ~met(n, k, j)
  IN  [n \in names |-> Cardinality({m \in names : before(m, n)})]

\* A clause while it is a map from variables to signs, filled by one write after
\* the other: of two writes to a variable the later one stays.
Filled(writes) ==
  [v \in {writes[k][1] : k \in DOMAIN writes} |->
     writes[CHOOSE k \in DOMAIN writes :
              /\ writes[k][1] = v
              /\ \A j \in DOMAIN writes : writes[j][1] = v => j <= k][2]]

\* Fault variant: the phases of the two inputs are mixed up.
AndClausesSwapped(o, v, x, p) ==
  {Filled(<<<<x[1], ~Bool(p[2])>>, <<x[2], ~Bool(p[1])>>, <<o, v>>>>),
   Filled(<<<<x[1], Bool(p[2])>>, <<o, ~v>>>>), Filled(<<<<x[2], Bool(p[1])>>, <<o, ~v>>>>)}

\* The clauses of a gate with one row.
AndClauses(o, v, x, p) ==
  {Filled(<<<<x[1], ~Bool(p[1])>>, <<x[2], ~Bool(p[2])>>, <<o, v>>>>),
   Filled(<<<<x[1], Bool(p[1])>>, <<o, ~v>>>>), Filled(<<<<x[2], Bool(p[2])>>, <<o, ~v>>>>)}

\* Constants, buffers and inverters, gates of two inputs; more are refused.
GateClauses(sig, g) ==
  LET o == sig[g.out]  p == g.row[1]  v == Bool(g.row[2])
      x == [k \in DOMAIN g.ins |-> sig[g.ins[k]]]
  IN  CASE Len(x) = 0 -> {Filled(<<<<o, v>>>>)}
        [] Len(x) = 1 -> {Filled(<<<<o, TRUE>>, <<x[1], Bool(p[1]) # v>>>>),
                          Filled(<<<<o, FALSE>>, <<x[1], Bool(p[1]) = v>>>>)}
        [] Len(x) = 2 -> AndClauses(o, v, x, p)
        [] OTHER -> {}

\* Init: Abc2CNF2 numbers the inputs, the outputs, then the inputs and the output
\* of one gate after the other; Finalize looks up the names it caches with the
\* map's operator [], which inserts 0 for a name that is not there.
Cnf(c, listed, ex_in, ex_out) ==
  LET net == Netlist(c, listed, ex_in, ex_out)
      met == [k \in DOMAIN net |-> Append(net[k].ins, net[k].out)]
      sig == Numbered(<<PiNames(c, ex_in), PoNames(c, ex_out)>> \o met)
      cached == {c.nodes[i].name : i \in ToSet(c.inputs) \cup ToSet(c.outputs)
                                           \cup ex_in \cup ToSet(ex_out)}
  IN  [signals |-> [n \in cached \cup DOMAIN sig |-> IF n \in DOMAIN sig THEN sig[n] ELSE 0],
       clauses |-> UNION {GateClauses(sig, net[k]) : k \in DOMAIN net}]

numVars(cnf) == Cardinality(DOMAIN cnf.signals)

GetIndex(cnf, n) == IF n \in DOMAIN cnf.signals THEN cnf.signals[n] ELSE -1

-----------------------------------------------------------------------------
(* GInterface; a solver is its number of variables and its clauses *)

NewSolver == [nVars |-> 0, clauses |-> {}]

\* genLit makes every variable up to the one it is asked for.
Lit(v, b) == <<IF v < 0 THEN -v ELSE v, b>>

AddClauses(s, cls) ==
  [nVars   |-> Max({s.nVars} \cup {l[1] + 1 : l \in UNION cls}),
   clauses |-> s.clauses \cup cls]

CopyClauses(cnf, offset) == {{Lit(v + offset, cl[v]) : v \in DOMAIN cl} : cl \in cnf.clauses}

AddCNF(s, cnf, offset) == AddClauses(s, CopyClauses(cnf, offset))

\* The clauses of "if the guards hold, v and w are equal".
EqualClauses(guards, v, w) ==
  {guards \cup {Lit(v, TRUE), Lit(w, FALSE)}, guards \cup {Lit(v, FALSE), Lit(w, TRUE)}}

TieClauses(vs, ws) ==
  UNION {IF vs[k] = ws[k] THEN {} ELSE EqualClauses({}, vs[k], ws[k]) : k \in DOMAIN vs}

setEqual(s, vs, ws) == AddClauses(s, TieClauses(vs, ws))

ifTrue_thenEQ(s, vs, ws, flag) ==
  AddClauses(s, UNION {EqualClauses({Lit(flag, FALSE)}, vs[k], ws[k]) : k \in DOMAIN vs})

\* The variable max + k - 1 is the exclusive or of the k-th pair, one of them
\* is true.
DifferClauses(max, vs, ws) ==
  {{Lit(max + k - 1, TRUE) : k \in DOMAIN vs}} \cup
  UNION {{{Lit(vs[k], a), Lit(ws[k], b), Lit(max + k - 1, a # b)} : a, b \in BOOLEAN} :
           k \in DOMAIN vs}

\* Fault variant: the first auxiliary variable is the last one in use.
setNEqualOverlapping(s, vs, ws) == AddClauses(s, DifferClauses(s.nVars - 1, vs, ws))

\* The auxiliary variables are those from nVars() on, at the time of the call.
setNEqual(s, vs, ws) == AddClauses(s, DifferClauses(s.nVars, vs, ws))

-----------------------------------------------------------------------------
(* What a solver may answer *)

\* The sets of true variables that satisfy the clauses, found one variable of
\* order after the other.
Models(cls, order) ==
  LET vars(cl) == {l[1] : l \in cl}
      due(k) == {cl \in cls : order[k] \in vars(cl) /\ vars(cl) \subseteq ToSet(SubSeq(order, 1, k))}
      extended[k \in 0 .. Len(order)] ==
        IF k = 0 THEN IF {} \in cls THEN {} ELSE {{}}
        ELSE LET now == due(k)
                 M   == extended[k - 1]
             IN  {m \in M \cup {n \cup {order[k]} : n \in M} :
                    \A cl \in now : \E l \in cl : (l[1] \in m) = l[2]}
  IN  extended[Len(order)]
=============================================================================
