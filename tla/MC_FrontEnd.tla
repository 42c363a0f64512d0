---------------------------- MODULE MC_FrontEnd ----------------------------
(***************************************************************************)
(* Files of up to six nodes: two primary inputs a and b, one or two        *)
(* outputs, gates of one row.                                              *)
(***************************************************************************)
EXTENDS FrontEnd

Cut(out, ins, bits, v) == [out |-> out, ins |-> ins, rows |-> <<<<bits, v>>>>]

Meant(outs, gates) == [inputs |-> <<"a", "b">>, outputs |-> outs, gates |-> gates]

\* The candidates of g are the gates beside it.
Wide == Meant(<<"z">>, <<Cut("h", <<"a">>, <<0>>, 1), Cut("k", <<"h", "b">>, <<1, 0>>, 1),
                         Cut("g", <<"a", "b">>, <<1, 1>>, 0), Cut("z", <<"g", "k">>, <<1, 1>>, 1)>>)

\* An output that feeds another one, listed before what it reads.
TwoOutputs == Meant(<<"y", "z">>, <<Cut("z", <<"y", "g">>, <<0, 1>>, 1),
                                    Cut("y", <<"a", "g">>, <<1, 1>>, 0),
                                    Cut("g", <<"b">>, <<1>>, 1)>>)

\* One input is read twice by a gate, the other by none.
Twice == Meant(<<"z">>, <<Cut("g", <<"a", "a">>, <<1, 1>>, 1), Cut("z", <<"g", "k">>, <<0, 1>>, 0),
                          Cut("k", <<>>, <<>>, 1)>>)

\* A chain with shortcuts, listed so that one pass does not raise everything.
Deep == Meant(<<"z", "y">>, <<Cut("h", <<"a", "b">>, <<0, 1>>, 1), Cut("g", <<"h", "b">>, <<1, 0>>, 0),
                              Cut("y", <<"g">>, <<1>>, 0), Cut("z", <<"y", "h">>, <<0, 0>>, 1)>>)

\* A loop; an output nothing drives; an output that is an input; constants.
Loop == Meant(<<"z">>, <<Cut("g", <<"a", "z">>, <<1, 1>>, 1), Cut("z", <<"g", "b">>, <<1, 1>>, 1)>>)
Undriven == Meant(<<"z", "y">>, <<Cut("z", <<"a", "b">>, <<1, 1>>, 1)>>)
FeedThrough == Meant(<<"z", "a">>, <<Cut("z", <<"a", "b">>, <<1, 0>>, 1)>>)
WithOne == Meant(<<"z">>, <<Cut("one", <<>>, <<>>, 1), Cut("z", <<"one", "b">>, <<1, 1>>, 1)>>)

MCNetworks == {Wide, TwoOutputs, Twice, Deep, Loop, Undriven, FeedThrough, WithOne}

-----------------------------------------------------------------------------
Ids(names) == [k \in DOMAIN names |-> Id(names[k])]

Continued(names) ==
  FlattenSeq([k \in DOMAIN names |-> <<Token("other"), Newline, Id(names[k])>>])

RowToken(layout, r) == IF layout = "bare" /\ r[1] = <<>> THEN Token("other") ELSE Row(r)

GateText(layout, g) ==
  <<Token("names")>>
    \o (IF layout = "split" THEN Continued(Append(g.ins, g.out)) ELSE Ids(Append(g.ins, g.out)))
    \o <<Newline>>
    \o FlattenSeq([k \in DOMAIN g.rows |-> <<RowToken(layout, g.rows[k]), Newline>>])

Text(layout, m) ==
  <<Token("model"), Id("m"), Newline, Token("inputs")>>
    \o (IF layout = "listed" THEN Continued(m.inputs) ELSE Ids(m.inputs))
    \o <<Newline, Token("outputs")>>
    \o (IF layout = "listed" THEN Continued(m.outputs) ELSE Ids(m.outputs))
    \o <<Newline>> \o FlattenSeq([k \in DOMAIN m.gates |-> GateText(layout, m.gates[k])])
    \o <<Token("end"), Newline>>

File(layout, m) == [meant |-> m, layout |-> layout, text |-> Text(layout, m)]

MCFiles ==
  {File("plain", m) : m \in MCNetworks} \cup {File("listed", Wide)}
    \cup {File("split", TwoOutputs), File("bare", WithOne)}
=============================================================================
