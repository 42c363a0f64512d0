------------------------- MODULE CnfEncoding_proofs -------------------------
(***************************************************************************)
(* The clauses CNFGenerator writes for a gate and GInterface adds for a    *)
(* constraint mean what they are named for, for every solver, offset and   *)
(* vector of variables.  The SAT instances of mergeselection.cpp and       *)
(* getDC.cpp are put together from these.                                  *)
(***************************************************************************)
EXTENDS CnfEncoding, FiniteSetTheorems, WellFoundedInduction, TLAPS

\* The variables in m, and no others, are true; clauses are sets of literals.
Holds(m, l) == l[1] \in m <=> l[2]
Satisfies(m, cls) == \A cl \in cls : \E l \in cl : Holds(m, l)

\* The same for the clauses of a CNF, which are maps from variables to signs.
MapHolds(m, cl) == \E v \in DOMAIN cl : v \in m <=> cl[v]
SatisfiesMaps(m, cls) == \A cl \in cls : MapHolds(m, cl)

\* A literal holds when its variable has its sign.
LEMMA LitHolds ==
  ASSUME NEW v \in Nat, NEW b \in BOOLEAN, NEW m
  PROVE  Holds(m, Lit(v, b)) <=> (v \in m <=> b)
<1>1. \A a : Lit(v, a) = <<v, a>>
  BY SMT DEF Lit
<1>2. Lit(v, b)[1] = v /\ Lit(v, b)[2] = b
  BY <1>1
<1> QED BY <1>2, Zenon DEF Holds

\* To satisfy what has been added is to satisfy the old clauses and the new.
LEMMA AddedClauses ==
  ASSUME NEW s, NEW cls, NEW m
  PROVE  Satisfies(m, AddClauses(s, cls).clauses) <=>
           Satisfies(m, s.clauses) /\ Satisfies(m, cls)
BY DEF Satisfies, AddClauses

\* Under its guards an equality forces two variables to be equal.
LEMMA EqualClausesMean ==
  ASSUME NEW guards, NEW v \in Nat, NEW w \in Nat, NEW m
  PROVE  Satisfies(m, EqualClauses(guards, v, w)) <=>
           (v \in m <=> w \in m) \/ \E l \in guards : Holds(m, l)
<1>1. Satisfies(m, EqualClauses(guards, v, w)) <=>
        /\ \E l \in guards \cup {Lit(v, TRUE), Lit(w, FALSE)} : Holds(m, l)
        /\ \E l \in guards \cup {Lit(v, FALSE), Lit(w, TRUE)} : Holds(m, l)
  BY Zenon DEF Satisfies, EqualClauses
<1>2. ASSUME NEW a, NEW b
      PROVE  (\E l \in guards \cup {a, b} : Holds(m, l)) <=>
                (\E l \in guards : Holds(m, l)) \/ Holds(m, a) \/ Holds(m, b)
  BY Zenon
<1> QED BY <1>1, <1>2, LitHolds, Zenon

\* setEqual makes two vectors of variables equal, and asks for nothing else:
\* pairs of one variable with itself may be left out (glucoseInterface.cpp
\* 147-167).
THEOREM EqualityIsEncoded ==
  ASSUME NEW s, NEW vs, NEW ws, NEW m,
         \A k \in DOMAIN vs : vs[k] \in Nat /\ ws[k] \in Nat
  PROVE  Satisfies(m, setEqual(s, vs, ws).clauses) <=>
           /\ Satisfies(m, s.clauses)
           /\ \A k \in DOMAIN vs : vs[k] \in m <=> ws[k] \in m
<1> DEFINE clausesOf(k) == IF vs[k] = ws[k] THEN {} ELSE EqualClauses({}, vs[k], ws[k])
           cls == UNION {clausesOf(k) : k \in DOMAIN vs}
<1>1. Satisfies(m, setEqual(s, vs, ws).clauses) <=> Satisfies(m, s.clauses) /\ Satisfies(m, cls)
  BY AddedClauses DEF setEqual, TieClauses
<1>2. Satisfies(m, cls) <=> \A k \in DOMAIN vs : Satisfies(m, clausesOf(k))
  <2> HIDE DEF clausesOf
  <2> QED BY DEF Satisfies
<1>3. ASSUME NEW k \in DOMAIN vs
      PROVE  Satisfies(m, clausesOf(k)) <=> (vs[k] \in m <=> ws[k] \in m)
  <2>1. CASE vs[k] = ws[k]
    BY <2>1 DEF Satisfies
  <2>2. CASE vs[k] # ws[k]
    BY <2>2, EqualClausesMean
  <2> QED BY <2>1, <2>2
<1> HIDE DEF cls
<1> QED BY <1>1, <1>2, <1>3

\* ifTrue_thenEQ makes the vectors equal when the flag is set, and asks for
\* nothing when it is not: a candidate input whose trigger is not assumed may
\* differ (glucoseInterface.cpp 256-270).
THEOREM TriggerIsEncoded ==
  ASSUME NEW s, NEW vs, NEW ws, NEW flag \in Nat, NEW m,
         \A k \in DOMAIN vs : vs[k] \in Nat /\ ws[k] \in Nat
  PROVE  Satisfies(m, ifTrue_thenEQ(s, vs, ws, flag).clauses) <=>
           /\ Satisfies(m, s.clauses)
           /\ flag \in m => \A k \in DOMAIN vs : vs[k] \in m <=> ws[k] \in m
<1> DEFINE guards == {Lit(flag, FALSE)}
           clausesOf(k) == EqualClauses(guards, vs[k], ws[k])
           cls == UNION {clausesOf(k) : k \in DOMAIN vs}
<1>1. Satisfies(m, ifTrue_thenEQ(s, vs, ws, flag).clauses) <=>
        Satisfies(m, s.clauses) /\ Satisfies(m, cls)
  BY AddedClauses DEF ifTrue_thenEQ
<1>2. Satisfies(m, cls) <=> \A k \in DOMAIN vs : Satisfies(m, clausesOf(k))
  <2> HIDE DEF clausesOf
  <2> QED BY DEF Satisfies
<1>3. (\E l \in guards : Holds(m, l)) <=> flag \notin m
  BY LitHolds, Zenon
<1>4. ASSUME NEW k \in DOMAIN vs
      PROVE  Satisfies(m, clausesOf(k)) <=> (vs[k] \in m <=> ws[k] \in m) \/ flag \notin m
  <2> HIDE DEF guards
  <2> QED BY <1>3, EqualClausesMean
<1> HIDE DEF cls, clausesOf
<1> QED BY <1>1, <1>2, <1>4

\* What setNEqual adds for one pair.
XorClauses(v, w, x) == {{Lit(v, a), Lit(w, b), Lit(x, a # b)} : a, b \in BOOLEAN}

\* The four clauses of one pair make the auxiliary variable its exclusive or.
LEMMA DifferClausesMean ==
  ASSUME NEW v \in Nat, NEW w \in Nat, NEW x \in Nat, NEW m
  PROVE  Satisfies(m, XorClauses(v, w, x)) <=>
           (x \in m <=> ~(v \in m <=> w \in m))
<1> DEFINE clause(a, b) == {Lit(v, a), Lit(w, b), Lit(x, a # b)}
<1>1. Satisfies(m, {clause(a, b) : a, b \in BOOLEAN}) <=>
        \A a, b \in BOOLEAN : \E l \in clause(a, b) : Holds(m, l)
  <2> HIDE DEF clause
  <2> QED BY DEF Satisfies
<1>2. ASSUME NEW a \in BOOLEAN, NEW b \in BOOLEAN
      PROVE  (\E l \in clause(a, b) : Holds(m, l)) <=>
                (v \in m <=> a) \/ (w \in m <=> b) \/ (x \in m <=> a # b)
  <2>1. (\E l \in clause(a, b) : Holds(m, l)) <=>
          Holds(m, Lit(v, a)) \/ Holds(m, Lit(w, b)) \/ Holds(m, Lit(x, a # b))
    BY Zenon
  <2>2. (a # b) \in BOOLEAN
    OBVIOUS
  <2> HIDE DEF clause
  <2>3. \A d \in BOOLEAN : Holds(m, Lit(x, d)) <=> (x \in m <=> d)
    BY LitHolds, Zenon
  <2>4. Holds(m, Lit(x, a # b)) <=> (x \in m <=> a # b)
    BY <2>2, <2>3, Zenon
  <2> QED BY <2>1, <2>4, LitHolds, Zenon
<1>3. (\A a, b \in BOOLEAN : (v \in m <=> a) \/ (w \in m <=> b) \/ (x \in m <=> a # b)) <=>
        (x \in m <=> ~(v \in m <=> w \in m))
  OBVIOUS
<1> HIDE DEF clause
<1>4. Satisfies(m, {clause(a, b) : a, b \in BOOLEAN}) <=>
        (x \in m <=> ~(v \in m <=> w \in m))
  BY <1>1, <1>2, <1>3
<1> QED BY <1>4 DEF clause, XorClauses

\* setNEqual: each variable it takes from nVars() on is the exclusive or of one
\* pair, and one of them is true (glucoseInterface.cpp 103-133).
LEMMA DifferenceMeans ==
  ASSUME NEW s, s.nVars \in Nat, NEW vs \in Seq(Nat), NEW ws \in Seq(Nat),
         DOMAIN ws = DOMAIN vs, NEW m
  PROVE  Satisfies(m, setNEqual(s, vs, ws).clauses) <=>
           /\ Satisfies(m, s.clauses)
           /\ \E k \in DOMAIN vs : s.nVars + k - 1 \in m
           /\ \A k \in DOMAIN vs :
                s.nVars + k - 1 \in m <=> ~(vs[k] \in m <=> ws[k] \in m)
<1> DEFINE some == {Lit(s.nVars + k - 1, TRUE) : k \in DOMAIN vs}
           pair(k) == XorClauses(vs[k], ws[k], s.nVars + k - 1)
           pairs == UNION {pair(k) : k \in DOMAIN vs}
<1>0. ASSUME NEW k \in DOMAIN vs
      PROVE  vs[k] \in Nat /\ ws[k] \in Nat /\ s.nVars + k - 1 \in Nat
  <2>1. k \in 1 .. Len(vs) /\ Len(vs) \in Nat
    OBVIOUS
  <2> QED BY <2>1
<1>1. Satisfies(m, setNEqual(s, vs, ws).clauses) <=>
        Satisfies(m, s.clauses) /\ Satisfies(m, {some} \cup pairs)
  BY AddedClauses DEF setNEqual, DifferClauses, XorClauses
<1>2. Satisfies(m, {some} \cup pairs) <=> (\E l \in some : Holds(m, l)) /\ Satisfies(m, pairs)
  <2> HIDE DEF some, pairs
  <2> QED BY Zenon DEF Satisfies
<1>3. (\E l \in some : Holds(m, l)) <=> \E k \in DOMAIN vs : s.nVars + k - 1 \in m
  <2>1. ASSUME NEW k \in DOMAIN vs
        PROVE  Holds(m, Lit(s.nVars + k - 1, TRUE)) <=> s.nVars + k - 1 \in m
    BY <1>0, LitHolds
  <2> QED BY <2>1
<1>4. Satisfies(m, pairs) <=> \A k \in DOMAIN vs : Satisfies(m, pair(k))
  <2> HIDE DEF pair
  <2> QED BY DEF Satisfies
<1>5. ASSUME NEW k \in DOMAIN vs
      PROVE  Satisfies(m, pair(k)) <=>
               (s.nVars + k - 1 \in m <=> ~(vs[k] \in m <=> ws[k] \in m))
  BY <1>0, DifferClausesMean
<1> HIDE DEF some, pair, pairs
<1> QED BY <1>1, <1>2, <1>3, <1>4, <1>5

-----------------------------------------------------------------------------
\* genLit has made every variable of the clauses, so nVars() is above them all.
WellNumbered(s) ==
  /\ s.nVars \in Nat
  /\ \A cl \in s.clauses : \A l \in cl : l[1] \in 0 .. s.nVars - 1

\* A sequence over a set is one over a larger set.
LEMMA LargerRange ==
  ASSUME NEW S, NEW T, S \subseteq T, NEW s \in Seq(S)
  PROVE  s \in Seq(T)
OBVIOUS

\* Assignments that agree on the variables of a solver agree on its clauses.
LEMMA AgreementSuffices ==
  ASSUME NEW s, WellNumbered(s), NEW m, NEW n,
         \A v \in 0 .. s.nVars - 1 : v \in n <=> v \in m,
         Satisfies(m, s.clauses)
  PROVE  Satisfies(n, s.clauses)
BY DEF WellNumbered, Satisfies, Holds

\* setNEqual says that two vectors of variables differ: every assignment that
\* satisfies its clauses has a pair that differs, and every assignment with such
\* a pair can be extended to the auxiliary variables.  No in1case is asked for
\* and none is lost because of them (glucoseInterface.cpp 103-133, called with
\* the outputs of the two copies in mergeselection.cpp MakeSolver).
THEOREM DifferenceIsEncoded ==
  ASSUME NEW s, WellNumbered(s),
         NEW vs \in Seq(0 .. s.nVars - 1), NEW ws \in Seq(0 .. s.nVars - 1),
         DOMAIN ws = DOMAIN vs, NEW m
  PROVE  (/\ Satisfies(m, s.clauses)
          /\ \E k \in DOMAIN vs : ~(vs[k] \in m <=> ws[k] \in m)) <=>
         \E n : /\ Satisfies(n, setNEqual(s, vs, ws).clauses)
               /\ \A v \in 0 .. s.nVars - 1 : v \in n <=> v \in m
<1>1. /\ s.nVars \in Nat
      /\ vs \in Seq(Nat) /\ ws \in Seq(Nat)
      /\ \A k \in DOMAIN vs : vs[k] \in 0 .. s.nVars - 1 /\ ws[k] \in 0 .. s.nVars - 1
      /\ \A k \in DOMAIN vs : k \in Nat /\ k >= 1
  <2> DEFINE T == 0 .. s.nVars - 1
  <2>1. s.nVars \in Nat
    BY DEF WellNumbered
  <2>2. T \subseteq Nat
    BY <2>1
  <2>3. vs \in Seq(T) /\ ws \in Seq(T) /\ DOMAIN ws = DOMAIN vs
    OBVIOUS
  <2> HIDE DEF T
  <2>4. vs \in Seq(Nat) /\ ws \in Seq(Nat)
    BY <2>2, <2>3, LargerRange
  <2>5. \A k \in DOMAIN vs : vs[k] \in T /\ ws[k] \in T
    BY <2>3
  <2>6. \A k \in DOMAIN vs : k \in Nat /\ k >= 1
    BY <2>4
  <2> QED BY <2>1, <2>4, <2>5, <2>6 DEF T
<1>2. ASSUME NEW n, Satisfies(n, setNEqual(s, vs, ws).clauses),
             \A v \in 0 .. s.nVars - 1 : v \in n <=> v \in m
      PROVE  /\ Satisfies(m, s.clauses)
             /\ \E k \in DOMAIN vs : ~(vs[k] \in m <=> ws[k] \in m)
  <2>1. /\ Satisfies(n, s.clauses)
        /\ \E k \in DOMAIN vs : ~(vs[k] \in n <=> ws[k] \in n)
    <3>1. /\ \E k \in DOMAIN vs : s.nVars + k - 1 \in n
          /\ \A k \in DOMAIN vs : s.nVars + k - 1 \in n <=> ~(vs[k] \in n <=> ws[k] \in n)
          /\ Satisfies(n, s.clauses)
      BY <1>1, <1>2, DifferenceMeans, Zenon
    <3> QED BY <3>1, Zenon
  <2>2. Satisfies(m, s.clauses)
    BY <1>2, <2>1, AgreementSuffices
  <2> QED BY <1>1, <1>2, <2>1, <2>2
<1>3. ASSUME Satisfies(m, s.clauses),
             NEW d \in DOMAIN vs, ~(vs[d] \in m <=> ws[d] \in m)
      PROVE  \E n : /\ Satisfies(n, setNEqual(s, vs, ws).clauses)
                   /\ \A v \in 0 .. s.nVars - 1 : v \in n <=> v \in m
  <2>0. PICK N \in Nat : s.nVars = N
    BY <1>1
  <2> DEFINE differ(k) == ~(vs[k] \in m <=> ws[k] \in m)
             n == {v \in Nat : \/ v < N /\ v \in m
                               \/ \E k \in DOMAIN vs : v = N + k - 1 /\ differ(k)}
  <2>1. ASSUME NEW v \in 0 .. s.nVars - 1
        PROVE  v \in n <=> v \in m
    <3>1. v \in 0 .. N - 1
      BY <2>0
    <3>2. ASSUME NEW k \in DOMAIN vs PROVE v # N + k - 1
      <4>1. k \in Nat /\ k >= 1
        BY <1>1
      <4> QED BY <3>1, <4>1
    <3>3. v \in Nat /\ v < N
      BY <3>1
    <3> QED BY <3>2, <3>3, Zenon
  <2>2. ASSUME NEW k \in DOMAIN vs
        PROVE  s.nVars + k - 1 \in n <=> differ(k)
    <3>0. k \in Nat /\ k >= 1
      BY <1>1
    <3>1. N + k - 1 \in Nat /\ ~(N + k - 1 < N)
      BY <3>0
    <3>2. ASSUME NEW j \in DOMAIN vs, N + k - 1 = N + j - 1
          PROVE  j = k
      <4>1. j \in Nat
        BY <1>1
      <4> QED BY <3>0, <3>2, <4>1
    <3> HIDE DEF differ
    <3> QED BY <2>0, <3>1, <3>2, Zenon
  <2> HIDE DEF n
  <2>3. Satisfies(n, s.clauses)
    BY <1>3, <2>1, AgreementSuffices
  <2>4. \A k \in DOMAIN vs : (vs[k] \in n <=> vs[k] \in m) /\ (ws[k] \in n <=> ws[k] \in m)
    BY <1>1, <2>1
  <2>5. Satisfies(n, setNEqual(s, vs, ws).clauses)
    BY <1>1, <1>3, <2>2, <2>3, <2>4, DifferenceMeans
  <2> QED BY <2>1, <2>5
<1> QED BY <1>2, <1>3

\* A bounded set of naturals that has a member has a greatest one.
LEMMA GreatestNatural ==
  ASSUME NEW T, T \subseteq Nat, T # {}, NEW bound \in Nat, \A k \in T : k <= bound
  PROVE  \E m \in T : \A k \in T : m >= k
<1> DEFINE F == {m .. bound : m \in T}
<1>1. F \subseteq FiniteSubsetsOf(Nat) /\ F # {}
  <2>1. ASSUME NEW m \in T PROVE IsFiniteSet(m .. bound) /\ m .. bound \in SUBSET Nat
    <3>1. m \in Int /\ bound \in Int
      OBVIOUS
    <3> QED BY <3>1, FS_Interval
  <2> QED BY <2>1 DEF FiniteSubsetsOf
<1>2. \E X \in F : \A Y \in F : ~(<<Y, X>> \in StrictSubsetOrdering(Nat))
  <2> HIDE DEF F
  <2> QED BY <1>1, FS_StrictSubsetOrderingWellFounded, WFMin
<1>3. PICK X \in F : \A Y \in F : ~(<<Y, X>> \in StrictSubsetOrdering(Nat))
  BY <1>2
<1>4. PICK m \in T : X = m .. bound
  OBVIOUS
<1>5. ASSUME NEW k \in T, k > m PROVE FALSE
  <2>1. k .. bound \subseteq m .. bound /\ m \in m .. bound /\ m \notin k .. bound
    BY <1>5
  <2>2. <<k .. bound, X>> \in StrictSubsetOrdering(Nat)
    BY <1>4, <2>1 DEF StrictSubsetOrdering
  <2> QED BY <1>3, <2>2
<1> QED BY <1>5

\* Clauses whose variables are below a bound keep the solver well numbered.
LEMMA AddedVariables ==
  ASSUME NEW s, WellNumbered(s), NEW cls, NEW bound \in Nat, s.nVars <= bound,
         \A cl \in cls : \A l \in cl : l[1] \in 0 .. bound - 1
  PROVE  /\ WellNumbered(AddClauses(s, cls))
         /\ AddClauses(s, cls).nVars \in s.nVars .. bound
         /\ \A cl \in cls : \A l \in cl : l[1] < AddClauses(s, cls).nVars
<1> DEFINE T == {s.nVars} \cup {l[1] + 1 : l \in UNION cls}
<1>0. s.nVars \in Nat
  BY DEF WellNumbered
<1>1. T \subseteq Nat /\ T # {} /\ s.nVars \in T
  BY <1>0
<1>2. \A k \in T : k <= bound
  BY <1>0
<1>3. \A cl \in cls : \A l \in cl : l[1] + 1 \in T /\ l[1] \in Nat
  OBVIOUS
<1> HIDE DEF T
<1>4. Max(T) \in T /\ \A k \in T : Max(T) >= k
  <2>1. \E m \in T : \A k \in T : m >= k
    BY <1>1, <1>2, GreatestNatural
  <2> QED BY <2>1 DEF Max
<1>5. AddClauses(s, cls) = [nVars |-> Max(T), clauses |-> s.clauses \cup cls]
  BY DEF AddClauses, T
<1>6. Max(T) \in Nat /\ Max(T) >= s.nVars /\ Max(T) <= bound
  BY <1>1, <1>2, <1>4
<1>7. \A cl \in cls : \A l \in cl : l[1] \in Nat /\ l[1] < Max(T)
  BY <1>1, <1>3, <1>4, <1>6
<1>8. \A cl \in s.clauses : \A l \in cl : l[1] \in Nat /\ l[1] < Max(T)
  BY <1>0, <1>6 DEF WellNumbered
<1> QED BY <1>0, <1>5, <1>6, <1>7, <1>8 DEF WellNumbered

\* setNEqual takes exactly one new variable per pair and leaves nVars() above all
\* of them, so the next call, and the triggers MakeSolver numbers from nVars() on,
\* get variables no clause has (glucoseInterface.cpp 103-133).
THEOREM AuxiliariesAreFresh ==
  ASSUME NEW s, WellNumbered(s),
         NEW vs \in Seq(0 .. s.nVars - 1), NEW ws \in Seq(0 .. s.nVars - 1),
         DOMAIN ws = DOMAIN vs
  PROVE  /\ WellNumbered(setNEqual(s, vs, ws))
         /\ setNEqual(s, vs, ws).nVars = s.nVars + Len(vs)
<1>0. PICK N \in Nat : s.nVars = N
  BY DEF WellNumbered
<1> DEFINE cls == DifferClauses(N, vs, ws)
           bound == N + Len(vs)
<1>1. bound \in Nat /\ N <= bound /\ Len(vs) \in Nat /\ DOMAIN vs = 1 .. Len(vs)
  OBVIOUS
<1>2. ASSUME NEW v \in Nat, NEW b PROVE Lit(v, b)[1] = v
  <2>1. Lit(v, b) = <<v, b>>
    BY SMT DEF Lit
  <2> QED BY <2>1
<1>3. ASSUME NEW k \in DOMAIN vs
      PROVE  /\ vs[k] \in 0 .. bound - 1 /\ ws[k] \in 0 .. bound - 1
             /\ N + k - 1 \in 0 .. bound - 1
  <2>1. vs[k] \in 0 .. N - 1 /\ ws[k] \in 0 .. N - 1
    BY <1>0
  <2>2. k \in 1 .. Len(vs)
    BY <1>1
  <2> QED BY <1>1, <2>1, <2>2
<1>4. \A cl \in cls : \A l \in cl : l[1] \in 0 .. bound - 1
  <2>1. ASSUME NEW cl \in cls, NEW l \in cl PROVE l[1] \in 0 .. bound - 1
    <3> DEFINE some == {Lit(N + k - 1, TRUE) : k \in DOMAIN vs}
               pair(k) == XorClauses(vs[k], ws[k], N + k - 1)
    <3>1. cl = some \/ \E k \in DOMAIN vs : cl \in pair(k)
      <4>1. cls = {some} \cup UNION {pair(k) : k \in DOMAIN vs}
        BY DEF DifferClauses, XorClauses
      <4> HIDE DEF cls, some, pair
      <4> QED BY <4>1
    <3>2. \E k \in DOMAIN vs : \E d :
            l = Lit(vs[k], d) \/ l = Lit(ws[k], d) \/ l = Lit(N + k - 1, d)
      <4>1. CASE cl = some
        BY <4>1, Zenon
      <4>2. CASE \E k \in DOMAIN vs : cl \in pair(k)
        <5>1. PICK k \in DOMAIN vs : cl \in pair(k)
          BY <4>2
        <5>2. PICK a \in BOOLEAN, b \in BOOLEAN :
                cl = {Lit(vs[k], a), Lit(ws[k], b), Lit(N + k - 1, a # b)}
          <6> HIDE DEF cls, some
          <6> QED BY <5>1, SMT DEF XorClauses
        <5> HIDE DEF cls
        <5> QED BY <5>2, Zenon
      <4> QED BY <3>1, <4>1, <4>2
    <3>3. PICK k \in DOMAIN vs : \E d :
            l = Lit(vs[k], d) \/ l = Lit(ws[k], d) \/ l = Lit(N + k - 1, d)
      BY <3>2
    <3>4. vs[k] \in Nat /\ ws[k] \in Nat /\ N + k - 1 \in Nat
      BY <1>1, <1>3
    <3>5. l[1] = vs[k] \/ l[1] = ws[k] \/ l[1] = N + k - 1
      BY <1>2, <3>3, <3>4, Zenon
    <3> QED BY <1>3, <3>5
  <2> QED BY <2>1
<1>5. ASSUME Len(vs) > 0
      PROVE  \E cl \in cls : \E l \in cl : l[1] = bound - 1
  <2> DEFINE some == {Lit(N + k - 1, TRUE) : k \in DOMAIN vs}
  <2>1. Len(vs) \in DOMAIN vs /\ N + Len(vs) - 1 \in Nat
    BY <1>1, <1>5
  <2>2. Lit(N + Len(vs) - 1, TRUE)[1] = N + Len(vs) - 1
    BY <1>2, <2>1, Zenon
  <2>3. some \in cls
    BY DEF DifferClauses
  <2>4. Lit(N + Len(vs) - 1, TRUE) \in some
    BY <2>1
  <2>5. N + Len(vs) - 1 = bound - 1
    OBVIOUS
  <2> HIDE DEF cls, some, bound
  <2> QED BY <2>2, <2>3, <2>4, <2>5, Zenon
<1>6. setNEqual(s, vs, ws) = AddClauses(s, cls)
  BY <1>0 DEF setNEqual
<1> HIDE DEF cls, bound
<1>7. /\ WellNumbered(AddClauses(s, cls))
      /\ AddClauses(s, cls).nVars \in N .. bound
      /\ \A cl \in cls : \A l \in cl : l[1] < AddClauses(s, cls).nVars
  BY <1>0, <1>1, <1>4, AddedVariables
<1>8. AddClauses(s, cls).nVars = bound
  BY <1>1, <1>5, <1>7 DEF bound
<1> QED BY <1>0, <1>6, <1>7, <1>8 DEF bound

\* addCNF: a copy of a CNF constrains the variables from its offset on as the CNF
\* does its signals, so the copies of a solver do not disturb each other
\* (glucoseInterface.cpp 59-77).
THEOREM CopyIsEncoded ==
  ASSUME NEW s, NEW cnf, NEW offset \in Nat, NEW m,
         \A cl \in cnf.clauses : \A v \in DOMAIN cl : v \in Nat /\ cl[v] \in BOOLEAN
  PROVE  Satisfies(m, AddCNF(s, cnf, offset).clauses) <=>
           /\ Satisfies(m, s.clauses)
           /\ SatisfiesMaps({v \in Nat : v + offset \in m}, cnf.clauses)
<1> DEFINE copy(cl) == {Lit(v + offset, cl[v]) : v \in DOMAIN cl}
           copies == {copy(cl) : cl \in cnf.clauses}
           shifted == {v \in Nat : v + offset \in m}
<1>1. Satisfies(m, AddCNF(s, cnf, offset).clauses) <=> Satisfies(m, s.clauses) /\ Satisfies(m, copies)
  BY AddedClauses DEF AddCNF, CopyClauses
<1>2. Satisfies(m, copies) <=> \A cl \in cnf.clauses : \E l \in copy(cl) : Holds(m, l)
  <2> HIDE DEF copy
  <2> QED BY DEF Satisfies
<1>3. ASSUME NEW cl \in cnf.clauses
      PROVE  (\E l \in copy(cl) : Holds(m, l)) <=> \E v \in DOMAIN cl : v \in shifted <=> cl[v]
  <2>1. ASSUME NEW v \in DOMAIN cl
        PROVE  Holds(m, Lit(v + offset, cl[v])) <=> (v \in shifted <=> cl[v])
    <3>1. v \in Nat /\ v + offset \in Nat /\ cl[v] \in BOOLEAN
      OBVIOUS
    <3>2. Holds(m, Lit(v + offset, cl[v])) <=> (v + offset \in m <=> cl[v])
      BY <3>1, LitHolds, Zenon
    <3> QED BY <3>1, <3>2, Zenon
  <2>2. (\E l \in copy(cl) : Holds(m, l)) <=>
          \E v \in DOMAIN cl : Holds(m, Lit(v + offset, cl[v]))
    BY Zenon
  <2> QED BY <2>1, <2>2, Zenon
<1> HIDE DEF copy, copies, shifted
<1>4. (\A cl \in cnf.clauses : \E l \in copy(cl) : Holds(m, l)) <=>
        SatisfiesMaps(shifted, cnf.clauses)
  BY <1>3, Zenon DEF SatisfiesMaps, MapHolds
<1> QED BY <1>1, <1>2, <1>4 DEF shifted

-----------------------------------------------------------------------------
\* A clause whose writes go to different variables holds when one of them does.
LEMMA FilledMeans ==
  ASSUME NEW writes, NEW m,
         \A j, k \in DOMAIN writes : writes[j][1] = writes[k][1] => j = k,
         \A k \in DOMAIN writes : k \in Nat /\ writes[k][2] \in BOOLEAN
  PROVE  (\E v \in DOMAIN Filled(writes) : v \in m <=> Filled(writes)[v]) <=>
           \E k \in DOMAIN writes : writes[k][1] \in m <=> writes[k][2]
<1>1. DOMAIN Filled(writes) = {writes[k][1] : k \in DOMAIN writes}
  BY DEF Filled
<1>2. ASSUME NEW k \in DOMAIN writes
      PROVE  Filled(writes)[writes[k][1]] = writes[k][2]
  <2> DEFINE last(i) == /\ writes[i][1] = writes[k][1]
                        /\ \A j \in DOMAIN writes : writes[j][1] = writes[k][1] => j <= i
  <2>1. last(k)
    OBVIOUS
  <2>2. \A i \in DOMAIN writes : last(i) => i = k
    OBVIOUS
  <2>3. Filled(writes)[writes[k][1]] = writes[CHOOSE i \in DOMAIN writes : last(i)][2]
    BY DEF Filled
  <2> HIDE DEF last
  <2> QED BY <2>1, <2>2, <2>3
<1> DEFINE W == Filled(writes)
<1>3. ASSUME NEW k \in DOMAIN writes
      PROVE  (writes[k][1] \in m <=> W[writes[k][1]]) <=> (writes[k][1] \in m <=> writes[k][2])
  BY <1>2
<1> QED BY <1>1, <1>3

\* A clause of writes to distinct variables holds if one of its literals does.
LEMMA WritesMean ==
  ASSUME NEW writes, NEW m,
         \A j, k \in DOMAIN writes : writes[j][1] = writes[k][1] => j = k,
         \A k \in DOMAIN writes : k \in Nat /\ writes[k][2] \in BOOLEAN
  PROVE  SatisfiesMaps(m, {Filled(writes)}) <=>
           \E k \in DOMAIN writes : writes[k][1] \in m <=> writes[k][2]
<1>1. SatisfiesMaps(m, {Filled(writes)}) <=>
        \E v \in DOMAIN Filled(writes) : v \in m <=> Filled(writes)[v]
  BY Zenon DEF SatisfiesMaps, MapHolds
<1>2. (\E v \in DOMAIN Filled(writes) : v \in m <=> Filled(writes)[v]) <=>
        \E k \in DOMAIN writes : writes[k][1] \in m <=> writes[k][2]
  BY FilledMeans
<1> QED BY <1>1, <1>2, Zenon

\* The clauses Abc2CNF2 writes have one, two or three literals.
Two(a, p, b, q)         == Filled(<<<<a, p>>, <<b, q>>>>)
Three(a, p, b, q, d, r) == Filled(<<<<a, p>>, <<b, q>>, <<d, r>>>>)

\* Clauses of one, two and three writes.
LEMMA OneWrite ==
  ASSUME NEW a, NEW p \in BOOLEAN, NEW m
  PROVE  SatisfiesMaps(m, {Filled(<<<<a, p>>>>)}) <=> (a \in m <=> p)
<1> DEFINE w == <<<<a, p>>>>
<1>1. /\ DOMAIN w = {1}
      /\ w[1][1] = a /\ w[1][2] = p
  OBVIOUS
<1> HIDE DEF w
<1>2. /\ \A j, k \in DOMAIN w : w[j][1] = w[k][1] => j = k
      /\ \A k \in DOMAIN w : k \in Nat /\ w[k][2] \in BOOLEAN
  BY <1>1
<1>3. SatisfiesMaps(m, {Filled(w)}) <=> \E k \in DOMAIN w : w[k][1] \in m <=> w[k][2]
  BY <1>2, WritesMean
<1> QED BY <1>1, <1>3 DEF w

\* Of two writes to distinct variables.
LEMMA TwoWrites ==
  ASSUME NEW a, NEW b, a # b, NEW p \in BOOLEAN, NEW q \in BOOLEAN, NEW m
  PROVE  SatisfiesMaps(m, {Two(a, p, b, q)}) <=> (a \in m <=> p) \/ (b \in m <=> q)
<1> DEFINE w == <<<<a, p>>, <<b, q>>>>
<1>1. /\ DOMAIN w = {1, 2}
      /\ w[1][1] = a /\ w[1][2] = p /\ w[2][1] = b /\ w[2][2] = q
  OBVIOUS
<1> HIDE DEF w
<1>2. /\ \A j, k \in DOMAIN w : w[j][1] = w[k][1] => j = k
      /\ \A k \in DOMAIN w : k \in Nat /\ w[k][2] \in BOOLEAN
  BY <1>1
<1>3. SatisfiesMaps(m, {Filled(w)}) <=> \E k \in DOMAIN w : w[k][1] \in m <=> w[k][2]
  BY <1>2, WritesMean
<1> QED BY <1>1, <1>3 DEF w, Two

\* Of three writes to distinct variables.
LEMMA ThreeWrites ==
  ASSUME NEW a, NEW b, NEW d, a # b, a # d, b # d,
         NEW p \in BOOLEAN, NEW q \in BOOLEAN, NEW r \in BOOLEAN, NEW m
  PROVE  SatisfiesMaps(m, {Three(a, p, b, q, d, r)}) <=>
           (a \in m <=> p) \/ (b \in m <=> q) \/ (d \in m <=> r)
<1> DEFINE w == <<<<a, p>>, <<b, q>>, <<d, r>>>>
<1>1. /\ DOMAIN w = {1, 2, 3}
      /\ w[1][1] = a /\ w[1][2] = p /\ w[2][1] = b /\ w[2][2] = q
      /\ w[3][1] = d /\ w[3][2] = r
  OBVIOUS
<1> HIDE DEF w
<1>2. /\ \A j, k \in DOMAIN w : w[j][1] = w[k][1] => j = k
      /\ \A k \in DOMAIN w : k \in Nat /\ w[k][2] \in BOOLEAN
  BY <1>1
<1>3. SatisfiesMaps(m, {Filled(w)}) <=> \E k \in DOMAIN w : w[k][1] \in m <=> w[k][2]
  BY <1>2, WritesMean
<1> QED BY <1>1, <1>3 DEF w, Three

\* A buffer or an inverter; a gate of two inputs.
OneInput(o, y, p, v) == {Two(o, TRUE, y, p # v), Two(o, FALSE, y, p = v)}
TwoInputs(o, y, z, p, q, v) ==
  {Three(y, ~p, z, ~q, o, v), Two(y, p, o, ~v), Two(z, q, o, ~v)}

\* The clauses of a buffer or inverter.
LEMMA OneInputMeans ==
  ASSUME NEW o, NEW y, y # o, NEW p \in BOOLEAN, NEW v \in BOOLEAN, NEW m
  PROVE  SatisfiesMaps(m, OneInput(o, y, p, v)) <=>
           (o \in m <=> (v <=> (y \in m <=> p)))
<1>1. PICK d \in BOOLEAN, e \in BOOLEAN : d = (p # v) /\ e = (p = v)
  OBVIOUS
<1>2. OneInput(o, y, p, v) = {Two(o, TRUE, y, d), Two(o, FALSE, y, e)}
  BY <1>1, Zenon DEF OneInput
<1>3. /\ SatisfiesMaps(m, {Two(o, TRUE, y, d)}) <=> (o \in m <=> TRUE) \/ (y \in m <=> d)
      /\ SatisfiesMaps(m, {Two(o, FALSE, y, e)}) <=> (o \in m <=> FALSE) \/ (y \in m <=> e)
  BY TwoWrites
<1>4. SatisfiesMaps(m, OneInput(o, y, p, v)) <=>
        SatisfiesMaps(m, {Two(o, TRUE, y, d)}) /\ SatisfiesMaps(m, {Two(o, FALSE, y, e)})
  BY <1>2 DEF SatisfiesMaps
<1>5. SatisfiesMaps(m, OneInput(o, y, p, v)) <=> (o \in m \/ (y \in m <=> d)) /\ (o \notin m \/ (y \in m <=> e))
  BY <1>3, <1>4
<1> QED BY <1>1, <1>5

\* The clauses of a gate of two inputs.
LEMMA TwoInputsMean ==
  ASSUME NEW o, NEW y, NEW z, y # o, z # o, y # z,
         NEW p \in BOOLEAN, NEW q \in BOOLEAN, NEW v \in BOOLEAN, NEW m
  PROVE  SatisfiesMaps(m, TwoInputs(o, y, z, p, q, v)) <=>
           (o \in m <=> (v <=> (y \in m <=> p) /\ (z \in m <=> q)))
<1>1. PICK d \in BOOLEAN, e \in BOOLEAN, u \in BOOLEAN : d = (~p) /\ e = (~q) /\ u = (~v)
  OBVIOUS
<1>2. TwoInputs(o, y, z, p, q, v) =
        {Three(y, d, z, e, o, v), Two(y, p, o, u), Two(z, q, o, u)}
  BY <1>1, Zenon DEF TwoInputs
<1>3. /\ SatisfiesMaps(m, {Three(y, d, z, e, o, v)}) <=>
            (y \in m <=> d) \/ (z \in m <=> e) \/ (o \in m <=> v)
      /\ SatisfiesMaps(m, {Two(y, p, o, u)}) <=> (y \in m <=> p) \/ (o \in m <=> u)
      /\ SatisfiesMaps(m, {Two(z, q, o, u)}) <=> (z \in m <=> q) \/ (o \in m <=> u)
  BY TwoWrites, ThreeWrites
<1>4. SatisfiesMaps(m, TwoInputs(o, y, z, p, q, v)) <=>
        /\ SatisfiesMaps(m, {Three(y, d, z, e, o, v)})
        /\ SatisfiesMaps(m, {Two(y, p, o, u)}) /\ SatisfiesMaps(m, {Two(z, q, o, u)})
  BY <1>2 DEF SatisfiesMaps
<1>5. SatisfiesMaps(m, TwoInputs(o, y, z, p, q, v)) <=>
        /\ (y \in m <=> d) \/ (z \in m <=> e) \/ (o \in m <=> v)
        /\ (y \in m <=> p) \/ (o \in m <=> u)
        /\ (z \in m <=> q) \/ (o \in m <=> u)
  BY <1>3, <1>4
<1> QED BY <1>1, <1>5

\* Abc2CNF2: the clauses of a gate of no, one or two inputs with one row make its
\* output the row's value exactly when its inputs match the row
\* (CNFGenerator.cpp; gates that read a signal twice are not covered).
THEOREM GateIsEncoded ==
  ASSUME NEW sig, NEW g, NEW names, g.ins \in Seq(names), Len(g.ins) \in 0 .. 2, NEW m,
         \A k \in DOMAIN g.ins : sig[g.ins[k]] # sig[g.out],
         \A j, k \in DOMAIN g.ins : sig[g.ins[j]] = sig[g.ins[k]] => j = k
  PROVE  SatisfiesMaps(m, GateClauses(sig, g)) <=>
           (sig[g.out] \in m <=>
              (Bool(g.row[2]) <=>
                 \A k \in DOMAIN g.ins : sig[g.ins[k]] \in m <=> Bool(g.row[1][k])))
<1> DEFINE o == sig[g.out]
           p == g.row[1]
           v == Bool(g.row[2])
           x == [k \in DOMAIN g.ins |-> sig[g.ins[k]]]
           matches == \A k \in DOMAIN g.ins : sig[g.ins[k]] \in m <=> Bool(p[k])
<1>0. /\ Len(x) = Len(g.ins) /\ DOMAIN g.ins = 1 .. Len(g.ins)
      /\ v \in BOOLEAN /\ Bool(p[1]) \in BOOLEAN /\ Bool(p[2]) \in BOOLEAN
  BY DEF Bool
<1>1. CASE Len(g.ins) = 0
  <2>1. GateClauses(sig, g) = {Filled(<<<<o, v>>>>)}
    BY <1>0, <1>1 DEF GateClauses
  <2>2. matches
    BY <1>0, <1>1
  <2>3. SatisfiesMaps(m, {Filled(<<<<o, v>>>>)}) <=> (o \in m <=> v)
    BY <1>0, OneWrite
  <2> QED BY <2>1, <2>2, <2>3
<1>2. CASE Len(g.ins) = 1
  <2>1. matches <=> (x[1] \in m <=> Bool(p[1]))
    BY <1>0, <1>2
  <2>2. x[1] # o
    BY <1>0, <1>2
  <2>3. GateClauses(sig, g) = OneInput(o, x[1], Bool(p[1]), v)
    BY <1>0, <1>2 DEF GateClauses, OneInput, Two
  <2> HIDE DEF o, p, v, x, matches
  <2>4. SatisfiesMaps(m, GateClauses(sig, g)) <=> (o \in m <=> (v <=> matches))
    BY <1>0, <2>1, <2>2, <2>3, OneInputMeans
  <2> QED BY <2>4 DEF o, p, v, matches
<1>3. CASE Len(g.ins) = 2
  <2>1. matches <=> (x[1] \in m <=> Bool(p[1])) /\ (x[2] \in m <=> Bool(p[2]))
    BY <1>0, <1>3
  <2>2. x[1] # o /\ x[2] # o /\ x[1] # x[2]
    BY <1>0, <1>3
  <2>3. GateClauses(sig, g) = TwoInputs(o, x[1], x[2], Bool(p[1]), Bool(p[2]), v)
    BY <1>0, <1>3 DEF GateClauses, AndClauses, TwoInputs, Two, Three
  <2> HIDE DEF o, p, v, x, matches
  <2>4. SatisfiesMaps(m, GateClauses(sig, g)) <=> (o \in m <=> (v <=> matches))
    BY <1>0, <2>1, <2>2, <2>3, TwoInputsMean
  <2> QED BY <2>4 DEF o, p, v, matches
<1> QED BY <1>1, <1>2, <1>3

-----------------------------------------------------------------------------
\* A sequence, whatever its elements are.
IsSequence(s) == \E S : s \in Seq(S)

\* The indices of a sequence.
LEMMA SequenceDomain ==
  ASSUME NEW s, IsSequence(s)
  PROVE  Len(s) \in Nat /\ DOMAIN s = 1 .. Len(s)
BY DEF IsSequence


\* The elements of a sequence are finitely many, and so are those of its elements.
LEMMA ElementsFinite ==
  ASSUME NEW S, NEW s \in Seq(S)
  PROVE  IsFiniteSet(ToSet(s)) /\ ToSet(s) \subseteq S
<1>1. Len(s) \in Nat /\ DOMAIN s = 1 .. Len(s)
  OBVIOUS
<1> DEFINE f == [i \in DOMAIN s |-> s[i]]
<1>2. IsFiniteSet(DOMAIN s)
  <2> DEFINE n == Len(s)
  <2> HIDE DEF n
  <2>1. n \in Nat => IsFiniteSet(1 .. n)
    BY FS_Interval
  <2> QED BY <1>1, <2>1 DEF n
<1>3. f \in Surjection(DOMAIN s, ToSet(s))
  BY DEF Surjection, ToSet
<1>4. IsFiniteSet(ToSet(s))
  <2> HIDE DEF f
  <2> QED BY <1>2, <1>3, FS_Surjection
<1>5. ToSet(s) \subseteq S
  BY <1>1 DEF ToSet
<1> QED BY <1>4, <1>5

\* Finitely many names are met.
LEMMA NamesFinite ==
  ASSUME NEW Names, NEW lists \in Seq(Seq(Names))
  PROVE  IsFiniteSet(UNION {ToSet(lists[k]) : k \in DOMAIN lists})
<1>1. Len(lists) \in Nat /\ DOMAIN lists = 1 .. Len(lists)
  OBVIOUS
<1>2. \A k \in DOMAIN lists : IsFiniteSet(ToSet(lists[k]))
  <2> SUFFICES ASSUME NEW k \in DOMAIN lists PROVE IsFiniteSet(ToSet(lists[k]))
    OBVIOUS
  <2>1. lists[k] \in Seq(Names)
    OBVIOUS
  <2> QED BY <2>1, ElementsFinite
<1> DEFINE sets == [k \in DOMAIN lists |-> ToSet(lists[k])]
<1>3. sets \in Seq(SUBSET UNION {ToSet(lists[k]) : k \in DOMAIN lists})
  BY <1>1
<1>4. IsFiniteSet(ToSet(sets))
  <2> HIDE DEF sets
  <2> QED BY <1>3, ElementsFinite
<1>5. ToSet(sets) = {ToSet(lists[k]) : k \in DOMAIN lists}
  BY DEF ToSet
<1> HIDE DEF sets
<1>6. \A T \in ToSet(sets) : IsFiniteSet(T)
  BY <1>2, <1>5
<1> QED BY <1>4, <1>5, <1>6, FS_UNION

\* What Numbered counts for a name.
NamesIn(lists) == UNION {ToSet(lists[k]) : k \in DOMAIN lists}
MetBy(lists, n, k, j) ==
  (\E i \in 1 .. k - 1 : n \in ToSet(lists[i])) \/ (\E i \in 1 .. j : lists[k][i] = n)
MetBefore(lists, m, n) ==
  \E k \in DOMAIN lists : \E j \in DOMAIN lists[k] : lists[k][j] = m /\ ~MetBy(lists, n, k, j)
Sooner(lists, n) == {m \in NamesIn(lists) : MetBefore(lists, m, n)}

\* Numbered, in terms of the definitions above.
LEMMA NumberedCounts ==
  ASSUME NEW lists
  PROVE  Numbered(lists) = [n \in NamesIn(lists) |-> Cardinality(Sooner(lists, n))]
BY Zenon DEF Numbered, NamesIn, Sooner, MetBefore, MetBy

\* A number is less than the number of names: a name does not come before itself.
LEMMA NumbersBelow ==
  ASSUME NEW Names, NEW lists \in Seq(Seq(Names)), NEW n \in NamesIn(lists)
  PROVE  /\ IsFiniteSet(NamesIn(lists)) /\ Cardinality(NamesIn(lists)) \in Nat
         /\ IsFiniteSet(Sooner(lists, n)) /\ Cardinality(Sooner(lists, n)) \in Nat
         /\ Cardinality(Sooner(lists, n)) < Cardinality(NamesIn(lists))
         /\ n \notin Sooner(lists, n)
<1>1. IsFiniteSet(NamesIn(lists)) /\ Cardinality(NamesIn(lists)) \in Nat
  BY NamesFinite, FS_CardinalityType DEF NamesIn
<1>2. Sooner(lists, n) \in SUBSET NamesIn(lists)
  BY DEF Sooner
<1>3. ~MetBefore(lists, n, n)
  <2> SUFFICES ASSUME NEW k \in DOMAIN lists, NEW j \in DOMAIN lists[k], lists[k][j] = n
               PROVE  MetBy(lists, n, k, j)
    BY DEF MetBefore
  <2>1. lists[k] \in Seq(Names)
    OBVIOUS
  <2>2. j \in 1 .. Len(lists[k])
    BY <2>1
  <2>3. j \in 1 .. j
    BY <2>2
  <2> QED BY <2>3 DEF MetBy
<1>4. n \notin Sooner(lists, n)
  BY <1>3 DEF Sooner
<1>5. IsFiniteSet(Sooner(lists, n)) /\ Cardinality(Sooner(lists, n)) <= Cardinality(NamesIn(lists))
      /\ Cardinality(Sooner(lists, n)) # Cardinality(NamesIn(lists))
  BY <1>1, <1>2, <1>4, FS_Subset
<1>6. Cardinality(Sooner(lists, n)) \in Nat
  BY <1>5, FS_CardinalityType
<1> QED BY <1>1, <1>4, <1>5, <1>6

-----------------------------------------------------------------------------
\* A set of naturals has a least element: the greatest below one of them, mirrored.
LEMMA LeastNatural ==
  ASSUME NEW T, T \subseteq Nat, T # {}
  PROVE  \E m \in T : \A k \in T : m <= k
<1>1. PICK t \in T : t \in Nat
  OBVIOUS
<1> DEFINE S == {t - k : k \in {x \in T : x <= t}}
<1>2. S \subseteq Nat /\ S # {} /\ \A x \in S : x <= t
  <2>1. t - t \in S
    BY <1>1
  <2>2. \A k \in T : k <= t => t - k \in Nat /\ t - k <= t
    BY <1>1
  <2> QED BY <2>1, <2>2
<1>3. PICK g \in S : \A x \in S : g >= x
  <2> HIDE DEF S
  <2> QED BY <1>1, <1>2, GreatestNatural
<1>4. PICK m \in T : m <= t /\ g = t - m
  OBVIOUS
<1>5. \A k \in T : m <= k
  <2> SUFFICES ASSUME NEW k \in T, ~(m <= k) PROVE FALSE
    OBVIOUS
  <2>1. k \in Nat /\ m \in Nat /\ k <= t
    BY <1>1, <1>4
  <2>2. t - k \in S
    BY <2>1
  <2>3. t - m >= t - k
    <3> HIDE DEF S
    <3> QED BY <1>3, <1>4, <2>2
  <2> QED BY <1>1, <2>1, <2>3
<1> QED BY <1>5

\* The place at which a name is met first.
FirstAt(lists, n, k, j) ==
  /\ k \in DOMAIN lists /\ j \in DOMAIN lists[k] /\ lists[k][j] = n
  /\ \A i \in 1 .. k - 1 : n \notin ToSet(lists[i])
  /\ \A i \in 1 .. j - 1 : lists[k][i] # n

\* A name is met for the first time somewhere.
LEMMA MetSomewhere ==
  ASSUME NEW Names, NEW lists \in Seq(Seq(Names)), NEW n \in NamesIn(lists)
  PROVE  \E k \in Nat, j \in Nat : FirstAt(lists, n, k, j)
<1>1. DOMAIN lists = 1 .. Len(lists) /\ Len(lists) \in Nat
  OBVIOUS
<1> DEFINE K == {k \in DOMAIN lists : n \in ToSet(lists[k])}
<1>2. K # {} /\ K \subseteq Nat
  BY <1>1 DEF NamesIn
<1>3. PICK k \in K : \A i \in K : k <= i
  <2> HIDE DEF K
  <2> QED BY <1>2, LeastNatural
<1>4. k \in DOMAIN lists /\ k \in Nat /\ lists[k] \in Seq(Names) /\ n \in ToSet(lists[k])
  BY <1>1
<1>5. DOMAIN lists[k] = 1 .. Len(lists[k]) /\ Len(lists[k]) \in Nat
  BY <1>4
<1> DEFINE J == {j \in DOMAIN lists[k] : lists[k][j] = n}
<1>6. J # {} /\ J \subseteq Nat
  BY <1>4, <1>5 DEF ToSet
<1>7. PICK j \in J : \A i \in J : j <= i
  <2> HIDE DEF J
  <2> QED BY <1>6, LeastNatural
<1>8. j \in DOMAIN lists[k] /\ j \in Nat /\ lists[k][j] = n
  BY <1>6
<1>9. \A i \in 1 .. k - 1 : n \notin ToSet(lists[i])
  <2> SUFFICES ASSUME NEW i \in 1 .. k - 1, n \in ToSet(lists[i]) PROVE FALSE
    OBVIOUS
  <2>1. i \in DOMAIN lists /\ ~(k <= i)
    BY <1>1, <1>4
  <2> QED BY <1>3, <2>1
<1>10. \A i \in 1 .. j - 1 : lists[k][i] # n
  <2> SUFFICES ASSUME NEW i \in 1 .. j - 1, lists[k][i] = n PROVE FALSE
    OBVIOUS
  <2>1. i \in DOMAIN lists[k] /\ ~(j <= i)
    BY <1>5, <1>8
  <2> QED BY <1>7, <2>1
<1> QED BY <1>4, <1>8, <1>9, <1>10 DEF FirstAt

\* One name is met before another when its first place comes first.
LEMMA FirstDecides ==
  ASSUME NEW Names, NEW lists \in Seq(Seq(Names)), NEW m, NEW n,
         NEW k \in Nat, NEW j \in Nat, FirstAt(lists, m, k, j),
         NEW p \in Nat, NEW q \in Nat, FirstAt(lists, n, p, q)
  PROVE  MetBefore(lists, m, n) <=> k < p \/ (k = p /\ j < q)
<1>1. DOMAIN lists = 1 .. Len(lists) /\ Len(lists) \in Nat
  OBVIOUS
<1>2. \A x \in DOMAIN lists : DOMAIN lists[x] = 1 .. Len(lists[x]) /\ Len(lists[x]) \in Nat
  <2> SUFFICES ASSUME NEW x \in DOMAIN lists
               PROVE  DOMAIN lists[x] = 1 .. Len(lists[x]) /\ Len(lists[x]) \in Nat
    OBVIOUS
  <2>1. lists[x] \in Seq(Names)
    OBVIOUS
  <2> QED BY <2>1
<1>3. /\ k \in DOMAIN lists /\ j \in DOMAIN lists[k] /\ lists[k][j] = m
      /\ p \in DOMAIN lists /\ q \in DOMAIN lists[p] /\ lists[p][q] = n
      /\ \A i \in 1 .. k - 1 : m \notin ToSet(lists[i])
      /\ \A i \in 1 .. j - 1 : lists[k][i] # m
      /\ \A i \in 1 .. p - 1 : n \notin ToSet(lists[i])
      /\ \A i \in 1 .. q - 1 : lists[p][i] # n
  BY DEF FirstAt
<1>4. ASSUME k < p \/ (k = p /\ j < q) PROVE MetBefore(lists, m, n)
  <2>1. ASSUME NEW i \in 1 .. k - 1 PROVE n \notin ToSet(lists[i])
    <3>1. k <= p
      BY <1>4
    <3>2. i \in 1 .. p - 1
      BY <3>1
    <3> QED BY <1>3, <3>2
  <2>2. \A i \in 1 .. j : lists[k][i] # n
    <3>1. CASE k < p
      <4>1. k \in 1 .. p - 1
        BY <1>1, <1>3, <3>1
      <4>2. n \notin ToSet(lists[k])
        BY <1>3, <4>1
      <4>3. \A i \in 1 .. j : i \in DOMAIN lists[k]
        BY <1>2, <1>3
      <4> QED BY <4>2, <4>3 DEF ToSet
    <3>2. CASE k = p /\ j < q
      BY <1>3, <3>2
    <3> QED BY <1>4, <3>1, <3>2
  <2> QED BY <1>3, <2>1, <2>2 DEF MetBefore, MetBy
<1>5. ASSUME MetBefore(lists, m, n) PROVE k < p \/ (k = p /\ j < q)
  <2>1. PICK x \in DOMAIN lists : \E y \in DOMAIN lists[x] :
          lists[x][y] = m /\ ~MetBy(lists, n, x, y)
    BY <1>5 DEF MetBefore
  <2>2. PICK y \in DOMAIN lists[x] : lists[x][y] = m /\ ~MetBy(lists, n, x, y)
    BY <2>1
  <2>3. x \in Nat /\ y \in Nat /\ x >= 1 /\ y >= 1 /\ p >= 1 /\ q >= 1
    BY <1>1, <1>2, <1>3
  <2>4. m \in ToSet(lists[x]) /\ n \in ToSet(lists[p])
    BY <1>3, <2>2 DEF ToSet
  <2>5. k <= x
    <3> SUFFICES ASSUME x < k PROVE FALSE
      BY <2>3
    <3>1. x \in 1 .. k - 1
      BY <2>3
    <3> QED BY <1>3, <2>4, <3>1
  <2>6. k = x => j <= y
    <3> SUFFICES ASSUME k = x, y < j PROVE FALSE
      BY <2>3
    <3>1. y \in 1 .. j - 1
      BY <2>3
    <3> QED BY <1>3, <2>2, <3>1
  <2>7. x <= p
    <3> SUFFICES ASSUME p < x PROVE FALSE
      BY <2>3
    <3>1. p \in 1 .. x - 1
      BY <2>3
    <3> QED BY <2>2, <2>4, <3>1 DEF MetBy
  <2>8. x = p => y < q
    <3> SUFFICES ASSUME x = p, q <= y PROVE FALSE
      BY <2>3
    <3>1. q \in 1 .. y
      BY <2>3
    <3> QED BY <1>3, <2>2, <3>1 DEF MetBy
  <2> QED BY <2>3, <2>5, <2>6, <2>7, <2>8
<1> QED BY <1>4, <1>5

\* What is met before a name is met before all that are met after it.
LEMMA SoonerFewer ==
  ASSUME NEW Names, NEW lists \in Seq(Seq(Names)), NEW m \in NamesIn(lists), NEW n \in NamesIn(lists),
         MetBefore(lists, m, n)
  PROVE  Cardinality(Sooner(lists, m)) < Cardinality(Sooner(lists, n))
<1>1. /\ IsFiniteSet(Sooner(lists, m)) /\ Cardinality(Sooner(lists, m)) \in Nat
      /\ IsFiniteSet(Sooner(lists, n)) /\ Cardinality(Sooner(lists, n)) \in Nat
      /\ m \notin Sooner(lists, m)
  BY NumbersBelow
<1>2. m \in Sooner(lists, n)
  BY DEF Sooner
<1>3. ASSUME NEW x \in Sooner(lists, m) PROVE x \in Sooner(lists, n)
  <2>1. x \in NamesIn(lists) /\ MetBefore(lists, x, m)
    BY <1>3 DEF Sooner
  <2>2. PICK kx \in Nat, jx \in Nat : FirstAt(lists, x, kx, jx)
    BY <2>1, MetSomewhere
  <2>3. PICK km \in Nat, jm \in Nat : FirstAt(lists, m, km, jm)
    BY MetSomewhere
  <2>4. PICK kn \in Nat, jn \in Nat : FirstAt(lists, n, kn, jn)
    BY MetSomewhere
  <2>5. kx < km \/ (kx = km /\ jx < jm)
    BY <2>1, <2>2, <2>3, FirstDecides
  <2>6. km < kn \/ (km = kn /\ jm < jn)
    BY <2>3, <2>4, FirstDecides
  <2>7. kx < kn \/ (kx = kn /\ jx < jn)
    BY <2>5, <2>6
  <2>8. MetBefore(lists, x, n)
    BY <2>2, <2>4, <2>7, FirstDecides
  <2> QED BY <2>1, <2>8 DEF Sooner
<1>4. Sooner(lists, m) \in SUBSET Sooner(lists, n) /\ Sooner(lists, m) # Sooner(lists, n)
  BY <1>1, <1>2, <1>3
<1>5. Cardinality(Sooner(lists, m)) <= Cardinality(Sooner(lists, n))
      /\ Cardinality(Sooner(lists, m)) # Cardinality(Sooner(lists, n))
  BY <1>1, <1>4, FS_Subset
<1> QED BY <1>1, <1>5

\* signals: however often names are repeated in the lists of a circuit, each gets
\* one number below their count and no two the same, so two signals never share a
\* variable of the solver (CNFGenerator.cpp 389-427).
THEOREM SignalsAreDistinct ==
  ASSUME NEW Names, NEW lists \in Seq(Seq(Names))
  PROVE  /\ Numbered(lists) \in [NamesIn(lists) -> 0 .. Cardinality(NamesIn(lists)) - 1]
         /\ \A m, n \in NamesIn(lists) : Numbered(lists)[m] = Numbered(lists)[n] => m = n
<1>1. \A n \in NamesIn(lists) :
        /\ Cardinality(NamesIn(lists)) \in Nat /\ Cardinality(Sooner(lists, n)) \in Nat
        /\ Cardinality(Sooner(lists, n)) < Cardinality(NamesIn(lists))
  BY NumbersBelow
<1>2. Numbered(lists) \in [NamesIn(lists) -> 0 .. Cardinality(NamesIn(lists)) - 1]
  BY <1>1, NumberedCounts
<1>3. ASSUME NEW m \in NamesIn(lists), NEW n \in NamesIn(lists), m # n
      PROVE  Numbered(lists)[m] # Numbered(lists)[n]
  <2>1. PICK km \in Nat, jm \in Nat : FirstAt(lists, m, km, jm)
    BY MetSomewhere
  <2>2. PICK kn \in Nat, jn \in Nat : FirstAt(lists, n, kn, jn)
    BY MetSomewhere
  <2>3. ~(km = kn /\ jm = jn)
    BY <1>3, <2>1, <2>2 DEF FirstAt
  <2>4. MetBefore(lists, m, n) \/ MetBefore(lists, n, m)
    <3>1. \/ km < kn \/ (km = kn /\ jm < jn)
          \/ kn < km \/ (kn = km /\ jn < jm)
      BY <2>1, <2>2, <2>3
    <3> QED BY <2>1, <2>2, <3>1, FirstDecides
  <2>5. \/ Cardinality(Sooner(lists, m)) < Cardinality(Sooner(lists, n))
        \/ Cardinality(Sooner(lists, n)) < Cardinality(Sooner(lists, m))
    BY <2>4, SoonerFewer
  <2>6. Numbered(lists)[m] = Cardinality(Sooner(lists, m)) /\ Numbered(lists)[n] = Cardinality(Sooner(lists, n))
    BY NumberedCounts
  <2> QED BY <1>1, <2>5, <2>6
<1> QED BY <1>2, <1>3

-----------------------------------------------------------------------------
\* A clause has the variables and the signs that have been written.
LEMMA FilledValues ==
  ASSUME NEW writes, NEW n \in Nat, DOMAIN writes = 1 .. n, NEW X,
         \A k \in DOMAIN writes : writes[k][1] \in X /\ writes[k][2] \in BOOLEAN
  PROVE  DOMAIN Filled(writes) \subseteq X
         /\ \A v \in DOMAIN Filled(writes) : Filled(writes)[v] \in BOOLEAN
<1>1. DOMAIN Filled(writes) = {writes[k][1] : k \in DOMAIN writes}
  BY DEF Filled
<1>2. ASSUME NEW v \in DOMAIN Filled(writes)
      PROVE  Filled(writes)[v] \in BOOLEAN
  <2> DEFINE T == {k \in DOMAIN writes : writes[k][1] = v}
             last(k) == writes[k][1] = v /\ \A j \in DOMAIN writes : writes[j][1] = v => j <= k
  <2>1. T # {} /\ T \subseteq Nat /\ \A k \in T : k <= n
    BY <1>1
  <2>2. PICK k \in T : \A j \in T : k >= j
    <3> HIDE DEF T
    <3> QED BY <2>1, GreatestNatural
  <2>3. k \in DOMAIN writes /\ last(k)
    <3>1. k \in Nat /\ \A j \in DOMAIN writes : j \in Nat
      OBVIOUS
    <3> QED BY <2>2, <3>1
  <2>4. Filled(writes)[v] = writes[CHOOSE i \in DOMAIN writes : last(i)][2]
    BY <1>1 DEF Filled
  <2>5. (CHOOSE i \in DOMAIN writes : last(i)) \in DOMAIN writes
    <3> HIDE DEF last
    <3> QED BY <2>3
  <2> HIDE DEF last
  <2> QED BY <2>4, <2>5
<1> QED BY <1>1, <1>2

\* The variables of a gate's clauses are the signals of its output and its inputs.
LEMMA GateClausesValues ==
  ASSUME NEW sig, NEW g, NEW names, g.ins \in Seq(names), NEW X,
         sig[g.out] \in X, \A k \in DOMAIN g.ins : sig[g.ins[k]] \in X,
         NEW cl \in GateClauses(sig, g)
  PROVE  DOMAIN cl \subseteq X /\ \A v \in DOMAIN cl : cl[v] \in BOOLEAN
<1> DEFINE o == sig[g.out]
           p == g.row[1]
           v == Bool(g.row[2])
           x == [k \in DOMAIN g.ins |-> sig[g.ins[k]]]
<1>0. /\ Len(x) = Len(g.ins) /\ DOMAIN g.ins = 1 .. Len(g.ins) /\ Len(g.ins) \in Nat
      /\ v \in BOOLEAN /\ Bool(p[1]) \in BOOLEAN /\ Bool(p[2]) \in BOOLEAN
  BY DEF Bool
<1>1. ASSUME NEW a \in X, NEW q \in BOOLEAN
      PROVE  LET f == Filled(<<<<a, q>>>>)
             IN  DOMAIN f \subseteq X /\ \A u \in DOMAIN f : f[u] \in BOOLEAN
  <2> DEFINE w == <<<<a, q>>>>
  <2>1. DOMAIN w = 1 .. 1 /\ \A k \in DOMAIN w : w[k][1] \in X /\ w[k][2] \in BOOLEAN
    OBVIOUS
  <2> HIDE DEF w
  <2>2. DOMAIN Filled(w) \subseteq X /\ \A u \in DOMAIN Filled(w) : Filled(w)[u] \in BOOLEAN
    BY <2>1, FilledValues
  <2> QED BY <2>2 DEF w
<1>2. ASSUME NEW a \in X, NEW q \in BOOLEAN, NEW b \in X, NEW r \in BOOLEAN
      PROVE  LET f == Filled(<<<<a, q>>, <<b, r>>>>)
             IN  DOMAIN f \subseteq X /\ \A u \in DOMAIN f : f[u] \in BOOLEAN
  <2> DEFINE w == <<<<a, q>>, <<b, r>>>>
  <2>1. DOMAIN w = 1 .. 2 /\ \A k \in DOMAIN w : w[k][1] \in X /\ w[k][2] \in BOOLEAN
    OBVIOUS
  <2> HIDE DEF w
  <2>2. DOMAIN Filled(w) \subseteq X /\ \A u \in DOMAIN Filled(w) : Filled(w)[u] \in BOOLEAN
    BY <2>1, FilledValues
  <2> QED BY <2>2 DEF w
<1>3. ASSUME NEW a \in X, NEW q \in BOOLEAN, NEW b \in X, NEW r \in BOOLEAN,
             NEW d \in X, NEW s \in BOOLEAN
      PROVE  LET f == Filled(<<<<a, q>>, <<b, r>>, <<d, s>>>>)
             IN  DOMAIN f \subseteq X /\ \A u \in DOMAIN f : f[u] \in BOOLEAN
  <2> DEFINE w == <<<<a, q>>, <<b, r>>, <<d, s>>>>
  <2>1. DOMAIN w = 1 .. 3 /\ \A k \in DOMAIN w : w[k][1] \in X /\ w[k][2] \in BOOLEAN
    OBVIOUS
  <2> HIDE DEF w
  <2>2. DOMAIN Filled(w) \subseteq X /\ \A u \in DOMAIN Filled(w) : Filled(w)[u] \in BOOLEAN
    BY <2>1, FilledValues
  <2> QED BY <2>2 DEF w
<1>4. CASE Len(g.ins) = 0
  <2>1. cl = Filled(<<<<o, v>>>>)
    BY <1>0, <1>4 DEF GateClauses
  <2> HIDE DEF o, v
  <2> QED BY <1>0, <1>1, <2>1 DEF o
<1>5. CASE Len(g.ins) = 1
  <2>1. x[1] \in X /\ o \in X
    BY <1>0, <1>5
  <2>2. \E q \in BOOLEAN, r \in BOOLEAN : cl = Filled(<<<<o, q>>, <<x[1], r>>>>)
    <3>1. PICK d \in BOOLEAN, e \in BOOLEAN : d = (Bool(p[1]) # v) /\ e = (Bool(p[1]) = v)
      OBVIOUS
    <3>2. GateClauses(sig, g) =
            {Filled(<<<<o, TRUE>>, <<x[1], Bool(p[1]) # v>>>>),
             Filled(<<<<o, FALSE>>, <<x[1], Bool(p[1]) = v>>>>)}
      BY <1>0, <1>5 DEF GateClauses
    <3>3. cl = Filled(<<<<o, TRUE>>, <<x[1], d>>>>) \/ cl = Filled(<<<<o, FALSE>>, <<x[1], e>>>>)
      BY <3>1, <3>2, Zenon
    <3> QED BY <3>3, Zenon
  <2>3. PICK q \in BOOLEAN, r \in BOOLEAN : cl = Filled(<<<<o, q>>, <<x[1], r>>>>)
    BY <2>2
  <2> HIDE DEF o, x
  <2> QED BY <1>2, <2>1, <2>3
<1>6. CASE Len(g.ins) = 2
  <2>1. x[1] \in X /\ x[2] \in X /\ o \in X
    BY <1>0, <1>6
  <2>2. cl \in AndClauses(o, v, x, p)
    BY <1>0, <1>6 DEF GateClauses
  <2> HIDE DEF o, x, v, p
  <2>3. \/ \E q, r \in BOOLEAN : cl = Filled(<<<<x[1], q>>, <<x[2], r>>, <<o, v>>>>)
        \/ \E y \in {x[1], x[2]}, q, r \in BOOLEAN : cl = Filled(<<<<y, q>>, <<o, r>>>>)
    BY <1>0, <2>2 DEF AndClauses
  <2>4. CASE \E q, r \in BOOLEAN : cl = Filled(<<<<x[1], q>>, <<x[2], r>>, <<o, v>>>>)
    BY <1>0, <1>3, <2>1, <2>4
  <2>5. CASE \E y \in {x[1], x[2]}, q, r \in BOOLEAN : cl = Filled(<<<<y, q>>, <<o, r>>>>)
    BY <1>2, <2>1, <2>5
  <2> QED BY <2>3, <2>4, <2>5
<1>7. CASE Len(g.ins) \notin {0, 1, 2}
  BY <1>0, <1>7 DEF GateClauses
<1> QED BY <1>4, <1>5, <1>6, <1>7

-----------------------------------------------------------------------------
\* Every literal of a solver is of a variable that has been made.
LiteralsBelow(cls, bound) == UNION cls \subseteq (0 .. bound - 1) \X BOOLEAN

SolverOK(s) ==
  DOMAIN s = {"nVars", "clauses"} /\ s.nVars \in Nat /\ LiteralsBelow(s.clauses, s.nVars)

\* A literal of a variable below a bound.
LEMMA LitBelow ==
  ASSUME NEW bound \in Nat, NEW v \in 0 .. bound - 1, NEW b \in BOOLEAN
  PROVE  Lit(v, b) \in (0 .. bound - 1) \X BOOLEAN
<1>1. Lit(v, b) = <<v, b>>
  BY SMT DEF Lit
<1> QED BY <1>1

\* A numbered solver has clauses over its variables alone.
LEMMA SolverNumbered ==
  ASSUME NEW s, SolverOK(s)
  PROVE  WellNumbered(s)
<1>1. \A cl \in s.clauses : \A l \in cl : l \in (0 .. s.nVars - 1) \X BOOLEAN
  BY DEF SolverOK, LiteralsBelow
<1> QED BY <1>1 DEF SolverOK, WellNumbered

\* A bound may be raised.
LEMMA LargerBound ==
  ASSUME NEW cls, NEW a \in Nat, NEW b \in Nat, a <= b, LiteralsBelow(cls, a)
  PROVE  LiteralsBelow(cls, b)
<1>1. 0 .. a - 1 \subseteq 0 .. b - 1
  OBVIOUS
<1> QED BY <1>1 DEF LiteralsBelow

\* genLit makes what a clause lacks.
LEMMA AddedLiterals ==
  ASSUME NEW s, SolverOK(s), NEW cls, NEW bound \in Nat, LiteralsBelow(cls, bound)
  PROVE  /\ SolverOK(AddClauses(s, cls))
         /\ AddClauses(s, cls).nVars >= s.nVars
         /\ s.nVars <= bound => AddClauses(s, cls).nVars <= bound
         /\ LiteralsBelow(cls, AddClauses(s, cls).nVars)
<1>1. PICK top \in Nat : top >= bound /\ top >= s.nVars /\ (s.nVars <= bound => top = bound)
  <2>1. s.nVars \in Nat
    BY DEF SolverOK
  <2>2. CASE s.nVars <= bound
    BY <2>1, <2>2
  <2>3. CASE ~(s.nVars <= bound)
    BY <2>1, <2>3
  <2> QED BY <2>2, <2>3
<1>2. WellNumbered(s)
  BY SolverNumbered
<1>3. \A cl \in cls : \A l \in cl : l[1] \in 0 .. top - 1 /\ l \in (0 .. bound - 1) \X BOOLEAN
  <2>1. \A l \in UNION cls : l \in (0 .. bound - 1) \X BOOLEAN
    BY DEF LiteralsBelow
  <2>2. \A l \in UNION cls : l[1] \in 0 .. top - 1
    BY <1>1, <2>1
  <2> QED BY <2>1, <2>2
<1> DEFINE t == AddClauses(s, cls)
<1>4. /\ WellNumbered(t) /\ t.nVars \in s.nVars .. top
      /\ \A cl \in cls : \A l \in cl : l[1] < t.nVars
  BY <1>1, <1>2, <1>3, AddedVariables
<1>5. DOMAIN t = {"nVars", "clauses"} /\ t.clauses = s.clauses \cup cls
  BY DEF AddClauses
<1> HIDE DEF t
<1>6. s.nVars \in Nat /\ t.nVars \in Nat /\ t.nVars >= s.nVars /\ (s.nVars <= bound => t.nVars <= bound)
  BY <1>1, <1>4 DEF SolverOK
<1>7. LiteralsBelow(cls, t.nVars)
  <2> SUFFICES ASSUME NEW l \in UNION cls PROVE l \in (0 .. t.nVars - 1) \X BOOLEAN
    BY DEF LiteralsBelow
  <2>1. l[1] < t.nVars /\ l \in (0 .. bound - 1) \X BOOLEAN
    BY <1>3, <1>4
  <2> QED BY <1>6, <2>1
<1>8. LiteralsBelow(s.clauses, t.nVars)
  BY <1>6, LargerBound DEF SolverOK
<1> QED BY <1>5, <1>6, <1>7, <1>8 DEF SolverOK, LiteralsBelow, t

\* The clauses of setEqual name the signals they tie.
LEMMA TieLiterals ==
  ASSUME NEW vs, NEW ws, NEW bound \in Nat,
         \A k \in DOMAIN vs : vs[k] \in 0 .. bound - 1 /\ ws[k] \in 0 .. bound - 1
  PROVE  LiteralsBelow(TieClauses(vs, ws), bound)
<1> SUFFICES ASSUME NEW cl \in TieClauses(vs, ws), NEW l \in cl
             PROVE  l \in (0 .. bound - 1) \X BOOLEAN
  BY DEF LiteralsBelow
<1>1. PICK k \in DOMAIN vs : cl \in EqualClauses({}, vs[k], ws[k])
  BY DEF TieClauses
<1>2. \E b \in BOOLEAN : l = Lit(vs[k], b) \/ l = Lit(ws[k], b)
  BY <1>1, Zenon DEF EqualClauses
<1> QED BY <1>2, LitBelow

\* The clauses of ifTrue_thenEQ name the trigger and the signals it ties.
LEMMA TriggerLiterals ==
  ASSUME NEW vs, NEW ws, NEW bound \in Nat, NEW trigger \in 0 .. bound - 1, NEW cls,
         \A k \in DOMAIN vs : vs[k] \in 0 .. bound - 1 /\ ws[k] \in 0 .. bound - 1,
         \A cl \in cls : \E k \in DOMAIN vs : cl \in EqualClauses({Lit(trigger, FALSE)}, vs[k], ws[k])
  PROVE  LiteralsBelow(cls, bound)
<1> SUFFICES ASSUME NEW cl \in cls, NEW l \in cl
             PROVE  l \in (0 .. bound - 1) \X BOOLEAN
  BY DEF LiteralsBelow
<1>1. PICK k \in DOMAIN vs : cl \in EqualClauses({Lit(trigger, FALSE)}, vs[k], ws[k])
  OBVIOUS
<1>2. \E b \in BOOLEAN : l = Lit(vs[k], b) \/ l = Lit(ws[k], b) \/ l = Lit(trigger, b)
  BY <1>1, Zenon DEF EqualClauses
<1> QED BY <1>2, LitBelow

\* The clauses of a copy name the variables of its block.
LEMMA CopyLiterals ==
  ASSUME NEW cnf, NEW n \in Nat, NEW offset \in Nat, NEW bound \in Nat, offset + n <= bound,
         \A cl \in cnf.clauses : \A v \in DOMAIN cl : v \in 0 .. n - 1 /\ cl[v] \in BOOLEAN
  PROVE  LiteralsBelow(CopyClauses(cnf, offset), bound)
<1> SUFFICES ASSUME NEW cl \in CopyClauses(cnf, offset), NEW l \in cl
             PROVE  l \in (0 .. bound - 1) \X BOOLEAN
  BY DEF LiteralsBelow
<1>1. PICK d \in cnf.clauses : cl = {Lit(v + offset, d[v]) : v \in DOMAIN d}
  BY DEF CopyClauses
<1>2. PICK v \in DOMAIN d : l = Lit(v + offset, d[v])
  BY <1>1
<1>3. v + offset \in 0 .. bound - 1 /\ d[v] \in BOOLEAN
  OBVIOUS
<1> QED BY <1>2, <1>3, LitBelow

\* The clauses of setNEqual name its signals and as many variables from max on.
LEMMA DifferLiterals ==
  ASSUME NEW max \in Nat, NEW n \in Nat, NEW vs, NEW ws, NEW bound \in Nat, DOMAIN vs = 1 .. n,
         max + n <= bound,
         \A k \in DOMAIN vs : vs[k] \in 0 .. bound - 1 /\ ws[k] \in 0 .. bound - 1
  PROVE  LiteralsBelow(DifferClauses(max, vs, ws), bound)
<1> DEFINE some == {Lit(max + k - 1, TRUE) : k \in DOMAIN vs}
           pair(k) == XorClauses(vs[k], ws[k], max + k - 1)
<1> SUFFICES ASSUME NEW cl \in DifferClauses(max, vs, ws), NEW l \in cl
             PROVE  l \in (0 .. bound - 1) \X BOOLEAN
  BY DEF LiteralsBelow
<1>1. cl = some \/ \E k \in DOMAIN vs : cl \in pair(k)
  <2>1. DifferClauses(max, vs, ws) = {some} \cup UNION {pair(k) : k \in DOMAIN vs}
    BY DEF DifferClauses, XorClauses
  <2> HIDE DEF some, pair
  <2> QED BY <2>1
<1>2. \E k \in DOMAIN vs : \E d \in BOOLEAN :
        l = Lit(vs[k], d) \/ l = Lit(ws[k], d) \/ l = Lit(max + k - 1, d)
  <2>1. CASE cl = some
    BY <2>1, Zenon
  <2>2. CASE \E k \in DOMAIN vs : cl \in pair(k)
    <3>1. PICK k \in DOMAIN vs : cl \in pair(k)
      BY <2>2
    <3>2. PICK a \in BOOLEAN, b \in BOOLEAN :
            cl = {Lit(vs[k], a), Lit(ws[k], b), Lit(max + k - 1, a # b)}
      BY <3>1, SMT DEF XorClauses
    <3>3. (a # b) \in BOOLEAN
      OBVIOUS
    <3>4. l = Lit(vs[k], a) \/ l = Lit(ws[k], b) \/ l = Lit(max + k - 1, a # b)
      BY <3>2, Zenon
    <3>5. PICK d \in BOOLEAN : d = (a # b)
      BY <3>3
    <3>6. l = Lit(vs[k], a) \/ l = Lit(ws[k], b) \/ l = Lit(max + k - 1, d)
      BY <3>4, <3>5, Zenon
    <3> QED BY <3>6, Zenon
  <2> QED BY <1>1, <2>1, <2>2
<1>3. PICK k \in DOMAIN vs, d \in BOOLEAN :
        l = Lit(vs[k], d) \/ l = Lit(ws[k], d) \/ l = Lit(max + k - 1, d)
  BY <1>2
<1>4. max + k - 1 \in 0 .. bound - 1
  OBVIOUS
<1> QED BY <1>3, <1>4, LitBelow

-----------------------------------------------------------------------------
\* Vectors that agree, that differ somewhere, and that differ as setNEqual spells
\* it out: in variables from `at` on.
Same(m, vs, ws)   == \A k \in DOMAIN vs : vs[k] \in m <=> ws[k] \in m
Differ(m, vs, ws) == \E k \in DOMAIN vs : ~(vs[k] \in m <=> ws[k] \in m)
Differing(m, at, vs, ws) ==
  /\ \E k \in DOMAIN vs : at + k - 1 \in m
  /\ \A k \in DOMAIN vs : at + k - 1 \in m <=> ~(vs[k] \in m <=> ws[k] \in m)

\* A vector of L variables below base; an assignment that is another apart from a
\* block of variables.
Below(vs, L, base)     == DOMAIN vs = 1 .. L /\ \A k \in 1 .. L : vs[k] \in 0 .. base - 1
AlikeApart(n, m, S)    == \A v \in Nat \ S : v \in n <=> v \in m

\* Clauses taken together.
LEMMA BothSatisfied ==
  ASSUME NEW m, NEW A, NEW B
  PROVE  Satisfies(m, A \cup B) <=> Satisfies(m, A) /\ Satisfies(m, B)
BY DEF Satisfies

\* No clauses ask for nothing.
LEMMA NothingAsked ==
  ASSUME NEW m, NEW cls
  PROVE  Satisfies(m, AddClauses(NewSolver, cls).clauses) <=> Satisfies(m, cls)
<1>1. Satisfies(m, NewSolver.clauses)
  BY DEF NewSolver, Satisfies
<1> QED BY <1>1, AddedClauses

\* A unit clause.
LEMMA UnitMeans ==
  ASSUME NEW m, NEW v \in Nat, NEW b \in BOOLEAN
  PROVE  (\E l \in {Lit(v, b)} : Holds(m, l)) <=> (v \in m <=> b)
BY LitHolds, Zenon

\* A copy of a CNF, and an equality, by themselves.
LEMMA CopyMeans ==
  ASSUME NEW cnf, NEW offset \in Nat, NEW m,
         \A cl \in cnf.clauses : \A v \in DOMAIN cl : v \in Nat /\ cl[v] \in BOOLEAN
  PROVE  Satisfies(m, CopyClauses(cnf, offset)) <=>
           SatisfiesMaps({v \in Nat : v + offset \in m}, cnf.clauses)
<1>1. Satisfies(m, NewSolver.clauses)
  BY DEF NewSolver, Satisfies
<1>2. Satisfies(m, AddCNF(NewSolver, cnf, offset).clauses) <=>
        SatisfiesMaps({v \in Nat : v + offset \in m}, cnf.clauses)
  BY <1>1, CopyIsEncoded
<1> QED BY <1>2, NothingAsked DEF AddCNF

\* Equality of two vectors.
LEMMA TieMeans ==
  ASSUME NEW vs, NEW ws, NEW m, \A k \in DOMAIN vs : vs[k] \in Nat /\ ws[k] \in Nat
  PROVE  Satisfies(m, TieClauses(vs, ws)) <=> Same(m, vs, ws)
<1>1. Satisfies(m, NewSolver.clauses)
  BY DEF NewSolver, Satisfies
<1>2. Satisfies(m, setEqual(NewSolver, vs, ws).clauses) <=> Same(m, vs, ws)
  BY <1>1, EqualityIsEncoded DEF Same
<1> QED BY <1>2, NothingAsked DEF setEqual

\* Two vectors that are spelled out to differ do.
LEMMA DifferingDiffer ==
  ASSUME NEW m, NEW at, NEW vs, NEW ws, Differing(m, at, vs, ws)
  PROVE  Differ(m, vs, ws)
BY DEF Differing, Differ

\* Two constraints of setNEqual, one after the other: an assignment that tells the
\* vectors of both apart extends to their auxiliary variables, which are above
\* every variable of the vectors.
LEMMA BothExtended ==
  ASSUME NEW base \in Nat, NEW L \in Nat, NEW m \in SUBSET Nat, NEW vs, NEW ws, NEW xs, NEW ys,
         Below(vs, L, base), Below(ws, L, base), Below(xs, L, base), Below(ys, L, base),
         Differ(m, vs, ws), Differ(m, xs, ys)
  PROVE  \E n \in SUBSET Nat :
           /\ Differing(n, base, vs, ws) /\ Differing(n, base + L, xs, ys)
           /\ AlikeApart(n, m, base .. base + 2 * L - 1)
<1> DEFINE D(k) == ~(vs[k] \in m <=> ws[k] \in m)
           E(k) == ~(xs[k] \in m <=> ys[k] \in m)
           n == {v \in Nat : \/ v < base /\ v \in m
                             \/ v >= base /\ v < base + L /\ D(v - base + 1)
                             \/ v >= base + L /\ v < base + 2 * L /\ E(v - base - L + 1)
                             \/ v >= base + 2 * L /\ v \in m}
<1>1. ASSUME NEW k \in 1 .. L
      PROVE  /\ base + k - 1 \in n <=> D(k)
             /\ base + L + k - 1 \in n <=> E(k)
  <2> HIDE DEF D, E
  <2>1. /\ base + k - 1 \in Nat /\ base + k - 1 >= base /\ base + k - 1 < base + L
        /\ (base + k - 1) - base + 1 = k
        /\ base + L + k - 1 \in Nat /\ base + L + k - 1 >= base + L /\ base + L + k - 1 < base + 2 * L
        /\ (base + L + k - 1) - base - L + 1 = k
    OBVIOUS
  <2> DEFINE a == base + k - 1
             b == base + L + k - 1
  <2>2. /\ a \in Nat /\ a >= base /\ a < base + L /\ a - base + 1 = k
        /\ b \in Nat /\ b >= base + L /\ b < base + 2 * L /\ b - base - L + 1 = k
    BY <2>1
  <2> HIDE DEF a, b
  <2>3. a \in n <=> D(k)
    BY <2>2
  <2>4. b \in n <=> E(k)
    BY <2>2
  <2> QED BY <2>3, <2>4 DEF a, b
<1>2. ASSUME NEW v \in 0 .. base - 1 PROVE v \in n <=> v \in m
  <2> HIDE DEF D, E
  <2> QED OBVIOUS
<1>3. ASSUME NEW v \in Nat \ (base .. base + 2 * L - 1) PROVE v \in n <=> v \in m
  <2> HIDE DEF D, E
  <2> QED OBVIOUS
<1>4. n \in SUBSET Nat
  OBVIOUS
<1> HIDE DEF n
<1>5. ASSUME NEW k \in 1 .. L
      PROVE  /\ ~(vs[k] \in n <=> ws[k] \in n) <=> D(k)
             /\ ~(xs[k] \in n <=> ys[k] \in n) <=> E(k)
  <2>1. /\ vs[k] \in 0 .. base - 1 /\ ws[k] \in 0 .. base - 1
        /\ xs[k] \in 0 .. base - 1 /\ ys[k] \in 0 .. base - 1
    BY DEF Below
  <2> QED BY <1>2, <2>1
<1>6. (\E k \in 1 .. L : D(k)) /\ (\E k \in 1 .. L : E(k))
  BY DEF Differ, Below
<1> HIDE DEF D, E
<1>7. Differing(n, base, vs, ws)
  BY <1>1, <1>5, <1>6 DEF Differing, Below
<1>8. Differing(n, base + L, xs, ys)
  BY <1>1, <1>5, <1>6 DEF Differing, Below
<1> QED BY <1>3, <1>4, <1>7, <1>8 DEF AlikeApart

\* One constraint of setNEqual: an assignment that tells the vectors apart extends to
\* its auxiliary variables.
LEMMA OneExtended ==
  ASSUME NEW base \in Nat, NEW L \in Nat, NEW m \in SUBSET Nat, NEW vs, NEW ws,
         Below(vs, L, base), Below(ws, L, base), Differ(m, vs, ws)
  PROVE  \E n \in SUBSET Nat :
           Differing(n, base, vs, ws) /\ AlikeApart(n, m, base .. base + L - 1)
<1> DEFINE D(k) == ~(vs[k] \in m <=> ws[k] \in m)
           n == {v \in Nat : \/ v < base /\ v \in m
                             \/ v >= base /\ v < base + L /\ D(v - base + 1)
                             \/ v >= base + L /\ v \in m}
<1>1. ASSUME NEW k \in 1 .. L
      PROVE  base + k - 1 \in n <=> D(k)
  <2> HIDE DEF D
  <2> DEFINE a == base + k - 1
  <2>1. a \in Nat /\ a >= base /\ a < base + L /\ a - base + 1 = k
    OBVIOUS
  <2> HIDE DEF a
  <2>2. a \in n <=> D(k)
    BY <2>1
  <2> QED BY <2>2 DEF a
<1>2. ASSUME NEW v \in 0 .. base - 1 PROVE v \in n <=> v \in m
  <2> HIDE DEF D
  <2> QED OBVIOUS
<1>3. ASSUME NEW v \in Nat \ (base .. base + L - 1) PROVE v \in n <=> v \in m
  <2> HIDE DEF D
  <2> QED OBVIOUS
<1>4. n \in SUBSET Nat
  OBVIOUS
<1> HIDE DEF n
<1>5. ASSUME NEW k \in 1 .. L
      PROVE  ~(vs[k] \in n <=> ws[k] \in n) <=> D(k)
  <2>1. vs[k] \in 0 .. base - 1 /\ ws[k] \in 0 .. base - 1
    BY DEF Below
  <2> QED BY <1>2, <2>1
<1>6. \E k \in 1 .. L : D(k)
  BY DEF Differ, Below
<1> HIDE DEF D
<1>7. Differing(n, base, vs, ws)
  BY <1>1, <1>5, <1>6 DEF Differing, Below
<1> QED BY <1>3, <1>4, <1>7 DEF AlikeApart
=============================================================================
