-------------------------- MODULE SeparatorSearch --------------------------
(***************************************************************************)
(* What the caller of MergeSelection relies on (nodemerge.cpp 71-88): one  *)
(* answer for the seed, either clusters whose inputs tell every minterm    *)
(* where the seed must be 0 from every one where it must be 1, or none.    *)
(***************************************************************************)
EXTENDS Integers, Sequences

VARIABLES
  cands, limit, off, on,  \* the question, never changed
  answered,
  chosen                  \* positions of the clusters in the answer

searchVars == <<cands, limit, off, on, answered, chosen>>

InputsOf(s) == UNION {cands[s[k]] : k \in DOMAIN s}

Separates(inputs) == \A x \in off, y \in on : x \cap inputs # y \cap inputs

Init == answered = FALSE /\ chosen = <<>>

AnswerWith(s) ==
  /\ Len(s) \in 1 .. limit
  /\ Separates(InputsOf(s))
  /\ chosen' = s

\* No answer is allowed only when no single candidate would do, or when the
\* seed is a constant.
AnswerNone ==
  /\ off = {} \/ on = {} \/ \A i \in DOMAIN cands : ~Separates(cands[i])
  /\ chosen' = <<>>

Answer ==
  /\ ~answered
  /\ AnswerNone \/ \E n \in 1 .. limit : \E s \in [1 .. n -> DOMAIN cands] : AnswerWith(s)
  /\ answered' = TRUE
  /\ UNCHANGED <<cands, limit, off, on>>

\* What an answer may be; Spec adds that there is one.
SafeSpec == Init /\ [][Answer]_searchVars

Spec == SafeSpec /\ WF_searchVars(Answer)
=============================================================================
