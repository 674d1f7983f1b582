------------------------------ MODULE Descent ------------------------------
(***************************************************************************)
(* The order in which a run of this program goes down: lexicographic       *)
(* order on tuples of counters.  A process whose every step lowers such a  *)
(* tuple takes finitely many steps, whatever its counters start from.      *)
(***************************************************************************)
EXTENDS Naturals, WellFoundedInduction, TLAPS

Less == {pair \in Nat \X Nat : pair[1] < pair[2]}

Lex(n) == LexProductOrdering(Less, Nat, n)

\* There is no infinite sequence of n-tuples of counters in which every
\* tuple is below the one before it.
THEOREM LexIsWellFounded ==
  ASSUME NEW n \in Nat
  PROVE  IsWellFoundedOn(Lex(n), [1..n -> Nat])
<1>1. IsWellFoundedOn(Less, Nat)
  BY NatLessThanWellFounded DEF Less, OpToRel
<1> QED
  BY <1>1, WFLexProductOrdering DEF Lex

\* A tuple is below another one when it is smaller at some place and equal
\* at every place before it.
LEMMA LexAt ==
  ASSUME NEW n \in Nat, NEW r \in [1..n -> Nat], NEW s \in [1..n -> Nat],
         NEW j \in 1..n, \A i \in 1..(j-1) : r[i] = s[i], r[j] < s[j]
  PROVE  <<r, s>> \in Lex(n)
<1>1. <<r[j], s[j]>> \in Less
  BY DEF Less
<1> QED
  BY <1>1 DEF Lex, LexProductOrdering

============================================================================
