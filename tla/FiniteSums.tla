----------------------------- MODULE FiniteSums -----------------------------
(***************************************************************************)
(* The sum of a function to the naturals over a finite set, as the number  *)
(* of units it hands out.  Being a cardinality it needs no recursion.      *)
(***************************************************************************)
EXTENDS Integers, FiniteSets

Units(S, f) == UNION {{x} \X (1..f[x]) : x \in S}

SumOver(S, f) == Cardinality(Units(S, f))
=============================================================================
