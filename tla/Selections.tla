----------------------------- MODULE Selections -----------------------------
(***************************************************************************)
(* The elements of a sequence at some of its positions, in their order:     *)
(* what a comprehension with a condition makes of a list.                   *)
(***************************************************************************)
EXTENDS Naturals, Sequences, FiniteSets

Nth(I, n) == CHOOSE i \in I : Cardinality({k \in I : k <= i}) = n
At(s, I)  == [n \in 1 .. Cardinality(I) |-> s[Nth(I, n)]]
=============================================================================
