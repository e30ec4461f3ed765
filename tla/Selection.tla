----------------------------- MODULE Selection -----------------------------
(***************************************************************************)
(* Vec::retain and Iterator::filter, stated without recursion.             *)
(***************************************************************************)
EXTENDS Naturals, Sequences, FiniteSets

\* The place of an index among those of a set.
Place(I, i) == Cardinality({j \in I : j <= i})

\* The elements of a sequence at the indices of a set, in the order they have.
Select(s, I) == [k \in 1..Cardinality(I) |-> s[CHOOSE i \in I : Place(I, i) = k]]
=============================================================================
