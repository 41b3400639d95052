------------------------------ MODULE Selections ------------------------------
(***************************************************************************)
(* The lists the code makes with sorted() and with a comprehension that    *)
(* filters a list.                                                         *)
(***************************************************************************)
EXTENDS Integers, Sequences, FiniteSets

\* How many members of S come before x.
Before(S, x) == Cardinality({y \in S : y < x})

\* sorted(S): the members of a finite set of integers, least first.
Sorted(S) == [i \in 1..Cardinality(S) |-> CHOOSE x \in S : Before(S, x) = i - 1]

\* [s[i] for i in P]: the elements of s at the positions in P, in the order of s.
Chosen(s, P) == [i \in 1..Cardinality(P) |-> s[Sorted(P)[i]]]
=============================================================================
