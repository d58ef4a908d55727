------------------------------ MODULE Filters ------------------------------
(***************************************************************************)
(* A filter on sequences, where it is known which places are to stay: what *)
(* the deletions of a loop over a list or a Map leave, in their order.     *)
(***************************************************************************)
EXTENDS Integers, FiniteSets

\* The elements of s at these of its places, in the order of s.
Only(s, places) ==
    [n \in 1..Cardinality(places) |->
       s[CHOOSE i \in places : Cardinality({j \in places : j <= i}) = n]]
=============================================================================
