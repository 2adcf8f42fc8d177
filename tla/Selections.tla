------------------------------ MODULE Selections ------------------------------
(***************************************************************************)
(* What lists are cut down to: some of the elements, or the first ones, in *)
(* the order they had.                                                     *)
(***************************************************************************)
EXTENDS Integers, Sequences, FiniteSets

\* The elements of s at some places.
Kept(s, places) ==
    LET Place(k) == CHOOSE i \in places : Cardinality({j \in places : j < i}) = k - 1
    IN  [k \in 1..Cardinality(places) |-> s[Place(k)]]

\* s[:n].
First(s, n) == SubSeq(s, 1, IF n < Len(s) THEN n ELSE Len(s))
===============================================================================
