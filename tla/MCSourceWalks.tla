---------------------------- MODULE MCSourceWalks ----------------------------
(***************************************************************************)
(* Instances of SourceWalks: two places, one of them with one item.        *)
(***************************************************************************)
EXTENDS SourceWalks

MCHome == [i \in Items |-> IF i = "c" THEN 2 ELSE 1]
MCNumber == [i \in Items |-> CASE i = "a" -> 1 [] i = "b" -> 2 [] i = "c" -> 3]
=============================================================================
