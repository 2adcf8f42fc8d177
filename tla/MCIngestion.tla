----------------------------- MODULE MCIngestion -----------------------------
(* Two worker slots, two queue entries and three job rows for one           *)
(* connector: enough for a duplicate, a successor and a replay at once.     *)
EXTENDS Ingestion, TLC

Symmetry == Permutations(Workers) \cup Permutations(Tasks)
            \cup Permutations(Jobs)
=============================================================================
