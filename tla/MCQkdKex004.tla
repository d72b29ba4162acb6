------------------------------ MODULE MCQkdKex004 ------------------------------
(* Values for the constants of QkdKex004. *)
EXTENDS QkdKex004Inv, TLC

\* For safety runs only.
Symmetry == Permutations(Exchanges) \cup Permutations(KeyIds)
================================================================================
