-------------------------------- MODULE MCQkdKem --------------------------------
(* Values for the constants of QkdKem. *)
EXTENDS QkdKemInv, TLC

\* Codes a failing provider call returns.
Zero == {0}
ZeroOrNegative == {0, -1}

\* For safety runs only.
Symmetry == Permutations(Exchanges) \cup Permutations(KeyPairs) \cup Permutations(Secrets)
================================================================================
