------------------------------ MODULE MCQkdKex014 ------------------------------
(* Values for the constants of QkdKex014. *)
EXTENDS QkdKex014Inv, TLC

CONSTANTS x1, x2, x3

\* x1 is between two client-initiated daemons, the others between server-initiated
\* ones that use the same KMEs.
EachMode == [o \in Objects |-> IF o[1] = x1 THEN "client" ELSE "server"]

\* One daemon was built client-initiated, the other one server-initiated; the
\* former initiates x1, the latter x2.
MixedMode == [o \in Objects |->
                IF o \in {<<x1, Initiator>>, <<x2, Responder>>} THEN "client" ELSE "server"]

\* Client-initiated daemons throughout.
ClientMode == [o \in Objects |-> "client"]

\* For safety runs only; exchanges of different modes are not interchangeable.
Symmetry == Permutations(KeyIds)
SymmetryEachMode == Permutations(KeyIds) \cup Permutations({x2, x3})
================================================================================
