------------------------------ MODULE MCQkdPlugins ------------------------------
(* Values for the constants of QkdPlugins. *)
EXTENDS QkdPluginsInv

CONSTANTS alice, bob

\* Alice is configured with one token, Bob with the same one, with all of them,
\* or with a token of the other plugin; or Alice with one of each plugin.
Pairs ==
  {<<{t}, {t}>> : t \in Tokens}
  \cup {<<{t}, Tokens>> : t \in Tokens}
  \cup {<<{"qkd"}, {"qkd_mlkem3"}>>, <<{"qkd", "qkd_kyber1"}, Tokens>>}

Proposals == {[d \in Daemons |-> IF d = alice THEN p[1] ELSE p[2]] : p \in Pairs}
================================================================================
