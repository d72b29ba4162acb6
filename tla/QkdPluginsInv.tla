----------------------------- MODULE QkdPluginsInv -----------------------------
(* The inductive invariant behind the safety properties of QkdPlugins: how far *)
(* a daemon is decides what its parser and its factory know, and these decide  *)
(* what it can settle on and what the object it gets runs.                     *)
EXTENDS QkdPlugins

\* All tokens with their numbers.
Keywords == UNION {register_algorithm_names(p) : p \in Plugins}

\* The parser knows the tokens of plugins that were created, and of no other.
Registered(d) ==
  \A k \in keywords[d] : \E p \in Plugins :
    stage[d][p] \notin {"absent", "failed"} /\ k \in register_algorithm_names(p)

\* The factory has the constructors of exactly the plugins that are loaded.
Constructors(d) ==
  /\ \A f \in factory[d] : stage[d][f[2]] = "loaded" /\ f[1] \in Features(f[2])
  /\ \A p \in Plugins : stage[d][p] = "loaded" => Features(p) \X {p} \subseteq factory[d]

\* A proposal is parsed after loading, and its numbers are those of tokens in
\* the configuration.
Parsed(d) ==
  proposal[d] # None =>
    /\ \A p \in Plugins : stage[d][p] \in {"failed", "loaded", "unloaded", "destroyed"}
    /\ \A n \in proposal[d] : \E t \in config[d] : <<t, n>> \in keywords[d]

\* What the daemons settled on is in all proposals.
Settled ==
  chosen # None => \A d \in Daemons : proposal[d] # None /\ chosen \in proposal[d]

\* An object runs what the token of the number settled on is documented to name;
\* there is none where the plugin of that token is not loaded.
Runs(d) ==
  object[d] # None =>
    /\ chosen # None
    /\ \/ \E t \in Tokens : <<t, chosen>> \in Keywords /\ object[d] = Documented[t]
       \/ object[d] = Refused /\ \E p \in Plugins : NamedOnly(d, p, chosen)

\* A plugin is there until the daemon has got its object.
Ended(d) == \A p \in Plugins : stage[d][p] = "destroyed" => object[d] # None

IndInv ==
  /\ TypeOK
  /\ Settled
  /\ \A d \in Daemons :
       /\ Registered(d)
       /\ Constructors(d)
       /\ Parsed(d)
       /\ Runs(d)
       /\ Ended(d)
================================================================================
