------------------------------- MODULE QkdPlugins -------------------------------
(* How the methods of the two plugins come to be used: each daemon loads both   *)
(* plugins, which name their key exchange methods (proposal tokens) and number  *)
(* them (features); the daemons settle on a number both are configured for, and *)
(* each has the plugin that provides it construct an object. Names, numbers,    *)
(* features and constructors are kept in four tables that have to agree.        *)
(* Loader, proposal parser, negotiation and factory are strongSwan's.           *)
EXTENDS Naturals, Chunk

CONSTANTS Daemons,      \* the two IKE daemons
          Configs       \* the tokens they may be configured with, per daemon

Plugins == {"qkd", "qkd-kem"}

-------------------------------------------------------------------------------
\* Variant: one number too many for the 16 bits of an IKEv2 transform ID.
KE_QKD_Wraps == 65536

KE_QKD == 65535

\* The methods of qkd_kem.h; the i-th has the number 65535 - i.
KemMethods ==
  << "FRODO_AES_L1", "FRODO_SHAKE_L1", "FRODO_AES_L3", "FRODO_SHAKE_L3",
     "FRODO_AES_L5", "FRODO_SHAKE_L5", "KYBER_L1", "KYBER_L3", "KYBER_L5",
     "MLKEM_L1", "MLKEM_L3", "MLKEM_L5", "BIKE_L1", "BIKE_L3", "BIKE_L5",
     "HQC_L1", "HQC_L3", "HQC_L5" >>

KE_QKD_KEM(m) == 65535 - (CHOOSE i \in DOMAIN KemMethods : KemMethods[i] = m)

KemTokens ==
  [ qkd_frodoa1 |-> "FRODO_AES_L1", qkd_frodos1 |-> "FRODO_SHAKE_L1",
    qkd_frodoa3 |-> "FRODO_AES_L3", qkd_frodos3 |-> "FRODO_SHAKE_L3",
    qkd_frodoa5 |-> "FRODO_AES_L5", qkd_frodos5 |-> "FRODO_SHAKE_L5",
    qkd_kyber1 |-> "KYBER_L1", qkd_kyber3 |-> "KYBER_L3", qkd_kyber5 |-> "KYBER_L5",
    qkd_mlkem1 |-> "MLKEM_L1", qkd_mlkem3 |-> "MLKEM_L3", qkd_mlkem5 |-> "MLKEM_L5",
    qkd_bike1 |-> "BIKE_L1", qkd_bike3 |-> "BIKE_L3", qkd_bike5 |-> "BIKE_L5",
    qkd_hqc1 |-> "HQC_L1", qkd_hqc3 |-> "HQC_L3", qkd_hqc5 |-> "HQC_L5" ]

Tokens == {"qkd"} \cup DOMAIN KemTokens

\* Variant: two rows of the token table have their numbers swapped.
SwappedTokens(p) ==
  LET of == [KemTokens EXCEPT !.qkd_kyber3 = "MLKEM_L3", !.qkd_mlkem3 = "KYBER_L3"]
  IN  IF p = "qkd" THEN {<<"qkd", KE_QKD>>}
                   ELSE {<<t, KE_QKD_KEM(of[t])>> : t \in DOMAIN of}

\* The tokens a plugin registers, each with its number.
register_algorithm_names(p) ==
  IF p = "qkd" THEN {<<"qkd", KE_QKD>>}
               ELSE {<<t, KE_QKD_KEM(KemTokens[t])>> : t \in DOMAIN KemTokens}

Provided ==
  { "FRODO_AES_L1", "FRODO_SHAKE_L1", "FRODO_AES_L3", "FRODO_SHAKE_L3",
    "FRODO_AES_L5", "FRODO_SHAKE_L5", "KYBER_L1", "KYBER_L3", "KYBER_L5",
    "MLKEM_L1", "MLKEM_L3", "MLKEM_L5", "BIKE_L1", "BIKE_L3", "BIKE_L5",
    "HQC_L1", "HQC_L3", "HQC_L5" }

\* Variant: a method was left out of the features.
ForgetsFeature(p) ==
  IF p = "qkd" THEN {KE_QKD} ELSE {KE_QKD_KEM(m) : m \in Provided \ {"HQC_L5"}}

\* The numbers a plugin's constructor is registered for.
Features(p) == IF p = "qkd" THEN {KE_QKD} ELSE {KE_QKD_KEM(m) : m \in Provided}

\* The KEM of the OpenSSL provider that each method names: its family, and the
\* security level its parameter set (640, 976, 1344, ...) is for.
KemNames ==
  [ FRODO_AES_L1 |-> "FrodoKEM-AES-1", FRODO_SHAKE_L1 |-> "FrodoKEM-SHAKE-1",
    FRODO_AES_L3 |-> "FrodoKEM-AES-3", FRODO_SHAKE_L3 |-> "FrodoKEM-SHAKE-3",
    FRODO_AES_L5 |-> "FrodoKEM-AES-5", FRODO_SHAKE_L5 |-> "FrodoKEM-SHAKE-5",
    KYBER_L1 |-> "Kyber-1", KYBER_L3 |-> "Kyber-3", KYBER_L5 |-> "Kyber-5",
    MLKEM_L1 |-> "ML-KEM-1", MLKEM_L3 |-> "ML-KEM-3", MLKEM_L5 |-> "ML-KEM-5",
    BIKE_L1 |-> "BIKE-1", BIKE_L3 |-> "BIKE-3", BIKE_L5 |-> "BIKE-5",
    HQC_L1 |-> "HQC-1", HQC_L3 |-> "HQC-3", HQC_L5 |-> "HQC-5" ]

\* Pure QKD, which names no KEM.
QKD == "QKD"

\* The outcome of a call that found no constructor, or one that returned NULL.
Refused == "refused"

\* The KEM a number stands for, if any.
get_kem_name(method) ==
  IF \E m \in DOMAIN KemNames : KE_QKD_KEM(m) = method
  THEN KemNames[CHOOSE m \in DOMAIN KemNames : KE_QKD_KEM(m) = method]
  ELSE Refused

\* Variant: the constructor has the number of the enumeration in qkd_plugin.h.
NumberOfEnum(p, method) ==
  IF p = "qkd" THEN IF method = 65516 THEN QKD ELSE Refused ELSE get_kem_name(method)

\* What an object constructed for a number runs; either constructor
\* (qkd_kex_create, qkd_kem_create) refuses the numbers it does not know.
Constructed(p, method) ==
  IF p = "qkd" THEN IF method = KE_QKD THEN QKD ELSE Refused ELSE get_kem_name(method)

Algorithms == {QKD} \cup {KemNames[m] : m \in DOMAIN KemNames}

\* An IKEv2 transform ID has 16 bits.
Number == {n \in Nat : n < 65536}

ASSUME PluginsAssumption == /\ Configs \subseteq [Daemons -> SUBSET Tokens]
                            /\ None \notin Number
                            /\ None \notin Algorithms \cup {Refused}

-------------------------------------------------------------------------------
VARIABLES stage,        \* stage[d][p]: how far daemon d is with loading plugin p
          keywords,     \* keywords[d]: tokens registered with the proposal parser
          factory,      \* factory[d]: number and plugin of each KE constructor
          config,       \* config[d]: tokens of the proposal in d's configuration
          proposal,     \* proposal[d]: their numbers, or None before it is parsed
          chosen,       \* the number negotiated, or None
          object        \* object[d]: what its key exchange object runs, or None

vars == <<stage, keywords, factory, config, proposal, chosen, object>>

Stages == {"absent", "failed", "created", "loaded", "unloaded", "destroyed"}

TypeOK ==
  /\ stage \in [Daemons -> [Plugins -> Stages]]
  /\ keywords \in [Daemons -> SUBSET (Tokens \X Number)]
  /\ factory \in [Daemons -> SUBSET (Number \X Plugins)]
  /\ config \in [Daemons -> SUBSET Tokens]
  /\ proposal \in [Daemons -> {None} \cup SUBSET Number]
  /\ chosen \in Number \cup {None}
  /\ object \in [Daemons -> Algorithms \cup {Refused, None}]

Init ==
  /\ config \in Configs
  /\ stage = [d \in Daemons |-> [p \in Plugins |-> "absent"]]
  /\ keywords = [d \in Daemons |-> {}]
  /\ factory = [d \in Daemons |-> {}]
  /\ proposal = [d \in Daemons |-> None]
  /\ chosen = None
  /\ object = [d \in Daemons |-> None]

\* The tokens are registered as soon as there is a plugin object.
plugin_create(d, p) ==
  /\ stage[d][p] = "absent"
  /\ \/ /\ stage' = [stage EXCEPT ![d][p] = "created"]
        /\ keywords' = [keywords EXCEPT ![d] = @ \cup register_algorithm_names(p)]
     \/ /\ stage' = [stage EXCEPT ![d][p] = "failed"]
        /\ UNCHANGED keywords
  /\ UNCHANGED <<factory, config, proposal, chosen, object>>

\* The loader asks for the features once every plugin was created. Where none of
\* them can be loaded (the factory wants a method tested before it takes it up)
\* the plugin is dropped, and its tokens stay registered.
get_features(d, p) ==
  /\ stage[d][p] = "created"
  /\ \A q \in Plugins : stage[d][q] # "absent"
  /\ \/ /\ stage' = [stage EXCEPT ![d][p] = "loaded"]
        /\ factory' = [factory EXCEPT ![d] = @ \cup (Features(p) \X {p})]
     \/ /\ stage' = [stage EXCEPT ![d][p] = "unloaded"]
        /\ UNCHANGED factory
  /\ UNCHANGED <<keywords, config, proposal, chosen, object>>

\* A configuration with an unknown token is not loaded. Whether a token's number
\* has a constructor is not looked at.
ParseProposal(d) ==
  /\ \A p \in Plugins : stage[d][p] \in {"failed", "loaded", "unloaded"}
  /\ proposal[d] = None
  /\ config[d] \subseteq {k[1] : k \in keywords[d]}
  /\ proposal' = [proposal EXCEPT ![d] =
                    {k[2] : k \in {j \in keywords[d] : j[1] \in config[d]}}]
  /\ UNCHANGED <<stage, keywords, factory, config, chosen, object>>

\* The daemons settle on a number of both proposals, without its name.
Negotiate ==
  /\ chosen = None
  /\ \A d \in Daemons : proposal[d] # None
  /\ \E n \in UNION {proposal[d] : d \in Daemons} :
       /\ \A d \in Daemons : n \in proposal[d]
       /\ chosen' = n
  /\ UNCHANGED <<stage, keywords, factory, config, proposal, object>>

\* The factory calls a constructor registered for the number.
CreateObject(d) ==
  /\ chosen # None
  /\ object[d] = None
  /\ LET providers == {f[2] : f \in {g \in factory[d] : g[1] = chosen}}
     IN  \E a \in {Constructed(p, chosen) : p \in providers}
                 \cup (IF providers = {} THEN {Refused} ELSE {}) :
           object' = [object EXCEPT ![d] = a]
  /\ UNCHANGED <<stage, keywords, factory, config, proposal, chosen>>

\* When the daemon ends the loader takes back the features of a plugin; its
\* tokens are not taken back.
destroy(d, p) ==
  /\ stage[d][p] = "loaded"
  /\ object[d] # None
  /\ stage' = [stage EXCEPT ![d][p] = "destroyed"]
  /\ factory' = [factory EXCEPT ![d] = {f \in @ : f[2] # p}]
  /\ UNCHANGED <<keywords, config, proposal, chosen, object>>

DaemonStep(d) ==
  \/ \E p \in Plugins : plugin_create(d, p) \/ get_features(d, p) \/ destroy(d, p)
  \/ ParseProposal(d)
  \/ CreateObject(d)

Next == Negotiate \/ \E d \in Daemons : DaemonStep(d)

Spec == Init /\ [][Next]_vars

\* Start-up runs through, and the daemons negotiate what they can.
FairSpec ==
  /\ Spec
  /\ WF_vars(Negotiate)
  /\ \A d \in Daemons : WF_vars(DaemonStep(d))

-------------------------------------------------------------------------------
\* The algorithm a user asks for with a token, as README.md lists the tokens;
\* the digit is the security level.
Documented ==
  [ qkd |-> QKD,
    qkd_kyber1 |-> "Kyber-1", qkd_kyber3 |-> "Kyber-3", qkd_kyber5 |-> "Kyber-5",
    qkd_mlkem1 |-> "ML-KEM-1", qkd_mlkem3 |-> "ML-KEM-3", qkd_mlkem5 |-> "ML-KEM-5",
    qkd_frodoa1 |-> "FrodoKEM-AES-1", qkd_frodos1 |-> "FrodoKEM-SHAKE-1",
    qkd_frodoa3 |-> "FrodoKEM-AES-3", qkd_frodos3 |-> "FrodoKEM-SHAKE-3",
    qkd_frodoa5 |-> "FrodoKEM-AES-5", qkd_frodos5 |-> "FrodoKEM-SHAKE-5",
    qkd_bike1 |-> "BIKE-1", qkd_bike3 |-> "BIKE-3", qkd_bike5 |-> "BIKE-5",
    qkd_hqc1 |-> "HQC-1", qkd_hqc3 |-> "HQC-3", qkd_hqc5 |-> "HQC-5" ]

\* Whatever was loaded on either side and in which order, the two objects of an
\* exchange run one algorithm, and it is one that a token in the configurations
\* of both daemons names: only numbers go between the daemons, and to the
\* factory.
ConfiguredAlgorithm ==
  \E a \in Algorithms :
    \A d \in Daemons :
      object[d] \notin {None, Refused} =>
        /\ object[d] = a
        /\ \E t \in Tokens : Documented[t] = a /\ \A e \in Daemons : t \in config[e]

\* Plugin p names number n to the proposal parser of daemon d, but has no
\* constructor for it there.
NamedOnly(d, p, n) ==
  /\ stage[d][p] = "unloaded"
  /\ \E k \in register_algorithm_names(p) : k[2] = n

\* A number the daemons settled on has a constructor that accepts it on both
\* sides, but where the features of the plugin that named it failed to load: a
\* proposal that could be parsed ends in an exchange that cannot begin for no
\* other reason.
NegotiatedMethodExists ==
  \A d \in Daemons :
    object[d] = Refused => \E p \in Plugins : NamedOnly(d, p, chosen)

\* Daemons that have both plugins and a token in common get their objects.
Connects ==
  /\ \A d \in Daemons, p \in Plugins : stage[d][p] = "loaded"
  /\ \E t \in Tokens : \A d \in Daemons : t \in config[d]
  ~> \A d \in Daemons : object[d] \in Algorithms
===============================================================================
