---------------------------- MODULE QkdPluginsProofs ----------------------------
(* Proofs about QkdPlugins for any number of daemons and any configurations.   *)
EXTENDS QkdPluginsInv, TLAPS

-------------------------------------------------------------------------------
\* The tables of the plugins agree. A method has the number of its place.
LEMMA KemNumber ==
  ASSUME NEW i \in 1..18
  PROVE  /\ KE_QKD_KEM(KemMethods[i]) = 65535 - i
         /\ \A j \in 1..18 : KemMethods[j] = KemMethods[i] => j = i
<1>1. DOMAIN KemMethods = 1..18
  BY DEF KemMethods
<1>2. ASSUME NEW j \in 1..18, KemMethods[j] = KemMethods[i] PROVE j = i
  BY <1>2 DEF KemMethods
<1> DEFINE c == CHOOSE j \in DOMAIN KemMethods : KemMethods[j] = KemMethods[i]
<1>3. c = i
  BY <1>1, <1>2
<1>4. KE_QKD_KEM(KemMethods[i]) = 65535 - c
  BY DEF KE_QKD_KEM
<1> HIDE DEF c
<1> QED BY <1>2, <1>3, <1>4

LEMMA KemPlace ==
  ASSUME NEW m \in Provided
  PROVE  \E i \in 1..18 : KemMethods[i] = m
BY DEF Provided, KemMethods

\* No two methods of qkd_kem.h share a number, and none has that of pure QKD.
LEMMA KemNumbers ==
  ASSUME NEW l \in Provided, NEW m \in Provided
  PROVE  /\ KE_QKD_KEM(m) \in Number
         /\ KE_QKD_KEM(m) # KE_QKD
         /\ KE_QKD_KEM(l) = KE_QKD_KEM(m) => l = m
<1>1. PICK i \in 1..18 : KemMethods[i] = l
  BY KemPlace
<1>2. PICK j \in 1..18 : KemMethods[j] = m
  BY KemPlace
<1>3. KE_QKD_KEM(l) = 65535 - i /\ KE_QKD_KEM(m) = 65535 - j
  BY <1>1, <1>2, KemNumber
<1>4. KE_QKD_KEM(m) \in Number /\ KE_QKD_KEM(m) # KE_QKD
  BY <1>3 DEF Number, KE_QKD
<1>5. KE_QKD_KEM(l) = KE_QKD_KEM(m) => i = j
  BY <1>3
<1> QED BY <1>1, <1>2, <1>4, <1>5

\* Every token names a method of the features, and each method one token.
LEMMA KemTokenNames ==
  /\ \A t \in DOMAIN KemTokens : KemTokens[t] \in Provided
  /\ \A t, u \in DOMAIN KemTokens : KemTokens[t] = KemTokens[u] => t = u
  /\ "qkd" \notin DOMAIN KemTokens
  /\ DOMAIN KemNames = Provided
<1>1. \A t \in DOMAIN KemTokens : KemTokens[t] \in Provided
  BY DEF KemTokens, Provided
<1>2. \A t, u \in DOMAIN KemTokens : KemTokens[t] = KemTokens[u] => t = u
  BY DEF KemTokens
<1>3. "qkd" \notin DOMAIN KemTokens
  BY DEF KemTokens
<1>4. DOMAIN KemNames = Provided
  BY DEF KemNames, Provided
<1> QED BY <1>1, <1>2, <1>3, <1>4

\* Every token's method names the KEM the documentation of the token does.
LEMMA KemDocumented ==
  ASSUME NEW t \in DOMAIN KemTokens
  PROVE  Documented[t] = KemNames[KemTokens[t]]
BY DEF KemTokens, KemNames, Documented

LEMMA KemNamed == ASSUME NEW m \in Provided PROVE KemNames[m] # Refused
BY DEF KemNames, Provided, Refused

\* The constructor finds the name of a method by its number.
LEMMA KemConstructed ==
  ASSUME NEW m \in Provided
  PROVE  get_kem_name(KE_QKD_KEM(m)) = KemNames[m]
<1> DEFINE c == CHOOSE l \in DOMAIN KemNames : KE_QKD_KEM(l) = KE_QKD_KEM(m)
<1>1. DOMAIN KemNames = Provided
  BY KemTokenNames
<1>2. c \in Provided /\ KE_QKD_KEM(c) = KE_QKD_KEM(m)
  BY <1>1
<1>3. get_kem_name(KE_QKD_KEM(m)) = KemNames[c]
  BY <1>1 DEF get_kem_name
<1> HIDE DEF c
<1>4. c = m
  BY <1>2, KemNumbers
<1> QED BY <1>3, <1>4

-------------------------------------------------------------------------------
\* What the tables say of one registered token.
LEMMA KeywordOf ==
  ASSUME NEW p \in Plugins, NEW k \in register_algorithm_names(p)
  PROVE  /\ k = <<k[1], k[2]>>
         /\ k[1] \in Tokens
         /\ k[2] \in Number
         /\ k[2] \in Features(p)
         /\ \/ p = "qkd" /\ k[1] = "qkd" /\ k[2] = KE_QKD
            \/ /\ p = "qkd-kem" /\ k[1] \in DOMAIN KemTokens
               /\ k[2] = KE_QKD_KEM(KemTokens[k[1]])
<1>1. CASE p = "qkd"
  <2>1. k = <<"qkd", KE_QKD>>
    BY <1>1 DEF register_algorithm_names
  <2>2. "qkd" \in Tokens /\ KE_QKD \in Number /\ KE_QKD \in Features(p)
    BY <1>1 DEF Tokens, Number, KE_QKD, Features
  <2> QED BY <1>1, <2>1, <2>2
<1>2. CASE p = "qkd-kem"
  <2>1. PICK t \in DOMAIN KemTokens : k = <<t, KE_QKD_KEM(KemTokens[t])>>
    BY <1>2 DEF register_algorithm_names
  <2>2. KemTokens[t] \in Provided
    BY KemTokenNames
  <2>3. KE_QKD_KEM(KemTokens[t]) \in Number
    BY <2>2, KemNumbers
  <2>4. KE_QKD_KEM(KemTokens[t]) \in Features(p)
    BY <1>2, <2>2 DEF Features
  <2> QED BY <1>2, <2>1, <2>3, <2>4 DEF Tokens
<1> QED BY <1>1, <1>2 DEF Plugins

\* A number has one token.
LEMMA OneToken ==
  ASSUME NEW t, NEW u, NEW n, <<t, n>> \in Keywords, <<u, n>> \in Keywords
  PROVE  t = u
<1>1. PICK p \in Plugins : <<t, n>> \in register_algorithm_names(p)
  BY DEF Keywords
<1>2. PICK q \in Plugins : <<u, n>> \in register_algorithm_names(q)
  BY DEF Keywords
<1>3. \/ t = "qkd" /\ n = KE_QKD
      \/ t \in DOMAIN KemTokens /\ n = KE_QKD_KEM(KemTokens[t])
  BY <1>1, KeywordOf
<1>4. \/ u = "qkd" /\ n = KE_QKD
      \/ u \in DOMAIN KemTokens /\ n = KE_QKD_KEM(KemTokens[u])
  BY <1>2, KeywordOf
<1>5. \A v \in DOMAIN KemTokens : KE_QKD_KEM(KemTokens[v]) # KE_QKD
  BY KemTokenNames, KemNumbers
<1>6. CASE t \in DOMAIN KemTokens /\ u \in DOMAIN KemTokens
  <2>1. KE_QKD_KEM(KemTokens[t]) = KE_QKD_KEM(KemTokens[u])
    BY <1>3, <1>4, <1>6, KemTokenNames
  <2>2. KemTokens[t] = KemTokens[u]
    BY <1>6, <2>1, KemTokenNames, KemNumbers
  <2> QED BY <1>6, <2>2, KemTokenNames
<1> QED BY <1>3, <1>4, <1>5, <1>6

\* Any constructor registered for the number of a token makes an object of the
\* algorithm the token is documented to name.
LEMMA ConstructedDocumented ==
  ASSUME NEW t, NEW n, <<t, n>> \in Keywords, NEW p \in Plugins, n \in Features(p)
  PROVE  /\ t \in Tokens
         /\ Constructed(p, n) = Documented[t]
         /\ Documented[t] \in Algorithms
         /\ Documented[t] # Refused
<1>1. PICK q \in Plugins : <<t, n>> \in register_algorithm_names(q)
  BY DEF Keywords
<1>2. /\ t \in Tokens
      /\ \/ t = "qkd" /\ n = KE_QKD
         \/ t \in DOMAIN KemTokens /\ n = KE_QKD_KEM(KemTokens[t])
  BY <1>1, KeywordOf
<1>3. CASE t = "qkd" /\ n = KE_QKD
  <2>1. p = "qkd"
    BY <1>3, KemNumbers DEF Features, Plugins
  <2>2. Documented["qkd"] = QKD /\ QKD # Refused
    BY DEF Documented, QKD, Refused
  <2> QED BY <1>2, <1>3, <2>1, <2>2 DEF Constructed, Algorithms
<1>4. CASE t \in DOMAIN KemTokens /\ n = KE_QKD_KEM(KemTokens[t])
  <2>1. KemTokens[t] \in Provided /\ DOMAIN KemNames = Provided
    BY <1>4, KemTokenNames
  <2>2. n # KE_QKD
    BY <1>4, <2>1, KemNumbers
  <2>3. p = "qkd-kem"
    BY <2>2 DEF Features, Plugins
  <2>4. Constructed(p, n) = KemNames[KemTokens[t]]
    BY <1>4, <2>1, <2>3, KemConstructed DEF Constructed
  <2>5. Documented[t] = KemNames[KemTokens[t]]
    BY <1>4, KemDocumented
  <2>6. KemNames[KemTokens[t]] # Refused
    BY <2>1, KemNamed
  <2>7. KemNames[KemTokens[t]] \in Algorithms
    BY <2>1 DEF Algorithms
  <2> QED BY <1>2, <2>4, <2>5, <2>6, <2>7
<1> QED BY <1>2, <1>3, <1>4

-------------------------------------------------------------------------------
\* A call of one daemon leaves what the invariant says of another alone.
LEMMA DaemonAlone ==
  ASSUME NEW e, Registered(e), Constructors(e), Parsed(e), Runs(e), Ended(e),
         stage'[e] = stage[e], keywords'[e] = keywords[e], factory'[e] = factory[e],
         config'[e] = config[e], proposal'[e] = proposal[e], object'[e] = object[e],
         object[e] # None => chosen' = chosen
  PROVE  Registered(e)' /\ Constructors(e)' /\ Parsed(e)' /\ Runs(e)' /\ Ended(e)'
BY DEF Registered, Constructors, Parsed, Runs, Ended, NamedOnly

\* Creating a plugin registers its tokens, before any proposal is parsed.
LEMMA IndInvCreate ==
  ASSUME IndInv, NEW d \in Daemons, NEW p \in Plugins, plugin_create(d, p)
  PROVE  IndInv'
<1>1. PICK s \in {"created", "failed"} :
        /\ stage[d][p] = "absent"
        /\ stage' = [stage EXCEPT ![d][p] = s]
        /\ \/ s = "created" /\ keywords' = [keywords EXCEPT ![d] = @ \cup register_algorithm_names(p)]
           \/ s = "failed" /\ keywords' = keywords
        /\ UNCHANGED <<factory, config, proposal, chosen, object>>
  BY DEF plugin_create
<1>2. /\ TypeOK /\ Settled
      /\ Registered(d) /\ Constructors(d) /\ Parsed(d) /\ Runs(d) /\ Ended(d)
  BY DEF IndInv
<1>3. register_algorithm_names(p) \subseteq Tokens \X Number
  BY KeywordOf
<1>4. /\ stage'[d] = [stage[d] EXCEPT ![p] = s]
      /\ \A e \in Daemons : e # d => stage'[e] = stage[e] /\ keywords'[e] = keywords[e]
      /\ \A q \in Plugins : q # p => stage'[d][q] = stage[d][q]
      /\ stage'[d][p] = s
      /\ keywords'[d] = keywords[d] \/ (s = "created" /\ keywords'[d] = keywords[d] \cup register_algorithm_names(p))
  BY <1>1, <1>2 DEF TypeOK
<1>5. TypeOK'
  BY <1>1, <1>2, <1>3 DEF TypeOK, Stages
<1>6. Settled'
  BY <1>1, <1>2 DEF Settled
<1>7. Registered(d)'
  BY <1>1, <1>2, <1>4 DEF Registered
<1>8. Constructors(d)'
  BY <1>1, <1>2, <1>4 DEF Constructors, TypeOK
<1>9. Parsed(d)'
  BY <1>1, <1>2 DEF Parsed
<1>10. Runs(d)' /\ Ended(d)'
  BY <1>1, <1>2, <1>4 DEF Runs, Ended, NamedOnly
<1>11. ASSUME NEW e \in Daemons, e # d
       PROVE  Registered(e)' /\ Constructors(e)' /\ Parsed(e)' /\ Runs(e)' /\ Ended(e)'
  BY <1>1, <1>4, <1>11, DaemonAlone DEF IndInv
<1> QED BY <1>5, <1>6, <1>7, <1>8, <1>9, <1>10, <1>11 DEF IndInv

\* Loading a plugin brings its constructors, if it can be loaded; ending it takes
\* them back.
LEMMA IndInvFeatures ==
  ASSUME IndInv, NEW d \in Daemons, NEW p \in Plugins,
         get_features(d, p) \/ destroy(d, p)
  PROVE  IndInv'
<1>1. PICK s \in {"loaded", "unloaded", "destroyed"}, F \in SUBSET (Number \X Plugins) :
        /\ stage' = [stage EXCEPT ![d][p] = s]
        /\ factory' = [factory EXCEPT ![d] = F]
        /\ \/ /\ s = "loaded" /\ stage[d][p] = "created"
              /\ F = factory[d] \cup (Features(p) \X {p})
           \/ s = "unloaded" /\ stage[d][p] = "created" /\ F = factory[d]
           \/ /\ s = "destroyed" /\ stage[d][p] = "loaded" /\ object[d] # None
              /\ F = {f \in factory[d] : f[2] # p}
        /\ UNCHANGED <<keywords, config, proposal, chosen, object>>
  <2>1. factory \in [Daemons -> SUBSET (Number \X Plugins)]
    BY DEF IndInv, TypeOK
  <2>2. CASE get_features(d, p)
    <3>1. Features(p) \subseteq Number
      <4>1. CASE p = "qkd"
        BY <4>1 DEF Features, KE_QKD, Number
      <4>2. CASE p # "qkd"
        BY <4>2, KemNumbers DEF Features
      <4> QED BY <4>1, <4>2
    <3>2. factory[d] \cup (Features(p) \X {p}) \in SUBSET (Number \X Plugins)
      BY <2>1, <3>1
    <3>3. factory[d] \in SUBSET (Number \X Plugins)
      BY <2>1
    <3>4. CASE stage' = [stage EXCEPT ![d][p] = "unloaded"] /\ factory' = factory
      <4>1. factory' = [factory EXCEPT ![d] = factory[d]]
        BY <2>1, <3>4
      <4> QED BY <2>2, <3>3, <3>4, <4>1 DEF get_features
    <3>5. CASE stage' = [stage EXCEPT ![d][p] = "loaded"]
               /\ factory' = [factory EXCEPT ![d] = @ \cup (Features(p) \X {p})]
      BY <2>1, <2>2, <3>2, <3>5 DEF get_features
    <3> QED BY <2>2, <3>4, <3>5 DEF get_features
  <2>3. CASE destroy(d, p)
    <3>1. {f \in factory[d] : f[2] # p} \in SUBSET (Number \X Plugins)
      BY <2>1
    <3> QED BY <2>1, <2>3, <3>1 DEF destroy
  <2> QED BY <2>2, <2>3
<1>2. /\ TypeOK /\ Settled
      /\ Registered(d) /\ Constructors(d) /\ Parsed(d) /\ Runs(d) /\ Ended(d)
  BY DEF IndInv
<1>3. /\ \A e \in Daemons : e # d => stage'[e] = stage[e] /\ factory'[e] = factory[e]
      /\ \A q \in Plugins : q # p => stage'[d][q] = stage[d][q]
      /\ stage'[d][p] = s
      /\ factory'[d] = F
  BY <1>1, <1>2 DEF TypeOK
<1>4. TypeOK'
  BY <1>1, <1>2 DEF TypeOK, Stages
<1>5. Settled'
  BY <1>1, <1>2 DEF Settled
<1>6. Registered(d)'
  BY <1>1, <1>2, <1>3 DEF Registered
<1>7. Constructors(d)'
  <2>1. factory[d] \subseteq Number \X Plugins
    BY <1>2 DEF TypeOK
  <2>2. CASE s = "loaded" /\ F = factory[d] \cup (Features(p) \X {p})
    <3>1. \A f \in Features(p) \X {p} : f[1] \in Features(p) /\ f[2] = p
      OBVIOUS
    <3> QED BY <1>1, <1>2, <1>3, <2>1, <2>2, <3>1 DEF Constructors
  <2>3. CASE s = "destroyed" /\ F = {f \in factory[d] : f[2] # p}
    <3>1. ASSUME NEW q \in Plugins, stage'[d][q] = "loaded"
          PROVE  Features(q) \X {q} \subseteq F
      <4>1. q # p /\ stage[d][q] = "loaded"
        BY <1>3, <2>3, <3>1
      <4> QED BY <1>2, <2>3, <4>1 DEF Constructors
    <3> QED BY <1>1, <1>2, <1>3, <2>1, <2>3, <3>1 DEF Constructors
  <2>4. CASE s = "unloaded" /\ stage[d][p] = "created" /\ F = factory[d]
    BY <1>1, <1>2, <1>3, <2>1, <2>4 DEF Constructors
  <2> QED BY <1>1, <2>2, <2>3, <2>4
<1>8. Parsed(d)' /\ Runs(d)' /\ Ended(d)'
  BY <1>1, <1>2, <1>3 DEF Parsed, Runs, Ended, NamedOnly
<1>9. ASSUME NEW e \in Daemons, e # d
      PROVE  Registered(e)' /\ Constructors(e)' /\ Parsed(e)' /\ Runs(e)' /\ Ended(e)'
  BY <1>1, <1>3, <1>9, DaemonAlone DEF IndInv
<1> QED BY <1>4, <1>5, <1>6, <1>7, <1>8, <1>9 DEF IndInv

\* A proposal has the numbers the parser knows for the configured tokens.
LEMMA IndInvParse ==
  ASSUME IndInv, NEW d \in Daemons, ParseProposal(d)
  PROVE  IndInv'
<1> DEFINE S == {k[2] : k \in {j \in keywords[d] : j[1] \in config[d]}}
<1>1. /\ \A p \in Plugins : stage[d][p] \in {"failed", "loaded", "unloaded"}
      /\ proposal[d] = None
      /\ proposal' = [proposal EXCEPT ![d] = S]
      /\ UNCHANGED <<stage, keywords, factory, config, chosen, object>>
  BY DEF ParseProposal
<1>2. /\ TypeOK /\ Settled
      /\ Registered(d) /\ Constructors(d) /\ Parsed(d) /\ Runs(d) /\ Ended(d)
  BY DEF IndInv
<1>3. keywords[d] \subseteq Tokens \X Number
  BY <1>2 DEF TypeOK
<1>4. ASSUME NEW n \in S PROVE n \in Number /\ \E t \in config[d] : <<t, n>> \in keywords[d]
  <2>1. PICK k \in keywords[d] : k[1] \in config[d] /\ n = k[2]
    BY <1>4
  <2>2. k = <<k[1], k[2]>> /\ k[2] \in Number
    BY <1>3, <2>1
  <2> QED BY <2>1, <2>2
<1> HIDE DEF S
<1>5. TypeOK' /\ proposal'[d] = S /\ \A e \in Daemons : e # d => proposal'[e] = proposal[e]
  BY <1>1, <1>2, <1>4 DEF TypeOK
<1>6. Settled'
  BY <1>1, <1>2, <1>5 DEF Settled
<1>7. Parsed(d)'
  BY <1>1, <1>4, <1>5 DEF Parsed
<1>8. Registered(d)' /\ Constructors(d)' /\ Runs(d)' /\ Ended(d)'
  BY <1>1, <1>2 DEF Registered, Constructors, Runs, Ended, NamedOnly
<1>9. ASSUME NEW e \in Daemons, e # d
      PROVE  Registered(e)' /\ Constructors(e)' /\ Parsed(e)' /\ Runs(e)' /\ Ended(e)'
  BY <1>1, <1>5, <1>9, DaemonAlone DEF IndInv
<1> QED BY <1>5, <1>6, <1>7, <1>8, <1>9 DEF IndInv

\* The daemons settle on a number of all proposals, before there is an object.
LEMMA IndInvNegotiate ==
  ASSUME IndInv, Negotiate
  PROVE  IndInv'
<1>1. /\ chosen = None
      /\ \A d \in Daemons : proposal[d] # None
      /\ UNCHANGED <<stage, keywords, factory, config, proposal, object>>
  BY DEF Negotiate
<1>2. PICK n \in UNION {proposal[d] : d \in Daemons} :
        (\A d \in Daemons : n \in proposal[d]) /\ chosen' = n
  BY DEF Negotiate
<1>3. TypeOK /\ Settled
  BY DEF IndInv
<1>4. n \in Number
  <2>1. PICK d \in Daemons : n \in proposal[d]
    BY <1>2
  <2> QED BY <1>1, <1>3, <2>1 DEF TypeOK
<1>5. TypeOK' /\ Settled'
  BY <1>1, <1>2, <1>3, <1>4 DEF TypeOK, Settled
<1>6. ASSUME NEW d \in Daemons
      PROVE  Registered(d)' /\ Constructors(d)' /\ Parsed(d)' /\ Runs(d)' /\ Ended(d)'
  <2>1. object[d] = None
    BY <1>1 DEF IndInv, Runs
  <2> QED BY <1>1, <2>1, DaemonAlone DEF IndInv
<1> QED BY <1>5, <1>6 DEF IndInv

\* The factory has a constructor for the number if the plugin that names it is
\* loaded, and any it has makes an object of what the token is documented to name.
LEMMA IndInvObject ==
  ASSUME IndInv, NEW d \in Daemons, CreateObject(d)
  PROVE  IndInv'
<1> DEFINE providers == {f[2] : f \in {g \in factory[d] : g[1] = chosen}}
<1>1. PICK a \in {Constructed(p, chosen) : p \in providers}
                   \cup (IF providers = {} THEN {Refused} ELSE {}) :
        /\ chosen # None
        /\ object[d] = None
        /\ object' = [object EXCEPT ![d] = a]
        /\ UNCHANGED <<stage, keywords, factory, config, proposal, chosen>>
  BY DEF CreateObject
<1>2. /\ TypeOK /\ Settled
      /\ Registered(d) /\ Constructors(d) /\ Parsed(d) /\ Ended(d)
  BY DEF IndInv
<1>3. proposal[d] # None /\ chosen \in proposal[d]
  BY <1>1, <1>2 DEF Settled
<1>4. PICK t \in config[d] : <<t, chosen>> \in keywords[d]
  BY <1>2, <1>3 DEF Parsed
<1>5. PICK p \in Plugins : /\ stage[d][p] \notin {"absent", "failed"}
                           /\ <<t, chosen>> \in register_algorithm_names(p)
  BY <1>2, <1>4 DEF Registered
<1>6. <<t, chosen>> \in Keywords
  BY <1>5 DEF Keywords
<1>7. stage[d][p] \in {"loaded", "unloaded"}
  BY <1>1, <1>2, <1>3, <1>5 DEF Parsed, Ended
<1>8. stage[d][p] = "loaded" => p \in providers
  <2> SUFFICES ASSUME stage[d][p] = "loaded" PROVE p \in providers
    OBVIOUS
  <2>1. chosen \in Features(p)
    BY <1>5, KeywordOf
  <2>2. <<chosen, p>> \in factory[d]
    BY <1>2, <2>1 DEF Constructors
  <2> QED BY <2>2
<1>9. \/ a = Refused /\ NamedOnly(d, p, chosen)
      \/ \E q \in providers : a = Constructed(q, chosen)
  <2>1. providers = {} => NamedOnly(d, p, chosen)
    BY <1>5, <1>7, <1>8 DEF NamedOnly
  <2> QED BY <1>1, <2>1
<1>10. ASSUME NEW q \in providers PROVE q \in Plugins /\ chosen \in Features(q)
  <2>1. PICK f \in factory[d] : f[1] = chosen /\ q = f[2]
    BY <1>10
  <2>2. f \in Number \X Plugins
    BY <1>2, <2>1 DEF TypeOK
  <2> QED BY <1>2, <2>1, <2>2 DEF Constructors
<1>11. \/ t \in Tokens /\ a = Documented[t] /\ a \in Algorithms
       \/ a = Refused /\ NamedOnly(d, p, chosen)
  BY <1>6, <1>9, <1>10, ConstructedDocumented
<1> HIDE DEF providers
<1>12. TypeOK' /\ object'[d] = a /\ \A e \in Daemons : e # d => object'[e] = object[e]
  BY <1>1, <1>2, <1>11 DEF TypeOK
<1>13. Settled'
  BY <1>1, <1>2 DEF Settled
<1>14. Registered(d)' /\ Constructors(d)' /\ Parsed(d)'
  BY <1>1, <1>2 DEF Registered, Constructors, Parsed
<1>15. Runs(d)' /\ Ended(d)'
  BY <1>1, <1>2, <1>6, <1>11, <1>12 DEF Runs, Ended, NamedOnly
<1>16. ASSUME NEW e \in Daemons, e # d
       PROVE  Registered(e)' /\ Constructors(e)' /\ Parsed(e)' /\ Runs(e)' /\ Ended(e)'
  BY <1>1, <1>12, <1>16, DaemonAlone DEF IndInv
<1> QED BY <1>12, <1>13, <1>14, <1>15, <1>16 DEF IndInv

\* Before anything is loaded.
LEMMA IndInvInit == Init => IndInv
<1> SUFFICES ASSUME Init PROVE IndInv
  OBVIOUS
<1>1. TypeOK
  BY PluginsAssumption DEF Init, TypeOK, Stages
<1>2. Settled
  BY DEF Init, Settled
<1>3. ASSUME NEW d \in Daemons
      PROVE  Registered(d) /\ Constructors(d) /\ Parsed(d) /\ Runs(d) /\ Ended(d)
  BY DEF Init, Registered, Constructors, Parsed, Runs, Ended
<1> QED BY <1>1, <1>2, <1>3 DEF IndInv

\* The invariant is inductive.
LEMMA IndInvStep ==
  ASSUME IndInv, [Next]_vars
  PROVE  IndInv'
<1>1. CASE Negotiate
  BY <1>1, IndInvNegotiate
<1>2. ASSUME NEW d \in Daemons, DaemonStep(d) PROVE IndInv'
  BY <1>2, IndInvCreate, IndInvFeatures, IndInvParse, IndInvObject DEF DaemonStep
<1>3. CASE UNCHANGED vars
  <2>1. TypeOK' /\ Settled'
    BY <1>3 DEF vars, IndInv, TypeOK, Settled
  <2>2. \A d \in Daemons : (Registered(d) /\ Constructors(d) /\ Parsed(d) /\ Runs(d) /\ Ended(d))'
    BY <1>3, DaemonAlone DEF vars, IndInv
  <2> QED BY <2>1, <2>2 DEF IndInv
<1> QED BY <1>1, <1>2, <1>3 DEF Next

\* What the parser and the factory know is that of the plugins loaded, and what
\* runs is what the negotiated number's token names, in every order of loading
\* and with every failure.
THEOREM IndInvInvariant == Spec => []IndInv
BY IndInvInit, IndInvStep, PTL DEF Spec

\* Every variable keeps to the values the code can give it; numbers fit the 16
\* bits of a transform ID.
THEOREM TypeCorrect == Spec => []TypeOK
<1>1. IndInv => TypeOK
  BY DEF IndInv
<1> QED BY <1>1, IndInvInvariant, PTL

\* What a token of a number names is an algorithm.
LEMMA TokenNamesAlgorithm ==
  ASSUME NEW t, NEW n, <<t, n>> \in Keywords
  PROVE  Documented[t] \in Algorithms /\ Documented[t] # Refused
<1>1. PICK p \in Plugins : <<t, n>> \in register_algorithm_names(p)
  BY DEF Keywords
<1>2. n \in Features(p)
  BY <1>1, KeywordOf
<1> QED BY <1>2, ConstructedDocumented

\* A number the daemons settled on has a constructor that accepts it wherever the
\* plugin that named it is loaded: the number of each registered token is among
\* the plugin's features, and the constructor knows it.
THEOREM NegotiatedMethodExistsInvariant == Spec => []NegotiatedMethodExists
<1>1. ASSUME IndInv PROVE NegotiatedMethodExists
  <2> SUFFICES ASSUME NEW d \in Daemons, object[d] = Refused
               PROVE  \E p \in Plugins : NamedOnly(d, p, chosen)
    BY DEF NegotiatedMethodExists
  <2>1. object[d] # None
    BY PluginsAssumption
  <2> QED BY <1>1, <2>1, TokenNamesAlgorithm DEF IndInv, Runs
<1> QED BY <1>1, IndInvInvariant, PTL

\* The objects of an exchange run one algorithm, which a token in every daemon's
\* configuration names: the four tables of the plugins agree on all 19 methods.
THEOREM ConfiguredAlgorithmInvariant == Spec => []ConfiguredAlgorithm
<1>1. ASSUME IndInv PROVE ConfiguredAlgorithm
  <2>1. CASE \A d \in Daemons : object[d] \in {None, Refused}
    <3>1. QKD \in Algorithms
      BY DEF Algorithms
    <3> QED BY <2>1, <3>1 DEF ConfiguredAlgorithm
  <2>2. ASSUME NEW c \in Daemons, object[c] \notin {None, Refused} PROVE ConfiguredAlgorithm
    <3>1. PICK t \in Tokens : <<t, chosen>> \in Keywords /\ object[c] = Documented[t]
      BY <1>1, <2>2 DEF IndInv, Runs
    <3>2. chosen # None
      BY <1>1, <2>2 DEF IndInv, Runs
    <3>3. \A u : <<u, chosen>> \in Keywords => u = t
      BY <3>1, OneToken
    <3>4. ASSUME NEW e \in Daemons PROVE t \in config[e]
      <4>1. PICK u \in config[e] : <<u, chosen>> \in keywords[e]
        BY <1>1, <3>2 DEF IndInv, Settled, Parsed
      <4>2. <<u, chosen>> \in Keywords
        BY <1>1, <4>1 DEF IndInv, Registered, Keywords
      <4> QED BY <3>3, <4>1, <4>2
    <3>5. \A d \in Daemons : object[d] \notin {None, Refused} => object[d] = Documented[t]
      BY <1>1, <3>3 DEF IndInv, Runs
    <3>6. Documented[t] \in Algorithms
      BY <3>1, TokenNamesAlgorithm
    <3> QED BY <3>4, <3>5, <3>6 DEF ConfiguredAlgorithm
  <2> QED BY <2>1, <2>2
<1> QED BY <1>1, IndInvInvariant, PTL
================================================================================
