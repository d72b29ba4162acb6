-------------------------- MODULE QkdKex014Refinement --------------------------
(* QkdKex014 implements KeyAgreement where the two builds are compatible, and   *)
(* in every deployment no call replaces an object's key ID, or its key.         *)
EXTENDS QkdKex014Agreement

\* The key an exchange has agreed on is the one drawn for it.
LEMMA AgreedIsDrawn ==
  ASSUME TypeOK, NEW x \in Exchanges, OneKey(x)
  PROVE  /\ \A k \in KeyIds : drawnFor[k] = x => AgreedKey[x] = k
         /\ ~Drawn(x) => AgreedKey[x] = None
<1>1. ASSUME NEW k \in KeyIds, drawnFor[k] = x PROVE AgreedKey[x] = k
  <2>1. AgreedKey[x] = CHOOSE j \in KeyIds : drawnFor[j] = x
    BY <1>1 DEF AgreedKey
  <2>2. \E j \in KeyIds : drawnFor[j] = x
    BY <1>1
  <2>3. AgreedKey[x] \in KeyIds /\ drawnFor[AgreedKey[x]] = x
    BY <2>1, <2>2
  <2> QED BY <1>1, <2>3 DEF OneKey
<1>2. ~Drawn(x) => AgreedKey[x] = None
  BY DEF AgreedKey, Drawn
<1> QED BY <1>1, <1>2

\* CompatibleOneKey, for the state a step leads to.
LEMMA CompatibleOneKeyNext ==
  ASSUME Compatible, IndInv', NEW x \in Exchanges
  PROVE  OneKey(x)'
<1>1. gets'[x] \in 0..MaxGets
  BY DEF IndInv, Ownership, TypeOK, IkeTypeOK
<1>2. ~MixedRepeat(x)'
  BY <1>1 DEF Compatible, MixedRepeat
<1> QED BY <1>2 DEF IndInv, Flow

\* Drawing a key is the step that agrees on it.
LEMMA DrawAgrees ==
  ASSUME Compatible, IndInv, IndInv', NEW x \in Exchanges, ~Drawn(x), NEW k \in KeyIds, Draw(x, k),
         secret' = secret
  PROVE  Abstract!Agree(x)
<1>1. TypeOK /\ TypeOK' /\ Ledger /\ \A y \in Exchanges : OneKey(y) /\ OneKey(y)'
  BY CompatibleOneKey, CompatibleOneKeyNext DEF IndInv, Ownership
<1>2. drawnFor[k] = None /\ drawnFor' = [drawnFor EXCEPT ![k] = x]
  BY <1>1 DEF Draw, Ledger
<1>3. AgreedKey[x] = None
  BY <1>1, AgreedIsDrawn
<1>4. ASSUME NEW y \in Exchanges PROVE AgreedKey[y] # k
  <2>1. CASE Drawn(y)
    BY <1>1, <1>2, <2>1, AgreedIsDrawn, Kex014Assumption DEF Drawn
  <2>2. CASE ~Drawn(y)
    BY <1>1, <2>2, AgreedIsDrawn, Etsi014Assumption
  <2> QED BY <2>1, <2>2
<1>5. AgreedKey' = [AgreedKey EXCEPT ![x] = k]
  <2>1. ASSUME NEW y \in Exchanges
        PROVE  AgreedKey'[y] = [AgreedKey EXCEPT ![x] = k][y]
    <3>1. CASE y = x
      <4>1. drawnFor'[k] = x
        BY <1>1, <1>2 DEF TypeOK
      <4>2. AgreedKey'[x] = CHOOSE j \in KeyIds : drawnFor'[j] = x
        BY <4>1 DEF AgreedKey
      <4>3. AgreedKey'[x] \in KeyIds /\ drawnFor'[AgreedKey'[x]] = x
        BY <4>1, <4>2
      <4>4. AgreedKey'[x] = k
        BY <1>1, <4>1, <4>3 DEF OneKey
      <4> QED BY <3>1, <4>4 DEF AgreedKey
    <3>2. CASE y # x
      <4>1. \A j \in KeyIds : drawnFor'[j] = y <=> drawnFor[j] = y
        BY <1>1, <1>2, <3>2, Kex014Assumption DEF TypeOK
      <4>2. (CHOOSE j \in KeyIds : drawnFor'[j] = y) = CHOOSE j \in KeyIds : drawnFor[j] = y
        BY <4>1
      <4> QED BY <3>2, <4>1, <4>2 DEF AgreedKey
    <3> QED BY <3>1, <3>2
  <2> QED BY <2>1 DEF AgreedKey
<1> QED BY <1>3, <1>4, <1>5 DEF Abstract!Agree

\* A step that draws nothing leaves what is agreed on alone.
LEMMA AgreedStays ==
  ASSUME SameKeys \/ \E k \in KeyIds : Fetch(k)
  PROVE  AgreedKey' = AgreedKey
BY DEF SameKeys, Fetch, AgreedKey

\* A call that handles a payload agrees on a key, or changes nothing that the
\* abstract specification sees.
LEMMA PayloadStep ==
  ASSUME Compatible, IndInv, IndInv', NEW x \in Exchanges, NEW s \in Sides,
         get_public_key(x, s) \/ set_public_key(x, s)
  PROVE  [Abstract!AbsNext]_<<AgreedKey, secret>>
<1>1. TypeOK /\ HandleOwn /\ Ledger /\ OneKey(x)'
  BY CompatibleOneKeyNext DEF IndInv, Ownership
<1>2. secret' = secret /\ \/ SameKeys
                          \/ \E k \in KeyIds : Draw(x, k)
                          \/ \E k \in KeyIds : Fetch(k)
  <2>1. CASE get_public_key(x, s)
    <3>1. PICK ok \in BOOLEAN, h \in Handle, v \in Chunks :
            /\ IkeGetPublicKey(x, s, ok, v)
            /\ SameKeys \/ DrawOutcome(x, <<x, s>>, ok, h)
      BY <1>1, <2>1, GetPublicKeyEffect
    <3> QED BY <3>1, DrawStep DEF IkeGetPublicKey, IkeBuildRequest, IkeBuildResponse
  <2>2. CASE set_public_key(x, s)
    <3>1. PICK m \in Inbox(x, s), ok \in BOOLEAN, h \in Handle :
            /\ IkeSetPublicKey(x, s, m.value, ok)
            /\ \/ DrawOutcome(x, <<x, s>>, ok, h)
               \/ m.value \in KeyIds /\ AdoptOutcome(m.value, <<x, s>>, ok, h)
               \/ SameKeys
      BY <1>1, <2>2, SetPublicKeyEffect
    <3> QED BY <3>1, DrawStep DEF IkeSetPublicKey, AdoptOutcome
  <2> QED BY <2>1, <2>2
<1>3. ASSUME NEW k \in KeyIds, Draw(x, k) PROVE Abstract!AbsNext
  <2>1. ~Drawn(x)
    <3>1. drawnFor[k] = None /\ drawnFor' = [drawnFor EXCEPT ![k] = x]
      BY <1>1, <1>3 DEF Draw, Ledger
    <3> QED BY <1>1, <3>1, Kex014Assumption DEF Drawn, OneKey, TypeOK
  <2> QED BY <1>2, <1>3, <2>1, DrawAgrees DEF Abstract!AbsNext
<1>4. CASE SameKeys \/ \E k \in KeyIds : Fetch(k)
  BY <1>2, <1>4, AgreedStays
<1> QED BY <1>2, <1>3, <1>4

\* A daemon is handed the key agreed on, or nothing.
LEMMA SecretStepAgrees ==
  ASSUME Compatible, IndInv, IndInv', NEW x \in Exchanges, NEW s \in Sides, get_shared_secret(x, s)
  PROVE  [Abstract!AbsNext]_<<AgreedKey, secret>>
<1> DEFINE o == <<x, s>>
<1>1. /\ TypeOK /\ TypeOK' /\ HandleOwn /\ SecretOwn' /\ OneKey(x)
      /\ o \in Objects /\ o[1] = x
  BY CompatibleOneKey DEF IndInv, Ownership, Objects
<1>2. PICK ok \in BOOLEAN, h \in Handle :
        /\ IkeGetSharedSecret(x, s, ok, h.key)
        /\ SameKeys \/ (h.key_id \in KeyIds /\ Fetch(h.key_id))
        /\ ok => h.key # None
  BY <1>1, GetSharedSecretEffect
<1>3. AgreedKey' = AgreedKey /\ drawnFor' = drawnFor
  BY <1>2, AgreedStays DEF SameKeys, Fetch
<1>4. CASE ~ok
  BY <1>2, <1>3, <1>4 DEF IkeGetSharedSecret
<1>5. CASE ok
  <2>1. secret' = [secret EXCEPT ![o] = h.key] /\ h.key # None
    BY <1>2, <1>5 DEF IkeGetSharedSecret
  <2>2. secret'[o] = h.key /\ h.key \in KeyIds
    BY <1>1, <2>1 DEF TypeOK, IkeTypeOK, Handle, Chunks
  <2>3. drawnFor[h.key] = x
    BY <1>1, <1>3, <2>1, <2>2 DEF SecretOwn
  <2>4. AgreedKey[x] = h.key
    BY <1>1, <2>2, <2>3, AgreedIsDrawn
  <2>5. Abstract!Obtain(x, s)
    BY <1>3, <2>1, <2>4 DEF Abstract!Obtain
  <2> QED BY <2>5 DEF Abstract!AbsNext
<1> QED BY <1>4, <1>5

\* An exchange settles on the key drawn for it, no other exchange settles on
\* that key, and a side is handed nothing else.
THEOREM KeyAgreementRefinement == Compatible /\ Spec => ImplementsKeyAgreement
<1> SUFFICES ASSUME Compatible PROVE Spec => Abstract!AbsSpec
  BY DEF ImplementsKeyAgreement
<1>1. Init => Abstract!AbsInit
  <2> SUFFICES ASSUME Init PROVE Abstract!AbsInit
    OBVIOUS
  <2>1. \A x \in Exchanges : ~\E k \in KeyIds : drawnFor[k] = x
    BY Kex014Assumption DEF Init
  <2>2. AgreedKey = [x \in Exchanges |-> None]
    BY <2>1 DEF AgreedKey
  <2>3. secret = [o \in Exchanges \X Sides |-> None]
    BY DEF Init, IkeInit, Objects
  <2> QED BY <2>2, <2>3 DEF Abstract!AbsInit
<1>2. IndInv /\ IndInv' /\ [Next]_vars => [Abstract!AbsNext]_<<AgreedKey, secret>>
  <2> SUFFICES ASSUME IndInv, IndInv', [Next]_vars
               PROVE  [Abstract!AbsNext]_<<AgreedKey, secret>>
    OBVIOUS
  <2>1. ASSUME NEW x \in Exchanges, NEW s \in Sides, Call(x, s) \/ destroy(x, s)
        PROVE  [Abstract!AbsNext]_<<AgreedKey, secret>>
    <3>1. CASE qkd_kex_create(x, s) \/ destroy(x, s)
      BY <3>1 DEF qkd_kex_create, destroy, IkeCreate, IkeDestroy, AgreedKey
    <3> QED BY <2>1, <3>1, PayloadStep, SecretStepAgrees DEF Call
  <2>2. CASE UNCHANGED vars
    BY <2>2 DEF vars, ikeVars, AgreedKey
  <2> QED BY <2>1, <2>2 DEF Next, AllDone
<1> QED BY <1>1, <1>2, IndInvInvariant, PTL DEF Spec, Abstract!AbsSpec, Abstract!absVars

\* A call that comes again meets the key ID the first one chose.
THEOREM KeyIdStableTheorem == Spec => KeyIdStable
<1> DEFINE Stable == \A o \in Objects :
                       /\ handle[o] # None
                       /\ handle[o].key_id # None
                       /\ handle'[o] # None
                       => handle'[o].key_id = handle[o].key_id
<1>1. IndInv /\ [Next]_vars => [Stable]_vars
  <2> SUFFICES ASSUME IndInv, Next PROVE Stable
    BY DEF vars
  <2>1. ASSUME NEW x \in Exchanges, NEW s \in Sides, Call(x, s) \/ destroy(x, s)
        PROVE  Stable
    <3> DEFINE o == <<x, s>>
    <3>1. /\ TypeOK /\ HandleOwn /\ Roles(x) /\ o \in Objects
          /\ Mode[<<x, s>>] \in Modes
      BY Kex014Assumption DEF IndInv, Ownership, Flow, Objects, Sides
    <3>2. CASE destroy(x, s)
      BY <3>1, <3>2 DEF destroy, qkd_close, TypeOK
    <3>3. CASE qkd_kex_create(x, s)
      <4>1. handle[o] = None
        BY <3>1, <3>3 DEF qkd_kex_create, IkeCreate, HandleOwn, Live
      <4>2. \E h : handle' = [handle EXCEPT ![o] = h]
        BY <3>3 DEF qkd_kex_create
      <4> QED BY <3>1, <4>1, <4>2 DEF TypeOK
    <3>4. CASE get_public_key(x, s)
      <4>1. \E h : /\ handle' = [handle EXCEPT ![o] = h]
                   /\ handle[o].key_id = None \/ h = handle[o]
        BY <3>1, <3>4, GetPublicKeyEffect DEF HasKeyId
      <4> QED BY <3>1, <4>1 DEF TypeOK
    <3>5. CASE set_public_key(x, s)
      <4>1. PICK m \in Inbox(x, s), ok \in BOOLEAN, h \in Handle :
              /\ IkeSetPublicKey(x, s, m.value, ok)
              /\ handle' = [handle EXCEPT ![o] = h]
              /\ \/ Mode[<<x, s>>] = "server"
                 \/ ~HasKeyId(o)
                 \/ h = handle[o]
        BY <3>1, <3>5, SetPublicKeyEffect DEF Modes
      <4>2. Mode[<<x, s>>] = "server" => ~HasKeyId(o)
        BY <3>1, <4>1 DEF IkeSetPublicKey, Roles, Sides
      <4>3. handle[o].key_id = None \/ h = handle[o]
        BY <4>1, <4>2 DEF HasKeyId
      <4> QED BY <3>1, <4>1, <4>3 DEF TypeOK
    <3>6. CASE get_shared_secret(x, s)
      <4>1. \E h : /\ handle' = [handle EXCEPT ![o] = h]
                   /\ h.key_id = handle[o].key_id
        BY <3>1, <3>6, GetSharedSecretEffect
      <4> QED BY <3>1, <4>1 DEF TypeOK
    <3> QED BY <2>1, <3>2, <3>3, <3>4, <3>5, <3>6 DEF Call
  <2>2. CASE AllDone
    BY <2>2 DEF AllDone, vars, objVars
  <2> QED BY <2>1, <2>2 DEF Next
<1> QED BY <1>1, IndInvInvariant, PTL DEF Spec, KeyIdStable

\* A key an object holds is never replaced, and is the only one its daemon is
\* ever handed: what get_shared_secret may fetch once more is that key, because
\* the ID it is fetched by is still the one the key came with.
THEOREM HeldKeyKeptTheorem == Spec => HeldKeyKept
<1> DEFINE Kept == \A o \in Objects :
                     /\ handle[o] # None
                     /\ handle[o].key # None
                     /\ handle'[o] # None
                     => /\ handle'[o].key = handle[o].key
                        /\ secret'[o] \in {secret[o], handle[o].key}
<1>1. IndInv /\ IndInv' /\ [Next]_vars => [Kept]_vars
  <2> SUFFICES ASSUME IndInv, IndInv', Next PROVE Kept
    BY DEF vars
  <2>1. ASSUME NEW x \in Exchanges, NEW s \in Sides, Call(x, s) \/ destroy(x, s)
        PROVE  Kept
    <3> DEFINE o == <<x, s>>
    <3>1. /\ TypeOK /\ HandleOwn /\ Roles(x) /\ o \in Objects
          /\ KeyOfItsId /\ Mode[<<x, s>>] \in Modes
      BY Kex014Assumption DEF IndInv, Ownership, Flow, Objects, Sides
    <3>2. ASSUME NEW p \in Objects, p # o PROVE handle'[p] = handle[p] /\ secret'[p] = secret[p]
      BY <2>1, <3>1, <3>2, OtherObject
    <3> SUFFICES ASSUME handle[o] # None, handle[o].key # None, handle'[o] # None
                 PROVE  /\ handle'[o].key = handle[o].key
                        /\ secret'[o] \in {secret[o], handle[o].key}
      BY <3>2
    <3>3. HasKeyId(o) /\ handle[o].key = handle[o].key_id
      BY <3>1 DEF KeyOfItsId, HasKeyId
    <3>4. CASE destroy(x, s)
      BY <3>1, <3>4 DEF destroy, qkd_close, TypeOK
    <3>5. CASE qkd_kex_create(x, s)
      BY <3>1, <3>5 DEF qkd_kex_create, IkeCreate, HandleOwn, Live
    <3>6. CASE get_public_key(x, s)
      <4>1. PICK ok \in BOOLEAN, h \in Handle, v \in Chunks :
              /\ IkeGetPublicKey(x, s, ok, v)
              /\ handle' = [handle EXCEPT ![o] = h]
              /\ ~HasKeyId(o) \/ h = handle[o]
        BY <3>1, <3>6, GetPublicKeyEffect
      <4>2. secret' = secret
        BY <4>1 DEF IkeGetPublicKey, IkeBuildRequest, IkeBuildResponse
      <4> QED BY <3>1, <3>3, <4>1, <4>2 DEF TypeOK
    <3>7. CASE set_public_key(x, s)
      <4>1. PICK m \in Inbox(x, s), ok \in BOOLEAN, h \in Handle :
              /\ IkeSetPublicKey(x, s, m.value, ok)
              /\ handle' = [handle EXCEPT ![o] = h]
              /\ Mode[<<x, s>>] = "server" \/ ~HasKeyId(o) \/ h = handle[o]
        BY <3>1, <3>7, SetPublicKeyEffect DEF Modes
      <4>2. Mode[<<x, s>>] = "server" => ~HasKeyId(o)
        BY <3>1, <4>1 DEF IkeSetPublicKey, Roles, Sides
      <4>3. secret' = secret
        BY <4>1 DEF IkeSetPublicKey
      <4> QED BY <3>1, <3>3, <4>1, <4>2, <4>3 DEF TypeOK
    <3>8. CASE get_shared_secret(x, s)
      <4>1. PICK ok \in BOOLEAN, h \in Handle :
              /\ IkeGetSharedSecret(x, s, ok, h.key)
              /\ handle' = [handle EXCEPT ![o] = h]
              /\ h.key_id = handle[o].key_id
              /\ h.key \in {handle[o].key, h.key_id}
        BY <3>1, <3>8, GetSharedSecretEffect
      <4>2. h.key = handle[o].key
        BY <3>3, <4>1
      <4>3. secret' = secret \/ secret' = [secret EXCEPT ![o] = h.key]
        BY <4>1 DEF IkeGetSharedSecret
      <4> QED BY <3>1, <4>1, <4>2, <4>3 DEF TypeOK, IkeTypeOK
    <3> QED BY <2>1, <3>4, <3>5, <3>6, <3>7, <3>8 DEF Call
  <2>2. CASE AllDone
    BY <2>2 DEF AllDone, vars, objVars, ikeVars
  <2> QED BY <2>1, <2>2 DEF Next
<1> QED BY <1>1, IndInvInvariant, PTL DEF Spec, HeldKeyKept

Promise == INSTANCE KeyAgreementProofs WITH Keys <- KeyIds, agreed <- AgreedKey,
                                            obtained <- secret

\* The two names of the promise are one formula.
LEMMA SamePromise == Abstract!AbsSpec => Promise!AbsSpec
BY DEF Abstract!AbsSpec, Abstract!absVars, Abstract!AbsInit, Abstract!AbsNext,
       Abstract!Agree, Abstract!Obtain,
       Promise!AbsSpec, Promise!absVars, Promise!AbsInit, Promise!AbsNext,
       Promise!Agree, Promise!Obtain

\* In compatible deployments the daemons of an exchange derive their keys from
\* the same secret, those of two exchanges never do, and a secret a daemon was
\* handed is not replaced by a later call.
THEOREM DaemonsAgree ==
  Compatible /\ Spec => /\ [](Promise!SidesAgree /\ Promise!ExchangesApart)
                        /\ Promise!ObtainedForGood
BY SamePromise, KeyAgreementRefinement, Promise!PromiseAgrees, Promise!PromiseStands, PTL
   DEF ImplementsKeyAgreement
================================================================================
