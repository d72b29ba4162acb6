---------------------------- MODULE QkdKex014Proofs ----------------------------
(* Proofs about QkdKex014 for any number of exchanges, keys and requests.      *)
EXTENDS QkdKex014Inv, TLAPS

\* What a call can do to the KMEs.
Draw(x, k) ==
  /\ kme[k] = "stored"
  /\ kme' = [kme EXCEPT ![k] = "issued"]
  /\ drawnFor' = [drawnFor EXCEPT ![k] = x]
Fetch(k) ==
  /\ kme[k] # "stored"
  /\ kme' = [kme EXCEPT ![k] = "delivered"]
  /\ UNCHANGED drawnFor
SameKeys == UNCHANGED <<kme, drawnFor>>

-------------------------------------------------------------------------------
\* A request for a new key (GET_KEY of the adapter) either leaves everything as
\* it was, or takes one stored key; the handle changes only on success.
LEMMA GetKeyIdOutcome ==
  ASSUME NEW h \in Handle, NEW K \in Kme, NEW r \in qkd_get_key_id(h, K)
  PROVE  /\ r.ret \in BOOLEAN
         /\ \/ r.ret = FALSE /\ r.handle = h /\ r.kme = K
            \/ \E k \in KeyIds :
                 /\ K[k] = "stored"
                 /\ r.kme = [K EXCEPT ![k] = "issued"]
                 /\ r.ret => r.handle = [key_id |-> k, key |-> k]
                 /\ ~r.ret => r.handle = h
<1>1. PICK q \in GET_KEY(K) :
        r \in IF q.id = None
              THEN {Outcome(FALSE, h, q.kme)}
              ELSE {Outcome(TRUE, [key_id |-> q.id, key |-> q.id], q.kme)}
                   \cup When(Faulty, {Outcome(FALSE, h, q.kme)})
  BY DEF qkd_get_key_id
<1>2. \/ q.id = None /\ q.kme = K
      \/ q.id \in KeyIds /\ K[q.id] = "stored" /\ q.kme = [K EXCEPT ![q.id] = "issued"]
  BY DEF GET_KEY, When
<1>3. CASE q.id = None
  <2>1. r = Outcome(FALSE, h, q.kme)
    BY <1>1, <1>3
  <2> QED BY <1>2, <1>3, <2>1, Etsi014Assumption DEF Outcome
<1>4. CASE q.id # None
  <2>1. \/ r = Outcome(TRUE, [key_id |-> q.id, key |-> q.id], q.kme)
        \/ r = Outcome(FALSE, h, q.kme)
    BY <1>1, <1>4 DEF When
  <2>2. \/ r.ret = TRUE /\ r.handle = [key_id |-> q.id, key |-> q.id] /\ r.kme = q.kme
        \/ r.ret = FALSE /\ r.handle = h /\ r.kme = q.kme
    BY <2>1 DEF Outcome
  <2> QED BY <1>2, <1>4, <2>2
<1> QED BY <1>3, <1>4

\* Fetching the key of a handle's ID changes at most the handle's key, to that
\* key, and the key's status, to "delivered".
LEMMA GetKeyOutcome ==
  ASSUME NEW h \in Handle, NEW K \in Kme, NEW r \in qkd_get_key(h, K)
  PROVE  /\ r.ret \in BOOLEAN
         /\ \/ r.kme = K
            \/ /\ h.key_id \in KeyIds
               /\ K[h.key_id] # "stored"
               /\ r.kme = [K EXCEPT ![h.key_id] = "delivered"]
         /\ ~r.ret => r.handle = h
         /\ r.ret => /\ h.key_id \in KeyIds
                     /\ K[h.key_id] # "stored"
                     /\ r.kme = [K EXCEPT ![h.key_id] = "delivered"]
                     /\ r.handle = [h EXCEPT !.key = h.key_id]
<1>1. CASE h.key_id = None
  <2>1. r = Outcome(FALSE, h, K)
    BY <1>1 DEF qkd_get_key
  <2>2. r.ret = FALSE /\ r.handle = h /\ r.kme = K
    BY <2>1 DEF Outcome
  <2> QED BY <2>2
<1>2. CASE h.key_id # None
  <2>0. h.key_id \in KeyIds
    BY <1>2 DEF Handle, Chunks
  <2>1. PICK q \in GET_KEY_WITH_IDS(K, h.key_id) :
          r \in IF q.id = None
                THEN {Outcome(FALSE, h, q.kme)}
                ELSE {Outcome(TRUE, [h EXCEPT !.key = q.id], q.kme)}
                     \cup When(Faulty, {Outcome(FALSE, h, q.kme)})
    BY <1>2 DEF qkd_get_key
  <2>2. \/ q.id = None /\ q.kme = K
        \/ /\ q.id = h.key_id
           /\ K[h.key_id] # "stored"
           /\ q.kme = [K EXCEPT ![h.key_id] = "delivered"]
    BY DEF GET_KEY_WITH_IDS, When
  <2>3. CASE q.id = None
    <3>1. r = Outcome(FALSE, h, q.kme)
      BY <2>1, <2>3
    <3>2. r.ret = FALSE /\ r.handle = h /\ r.kme = q.kme
      BY <3>1 DEF Outcome
    <3> QED BY <2>0, <2>2, <2>3, <3>2
  <2>4. CASE q.id # None
    <3>1. \/ r = Outcome(TRUE, [h EXCEPT !.key = q.id], q.kme)
          \/ r = Outcome(FALSE, h, q.kme)
      BY <2>1, <2>4 DEF When
    <3>2. \/ r.ret = TRUE /\ r.handle = [h EXCEPT !.key = q.id] /\ r.kme = q.kme
          \/ r.ret = FALSE /\ r.handle = h /\ r.kme = q.kme
      BY <3>1 DEF Outcome
    <3> QED BY <2>0, <2>2, <2>4, <3>2
  <2> QED BY <2>3, <2>4
<1> QED BY <1>1, <1>2

\* The history variable follows the KMEs.
LEMMA KmeBecomesSame ==
  ASSUME TypeOK, NEW x \in Exchanges, KmeBecomes(x, kme)
  PROVE  SameKeys
BY DEF KmeBecomes, SameKeys, TypeOK, Kme, KeyStatus

\* A key issued to a call of exchange x is drawn for x.
LEMMA KmeBecomesDraw ==
  ASSUME TypeOK, NEW x \in Exchanges, NEW k \in KeyIds, kme[k] = "stored",
         KmeBecomes(x, [kme EXCEPT ![k] = "issued"])
  PROVE  Draw(x, k)
BY DEF KmeBecomes, Draw, TypeOK, Kme, KeyStatus

\* A delivery draws no key and delivers the one key.
LEMMA KmeBecomesFetch ==
  ASSUME TypeOK, NEW x \in Exchanges, NEW k \in KeyIds, kme[k] # "stored",
         KmeBecomes(x, [kme EXCEPT ![k] = "delivered"])
  PROVE  Fetch(k)
BY DEF KmeBecomes, Fetch, TypeOK, Kme, KeyStatus

-------------------------------------------------------------------------------
\* What an object is left with when it asks for a new key.
DrawOutcome(x, o, ok, h) ==
  \/ SameKeys /\ ok = FALSE /\ h = handle[o]
  \/ \E k \in KeyIds :
       /\ Draw(x, k)
       /\ h = [key_id |-> k, key |-> k] \/ (ok = FALSE /\ h = handle[o])

\* An object the daemon still has owns an open handle.
LEMMA LiveHandle ==
  ASSUME TypeOK, HandleOwn, NEW o \in Objects, pc[o] \in Live
  PROVE  handle[o] \in Handle
BY DEF TypeOK, HandleOwn

\* Asking for a new key leaves a well-formed handle.
LEMMA DrawHandle ==
  ASSUME NEW x, NEW o, NEW ok, NEW h, handle[o] \in Handle, DrawOutcome(x, o, ok, h)
  PROVE  h \in Handle
<1>1. ASSUME NEW k \in KeyIds PROVE [key_id |-> k, key |-> k] \in Handle
  BY DEF Handle, Chunks
<1> QED BY <1>1 DEF DrawOutcome

\* qkd_get_key_id takes one stored key with its ID, or changes nothing the
\* caller sees.
LEMMA DrawEffect ==
  ASSUME TypeOK, NEW x \in Exchanges, NEW o \in Objects, handle[o] \in Handle,
         NEW r \in qkd_get_key_id(handle[o], kme), KmeBecomes(x, r.kme)
  PROVE  r.ret \in BOOLEAN /\ DrawOutcome(x, o, r.ret, r.handle)
<1>1. kme \in Kme
  BY DEF TypeOK
<1>2. /\ r.ret \in BOOLEAN
      /\ \/ r.ret = FALSE /\ r.handle = handle[o] /\ r.kme = kme
         \/ \E k \in KeyIds :
              /\ kme[k] = "stored"
              /\ r.kme = [kme EXCEPT ![k] = "issued"]
              /\ r.ret => r.handle = [key_id |-> k, key |-> k]
              /\ ~r.ret => r.handle = handle[o]
  BY <1>1, GetKeyIdOutcome
<1>3. CASE r.ret = FALSE /\ r.handle = handle[o] /\ r.kme = kme
  BY <1>3, KmeBecomesSame DEF DrawOutcome
<1>4. ASSUME NEW k \in KeyIds,
             kme[k] = "stored",
             r.kme = [kme EXCEPT ![k] = "issued"],
             r.ret => r.handle = [key_id |-> k, key |-> k],
             ~r.ret => r.handle = handle[o]
      PROVE  DrawOutcome(x, o, r.ret, r.handle)
  <2>1. Draw(x, k)
    BY <1>4, KmeBecomesDraw
  <2>2. CASE r.ret
    BY <1>4, <2>1, <2>2 DEF DrawOutcome
  <2>3. CASE r.ret = FALSE
    BY <1>4, <2>1, <2>3 DEF DrawOutcome
  <2> QED BY <1>2, <2>2, <2>3
<1> QED BY <1>2, <1>3, <1>4

\* What get_public_key does, seen from the object: only a client-mode object
\* that has no key ID draws a key; any other call changes no key and no handle.
LEMMA GetPublicKeyEffect ==
  ASSUME TypeOK, HandleOwn, NEW x \in Exchanges, NEW s \in Sides, get_public_key(x, s)
  PROVE  \E ok \in BOOLEAN, h \in Handle, v \in Chunks :
           /\ IkeGetPublicKey(x, s, ok, v)
           /\ handle' = [handle EXCEPT ![<<x, s>>] = h]
           /\ \/ /\ Mode[<<x, s>>] = "client"
                 /\ ~HasKeyId(<<x, s>>)
                 /\ DrawOutcome(x, <<x, s>>, ok, h)
                 /\ ok => v = h.key_id
              \/ /\ Mode[<<x, s>>] = "client" => HasKeyId(<<x, s>>)
                 /\ SameKeys
                 /\ h = handle[<<x, s>>]
                 /\ v = IF Mode[<<x, s>>] = "client" THEN None ELSE h.key_id
<1> DEFINE o == <<x, s>>
<1>1. o \in Objects /\ pc[o] \in Live /\ handle[o] \in Handle /\ Mode[<<x, s>>] \in Modes
  BY LiveHandle, Kex014Assumption DEF Objects, get_public_key
<1>2. PICK r \in IF Mode[<<x, s>>] = "client" THEN ClientPublicKey(handle[o])
                                       ELSE ServerPublicKey(handle[o]) :
        /\ IkeGetPublicKey(x, s, r.out.ret, r.value)
        /\ handle' = [handle EXCEPT ![o] = r.out.handle]
        /\ KmeBecomes(x, r.out.kme)
  BY DEF get_public_key
<1>3. CASE Mode[<<x, s>>] = "client" /\ ~HasKeyId(o)
  <2>1. PICK q \in qkd_get_key_id(handle[o], kme) :
          r = [out |-> q, value |-> q.handle.key_id]
    BY <1>2, <1>3 DEF ClientPublicKey, qkd_is_key_id_null, HasKeyId
  <2>2. q.ret \in BOOLEAN /\ DrawOutcome(x, o, q.ret, q.handle)
    BY <1>1, <1>2, <2>1, DrawEffect
  <2>3. q.handle \in Handle
    BY <1>1, <2>2, DrawHandle
  <2>4. q.handle.key_id \in Chunks
    BY <2>3 DEF Handle
  <2> QED BY <1>2, <1>3, <2>1, <2>2, <2>3, <2>4
<1>4. CASE Mode[<<x, s>>] = "client" /\ HasKeyId(o)
  <2>1. r = [out |-> Outcome(TRUE, handle[o], kme), value |-> None]
    BY <1>2, <1>4 DEF ClientPublicKey, qkd_is_key_id_null, HasKeyId
  <2>2. /\ r.out.ret = TRUE /\ r.out.handle = handle[o] /\ r.out.kme = kme
        /\ r.value = None
    BY <2>1 DEF Outcome
  <2>3. SameKeys
    BY <1>2, <2>2, KmeBecomesSame
  <2> QED BY <1>1, <1>2, <1>4, <2>2, <2>3 DEF Chunks
<1>5. CASE Mode[<<x, s>>] = "server"
  <2>1. r = [out |-> Outcome(TRUE, handle[o], kme), value |-> handle[o].key_id]
    BY <1>1, <1>2, <1>5
    DEF ServerPublicKey, qkd_is_key_id_null, qkd_get_stored_key_id
  <2>2. /\ r.out.ret = TRUE /\ r.out.handle = handle[o] /\ r.out.kme = kme
        /\ r.value = handle[o].key_id
    BY <2>1 DEF Outcome
  <2>3. SameKeys
    BY <1>2, <2>2, KmeBecomesSame
  <2>4. handle[o].key_id \in Chunks
    BY <1>1 DEF Handle
  <2> QED BY <1>1, <1>2, <1>5, <2>2, <2>3, <2>4
<1> QED BY <1>1, <1>3, <1>4, <1>5 DEF Modes

\* What an object is left with when it takes up a key ID v it received.
AdoptOutcome(v, o, ok, h) ==
  /\ h.key_id = v
  /\ h.key \in {handle[o].key, v}
  /\ SameKeys \/ Fetch(v)
  /\ ok => Fetch(v) /\ h.key = v
  /\ ~ok => h.key = handle[o].key

\* Storing a received ID and fetching its key leaves the handle with that ID,
\* and with that key when it succeeds.
LEMMA AdoptEffect ==
  ASSUME TypeOK, NEW x \in Exchanges, NEW o \in Objects, handle[o] \in Handle,
         NEW v \in KeyIds, NEW r \in AdoptKeyId(handle[o], v), KmeBecomes(x, r.kme)
  PROVE  r.ret \in BOOLEAN /\ r.handle \in Handle /\ AdoptOutcome(v, o, r.ret, r.handle)
<1> DEFINE g == [handle[o] EXCEPT !.key_id = v]
<1>1. kme \in Kme
  BY DEF TypeOK
<1>2. g \in Handle /\ g.key_id = v /\ g.key = handle[o].key
  BY DEF Handle, Chunks
<1>3. r \in qkd_get_key(g, kme)
  BY DEF AdoptKeyId, qkd_set_key_id
<1> HIDE DEF g
<1>4. /\ r.ret \in BOOLEAN
      /\ \/ r.kme = kme
         \/ kme[v] # "stored" /\ r.kme = [kme EXCEPT ![v] = "delivered"]
      /\ ~r.ret => r.handle = g
      /\ r.ret => /\ kme[v] # "stored"
                  /\ r.kme = [kme EXCEPT ![v] = "delivered"]
                  /\ r.handle = [g EXCEPT !.key = v]
  BY <1>1, <1>2, <1>3, GetKeyOutcome
<1>5. SameKeys \/ Fetch(v)
  BY <1>4, KmeBecomesSame, KmeBecomesFetch
<1>6. r.ret => Fetch(v)
  BY <1>4, KmeBecomesFetch
<1>7. CASE r.ret
  <2>1. r.handle \in Handle /\ r.handle.key_id = v /\ r.handle.key = v
    BY <1>2, <1>4, <1>7 DEF Handle, Chunks
  <2> QED BY <1>4, <1>5, <1>6, <1>7, <2>1 DEF AdoptOutcome
<1>8. CASE ~r.ret
  BY <1>2, <1>4, <1>5, <1>8 DEF AdoptOutcome
<1> QED BY <1>4, <1>7, <1>8

\* What set_public_key does, seen from the object: a server-mode object that
\* receives an empty value draws a key, an object that receives a key ID takes
\* that key up, unless it is in client mode and has one.
LEMMA SetPublicKeyEffect ==
  ASSUME TypeOK, HandleOwn, NEW x \in Exchanges, NEW s \in Sides, set_public_key(x, s)
  PROVE  \E m \in Inbox(x, s), ok \in BOOLEAN, h \in Handle :
           /\ IkeSetPublicKey(x, s, m.value, ok)
           /\ handle' = [handle EXCEPT ![<<x, s>>] = h]
           /\ \/ /\ Mode[<<x, s>>] = "server"
                 /\ m.value = None
                 /\ DrawOutcome(x, <<x, s>>, ok, h)
                 /\ ok => h.key_id # None
              \/ /\ Mode[<<x, s>>] = "client" => ~HasKeyId(<<x, s>>)
                 /\ m.value \in KeyIds
                 /\ AdoptOutcome(m.value, <<x, s>>, ok, h)
              \/ /\ Mode[<<x, s>>] = "client"
                 /\ ok = HasKeyId(<<x, s>>)
                 /\ SameKeys
                 /\ h = handle[<<x, s>>]
<1> DEFINE o == <<x, s>>
<1>1. o \in Objects /\ pc[o] \in Live /\ handle[o] \in Handle /\ Mode[<<x, s>>] \in Modes
  BY LiveHandle, Kex014Assumption DEF Objects, set_public_key
<1>2. PICK m \in Inbox(x, s) :
        \E r \in IF Mode[<<x, s>>] = "client" THEN ClientPeerKey(handle[o], m.value)
                                       ELSE ServerPeerKey(handle[o], m.value) :
          /\ IkeSetPublicKey(x, s, m.value, r.ret)
          /\ handle' = [handle EXCEPT ![o] = r.handle]
          /\ KmeBecomes(x, r.kme)
  BY DEF set_public_key
<1>3. PICK r \in IF Mode[<<x, s>>] = "client" THEN ClientPeerKey(handle[o], m.value)
                                       ELSE ServerPeerKey(handle[o], m.value) :
          /\ IkeSetPublicKey(x, s, m.value, r.ret)
          /\ handle' = [handle EXCEPT ![o] = r.handle]
          /\ KmeBecomes(x, r.kme)
  BY <1>2
<1>4. m.value \in Chunks
  BY DEF Inbox, TypeOK, IkeTypeOK, Payloads
<1>5. CASE Mode[<<x, s>>] = "server" /\ m.value = None
  <2>1. r \in qkd_get_key_id(handle[o], kme)
    BY <1>3, <1>5 DEF ServerPeerKey
  <2>2. r.ret \in BOOLEAN /\ DrawOutcome(x, o, r.ret, r.handle)
    BY <1>1, <1>3, <2>1, DrawEffect
  <2>3. r.handle \in Handle
    BY <1>1, <2>2, DrawHandle
  <2>4. r.ret => r.handle.key_id # None
    <3>1. kme \in Kme
      BY DEF TypeOK
    <3>2. r.ret => \E k \in KeyIds : r.handle = [key_id |-> k, key |-> k]
      BY <1>1, <2>1, <3>1, GetKeyIdOutcome
    <3>3. ASSUME NEW k \in KeyIds PROVE [key_id |-> k, key |-> k].key_id # None
      BY Etsi014Assumption
    <3> QED BY <3>2, <3>3
  <2> QED BY <1>3, <1>5, <2>2, <2>3, <2>4
<1>6. CASE m.value \in KeyIds /\ (Mode[<<x, s>>] = "client" => ~HasKeyId(o))
  <2>1. r \in AdoptKeyId(handle[o], m.value)
    BY <1>1, <1>3, <1>6, Etsi014Assumption
    DEF ServerPeerKey, ClientPeerKey, qkd_is_key_id_null, HasKeyId, Modes
  <2>2. /\ r.ret \in BOOLEAN
        /\ r.handle \in Handle
        /\ AdoptOutcome(m.value, o, r.ret, r.handle)
    BY <1>1, <1>3, <1>6, <2>1, AdoptEffect
  <2> QED BY <1>3, <1>6, <2>2
<1>7. CASE Mode[<<x, s>>] = "client" /\ (HasKeyId(o) \/ m.value = None)
  <2>1. r = Outcome(HasKeyId(o), handle[o], kme)
    <3>1. CASE HasKeyId(o)
      <4>1. r = Outcome(TRUE, handle[o], kme)
        BY <1>3, <1>7, <3>1 DEF ClientPeerKey, qkd_is_key_id_null, HasKeyId
      <4>2. HasKeyId(o) = TRUE
        BY <3>1 DEF HasKeyId
      <4> QED BY <4>1, <4>2
    <3>2. CASE ~HasKeyId(o)
      <4>1. r = Outcome(FALSE, handle[o], kme)
        BY <1>3, <1>7, <3>2, Etsi014Assumption DEF ClientPeerKey, qkd_is_key_id_null, HasKeyId
      <4>2. HasKeyId(o) = FALSE
        BY <3>2 DEF HasKeyId
      <4> QED BY <4>1, <4>2
    <3> QED BY <3>1, <3>2
  <2>2. r.ret = HasKeyId(o) /\ r.handle = handle[o] /\ r.kme = kme
    BY <2>1 DEF Outcome
  <2>3. SameKeys
    BY <1>3, <2>2, KmeBecomesSame
  <2>4. r.ret \in BOOLEAN
    BY <2>2 DEF HasKeyId
  <2> QED BY <1>1, <1>3, <1>7, <2>2, <2>3, <2>4
<1> QED BY <1>1, <1>4, <1>5, <1>6, <1>7 DEF Modes, Chunks

\* What get_shared_secret does, seen from the object: the daemon gets the key
\* in the handle, which is what it was or is the one its key ID names.
LEMMA GetSharedSecretEffect ==
  ASSUME TypeOK, HandleOwn, NEW x \in Exchanges, NEW s \in Sides, get_shared_secret(x, s)
  PROVE  \E ok \in BOOLEAN, h \in Handle :
           /\ IkeGetSharedSecret(x, s, ok, h.key)
           /\ handle' = [handle EXCEPT ![<<x, s>>] = h]
           /\ h.key_id = handle[<<x, s>>].key_id
           /\ h.key \in {handle[<<x, s>>].key, h.key_id}
           /\ SameKeys \/ (h.key_id \in KeyIds /\ Fetch(h.key_id))
           /\ h.key # handle[<<x, s>>].key => Fetch(h.key)
           /\ ok => h.key # None
           /\ key_retrieved' \in [Objects -> BOOLEAN]
           /\ shared_secret' \in [Objects -> Chunks]
<1> DEFINE o == <<x, s>>
<1>1. o \in Objects /\ pc[o] \in Live /\ handle[o] \in Handle /\ kme \in Kme
  BY LiveHandle DEF Objects, get_shared_secret, TypeOK
<1>2. PICK r \in Retrieval(handle[o], key_retrieved[o], s) :
        LET ok == r.ret /\ r.handle.key # None
        IN  /\ IkeGetSharedSecret(x, s, ok, r.handle.key)
            /\ handle' = [handle EXCEPT ![o] = r.handle]
            /\ KmeBecomes(x, r.kme)
            /\ shared_secret' = [shared_secret EXCEPT ![o] =
                                   IF ok THEN r.handle.key ELSE @]
  BY DEF get_shared_secret, qkd_get_shared_secret
<1>3. /\ r.handle \in Handle
      /\ r.handle.key_id = handle[o].key_id
      /\ r.handle.key \in {handle[o].key, handle[o].key_id}
      /\ \/ r.kme = kme
         \/ /\ r.handle.key_id \in KeyIds
            /\ kme[r.handle.key_id] # "stored"
            /\ r.kme = [kme EXCEPT ![r.handle.key_id] = "delivered"]
      /\ r.handle.key # handle[o].key =>
           /\ r.handle.key = r.handle.key_id
           /\ r.handle.key_id \in KeyIds
           /\ kme[r.handle.key_id] # "stored"
           /\ r.kme = [kme EXCEPT ![r.handle.key_id] = "delivered"]
  <2>1. CASE r \in qkd_get_key(handle[o], kme)
    <3>1. \/ r.handle = handle[o]
          \/ r.handle = [handle[o] EXCEPT !.key = handle[o].key_id]
      BY <1>1, <2>1, GetKeyOutcome
    <3>2. /\ r.handle \in Handle
          /\ r.handle.key_id = handle[o].key_id
          /\ r.handle.key \in {handle[o].key, handle[o].key_id}
      BY <1>1, <3>1 DEF Handle
    <3>3. \/ r.kme = kme
          \/ /\ handle[o].key_id \in KeyIds
             /\ kme[handle[o].key_id] # "stored"
             /\ r.kme = [kme EXCEPT ![handle[o].key_id] = "delivered"]
      BY <1>1, <2>1, GetKeyOutcome
    <3>4. r.handle # handle[o] =>
            /\ r.handle = [handle[o] EXCEPT !.key = handle[o].key_id]
            /\ handle[o].key_id \in KeyIds
            /\ kme[handle[o].key_id] # "stored"
            /\ r.kme = [kme EXCEPT ![handle[o].key_id] = "delivered"]
      BY <1>1, <2>1, GetKeyOutcome
    <3> QED BY <3>2, <3>3, <3>4
  <2>2. CASE r = Outcome(TRUE, handle[o], kme)
    BY <1>1, <2>2 DEF Outcome
  <2> QED BY <2>1, <2>2 DEF Retrieval
<1>4. SameKeys \/ (r.handle.key_id \in KeyIds /\ Fetch(r.handle.key_id))
  BY <1>2, <1>3, KmeBecomesSame, KmeBecomesFetch
<1>5. r.handle.key # handle[o].key => Fetch(r.handle.key)
  BY <1>2, <1>3, KmeBecomesFetch
<1>6. (r.ret /\ r.handle.key # None) \in BOOLEAN
  OBVIOUS
<1>7. key_retrieved' \in [Objects -> BOOLEAN]
  BY <1>1 DEF get_shared_secret, TypeOK
<1>8. shared_secret' \in [Objects -> Chunks]
  <2>1. \E c \in Chunks : shared_secret' = [shared_secret EXCEPT ![o] = c]
    <3>1. r.handle.key \in Chunks /\ shared_secret[o] \in Chunks
      BY <1>1, <1>3 DEF Handle, TypeOK
    <3>2. shared_secret' = [shared_secret EXCEPT ![o] =
                              IF r.ret /\ r.handle.key # None THEN r.handle.key ELSE @]
      BY <1>2
    <3> QED BY <3>1, <3>2
  <2> QED BY <1>1, <2>1 DEF TypeOK
<1> QED BY <1>2, <1>3, <1>4, <1>6, <1>7, <1>8, <1>5

-------------------------------------------------------------------------------
\* Whatever a call does to the KMEs, a key that was drawn stays its exchange's.
LEMMA KeyStep ==
  ASSUME TypeOK, Ledger, NEW x \in Exchanges,
         SameKeys \/ (\E k \in KeyIds : Draw(x, k)) \/ (\E k \in KeyIds : Fetch(k))
  PROVE  /\ kme' \in Kme
         /\ drawnFor' \in [KeyIds -> Exchanges \cup {None}]
         /\ Ledger'
         /\ \A k \in KeyIds : drawnFor[k] # None => drawnFor'[k] = drawnFor[k]
<1> USE DEF TypeOK, Kme, KeyStatus, Ledger
<1>1. CASE SameKeys
  BY <1>1 DEF SameKeys
<1>2. ASSUME NEW k \in KeyIds, Draw(x, k)
      PROVE  /\ kme' \in Kme
             /\ drawnFor' \in [KeyIds -> Exchanges \cup {None}]
             /\ Ledger'
             /\ \A j \in KeyIds : drawnFor[j] # None => drawnFor'[j] = drawnFor[j]
  BY <1>2, Kex014Assumption DEF Draw
<1>3. ASSUME NEW k \in KeyIds, Fetch(k)
      PROVE  /\ kme' \in Kme
             /\ drawnFor' \in [KeyIds -> Exchanges \cup {None}]
             /\ Ledger'
             /\ \A j \in KeyIds : drawnFor[j] # None => drawnFor'[j] = drawnFor[j]
  BY <1>3 DEF Fetch
<1> QED BY <1>1, <1>2, <1>3

\* A call that asks for a new key changes no key, or draws one.
LEMMA DrawStep ==
  ASSUME NEW x, NEW o, NEW ok, NEW h, DrawOutcome(x, o, ok, h)
  PROVE  SameKeys \/ (\E k \in KeyIds : Draw(x, k))
BY DEF DrawOutcome

\* What a handle holds stays its exchange's.
LEMMA OwnHandle ==
  ASSUME HandleOwn, NEW x \in Exchanges, NEW o \in Objects, o[1] = x,
         handle[o] \in Handle,
         \A k \in KeyIds : drawnFor[k] # None => drawnFor'[k] = drawnFor[k]
  PROVE  /\ handle[o].key_id # None => drawnFor'[handle[o].key_id] = x
         /\ handle[o].key # None => drawnFor'[handle[o].key] = x
<1>1. handle[o] # None /\ handle[o].key_id \in Chunks /\ handle[o].key \in Chunks
  BY Etsi014Assumption DEF Handle
<1> QED BY <1>1, Kex014Assumption DEF HandleOwn, Chunks

\* A newly drawn key, and its ID, belong to the exchange that drew it.
LEMMA DrawOwn ==
  ASSUME TypeOK, HandleOwn, NEW x \in Exchanges, NEW o \in Objects, o[1] = x,
         handle[o] \in Handle, NEW ok, NEW h, DrawOutcome(x, o, ok, h),
         \A k \in KeyIds : drawnFor[k] # None => drawnFor'[k] = drawnFor[k]
  PROVE  /\ h.key_id # None => drawnFor'[h.key_id] = x
         /\ h.key # None => drawnFor'[h.key] = x
<1>1. /\ handle[o].key_id # None => drawnFor'[handle[o].key_id] = x
      /\ handle[o].key # None => drawnFor'[handle[o].key] = x
  BY OwnHandle
<1>2. ASSUME NEW k \in KeyIds, Draw(x, k) PROVE drawnFor'[k] = x
  BY <1>2 DEF Draw, TypeOK
<1> QED BY <1>1, <1>2 DEF DrawOutcome

\* The parts of Ownership that say what a handle holds, when one is replaced.
LEMMA HandleStep ==
  ASSUME TypeOK, HandleOwn, NEW x \in Exchanges, NEW s \in Sides,
         pc[<<x, s>>] \in Live,
         \E p \in Live : pc' = [pc EXCEPT ![<<x, s>>] = p],
         \A k \in KeyIds : drawnFor[k] # None => drawnFor'[k] = drawnFor[k],
         NEW h \in Handle, handle' = [handle EXCEPT ![<<x, s>>] = h],
         h.key_id # None => drawnFor'[h.key_id] = x,
         h.key # None => drawnFor'[h.key] = x
  PROVE  HandleOwn' /\ handle' \in [Objects -> Handle \cup {None}]
<1>1. handle' \in [Objects -> Handle \cup {None}]
  BY DEF TypeOK
<1>2. ASSUME NEW o \in Objects
      PROVE  /\ handle'[o] # None <=> pc'[o] \in Live
             /\ handle'[o] # None =>
                  /\ handle'[o].key_id # None => drawnFor'[handle'[o].key_id] = o[1]
                  /\ handle'[o].key # None => drawnFor'[handle'[o].key] = o[1]
  <2>1. CASE o = <<x, s>>
    <3>1. handle'[o] = h /\ h # None
      BY <2>1, Etsi014Assumption DEF TypeOK
    <3>2. pc'[o] \in Live
      BY <2>1 DEF TypeOK, IkeTypeOK
    <3> QED BY <2>1, <3>1, <3>2
  <2>2. CASE o # <<x, s>>
    <3>1. handle'[o] = handle[o] /\ pc'[o] = pc[o]
      BY <2>2 DEF TypeOK, IkeTypeOK
    <3>2. handle[o] # None => handle[o].key_id \in Chunks /\ handle[o].key \in Chunks
      BY DEF TypeOK, Handle
    <3>3. /\ handle[o] # None <=> pc[o] \in Live
          /\ handle[o] # None =>
               /\ handle[o].key_id # None => drawnFor[handle[o].key_id] = o[1]
               /\ handle[o].key # None => drawnFor[handle[o].key] = o[1]
      BY DEF HandleOwn
    <3>4. o[1] # None
      BY Kex014Assumption DEF Objects
    <3> QED BY <3>1, <3>2, <3>3, <3>4 DEF Chunks
  <2> QED BY <2>1, <2>2
<1> QED BY <1>1, <1>2 DEF HandleOwn

\* Messages and secrets that are left alone stay their exchange's.
LEMMA MessageStep ==
  ASSUME TypeOK, MessageOwn,
         \A k \in KeyIds : drawnFor[k] # None => drawnFor'[k] = drawnFor[k],
         NEW x \in Exchanges, NEW s \in Sides, NEW v \in Chunks,
         v # None => drawnFor'[v] = x,
         \/ net' = net
         \/ net' = net \cup {[exchange |-> x, from |-> s, value |-> v]}
  PROVE  MessageOwn' /\ net' \subseteq Payloads(Chunks)
<1>1. ASSUME NEW m \in net
      PROVE  m \in Payloads(Chunks) /\ (m.value # None => drawnFor'[m.value] = m.exchange)
  <2>1. m \in Payloads(Chunks) /\ m.value \in Chunks /\ m.exchange # None
    BY Kex014Assumption DEF TypeOK, IkeTypeOK, Payloads
  <2> QED BY <2>1 DEF MessageOwn, Chunks
<1>2. [exchange |-> x, from |-> s, value |-> v] \in Payloads(Chunks)
  BY DEF Payloads
<1> QED BY <1>1, <1>2 DEF MessageOwn

\* A daemon that is handed its exchange's key keeps SecretOwn.
LEMMA SecretStep ==
  ASSUME TypeOK, SecretOwn,
         \A k \in KeyIds : drawnFor[k] # None => drawnFor'[k] = drawnFor[k],
         NEW x \in Exchanges, NEW s \in Sides, NEW v \in Chunks,
         v # None => drawnFor'[v] = x,
         secret' = secret \/ secret' = [secret EXCEPT ![<<x, s>>] = v]
  PROVE  SecretOwn' /\ secret' \in [Objects -> KeyIds \cup {None}]
<1>1. secret \in [Objects -> KeyIds \cup {None}]
  BY DEF TypeOK, IkeTypeOK
<1>2. secret' \in [Objects -> KeyIds \cup {None}]
  BY <1>1 DEF Chunks
<1>3. ASSUME NEW o \in Objects, secret'[o] # None
      PROVE  drawnFor'[secret'[o]] = o[1]
  <2>1. CASE secret'[o] = secret[o]
    <3>1. o[1] # None
      BY Kex014Assumption DEF Objects
    <3> QED BY <1>1, <1>3, <2>1, <3>1 DEF SecretOwn
  <2>2. CASE secret'[o] # secret[o]
    BY <1>1, <1>3, <2>2
  <2> QED BY <2>1, <2>2
<1> QED BY <1>2, <1>3 DEF SecretOwn

\* Building a payload keeps Ownership: what is sent is the handle's own ID.
LEMMA OwnershipGetPublicKey ==
  ASSUME Ownership, NEW x \in Exchanges, NEW s \in Sides, get_public_key(x, s)
  PROVE  Ownership'
<1> DEFINE o == <<x, s>>
<1> USE DEF Ownership
<1>1. PICK ok \in BOOLEAN, h \in Handle, v \in Chunks :
        /\ IkeGetPublicKey(x, s, ok, v)
        /\ handle' = [handle EXCEPT ![o] = h]
        /\ \/ /\ Mode[<<x, s>>] = "client"
              /\ ~HasKeyId(o)
              /\ DrawOutcome(x, o, ok, h)
              /\ ok => v = h.key_id
           \/ /\ Mode[<<x, s>>] = "client" => HasKeyId(o)
              /\ SameKeys
              /\ h = handle[o]
              /\ v = IF Mode[<<x, s>>] = "client" THEN None ELSE h.key_id
  BY GetPublicKeyEffect
<1>2. o \in Objects /\ o[1] = x /\ pc[o] \in Live /\ handle[o] \in Handle
  BY LiveHandle DEF Objects, get_public_key
<1>3. SameKeys \/ \E k \in KeyIds : Draw(x, k)
  BY <1>1, DrawStep
<1>4. /\ kme' \in Kme
      /\ drawnFor' \in [KeyIds -> Exchanges \cup {None}]
      /\ Ledger'
      /\ \A k \in KeyIds : drawnFor[k] # None => drawnFor'[k] = drawnFor[k]
  BY <1>3, KeyStep
<1>5. /\ h.key_id # None => drawnFor'[h.key_id] = x
      /\ h.key # None => drawnFor'[h.key] = x
  <2>1. CASE DrawOutcome(x, o, ok, h)
    BY <1>2, <1>4, <2>1, DrawOwn
  <2>2. CASE h = handle[o] /\ SameKeys
    BY <1>2, <1>4, <2>2, OwnHandle
  <2> QED BY <1>1, <2>1, <2>2
<1>6. /\ \E p \in Live : pc' = [pc EXCEPT ![o] = p]
      /\ gets' \in [Exchanges -> 0..MaxGets]
      /\ secret' = secret
      /\ net' = net \/ (ok /\ net' = net \cup {[exchange |-> x, from |-> s, value |-> v]})
  BY <1>1, IkeAssumption
  DEF IkeGetPublicKey, IkeBuildRequest, IkeBuildResponse, TypeOK, IkeTypeOK, Live
<1>7. HandleOwn' /\ handle' \in [Objects -> Handle \cup {None}]
  BY <1>1, <1>2, <1>4, <1>5, <1>6, HandleStep
<1>8. MessageOwn' /\ net' \subseteq Payloads(Chunks)
  <2>1. CASE net' = net
    BY <1>4, <2>1, MessageStep DEF Chunks
  <2>2. CASE ok
    BY <1>1, <1>4, <1>5, <1>6, <2>2, MessageStep
  <2> QED BY <1>6, <2>1, <2>2
<1>9. SecretOwn' /\ secret' \in [Objects -> KeyIds \cup {None}]
  BY <1>4, <1>6, SecretStep DEF Chunks
<1>10. TypeOK'
  <2>1. pc' \in [Objects -> PcStates]
    BY <1>6 DEF TypeOK, IkeTypeOK, PcStates
  <2>2. UNCHANGED <<key_retrieved, shared_secret>>
    BY DEF get_public_key
  <2> QED BY <1>4, <1>6, <1>7, <1>8, <1>9, <2>1, <2>2 DEF TypeOK, IkeTypeOK
<1> QED BY <1>4, <1>7, <1>8, <1>9, <1>10

\* Taking a payload in keeps Ownership: its ID is its exchange's.
LEMMA OwnershipSetPublicKey ==
  ASSUME Ownership, NEW x \in Exchanges, NEW s \in Sides, set_public_key(x, s)
  PROVE  Ownership'
<1> DEFINE o == <<x, s>>
<1> USE DEF Ownership
<1>1. PICK m \in Inbox(x, s), ok \in BOOLEAN, h \in Handle :
        /\ IkeSetPublicKey(x, s, m.value, ok)
        /\ handle' = [handle EXCEPT ![o] = h]
        /\ \/ DrawOutcome(x, o, ok, h)
           \/ m.value \in KeyIds /\ AdoptOutcome(m.value, o, ok, h)
           \/ SameKeys /\ h = handle[o]
  BY SetPublicKeyEffect
<1>2. o \in Objects /\ o[1] = x /\ pc[o] \in Live /\ handle[o] \in Handle
  BY LiveHandle DEF Objects, set_public_key
<1>3. \/ SameKeys
      \/ \E k \in KeyIds : Draw(x, k)
      \/ \E k \in KeyIds : Fetch(k)
  BY <1>1, DrawStep DEF AdoptOutcome
<1>4. /\ kme' \in Kme
      /\ drawnFor' \in [KeyIds -> Exchanges \cup {None}]
      /\ Ledger'
      /\ \A k \in KeyIds : drawnFor[k] # None => drawnFor'[k] = drawnFor[k]
  BY <1>3, KeyStep
<1>5. /\ handle[o].key_id # None => drawnFor'[handle[o].key_id] = x
      /\ handle[o].key # None => drawnFor'[handle[o].key] = x
  BY <1>2, <1>4, OwnHandle
<1>6. /\ h.key_id # None => drawnFor'[h.key_id] = x
      /\ h.key # None => drawnFor'[h.key] = x
  <2>1. CASE DrawOutcome(x, o, ok, h)
    BY <1>2, <1>4, <2>1, DrawOwn
  <2>2. CASE h = handle[o]
    BY <1>5, <2>2
  <2>3. CASE m.value \in KeyIds /\ AdoptOutcome(m.value, o, ok, h)
    <3>1. drawnFor[m.value] = x /\ drawnFor[m.value] # None
      BY <2>3, Etsi014Assumption, Kex014Assumption DEF MessageOwn, Inbox
    <3> QED BY <1>4, <1>5, <2>3, <3>1 DEF AdoptOutcome
  <2> QED BY <1>1, <2>1, <2>2, <2>3
<1>7. /\ \E p \in Live : pc' = [pc EXCEPT ![o] = p]
      /\ UNCHANGED <<gets, net, secret, key_retrieved, shared_secret>>
  BY <1>1 DEF IkeSetPublicKey, Live, set_public_key
<1>8. HandleOwn' /\ handle' \in [Objects -> Handle \cup {None}]
  BY <1>1, <1>2, <1>4, <1>6, <1>7, HandleStep
<1>9. MessageOwn' /\ SecretOwn'
  BY <1>4, <1>7, MessageStep, SecretStep DEF Chunks
<1>10. TypeOK'
  BY <1>4, <1>7, <1>8 DEF TypeOK, IkeTypeOK, PcStates
<1> QED BY <1>4, <1>8, <1>9, <1>10

\* Handing the secret over keeps Ownership: it is the handle's key.
LEMMA OwnershipGetSharedSecret ==
  ASSUME Ownership, NEW x \in Exchanges, NEW s \in Sides, get_shared_secret(x, s)
  PROVE  Ownership'
<1> DEFINE o == <<x, s>>
<1> USE DEF Ownership
<1>1. PICK ok \in BOOLEAN, h \in Handle :
        /\ IkeGetSharedSecret(x, s, ok, h.key)
        /\ handle' = [handle EXCEPT ![o] = h]
        /\ h.key_id = handle[o].key_id
        /\ h.key \in {handle[o].key, h.key_id}
        /\ SameKeys \/ (h.key_id \in KeyIds /\ Fetch(h.key_id))
        /\ key_retrieved' \in [Objects -> BOOLEAN]
        /\ shared_secret' \in [Objects -> Chunks]
  BY GetSharedSecretEffect
<1>2. o \in Objects /\ o[1] = x /\ pc[o] \in Live /\ handle[o] \in Handle
  BY LiveHandle DEF Objects, get_shared_secret
<1>3. /\ kme' \in Kme
      /\ drawnFor' \in [KeyIds -> Exchanges \cup {None}]
      /\ Ledger'
      /\ \A k \in KeyIds : drawnFor[k] # None => drawnFor'[k] = drawnFor[k]
  BY <1>1, KeyStep
<1>4. /\ h.key_id # None => drawnFor'[h.key_id] = x
      /\ h.key # None => drawnFor'[h.key] = x
  BY <1>1, <1>2, <1>3, OwnHandle
<1>5. /\ \E p \in Live : pc' = [pc EXCEPT ![o] = p]
      /\ UNCHANGED <<gets, net>>
      /\ secret' = secret \/ secret' = [secret EXCEPT ![o] = h.key]
  BY <1>1 DEF IkeGetSharedSecret, Live
<1>6. HandleOwn' /\ handle' \in [Objects -> Handle \cup {None}]
  BY <1>1, <1>2, <1>3, <1>4, <1>5, HandleStep
<1>7. MessageOwn'
  BY <1>3, <1>5, MessageStep DEF Chunks
<1>8. SecretOwn' /\ secret' \in [Objects -> KeyIds \cup {None}]
  <2>1. h.key \in Chunks
    BY DEF Handle
  <2> QED BY <1>3, <1>4, <1>5, <2>1, SecretStep
<1>9. TypeOK'
  BY <1>1, <1>3, <1>5, <1>6, <1>8 DEF TypeOK, IkeTypeOK, PcStates
<1> QED BY <1>3, <1>6, <1>7, <1>8, <1>9

\* Creating and destroying an object touches no key, message or secret.
LEMMA OwnershipLifetime ==
  ASSUME Ownership, NEW x \in Exchanges, NEW s \in Sides,
         qkd_kex_create(x, s) \/ destroy(x, s)
  PROVE  Ownership'
<1> DEFINE o == <<x, s>>
<1> USE DEF Ownership
<1>1. PICK h \in Handle \cup {None}, p \in PcStates :
        /\ handle' = [handle EXCEPT ![o] = h]
        /\ pc' = [pc EXCEPT ![o] = p]
        /\ h # None <=> p \in Live
        /\ h # None => h.key_id = None /\ h.key = None
  <2>1. CASE qkd_kex_create(x, s)
    <3>1. PICK h \in qkd_open :
            IkeCreate(x, s, h # None) /\ handle' = [handle EXCEPT ![o] = h]
      BY <2>1 DEF qkd_kex_create
    <3>2. /\ h \in Handle \cup {None}
          /\ h # None => h.key_id = None /\ h.key = None
      BY DEF qkd_open, When, Handle, Chunks
    <3>3. pc' = [pc EXCEPT ![o] = IF h # None THEN "created" ELSE "gone"]
      BY <3>1 DEF IkeCreate
    <3> QED BY <3>1, <3>2, <3>3 DEF PcStates, Live
  <2>2. CASE destroy(x, s)
    BY <2>2 DEF destroy, IkeDestroy, qkd_close, PcStates, Live
  <2> QED BY <2>1, <2>2
<1>2. /\ UNCHANGED <<gets, net, secret, kme, drawnFor>>
      /\ key_retrieved' \in [Objects -> BOOLEAN]
      /\ shared_secret' \in [Objects -> Chunks]
  BY DEF qkd_kex_create, destroy, IkeCreate, IkeDestroy, TypeOK, Chunks
<1>3. o \in Objects
  BY DEF Objects
<1>4. TypeOK'
  BY <1>1, <1>2, <1>3 DEF TypeOK, IkeTypeOK
<1>5. HandleOwn'
  BY <1>1, <1>2, <1>3 DEF HandleOwn, TypeOK, IkeTypeOK
<1>6. MessageOwn' /\ SecretOwn' /\ Ledger'
  BY <1>2 DEF MessageOwn, SecretOwn, Ledger
<1> QED BY <1>4, <1>5, <1>6

\* Before any exchange nothing is held and nothing is drawn.
LEMMA OwnershipInit == Init => Ownership
BY Kex014Assumption, Etsi014Assumption, IkeAssumption
DEF Init, IkeInit, Ownership, TypeOK, IkeTypeOK, HandleOwn, MessageOwn, SecretOwn,
    Ledger, PcStates, Live, Kme, KeyStatus, Chunks

\* Ownership is inductive.
LEMMA OwnershipStep ==
  ASSUME Ownership, [Next]_vars
  PROVE  Ownership'
<1>1. ASSUME NEW x \in Exchanges, NEW s \in Sides, Call(x, s) \/ destroy(x, s)
      PROVE  Ownership'
  BY <1>1, OwnershipLifetime, OwnershipGetPublicKey, OwnershipSetPublicKey,
     OwnershipGetSharedSecret
  DEF Call
<1>2. CASE UNCHANGED vars
  BY <1>2 DEF vars, ikeVars, objVars, Ownership, TypeOK, IkeTypeOK, HandleOwn,
              MessageOwn, SecretOwn, Ledger
<1> QED BY <1>1, <1>2 DEF Next, AllDone

\* No step of any daemon mixes up the keys of two exchanges, in whatever modes
\* the two plugins were built and whatever fails.
THEOREM OwnershipInvariant == Spec => []Ownership
BY OwnershipInit, OwnershipStep, PTL DEF Spec

\* Every variable keeps to the values the code can give it.
THEOREM TypeCorrect == Spec => []TypeOK
BY OwnershipInvariant, PTL DEF Ownership

\* Two exchanges never end with the same secret, for any number of exchanges
\* and any combination of builds.
THEOREM IsolationInvariant == Spec => []Isolation
<1>1. Ownership => Isolation
  BY DEF Ownership, SecretOwn, Isolation
<1> QED BY <1>1, OwnershipInvariant, PTL
================================================================================
