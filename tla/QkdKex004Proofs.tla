---------------------------- MODULE QkdKex004Proofs ----------------------------
(* Proofs about QkdKex004 for any number of exchanges, streams and requests.   *)
EXTENDS QkdKex004Inv, IkeExchangeProofs

\* What a call of the end "me" leaves alone when it takes the KMEs from K to L.
Moves(K, L, me) ==
  /\ L \in Kme(Objects)
  /\ \A o \in Objects, k \in KeyIds : o # me => (o \in L.ends[k] <=> o \in K.ends[k])
  /\ \A o \in Objects, k \in KeyIds : o \in K.served[k] => o \in L.served[k]
  /\ \A o \in Objects : o # me => (o \in L.misled <=> o \in K.misled)

-------------------------------------------------------------------------------
\* What connecting an end, and a failure it is told of, change at the KMEs.
LEMMA ConnectFields ==
  ASSUME NEW me \in Objects, NEW K \in Kme(Objects), NEW k \in KeyIds
  PROVE  LET L == Connect(K, me, k)
         IN  /\ L \in Kme(Objects)
             /\ L.opened = K.opened \cup {k}
             /\ L.ends = [K.ends EXCEPT ![k] = @ \cup {me}]
             /\ L.served = K.served
             /\ L.misled = K.misled
BY DEF Connect, Kme
LEMMA MisleadFields ==
  ASSUME NEW me \in Objects, NEW K \in Kme(Objects)
  PROVE  LET L == Mislead(K, me)
         IN  /\ L \in Kme(Objects)
             /\ L.opened = K.opened
             /\ L.ends = K.ends
             /\ L.served = K.served
             /\ L.misled = K.misled \cup {me}
BY DEF Mislead, Kme
LEMMA NothingMoves == ASSUME NEW me, NEW K \in Kme(Objects) PROVE Moves(K, K, me)
BY DEF Moves

\* OPEN_CONNECT connects the caller to a stream, and may fail all the same.
LEMMA ConnectOutcome ==
  ASSUME NEW me \in Objects, NEW K \in Kme(Objects), NEW k \in KeyIds, NEW L,
         L = Connect(K, me, k)
  PROVE  /\ Moves(K, L, me)
         /\ L.opened = K.opened \cup {k}
         /\ \A j \in KeyIds : me \in L.ends[j] <=> me \in K.ends[j] \/ j = k
         /\ L.misled = K.misled
<1>1. /\ L \in Kme(Objects)
      /\ L.opened = K.opened \cup {k}
      /\ L.ends = [K.ends EXCEPT ![k] = @ \cup {me}]
      /\ L.served = K.served
      /\ L.misled = K.misled
  BY ConnectFields
<1>2. K.ends \in [KeyIds -> SUBSET Objects]
  BY DEF Kme
<1>3. \A o \in Objects, j \in KeyIds : o \in L.ends[j] <=> o \in K.ends[j] \/ (o = me /\ j = k)
  BY <1>1, <1>2
<1> QED BY <1>1, <1>3 DEF Moves

LEMMA LostOutcome ==
  ASSUME NEW me \in Objects, NEW K \in Kme(Objects), NEW k \in KeyIds, NEW L,
         L = Mislead(Connect(K, me, k), me)
  PROVE  /\ Moves(K, L, me)
         /\ L.opened = K.opened \cup {k}
         /\ me \in L.misled
<1> DEFINE C == Connect(K, me, k)
<1>1. C \in Kme(Objects)
  BY ConnectFields
<1>2. Moves(K, C, me) /\ C.opened = K.opened \cup {k}
  BY ConnectOutcome
<1> HIDE DEF C
<1>3. /\ L \in Kme(Objects)
      /\ L.opened = C.opened /\ L.ends = C.ends /\ L.served = C.served
      /\ L.misled = C.misled \cup {me}
  BY <1>1, MisleadFields DEF C
<1> QED BY <1>2, <1>3 DEF Moves

\* A handle without a key ID opens a stream, or is left as it is: then at most
\* the KMEs know the stream, and of the failure.
LEMMA GetKeyIdOutcome ==
  ASSUME NEW me \in Objects, NEW h \in Handle, NEW K \in Kme(Objects),
         h.key_id = None, EndKnown(me, h, K), NEW r \in qkd_get_key_id(me, h, K)
  PROVE  /\ r.ret \in BOOLEAN
         /\ r.handle \in Handle
         /\ r.handle.key = h.key
         /\ Moves(K, r.kme, me)
         /\ EndKnown(me, r.handle, r.kme)
         /\ ~r.ret => r.handle = h
         /\ \/ ~r.ret /\ r.kme.opened = K.opened
            \/ \E k \in KeyIds \ K.opened :
                 /\ r.kme.opened = K.opened \cup {k}
                 /\ r.ret => r.handle.key_id = k
<1>1. h.is_connected = FALSE
  BY Etsi004Assumption DEF EndKnown, Handle
<1>2. PICK q \in OPEN_CONNECT(K, me, None) :
        r = IF q.id = None
            THEN Outcome(FALSE, h, q.kme)
            ELSE Outcome(TRUE, [h EXCEPT !.key_id = q.id, !.is_connected = TRUE], q.kme)
  BY <1>1 DEF qkd_get_key_id
<1>3. \/ q.id = None /\ q.kme = K
      \/ \E k \in KeyIds \ K.opened :
           \/ q.id = k /\ q.kme = Connect(K, me, k)
           \/ q.id = None /\ q.kme = Mislead(Connect(K, me, k), me) /\ OpenFails
  BY DEF OPEN_CONNECT, When
<1>4. CASE q.id = None /\ q.kme = K
  <2>1. r.ret = FALSE /\ r.handle = h /\ r.kme = K
    BY <1>2, <1>4 DEF Outcome
  <2> QED BY <2>1, NothingMoves
<1>5. ASSUME NEW k \in KeyIds \ K.opened, q.id = k, q.kme = Connect(K, me, k)
      PROVE  /\ r.ret = TRUE
             /\ r.handle \in Handle
             /\ r.handle.key = h.key
             /\ r.handle.key_id = k
             /\ Moves(K, r.kme, me)
             /\ EndKnown(me, r.handle, r.kme)
             /\ r.kme.opened = K.opened \cup {k}
  <2>1. /\ r.ret = TRUE
        /\ r.handle = [h EXCEPT !.key_id = k, !.is_connected = TRUE]
        /\ r.kme = q.kme
    BY <1>2, <1>5, Etsi004Assumption DEF Outcome
  <2>2. /\ r.handle \in Handle /\ r.handle.key = h.key
        /\ r.handle.key_id = k /\ r.handle.is_connected
    BY <2>1 DEF Handle, Chunks
  <2>3. /\ Moves(K, r.kme, me)
        /\ r.kme.opened = K.opened \cup {k}
        /\ \A j \in KeyIds : me \in r.kme.ends[j] <=> me \in K.ends[j] \/ j = k
        /\ r.kme.misled = K.misled
    BY <1>5, <2>1, ConnectOutcome
  <2>4. EndKnown(me, r.handle, r.kme)
    BY <1>1, <2>2, <2>3, Etsi004Assumption DEF EndKnown
  <2> QED BY <2>1, <2>2, <2>3, <2>4
<1>6. ASSUME NEW k \in KeyIds \ K.opened, q.id = None,
             q.kme = Mislead(Connect(K, me, k), me), OpenFails
      PROVE  /\ r.ret = FALSE
             /\ r.handle = h
             /\ Moves(K, r.kme, me)
             /\ EndKnown(me, r.handle, r.kme)
             /\ r.kme.opened = K.opened \cup {k}
  <2>1. r.ret = FALSE /\ r.handle = h /\ r.kme = q.kme
    BY <1>2, <1>6 DEF Outcome
  <2>2. /\ Moves(K, r.kme, me)
        /\ r.kme.opened = K.opened \cup {k}
        /\ me \in r.kme.misled
    BY <1>6, <2>1, LostOutcome
  <2>3. EndKnown(me, r.handle, r.kme)
    BY <1>1, <1>6, <2>1, <2>2 DEF EndKnown
  <2> QED BY <2>1, <2>2, <2>3
<1> QED BY <1>3, <1>4, <1>5, <1>6

\* Storing a received ID joins its stream, or leaves the handle unconnected
\* with that ID; no stream is opened.
LEMMA SetKeyIdOutcome ==
  ASSUME NEW me \in Objects, NEW h \in Handle, NEW K \in Kme(Objects),
         h.key_id = None, EndKnown(me, h, K), NEW v \in KeyIds,
         NEW r \in qkd_set_key_id(me, h, v, K)
  PROVE  /\ r.ret \in BOOLEAN
         /\ r.handle \in Handle
         /\ r.handle.key_id = v
         /\ r.handle.key = h.key
         /\ Moves(K, r.kme, me)
         /\ EndKnown(me, r.handle, r.kme)
         /\ r.kme.opened = K.opened
<1> DEFINE renamed == [h EXCEPT !.key_id = v]
           joined == [renamed EXCEPT !.is_connected = TRUE]
<1>1. /\ h.is_connected = FALSE
      /\ renamed \in Handle /\ renamed.key_id = v /\ renamed.key = h.key
      /\ renamed.is_connected = FALSE
      /\ joined \in Handle /\ joined.key_id = v /\ joined.key = h.key
      /\ joined.is_connected
  BY Etsi004Assumption DEF EndKnown, Handle, Chunks
<1>2. PICK q \in OPEN_CONNECT(K, me, v) :
        r = IF q.id = None THEN Outcome(FALSE, renamed, q.kme)
                           ELSE Outcome(TRUE, joined, q.kme)
  BY <1>1 DEF qkd_set_key_id
<1> HIDE DEF renamed, joined
<1>3. \/ q.id = None /\ q.kme = K
      \/ v \in K.opened /\ q.id = v /\ q.kme = Connect(K, me, v)
      \/ /\ v \in K.opened /\ q.id = None /\ OpenFails
         /\ q.kme = Mislead(Connect(K, me, v), me)
  BY Etsi004Assumption DEF OPEN_CONNECT, When
<1>4. CASE q.id = None /\ q.kme = K
  <2>1. r.ret = FALSE /\ r.handle = renamed /\ r.kme = K
    BY <1>2, <1>4 DEF Outcome
  <2>2. EndKnown(me, renamed, K)
    BY <1>1 DEF EndKnown
  <2> QED BY <1>1, <2>1, <2>2, NothingMoves
<1>5. CASE v \in K.opened /\ q.id = v /\ q.kme = Connect(K, me, v)
  <2>1. r.ret = TRUE /\ r.handle = joined /\ r.kme = q.kme
    BY <1>2, <1>5, Etsi004Assumption DEF Outcome
  <2>2. /\ Moves(K, r.kme, me)
        /\ r.kme.opened = K.opened
        /\ \A j \in KeyIds : me \in r.kme.ends[j] <=> me \in K.ends[j] \/ j = v
        /\ r.kme.misled = K.misled
    <3>1. /\ Moves(K, r.kme, me)
          /\ r.kme.opened = K.opened \cup {v}
          /\ \A j \in KeyIds : me \in r.kme.ends[j] <=> me \in K.ends[j] \/ j = v
          /\ r.kme.misled = K.misled
      BY <1>5, <2>1, ConnectOutcome
    <3> QED BY <1>5, <3>1
  <2>3. EndKnown(me, joined, r.kme)
    BY <1>1, <2>2, Etsi004Assumption DEF EndKnown
  <2> QED BY <1>1, <2>1, <2>2, <2>3
<1>6. CASE /\ v \in K.opened /\ q.id = None /\ OpenFails
           /\ q.kme = Mislead(Connect(K, me, v), me)
  <2>1. r.ret = FALSE /\ r.handle = renamed /\ r.kme = q.kme
    BY <1>2, <1>6 DEF Outcome
  <2>2. /\ Moves(K, r.kme, me)
        /\ r.kme.opened = K.opened
        /\ me \in r.kme.misled
    <3>1. /\ Moves(K, r.kme, me)
          /\ r.kme.opened = K.opened \cup {v}
          /\ me \in r.kme.misled
      BY <1>6, <2>1, LostOutcome
    <3> QED BY <1>6, <3>1
  <2>3. EndKnown(me, renamed, r.kme)
    BY <1>1, <1>6, <2>2 DEF EndKnown
  <2> QED BY <1>1, <2>1, <2>2, <2>3
<1> QED BY <1>3, <1>4, <1>5, <1>6

\* Taking a key changes the handle's key alone, and only to the key of its
\* stream or to part of that; the KMEs have given it to the caller then.
LEMMA GetKeyOutcome ==
  ASSUME NEW me \in Objects, NEW h \in Handle, NEW K \in Kme(Objects),
         EndKnown(me, h, K), KeyHeld(h), NEW r \in qkd_get_key(me, h, K)
  PROVE  /\ r.ret \in BOOLEAN
         /\ r.handle \in Handle
         /\ r.handle.key_id = h.key_id
         /\ Moves(K, r.kme, me)
         /\ EndKnown(me, r.handle, r.kme)
         /\ KeyHeld(r.handle)
         /\ r.kme.opened = K.opened
         /\ ~r.ret => r.handle = h
         /\ r.ret => /\ h.key_id \in KeyIds
                     /\ r.handle.key # None
                     /\ me \in r.kme.served[h.key_id]
<1>1. CASE h.key_id = None \/ ~h.is_connected
  <2>1. r.ret = FALSE /\ r.handle = h /\ r.kme = K
    BY <1>1 DEF qkd_get_key, Outcome
  <2> QED BY <2>1, NothingMoves
<1>2. CASE h.key_id # None /\ h.is_connected
  <2>0. h.key_id \in KeyIds
    BY <1>2 DEF Handle, Chunks
  <2>1. PICK q \in GET_KEY(K, me, h.key_id) :
          r = Outcome(q.ok, IF q.ok THEN [h EXCEPT !.key = q.buffer] ELSE h, q.kme)
    BY <1>2 DEF qkd_get_key
  <2>2. \/ /\ q.ok = TRUE
           /\ q.buffer = h.key_id \/ (q.buffer = Torn /\ ShortChunks)
           /\ q.kme = [K EXCEPT !.served[h.key_id] = @ \cup {me}]
        \/ q.ok = FALSE /\ q.kme = K
    <3> DEFINE served == [K EXCEPT !.served[h.key_id] = @ \cup {me}]
    <3>1. \/ \E b \in {h.key_id} \cup When(ShortChunks, {Torn}) :
               q = [ok |-> TRUE, buffer |-> b, kme |-> served]
          \/ q = [ok |-> FALSE, buffer |-> Torn, kme |-> K]
      BY DEF GET_KEY, When
    <3> HIDE DEF served
    <3>2. \/ q.ok = TRUE /\ q.buffer \in {h.key_id} \cup When(ShortChunks, {Torn}) /\ q.kme = served
          \/ q.ok = FALSE /\ q.kme = K
      BY <3>1
    <3> QED BY <3>2 DEF served, When
  <2>3. CASE q.ok = FALSE /\ q.kme = K
    <3>1. r.ret = FALSE /\ r.handle = h /\ r.kme = K
      BY <2>1, <2>3 DEF Outcome
    <3> QED BY <3>1, NothingMoves
  <2>4. CASE /\ q.ok = TRUE
             /\ q.buffer = h.key_id \/ (q.buffer = Torn /\ ShortChunks)
             /\ q.kme = [K EXCEPT !.served[h.key_id] = @ \cup {me}]
    <3>1. r.ret = TRUE /\ r.handle = [h EXCEPT !.key = q.buffer] /\ r.kme = q.kme
      BY <2>1, <2>4 DEF Outcome
    <3>2. /\ r.handle \in Handle /\ r.handle.key_id = h.key_id
          /\ r.handle.is_connected = h.is_connected /\ r.handle.key = q.buffer
      BY <2>0, <2>4, <3>1 DEF Handle, Keys
    <3>3. /\ Moves(K, r.kme, me)
          /\ r.kme.opened = K.opened /\ r.kme.ends = K.ends /\ r.kme.misled = K.misled
          /\ me \in r.kme.served[h.key_id]
      BY <2>0, <2>4, <3>1 DEF Kme, Moves
    <3>4. EndKnown(me, r.handle, r.kme)
      BY <3>2, <3>3, Etsi004Assumption DEF EndKnown
    <3>5. KeyHeld(r.handle) /\ r.handle.key # None
      BY <2>0, <2>4, <3>2, Etsi004Assumption DEF KeyHeld
    <3> QED BY <2>0, <3>1, <3>2, <3>3, <3>4, <3>5
  <2> QED BY <2>2, <2>3, <2>4
<1> QED BY <1>1, <1>2

\* Closing leaves no connection behind that a CLOSE could still end, unless
\* the CLOSE failed.
LEMMA CloseOutcome ==
  ASSUME NEW me \in Objects, NEW h \in Handle, NEW K \in Kme(Objects),
         EndKnown(me, h, K), NEW L \in qkd_close(me, h, K)
  PROVE  Moves(K, L, me) /\ EndKnown(me, None, L) /\ L.opened = K.opened
<1>1. CASE ~h.is_connected
  <2>1. L = K
    BY <1>1 DEF qkd_close
  <2>2. EndKnown(me, None, K)
    BY <1>1 DEF EndKnown
  <2> QED BY <2>1, <2>2, NothingMoves
<1>2. CASE h.is_connected
  <2>1. h.key_id \in KeyIds
    BY <1>2, Etsi004Assumption DEF EndKnown, Handle, Chunks
  <2>2. \/ L = [K EXCEPT !.ends[h.key_id] = @ \ {me}]
        \/ L = Mislead(K, me) /\ CloseFails
    BY <1>2 DEF qkd_close, CLOSE, When
  <2>3. CASE L = [K EXCEPT !.ends[h.key_id] = @ \ {me}]
    <3>1. /\ Moves(K, L, me)
          /\ L.opened = K.opened /\ L.misled = K.misled
          /\ \A k \in KeyIds : me \in L.ends[k] <=> me \in K.ends[k] /\ k # h.key_id
      BY <2>1, <2>3 DEF Kme, Moves
    <3> QED BY <3>1 DEF EndKnown
  <2>4. CASE L = Mislead(K, me) /\ CloseFails
    <3>1. Moves(K, L, me) /\ L.opened = K.opened /\ me \in L.misled
      <4>1. /\ L \in Kme(Objects)
            /\ L.opened = K.opened /\ L.ends = K.ends /\ L.served = K.served
            /\ L.misled = K.misled \cup {me}
        BY <2>4, MisleadFields
      <4> QED BY <4>1 DEF Moves
    <3> QED BY <2>4, <3>1 DEF EndKnown
  <2> QED BY <2>2, <2>3, <2>4
<1> QED BY <1>1, <1>2

-------------------------------------------------------------------------------
\* What a call of object o does, where it opens a stream or opens none.
Opens(x, k) ==
  /\ k \notin kme.opened
  /\ kme'.opened = kme.opened \cup {k}
  /\ openedFor' = [openedFor EXCEPT ![k] = x]
OpensNone ==
  /\ kme'.opened = kme.opened
  /\ openedFor' = openedFor

\* The history variable follows the KMEs.
LEMMA KmeBecomesNone ==
  ASSUME TypeOK, NEW x \in Exchanges, NEW L, KmeBecomes(x, L), L.opened = kme.opened
  PROVE  kme' = L /\ OpensNone
<1>1. openedFor \in [KeyIds -> Exchanges \cup {None}]
  BY DEF TypeOK
<1> QED BY <1>1 DEF KmeBecomes, OpensNone

LEMMA KmeBecomesOne ==
  ASSUME TypeOK, NEW x \in Exchanges, NEW L, KmeBecomes(x, L),
         NEW k \in KeyIds \ kme.opened, L.opened = kme.opened \cup {k}
  PROVE  kme' = L /\ Opens(x, k)
<1>1. openedFor \in [KeyIds -> Exchanges \cup {None}]
  BY DEF TypeOK
<1>2. \A j : j \in L.opened \ kme.opened <=> j = k
  OBVIOUS
<1>3. openedFor' = [openedFor EXCEPT ![k] = x]
  BY <1>1, <1>2 DEF KmeBecomes
<1> QED BY <1>3 DEF KmeBecomes, Opens

\* Whatever a call does, a stream stays its exchange's.
LEMMA StreamStep ==
  ASSUME TypeOK, Ledger, NEW x \in Exchanges,
         OpensNone \/ \E k \in KeyIds : Opens(x, k)
  PROVE  /\ openedFor' \in [KeyIds -> Exchanges \cup {None}]
         /\ Ledger'
         /\ \A k \in KeyIds : openedFor[k] # None => openedFor'[k] = openedFor[k]
         /\ \A y \in Exchanges \ {x}, k \in KeyIds : openedFor'[k] = y <=> openedFor[k] = y
<1>1. CASE OpensNone
  BY <1>1 DEF TypeOK, Ledger, OpensNone
<1>2. ASSUME NEW k \in KeyIds, Opens(x, k)
      PROVE  /\ openedFor' \in [KeyIds -> Exchanges \cup {None}]
             /\ Ledger'
             /\ \A j \in KeyIds : openedFor[j] # None => openedFor'[j] = openedFor[j]
             /\ \A y \in Exchanges \ {x}, j \in KeyIds : openedFor'[j] = y <=> openedFor[j] = y
  BY <1>2, Kex004Assumption DEF TypeOK, Ledger, Opens
<1> QED BY <1>1, <1>2

\* The parts of the invariant that say what the objects and the daemons hold.
ObjectsOwn ==
  \A o \in Objects : HandleOwn(o) /\ EndKnown(o, handle[o], kme) /\ SecretOwn(o)

\* A call replaces what its own object has, and keeps all of it.
LEMMA ObjectStep ==
  ASSUME TypeOK, Ledger, ObjectsOwn, NEW x \in Exchanges, NEW s \in Sides,
         OpensNone \/ \E k \in KeyIds : Opens(x, k),
         Moves(kme, kme', <<x, s>>),
         NEW p \in PcStates, pc' = [pc EXCEPT ![<<x, s>>] = p],
         NEW h \in Handle \cup {None}, handle' = [handle EXCEPT ![<<x, s>>] = h],
         h # None <=> p \in Live,
         NEW t \in BOOLEAN, key_retrieved' = [key_retrieved EXCEPT ![<<x, s>>] = t],
         t => h # None /\ h.key # None,
         h # None => KeyHeld(h) /\ (h.key_id # None => openedFor'[h.key_id] = x),
         EndKnown(<<x, s>>, h, kme'),
         \/ secret' = secret
         \/ \E v : KeyOf(x, v)' /\ secret' = [secret EXCEPT ![<<x, s>>] = v]
  PROVE  /\ ObjectsOwn'
         /\ handle' \in [Objects -> Handle \cup {None}]
         /\ key_retrieved' \in [Objects -> BOOLEAN]
         /\ secret' \in [Objects -> Keys \cup {None}]
<1> DEFINE o == <<x, s>>
<1>1. /\ openedFor' \in [KeyIds -> Exchanges \cup {None}]
      /\ \A k \in KeyIds : openedFor[k] # None => openedFor'[k] = openedFor[k]
  BY StreamStep
<1>2. o \in Objects /\ o[1] = x
  BY DEF Objects
<1>3. /\ handle \in [Objects -> Handle \cup {None}]
      /\ key_retrieved \in [Objects -> BOOLEAN]
      /\ secret \in [Objects -> Keys \cup {None}]
      /\ pc \in [Objects -> PcStates]
  BY DEF TypeOK, IkeTypeOK
<1>4. \A v : KeyOf(x, v)' => v \in Keys
  BY DEF KeyOf, Keys
<1>5. /\ handle' \in [Objects -> Handle \cup {None}]
      /\ key_retrieved' \in [Objects -> BOOLEAN]
      /\ secret' \in [Objects -> Keys \cup {None}]
  BY <1>2, <1>3, <1>4
<1>6. ASSUME NEW q \in Objects PROVE SecretOwn(q)'
  <2>1. CASE secret'[q] = secret[q]
    <3>1. q[1] \in Exchanges
      BY DEF Objects
    <3>2. \A v : KeyOf(q[1], v) => KeyOf(q[1], v)'
      BY <1>1, <3>1, Kex004Assumption DEF KeyOf
    <3>3. SecretOwn(q)
      BY DEF ObjectsOwn
    <3> QED BY <2>1, <3>2, <3>3 DEF SecretOwn
  <2>2. CASE secret'[q] # secret[q]
    <3>1. PICK v : KeyOf(x, v)' /\ secret' = [secret EXCEPT ![o] = v]
      BY <2>2
    <3>2. q = o /\ secret'[o] = v
      BY <1>2, <1>3, <2>2, <3>1
    <3> QED BY <1>2, <3>1, <3>2 DEF SecretOwn, KeyOf
  <2> QED BY <2>1, <2>2
<1>7. HandleOwn(o)' /\ EndKnown(o, handle[o], kme)'
  <2>1. handle'[o] = h /\ pc'[o] = p /\ key_retrieved'[o] = t
    BY <1>2, <1>3
  <2>2. HandleOwn(o)'
    BY <1>2, <2>1 DEF HandleOwn, KeyHeld
  <2>3. EndKnown(o, handle[o], kme)'
    BY <2>1 DEF EndKnown
  <2> QED BY <2>2, <2>3
<1>8. ASSUME NEW q \in Objects, q # o PROVE HandleOwn(q)' /\ EndKnown(q, handle[q], kme)'
  <2>1. handle'[q] = handle[q] /\ pc'[q] = pc[q] /\ key_retrieved'[q] = key_retrieved[q]
    BY <1>3, <1>8
  <2>2. HandleOwn(q) /\ EndKnown(q, handle[q], kme)
    BY DEF ObjectsOwn
  <2>3. q[1] # None
    BY Kex004Assumption DEF Objects
  <2>4. handle[q] # None => handle[q].key_id \in Chunks
    BY <1>3 DEF Handle
  <2>5. HandleOwn(q)'
    BY <1>1, <2>1, <2>2, <2>3, <2>4 DEF HandleOwn, KeyHeld, Chunks
  <2>6. EndKnown(q, handle[q], kme)'
    BY <1>8, <2>1, <2>2, <2>4 DEF EndKnown, Moves, Chunks
  <2> QED BY <2>5, <2>6
<1> QED BY <1>5, <1>6, <1>7, <1>8 DEF ObjectsOwn

\* A call leaves what the invariant says of another exchange alone.
LEMMA FlowAlone ==
  ASSUME TypeOK, NEW y \in Exchanges, Flow(y),
         \A s \in Sides : /\ pc'[<<y, s>>] = pc[<<y, s>>]
                          /\ handle'[<<y, s>>] = handle[<<y, s>>]
                          /\ secret'[<<y, s>>] = secret[<<y, s>>]
                          /\ Inbox(y, s)' = Inbox(y, s),
         \A k \in KeyIds : openedFor'[k] = y <=> openedFor[k] = y,
         \A o \in Objects, k \in KeyIds : o \in kme.served[k] => o \in kme'.served[k]
  PROVE  Flow(y)'
<1> USE DEF Sides
<1>1. Quiet(y)'
  BY DEF Flow, Quiet
<1>2. Roles(y)'
  BY DEF Flow, Roles
<1>3. OneStream(y)'
  BY DEF Flow, OneStream
<1>4. Answered(y)'
  <2>1. <<y, Responder>> \in Objects
    BY DEF Objects
  <2> QED BY <2>1 DEF Flow, Answered
<1> QED BY <1>1, <1>2, <1>3, <1>4 DEF Flow

-------------------------------------------------------------------------------
\* An object the daemon still has owns an open handle.
LEMMA LiveHandle ==
  ASSUME IndInv, NEW x \in Exchanges, NEW s \in Sides, pc[<<x, s>>] \in Live
  PROVE  /\ TypeOK
         /\ <<x, s>> \in Objects
         /\ kme \in Kme(Objects)
         /\ handle[<<x, s>>] \in Handle
         /\ EndKnown(<<x, s>>, handle[<<x, s>>], kme)
         /\ KeyHeld(handle[<<x, s>>])
         /\ key_retrieved[<<x, s>>] \in BOOLEAN
         /\ key_retrieved[<<x, s>>] => handle[<<x, s>>].key # None
<1>1. <<x, s>> \in Objects
  BY DEF Objects
<1>2. TypeOK /\ HandleOwn(<<x, s>>) /\ EndKnown(<<x, s>>, handle[<<x, s>>], kme)
  BY <1>1 DEF IndInv
<1> QED BY <1>1, <1>2 DEF HandleOwn, TypeOK

\* What get_public_key does: an object without a key ID opens a stream, or
\* fails; any other object sends the ID it has.
LEMMA GetPublicKeyEffect ==
  ASSUME IndInv, NEW x \in Exchanges, NEW s \in Sides, get_public_key(x, s)
  PROVE  \E ok \in BOOLEAN, h \in Handle, v \in Chunks :
           /\ IkeGetPublicKey(x, s, ok, v)
           /\ handle' = [handle EXCEPT ![<<x, s>>] = h]
           /\ UNCHANGED <<key_retrieved, shared_secret>>
           /\ Moves(kme, kme', <<x, s>>)
           /\ EndKnown(<<x, s>>, h, kme')
           /\ h.key = handle[<<x, s>>].key
           /\ ok => h.key_id # None /\ v = h.key_id
           /\ \/ OpensNone /\ h = handle[<<x, s>>]
              \/ /\ handle[<<x, s>>].key_id = None
                 /\ \E k \in KeyIds : Opens(x, k) /\ (h.key_id = k \/ (~ok /\ h.key_id = None))
<1> DEFINE o == <<x, s>>
<1>1. /\ TypeOK /\ o \in Objects /\ kme \in Kme(Objects) /\ handle[o] \in Handle
      /\ EndKnown(o, handle[o], kme)
  BY LiveHandle DEF get_public_key
<1>2. PICK r \in PublicKey(o, handle[o]) :
        /\ IkeGetPublicKey(x, s, r.out.ret, r.value)
        /\ handle' = [handle EXCEPT ![o] = r.out.handle]
        /\ KmeBecomes(x, r.out.kme)
        /\ UNCHANGED <<key_retrieved, shared_secret>>
  BY DEF get_public_key
<1>3. CASE handle[o].key_id = None
  <2>1. PICK q \in qkd_get_key_id(o, handle[o], kme) :
          r = [out |-> q, value |-> q.handle.key_id]
    BY <1>2, <1>3 DEF PublicKey, qkd_is_key_id_null
  <2>2. /\ q.ret \in BOOLEAN
        /\ q.handle \in Handle
        /\ q.handle.key = handle[o].key
        /\ Moves(kme, q.kme, o)
        /\ EndKnown(o, q.handle, q.kme)
        /\ ~q.ret => q.handle = handle[o]
        /\ \/ ~q.ret /\ q.kme.opened = kme.opened
           \/ \E k \in KeyIds \ kme.opened :
                /\ q.kme.opened = kme.opened \cup {k}
                /\ q.ret => q.handle.key_id = k
    BY <1>1, <1>3, <2>1, GetKeyIdOutcome
  <2>3. /\ IkeGetPublicKey(x, s, q.ret, q.handle.key_id)
        /\ handle' = [handle EXCEPT ![o] = q.handle]
        /\ KmeBecomes(x, q.kme)
        /\ kme' = q.kme
        /\ q.handle.key_id \in Chunks
    BY <1>2, <2>1, <2>2 DEF KmeBecomes, Handle
  <2>4. CASE ~q.ret /\ q.kme.opened = kme.opened
    <3>1. OpensNone /\ q.handle = handle[o]
      BY <1>1, <2>2, <2>3, <2>4, KmeBecomesNone
    <3> q.ret \in BOOLEAN /\ q.handle \in Handle /\ q.handle.key_id \in Chunks
      BY <2>2, <2>3
    <3> WITNESS q.ret \in BOOLEAN, q.handle \in Handle, q.handle.key_id \in Chunks
    <3> QED BY <1>2, <2>2, <2>3, <2>4, <3>1
  <2>5. ASSUME NEW k \in KeyIds \ kme.opened, q.kme.opened = kme.opened \cup {k},
               q.ret => q.handle.key_id = k
        PROVE  Opens(x, k) /\ (q.handle.key_id = k \/ (~q.ret /\ q.handle.key_id = None))
    <3>1. Opens(x, k)
      BY <1>1, <2>3, <2>5, KmeBecomesOne
    <3> QED BY <1>3, <2>2, <2>5, <3>1
  <2>6. CASE \E k \in KeyIds : Opens(x, k) /\ (q.handle.key_id = k \/ (~q.ret /\ q.handle.key_id = None))
    <3>1. q.ret => q.handle.key_id # None
      BY <2>6, Etsi004Assumption
    <3> q.ret \in BOOLEAN /\ q.handle \in Handle /\ q.handle.key_id \in Chunks
      BY <2>2, <2>3
    <3> WITNESS q.ret \in BOOLEAN, q.handle \in Handle, q.handle.key_id \in Chunks
    <3> QED BY <1>2, <1>3, <2>2, <2>3, <2>6, <3>1
  <2> QED BY <2>2, <2>4, <2>5, <2>6
<1>4. CASE handle[o].key_id # None
  <2>1. r = [out |-> Outcome(TRUE, handle[o], kme), value |-> handle[o].key_id]
    BY <1>2, <1>4 DEF PublicKey, qkd_is_key_id_null, qkd_get_stored_key_id
  <2>2. /\ r.out.ret = TRUE /\ r.out.handle = handle[o] /\ r.out.kme = kme
        /\ r.value = handle[o].key_id
    BY <2>1 DEF Outcome
  <2>3. kme' = kme /\ OpensNone
    BY <1>1, <1>2, <2>2, KmeBecomesNone
  <2>4. handle[o].key_id \in Chunks
    BY <1>1 DEF Handle
  <2> QED BY <1>1, <1>2, <1>4, <2>2, <2>3, <2>4, NothingMoves
<1> QED BY <1>3, <1>4

\* One call of the KMEs after the other.
LEMMA MovesTwice ==
  ASSUME NEW me, NEW K, NEW L, NEW M, Moves(K, L, me), Moves(L, M, me)
  PROVE  Moves(K, M, me)
BY DEF Moves

\* What set_public_key does: an object without a key ID joins the stream it was
\* sent, and takes its key; any other object takes the key of its own stream.
LEMMA SetPublicKeyEffect ==
  ASSUME IndInv, NEW x \in Exchanges, NEW s \in Sides, set_public_key(x, s)
  PROVE  \E m \in Inbox(x, s), ok \in BOOLEAN, h \in Handle :
           /\ IkeSetPublicKey(x, s, m.value, ok)
           /\ handle' = [handle EXCEPT ![<<x, s>>] = h]
           /\ key_retrieved' = [key_retrieved EXCEPT ![<<x, s>>] = @ \/ ok]
           /\ UNCHANGED shared_secret
           /\ OpensNone
           /\ Moves(kme, kme', <<x, s>>)
           /\ EndKnown(<<x, s>>, h, kme')
           /\ KeyHeld(h)
           /\ h.key_id = IF handle[<<x, s>>].key_id = None
                         THEN m.value ELSE handle[<<x, s>>].key_id
           /\ ok \/ key_retrieved[<<x, s>>] => h.key # None
           /\ ok /\ handle[<<x, s>>].key_id = None => <<x, s>> \in kme'.served[h.key_id]
<1> DEFINE o == <<x, s>>
<1>1. /\ TypeOK /\ o \in Objects /\ kme \in Kme(Objects) /\ handle[o] \in Handle
      /\ EndKnown(o, handle[o], kme) /\ KeyHeld(handle[o])
      /\ key_retrieved[o] => handle[o].key # None
  BY LiveHandle DEF set_public_key
<1>2. PICK m \in Inbox(x, s) :
        \E r \in PeerKey(o, handle[o], m.value, key_retrieved[o]) :
          /\ IkeSetPublicKey(x, s, m.value, r.ret)
          /\ handle' = [handle EXCEPT ![o] = r.handle]
          /\ key_retrieved' = [key_retrieved EXCEPT ![o] = @ \/ r.ret]
          /\ KmeBecomes(x, r.kme)
          /\ UNCHANGED shared_secret
  BY DEF set_public_key
<1>3. PICK r \in PeerKey(o, handle[o], m.value, key_retrieved[o]) :
        /\ IkeSetPublicKey(x, s, m.value, r.ret)
        /\ handle' = [handle EXCEPT ![o] = r.handle]
        /\ key_retrieved' = [key_retrieved EXCEPT ![o] = @ \/ r.ret]
        /\ KmeBecomes(x, r.kme)
        /\ UNCHANGED shared_secret
  BY <1>2
<1>4. m.value \in KeyIds
  BY DEF IndInv, Flow, OneStream
<1>5. /\ r.ret \in BOOLEAN
      /\ r.handle \in Handle
      /\ r.kme.opened = kme.opened
      /\ Moves(kme, r.kme, o)
      /\ EndKnown(o, r.handle, r.kme)
      /\ KeyHeld(r.handle)
      /\ r.handle.key_id = IF handle[o].key_id = None THEN m.value ELSE handle[o].key_id
      /\ r.ret \/ key_retrieved[o] => r.handle.key # None
      /\ r.ret /\ handle[o].key_id = None => o \in r.kme.served[r.handle.key_id]
  <2>1. CASE handle[o].key_id = None
    <3>0. handle[o].key = None /\ ~key_retrieved[o]
      BY <1>1, <2>1 DEF KeyHeld
    <3>1. PICK q \in qkd_set_key_id(o, handle[o], m.value, kme) :
            r \in IF q.ret THEN qkd_get_key(o, q.handle, q.kme) ELSE {q}
      BY <1>3, <1>4, <2>1 DEF PeerKey, JoinStream, qkd_is_key_id_null
    <3>2. /\ q.ret \in BOOLEAN
          /\ q.handle \in Handle
          /\ q.handle.key_id = m.value
          /\ q.handle.key = None
          /\ Moves(kme, q.kme, o)
          /\ EndKnown(o, q.handle, q.kme)
          /\ q.kme.opened = kme.opened
      BY <1>1, <1>4, <2>1, <3>0, <3>1, SetKeyIdOutcome
    <3>3. KeyHeld(q.handle)
      BY <3>2, Etsi004Assumption DEF KeyHeld
    <3>4. CASE ~q.ret
      BY <2>1, <3>0, <3>1, <3>2, <3>3, <3>4
    <3>5. CASE q.ret
      <4>1. q.kme \in Kme(Objects)
        BY <3>2 DEF Moves
      <4>2. r \in qkd_get_key(o, q.handle, q.kme)
        BY <3>1, <3>5
      <4>3. /\ r.ret \in BOOLEAN
            /\ r.handle \in Handle
            /\ r.handle.key_id = m.value
            /\ Moves(q.kme, r.kme, o)
            /\ EndKnown(o, r.handle, r.kme)
            /\ KeyHeld(r.handle)
            /\ r.kme.opened = kme.opened
            /\ r.ret => r.handle.key # None /\ o \in r.kme.served[m.value]
        BY <1>1, <3>2, <3>3, <4>1, <4>2, GetKeyOutcome
      <4>4. Moves(kme, r.kme, o)
        BY <3>2, <4>3, MovesTwice
      <4> QED BY <2>1, <3>0, <4>3, <4>4
    <3> QED BY <3>2, <3>4, <3>5
  <2>2. CASE handle[o].key_id # None /\ key_retrieved[o]
    <3>1. r = Outcome(TRUE, handle[o], kme)
      BY <1>3, <2>2 DEF PeerKey, qkd_is_key_id_null
    <3>2. r.ret = TRUE /\ r.handle = handle[o] /\ r.kme = kme
      BY <3>1 DEF Outcome
    <3> QED BY <1>1, <2>2, <3>2, NothingMoves
  <2>3. CASE handle[o].key_id # None /\ ~key_retrieved[o]
    <3>1. r \in qkd_get_key(o, handle[o], kme)
      BY <1>3, <2>3 DEF PeerKey, qkd_is_key_id_null
    <3>2. /\ r.ret \in BOOLEAN
          /\ r.handle \in Handle
          /\ r.handle.key_id = handle[o].key_id
          /\ Moves(kme, r.kme, o)
          /\ EndKnown(o, r.handle, r.kme)
          /\ KeyHeld(r.handle)
          /\ r.kme.opened = kme.opened
          /\ r.ret => r.handle.key # None
      BY <1>1, <3>1, GetKeyOutcome
    <3> QED BY <2>3, <3>2
  <2> QED BY <2>1, <2>2, <2>3
<1>6. kme' = r.kme /\ OpensNone
  BY <1>1, <1>3, <1>5, KmeBecomesNone
<1> QED BY <1>3, <1>5, <1>6

\* What get_shared_secret does: the daemon gets the key in the handle, which is
\* what it was or is taken from the stream now.
LEMMA GetSharedSecretEffect ==
  ASSUME IndInv, NEW x \in Exchanges, NEW s \in Sides, get_shared_secret(x, s)
  PROVE  \E ok \in BOOLEAN, h \in Handle, t \in BOOLEAN :
           /\ IkeGetSharedSecret(x, s, ok, h.key)
           /\ handle' = [handle EXCEPT ![<<x, s>>] = h]
           /\ key_retrieved' = [key_retrieved EXCEPT ![<<x, s>>] = t]
           /\ shared_secret' \in [Objects -> Keys \cup {None}]
           /\ OpensNone
           /\ Moves(kme, kme', <<x, s>>)
           /\ EndKnown(<<x, s>>, h, kme')
           /\ KeyHeld(h)
           /\ h.key_id = handle[<<x, s>>].key_id
           /\ ok \/ t => h.key # None
<1> DEFINE o == <<x, s>>
<1>1. /\ TypeOK /\ o \in Objects /\ kme \in Kme(Objects) /\ handle[o] \in Handle
      /\ EndKnown(o, handle[o], kme) /\ KeyHeld(handle[o])
      /\ key_retrieved[o] \in BOOLEAN
      /\ key_retrieved[o] => handle[o].key # None
  BY LiveHandle DEF get_shared_secret
<1>2. PICK r \in Retrieval(o, handle[o], key_retrieved[o], s) :
        LET key == qkd_get_shared_secret(r.handle)
            ok  == r.ret /\ key.ret
        IN  /\ IkeGetSharedSecret(x, s, ok, key.value)
            /\ handle' = [handle EXCEPT ![o] = r.handle]
            /\ KmeBecomes(x, r.kme)
            /\ key_retrieved' = [key_retrieved EXCEPT ![o] =
                                   @ \/ (is_etsi_004_mode(s) /\ r.ret)]
            /\ shared_secret' = [shared_secret EXCEPT ![o] = IF ok THEN key.value ELSE @]
  BY DEF get_shared_secret
<1> DEFINE ok == r.ret /\ r.handle.key # None
           t == key_retrieved[o] \/ (s \in Env004 /\ r.ret)
<1>3. /\ IkeGetSharedSecret(x, s, ok, r.handle.key)
      /\ handle' = [handle EXCEPT ![o] = r.handle]
      /\ KmeBecomes(x, r.kme)
      /\ key_retrieved' = [key_retrieved EXCEPT ![o] = t]
      /\ shared_secret' = [shared_secret EXCEPT ![o] = IF ok THEN r.handle.key ELSE @]
  BY <1>1, <1>2 DEF qkd_get_shared_secret, is_etsi_004_mode, TypeOK
<1>4. /\ r.ret \in BOOLEAN
      /\ r.handle \in Handle
      /\ r.kme.opened = kme.opened
      /\ Moves(kme, r.kme, o)
      /\ EndKnown(o, r.handle, r.kme)
      /\ KeyHeld(r.handle)
      /\ r.handle.key_id = handle[o].key_id
      /\ t => r.handle.key # None
  <2>1. CASE r \in qkd_get_key(o, handle[o], kme)
    <3>1. /\ r.ret \in BOOLEAN
          /\ r.handle \in Handle
          /\ r.handle.key_id = handle[o].key_id
          /\ Moves(kme, r.kme, o)
          /\ EndKnown(o, r.handle, r.kme)
          /\ KeyHeld(r.handle)
          /\ r.kme.opened = kme.opened
          /\ ~r.ret => r.handle = handle[o]
          /\ r.ret => r.handle.key # None
      BY <1>1, <2>1, GetKeyOutcome
    <3> QED BY <1>1, <3>1
  <2>2. CASE r = Outcome(TRUE, handle[o], kme) /\ (s \in Env004 => key_retrieved[o])
    <3>1. r.ret = TRUE /\ r.handle = handle[o] /\ r.kme = kme
      BY <2>2 DEF Outcome
    <3> QED BY <1>1, <2>2, <3>1, NothingMoves
  <2> QED BY <1>2, <2>1, <2>2 DEF Retrieval, is_etsi_004_mode
<1>5. kme' = r.kme /\ OpensNone
  BY <1>1, <1>3, <1>4, KmeBecomesNone
<1>6. shared_secret' \in [Objects -> Keys \cup {None}]
  <2>1. r.handle.key \in Keys \cup {None}
    BY <1>4 DEF Handle
  <2> QED BY <1>1, <1>3, <2>1 DEF TypeOK
<1>7. ok \in BOOLEAN /\ t \in BOOLEAN
  BY <1>1
<1> HIDE DEF t
<1> QED BY <1>3, <1>4, <1>5, <1>6, <1>7

-------------------------------------------------------------------------------
\* What the invariant says where an object is and what it has.
LEMMA IndInvParts ==
  ASSUME IndInv, NEW x \in Exchanges, NEW s \in Sides
  PROVE  /\ TypeOK /\ Ledger /\ ObjectsOwn
         /\ Quiet(x) /\ Roles(x) /\ OneStream(x) /\ Answered(x)
         /\ <<x, s>> \in Objects /\ <<x, Initiator>> \in Objects /\ <<x, Responder>> \in Objects
         /\ <<x, Initiator>> # <<x, Responder>>
         /\ HandleOwn(<<x, s>>)
BY DEF IndInv, ObjectsOwn, Flow, Objects, Sides, Initiator, Responder

\* Building a payload keeps the invariant: what is sent is the ID of the one
\* stream of the exchange, which only an initiator opens.
LEMMA IndInvGetPublicKey ==
  ASSUME IndInv, NEW x \in Exchanges, NEW s \in Sides, get_public_key(x, s)
  PROVE  IndInv'
<1> DEFINE o == <<x, s>>
           i == <<x, Initiator>>
           r == <<x, Responder>>
<1>1. PICK ok \in BOOLEAN, h \in Handle, v \in Chunks :
        /\ IkeGetPublicKey(x, s, ok, v)
        /\ handle' = [handle EXCEPT ![o] = h]
        /\ UNCHANGED <<key_retrieved, shared_secret>>
        /\ Moves(kme, kme', o)
        /\ EndKnown(o, h, kme')
        /\ h.key = handle[o].key
        /\ ok => h.key_id # None /\ v = h.key_id
        /\ \/ OpensNone /\ h = handle[o]
           \/ /\ handle[o].key_id = None
              /\ \E k \in KeyIds : Opens(x, k) /\ (h.key_id = k \/ (~ok /\ h.key_id = None))
  BY GetPublicKeyEffect
<1> DEFINE p == IF ok THEN "sent" ELSE "failed"
           m == [exchange |-> x, from |-> s, value |-> v]
<1>2. /\ TypeOK /\ Ledger /\ ObjectsOwn
      /\ Quiet(x) /\ Roles(x) /\ OneStream(x) /\ Answered(x)
      /\ o \in Objects /\ i \in Objects /\ r \in Objects /\ i # r
      /\ HandleOwn(o)
  BY IndInvParts
<1>3. handle[o] \in Handle /\ KeyHeld(handle[o]) /\ (key_retrieved[o] => handle[o].key # None)
  BY LiveHandle DEF get_public_key
<1>4. /\ \/ s = Initiator /\ pc[i] \in {"created", "sent"}
         \/ s = Responder /\ pc[r] = "peer_set"
      /\ pc' = [pc EXCEPT ![o] = p]
      /\ net' = IF ok THEN net \cup {m} ELSE net
      /\ gets' \in [Exchanges -> 0..MaxGets]
      /\ secret' = secret
  BY <1>1, <1>2, IkeAssumption
  DEF IkeGetPublicKey, IkeBuildRequest, IkeBuildResponse, TypeOK, IkeTypeOK
<1>5. /\ p \in PcStates /\ p \in Live
      /\ h # None
  BY Etsi004Assumption DEF PcStates, Live
<1>6. OpensNone \/ \E k \in KeyIds : Opens(x, k)
  BY <1>1
<1>7. /\ openedFor' \in [KeyIds -> Exchanges \cup {None}]
      /\ Ledger'
      /\ \A k \in KeyIds : openedFor[k] # None => openedFor'[k] = openedFor[k]
      /\ \A y \in Exchanges \ {x}, k \in KeyIds : openedFor'[k] = y <=> openedFor[k] = y
  BY <1>2, <1>6, StreamStep
<1>8. KeyHeld(h) /\ (h.key_id # None => openedFor'[h.key_id] = x)
  <2>1. CASE h = handle[o]
    <3>1. handle[o].key_id # None => handle[o].key_id \in KeyIds
      BY <1>3 DEF Handle, Chunks
    <3>2. handle[o].key_id # None => openedFor[handle[o].key_id] = x
      BY <1>2, <1>3, Etsi004Assumption DEF HandleOwn
    <3> QED BY <1>3, <1>7, <2>1, <3>1, <3>2, Kex004Assumption
  <2>2. ASSUME NEW k \in KeyIds, handle[o].key_id = None, Opens(x, k),
               h.key_id = k \/ h.key_id = None
        PROVE  KeyHeld(h) /\ (h.key_id # None => openedFor'[h.key_id] = x)
    <3>1. h.key = None
      BY <1>1, <1>3, <2>2 DEF KeyHeld
    <3>2. openedFor'[k] = x
      BY <1>2, <2>2 DEF Opens, TypeOK
    <3> QED BY <2>2, <3>1, <3>2, Etsi004Assumption DEF KeyHeld
  <2> QED BY <1>1, <2>1, <2>2
<1>9. key_retrieved[o] \in BOOLEAN /\ key_retrieved' = [key_retrieved EXCEPT ![o] = key_retrieved[o]]
  BY <1>1, <1>2 DEF TypeOK
<1>10. /\ ObjectsOwn'
       /\ handle' \in [Objects -> Handle \cup {None}]
       /\ key_retrieved' \in [Objects -> BOOLEAN]
       /\ secret' \in [Objects -> Keys \cup {None}]
  <2> HIDE DEF p
  <2> QED BY <1>1, <1>2, <1>3, <1>4, <1>5, <1>6, <1>8, <1>9, ObjectStep
<1>11. ok => v \in KeyIds /\ openedFor'[v] = x
  BY <1>1, <1>8 DEF Handle, Chunks
<1>12. TypeOK'
  <2>1. pc' \in [Objects -> PcStates]
    BY <1>2, <1>4, <1>5 DEF TypeOK, IkeTypeOK
  <2>2. net' \subseteq Payloads(Chunks)
    BY <1>2, <1>4, <1>11 DEF TypeOK, IkeTypeOK, Payloads, Chunks
  <2>3. kme' \in Kme(Objects) /\ shared_secret' = shared_secret
    BY <1>1 DEF Moves
  <2> QED BY <1>2, <1>4, <1>7, <1>10, <2>1, <2>2, <2>3 DEF TypeOK, IkeTypeOK
<1>13. /\ Inbox(x, Peer(s))' = IF ok THEN Inbox(x, Peer(s)) \cup {m} ELSE Inbox(x, Peer(s))
       /\ Inbox(x, s)' = Inbox(x, s)
       /\ \A y \in Exchanges \ {x}, t \in Sides : Inbox(y, t)' = Inbox(y, t)
  <2>1. CASE ok
    <3>1. net' = net \cup {m}
      BY <1>4, <2>1
    <3> QED BY <2>1, <3>1, InboxStep
  <2>2. CASE ~ok
    BY <1>4, <2>2 DEF Inbox
  <2> QED BY <2>1, <2>2
<1>14. /\ \A q \in Objects : q # o => pc'[q] = pc[q] /\ handle'[q] = handle[q]
       /\ pc'[o] = p /\ handle'[o] = h
  BY <1>1, <1>2, <1>4 DEF TypeOK, IkeTypeOK
<1>15. \A k \in KeyIds : r \in kme.served[k] => r \in kme'.served[k]
  BY <1>1, <1>2 DEF Moves
<1>16. m.value = v
  OBVIOUS
<1> HIDE DEF m
<1>17. ASSUME s = Initiator PROVE Flow(x)'
  <2>1. /\ Inbox(x, Responder)' = IF ok THEN Inbox(x, Responder) \cup {m} ELSE Inbox(x, Responder)
        /\ Inbox(x, Initiator)' = Inbox(x, Initiator)
    BY <1>13, <1>17 DEF Peer
  <2>2. pc'[i] \in {"sent", "failed"} /\ pc'[r] = pc[r] /\ handle'[r] = handle[r] /\ handle'[i] = h
    BY <1>2, <1>14, <1>17
  <2>3. Quiet(x)' /\ Roles(x)'
    BY <1>1, <1>2, <1>14, <1>17, <2>2 DEF Quiet, Roles, Sides
  <2>4. CASE OpensNone
    <3>1. openedFor' = openedFor
      BY <2>4 DEF OpensNone
    <3>2. OneStream(x)'
      BY <1>2, <1>11, <1>16, <2>1, <3>1 DEF OneStream, Sides
    <3>3. Answered(x)'
      BY <1>2, <1>4, <1>15, <2>1, <2>2, <3>1 DEF Answered
    <3> QED BY <2>3, <3>2, <3>3 DEF Flow
  <2>5. ASSUME NEW k \in KeyIds, Opens(x, k), handle[o].key_id = None PROVE Flow(x)'
    <3>1. pc[i] = "created"
      BY <1>2, <1>4, <1>17, <2>5 DEF Roles, Initiator, Responder
    <3>2. /\ \A j \in KeyIds : openedFor[j] # x
          /\ pc[r] = "absent" /\ Inbox(x, Initiator) = {} /\ Inbox(x, Responder) = {}
      BY <1>2, <3>1 DEF Quiet, Sides
    <3>3. OneStream(x)'
      <4>1. \A j \in KeyIds : openedFor'[j] = x => j = k
        BY <1>2, <2>5, <3>2 DEF Opens, TypeOK
      <4> QED BY <1>11, <1>16, <2>1, <3>2, <4>1 DEF OneStream, Sides
    <3>4. Answered(x)'
      BY <1>2, <1>4, <2>1, <2>2, <3>2 DEF Answered
    <3> QED BY <2>3, <3>3, <3>4 DEF Flow
  <2> QED BY <1>1, <2>4, <2>5
<1>18. ASSUME s = Responder PROVE Flow(x)'
  <2>1. /\ Inbox(x, Initiator)' = IF ok THEN Inbox(x, Initiator) \cup {m} ELSE Inbox(x, Initiator)
        /\ Inbox(x, Responder)' = Inbox(x, Responder)
    BY <1>13, <1>18 DEF Peer, Initiator, Responder
  <2>2. pc'[r] \in {"sent", "failed"} /\ pc'[i] = pc[i] /\ handle'[i] = handle[i] /\ handle'[r] = h
    BY <1>2, <1>14, <1>18
  <2>3. pc[r] = "peer_set"
    BY <1>4, <1>18 DEF Initiator, Responder
  <2>4. openedFor' = openedFor
    BY <1>1, <1>2, <1>18, <2>3 DEF Roles, OpensNone
  <2>5. Quiet(x)' /\ Roles(x)'
    BY <1>2, <2>2, <2>3 DEF Quiet, Roles, Sides
  <2>6. OneStream(x)'
    BY <1>2, <1>11, <1>16, <2>1, <2>4 DEF OneStream, Sides
  <2>7. Answered(x)'
    BY <1>2, <1>4, <1>15, <2>1, <2>2, <2>3, <2>4 DEF Answered
  <2> QED BY <2>5, <2>6, <2>7 DEF Flow
<1>19. Flow(x)'
  BY <1>17, <1>18 DEF Sides
<1>20. ASSUME NEW y \in Exchanges \ {x} PROVE Flow(y)'
  <2>1. \A t \in Sides : <<y, t>> \in Objects /\ <<y, t>> # o
    BY DEF Objects
  <2>2. Flow(y) /\ \A q \in Objects, k \in KeyIds : q \in kme.served[k] => q \in kme'.served[k]
    BY <1>1 DEF IndInv, Moves
  <2> QED BY <1>2, <1>4, <1>7, <1>13, <1>14, <2>1, <2>2, FlowAlone
<1> QED BY <1>7, <1>10, <1>12, <1>19, <1>20 DEF IndInv, ObjectsOwn

\* A call that opens no stream and sends nothing keeps the invariant when it
\* keeps what the invariant says of its own exchange.
LEMMA SilentCall ==
  ASSUME IndInv, NEW x \in Exchanges, NEW s \in Sides,
         OpensNone,
         Moves(kme, kme', <<x, s>>),
         NEW p \in PcStates, pc' = [pc EXCEPT ![<<x, s>>] = p],
         NEW h \in Handle \cup {None}, handle' = [handle EXCEPT ![<<x, s>>] = h],
         h # None <=> p \in Live,
         NEW t \in BOOLEAN, key_retrieved' = [key_retrieved EXCEPT ![<<x, s>>] = t],
         t => h # None /\ h.key # None,
         h # None => KeyHeld(h) /\ (h.key_id # None => openedFor[h.key_id] = x),
         EndKnown(<<x, s>>, h, kme'),
         \/ secret' = secret
         \/ \E v : KeyOf(x, v) /\ secret' = [secret EXCEPT ![<<x, s>>] = v],
         shared_secret' \in [Objects -> Keys \cup {None}],
         UNCHANGED <<gets, net>>,
         Flow(x)'
  PROVE  IndInv'
<1> DEFINE o == <<x, s>>
<1>1. TypeOK /\ Ledger /\ ObjectsOwn /\ o \in Objects
  BY IndInvParts
<1>2. openedFor' = openedFor /\ net' = net /\ gets' = gets
  BY DEF OpensNone
<1>3. \A y \in Exchanges, u \in Sides : Inbox(y, u)' = Inbox(y, u)
  BY <1>2 DEF Inbox
<1>4. Ledger' /\ openedFor' \in [KeyIds -> Exchanges \cup {None}]
  BY <1>1, StreamStep
<1>5. /\ ObjectsOwn'
      /\ handle' \in [Objects -> Handle \cup {None}]
      /\ key_retrieved' \in [Objects -> BOOLEAN]
      /\ secret' \in [Objects -> Keys \cup {None}]
  <2>1. h # None => KeyHeld(h) /\ (h.key_id # None => openedFor'[h.key_id] = x)
    BY <1>2
  <2>2. \A v : KeyOf(x, v)' <=> KeyOf(x, v)
    BY <1>2 DEF KeyOf
  <2>3. \/ secret' = secret
        \/ \E v : KeyOf(x, v)' /\ secret' = [secret EXCEPT ![o] = v]
    BY <2>2
  <2> QED BY <1>1, <2>1, <2>3, ObjectStep
<1>6. TypeOK'
  <2>1. pc' \in [Objects -> PcStates] /\ kme' \in Kme(Objects)
    BY <1>1 DEF TypeOK, IkeTypeOK, Moves
  <2> QED BY <1>1, <1>2, <1>4, <1>5, <2>1 DEF TypeOK, IkeTypeOK
<1>7. ASSUME NEW y \in Exchanges \ {x} PROVE Flow(y)'
  <2>1. \A u \in Sides : <<y, u>> \in Objects /\ <<y, u>> # o
    BY DEF Objects
  <2>2. \A q \in Objects : q # o => /\ pc'[q] = pc[q]
                                    /\ handle'[q] = handle[q]
                                    /\ secret'[q] = secret[q]
    BY <1>1 DEF TypeOK, IkeTypeOK
  <2>3. Flow(y) /\ \A q \in Objects, k \in KeyIds : q \in kme.served[k] => q \in kme'.served[k]
    BY DEF IndInv, Moves
  <2>4. \A k \in KeyIds : openedFor'[k] = y <=> openedFor[k] = y
    BY <1>2
  <2> QED BY <1>1, <1>3, <2>1, <2>2, <2>3, <2>4, FlowAlone
<1> QED BY <1>4, <1>5, <1>6, <1>7 DEF IndInv, ObjectsOwn

\* Accepting a payload keeps the invariant: the responder joins the stream of
\* its own exchange, and is given its key before it counts as having accepted.
LEMMA IndInvSetPublicKey ==
  ASSUME IndInv, NEW x \in Exchanges, NEW s \in Sides, set_public_key(x, s)
  PROVE  IndInv'
<1> DEFINE o == <<x, s>>
           i == <<x, Initiator>>
           r == <<x, Responder>>
<1>1. PICK m \in Inbox(x, s), ok \in BOOLEAN, h \in Handle :
        /\ IkeSetPublicKey(x, s, m.value, ok)
        /\ handle' = [handle EXCEPT ![o] = h]
        /\ key_retrieved' = [key_retrieved EXCEPT ![o] = @ \/ ok]
        /\ UNCHANGED shared_secret
        /\ OpensNone
        /\ Moves(kme, kme', o)
        /\ EndKnown(o, h, kme')
        /\ KeyHeld(h)
        /\ h.key_id = IF handle[o].key_id = None THEN m.value ELSE handle[o].key_id
        /\ ok \/ key_retrieved[o] => h.key # None
        /\ ok /\ handle[o].key_id = None => o \in kme'.served[h.key_id]
  BY SetPublicKeyEffect
<1> DEFINE p == IF ok THEN "peer_set" ELSE "failed"
           t == key_retrieved[o] \/ ok
<1>2. /\ TypeOK /\ Ledger /\ ObjectsOwn
      /\ Quiet(x) /\ Roles(x) /\ OneStream(x) /\ Answered(x)
      /\ o \in Objects /\ i \in Objects /\ r \in Objects /\ i # r
      /\ HandleOwn(o)
  BY IndInvParts
<1>3. handle[o] \in Handle /\ key_retrieved[o] \in BOOLEAN
  BY LiveHandle DEF set_public_key
<1>4. /\ pc[o] = IF s = Initiator THEN "sent" ELSE "created"
      /\ pc' = [pc EXCEPT ![o] = p]
      /\ UNCHANGED <<gets, net, secret>>
  BY <1>1 DEF IkeSetPublicKey
<1>5. p \in PcStates /\ p \in Live /\ h # None /\ p \in {"peer_set", "failed"}
  BY Etsi004Assumption DEF PcStates, Live
<1>6. openedFor' = openedFor /\ \A y \in Exchanges, u \in Sides : Inbox(y, u)' = Inbox(y, u)
  BY <1>1, <1>4 DEF OpensNone, Inbox
<1>7. m.value \in KeyIds /\ openedFor[m.value] = x
  BY <1>2 DEF OneStream
<1>8. h.key_id \in KeyIds /\ openedFor[h.key_id] = x
  <2>1. handle[o].key_id # None => openedFor[handle[o].key_id] = x
    BY <1>2, <1>3, Etsi004Assumption DEF HandleOwn
  <2> QED BY <1>1, <1>3, <1>7, <2>1 DEF Handle, Chunks
<1>9. /\ \A q \in Objects : q # o => pc'[q] = pc[q] /\ handle'[q] = handle[q]
      /\ pc'[o] = p /\ handle'[o] = h
  BY <1>1, <1>2, <1>4 DEF TypeOK, IkeTypeOK
<1>10. \A k \in KeyIds : r \in kme.served[k] => r \in kme'.served[k]
  BY <1>1, <1>2 DEF Moves
<1> HIDE DEF p
<1>11. Quiet(x)' /\ Roles(x)' /\ OneStream(x)'
  <2>1. Quiet(x)'
    BY <1>1, <1>2, <1>4, <1>5, <1>6, <1>9 DEF Quiet, Sides
  <2>2. Roles(x)'
    BY <1>2, <1>5, <1>8, <1>9, Etsi004Assumption DEF Roles, Sides
  <2>3. OneStream(x)'
    BY <1>2, <1>6 DEF OneStream
  <2> QED BY <2>1, <2>2, <2>3
<1>12. Answered(x)'
  <2>1. CASE s = Initiator
    BY <1>1, <1>2, <1>4, <1>6, <1>9, <1>10, <2>1 DEF Answered, Sides
  <2>2. CASE s = Responder
    <3>1. handle[r].key_id = None
      BY <1>2, <1>4, <2>2 DEF Roles, Sides, Initiator, Responder
    <3>2. ok => \A k \in KeyIds : openedFor[k] = x => r \in kme'.served[k]
      BY <1>1, <1>2, <1>8, <2>2, <3>1 DEF OneStream
    <3>3. pc'[r] = "peer_set" => ok
      BY <1>9, <2>2 DEF p
    <3> QED BY <1>2, <1>4, <1>6, <1>9, <1>10, <2>2, <3>2, <3>3 DEF Answered, Sides
  <2> QED BY <2>1, <2>2 DEF Sides
<1>13. Flow(x)'
  BY <1>11, <1>12 DEF Flow
<1>14. t \in BOOLEAN /\ (t => h.key # None) /\ key_retrieved' = [key_retrieved EXCEPT ![o] = t]
  BY <1>1, <1>3
<1>15. shared_secret' \in [Objects -> Keys \cup {None}]
  BY <1>1, <1>2 DEF TypeOK
<1> HIDE DEF t
<1> QED BY <1>1, <1>4, <1>5, <1>8, <1>13, <1>14, <1>15, SilentCall

\* Handing the secret over keeps the invariant: the key in the handle is the
\* stream's of this exchange.
LEMMA IndInvGetSharedSecret ==
  ASSUME IndInv, NEW x \in Exchanges, NEW s \in Sides, get_shared_secret(x, s)
  PROVE  IndInv'
<1> DEFINE o == <<x, s>>
           i == <<x, Initiator>>
           r == <<x, Responder>>
<1>1. PICK ok \in BOOLEAN, h \in Handle, t \in BOOLEAN :
        /\ IkeGetSharedSecret(x, s, ok, h.key)
        /\ handle' = [handle EXCEPT ![o] = h]
        /\ key_retrieved' = [key_retrieved EXCEPT ![o] = t]
        /\ shared_secret' \in [Objects -> Keys \cup {None}]
        /\ OpensNone
        /\ Moves(kme, kme', o)
        /\ EndKnown(o, h, kme')
        /\ KeyHeld(h)
        /\ h.key_id = handle[o].key_id
        /\ ok \/ t => h.key # None
  BY GetSharedSecretEffect
<1> DEFINE p == IF ok THEN "keyed" ELSE "failed"
<1>2. /\ TypeOK /\ Ledger /\ ObjectsOwn
      /\ Quiet(x) /\ Roles(x) /\ OneStream(x) /\ Answered(x)
      /\ o \in Objects /\ i \in Objects /\ r \in Objects /\ i # r
      /\ HandleOwn(o)
  BY IndInvParts
<1>3. handle[o] \in Handle
  BY LiveHandle DEF get_shared_secret
<1>4. /\ pc[o] = IF s = Initiator THEN "peer_set" ELSE "sent"
      /\ pc' = [pc EXCEPT ![o] = p]
      /\ secret' = IF ok THEN [secret EXCEPT ![o] = h.key] ELSE secret
      /\ UNCHANGED <<gets, net>>
  BY <1>1 DEF IkeGetSharedSecret
<1>5. p \in PcStates /\ p \in Live /\ h # None /\ p \in {"keyed", "failed"}
  BY Etsi004Assumption DEF PcStates, Live
<1>6. openedFor' = openedFor /\ \A y \in Exchanges, u \in Sides : Inbox(y, u)' = Inbox(y, u)
  BY <1>1, <1>4 DEF OpensNone, Inbox
<1>7. h.key_id # None => h.key_id \in KeyIds /\ openedFor[h.key_id] = x
  BY <1>1, <1>2, <1>3, Etsi004Assumption DEF HandleOwn, Handle, Chunks
<1>8. ok => KeyOf(x, h.key)
  BY <1>1, <1>7 DEF KeyHeld, KeyOf
<1>9. /\ \A q \in Objects : q # o => /\ pc'[q] = pc[q]
                                     /\ handle'[q] = handle[q]
                                     /\ secret'[q] = secret[q]
      /\ pc'[o] = p /\ handle'[o] = h
  BY <1>1, <1>2, <1>4 DEF TypeOK, IkeTypeOK
<1>10. \A k \in KeyIds : r \in kme.served[k] => r \in kme'.served[k]
  BY <1>1, <1>2 DEF Moves
<1>11. \/ secret' = secret
       \/ \E v : KeyOf(x, v) /\ secret' = [secret EXCEPT ![o] = v]
  BY <1>4, <1>8
<1> HIDE DEF p
<1>12. Quiet(x)' /\ Roles(x)' /\ OneStream(x)'
  <2>1. Quiet(x)'
    BY <1>2, <1>4, <1>5, <1>6, <1>9 DEF Quiet, Sides
  <2>2. Roles(x)'
    BY <1>2, <1>5, <1>9 DEF Roles, Sides
  <2>3. OneStream(x)'
    BY <1>2, <1>6 DEF OneStream
  <2> QED BY <2>1, <2>2, <2>3
<1>13. Answered(x)'
  <2>1. CASE s = Initiator
    BY <1>2, <1>4, <1>5, <1>6, <1>9, <1>10, <2>1 DEF Answered, Sides
  <2>2. CASE s = Responder
    BY <1>2, <1>4, <1>5, <1>6, <1>9, <1>10, <2>2 DEF Answered, Sides
  <2> QED BY <2>1, <2>2 DEF Sides
<1>14. Flow(x)'
  BY <1>12, <1>13 DEF Flow
<1>15. h # None => KeyHeld(h) /\ (h.key_id # None => openedFor[h.key_id] = x)
  BY <1>1, <1>7
<1>16. t => h # None /\ h.key # None
  BY <1>1, <1>5
<1> QED BY <1>1, <1>4, <1>5, <1>11, <1>14, <1>15, <1>16, SilentCall

\* Creating and destroying an object touches no payload and no secret of a
\* daemon; the connection of a destroyed object is closed.
LEMMA IndInvLifetime ==
  ASSUME IndInv, NEW x \in Exchanges, NEW s \in Sides,
         qkd_kex_create(x, s) \/ destroy(x, s)
  PROVE  IndInv'
<1> DEFINE o == <<x, s>>
           i == <<x, Initiator>>
           r == <<x, Responder>>
           empty == [key_id |-> None, key |-> None, is_connected |-> FALSE]
<1>1. /\ TypeOK /\ Ledger /\ ObjectsOwn
      /\ Quiet(x) /\ Roles(x) /\ OneStream(x) /\ Answered(x)
      /\ o \in Objects /\ i \in Objects /\ r \in Objects /\ i # r
      /\ HandleOwn(o) /\ EndKnown(o, handle[o], kme)
  BY IndInvParts DEF ObjectsOwn
<1>2. /\ empty \in Handle /\ empty # None
      /\ empty.key_id = None /\ empty.key = None /\ empty.is_connected = FALSE
  <2>1. empty \in Handle
    BY DEF Handle, Chunks
  <2> QED BY <2>1, Etsi004Assumption
<1> HIDE DEF empty
<1>3. PICK h \in Handle \cup {None}, p \in PcStates :
        /\ handle' = [handle EXCEPT ![o] = h]
        /\ pc' = [pc EXCEPT ![o] = p]
        /\ key_retrieved' = [key_retrieved EXCEPT ![o] = FALSE]
        /\ shared_secret' \in [Objects -> Keys \cup {None}]
        /\ UNCHANGED <<gets, net, secret>>
        /\ OpensNone
        /\ Moves(kme, kme', o)
        /\ EndKnown(o, h, kme')
        /\ \/ h = None /\ p = "gone"
           \/ h = empty /\ p = "created"
        /\ \/ pc[o] = "absent" /\ (s = Responder => Inbox(x, Responder) # {})
           \/ p = "gone" /\ pc[o] \in Live
  <2>1. CASE qkd_kex_create(x, s)
    <3>1. PICK h \in {empty, None} :
            /\ IkeCreate(x, s, h # None)
            /\ handle' = [handle EXCEPT ![o] = h]
            /\ UNCHANGED <<key_retrieved, shared_secret, kme, openedFor>>
      BY <2>1 DEF qkd_kex_create, qkd_open, When, empty
    <3>2. handle[o] = None /\ ~key_retrieved[o] /\ EndKnown(o, None, kme)
      BY <1>1, <3>1 DEF IkeCreate, HandleOwn, Live
    <3>3. EndKnown(o, empty, kme)
      BY <1>2, <3>2 DEF EndKnown
    <3>4. key_retrieved' = [key_retrieved EXCEPT ![o] = FALSE]
      BY <1>1, <3>1, <3>2 DEF TypeOK
    <3>5. OpensNone /\ Moves(kme, kme', o) /\ shared_secret' \in [Objects -> Keys \cup {None}]
      BY <1>1, <3>1, NothingMoves DEF OpensNone, TypeOK
    <3>6. /\ pc' = [pc EXCEPT ![o] = IF h # None THEN "created" ELSE "gone"]
          /\ UNCHANGED <<gets, net, secret>>
          /\ pc[o] = "absent" /\ (s = Responder => Inbox(x, Responder) # {})
      BY <3>1 DEF IkeCreate
    <3>7. CASE h = empty
      <4>1. pc' = [pc EXCEPT ![o] = "created"] /\ "created" \in PcStates
        BY <1>2, <3>6, <3>7 DEF PcStates, Live
      <4> QED BY <1>2, <3>1, <3>3, <3>4, <3>5, <3>6, <3>7, <4>1
    <3>8. CASE h = None
      <4>1. pc' = [pc EXCEPT ![o] = "gone"] /\ "gone" \in PcStates
        BY <3>6, <3>8 DEF PcStates
      <4> QED BY <3>1, <3>2, <3>4, <3>5, <3>6, <3>8, <4>1
    <3> QED BY <3>7, <3>8
  <2>2. CASE destroy(x, s)
    <3>1. /\ pc[o] \in Live /\ pc' = [pc EXCEPT ![o] = "gone"]
          /\ UNCHANGED <<gets, net, secret>>
          /\ handle' = [handle EXCEPT ![o] = None]
          /\ key_retrieved' = [key_retrieved EXCEPT ![o] = FALSE]
          /\ shared_secret' = [shared_secret EXCEPT ![o] = None]
      BY <2>2 DEF destroy, IkeDestroy
    <3>2. PICK L \in qkd_close(o, handle[o], kme) : KmeBecomes(x, L)
      BY <2>2 DEF destroy
    <3>3. handle[o] \in Handle /\ kme \in Kme(Objects)
      BY <3>1, LiveHandle
    <3>4. Moves(kme, L, o) /\ EndKnown(o, None, L) /\ L.opened = kme.opened
      BY <1>1, <3>2, <3>3, CloseOutcome
    <3>5. kme' = L /\ OpensNone
      BY <1>1, <3>2, <3>4, KmeBecomesNone
    <3>6. "gone" \in PcStates /\ shared_secret' \in [Objects -> Keys \cup {None}]
      BY <1>1, <3>1 DEF PcStates, TypeOK
    <3> QED BY <3>1, <3>4, <3>5, <3>6
  <2> QED BY <2>1, <2>2
<1>4. /\ openedFor' = openedFor
      /\ \A y \in Exchanges, u \in Sides : Inbox(y, u)' = Inbox(y, u)
  BY <1>3 DEF OpensNone, Inbox
<1>5. /\ \A q \in Objects : q # o => pc'[q] = pc[q] /\ handle'[q] = handle[q]
      /\ pc'[o] = p /\ handle'[o] = h
  BY <1>1, <1>3 DEF TypeOK, IkeTypeOK
<1>6. \A k \in KeyIds : r \in kme.served[k] => r \in kme'.served[k]
  BY <1>1, <1>3 DEF Moves
<1>7. pc'[o] \in {"created", "gone"}
  BY <1>3, <1>5
<1>8. Quiet(x)'
  <2>1. CASE s = Initiator
    BY <1>1, <1>3, <1>4, <1>5, <2>1 DEF Quiet, Live, Sides
  <2>2. CASE s = Responder
    BY <1>1, <1>3, <1>4, <1>5, <2>2 DEF Quiet, Live, Sides
  <2> QED BY <2>1, <2>2 DEF Sides
<1>9. Roles(x)'
  BY <1>1, <1>2, <1>3, <1>5, <1>7 DEF Roles, Sides, empty
<1>10. OneStream(x)' /\ Answered(x)'
  BY <1>1, <1>3, <1>4, <1>5, <1>6, <1>7 DEF OneStream, Answered, Sides
<1>11. Flow(x)'
  BY <1>8, <1>9, <1>10 DEF Flow
<1>12. /\ h # None <=> p \in Live
       /\ h # None => KeyHeld(h) /\ (h.key_id # None => openedFor[h.key_id] = x)
  <2>1. CASE h = None /\ p = "gone"
    BY <2>1 DEF Live
  <2>2. CASE h = empty /\ p = "created"
    BY <1>2, <2>2, Etsi004Assumption DEF Live, KeyHeld
  <2> QED BY <1>3, <2>1, <2>2
<1> QED BY <1>3, <1>11, <1>12, SilentCall

\* Before any exchange no stream is open, and nothing is sent or held.
LEMMA IndInvInit == Init => IndInv
<1> SUFFICES ASSUME Init PROVE IndInv
  OBVIOUS
<1>1. TypeOK
  BY IkeAssumption DEF Init, IkeInit, TypeOK, IkeTypeOK, PcStates, Kme
<1>2. Ledger
  BY DEF Init, Ledger
<1>3. ASSUME NEW o \in Objects PROVE HandleOwn(o) /\ EndKnown(o, handle[o], kme) /\ SecretOwn(o)
  BY DEF Init, IkeInit, HandleOwn, EndKnown, SecretOwn, Live
<1>4. ASSUME NEW x \in Exchanges PROVE Flow(x)
  <2>1. /\ Inbox(x, Initiator) = {} /\ Inbox(x, Responder) = {}
        /\ \A s \in Sides : pc[<<x, s>>] = "absent" /\ secret[<<x, s>>] = None
        /\ \A k \in KeyIds : openedFor[k] # x
    BY Kex004Assumption DEF Init, IkeInit, Inbox, Objects
  <2> QED BY <2>1 DEF Flow, Quiet, Roles, OneStream, Answered, Sides
<1> QED BY <1>1, <1>2, <1>3, <1>4 DEF IndInv

\* The invariant is inductive.
LEMMA IndInvStep ==
  ASSUME IndInv, [Next]_vars
  PROVE  IndInv'
<1>1. ASSUME NEW x \in Exchanges, NEW s \in Sides, Call(x, s) \/ destroy(x, s)
      PROVE  IndInv'
  BY <1>1, IndInvLifetime, IndInvGetPublicKey, IndInvSetPublicKey, IndInvGetSharedSecret
  DEF Call
<1>2. CASE UNCHANGED vars
  <2>1. \A x \in Exchanges, s \in Sides : Inbox(x, s)' = Inbox(x, s)
    BY <1>2 DEF vars, ikeVars, Inbox
  <2>2. \A x \in Exchanges : Flow(x)'
    BY <1>2, <2>1, FlowAlone DEF IndInv, vars, ikeVars, objVars
  <2>3. TypeOK' /\ Ledger'
    BY <1>2 DEF vars, ikeVars, objVars, IndInv, TypeOK, IkeTypeOK, Ledger
  <2>4. \A o \in Objects : (HandleOwn(o) /\ EndKnown(o, handle[o], kme) /\ SecretOwn(o))'
    BY <1>2 DEF vars, ikeVars, objVars, IndInv, HandleOwn, EndKnown, SecretOwn, KeyOf, KeyHeld
  <2> QED BY <2>2, <2>3, <2>4 DEF IndInv
<1> QED BY <1>1, <1>2 DEF Next, AllDone

\* Whatever the KMEs do, the invariant holds throughout.
THEOREM IndInvInvariant == Spec => []IndInv
BY IndInvInit, IndInvStep, PTL DEF Spec

\* Every variable keeps to the values the code can give it.
THEOREM TypeCorrect == Spec => []TypeOK
<1>1. IndInv => TypeOK
  BY DEF IndInv
<1> QED BY <1>1, IndInvInvariant, PTL

\* A handle that says it is connected is an end of the stream whose ID it has,
\* though the ID is stored before the stream is joined.
THEOREM ConnectedToItsIdInvariant == Spec => []ConnectedToItsId
<1>1. IndInv => ConnectedToItsId
  BY DEF IndInv, EndKnown, ConnectedToItsId
<1> QED BY <1>1, IndInvInvariant, PTL

\* Every end of a stream is an object that will close it, but for the ends the
\* KMEs misled: qkd_open's handle is never dropped with its connection open.
THEOREM NoOrphanStreamInvariant == Spec => []NoOrphanStream
<1>1. ASSUME IndInv PROVE NoOrphanStream
  <2> SUFFICES ASSUME NEW k \in KeyIds, NEW o \in kme.ends[k] \ kme.misled
               PROVE  handle[o] # None /\ handle[o].is_connected /\ handle[o].key_id = k
    BY DEF NoOrphanStream
  <2>1. kme.ends[k] \subseteq Objects
    BY <1>1 DEF IndInv, TypeOK, Kme
  <2> QED BY <1>1, <2>1 DEF IndInv, EndKnown
<1> QED BY <1>1, IndInvInvariant, PTL

\* Where keys come in one piece, an object that takes its key for retrieved has
\* the key of its stream, whichever of its two call sites retrieved it.
THEOREM RetrievedKeyInvariant == WholeKeys /\ Spec => []RetrievedKey
<1> SUFFICES ASSUME WholeKeys PROVE Spec => []RetrievedKey
  OBVIOUS
<1>1. IndInv => RetrievedKey
  BY DEF WholeKeys, IndInv, HandleOwn, KeyHeld, RetrievedKey
<1> QED BY <1>1, IndInvInvariant, PTL

\* The initiator's daemon derives keys only from a stream whose key the
\* responder was given, however often the request was built and delivered.
THEOREM ConfirmedKeyInvariant == Spec => []ConfirmedKey
<1>1. ASSUME IndInv PROVE ConfirmedKey
  <2> SUFFICES ASSUME NEW x \in Exchanges, secret[<<x, Initiator>>] \in KeyIds
               PROVE  <<x, Responder>> \in kme.served[secret[<<x, Initiator>>]]
    BY DEF ConfirmedKey
  <2>1. secret[<<x, Initiator>>] # None
    BY Etsi004Assumption
  <2>2. Inbox(x, Initiator) # {}
    BY <1>1, <2>1 DEF IndInv, Flow, Answered
  <2>3. openedFor[secret[<<x, Initiator>>]] = x
    <3>1. <<x, Initiator>> \in Objects
      BY DEF Objects, Sides
    <3> QED BY <1>1, <2>1, <3>1, Etsi004Assumption DEF IndInv, SecretOwn, KeyOf
  <2> QED BY <1>1, <2>2, <2>3 DEF IndInv, Flow, Answered
<1> QED BY <1>1, IndInvInvariant, PTL

\* Where the KMEs tell no end of a failure, a destroyed object is no end of any
\* stream: qkd_close closes the connection the handle has, and it has but one.
THEOREM CloseReleasesTheorem == ~OpenFails /\ ~CloseFails /\ Spec => CloseReleases
<1> SUFFICES ASSUME ~OpenFails, ~CloseFails PROVE Spec => CloseReleases
  OBVIOUS
<1>1. ASSUME IndInv, IndInv', NEW x \in Exchanges, NEW s \in Sides, destroy(x, s),
             NEW k \in KeyIds
      PROVE  <<x, s>> \notin kme'.ends[k]
  <2>1. <<x, s>> \in Objects /\ handle \in [Objects -> Handle \cup {None}]
    BY <1>1 DEF Objects, IndInv, TypeOK
  <2>2. handle'[<<x, s>>] = None
    BY <1>1, <2>1 DEF destroy
  <2>3. EndKnown(<<x, s>>, handle[<<x, s>>], kme)'
    BY <1>1, <2>1 DEF IndInv
  <2> QED BY <2>2, <2>3 DEF EndKnown
<1>2. IndInv /\ IndInv' => \A x \in Exchanges, s \in Sides :
        destroy(x, s) => \A k \in KeyIds : <<x, s>> \notin kme'.ends[k]
  BY <1>1
<1> QED BY <1>2, IndInvInvariant, PTL DEF CloseReleases

-------------------------------------------------------------------------------
\* An exchange has settled on the stream opened for it.
LEMMA AgreedIsOpened ==
  ASSUME NEW x \in Exchanges, OneStream(x)
  PROVE  /\ \A k \in KeyIds : openedFor[k] = x => AgreedKey[x] = k
         /\ (\A k \in KeyIds : openedFor[k] # x) => AgreedKey[x] = None
<1>1. ASSUME NEW k \in KeyIds, openedFor[k] = x PROVE AgreedKey[x] = k
  <2>1. AgreedKey[x] = CHOOSE j \in KeyIds : openedFor[j] = x
    BY <1>1 DEF AgreedKey
  <2>2. AgreedKey[x] \in KeyIds /\ openedFor[AgreedKey[x]] = x
    BY <1>1, <2>1
  <2> QED BY <1>1, <2>2 DEF OneStream
<1> QED BY <1>1 DEF AgreedKey

\* Opening a stream is the step that agrees on a key.
LEMMA OpeningAgrees ==
  ASSUME IndInv, IndInv', NEW x \in Exchanges, NEW k \in KeyIds, Opens(x, k),
         \A j \in KeyIds : openedFor[j] # x,
         secret' = secret
  PROVE  Abstract!Agree(x)
<1>1. /\ TypeOK /\ Ledger
      /\ \A y \in Exchanges : OneStream(y) /\ OneStream(y)'
  BY DEF IndInv, Flow
<1>2. openedFor[k] = None /\ openedFor' = [openedFor EXCEPT ![k] = x]
  BY <1>1 DEF Opens, Ledger
<1>3. AgreedKey[x] = None
  BY <1>1, AgreedIsOpened
<1>4. ASSUME NEW y \in Exchanges PROVE AgreedKey[y] # k
  <2>1. CASE \E j \in KeyIds : openedFor[j] = y
    BY <1>1, <1>2, <2>1, AgreedIsOpened, Kex004Assumption
  <2>2. CASE \A j \in KeyIds : openedFor[j] # y
    BY <1>1, <2>2, AgreedIsOpened, Etsi004Assumption
  <2> QED BY <2>1, <2>2
<1>5. AgreedKey' = [AgreedKey EXCEPT ![x] = k]
  <2>1. ASSUME NEW y \in Exchanges
        PROVE  AgreedKey'[y] = [AgreedKey EXCEPT ![x] = k][y]
    <3>1. CASE y = x
      <4>1. openedFor'[k] = x
        BY <1>1, <1>2 DEF TypeOK
      <4>2. AgreedKey'[x] = CHOOSE j \in KeyIds : openedFor'[j] = x
        BY <4>1 DEF AgreedKey
      <4>3. AgreedKey'[x] \in KeyIds /\ openedFor'[AgreedKey'[x]] = x
        BY <4>1, <4>2
      <4>4. AgreedKey'[x] = k
        BY <1>1, <4>1, <4>3 DEF OneStream
      <4> QED BY <3>1, <4>4 DEF AgreedKey
    <3>2. CASE y # x
      <4>1. \A j \in KeyIds : openedFor'[j] = y <=> openedFor[j] = y
        BY <1>1, <1>2, <3>2, Kex004Assumption DEF TypeOK
      <4>2. (CHOOSE j \in KeyIds : openedFor'[j] = y)
              = CHOOSE j \in KeyIds : openedFor[j] = y
        BY <4>1
      <4> QED BY <3>2, <4>1, <4>2 DEF AgreedKey
    <3> QED BY <3>1, <3>2
  <2> QED BY <2>1 DEF AgreedKey
<1> QED BY <1>3, <1>4, <1>5 DEF Abstract!Agree

\* Building a payload agrees on a key, or changes nothing the abstract
\* specification sees.
LEMMA RequestAgrees ==
  ASSUME IndInv, IndInv', NEW x \in Exchanges, NEW s \in Sides, get_public_key(x, s)
  PROVE  [Abstract!AbsNext]_<<AgreedKey, secret>>
<1> DEFINE o == <<x, s>>
<1>1. PICK ok \in BOOLEAN, h \in Handle, v \in Chunks :
        /\ IkeGetPublicKey(x, s, ok, v)
        /\ \/ OpensNone /\ h = handle[o]
           \/ /\ handle[o].key_id = None
              /\ \E k \in KeyIds : Opens(x, k) /\ (h.key_id = k \/ (~ok /\ h.key_id = None))
  BY GetPublicKeyEffect
<1>2. secret' = secret
  BY <1>1 DEF IkeGetPublicKey, IkeBuildRequest, IkeBuildResponse
<1>3. CASE OpensNone
  BY <1>2, <1>3 DEF OpensNone, AgreedKey
<1>4. ASSUME NEW k \in KeyIds, Opens(x, k), handle[o].key_id = None PROVE Abstract!AbsNext
  <2>1. \/ s = Initiator /\ pc[<<x, Initiator>>] \in {"created", "sent"}
        \/ s = Responder /\ pc[<<x, Responder>>] = "peer_set"
    BY <1>1 DEF IkeGetPublicKey, IkeBuildRequest, IkeBuildResponse
  <2>2. pc[<<x, Initiator>>] = "created"
    BY <1>4, <2>1 DEF IndInv, Flow, Roles
  <2>3. \A j \in KeyIds : openedFor[j] # x
    BY <2>2 DEF IndInv, Flow, Quiet
  <2> QED BY <1>2, <1>4, <2>3, OpeningAgrees DEF Abstract!AbsNext
<1> QED BY <1>1, <1>3, <1>4

\* A daemon is handed the key agreed on.
LEMMA HandedOverAgrees ==
  ASSUME WholeKeys, IndInv, IndInv', NEW x \in Exchanges, NEW s \in Sides,
         get_shared_secret(x, s)
  PROVE  [Abstract!AbsNext]_<<AgreedKey, secret>>
<1> DEFINE o == <<x, s>>
<1>1. PICK ok \in BOOLEAN, h \in Handle, t \in BOOLEAN :
        /\ IkeGetSharedSecret(x, s, ok, h.key)
        /\ OpensNone
        /\ ok \/ t => h.key # None
  BY GetSharedSecretEffect
<1>2. AgreedKey' = AgreedKey
  BY <1>1 DEF OpensNone, AgreedKey
<1>3. CASE ~ok
  BY <1>1, <1>2, <1>3 DEF IkeGetSharedSecret
<1>4. CASE ok
  <2>1. secret' = [secret EXCEPT ![o] = h.key] /\ o \in Objects /\ o[1] = x
    BY <1>1, <1>4 DEF IkeGetSharedSecret, Objects
  <2>2. secret'[o] = h.key /\ h.key # None
    BY <1>1, <1>4, <2>1 DEF IndInv, TypeOK, IkeTypeOK
  <2>3. h.key \in KeyIds /\ openedFor[h.key] = x
    <3>1. KeyOf(x, h.key)'
      BY <2>1, <2>2 DEF IndInv, SecretOwn
    <3> QED BY <1>1, <3>1 DEF KeyOf, WholeKeys, OpensNone
  <2>4. AgreedKey[x] = h.key
    BY <2>3, AgreedIsOpened DEF IndInv, Flow
  <2>5. Abstract!Obtain(x, s)
    BY <1>2, <2>1, <2>2, <2>4 DEF Abstract!Obtain
  <2> QED BY <2>5 DEF Abstract!AbsNext
<1> QED BY <1>3, <1>4

\* Where keys come in one piece, an exchange settles on the first key of the
\* one stream its initiator opened, no other exchange settles on that key, and
\* a side is handed nothing else.
THEOREM KeyAgreementRefinement == WholeKeys /\ Spec => ImplementsKeyAgreement
<1> SUFFICES ASSUME WholeKeys PROVE Spec => Abstract!AbsSpec
  BY DEF ImplementsKeyAgreement
<1>1. Init => Abstract!AbsInit
  <2> SUFFICES ASSUME Init PROVE Abstract!AbsInit
    OBVIOUS
  <2>1. \A x \in Exchanges : ~\E k \in KeyIds : openedFor[k] = x
    BY Kex004Assumption DEF Init
  <2>2. AgreedKey = [x \in Exchanges |-> None]
    BY <2>1 DEF AgreedKey
  <2>3. secret = [o \in Exchanges \X Sides |-> None]
    BY DEF Init, IkeInit, Objects
  <2> QED BY <2>2, <2>3 DEF Abstract!AbsInit
<1>2. IndInv /\ IndInv' /\ [Next]_vars => [Abstract!AbsNext]_<<AgreedKey, secret>>
  <2> SUFFICES ASSUME IndInv, IndInv', [Next]_vars
               PROVE  [Abstract!AbsNext]_<<AgreedKey, secret>>
    OBVIOUS
  <2>1. ASSUME NEW x \in Exchanges, NEW s \in Sides, qkd_kex_create(x, s)
        PROVE  UNCHANGED <<AgreedKey, secret>>
    BY <2>1 DEF qkd_kex_create, IkeCreate, AgreedKey
  <2>2. ASSUME NEW x \in Exchanges, NEW s \in Sides, set_public_key(x, s)
        PROVE  UNCHANGED <<AgreedKey, secret>>
    <3>1. secret' = secret
      BY <2>2 DEF set_public_key, IkeSetPublicKey
    <3>2. OpensNone
      BY <2>2, SetPublicKeyEffect
    <3> QED BY <3>1, <3>2 DEF OpensNone, AgreedKey
  <2>3. ASSUME NEW x \in Exchanges, NEW s \in Sides, destroy(x, s)
        PROVE  UNCHANGED <<AgreedKey, secret>>
    <3>1. pc[<<x, s>>] \in Live /\ secret' = secret
      BY <2>3 DEF destroy, IkeDestroy
    <3>2. PICK L \in qkd_close(<<x, s>>, handle[<<x, s>>], kme) : KmeBecomes(x, L)
      BY <2>3 DEF destroy
    <3>3. openedFor' = openedFor
      BY <3>1, <3>2, LiveHandle, CloseOutcome, KmeBecomesNone DEF OpensNone
    <3> QED BY <3>1, <3>3 DEF AgreedKey
  <2>4. CASE UNCHANGED vars
    BY <2>4 DEF vars, ikeVars, AgreedKey
  <2> QED BY <2>1, <2>2, <2>3, <2>4, RequestAgrees, HandedOverAgrees
      DEF Next, Call, AllDone
<1> QED BY <1>1, <1>2, IndInvInvariant, PTL DEF Spec, Abstract!AbsSpec, Abstract!absVars

Promise == INSTANCE KeyAgreementProofs WITH Keys <- KeyIds, agreed <- AgreedKey,
                                            obtained <- secret

\* The two names of the promise are one formula.
LEMMA SamePromise == Abstract!AbsSpec => Promise!AbsSpec
BY DEF Abstract!AbsSpec, Abstract!absVars, Abstract!AbsInit, Abstract!AbsNext,
       Abstract!Agree, Abstract!Obtain,
       Promise!AbsSpec, Promise!absVars, Promise!AbsInit, Promise!AbsNext,
       Promise!Agree, Promise!Obtain

\* Where keys come in one piece, the daemons of an exchange derive their keys
\* from the same secret, those of two exchanges never do, and a secret a daemon
\* was handed is not replaced by a later call.
THEOREM DaemonsAgree ==
  WholeKeys /\ Spec => /\ [](Promise!SidesAgree /\ Promise!ExchangesApart)
                       /\ Promise!ObtainedForGood
BY SamePromise, KeyAgreementRefinement, Promise!PromiseAgrees, Promise!PromiseStands, PTL
   DEF ImplementsKeyAgreement
================================================================================
