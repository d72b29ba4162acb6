------------------------------ MODULE QkdKemProofs ------------------------------
(* Proofs about QkdKem for any sets of exchanges, key pairs and secrets, any   *)
(* number of requests, and any codes the provider fails with.                  *)
EXTENDS QkdKemInv, IkeExchangeProofs

-------------------------------------------------------------------------------
\* get_public_key leaves the object as it is but for the key pair, never
\* replaces a key pair, and succeeds only with one.
LEMMA KeyPairOutcome ==
  ASSUME TypeOK, NEW ob \in KemObject, NEW r \in KeyPair(ob)
  PROVE  /\ r.ret \in BOOLEAN
         /\ r.object \in KemObject
         /\ r.object.ciphertext = ob.ciphertext
         /\ r.object.shared_secret = ob.shared_secret
         /\ ob.key # None => r.object.key = ob.key
         /\ r.ret => r.object.key # None
<1>1. ASSUME NEW p \in KeyPairs \ generated, ob.key = None
      PROVE  LET o == [ob EXCEPT !.key = p]
             IN  /\ o \in KemObject
                 /\ o.ciphertext = ob.ciphertext
                 /\ o.shared_secret = ob.shared_secret
                 /\ o.key # None
  BY ProviderAssumption DEF KemObject
<1>2. PICK o \in KemObject, b \in BOOLEAN :
        /\ r = [ret |-> b, object |-> o]
        /\ o = ob \/ (ob.key = None /\ \E p \in KeyPairs \ generated : o = [ob EXCEPT !.key = p])
        /\ b => o.key # None
  BY <1>1 DEF KeyPair, Outcome, Fails
<1> QED BY <1>1, <1>2

\* encaps_shared_secret succeeds only with a fresh secret encapsulated to the
\* key received; a failure leaves no secret that was not there before.
LEMMA EncapsulationOutcome ==
  ASSUME TypeOK, NEW ob \in KemObject, NEW value \in Payload,
         NEW r \in encaps_shared_secret(ob, value)
  PROVE  /\ r.ret \in BOOLEAN
         /\ r.object \in KemObject
         /\ r.object.key = ob.key
         /\ r.ret => \E k \in Secrets :
              /\ secretFor[k] = None
              /\ value \in PublicKeys
              /\ r.object.ciphertext = Ciphertext(value.pair, k)
              /\ r.object.shared_secret = k
         /\ ~r.ret => r.object.shared_secret \in {ob.shared_secret, Noise, None}
<1> DEFINE sized == [ob EXCEPT !.ciphertext_len = "ciphertext"]
           dropped == [sized EXCEPT !.ciphertext = None, !.shared_secret = None]
           Filled(e) == [sized EXCEPT !.ciphertext = e.ciphertext, !.shared_secret = e.secret]
           fresh == {k \in Secrets : secretFor[k] = None}
<1>1. PICK q \in Encapsulation(ob, value) : r = [ret |-> q.code > 0, object |-> q.object]
  BY DEF encaps_shared_secret, Outcome
<1>2. ASSUME q.code = 1 PROVE r.ret = TRUE /\ r.object = q.object
  <2>1. (q.code > 0) = TRUE
    BY <1>2
  <2> QED BY <1>1, <2>1
<1>3. ASSUME q.code \in {0, -1} PROVE r.ret = FALSE /\ r.object = q.object
  <2>1. (q.code > 0) = FALSE
    BY <1>3
  <2> QED BY <1>1, <2>1
<1>4. \/ q = [code |-> 0, object |-> ob]
      \/ \E c \in {0, -1}, o \in {ob, dropped} : q = [code |-> c, object |-> o]
      \/ value \in PublicKeys /\ \E e \in Encapsulate(value, fresh) :
           q = [code |-> e.code, object |-> Filled(e)]
  <2>1. CASE value \notin PublicKeys
    BY <2>1 DEF Encapsulation
  <2>2. CASE value \in PublicKeys
    <3>1. Encapsulation(ob, value) =
            {[code |-> e.code, object |-> Filled(e)] : e \in Encapsulate(value, fresh)}
            \cup [code : Errors, object : {ob, dropped}]
      BY <2>2 DEF Encapsulation
    <3> HIDE DEF dropped, Filled, fresh
    <3> QED BY <2>2, <3>1, ProviderAssumption
  <2> QED BY <2>1, <2>2
<1>5. ASSUME NEW c \in {0, -1}, NEW o \in {ob, dropped}, q = [code |-> c, object |-> o]
      PROVE  /\ r.ret = FALSE
             /\ r.object \in KemObject
             /\ r.object.key = ob.key
             /\ r.object.shared_secret \in {ob.shared_secret, Noise, None}
  <2>1. r.ret = FALSE /\ r.object = o
    BY <1>3, <1>5
  <2>2. o \in KemObject /\ o.key = ob.key /\ o.shared_secret \in {ob.shared_secret, None}
    BY DEF KemObject
  <2> QED BY <2>1, <2>2
<1>6. ASSUME value \in PublicKeys, NEW e \in Encapsulate(value, fresh),
             q = [code |-> e.code, object |-> Filled(e)]
      PROVE  /\ r.ret \in BOOLEAN
             /\ r.object \in KemObject
             /\ r.object.key = ob.key
             /\ r.ret => \E k \in Secrets :
                  /\ secretFor[k] = None
                  /\ r.object.ciphertext = Ciphertext(value.pair, k)
                  /\ r.object.shared_secret = k
             /\ ~r.ret => r.object.shared_secret = Noise
  <2>1. \/ \E k \in fresh : e = [code |-> 1, ciphertext |-> Ciphertext(value.pair, k), secret |-> k]
        \/ \E c \in {0, -1} : e = [code |-> c, ciphertext |-> Noise, secret |-> Noise]
    BY ProviderAssumption DEF Encapsulate
  <2>2. CASE \E k \in fresh : e = [code |-> 1, ciphertext |-> Ciphertext(value.pair, k), secret |-> k]
    <3>1. PICK k \in fresh : e = [code |-> 1, ciphertext |-> Ciphertext(value.pair, k), secret |-> k]
      BY <2>2
    <3>2. Ciphertext(value.pair, k) \in Ciphertexts
      BY <1>6 DEF Ciphertext, Ciphertexts, PublicKeys
    <3>3. /\ Filled(e) \in KemObject
          /\ Filled(e).key = ob.key
          /\ Filled(e).ciphertext = Ciphertext(value.pair, k)
          /\ Filled(e).shared_secret = k
      BY <3>1, <3>2 DEF KemObject
    <3>4. r.ret = TRUE /\ r.object = Filled(e)
      BY <1>2, <1>6, <3>1
    <3> QED BY <3>1, <3>3, <3>4
  <2>3. CASE \E c \in {0, -1} : e = [code |-> c, ciphertext |-> Noise, secret |-> Noise]
    <3>1. e.ciphertext = Noise /\ e.secret = Noise /\ e.code \in {0, -1}
      BY <2>3
    <3>2. Filled(e) \in KemObject /\ Filled(e).key = ob.key /\ Filled(e).shared_secret = Noise
      BY <3>1 DEF KemObject
    <3>3. r.ret = FALSE /\ r.object = Filled(e)
      BY <1>3, <1>6, <3>1
    <3> QED BY <3>2, <3>3
  <2> QED BY <2>1, <2>2, <2>3
<1> HIDE DEF dropped, Filled, fresh
<1> QED BY <1>4, <1>5, <1>6

\* set_ciphertext changes no key pair and no ciphertext. It succeeds with the
\* secret inside an answer to the object's key pair, or with noise where a
\* negative code was taken for success.
LEMMA DecapsulationOutcome ==
  ASSUME NEW ob \in KemObject, NEW value \in Ciphertexts, value.pair = ob.key,
         NEW r \in set_ciphertext(ob, value)
  PROVE  /\ r.ret \in BOOLEAN
         /\ r.object \in KemObject
         /\ r.object.key = ob.key
         /\ r.object.ciphertext = ob.ciphertext
         /\ r.ret => \/ r.object.shared_secret = value.secret
                     \/ r.object.shared_secret = Noise /\ ~NoNegative
         /\ ~r.ret => r.object.shared_secret \in {ob.shared_secret, None}
<1> DEFINE sized == IF ob.ciphertext_len = None
                    THEN [ob EXCEPT !.ciphertext_len = Length(value)] ELSE ob
           dropped == [sized EXCEPT !.shared_secret = None]
<1>1. /\ sized \in KemObject /\ dropped \in KemObject
      /\ sized.key = ob.key /\ dropped.key = ob.key
      /\ sized.ciphertext = ob.ciphertext /\ dropped.ciphertext = ob.ciphertext
      /\ sized.shared_secret = ob.shared_secret /\ dropped.shared_secret = None
  BY DEF KemObject, Length
<1>2. \/ r \in {Outcome(FALSE, sized), Outcome(FALSE, dropped)}
      \/ \E d \in Decapsulate(ob.key, value) :
           r = IF d.code = 0 THEN Outcome(FALSE, dropped)
               ELSE Outcome(TRUE, [dropped EXCEPT !.shared_secret = d.secret])
  BY DEF set_ciphertext, Fails
<1>3. ASSUME NEW d \in Decapsulate(ob.key, value)
      PROVE  d.secret = value.secret \/ d.code = 0 \/ (d.secret = Noise /\ ~NoNegative)
  BY ProviderAssumption DEF Decapsulate, NoNegative
<1>4. value.secret \in Secrets
  BY DEF Ciphertexts
<1>5. ASSUME NEW v \in Secrets \cup {Noise}
      PROVE  LET o == [dropped EXCEPT !.shared_secret = v]
             IN  /\ o \in KemObject
                 /\ o.key = ob.key
                 /\ o.ciphertext = ob.ciphertext
                 /\ o.shared_secret = v
  BY <1>1 DEF KemObject
<1>6. \/ r.ret = FALSE /\ r.object \in {sized, dropped}
      \/ /\ r.ret = TRUE
         /\ \E v : /\ v = value.secret \/ (v = Noise /\ ~NoNegative)
                   /\ r.object = [dropped EXCEPT !.shared_secret = v]
  <2> HIDE DEF sized, dropped
  <2>1. CASE r \in {Outcome(FALSE, sized), Outcome(FALSE, dropped)}
    BY <2>1 DEF Outcome
  <2>2. ASSUME NEW d \in Decapsulate(ob.key, value), d.code = 0,
               r = Outcome(FALSE, dropped)
        PROVE  r.ret = FALSE /\ r.object = dropped
    BY <2>2 DEF Outcome
  <2>3. ASSUME NEW d \in Decapsulate(ob.key, value), d.code # 0,
               r = Outcome(TRUE, [dropped EXCEPT !.shared_secret = d.secret])
        PROVE  r.ret = TRUE /\ r.object = [dropped EXCEPT !.shared_secret = d.secret]
    BY <2>3 DEF Outcome
  <2> QED BY <1>2, <1>3, <2>1, <2>2, <2>3
<1> HIDE DEF sized, dropped
<1>7. CASE r.ret = FALSE /\ r.object \in {sized, dropped}
  BY <1>1, <1>7
<1>8. ASSUME NEW v, v = value.secret \/ (v = Noise /\ ~NoNegative), r.ret = TRUE,
             r.object = [dropped EXCEPT !.shared_secret = v]
      PROVE  /\ r.object \in KemObject
             /\ r.object.key = ob.key
             /\ r.object.ciphertext = ob.ciphertext
             /\ r.object.shared_secret = v
  BY <1>4, <1>5, <1>8
<1> QED BY <1>6, <1>7, <1>8

-------------------------------------------------------------------------------
\* What each call does to its object, in states that satisfy the invariant.

\* The initiator's get_public_key generates a key pair, or finds its own.
LEMMA RequestEffect ==
  ASSUME IndInv, NEW x \in Exchanges, get_public_key(x, Initiator)
  PROVE  \E ok \in BOOLEAN, ob \in KemObject :
           /\ IkeBuildRequest(x, ok, PublicKey(ob.key))
           /\ object' = [object EXCEPT ![<<x, Initiator>>] = ob]
           /\ ob.ciphertext = None
           /\ ob.shared_secret = object[<<x, Initiator>>].shared_secret
           /\ object[<<x, Initiator>>].key # None => ob.key = object[<<x, Initiator>>].key
           /\ ok => ob.key # None
           /\ generated' \subseteq KeyPairs
           /\ UNCHANGED secretFor
<1> DEFINE i == <<x, Initiator>>
<1>1. TypeOK /\ object[i] \in KemObject /\ object[i].ciphertext = None
  BY DEF IndInv, Flow, TypeOK, ObjectLive, Requests, Objects, Sides, get_public_key
<1>2. PICK r \in KeyPair(object[i]) :
        /\ IkeGetPublicKey(x, Initiator, r.ret, PublicKey(r.object.key))
        /\ object' = [object EXCEPT ![i] = r.object]
        /\ generated' = generated \cup ({r.object.key} \ {None})
  BY <1>1 DEF get_public_key
<1>3. /\ r.ret \in BOOLEAN
      /\ r.object \in KemObject
      /\ r.object.ciphertext = object[i].ciphertext
      /\ r.object.shared_secret = object[i].shared_secret
      /\ object[i].key # None => r.object.key = object[i].key
      /\ r.ret => r.object.key # None
  BY <1>1, KeyPairOutcome
<1>4. generated' \subseteq KeyPairs
  BY <1>1, <1>2, <1>3 DEF TypeOK, KemObject
<1>5. IkeBuildRequest(x, r.ret, PublicKey(r.object.key))
  BY <1>2 DEF IkeGetPublicKey, Initiator, Responder
<1>6. UNCHANGED secretFor
  BY DEF get_public_key
<1> QED BY <1>1, <1>2, <1>3, <1>4, <1>5, <1>6

\* The responder's get_public_key sends the ciphertext it has.
LEMMA ResponseEffect ==
  ASSUME IndInv, NEW x \in Exchanges, get_public_key(x, Responder)
  PROVE  /\ IkeBuildResponse(x, TRUE, object[<<x, Responder>>].ciphertext)
         /\ UNCHANGED <<object, generated, secretFor>>
<1> DEFINE r == <<x, Responder>>
<1>1. ASSUME NEW ok, NEW v, IkeGetPublicKey(x, Responder, ok, v)
      PROVE  IkeBuildResponse(x, ok, v) /\ object[r].ciphertext # None
  <2>1. IkeBuildResponse(x, ok, v)
    BY <1>1 DEF IkeGetPublicKey, Initiator, Responder
  <2>2. object[r].ciphertext \in Ciphertexts
    BY <2>1 DEF IndInv, Flow, Answers, Answer, IkeBuildResponse
  <2> QED BY <2>1, <2>2, ProviderAssumption
<1>2. object[r].ciphertext # None
  BY <1>1 DEF get_public_key
<1> QED BY <1>1, <1>2 DEF get_public_key

\* The responder's set_public_key encapsulates a fresh secret to the key of a
\* request, or fails and has no secret.
LEMMA AcceptEffect ==
  ASSUME IndInv, NEW x \in Exchanges, set_public_key(x, Responder)
  PROVE  \E m \in Inbox(x, Responder), ok \in BOOLEAN, ob \in KemObject :
           /\ IkeSetPublicKey(x, Responder, m.value, ok)
           /\ object' = [object EXCEPT ![<<x, Responder>>] = ob]
           /\ UNCHANGED generated
           /\ m.value \in PublicKeys
           /\ \/ /\ ~ok
                 /\ UNCHANGED secretFor
              \/ /\ ok
                 /\ \E k \in Secrets :
                      /\ secretFor[k] = None
                      /\ ob.ciphertext = Ciphertext(m.value.pair, k)
                      /\ ob.shared_secret = k
                      /\ secretFor' = [secretFor EXCEPT ![k] = x]
<1> DEFINE r == <<x, Responder>>
<1>1. TypeOK /\ object[r] \in KemObject
  BY DEF IndInv, Flow, TypeOK, ObjectLive, Objects, Sides, set_public_key
<1>0. PICK m \in Inbox(x, Responder) :
        \E q \in IF object[r].key # None THEN set_ciphertext(object[r], m.value)
                                          ELSE encaps_shared_secret(object[r], m.value) :
          /\ IkeSetPublicKey(x, Responder, m.value, q.ret)
          /\ object' = [object EXCEPT ![r] = q.object]
          /\ secretFor' = [k \in Secrets |->
                             IF secretFor[k] = None /\ q.object.shared_secret = k
                             THEN x ELSE secretFor[k]]
          /\ UNCHANGED generated
  BY DEF set_public_key
<1>2. PICK q \in IF object[r].key # None THEN set_ciphertext(object[r], m.value)
                                         ELSE encaps_shared_secret(object[r], m.value) :
        /\ IkeSetPublicKey(x, Responder, m.value, q.ret)
        /\ object' = [object EXCEPT ![r] = q.object]
        /\ secretFor' = [k \in Secrets |->
                           IF secretFor[k] = None /\ q.object.shared_secret = k
                           THEN x ELSE secretFor[k]]
        /\ UNCHANGED generated
  BY <1>0
<1>3. /\ object[r].key = None /\ object[r].shared_secret = None
      /\ m.value \in PublicKeys /\ m.value \in Payload
  <2>1. pc[r] = "created"
    BY <1>2 DEF IkeSetPublicKey, Initiator, Responder
  <2> QED BY <2>1 DEF IndInv, Flow, Answers, Requests, Payload
<1>4. /\ q.ret \in BOOLEAN
      /\ q.object \in KemObject
      /\ q.ret => \E k \in Secrets :
           /\ secretFor[k] = None
           /\ q.object.ciphertext = Ciphertext(m.value.pair, k)
           /\ q.object.shared_secret = k
      /\ ~q.ret => q.object.shared_secret \in {Noise, None}
  BY <1>1, <1>2, <1>3, EncapsulationOutcome
<1>5. secretFor \in [Secrets -> Exchanges \cup {None}]
  BY <1>1 DEF TypeOK
<1>6. CASE ~q.ret
  <2>1. \A k \in Secrets : q.object.shared_secret # k
    BY <1>4, <1>6, ProviderAssumption
  <2>2. secretFor' = secretFor
    BY <1>2, <1>5, <2>1
  <2> QED BY <1>2, <1>3, <1>4, <1>6, <2>2
<1>7. CASE q.ret
  <2>1. PICK k \in Secrets :
           /\ secretFor[k] = None
           /\ q.object.ciphertext = Ciphertext(m.value.pair, k)
           /\ q.object.shared_secret = k
    BY <1>4, <1>7
  <2>2. secretFor' = [secretFor EXCEPT ![k] = x]
    BY <1>2, <1>5, <2>1
  <2> q.ret \in BOOLEAN /\ q.object \in KemObject
    BY <1>4
  <2> WITNESS m \in Inbox(x, Responder), q.ret \in BOOLEAN, q.object \in KemObject
  <2> QED BY <1>2, <1>3, <1>7, <2>1, <2>2
<1> QED BY <1>4, <1>6, <1>7

\* The initiator's set_public_key decapsulates an answer with the object's own
\* key pair.
LEMMA AnswerEffect ==
  ASSUME IndInv, NEW x \in Exchanges, set_public_key(x, Initiator)
  PROVE  \E m \in Inbox(x, Initiator), ok \in BOOLEAN, ob \in KemObject :
           /\ IkeSetPublicKey(x, Initiator, m.value, ok)
           /\ object' = [object EXCEPT ![<<x, Initiator>>] = ob]
           /\ UNCHANGED <<generated, secretFor>>
           /\ ob.key = object[<<x, Initiator>>].key
           /\ ob.ciphertext = None
           /\ ok => SecretOrNoise(x, Initiator, ob.shared_secret)
           /\ ok /\ NoNegative => ob.shared_secret = m.value.secret
<1> DEFINE i == <<x, Initiator>>
<1>1. TypeOK /\ object[i] \in KemObject /\ object[i] # None /\ object[i].ciphertext = None
  BY DEF IndInv, Flow, TypeOK, ObjectLive, Requests, Objects, Sides, set_public_key
<1>0. PICK m \in Inbox(x, Initiator) :
        \E q \in IF object[i].key # None THEN set_ciphertext(object[i], m.value)
                                          ELSE encaps_shared_secret(object[i], m.value) :
          /\ IkeSetPublicKey(x, Initiator, m.value, q.ret)
          /\ object' = [object EXCEPT ![i] = q.object]
          /\ secretFor' = [k \in Secrets |->
                             IF secretFor[k] = None /\ q.object.shared_secret = k
                             THEN x ELSE secretFor[k]]
          /\ UNCHANGED generated
  BY DEF set_public_key
<1>2. PICK q \in IF object[i].key # None THEN set_ciphertext(object[i], m.value)
                                         ELSE encaps_shared_secret(object[i], m.value) :
        /\ IkeSetPublicKey(x, Initiator, m.value, q.ret)
        /\ object' = [object EXCEPT ![i] = q.object]
        /\ secretFor' = [k \in Secrets |->
                           IF secretFor[k] = None /\ q.object.shared_secret = k
                           THEN x ELSE secretFor[k]]
        /\ UNCHANGED generated
  BY <1>0
<1>3. pc[i] = "sent"
  BY <1>2 DEF IkeSetPublicKey
<1>4. object[i].key # None /\ object[i].shared_secret = None
  BY <1>3 DEF IndInv, Flow, Requests
<1>5. Answer(x, m.value)
  BY DEF IndInv, Flow, Answers
<1>6. m.value \in Ciphertexts /\ m.value.pair = object[i].key /\ m.value.secret \in Secrets
  BY <1>1, <1>5 DEF Answer, IndInv, Flow, Requests, PublicKey, Ciphertexts
<1>7. /\ q.ret \in BOOLEAN
      /\ q.object \in KemObject
      /\ q.object.key = object[i].key
      /\ q.object.ciphertext = object[i].ciphertext
      /\ q.ret => \/ q.object.shared_secret = m.value.secret
                  \/ q.object.shared_secret = Noise /\ ~NoNegative
      /\ ~q.ret => q.object.shared_secret = None
  BY <1>1, <1>2, <1>4, <1>6, DecapsulationOutcome
<1>8. secretFor' = secretFor
  <2>1. \A k \in Secrets : q.object.shared_secret = k => secretFor[k] # None
    <3>1. secretFor[m.value.secret] = x /\ x # None
      BY <1>5, KemAssumption DEF Answer
    <3> QED BY <1>7, <3>1, ProviderAssumption
  <2> QED BY <1>1, <1>2, <2>1 DEF TypeOK
<1>9. q.ret => SecretOrNoise(x, Initiator, q.object.shared_secret)
  BY <1>5, <1>6, <1>7 DEF SecretOrNoise, Answer
<1> QED BY <1>1, <1>2, <1>7, <1>8, <1>9

-------------------------------------------------------------------------------
\* A call replaces the object it is about, and moves its daemon on.
LEMMA ObjectStep ==
  ASSUME TypeOK, ObjectLive, NEW o \in Objects,
         NEW ob \in KemObject \cup {None}, object' = [object EXCEPT ![o] = ob],
         NEW p \in PcStates, pc' = [pc EXCEPT ![o] = p],
         ob # None <=> p \in Live
  PROVE  /\ object' \in [Objects -> KemObject \cup {None}]
         /\ pc' \in [Objects -> PcStates]
         /\ ObjectLive'
BY DEF TypeOK, IkeTypeOK, ObjectLive

\* A step that leaves an exchange alone keeps what the invariant says of it.
LEMMA FlowAlone ==
  ASSUME TypeOK, NEW y \in Exchanges, Flow(y),
         \A s \in Sides : /\ pc'[<<y, s>>] = pc[<<y, s>>]
                          /\ object'[<<y, s>>] = object[<<y, s>>]
                          /\ secret'[<<y, s>>] = secret[<<y, s>>]
                          /\ Inbox(y, s)' = Inbox(y, s),
         \A k \in Secrets : secretFor'[k] = y <=> secretFor[k] = y
  PROVE  Flow(y)'
<1> USE DEF Sides
<1>1. \A value : Answer(y, value)' <=> Answer(y, value)
  BY DEF Answer, Ciphertexts
<1>2. \A s, v : SecretOrNoise(y, s, v)' <=> SecretOrNoise(y, s, v)
  BY DEF SecretOrNoise, NoNegative
<1>3. Requests(y)'
  BY DEF Flow, Requests
<1>4. Answers(y)'
  BY <1>1 DEF Flow, Answers
<1>5. OneSecret(y)'
  BY DEF Flow, OneSecret
<1>6. Obtained(y)'
  BY <1>2 DEF Flow, Obtained
<1> QED BY <1>3, <1>4, <1>5, <1>6 DEF Flow

-------------------------------------------------------------------------------
\* Building a request keeps the invariant: it names the object's key pair.
LEMMA IndInvRequest ==
  ASSUME IndInv, NEW x \in Exchanges, get_public_key(x, Initiator)
  PROVE  IndInv'
<1> DEFINE i == <<x, Initiator>>
           r == <<x, Responder>>
<1> USE DEF Sides
<1>1. PICK ok \in BOOLEAN, ob \in KemObject :
        /\ IkeBuildRequest(x, ok, PublicKey(ob.key))
        /\ object' = [object EXCEPT ![i] = ob]
        /\ ob.ciphertext = None
        /\ ob.shared_secret = object[i].shared_secret
        /\ object[i].key # None => ob.key = object[i].key
        /\ ok => ob.key # None
        /\ generated' \subseteq KeyPairs
        /\ UNCHANGED secretFor
  BY RequestEffect
<1> DEFINE m == [exchange |-> x, from |-> Initiator, value |-> PublicKey(ob.key)]
<1>2. /\ TypeOK /\ ObjectLive
      /\ Requests(x) /\ Answers(x) /\ OneSecret(x) /\ Obtained(x)
      /\ pc[i] \in {"created", "sent"} /\ object[i] \in KemObject
      /\ i \in Objects /\ r \in Objects /\ i # r
  BY <1>1 DEF IndInv, Flow, TypeOK, ObjectLive, IkeBuildRequest, Objects, Live,
              Initiator, Responder
<1>3. /\ pc' = [pc EXCEPT ![i] = IF ok THEN "sent" ELSE "failed"]
      /\ secret' = secret
      /\ gets' \in [Exchanges -> 0..MaxGets]
      /\ net' = IF ok THEN net \cup {m} ELSE net
  BY <1>1, <1>2, IkeAssumption DEF IkeBuildRequest, TypeOK, IkeTypeOK
<1>4. /\ object' \in [Objects -> KemObject \cup {None}]
      /\ pc' \in [Objects -> PcStates]
      /\ ObjectLive'
  BY <1>1, <1>2, <1>3, KemAssumption, ObjectStep DEF PcStates, Live
<1>5. /\ pc'[i] = IF ok THEN "sent" ELSE "failed"
      /\ object'[i] = ob
      /\ pc'[r] = pc[r] /\ object'[r] = object[r]
  BY <1>1, <1>2, <1>3 DEF TypeOK, IkeTypeOK
<1>6. /\ Inbox(x, Responder)' = IF ok THEN Inbox(x, Responder) \cup {m} ELSE Inbox(x, Responder)
      /\ Inbox(x, Initiator)' = Inbox(x, Initiator)
      /\ \A y \in Exchanges \ {x}, t \in Sides : Inbox(y, t)' = Inbox(y, t)
  <2>1. CASE ok
    <3>1. Peer(Initiator) = Responder
      BY DEF Peer
    <3>2. net' = net \cup {m}
      BY <1>3, <2>1
    <3> QED BY <2>1, <3>1, <3>2, InboxStep
  <2>2. CASE ~ok
    BY <1>3, <2>2 DEF Inbox
  <2> QED BY <2>1, <2>2
<1>7. ok => /\ PublicKey(ob.key) \in PublicKeys
            /\ PublicKey(ob.key).pair = ob.key
  BY <1>1 DEF KemObject, PublicKey, PublicKeys
<1>8. TypeOK'
  <2>1. net' \subseteq Payloads(Payload)
    BY <1>2, <1>3, <1>7 DEF TypeOK, IkeTypeOK, Payloads, Payload
  <2> QED BY <1>1, <1>2, <1>3, <1>4, <2>1 DEF TypeOK, IkeTypeOK
<1>9. Requests(x)'
  <2>1. ASSUME NEW n \in Inbox(x, Responder)'
        PROVE  n.value \in PublicKeys /\ n.value.pair = ob.key
    <3>1. CASE n \in Inbox(x, Responder)
      <4>1. pc[i] = "sent" /\ object[i] # None
        BY <1>2, <3>1, KemAssumption DEF Requests
      <4> QED BY <1>1, <1>2, <3>1, <4>1 DEF Requests
    <3>2. CASE ok /\ n = m
      BY <1>7, <3>2
    <3> QED BY <1>6, <2>1, <3>1, <3>2
  <2>2. ob.shared_secret = None
    BY <1>1, <1>2 DEF Requests
  <2> QED BY <1>1, <1>5, <2>1, <2>2 DEF Requests
<1>10. Answers(x)'
  <2>1. ASSUME NEW v, Answer(x, v) PROVE Answer(x, v)'
    BY <1>1, <1>6, <2>1 DEF Answer
  <2> QED BY <1>1, <1>2, <1>5, <1>6, <2>1 DEF Answers
<1>11. OneSecret(x)'
  BY <1>1, <1>2 DEF OneSecret
<1>12. Obtained(x)'
  BY <1>1, <1>2, <1>3, <1>5 DEF Obtained, SecretOrNoise, NoNegative
<1>13. ASSUME NEW y \in Exchanges \ {x} PROVE Flow(y)'
  BY <1>1, <1>2, <1>3, <1>6, FlowAlone DEF IndInv, TypeOK, IkeTypeOK, Objects
<1> QED BY <1>4, <1>8, <1>9, <1>10, <1>11, <1>12, <1>13 DEF IndInv, Flow

\* Answering keeps the invariant: the object's ciphertext answers a request.
LEMMA IndInvResponse ==
  ASSUME IndInv, NEW x \in Exchanges, get_public_key(x, Responder)
  PROVE  IndInv'
<1> DEFINE i == <<x, Initiator>>
           r == <<x, Responder>>
           c == object[r].ciphertext
           m == [exchange |-> x, from |-> Responder, value |-> c]
<1> USE DEF Sides
<1>1. IkeBuildResponse(x, TRUE, c) /\ UNCHANGED <<object, generated, secretFor>>
  BY ResponseEffect
<1>2. /\ TypeOK /\ ObjectLive
      /\ Requests(x) /\ Answers(x) /\ OneSecret(x) /\ Obtained(x)
      /\ pc[r] = "peer_set" /\ object[r] \in KemObject
      /\ i \in Objects /\ r \in Objects /\ i # r
  BY <1>1 DEF IndInv, Flow, TypeOK, ObjectLive, IkeBuildResponse, Objects, Live,
              Initiator, Responder
<1>3. /\ pc' = [pc EXCEPT ![r] = "sent"]
      /\ secret' = secret /\ gets' = gets
      /\ net' = net \cup {m}
  BY <1>1 DEF IkeBuildResponse
<1>4. /\ pc' \in [Objects -> PcStates]
      /\ pc'[r] = "sent" /\ pc'[i] = pc[i]
      /\ ObjectLive'
  BY <1>1, <1>2, <1>3 DEF TypeOK, IkeTypeOK, ObjectLive, PcStates, Live
<1>5. /\ Inbox(x, Initiator)' = Inbox(x, Initiator) \cup {m}
      /\ Inbox(x, Responder)' = Inbox(x, Responder)
      /\ \A y \in Exchanges \ {x}, t \in Sides : Inbox(y, t)' = Inbox(y, t)
  <2>1. Peer(Responder) = Initiator
    BY DEF Peer, Initiator, Responder
  <2> QED BY <1>3, <2>1, InboxStep
<1>6. Answer(x, c) /\ c \in Ciphertexts
  BY <1>2 DEF Answers, Answer
<1>7. TypeOK'
  <2>1. m \in Payloads(Payload)
    BY <1>6 DEF Payloads, Payload
  <2> QED BY <1>1, <1>2, <1>3, <1>4, <2>1 DEF TypeOK, IkeTypeOK
<1>8. Requests(x)'
  BY <1>1, <1>2, <1>4, <1>5 DEF Requests
<1>9. Answers(x)'
  <2>1. ASSUME NEW v, Answer(x, v) PROVE Answer(x, v)'
    BY <1>1, <1>5, <2>1 DEF Answer
  <2>2. \A n \in Inbox(x, Initiator)' : Answer(x, n.value)
    BY <1>2, <1>5, <1>6 DEF Answers
  <2>3. object[r].shared_secret = c.secret
    BY <1>2 DEF Answers
  <2> HIDE DEF m
  <2>4. Answer(x, object[r].ciphertext)'
    BY <1>1, <1>6, <2>1
  <2> QED BY <1>1, <1>4, <2>1, <2>2, <2>3, <2>4 DEF Answers
<1>10. OneSecret(x)' /\ Obtained(x)'
  BY <1>1, <1>2, <1>3, <1>4 DEF OneSecret, Obtained, SecretOrNoise, NoNegative
<1>11. ASSUME NEW y \in Exchanges \ {x} PROVE Flow(y)'
  BY <1>1, <1>2, <1>3, <1>5, FlowAlone DEF IndInv, TypeOK, IkeTypeOK, Objects
<1> QED BY <1>4, <1>7, <1>8, <1>9, <1>10, <1>11 DEF IndInv, Flow

\* Accepting a request keeps the invariant: the exchange had no secret, and
\* gets one that no exchange had.
LEMMA IndInvAccept ==
  ASSUME IndInv, NEW x \in Exchanges, set_public_key(x, Responder)
  PROVE  IndInv'
<1> DEFINE i == <<x, Initiator>>
           r == <<x, Responder>>
<1> USE DEF Sides
<1>1. PICK m \in Inbox(x, Responder), ok \in BOOLEAN, ob \in KemObject :
        /\ IkeSetPublicKey(x, Responder, m.value, ok)
        /\ object' = [object EXCEPT ![r] = ob]
        /\ UNCHANGED generated
        /\ m.value \in PublicKeys
        /\ \/ /\ ~ok
              /\ UNCHANGED secretFor
           \/ /\ ok
              /\ \E k \in Secrets :
                   /\ secretFor[k] = None
                   /\ ob.ciphertext = Ciphertext(m.value.pair, k)
                   /\ ob.shared_secret = k
                   /\ secretFor' = [secretFor EXCEPT ![k] = x]
  BY AcceptEffect
<1>2. /\ TypeOK /\ ObjectLive
      /\ Requests(x) /\ Answers(x) /\ OneSecret(x) /\ Obtained(x)
      /\ pc[r] = "created"
      /\ i \in Objects /\ r \in Objects /\ i # r
  BY <1>1 DEF IndInv, Flow, IkeSetPublicKey, Objects, Initiator, Responder
<1>3. /\ pc' = [pc EXCEPT ![r] = IF ok THEN "peer_set" ELSE "failed"]
      /\ UNCHANGED <<gets, net, secret>>
  BY <1>1 DEF IkeSetPublicKey
<1>4. /\ object' \in [Objects -> KemObject \cup {None}]
      /\ pc' \in [Objects -> PcStates]
      /\ ObjectLive'
  BY <1>1, <1>2, <1>3, KemAssumption, ObjectStep DEF PcStates, Live
<1>5. /\ pc'[r] = IF ok THEN "peer_set" ELSE "failed"
      /\ object'[r] = ob
      /\ pc'[i] = pc[i] /\ object'[i] = object[i]
  BY <1>1, <1>2, <1>3 DEF TypeOK, IkeTypeOK
<1>6. \A y \in Exchanges, t \in Sides : Inbox(y, t)' = Inbox(y, t)
  BY <1>3 DEF Inbox
<1>7. /\ secretFor' \in [Secrets -> Exchanges \cup {None}]
      /\ \A y \in Exchanges \ {x}, k \in Secrets : secretFor'[k] = y <=> secretFor[k] = y
  BY <1>1, <1>2, KemAssumption DEF TypeOK
<1>8. TypeOK'
  BY <1>1, <1>2, <1>3, <1>4, <1>7 DEF TypeOK, IkeTypeOK
<1>9. \A k \in Secrets : secretFor[k] # x
  BY <1>2 DEF Answers
<1>10. Requests(x)'
  BY <1>2, <1>5, <1>6 DEF Requests
<1>11. /\ Inbox(x, Initiator) = {} /\ secret[r] = None
       /\ \A t \in Sides : \A v : SecretOrNoise(x, t, v) => SecretOrNoise(x, t, v)'
  BY <1>2, <1>9 DEF Answers, Obtained, SecretOrNoise, NoNegative, Initiator, Responder
<1>12. CASE ~ok
  <2>1. Answers(x)'
    BY <1>5, <1>6, <1>11, <1>12 DEF Answers
  <2>2. OneSecret(x)' /\ Obtained(x)'
    BY <1>1, <1>2, <1>3, <1>5, <1>11, <1>12 DEF OneSecret, Obtained
  <2>3. ASSUME NEW y \in Exchanges \ {x} PROVE Flow(y)'
    BY <1>1, <1>2, <1>3, <1>6, <1>7, FlowAlone DEF IndInv, TypeOK, IkeTypeOK, Objects
  <2> QED BY <1>4, <1>8, <1>10, <2>1, <2>2, <2>3 DEF IndInv, Flow
<1>13. CASE ok
  <2>1. PICK k \in Secrets :
          /\ secretFor[k] = None
          /\ ob.ciphertext = Ciphertext(m.value.pair, k)
          /\ ob.shared_secret = k
          /\ secretFor' = [secretFor EXCEPT ![k] = x]
    BY <1>1, <1>13
  <2>2. secretFor'[k] = x
    BY <1>2, <2>1 DEF TypeOK
  <2>3. Answers(x)'
    <3>1. /\ ob.ciphertext \in Ciphertexts
          /\ ob.ciphertext.secret = k
          /\ m.value = PublicKey(ob.ciphertext.pair)
      BY <1>1, <2>1 DEF Ciphertext, Ciphertexts, PublicKey, PublicKeys
    <3>2. Answer(x, ob.ciphertext)'
      BY <1>1, <1>6, <2>2, <3>1 DEF Answer
    <3> QED BY <1>5, <1>6, <1>11, <1>13, <2>1, <3>1, <3>2 DEF Answers
  <2>4. OneSecret(x)'
    BY <1>2, <1>9, <2>1 DEF OneSecret, TypeOK
  <2>5. Obtained(x)'
    BY <1>2, <1>3, <1>5, <1>11, <1>13 DEF Obtained
  <2>6. ASSUME NEW y \in Exchanges \ {x} PROVE Flow(y)'
    BY <1>1, <1>2, <1>3, <1>6, <1>7, FlowAlone DEF IndInv, TypeOK, IkeTypeOK, Objects
  <2> QED BY <1>4, <1>8, <1>10, <2>3, <2>4, <2>5, <2>6 DEF IndInv, Flow
<1> QED BY <1>12, <1>13

\* Taking the answer in keeps the invariant: what is decapsulated is the
\* exchange's secret.
LEMMA IndInvAnswer ==
  ASSUME IndInv, NEW x \in Exchanges, set_public_key(x, Initiator)
  PROVE  IndInv'
<1> DEFINE i == <<x, Initiator>>
           r == <<x, Responder>>
<1> USE DEF Sides
<1>1. PICK m \in Inbox(x, Initiator), ok \in BOOLEAN, ob \in KemObject :
        /\ IkeSetPublicKey(x, Initiator, m.value, ok)
        /\ object' = [object EXCEPT ![i] = ob]
        /\ UNCHANGED <<generated, secretFor>>
        /\ ob.key = object[i].key
        /\ ob.ciphertext = None
        /\ ok => SecretOrNoise(x, Initiator, ob.shared_secret)
  BY AnswerEffect
<1>2. /\ TypeOK /\ ObjectLive
      /\ Requests(x) /\ Answers(x) /\ OneSecret(x) /\ Obtained(x)
      /\ pc[i] = "sent" /\ object[i] # None
      /\ i \in Objects /\ r \in Objects /\ i # r
  BY <1>1 DEF IndInv, Flow, IkeSetPublicKey, ObjectLive, Live, Objects, Initiator, Responder
<1>3. /\ pc' = [pc EXCEPT ![i] = IF ok THEN "peer_set" ELSE "failed"]
      /\ UNCHANGED <<gets, net, secret>>
  BY <1>1 DEF IkeSetPublicKey
<1>4. /\ object' \in [Objects -> KemObject \cup {None}]
      /\ pc' \in [Objects -> PcStates]
      /\ ObjectLive'
  BY <1>1, <1>2, <1>3, KemAssumption, ObjectStep DEF PcStates, Live
<1>5. /\ pc'[i] = IF ok THEN "peer_set" ELSE "failed"
      /\ object'[i] = ob
      /\ pc'[r] = pc[r] /\ object'[r] = object[r]
  BY <1>1, <1>2, <1>3 DEF TypeOK, IkeTypeOK
<1>6. \A y \in Exchanges, t \in Sides : Inbox(y, t)' = Inbox(y, t)
  BY <1>3 DEF Inbox
<1>7. TypeOK'
  BY <1>1, <1>2, <1>3, <1>4 DEF TypeOK, IkeTypeOK
<1>8. Requests(x)'
  BY <1>1, <1>2, <1>5, <1>6 DEF Requests
<1>9. Answers(x)' /\ OneSecret(x)'
  BY <1>1, <1>2, <1>5, <1>6 DEF Answers, Answer, OneSecret
<1>10. Obtained(x)'
  BY <1>1, <1>2, <1>3, <1>5 DEF Obtained, SecretOrNoise, NoNegative
<1>11. ASSUME NEW y \in Exchanges \ {x} PROVE Flow(y)'
  BY <1>1, <1>2, <1>3, <1>6, FlowAlone DEF IndInv, TypeOK, IkeTypeOK, Objects
<1> QED BY <1>4, <1>7, <1>8, <1>9, <1>10, <1>11 DEF IndInv, Flow

\* Handing the secret over keeps the invariant: both objects have it by then.
LEMMA IndInvGetSharedSecret ==
  ASSUME IndInv, NEW x \in Exchanges, NEW s \in Sides, get_shared_secret(x, s)
  PROVE  IndInv'
<1> DEFINE o == <<x, s>>
           v == object[o].shared_secret
<1> USE DEF Sides
<1>1. /\ IkeGetSharedSecret(x, s, TRUE, v)
      /\ UNCHANGED <<object, generated, secretFor>>
  BY DEF get_shared_secret
<1>2. /\ TypeOK /\ ObjectLive
      /\ Requests(x) /\ Answers(x) /\ OneSecret(x) /\ Obtained(x)
      /\ o \in Objects /\ pc[o] = IF s = Initiator THEN "peer_set" ELSE "sent"
  BY <1>1 DEF IndInv, Flow, IkeGetSharedSecret, Objects
<1>3. /\ pc' = [pc EXCEPT ![o] = "keyed"]
      /\ secret' = [secret EXCEPT ![o] = v]
      /\ UNCHANGED <<gets, net>>
  BY <1>1 DEF IkeGetSharedSecret
<1>4. SecretOrNoise(x, s, v)
  <2>1. CASE s = Initiator
    BY <1>2, <2>1 DEF Obtained
  <2>2. CASE s = Responder
    <3>1. Answer(x, object[o].ciphertext) /\ v = object[o].ciphertext.secret
      BY <1>2, <2>2 DEF Answers, Initiator, Responder
    <3> QED BY <3>1 DEF Answer, Ciphertexts, SecretOrNoise
  <2> QED BY <2>1, <2>2
<1>5. v \in Secrets \cup {Noise} /\ v # None
  BY <1>4, ProviderAssumption DEF SecretOrNoise
<1>6. TypeOK' /\ ObjectLive'
  BY <1>1, <1>2, <1>3, <1>5 DEF TypeOK, IkeTypeOK, ObjectLive, PcStates, Live
<1>7. /\ \A p \in Objects : p # o => pc'[p] = pc[p] /\ secret'[p] = secret[p]
      /\ pc'[o] = "keyed" /\ secret'[o] = v
  BY <1>2, <1>3 DEF TypeOK, IkeTypeOK
<1>8. \A y \in Exchanges, t \in Sides : Inbox(y, t)' = Inbox(y, t)
  BY <1>3 DEF Inbox
<1>9. <<x, Initiator>> \in Objects /\ <<x, Responder>> \in Objects
  BY DEF Objects
<1>10. \A t \in Sides : pc'[<<x, t>>] = pc[<<x, t>>] \/ pc'[<<x, t>>] = "keyed"
  BY <1>7, <1>9
<1>11. Requests(x)'
  BY <1>1, <1>2, <1>8, <1>10 DEF Requests
<1>12. Answers(x)' /\ OneSecret(x)'
  BY <1>1, <1>2, <1>8, <1>10 DEF Answers, Answer, OneSecret
<1>13. Obtained(x)'
  <2>1. \A t, w : SecretOrNoise(x, t, w)' <=> SecretOrNoise(x, t, w)
    BY <1>1 DEF SecretOrNoise, NoNegative
  <2> QED BY <1>1, <1>2, <1>4, <1>5, <1>7, <1>9, <1>10, <2>1 DEF Obtained
<1>14. ASSUME NEW y \in Exchanges \ {x} PROVE Flow(y)'
  BY <1>1, <1>2, <1>7, <1>8, FlowAlone DEF IndInv, Objects
<1> QED BY <1>6, <1>11, <1>12, <1>13, <1>14 DEF IndInv, Flow

\* Creating and destroying an object touches no payload and no secret of a
\* daemon.
LEMMA IndInvLifetime ==
  ASSUME IndInv, NEW x \in Exchanges, NEW s \in Sides,
         qkd_kem_create(x, s) \/ destroy(x, s)
  PROVE  IndInv'
<1> DEFINE o == <<x, s>>
<1> USE DEF Sides
<1>1. PICK ob \in KemObject \cup {None}, p \in PcStates :
        /\ object' = [object EXCEPT ![o] = ob]
        /\ pc' = [pc EXCEPT ![o] = p]
        /\ UNCHANGED <<gets, net, secret, generated, secretFor>>
        /\ \/ ob = None /\ p = "gone"
           \/ /\ ob \in KemObject /\ p = "created" /\ pc[o] = "absent"
              /\ ob.key = None /\ ob.ciphertext = None /\ ob.shared_secret = None
  <2>1. CASE qkd_kem_create(x, s)
    <3> DEFINE empty == [key |-> None, ciphertext |-> None, ciphertext_len |-> None,
                         shared_secret |-> None]
    <3>1. PICK loaded \in load_provider_to_context :
            \E ob \in IF loaded THEN {empty} \cup Fails({None}) ELSE {None} :
              /\ IkeCreate(x, s, ob # None)
              /\ object' = [object EXCEPT ![o] = ob]
              /\ UNCHANGED <<generated, secretFor>>
      BY <2>1 DEF qkd_kem_create
    <3>2. PICK ob \in {empty, None} :
              /\ IkeCreate(x, s, ob # None)
              /\ object' = [object EXCEPT ![o] = ob]
              /\ UNCHANGED <<generated, secretFor>>
      BY <3>1 DEF Fails
    <3>3. /\ empty \in KemObject
          /\ empty.key = None /\ empty.ciphertext = None /\ empty.shared_secret = None
      BY DEF KemObject
    <3>4. empty # None
      BY <3>3, KemAssumption
    <3> HIDE DEF empty
    <3>5. CASE ob = empty
      BY <3>2, <3>3, <3>4, <3>5 DEF IkeCreate, PcStates, Live
    <3>6. CASE ob = None
      BY <3>2, <3>6 DEF IkeCreate, PcStates
    <3> QED BY <3>2, <3>5, <3>6
  <2>2. CASE destroy(x, s)
    BY <2>2 DEF destroy, IkeDestroy, PcStates
  <2> QED BY <2>1, <2>2
<1>2. /\ TypeOK /\ ObjectLive
      /\ Requests(x) /\ Answers(x) /\ OneSecret(x) /\ Obtained(x)
      /\ o \in Objects /\ <<x, Initiator>> \in Objects /\ <<x, Responder>> \in Objects
  BY DEF IndInv, Flow, Objects
<1>3. TypeOK' /\ ObjectLive'
  <2>1. ob # None <=> p \in Live
    BY <1>1, KemAssumption DEF Live
  <2> QED BY <1>1, <1>2, <2>1, ObjectStep DEF TypeOK, IkeTypeOK
<1>4. /\ \A q \in Objects : q # o => pc'[q] = pc[q] /\ object'[q] = object[q]
      /\ pc'[o] = p /\ object'[o] = ob
  BY <1>1, <1>2 DEF TypeOK, IkeTypeOK
<1>5. \A y \in Exchanges, t \in Sides : Inbox(y, t)' = Inbox(y, t)
  BY <1>1 DEF Inbox
<1>6. \A t \in Sides :
        \/ pc'[<<x, t>>] = pc[<<x, t>>] /\ object'[<<x, t>>] = object[<<x, t>>]
        \/ pc'[<<x, t>>] = "gone" /\ object'[<<x, t>>] = None
        \/ /\ pc[<<x, t>>] = "absent"
           /\ pc'[<<x, t>>] = "created"
           /\ object'[<<x, t>>].key = None
           /\ object'[<<x, t>>].ciphertext = None
           /\ object'[<<x, t>>].shared_secret = None
  BY <1>1, <1>2, <1>4
<1>7. Requests(x)'
  BY <1>2, <1>5, <1>6 DEF Requests
<1>8. Answers(x)' /\ OneSecret(x)'
  BY <1>1, <1>2, <1>5, <1>6 DEF Answers, Answer, OneSecret
<1>9. Obtained(x)'
  BY <1>1, <1>2, <1>6 DEF Obtained, SecretOrNoise, NoNegative
<1>10. ASSUME NEW y \in Exchanges \ {x} PROVE Flow(y)'
  BY <1>1, <1>2, <1>4, <1>5, FlowAlone DEF IndInv, Objects
<1> QED BY <1>3, <1>7, <1>8, <1>9, <1>10 DEF IndInv, Flow

\* Before any exchange nothing is sent, held or encapsulated.
LEMMA IndInvInit == Init => IndInv
<1> SUFFICES ASSUME Init PROVE IndInv
  OBVIOUS
<1>1. TypeOK /\ ObjectLive
  BY IkeAssumption DEF Init, IkeInit, TypeOK, IkeTypeOK, ObjectLive, PcStates, Live
<1>2. ASSUME NEW x \in Exchanges PROVE Flow(x)
  <2>1. /\ Inbox(x, Initiator) = {} /\ Inbox(x, Responder) = {}
        /\ \A s \in Sides : /\ pc[<<x, s>>] = "absent"
                            /\ object[<<x, s>>] = None
                            /\ secret[<<x, s>>] = None
        /\ \A k \in Secrets : secretFor[k] # x
    BY KemAssumption DEF Init, IkeInit, Inbox, Objects
  <2> QED BY <2>1 DEF Flow, Requests, Answers, OneSecret, Obtained, Sides
<1> QED BY <1>1, <1>2 DEF IndInv

\* The invariant is inductive.
LEMMA IndInvStep ==
  ASSUME IndInv, [Next]_vars
  PROVE  IndInv'
<1>1. ASSUME NEW x \in Exchanges, NEW s \in Sides,
             \/ qkd_kem_create(x, s)
             \/ get_public_key(x, s)
             \/ set_public_key(x, s)
             \/ get_shared_secret(x, s)
             \/ destroy(x, s)
      PROVE  IndInv'
  BY <1>1, IndInvLifetime, IndInvRequest, IndInvResponse, IndInvAccept, IndInvAnswer,
     IndInvGetSharedSecret
  DEF Sides
<1>2. CASE UNCHANGED vars
  <2>1. \A x \in Exchanges : Flow(x)'
    <3>1. \A x \in Exchanges, s \in Sides : Inbox(x, s)' = Inbox(x, s)
      BY <1>2 DEF vars, ikeVars, Inbox
    <3> QED BY <1>2, <3>1, FlowAlone DEF IndInv, vars, ikeVars
  <2> QED BY <1>2, <2>1 DEF vars, ikeVars, IndInv, TypeOK, IkeTypeOK, ObjectLive
<1> QED BY <1>1, <1>2 DEF Next, AllDone

\* Whatever the provider does, the invariant holds throughout.
THEOREM IndInvInvariant == Spec => []IndInv
BY IndInvInit, IndInvStep, PTL DEF Spec

\* Every variable keeps to the values the code can give it.
THEOREM TypeCorrect == Spec => []TypeOK
BY IndInvInvariant, PTL DEF IndInv

\* All requests of an exchange name the key pair its initiator's object has,
\* however often the request is repeated and whatever fails in between.
THEOREM RequestStableInvariant == Spec => []RequestStable
<1>1. IndInv => RequestStable
  <2> SUFFICES ASSUME IndInv, NEW m \in net, m.from = Initiator,
                      object[<<m.exchange, Initiator>>] # None
               PROVE  m.value = PublicKey(object[<<m.exchange, Initiator>>].key)
    BY DEF RequestStable
  <2>1. m.exchange \in Exchanges /\ m \in Inbox(m.exchange, Responder)
    BY DEF IndInv, TypeOK, IkeTypeOK, Payloads, Inbox, Peer, Initiator, Responder
  <2>2. /\ m.value \in PublicKeys
        /\ m.value.pair = object[<<m.exchange, Initiator>>].key
    BY <2>1 DEF IndInv, Flow, Requests
  <2> QED BY <2>2 DEF PublicKeys, PublicKey
<1> QED BY <1>1, IndInvInvariant, PTL

\* Buffers a failed encapsulation left unfilled are never sent, whatever code
\* the provider fails with.
THEOREM NothingUnwrittenInvariant == Spec => []NothingUnwritten
<1>1. IndInv => NothingUnwritten
  <2> SUFFICES ASSUME IndInv, NEW m \in net PROVE m.value # Noise
    BY DEF NothingUnwritten
  <2>1. /\ m.exchange \in Exchanges
        /\ \/ m \in Inbox(m.exchange, Responder)
           \/ m \in Inbox(m.exchange, Initiator)
    BY DEF IndInv, TypeOK, IkeTypeOK, Payloads, Inbox, Peer, Sides, Initiator, Responder
  <2>2. m.value \in PublicKeys \/ m.value \in Ciphertexts
    BY <2>1 DEF IndInv, Flow, Requests, Answers, Answer
  <2> QED BY <2>2, ProviderAssumption
<1> QED BY <1>1, IndInvInvariant, PTL

\* Where no provider call fails with a negative code, a daemon derives keys
\* only from a secret that was encapsulated.
THEOREM SecretObtainedInvariant == NoNegative /\ Spec => []SecretObtained
<1> SUFFICES ASSUME NoNegative PROVE Spec => []SecretObtained
  OBVIOUS
<1>1. IndInv => SecretObtained
  <2> SUFFICES ASSUME IndInv, NEW x \in Exchanges, NEW s \in Sides, pc[<<x, s>>] = "keyed"
               PROVE  secret[<<x, s>>] \in Secrets
    BY DEF SecretObtained, Objects
  <2> QED BY DEF IndInv, Flow, Obtained, SecretOrNoise
<1> QED BY <1>1, IndInvInvariant, PTL

\* Under the same condition an answer that is taken for decapsulated was.
THEOREM DecapsulationTheorem == NoNegative /\ Spec => DecapsulationSuccessful
<1> SUFFICES ASSUME NoNegative PROVE Spec => DecapsulationSuccessful
  OBVIOUS
<1> DEFINE Successful ==
      \A x \in Exchanges :
        set_public_key(x, Initiator) /\ pc'[<<x, Initiator>>] = "peer_set"
          => object'[<<x, Initiator>>].shared_secret \in Secrets
<1>1. IndInv /\ IndInv' => Successful
  <2> SUFFICES ASSUME IndInv', NEW x \in Exchanges, pc'[<<x, Initiator>>] = "peer_set"
               PROVE  object'[<<x, Initiator>>].shared_secret \in Secrets
    OBVIOUS
  <2> QED BY DEF IndInv, Flow, Obtained, SecretOrNoise, NoNegative
<1> HIDE DEF Successful
<1>2. Spec => [][Successful]_vars
  BY <1>1, IndInvInvariant, PTL DEF Spec
<1> QED BY <1>2 DEF DecapsulationSuccessful, Successful

-------------------------------------------------------------------------------
\* The key an exchange has agreed on is the secret encapsulated in it.
LEMMA AgreedIsEncapsulated ==
  ASSUME NEW x \in Exchanges, OneSecret(x)
  PROVE  /\ \A k \in Secrets : secretFor[k] = x => AgreedKey[x] = k
         /\ (\A k \in Secrets : secretFor[k] # x) => AgreedKey[x] = None
<1>1. ASSUME NEW k \in Secrets, secretFor[k] = x PROVE AgreedKey[x] = k
  <2>1. AgreedKey[x] = CHOOSE j \in Secrets : secretFor[j] = x
    BY <1>1 DEF AgreedKey
  <2>2. AgreedKey[x] \in Secrets /\ secretFor[AgreedKey[x]] = x
    BY <1>1, <2>1
  <2> QED BY <1>1, <2>2 DEF OneSecret
<1> QED BY <1>1 DEF AgreedKey

\* A successful encapsulation is the step that agrees on a secret.
LEMMA EncapsulationAgrees ==
  ASSUME IndInv, IndInv', NEW x \in Exchanges, NEW k \in Secrets,
         \A j \in Secrets : secretFor[j] # x,
         secretFor[k] = None, secretFor' = [secretFor EXCEPT ![k] = x],
         secret' = secret
  PROVE  Abstract!Agree(x)
<1>1. /\ TypeOK
      /\ \A y \in Exchanges : OneSecret(y) /\ OneSecret(y)'
  BY DEF IndInv, Flow
<1>2. AgreedKey[x] = None
  BY <1>1, AgreedIsEncapsulated
<1>3. ASSUME NEW y \in Exchanges PROVE AgreedKey[y] # k
  <2>1. CASE \E j \in Secrets : secretFor[j] = y
    BY <1>1, <2>1, AgreedIsEncapsulated, KemAssumption
  <2>2. CASE \A j \in Secrets : secretFor[j] # y
    BY <1>1, <2>2, AgreedIsEncapsulated, ProviderAssumption
  <2> QED BY <2>1, <2>2
<1>4. AgreedKey' = [AgreedKey EXCEPT ![x] = k]
  <2>1. ASSUME NEW y \in Exchanges
        PROVE  AgreedKey'[y] = [AgreedKey EXCEPT ![x] = k][y]
    <3>1. CASE y = x
      <4>1. secretFor'[k] = x
        BY <1>1 DEF TypeOK
      <4>2. AgreedKey'[x] = CHOOSE j \in Secrets : secretFor'[j] = x
        BY <4>1 DEF AgreedKey
      <4>3. AgreedKey'[x] \in Secrets /\ secretFor'[AgreedKey'[x]] = x
        BY <4>1, <4>2
      <4>4. AgreedKey'[x] = k
        BY <1>1, <4>1, <4>3 DEF OneSecret
      <4> QED BY <3>1, <4>4 DEF AgreedKey
    <3>2. CASE y # x
      <4>1. \A j \in Secrets : secretFor'[j] = y <=> secretFor[j] = y
        BY <1>1, <3>2, KemAssumption DEF TypeOK
      <4>2. (CHOOSE j \in Secrets : secretFor'[j] = y)
              = CHOOSE j \in Secrets : secretFor[j] = y
        BY <4>1
      <4> QED BY <3>2, <4>1, <4>2 DEF AgreedKey
    <3> QED BY <3>1, <3>2
  <2> QED BY <2>1 DEF AgreedKey
<1> QED BY <1>2, <1>3, <1>4 DEF Abstract!Agree

\* The responder's set_public_key agrees on a secret, or changes nothing the
\* abstract specification sees.
LEMMA AcceptAgrees ==
  ASSUME IndInv, IndInv', NEW x \in Exchanges, set_public_key(x, Responder)
  PROVE  [Abstract!AbsNext]_<<AgreedKey, secret>>
<1>1. PICK m \in Inbox(x, Responder), ok \in BOOLEAN, ob \in KemObject :
        /\ IkeSetPublicKey(x, Responder, m.value, ok)
        /\ \/ UNCHANGED secretFor
           \/ \E k \in Secrets : /\ secretFor[k] = None
                                 /\ secretFor' = [secretFor EXCEPT ![k] = x]
  BY AcceptEffect
<1>2. secret' = secret /\ pc[<<x, Responder>>] = "created"
  BY <1>1 DEF IkeSetPublicKey, Initiator, Responder
<1>3. CASE UNCHANGED secretFor
  BY <1>2, <1>3 DEF AgreedKey
<1>4. ASSUME NEW k \in Secrets, secretFor[k] = None,
             secretFor' = [secretFor EXCEPT ![k] = x]
      PROVE  Abstract!AbsNext
  <2>1. \A j \in Secrets : secretFor[j] # x
    BY <1>2 DEF IndInv, Flow, Answers
  <2> QED BY <1>2, <1>4, <2>1, EncapsulationAgrees DEF Abstract!AbsNext
<1> QED BY <1>1, <1>3, <1>4

\* A daemon is handed the secret agreed on.
LEMMA HandedOverAgrees ==
  ASSUME NoNegative, IndInv, IndInv', NEW x \in Exchanges, NEW s \in Sides,
         get_shared_secret(x, s)
  PROVE  Abstract!AbsNext
<1> DEFINE o == <<x, s>>
<1>1. /\ IkeGetSharedSecret(x, s, TRUE, object[o].shared_secret)
      /\ UNCHANGED secretFor
  BY DEF get_shared_secret
<1>2. /\ secret' = [secret EXCEPT ![o] = object[o].shared_secret]
      /\ pc' = [pc EXCEPT ![o] = "keyed"]
      /\ o \in Objects /\ TypeOK
  BY <1>1 DEF IkeGetSharedSecret, Objects, IndInv
<1>3. pc'[o] = "keyed" /\ secret'[o] = object[o].shared_secret
  BY <1>2 DEF TypeOK, IkeTypeOK
<1>4. secret'[o] \in Secrets /\ secretFor[secret'[o]] = x
  BY <1>1, <1>3 DEF IndInv, Flow, Obtained, SecretOrNoise, NoNegative
<1>5. AgreedKey[x] = secret'[o]
  BY <1>4, AgreedIsEncapsulated DEF IndInv, Flow
<1>6. AgreedKey[x] # None
  BY <1>4, <1>5, ProviderAssumption
<1>7. AgreedKey' = AgreedKey
  BY <1>1 DEF AgreedKey
<1>8. Abstract!Obtain(x, s)
  BY <1>2, <1>3, <1>5, <1>6, <1>7 DEF Abstract!Obtain
<1> QED BY <1>8 DEF Abstract!AbsNext

\* An exchange settles on the one secret its responder encapsulated, no other
\* exchange settles on that secret, and a side is handed nothing else.
THEOREM KeyAgreementRefinement == NoNegative /\ Spec => ImplementsKeyAgreement
<1> SUFFICES ASSUME NoNegative PROVE Spec => Abstract!AbsSpec
  BY DEF ImplementsKeyAgreement
<1>1. Init => Abstract!AbsInit
  <2> SUFFICES ASSUME Init PROVE Abstract!AbsInit
    OBVIOUS
  <2>1. \A x \in Exchanges : ~\E k \in Secrets : secretFor[k] = x
    BY KemAssumption DEF Init
  <2>2. AgreedKey = [x \in Exchanges |-> None]
    BY <2>1 DEF AgreedKey
  <2>3. secret = [o \in Exchanges \X Sides |-> None]
    BY DEF Init, IkeInit, Objects
  <2> QED BY <2>2, <2>3 DEF Abstract!AbsInit
<1>2. IndInv /\ IndInv' /\ [Next]_vars => [Abstract!AbsNext]_<<AgreedKey, secret>>
  <2> SUFFICES ASSUME IndInv, IndInv', [Next]_vars
               PROVE  [Abstract!AbsNext]_<<AgreedKey, secret>>
    OBVIOUS
  <2>1. ASSUME NEW x \in Exchanges, NEW s \in Sides,
               qkd_kem_create(x, s) \/ get_public_key(x, s) \/ destroy(x, s)
        PROVE  UNCHANGED <<AgreedKey, secret>>
    <3>1. CASE qkd_kem_create(x, s)
      BY <3>1 DEF qkd_kem_create, IkeCreate, AgreedKey
    <3>2. CASE get_public_key(x, s)
      <4>1. ASSUME NEW ok, NEW v, IkeGetPublicKey(x, s, ok, v) PROVE secret' = secret
        BY <4>1 DEF IkeGetPublicKey, IkeBuildRequest, IkeBuildResponse
      <4>2. secret' = secret /\ secretFor' = secretFor
        BY <3>2, <4>1 DEF get_public_key
      <4> QED BY <4>2 DEF AgreedKey
    <3>3. CASE destroy(x, s)
      BY <3>3 DEF destroy, IkeDestroy, AgreedKey
    <3> QED BY <2>1, <3>1, <3>2, <3>3
  <2>2. ASSUME NEW x \in Exchanges, set_public_key(x, Initiator)
        PROVE  UNCHANGED <<AgreedKey, secret>>
    <3>1. PICK m \in Inbox(x, Initiator), ok \in BOOLEAN, ob \in KemObject :
            IkeSetPublicKey(x, Initiator, m.value, ok) /\ UNCHANGED secretFor
      BY <2>2, AnswerEffect
    <3> QED BY <3>1 DEF IkeSetPublicKey, AgreedKey
  <2>3. CASE UNCHANGED vars
    BY <2>3 DEF vars, ikeVars, AgreedKey
  <2> QED BY <2>1, <2>2, <2>3, AcceptAgrees, HandedOverAgrees DEF Next, AllDone, Sides
<1> QED BY <1>1, <1>2, IndInvInvariant, PTL DEF Spec, Abstract!AbsSpec, Abstract!absVars

Promise == INSTANCE KeyAgreementProofs WITH Keys <- Secrets, agreed <- AgreedKey,
                                            obtained <- secret

\* The two names of the promise are one formula.
LEMMA SamePromise == Abstract!AbsSpec => Promise!AbsSpec
BY DEF Abstract!AbsSpec, Abstract!absVars, Abstract!AbsInit, Abstract!AbsNext,
       Abstract!Agree, Abstract!Obtain,
       Promise!AbsSpec, Promise!absVars, Promise!AbsInit, Promise!AbsNext,
       Promise!Agree, Promise!Obtain

\* Where no provider call fails with a negative value, the daemons of an exchange
\* derive their keys from the same secret, those of two exchanges never do, and a
\* secret a daemon was handed is not replaced by a later call.
THEOREM DaemonsAgree ==
  NoNegative /\ Spec => /\ [](Promise!SidesAgree /\ Promise!ExchangesApart)
                        /\ Promise!ObtainedForGood
BY SamePromise, KeyAgreementRefinement, Promise!PromiseAgrees, Promise!PromiseStands, PTL
   DEF ImplementsKeyAgreement
===============================================================================
