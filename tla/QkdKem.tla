--------------------------------- MODULE QkdKem ---------------------------------
(* The qkd-kem key exchange method (qkd_kem.c), run by the two IKE daemons of *)
(* every exchange. The initiator sends a public key, the responder            *)
(* encapsulates a secret to it and answers with the ciphertext. An object     *)
(* takes itself for the initiator's if it has a key pair, for the responder's *)
(* if it has a ciphertext; client- and server-initiated builds differ in what *)
(* they log.                                                                  *)
(* The EVP_PKEY_CTX an object keeps is left out: a context is made where one  *)
(* is needed, and where that fails the method fails.                          *)
EXTENDS IkeExchange, QkdKemProvider


VARIABLES object,       \* private_qkd_kem_t of each object, or None
          generated,    \* the provider's key pairs in use
          secretFor     \* the exchange a secret was encapsulated in

vars == <<ikeVars, object, generated, secretFor>>

Payload == PublicKeys \cup Ciphertexts \cup {Noise}

\* The length of a chunk, of which only equality matters; 0 is None.
Length(value) == IF value \in PublicKeys THEN "public_key" ELSE "ciphertext"

KemObject == [key : KeyPairs \cup {None},
              ciphertext : Ciphertexts \cup {Noise, None},
              ciphertext_len : {"public_key", "ciphertext", None},
              shared_secret : Secrets \cup {Noise, None}]

ASSUME KemAssumption == /\ None \notin Exchanges
                        /\ None \notin KemObject

TypeOK ==
  /\ IkeTypeOK(Payload, Secrets \cup {Noise})
  /\ object \in [Objects -> KemObject \cup {None}]
  /\ generated \subseteq KeyPairs
  /\ secretFor \in [Secrets -> Exchanges \cup {None}]

Init ==
  /\ IkeInit
  /\ object = [o \in Objects |-> None]
  /\ generated = {}
  /\ secretFor = [k \in Secrets |-> None]

-------------------------------------------------------------------------------
\* The provider could be loaded into the object's library context, and is
\* available there.
load_provider_to_context == {TRUE} \cup Fails({FALSE})

\* No object if the library context, the provider in it or a context for the
\* method cannot be had.
qkd_kem_create(x, s) ==
  \E loaded \in load_provider_to_context :
  \E ob \in IF loaded
            THEN {[key |-> None, ciphertext |-> None, ciphertext_len |-> None,
                   shared_secret |-> None]} \cup Fails({None})
            ELSE {None} :
    /\ IkeCreate(x, s, ob # None)
    /\ object' = [object EXCEPT ![<<x, s>>] = ob]
    /\ UNCHANGED <<generated, secretFor>>

Outcome(ret, ob) == [ret |-> ret, object |-> ob]

\* Variant: a repeated request generates a key pair of its own.
AlwaysGenerates(ob) ==
  {Outcome(TRUE, [ob EXCEPT !.key = p]) : p \in KeyPairs \ generated}
  \cup {Outcome(FALSE, ob)}

\* The object's key pair, generated by the first call. A failed generation, be
\* its code 0 or negative, leaves no key behind; one that cannot be exported
\* stays.
KeyPair(ob) ==
  LET fresh == KeyPairs \ generated
      kept  == IF ob.key # None THEN {ob}
                                ELSE {[ob EXCEPT !.key = p] : p \in fresh}
  IN  {Outcome(TRUE, o) : o \in kept}
      \cup Fails({Outcome(FALSE, o) : o \in kept \cup {ob}})
      \cup IF kept = {} THEN {Outcome(FALSE, ob)} ELSE {}

get_public_key(x, s) ==
  /\ pc[<<x, s>>] \in Live
  /\ LET ob == object[<<x, s>>]
     IN  \/ /\ ob.ciphertext # None
            /\ IkeGetPublicKey(x, s, TRUE, ob.ciphertext)
            /\ UNCHANGED <<object, generated>>
         \/ /\ ob.ciphertext = None
            /\ \E r \in KeyPair(ob) :
                 /\ IkeGetPublicKey(x, s, r.ret, PublicKey(r.object.key))
                 /\ object' = [object EXCEPT ![<<x, s>>] = r.object]
                 /\ generated' = generated \cup ({r.object.key} \ {None})
  /\ UNCHANGED secretFor

\* The peer's key is imported, the sizes are asked for, the buffers are
\* replaced, and filled: each step may fail and leaves what came before it.
\* Buffers that could not be filled stay.
Encapsulation(ob, value) ==
  LET sized   == [ob EXCEPT !.ciphertext_len = "ciphertext"]
      dropped == [sized EXCEPT !.ciphertext = None, !.shared_secret = None]
      fresh   == {k \in Secrets : secretFor[k] = None}
  IN  IF value \notin PublicKeys
      THEN {[code |-> 0, object |-> ob]}
      ELSE { [code |-> r.code, object |-> [sized EXCEPT !.ciphertext = r.ciphertext,
                                                        !.shared_secret = r.secret]]
           : r \in Encapsulate(value, fresh) }
           \cup [code : Errors, object : {ob, dropped}]

\* Variant: no result is looked at.
EncapsUnchecked(ob, value) ==
  {Outcome(TRUE, r.object) : r \in Encapsulation(ob, value)}

\* Every result is compared with <= 0.
encaps_shared_secret(ob, value) ==
  {Outcome(r.code > 0, r.object) : r \in Encapsulation(ob, value)}

\* Variant: the answer's secret is left for later.
KeepsOldSecret(ob, value) == {Outcome(TRUE, ob)}

\* Variant: the ciphertext is taken for the secret.
TakesCiphertext(ob, value) == {Outcome(TRUE, [ob EXCEPT !.shared_secret = value])}

\* The first value received sets the length expected. The secret is dropped
\* before it is replaced, and the code of the decapsulation is only tested for
\* 0. (A negative code of the steps before leaves a length of 0, for which no
\* buffer is allocated.)
set_ciphertext(ob, value) ==
  LET sized   == IF ob.ciphertext_len = None
                 THEN [ob EXCEPT !.ciphertext_len = Length(value)] ELSE ob
      dropped == [sized EXCEPT !.shared_secret = None]
  IN  IF Length(value) # sized.ciphertext_len
      THEN {Outcome(FALSE, sized)}
      ELSE Fails({Outcome(FALSE, sized), Outcome(FALSE, dropped)})
           \cup { IF r.code = 0
                  THEN Outcome(FALSE, dropped)
                  ELSE Outcome(TRUE, [dropped EXCEPT !.shared_secret = r.secret])
                : r \in Decapsulate(ob.key, value) }

set_public_key(x, s) ==
  /\ pc[<<x, s>>] \in Live
  /\ \E m \in Inbox(x, s) :
     \E r \in IF object[<<x, s>>].key # None
              THEN set_ciphertext(object[<<x, s>>], m.value)
              ELSE encaps_shared_secret(object[<<x, s>>], m.value) :
       /\ IkeSetPublicKey(x, s, m.value, r.ret)
       /\ object' = [object EXCEPT ![<<x, s>>] = r.object]
       /\ secretFor' = [k \in Secrets |->
                          IF secretFor[k] = None /\ r.object.shared_secret = k
                          THEN x ELSE secretFor[k]]
       /\ UNCHANGED generated

\* Whatever the object has is handed over, and always successfully.
get_shared_secret(x, s) ==
  /\ pc[<<x, s>>] \in Live
  /\ IkeGetSharedSecret(x, s, TRUE, object[<<x, s>>].shared_secret)
  /\ UNCHANGED <<object, generated, secretFor>>

destroy(x, s) ==
  /\ IkeDestroy(x, s)
  /\ object' = [object EXCEPT ![<<x, s>>] = None]
  /\ UNCHANGED <<generated, secretFor>>

-------------------------------------------------------------------------------
AllDone == IkeAllDone /\ UNCHANGED vars

Next ==
  \/ \E x \in Exchanges, s \in Sides :
       \/ qkd_kem_create(x, s)
       \/ get_public_key(x, s)
       \/ set_public_key(x, s)
       \/ get_shared_secret(x, s)
       \/ destroy(x, s)
  \/ AllDone

Spec == Init /\ [][Next]_vars

-------------------------------------------------------------------------------
\* All requests of an exchange name one key pair, the one the initiator's
\* object will decapsulate with: the responder may answer any of them.
RequestStable ==
  \A m \in net :
    m.from = Initiator /\ object[<<m.exchange, Initiator>>] # None
      => m.value = PublicKey(object[<<m.exchange, Initiator>>].key)

\* The buffers a failed encapsulation left unfilled are never sent.
NothingUnwritten == \A m \in net : m.value # Noise

\* A daemon derives keys only from a secret that was encapsulated, although
\* get_shared_secret hands over whatever the object has.
SecretObtained ==
  \A o \in Objects : pc[o] = "keyed" => secret[o] \in Secrets

\* An answer that is taken for decapsulated was decapsulated.
DecapsulationSuccessful ==
  [][ \A x \in Exchanges :
        set_public_key(x, Initiator) /\ pc'[<<x, Initiator>>] = "peer_set"
          => object'[<<x, Initiator>>].shared_secret \in Secrets ]_vars

\* The method keeps the promise of KeyAgreement: an exchange settles on the
\* secret the responder encapsulated in it.
AgreedKey ==
  [x \in Exchanges |->
     IF \E k \in Secrets : secretFor[k] = x
     THEN CHOOSE k \in Secrets : secretFor[k] = x
     ELSE None]

Abstract == INSTANCE KeyAgreement WITH Keys <- Secrets, agreed <- AgreedKey,
                                       obtained <- secret

ImplementsKeyAgreement == Abstract!AbsSpec
===============================================================================
