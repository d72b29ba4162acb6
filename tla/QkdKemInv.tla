------------------------------- MODULE QkdKemInv -------------------------------
(* The inductive invariant behind the safety properties of QkdKem. Its parts   *)
(* say which key pair the requests of an exchange name, which of its objects   *)
(* hold a secret that was encapsulated, and to which pair.                     *)
EXTENDS QkdKem

\* No call of the provider fails in the way set_ciphertext takes for success.
NoNegative == -1 \notin Errors

\* An object exists from its creation until it is destroyed.
ObjectLive == \A o \in Objects : object[o] # None <=> pc[o] \in Live

\* The initiator's object never has a ciphertext, has no secret before it takes
\* an answer, generates its key pair before it sends anything, and names no
\* other pair in its requests.
Requests(x) ==
  LET i == <<x, Initiator>>
  IN  /\ object[i] # None => object[i].ciphertext = None
      /\ pc[i] \in {"absent", "created"} => Inbox(x, Responder) = {}
      /\ pc[i] \in {"created", "sent"} => object[i].shared_secret = None
      /\ pc[i] \in {"sent", "peer_set"} => object[i].key # None
      /\ \A m \in Inbox(x, Responder) :
           /\ m.value \in PublicKeys
           /\ object[i] # None => m.value.pair = object[i].key

\* A value that answers a request of x: a secret of x, encapsulated to the pair
\* the request named.
Answer(x, value) ==
  /\ value \in Ciphertexts
  /\ secretFor[value.secret] = x
  /\ \E m \in Inbox(x, Responder) : m.value = PublicKey(value.pair)

\* The responder's object is empty until it accepts a request; then it has an answer, and the secret inside.
Answers(x) ==
  LET r == <<x, Responder>>
  IN  /\ pc[r] \in {"absent", "created"} =>
           /\ Inbox(x, Initiator) = {}
           /\ \A k \in Secrets : secretFor[k] # x
      /\ pc[r] = "created" =>
           /\ object[r].key = None
           /\ object[r].ciphertext = None
           /\ object[r].shared_secret = None
      /\ pc[r] \in {"peer_set", "sent"} =>
           /\ Answer(x, object[r].ciphertext)
           /\ object[r].shared_secret = object[r].ciphertext.secret
      /\ \A m \in Inbox(x, Initiator) : Answer(x, m.value)

\* An exchange uses one secret.
OneSecret(x) ==
  \A j, k \in Secrets : secretFor[j] = x /\ secretFor[k] = x => j = k

\* v is the secret of exchange x; for the initiator it may be the noise that a
\* negative code of the provider lets in.
SecretOrNoise(x, s, v) ==
  \/ v \in Secrets /\ secretFor[v] = x
  \/ v = Noise /\ s = Initiator /\ ~NoNegative

\* What the initiator decapsulated, and what the daemons were handed.
Obtained(x) ==
  /\ pc[<<x, Initiator>>] = "peer_set" =>
       SecretOrNoise(x, Initiator, object[<<x, Initiator>>].shared_secret)
  /\ \A s \in Sides :
       /\ pc[<<x, s>>] = "keyed" => secret[<<x, s>>] # None
       /\ secret[<<x, s>>] # None => SecretOrNoise(x, s, secret[<<x, s>>])

\* What the invariant says of one exchange.
Flow(x) ==
  /\ Requests(x)
  /\ Answers(x)
  /\ OneSecret(x)
  /\ Obtained(x)

IndInv ==
  /\ TypeOK
  /\ ObjectLive
  /\ \A x \in Exchanges : Flow(x)
================================================================================
