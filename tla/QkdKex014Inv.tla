------------------------------ MODULE QkdKex014Inv ------------------------------
(* The inductive invariant behind the safety properties of QkdKex014. Its      *)
(* parts say which of the calls made so far have drawn a key, and where the    *)
(* ID of that key can be by now.                                               *)
EXTENDS QkdKex014

\* No request is repeated between builds of different modes.
Compatible ==
  \A x \in Exchanges :
    Mode[<<x, Initiator>>] = "client" /\ Mode[<<x, Responder>>] = "server"
      => MaxGets = 1

Drawn(x) == \E k \in KeyIds : drawnFor[k] = x
HasKeyId(o) == handle[o].key_id # None

\* What an object, a message or a daemon holds belongs to its own exchange.
HandleOwn ==
  \A o \in Objects :
    /\ handle[o] # None <=> pc[o] \in Live
    /\ handle[o] # None =>
         /\ handle[o].key_id # None => drawnFor[handle[o].key_id] = o[1]
         /\ handle[o].key # None => drawnFor[handle[o].key] = o[1]
MessageOwn ==
  \A m \in net : m.value # None => drawnFor[m.value] = m.exchange
SecretOwn ==
  \A o \in Objects : secret[o] # None => drawnFor[secret[o]] = o[1]

\* A key is drawn when, and only when, it leaves the KMEs' store.
Ledger == \A k \in KeyIds : drawnFor[k] = None <=> kme[k] = "stored"

Ownership ==
  /\ TypeOK
  /\ HandleOwn
  /\ MessageOwn
  /\ SecretOwn
  /\ Ledger

\* Nothing happens in an exchange before the initiator's first request.
Quiet(x) ==
  pc[<<x, Initiator>>] \in {"absent", "created"} =>
    /\ ~Drawn(x)
    /\ pc[<<x, Responder>>] = "absent"
    /\ \A s \in Sides : Inbox(x, s) = {}

\* An object starts without a key ID; who has accepted a request, and a
\* client-mode initiator that has sent one, has the exchange's.
Roles(x) ==
  /\ \A s \in Sides : pc[<<x, s>>] = "created" => ~HasKeyId(<<x, s>>)
  /\ pc[<<x, Initiator>>] = "sent" =>
       /\ gets[x] > 0
       /\ HasKeyId(<<x, Initiator>>) <=> Mode[<<x, Initiator>>] = "client"
  /\ pc[<<x, Responder>>] = "peer_set" => HasKeyId(<<x, Responder>>)

\* Where the initiator is built server-initiated the first draw is the
\* responder's, and only a responder of the same mode makes it.
ServerFlow(x) ==
  Mode[<<x, Initiator>>] = "server" =>
    /\ \A m \in Inbox(x, Responder) : m.value = None
    /\ \A m \in Inbox(x, Initiator) : m.value # None
    /\ pc[<<x, Responder>>] \in {"absent", "created"} => ~Drawn(x)
    /\ Mode[<<x, Responder>>] = "client" => pc[<<x, Responder>>] # "peer_set"

\* A client-mode initiator names its key to a server-mode responder, and a
\* responder that accepts a request of it has fetched the key it drew.
ClientFlow(x) ==
  Mode[<<x, Initiator>>] = "client" =>
    /\ Mode[<<x, Responder>>] = "server" =>
         \A m \in Inbox(x, Responder) : m.value # None
    /\ pc[<<x, Responder>>] = "peer_set" \/ Inbox(x, Initiator) # {}
         => \A k \in KeyIds : drawnFor[k] = x => kme[k] = "delivered"

\* The initiator's daemon goes on to the secret only with an answer.
Answered(x) ==
  pc[<<x, Initiator>>] = "peer_set" \/ secret[<<x, Initiator>>] # None
    => Inbox(x, Initiator) # {}

\* A repeated request may cost an exchange between different builds a second
\* key; what the two sides know of each other's key is lost with it.
Flow(x) ==
  /\ Quiet(x)
  /\ Roles(x)
  /\ ServerFlow(x)
  /\ Answered(x)
  /\ ~MixedRepeat(x) => OneKey(x) /\ ClientFlow(x)

\* A server-mode initiator has no key but one it has fetched by its ID.
Fetched(x) ==
  Mode[<<x, Initiator>>] = "server" =>
    LET o == <<x, Initiator>>
    IN  /\ handle[o] # None /\ handle[o].key # None => kme[handle[o].key] = "delivered"
        /\ secret[o] # None => kme[secret[o]] = "delivered"

\* The key in a handle is that of the ID in it: no call replaces the ID of an
\* object that has its key already.
KeyOfItsId ==
  \A o \in Objects :
    handle[o] # None /\ handle[o].key # None => handle[o].key = handle[o].key_id

IndInv ==
  /\ Ownership
  /\ KeyOfItsId
  /\ \A x \in Exchanges : Flow(x)
  /\ \A x \in Exchanges : Fetched(x)
================================================================================
