------------------------------ MODULE QkdKex004Inv ------------------------------
(* The inductive invariant behind the safety properties of QkdKex004. Its      *)
(* parts say what an object, a daemon and the KMEs know of one stream, and how *)
(* far an exchange is when the responder has taken the stream's key.           *)
EXTENDS QkdKex004

\* The KMEs deliver a key in one piece.
WholeKeys == ~ShortChunks

\* A stream belongs to the exchange it was opened for.
Ledger == \A k \in KeyIds : openedFor[k] = None <=> k \notin kme.opened

\* v is the key of a stream of x, or the part of a key that short chunks make.
KeyOf(x, v) ==
  \/ v \in KeyIds /\ openedFor[v] = x
  \/ v = Torn /\ ShortChunks

\* A handle has no key but that of its stream, or part of one.
KeyHeld(h) ==
  /\ h.key # None => h.key_id # None /\ h.key \in {h.key_id, Torn}
  /\ h.key = Torn => ShortChunks

\* An object has a handle from its creation until it is destroyed, and the
\* handle knows a stream of its own exchange only.
HandleOwn(o) ==
  /\ handle[o] # None <=> pc[o] \in Live
  /\ key_retrieved[o] => handle[o] # None /\ handle[o].key # None
  /\ handle[o] # None =>
       /\ KeyHeld(handle[o])
       /\ handle[o].key_id # None => openedFor[handle[o].key_id] = o[1]

\* The handle h of o and the KMEs K agree on the stream o is connected to,
\* except where o was told of a failure.
EndKnown(o, h, K) ==
  /\ h # None /\ h.is_connected => h.key_id # None /\ o \in K.ends[h.key_id]
  /\ \A k \in KeyIds :
       o \in K.ends[k] \ K.misled => h # None /\ h.is_connected /\ h.key_id = k
  /\ o \in K.misled => OpenFails \/ CloseFails

SecretOwn(o) == secret[o] # None => KeyOf(o[1], secret[o])

\* Nothing happens in an exchange before the initiator's first request.
Quiet(x) ==
  pc[<<x, Initiator>>] \in {"absent", "created"} =>
    /\ \A k \in KeyIds : openedFor[k] # x
    /\ pc[<<x, Responder>>] = "absent"
    /\ \A s \in Sides : Inbox(x, s) = {}

\* An object starts empty; one that has sent something, or accepted a request,
\* has a stream.
Roles(x) ==
  /\ \A s \in Sides :
       pc[<<x, s>>] = "created" =>
         handle[<<x, s>>] = [key_id |-> None, key |-> None, is_connected |-> FALSE]
  /\ pc[<<x, Initiator>>] = "sent" => handle[<<x, Initiator>>].key_id # None
  /\ pc[<<x, Responder>>] = "peer_set" => handle[<<x, Responder>>].key_id # None

\* An exchange opens one stream, and names no other.
OneStream(x) ==
  /\ \A j, k \in KeyIds : openedFor[j] = x /\ openedFor[k] = x => j = k
  /\ \A s \in Sides : \A m \in Inbox(x, s) :
       m.value \in KeyIds /\ openedFor[m.value] = x

\* A responder that has accepted a request was given the key of the stream, and
\* the initiator's daemon goes on to the secret only with an answer.
Answered(x) ==
  /\ pc[<<x, Responder>>] = "peer_set" \/ Inbox(x, Initiator) # {}
       => \A k \in KeyIds : openedFor[k] = x => <<x, Responder>> \in kme.served[k]
  /\ pc[<<x, Initiator>>] = "peer_set" \/ secret[<<x, Initiator>>] # None
       => Inbox(x, Initiator) # {}

Flow(x) ==
  /\ Quiet(x)
  /\ Roles(x)
  /\ OneStream(x)
  /\ Answered(x)

IndInv ==
  /\ TypeOK
  /\ Ledger
  /\ \A o \in Objects : HandleOwn(o) /\ EndKnown(o, handle[o], kme) /\ SecretOwn(o)
  /\ \A x \in Exchanges : Flow(x)
================================================================================
