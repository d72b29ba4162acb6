------------------------------- MODULE QkdKex004 -------------------------------
(* The "qkd" key exchange method (qkd_kex.c) in an ETSI 004 build, run by    *)
(* the two IKE daemons of every exchange against a common pair of KMEs. The  *)
(* initiator opens a key stream and sends its ID, the responder joins it and *)
(* answers with the same ID; both take the first key of the stream.          *)
EXTENDS IkeExchange, QkdEtsi004

CONSTANT Env004         \* sides that run with ETSI_API_VERSION=004

ASSUME Kex004Assumption == None \notin Exchanges /\ Env004 \subseteq Sides

VARIABLES handle,         \* private_qkd_kex_t.handle of each object, or None
          key_retrieved,  \* private_qkd_kex_t.key_retrieved
          shared_secret,  \* qkd_kex_t.shared_secret
          kme,            \* the KMEs' key streams
          openedFor       \* history: the exchange a stream was opened for

objVars == <<handle, key_retrieved, shared_secret>>
vars == <<ikeVars, objVars, kme, openedFor>>

TypeOK ==
  /\ IkeTypeOK(Chunks, Keys)
  /\ handle \in [Objects -> Handle \cup {None}]
  /\ key_retrieved \in [Objects -> BOOLEAN]
  /\ shared_secret \in [Objects -> Keys \cup {None}]
  /\ kme \in Kme(Objects)
  /\ openedFor \in [KeyIds -> Exchanges \cup {None}]

Init ==
  /\ IkeInit
  /\ handle = [o \in Objects |-> None]
  /\ key_retrieved = [o \in Objects |-> FALSE]
  /\ shared_secret = [o \in Objects |-> None]
  /\ kme = [opened |-> {}, ends |-> [k \in KeyIds |-> {}],
            served |-> [k \in KeyIds |-> {}], misled |-> {}]
  /\ openedFor = [k \in KeyIds |-> None]

\* The KMEs change as a call of exchange x leaves them.
KmeBecomes(x, newKme) ==
  /\ kme' = newKme
  /\ openedFor' = [k \in KeyIds |->
                     IF k \in newKme.opened \ kme.opened THEN x ELSE openedFor[k]]

-------------------------------------------------------------------------------
is_etsi_004_mode(s) == s \in Env004

qkd_kex_create(x, s) ==
  \E h \in qkd_open :
    /\ IkeCreate(x, s, h # None)
    /\ handle' = [handle EXCEPT ![<<x, s>>] = h]
    /\ UNCHANGED <<key_retrieved, shared_secret, kme, openedFor>>

\* Variant: a stored key ID is taken for the responder's, and not sent again.
SendsIdOnce(me, h) ==
  IF qkd_is_key_id_null(h)
  THEN {[out |-> r, value |-> r.handle.key_id] : r \in qkd_get_key_id(me, h, kme)}
  ELSE {[out |-> Outcome(TRUE, h, kme), value |-> None]}

\* The value to send: the ID of the stream the object opened, or joined.
PublicKey(me, h) ==
  IF qkd_is_key_id_null(h)
  THEN {[out |-> r, value |-> r.handle.key_id] : r \in qkd_get_key_id(me, h, kme)}
  ELSE LET stored == qkd_get_stored_key_id(h)
       IN  {[out |-> Outcome(stored.ret, h, kme), value |-> stored.value]}

get_public_key(x, s) ==
  /\ pc[<<x, s>>] \in Live
  /\ \E r \in PublicKey(<<x, s>>, handle[<<x, s>>]) :
       /\ IkeGetPublicKey(x, s, r.out.ret, r.value)
       /\ handle' = [handle EXCEPT ![<<x, s>>] = r.out.handle]
       /\ KmeBecomes(x, r.out.kme)
       /\ UNCHANGED <<key_retrieved, shared_secret>>

\* The received ID is stored, its stream is joined, and its key is taken: the
\* KMEs are called twice, and the outcome of the first call survives.
JoinStream(me, h, value) ==
  UNION { IF r.ret THEN qkd_get_key(me, r.handle, r.kme) ELSE {r}
        : r \in qkd_set_key_id(me, h, value, kme) }

\* Variant: the responder opens a stream of its own.
OpensItsOwn(me, h, value, retrieved) ==
  IF qkd_is_key_id_null(h)
  THEN UNION { IF r.ret THEN qkd_get_key(me, r.handle, r.kme) ELSE {r}
             : r \in qkd_get_key_id(me, h, kme) }
  ELSE IF retrieved THEN {Outcome(TRUE, h, kme)} ELSE qkd_get_key(me, h, kme)

\* Variant: the responder leaves its key to be taken later.
JoinsOnly(me, h, value, retrieved) ==
  IF qkd_is_key_id_null(h)
  THEN IF value \in KeyIds THEN qkd_set_key_id(me, h, value, kme)
                           ELSE {Outcome(FALSE, h, kme)}
  ELSE IF retrieved THEN {Outcome(TRUE, h, kme)} ELSE qkd_get_key(me, h, kme)

\* An object without a key ID is the responder. The initiator takes the key of
\* its own stream, whatever ID the responder answered with.
PeerKey(me, h, value, retrieved) ==
  IF qkd_is_key_id_null(h)
  THEN IF value \in KeyIds THEN JoinStream(me, h, value) ELSE {Outcome(FALSE, h, kme)}
  ELSE IF retrieved THEN {Outcome(TRUE, h, kme)} ELSE qkd_get_key(me, h, kme)

set_public_key(x, s) ==
  /\ pc[<<x, s>>] \in Live
  /\ \E m \in Inbox(x, s) :
     \E r \in PeerKey(<<x, s>>, handle[<<x, s>>], m.value, key_retrieved[<<x, s>>]) :
       /\ IkeSetPublicKey(x, s, m.value, r.ret)
       /\ handle' = [handle EXCEPT ![<<x, s>>] = r.handle]
       /\ key_retrieved' = [key_retrieved EXCEPT ![<<x, s>>] = @ \/ r.ret]
       /\ KmeBecomes(x, r.kme)
       /\ UNCHANGED shared_secret

Retrieval(me, h, retrieved, s) ==
  IF is_etsi_004_mode(s) /\ ~retrieved THEN qkd_get_key(me, h, kme)
                                       ELSE {Outcome(TRUE, h, kme)}

get_shared_secret(x, s) ==
  /\ pc[<<x, s>>] \in Live
  /\ \E r \in Retrieval(<<x, s>>, handle[<<x, s>>], key_retrieved[<<x, s>>], s) :
       LET key == qkd_get_shared_secret(r.handle)
           ok  == r.ret /\ key.ret
       IN  /\ IkeGetSharedSecret(x, s, ok, key.value)
           /\ handle' = [handle EXCEPT ![<<x, s>>] = r.handle]
           /\ KmeBecomes(x, r.kme)
           /\ key_retrieved' = [key_retrieved EXCEPT ![<<x, s>>] =
                                  @ \/ (is_etsi_004_mode(s) /\ r.ret)]
           /\ shared_secret' = [shared_secret EXCEPT ![<<x, s>>] =
                                  IF ok THEN key.value ELSE @]

destroy(x, s) ==
  /\ IkeDestroy(x, s)
  /\ \E newKme \in qkd_close(<<x, s>>, handle[<<x, s>>], kme) : KmeBecomes(x, newKme)
  /\ handle' = [handle EXCEPT ![<<x, s>>] = None]
  /\ key_retrieved' = [key_retrieved EXCEPT ![<<x, s>>] = FALSE]
  /\ shared_secret' = [shared_secret EXCEPT ![<<x, s>>] = None]

-------------------------------------------------------------------------------
Call(x, s) ==
  \/ qkd_kex_create(x, s)
  \/ get_public_key(x, s)
  \/ set_public_key(x, s)
  \/ get_shared_secret(x, s)

AllDone == IkeAllDone /\ UNCHANGED vars

Next ==
  \/ \E x \in Exchanges, s \in Sides : Call(x, s) \/ destroy(x, s)
  \/ AllDone

Spec == Init /\ [][Next]_vars

\* As in QkdKex014: the daemons' workers take up the next job of every exchange.
FairSpec ==
  /\ Spec
  /\ \A x \in Exchanges, s \in Sides : WF_vars(Call(x, s)) /\ WF_vars(destroy(x, s))

-------------------------------------------------------------------------------
\* A handle that says it is connected is an end of the stream whose ID it has:
\* the calls it makes, CLOSE above all, are about a stream it is on.
ConnectedToItsId ==
  \A o \in Objects :
    handle[o] # None /\ handle[o].is_connected =>
      handle[o].key_id # None /\ o \in kme.ends[handle[o].key_id]

\* Every end of a stream is an object that will close it: no order of calls,
\* failures and aborts leaves a stream at the KMEs with nobody to close it,
\* unless the KMEs themselves failed the OPEN_CONNECT or the CLOSE.
NoOrphanStream ==
  \A k \in KeyIds : \A o \in kme.ends[k] \ kme.misled :
    handle[o] # None /\ handle[o].is_connected /\ handle[o].key_id = k

\* An object that was destroyed is no end of a stream any more: qkd_close, which
\* reports success for every handle, has closed the connection it had.
CloseReleases ==
  [][ \A x \in Exchanges, s \in Sides :
        destroy(x, s) => \A k \in KeyIds : <<x, s>> \notin kme'.ends[k] ]_vars

\* An object that takes the key of its key ID for retrieved holds that key.
RetrievedKey ==
  \A o \in Objects : key_retrieved[o] => handle[o].key = handle[o].key_id

\* The initiator derives its keys only from a stream whose key the responder
\* has been given.
ConfirmedKey ==
  \A x \in Exchanges :
    LET k == secret[<<x, Initiator>>] IN k \in KeyIds => <<x, Responder>> \in kme.served[k]

\* Every stream that was opened for an exchange is closed by both its ends in
\* the end, whichever of them is through first.
StreamsClosed == \A k \in KeyIds : <>[](kme.ends[k] = {})

\* Where no call fails, no side gives up and the KMEs have a stream left for
\* it, every exchange ends with both daemons holding its secret, also if the
\* initiator was made to repeat its request. The responder is free to close
\* the stream before the initiator takes its key.
Completes ==
  \A x \in Exchanges : <>(\A s \in Sides : secret[<<x, s>>] # None)

\* The method keeps the promise of KeyAgreement: an exchange settles on the
\* first key of the stream it opened.
AgreedKey ==
  [x \in Exchanges |->
     IF \E k \in KeyIds : openedFor[k] = x
     THEN CHOOSE k \in KeyIds : openedFor[k] = x
     ELSE None]

Abstract == INSTANCE KeyAgreement WITH Keys <- KeyIds, agreed <- AgreedKey,
                                       obtained <- secret

ImplementsKeyAgreement == Abstract!AbsSpec
===============================================================================
