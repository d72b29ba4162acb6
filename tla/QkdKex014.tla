------------------------------- MODULE QkdKex014 -------------------------------
(* The "qkd" key exchange method (qkd_kex.c) in an ETSI 014 build, run by    *)
(* the two IKE daemons of every exchange against a common pair of KMEs.      *)
(*                                                                           *)
(* The plugin is never told whether it serves the IKE initiator or the       *)
(* responder: every method infers its role from whether the handle already   *)
(* has a key ID and, in a server-initiated build, from the length of the     *)
(* value received. The initiation mode is chosen when a daemon's plugin is   *)
(* built, ETSI_API_VERSION when the daemon is started. The exchanges need    *)
(* not all be between the same two daemons.                                  *)
EXTENDS IkeExchange, QkdEtsi014

CONSTANTS Mode,         \* Mode[<<x, s>>]: how the plugin of side s of x was built
          Env004        \* sides that run with ETSI_API_VERSION=004

Modes == {"client", "server"}

ASSUME Kex014Assumption == /\ None \notin Exchanges
                           /\ Mode \in [Objects -> Modes]
                           /\ Env004 \subseteq Sides

VARIABLES handle,         \* private_qkd_kex_t.handle of each object, or None
          key_retrieved,  \* private_qkd_kex_t.key_retrieved
          shared_secret,  \* qkd_kex_t.shared_secret
          kme,            \* status of each key in the KMEs
          drawnFor        \* history: the exchange a key was issued for

objVars == <<handle, key_retrieved, shared_secret>>
vars == <<ikeVars, objVars, kme, drawnFor>>

TypeOK ==
  /\ IkeTypeOK(Chunks, KeyIds)
  /\ handle \in [Objects -> Handle \cup {None}]
  /\ key_retrieved \in [Objects -> BOOLEAN]
  /\ shared_secret \in [Objects -> Chunks]
  /\ kme \in Kme
  /\ drawnFor \in [KeyIds -> Exchanges \cup {None}]

Init ==
  /\ IkeInit
  /\ handle = [o \in Objects |-> None]
  /\ key_retrieved = [o \in Objects |-> FALSE]
  /\ shared_secret = [o \in Objects |-> None]
  /\ kme = [k \in KeyIds |-> "stored"]
  /\ drawnFor = [k \in KeyIds |-> None]

\* The KMEs change as a call of exchange x leaves them.
KmeBecomes(x, newKme) ==
  /\ kme' = newKme
  /\ drawnFor' = [k \in KeyIds |->
                    IF kme[k] = "stored" /\ newKme[k] # "stored"
                    THEN x ELSE drawnFor[k]]

-------------------------------------------------------------------------------
is_etsi_004_mode(s) == s \in Env004

qkd_kex_create(x, s) ==
  \E h \in qkd_open :
    /\ IkeCreate(x, s, h # None)
    /\ handle' = [handle EXCEPT ![<<x, s>>] = h]
    /\ UNCHANGED <<key_retrieved, shared_secret, kme, drawnFor>>

\* Variant: the role is not looked at, and every call draws a key.
ClientDrawsAgain(h) ==
  {[out |-> r, value |-> r.handle.key_id] : r \in qkd_get_key_id(h, kme)}

\* The value to send: outcomes of the adapter call it takes, with the value.
ClientPublicKey(h) ==
  IF qkd_is_key_id_null(h)
  THEN {[out |-> r, value |-> r.handle.key_id] : r \in qkd_get_key_id(h, kme)}
  ELSE {[out |-> Outcome(TRUE, h, kme), value |-> None]}

\* Variant: the responder's key ID is requested anew instead of read back.
ServerDrawsAgain(h) ==
  IF qkd_is_key_id_null(h)
  THEN {[out |-> Outcome(TRUE, h, kme), value |-> None]}
  ELSE ClientDrawsAgain(h)

ServerPublicKey(h) ==
  IF qkd_is_key_id_null(h)
  THEN {[out |-> Outcome(TRUE, h, kme), value |-> None]}
  ELSE LET stored == qkd_get_stored_key_id(h)
       IN  {[out |-> Outcome(stored.ret, h, kme), value |-> stored.value]}

get_public_key(x, s) ==
  /\ pc[<<x, s>>] \in Live
  /\ \E r \in IF Mode[<<x, s>>] = "client"
             THEN ClientPublicKey(handle[<<x, s>>])
             ELSE ServerPublicKey(handle[<<x, s>>]) :
       /\ IkeGetPublicKey(x, s, r.out.ret, r.value)
       /\ handle' = [handle EXCEPT ![<<x, s>>] = r.out.handle]
       /\ KmeBecomes(x, r.out.kme)
       /\ UNCHANGED <<key_retrieved, shared_secret>>

\* The received ID is stored before its key is fetched, and stays if that fails.
AdoptKeyId(h, value) == qkd_get_key(qkd_set_key_id(h, value), kme)

\* Variant: a key that could not be fetched is not an error.
IgnoresFetch(h, value) ==
  IF qkd_is_key_id_null(h)
  THEN IF value \in KeyIds THEN {[r EXCEPT !.ret = TRUE] : r \in AdoptKeyId(h, value)}
                           ELSE {Outcome(FALSE, h, kme)}
  ELSE {Outcome(TRUE, h, kme)}

\* Variant: the value is required to be a key ID, whatever the role.
NeedsKeyId(h, value) ==
  IF value \in KeyIds THEN AdoptKeyId(h, value) ELSE {Outcome(FALSE, h, kme)}

ClientPeerKey(h, value) ==
  IF qkd_is_key_id_null(h)
  THEN IF value \in KeyIds THEN AdoptKeyId(h, value)
                           ELSE {Outcome(FALSE, h, kme)}
  ELSE {Outcome(TRUE, h, kme)}

\* Variant: the value is not looked at, and every call draws a key.
PeerDrawsAgain(h, value) == qkd_get_key_id(h, kme)

\* A value that is neither empty nor as long as a key ID is refused.
ServerPeerKey(h, value) ==
  IF value = None THEN qkd_get_key_id(h, kme)
  ELSE IF value \in KeyIds THEN AdoptKeyId(h, value)
                           ELSE {Outcome(FALSE, h, kme)}

set_public_key(x, s) ==
  /\ pc[<<x, s>>] \in Live
  /\ \E m \in Inbox(x, s) :
     \E r \in IF Mode[<<x, s>>] = "client"
             THEN ClientPeerKey(handle[<<x, s>>], m.value)
             ELSE ServerPeerKey(handle[<<x, s>>], m.value) :
       /\ IkeSetPublicKey(x, s, m.value, r.ret)
       /\ handle' = [handle EXCEPT ![<<x, s>>] = r.handle]
       /\ KmeBecomes(x, r.kme)
       /\ UNCHANGED <<key_retrieved, shared_secret>>

\* Variant: a new key is requested where the held one should be fetched.
RetrievalDraws(h, retrieved, s) ==
  IF is_etsi_004_mode(s) /\ ~retrieved THEN qkd_get_key_id(h, kme)
                                       ELSE {Outcome(TRUE, h, kme)}

\* With ETSI_API_VERSION=004 the key is fetched again, in this build too: no
\* other method of a 014 build sets key_retrieved.
Retrieval(h, retrieved, s) ==
  IF is_etsi_004_mode(s) /\ ~retrieved THEN qkd_get_key(h, kme)
                                       ELSE {Outcome(TRUE, h, kme)}

get_shared_secret(x, s) ==
  /\ pc[<<x, s>>] \in Live
  /\ \E r \in Retrieval(handle[<<x, s>>], key_retrieved[<<x, s>>], s) :
       LET key == qkd_get_shared_secret(r.handle)
           ok  == r.ret /\ key.ret
       IN  /\ IkeGetSharedSecret(x, s, ok, key.value)
           /\ handle' = [handle EXCEPT ![<<x, s>>] = r.handle]
           /\ KmeBecomes(x, r.kme)
           /\ key_retrieved' = [key_retrieved EXCEPT ![<<x, s>>] =
                                  @ \/ (is_etsi_004_mode(s) /\ r.ret)]
           /\ shared_secret' = [shared_secret EXCEPT ![<<x, s>>] =
                                  IF ok THEN key.value ELSE @]

destroy(x, s) ==
  /\ IkeDestroy(x, s)
  /\ handle' = [handle EXCEPT ![<<x, s>>] = qkd_close(@)]
  /\ key_retrieved' = [key_retrieved EXCEPT ![<<x, s>>] = FALSE]
  /\ shared_secret' = [shared_secret EXCEPT ![<<x, s>>] = None]
  /\ UNCHANGED <<kme, drawnFor>>

-------------------------------------------------------------------------------
Call(x, s) ==
  \/ qkd_kex_create(x, s)
  \/ get_public_key(x, s)
  \/ set_public_key(x, s)
  \/ get_shared_secret(x, s)

AllDone == IkeAllDone /\ UNCHANGED vars

Next ==
  \/ \E x \in Exchanges, s \in Sides : Call(x, s) \/ destroy(x, s)
  \/ AllDone

Spec == Init /\ [][Next]_vars

\* A worker thread of the daemon takes up the next job of every IKE exchange:
\* no object waits forever for a call that can be made.
FairSpec ==
  /\ Spec
  /\ \A x \in Exchanges, s \in Sides : WF_vars(Call(x, s)) /\ WF_vars(destroy(x, s))

-------------------------------------------------------------------------------
\* The two daemons of an exchange, if both finish it, derive their keys from the
\* same secret.
Agrees(x) ==
  LET i == secret[<<x, Initiator>>]
      r == secret[<<x, Responder>>]
  IN  i # None /\ r # None => i = r

\* An exchange takes at most one key out of the KMEs' store.
OneKey(x) == \A j, k \in KeyIds : drawnFor[j] = x /\ drawnFor[k] = x => j = k

\* A client-mode initiator has repeated its request, which is empty then, to a
\* responder that takes an empty request for its cue to draw a key itself.
MixedRepeat(x) ==
  /\ Mode[<<x, Initiator>>] = "client"
  /\ Mode[<<x, Responder>>] = "server"
  /\ gets[x] > 1

\* Two daemons that both finish an exchange derive their keys from the same
\* secret, whatever failed, was repeated or was given up on the way.
Agreement == \A x \in Exchanges : Agrees(x)

\* Where the two builds differ, nothing but a repeated request keeps the two
\* daemons from the same secret.
AgreesUnlessRepeated == \A x \in Exchanges : ~MixedRepeat(x) => Agrees(x)

\* No two exchanges end with the same secret.
Isolation ==
  \A o, p \in Objects : secret[o] # None /\ secret[o] = secret[p] => o[1] = p[1]

\* An exchange takes at most one key out of the KMEs' store: neither the second
\* side of an exchange nor a repeated call draws another one.
OneKeyPerExchange == \A x \in Exchanges : OneKey(x)

\* Where the two builds differ, only a repeated request costs a second key.
OneKeyUnlessRepeated == \A x \in Exchanges : ~MixedRepeat(x) => OneKey(x)

\* Client-initiated mode: the initiator uses the key it drew only after the
\* responder was able to fetch it. The key is the initiator's from its first
\* call on; the responder's failure has to keep it from being used.
ConfirmedKey ==
  \A x \in Exchanges :
    LET k == secret[<<x, Initiator>>] IN k # None => kme[k] = "delivered"

\* The ID that tells an object its role is never replaced or lost while the
\* object lives: a call that comes again meets the key the first one chose.
KeyIdStable ==
  [][ \A o \in Objects :
        /\ handle[o] # None
        /\ handle[o].key_id # None
        /\ handle'[o] # None
        => handle'[o].key_id = handle[o].key_id ]_vars

\* A key an object holds is the one key it ever hands over: no call that comes
\* again, and no second fetch of a daemon that runs with ETSI_API_VERSION=004,
\* replaces it or gives the daemon another one, whatever the KMEs answer.
HeldKeyKept ==
  [][ \A o \in Objects :
        /\ handle[o] # None
        /\ handle[o].key # None
        /\ handle'[o] # None
        => /\ handle'[o].key = handle[o].key
           /\ secret'[o] \in {secret[o], handle[o].key} ]_vars

\* An object that holds its key hands it over when the daemon asks for it,
\* whatever the KMEs would answer by then.
HeldKeyHandedOver ==
  [][ \A x \in Exchanges, s \in Sides :
        get_shared_secret(x, s) /\ handle[<<x, s>>].key # None
          => secret'[<<x, s>>] = handle[<<x, s>>].key ]_vars

\* Client-initiated mode: an empty KE payload is the responder's confirmation,
\* as get_public_key says of the empty value it returns.
EmptyValueIsResponse ==
  \A m \in net : m.value = None => m.from = Responder

\* All keys of the KMEs went to other exchanges.
LeftWithoutKey(x) == \A k \in KeyIds : drawnFor[k] \notin {None, x}

\* Where no call fails and no side gives up, every exchange ends with both
\* daemons holding its secret; only one that the others left no key for, and a
\* client-mode initiator that repeats its request, may be left without.
Completes ==
  \A x \in Exchanges :
    <>( \/ \A s \in Sides : secret[<<x, s>>] # None
        \/ LeftWithoutKey(x)
        \/ Mode[<<x, Initiator>>] = "client" /\ gets[x] > 1 )

\* The method keeps the promise of KeyAgreement: an exchange settles on the
\* key that was drawn for it, and nobody is handed another one.
AgreedKey ==
  [x \in Exchanges |->
     IF \E k \in KeyIds : drawnFor[k] = x
     THEN CHOOSE k \in KeyIds : drawnFor[k] = x
     ELSE None]

Abstract == INSTANCE KeyAgreement WITH Keys <- KeyIds, agreed <- AgreedKey,
                                       obtained <- secret

ImplementsKeyAgreement == Abstract!AbsSpec
===============================================================================
