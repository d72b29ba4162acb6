------------------------------ MODULE QkdEtsi004 ------------------------------
(* The ETSI GS QKD 004 build of the adapter (qkd_etsi_adapter.c compiled     *)
(* with ETSI_004_API) and the key streams of the key management entities     *)
(* (KMEs) it calls.                                                          *)
(*                                                                           *)
(* As in QkdEtsi014 a call is an operator from the caller's handle and the   *)
(* KMEs to the set of its possible outcomes. The key ID of this build is the *)
(* ID of a key stream, and the one key taken from a stream, at index 0, is   *)
(* named by the stream's ID. "me" is the caller, as the KMEs know it.        *)
EXTENDS Chunk

CONSTANTS KeyIds,       \* IDs of the key streams the KMEs can open
          OpenFails,    \* may opening a stream, or a handle, fail?
          GetFails,     \* may taking a key fail?
          CloseFails,   \* may closing a stream fail?
          ServesAlone,  \* does a stream still serve an end the other end left?
          ShortChunks,  \* may a key be delivered in chunks shorter than it?
          Torn          \* a buffer as long as a key that is not all written

Chunks == KeyIds \cup {None}
Keys == KeyIds \cup {Torn}

\* struct qkd_handle_t.
Handle == [key_id : Chunks, key : Keys \cup {None}, is_connected : BOOLEAN]

ASSUME Etsi004Assumption == /\ None \notin KeyIds
                            /\ None \notin Handle
                            /\ OpenFails \in BOOLEAN
                            /\ GetFails \in BOOLEAN
                            /\ CloseFails \in BOOLEAN
                            /\ ServesAlone \in BOOLEAN
                            /\ ShortChunks \in BOOLEAN
                            /\ Torn \notin KeyIds \cup {None}

When(possible, outcomes) == IF possible THEN outcomes ELSE {}

-------------------------------------------------------------------------------
\* The KMEs: the streams they have opened, the ends connected to each stream,
\* the ends its key was handed to, and (history) the ends that were told of a
\* failure although, or because, they stay connected.
Kme(Ends) == [opened : SUBSET KeyIds,
              ends : [KeyIds -> SUBSET Ends],
              served : [KeyIds -> SUBSET Ends],
              misled : SUBSET Ends]

Connect(kme, me, id) == [kme EXCEPT !.opened = @ \cup {id}, !.ends[id] = @ \cup {me}]
Mislead(kme, me) == [kme EXCEPT !.misled = @ \cup {me}]

\* OPEN_CONNECT: without an ID the KMEs open a stream of their own choice, with
\* one the caller becomes the other end of that stream. SUCCESS, and the two
\* statuses the adapter takes for success as well, are one outcome; a failure
\* may leave the caller connected when only the answer was lost.
OPEN_CONNECT(kme, me, id) ==
  LET possible == IF id = None THEN KeyIds \ kme.opened ELSE {id} \cap kme.opened
      refused  == {[id |-> None, kme |-> kme]}
      lost     == {[id |-> None, kme |-> Mislead(Connect(kme, me, k), me)] : k \in possible}
  IN  {[id |-> k, kme |-> Connect(kme, me, k)] : k \in possible}
      \cup When(possible = {}, refused)
      \cup When(OpenFails, refused \cup lost)

\* GET_KEY at index 0, for an end of the stream. An end left alone may be
\* served with PEER_NOT_CONNECTED, which the adapter accepts. The chunk size is
\* the one the streams were opened with: the environment sets it and the KMEs
\* may adjust it.
GET_KEY(kme, me, id) ==
  LET joined == me \in kme.ends[id]
      alone  == kme.ends[id] \subseteq {me}
      served == [kme EXCEPT !.served[id] = @ \cup {me}]
  IN  When(joined /\ (alone => ServesAlone),
           {[ok |-> TRUE, buffer |-> b, kme |-> served] :
              b \in {id} \cup When(ShortChunks, {Torn})})
      \cup When(GetFails \/ ~joined \/ (alone /\ ~ServesAlone),
                {[ok |-> FALSE, buffer |-> Torn, kme |-> kme]})

\* CLOSE.
CLOSE(kme, me, id) ==
  {[kme EXCEPT !.ends[id] = @ \ {me}]} \cup When(CloseFails, {Mislead(kme, me)})

-------------------------------------------------------------------------------
Outcome(ret, handle, kme) == [ret |-> ret, handle |-> handle, kme |-> kme]

\* Variant: the memory of the handle is not cleared, nor are its chunks set.
OpenUncleared ==
  {[key_id |-> "uncleared", key |-> "uncleared", is_connected |-> FALSE]}
    \cup When(OpenFails, {None})

\* An unconnected handle with empty chunks, or none: the allocation failed, or
\* one of the two URI environment variables is missing.
qkd_open ==
  {[key_id |-> None, key |-> None, is_connected |-> FALSE]} \cup When(OpenFails, {None})

\* Variant: a handle that never got a key is freed without a CLOSE.
ClosesOnlyWithKey(me, handle, kme) ==
  IF handle.key # None THEN CLOSE(kme, me, handle.key_id) ELSE {kme}

\* Variant: a handle that has its key is taken for done with its stream.
ClosesOnlyWithoutKey(me, handle, kme) ==
  IF handle.is_connected /\ handle.key = None THEN CLOSE(kme, me, handle.key_id) ELSE {kme}

\* A connected handle closes its stream. The handle is freed in any case, and
\* the stream of a failed CLOSE has no owner any more: the KMEs' new states.
qkd_close(me, handle, kme) ==
  IF handle.is_connected THEN CLOSE(kme, me, handle.key_id) ELSE {kme}

qkd_is_key_id_null(handle) == handle.key_id = None

qkd_get_stored_key_id(handle) ==
  [ret |-> handle.key_id # None, value |-> handle.key_id]

\* The handle opens a stream and takes its ID, unless it is connected already.
qkd_get_key_id(me, handle, kme) ==
  IF handle.is_connected
  THEN {Outcome(TRUE, handle, kme)}
  ELSE { IF r.id = None
         THEN Outcome(FALSE, handle, r.kme)
         ELSE Outcome(TRUE, [handle EXCEPT !.key_id = r.id, !.is_connected = TRUE], r.kme)
       : r \in OPEN_CONNECT(kme, me, None) }

\* Variant: the flag that keeps the stream from being opened, or closed, is
\* set before the call that may fail.
ConnectedTooEarly(me, handle, key_id, kme) ==
  { Outcome(r.id # None, [handle EXCEPT !.key_id = key_id, !.is_connected = TRUE], r.kme)
  : r \in OPEN_CONNECT(kme, me, key_id) }

\* The ID is stored before the stream is joined, and stays if that fails. A
\* connected handle takes the new ID and stays connected to its old stream.
qkd_set_key_id(me, handle, key_id, kme) ==
  LET renamed == [handle EXCEPT !.key_id = key_id]
  IN  IF handle.is_connected
      THEN {Outcome(TRUE, renamed, kme)}
      ELSE { IF r.id = None
             THEN Outcome(FALSE, renamed, r.kme)
             ELSE Outcome(TRUE, [renamed EXCEPT !.is_connected = TRUE], r.kme)
           : r \in OPEN_CONNECT(kme, me, key_id) }

\* As many bytes as a key has are taken from the buffer, however many the KME
\* has written to it.
qkd_get_key(me, handle, kme) ==
  IF handle.key_id = None \/ ~handle.is_connected
  THEN {Outcome(FALSE, handle, kme)}
  ELSE { Outcome(r.ok, IF r.ok THEN [handle EXCEPT !.key = r.buffer] ELSE handle, r.kme)
       : r \in GET_KEY(kme, me, handle.key_id) }

qkd_get_shared_secret(handle) ==
  [ret |-> handle.key # None, value |-> handle.key]
===============================================================================
