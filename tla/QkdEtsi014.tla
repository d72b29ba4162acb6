------------------------------ MODULE QkdEtsi014 ------------------------------
(* The ETSI GS QKD 014 build of the adapter (qkd_etsi_adapter.c compiled     *)
(* with ETSI_014_API) and the key management entities (KMEs) it calls.       *)
(*                                                                           *)
(* The adapter keeps no state but the handle its caller owns, so a call is   *)
(* an operator from the handle and the KMEs' keys to the set of its possible *)
(* outcomes [ret, handle, kme]: every error path is an outcome.              *)
(* A key is named by its key ID, so "the key of ID k" is k itself, and None  *)
(* stands for chunk_empty and for a NULL handle.                             *)
EXTENDS Chunk

CONSTANTS KeyIds,       \* IDs of the keys the KMEs hold
          Faulty        \* may a KME, an allocation or the configuration fail?

Chunks == KeyIds \cup {None}

\* struct qkd_handle_t; is_open is TRUE from qkd_open to the free in qkd_close.
Handle == [key_id : Chunks, key : Chunks]

ASSUME Etsi014Assumption == /\ None \notin KeyIds
                            /\ None \notin Handle
                            /\ Faulty \in BOOLEAN

\* A key rests in the KMEs' store, is handed to the SAE that asks for a new
\* key, then to the SAE that asks for it by its ID.
KeyStatus == {"stored", "issued", "delivered"}
Kme == [KeyIds -> KeyStatus]

When(possible, outcomes) == IF possible THEN outcomes ELSE {}

-------------------------------------------------------------------------------
\* Variant: the KMEs hand out a key again as long as it was not fetched by ID.
GET_KEY_Reissues(kme) ==
  {[id |-> k, kme |-> [kme EXCEPT ![k] = "issued"]] :
     k \in {j \in KeyIds : kme[j] # "delivered"}}

\* GET_KEY(master_kme, slave_sae, ...): a key nobody was given, and its ID.
GET_KEY(kme) ==
  LET stored == {k \in KeyIds : kme[k] = "stored"}
  IN  {[id |-> k, kme |-> [kme EXCEPT ![k] = "issued"]] : k \in stored}
      \cup When(Faulty \/ stored = {}, {[id |-> None, kme |-> kme]})

\* GET_KEY_WITH_IDS(slave_kme, master_sae, ...): the key of this ID, if it was
\* issued. A KME is free to refuse a key it has delivered before.
GET_KEY_WITH_IDS(kme, id) ==
  LET known == {k \in {id} : kme[k] # "stored"}
      fresh == {k \in known : kme[k] = "issued"}
  IN  {[id |-> k, kme |-> [kme EXCEPT ![k] = "delivered"]] : k \in known}
      \cup When(Faulty \/ fresh = {}, {[id |-> None, kme |-> kme]})

-------------------------------------------------------------------------------
Outcome(ret, handle, kme) == [ret |-> ret, handle |-> handle, kme |-> kme]

\* Variant: the memory of the handle is not cleared, nor are its chunks set.
OpenUncleared ==
  {[key_id |-> "uncleared", key |-> "uncleared"]}
    \cup When(Faulty, {None})

\* A handle with empty chunks, or none: the allocation failed, or one of the
\* four KME and SAE environment variables is missing.
qkd_open == {[key_id |-> None, key |-> None]} \cup When(Faulty, {None})

\* Both chunks are wiped and the handle is freed.
qkd_close(handle) == None

qkd_is_key_id_null(handle) == handle.key_id = None

qkd_get_stored_key_id(handle) ==
  [ret |-> handle.key_id # None, value |-> handle.key_id]

\* A new key and its ID replace what the handle had. An answer that holds no
\* key, or an ID or key that cannot be decoded, leaves the handle as it was,
\* although the KME has given the key away.
qkd_get_key_id(handle, kme) ==
  UNION { IF r.id = None
          THEN {Outcome(FALSE, handle, r.kme)}
          ELSE {Outcome(TRUE, [key_id |-> r.id, key |-> r.id], r.kme)}
               \cup When(Faulty, {Outcome(FALSE, handle, r.kme)})
        : r \in GET_KEY(kme) }

\* Only the ID is replaced: a key the handle already has stays in it.
qkd_set_key_id(handle, key_id) == [handle EXCEPT !.key_id = key_id]

\* The key of the handle's ID is fetched into the handle.
qkd_get_key(handle, kme) ==
  IF handle.key_id = None
  THEN {Outcome(FALSE, handle, kme)}
  ELSE UNION { IF r.id = None
               THEN {Outcome(FALSE, handle, r.kme)}
               ELSE {Outcome(TRUE, [handle EXCEPT !.key = r.id], r.kme)}
                    \cup When(Faulty, {Outcome(FALSE, handle, r.kme)})
             : r \in GET_KEY_WITH_IDS(kme, handle.key_id) }

qkd_get_shared_secret(handle) ==
  [ret |-> handle.key # None, value |-> handle.key]
===============================================================================
