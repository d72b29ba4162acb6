------------------------------ MODULE IkeExchange ------------------------------
(* The two IKE daemons of every exchange, as a key exchange plugin sees      *)
(* them: the order in which a daemon calls the methods of its                *)
(* key_exchange_t object, and the KE payloads it carries to the other side.  *)
(* strongSwan is not part of the repository: the order is the one the        *)
(* plugins are written for (the initiator asks for its public value first,   *)
(* the responder feeds the received value in before it answers).             *)
(* Each action below is one call; "ok" is what the plugin returned.          *)
EXTENDS Naturals, Chunk

CONSTANTS Exchanges,    \* IKE exchanges (IKE_SA_INIT, CREATE_CHILD_SA, ...)
          MaxGets,      \* bound: get_public_key calls on an initiator's object
          Aborts        \* may a daemon give up in the middle of an exchange?

ASSUME IkeAssumption == /\ MaxGets \in Nat \ {0}
                        /\ Aborts \in BOOLEAN

VARIABLES pc,           \* pc[<<x, s>>]: how far side s of exchange x is
          gets,         \* gets[x]: requests the initiator of x has built
          net,          \* KE payloads sent; delayed and duplicated at will
          secret        \* secret[<<x, s>>]: what the daemon derives keys from

ikeVars == <<pc, gets, net, secret>>

Initiator == "initiator"
Responder == "responder"
Sides == {Initiator, Responder}
Objects == Exchanges \X Sides

Peer(s) == IF s = Initiator THEN Responder ELSE Initiator

Live == {"created", "sent", "peer_set", "keyed", "failed"}
PcStates == Live \cup {"absent", "gone"}

Payloads(Values) == [exchange : Exchanges, from : Sides, value : Values]
Inbox(x, s) == {m \in net : m.exchange = x /\ m.from = Peer(s)}

IkeTypeOK(Values, Keys) ==
  /\ pc \in [Objects -> PcStates]
  /\ gets \in [Exchanges -> 0..MaxGets]
  /\ net \subseteq Payloads(Values)
  /\ secret \in [Objects -> Keys \cup {None}]

IkeInit ==
  /\ pc = [o \in Objects |-> "absent"]
  /\ gets = [x \in Exchanges |-> 0]
  /\ net = {}
  /\ secret = [o \in Objects |-> None]

(* The responder creates its object when a request has arrived. *)
IkeCreate(x, s, ok) ==
  /\ pc[<<x, s>>] = "absent"
  /\ s = Responder => Inbox(x, s) # {}
  /\ pc' = [pc EXCEPT ![<<x, s>>] = IF ok THEN "created" ELSE "gone"]
  /\ UNCHANGED <<gets, net, secret>>

(* The initiator builds its request; asked to start over (a COOKIE           *)
(* notification), it builds the request again from the same object.          *)
IkeBuildRequest(x, ok, value) ==
  /\ pc[<<x, Initiator>>] \in {"created", "sent"}
  /\ gets[x] < MaxGets
  /\ gets' = [gets EXCEPT ![x] = @ + 1]
  /\ pc' = [pc EXCEPT ![<<x, Initiator>>] = IF ok THEN "sent" ELSE "failed"]
  /\ net' = IF ok
            THEN net \cup {[exchange |-> x, from |-> Initiator, value |-> value]}
            ELSE net
  /\ UNCHANGED secret

(* The responder answers once it has accepted a request. *)
IkeBuildResponse(x, ok, value) ==
  /\ pc[<<x, Responder>>] = "peer_set"
  /\ pc' = [pc EXCEPT ![<<x, Responder>>] = IF ok THEN "sent" ELSE "failed"]
  /\ net' = IF ok
            THEN net \cup {[exchange |-> x, from |-> Responder, value |-> value]}
            ELSE net
  /\ UNCHANGED <<gets, secret>>

IkeGetPublicKey(x, s, ok, value) ==
  \/ s = Initiator /\ IkeBuildRequest(x, ok, value)
  \/ s = Responder /\ IkeBuildResponse(x, ok, value)

(* Some request that arrived, or the response to the initiator's request. *)
IkeSetPublicKey(x, s, value, ok) ==
  /\ pc[<<x, s>>] = IF s = Initiator THEN "sent" ELSE "created"
  /\ \E m \in Inbox(x, s) : m.value = value
  /\ pc' = [pc EXCEPT ![<<x, s>>] = IF ok THEN "peer_set" ELSE "failed"]
  /\ UNCHANGED <<gets, net, secret>>

(* Both sides have each other's value: the daemon asks for the secret. *)
IkeGetSharedSecret(x, s, ok, value) ==
  /\ pc[<<x, s>>] = IF s = Initiator THEN "peer_set" ELSE "sent"
  /\ pc' = [pc EXCEPT ![<<x, s>>] = IF ok THEN "keyed" ELSE "failed"]
  /\ secret' = IF ok THEN [secret EXCEPT ![<<x, s>>] = value] ELSE secret
  /\ UNCHANGED <<gets, net>>

(* Done, failed, or given up (timeout, SA deleted, daemon stopped). *)
IkeDestroy(x, s) ==
  /\ pc[<<x, s>>] \in Live
  /\ Aborts \/ pc[<<x, s>>] \in {"keyed", "failed"}
  /\ pc' = [pc EXCEPT ![<<x, s>>] = "gone"]
  /\ UNCHANGED <<gets, net, secret>>

(* Nothing is left to do in any exchange. *)
IkeAllDone ==
  \A x \in Exchanges :
    /\ pc[<<x, Initiator>>] = "gone"
    /\ \/ pc[<<x, Responder>>] = "gone"
       \/ pc[<<x, Responder>>] = "absent" /\ Inbox(x, Responder) = {}
================================================================================
