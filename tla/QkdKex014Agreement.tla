--------------------------- MODULE QkdKex014Agreement ---------------------------
(* The two sides of an exchange agree: the proof that IndInv is inductive. A    *)
(* step of one exchange is looked at from that exchange (by action and side)    *)
(* and from the others (Elsewhere).                                             *)
EXTENDS QkdKex014Proofs

\* A step of exchange x, seen from the other exchanges.
Elsewhere(x) ==
  /\ \A y \in Exchanges \ {x} :
       /\ \A s \in Sides :
            /\ pc'[<<y, s>>] = pc[<<y, s>>]
            /\ handle'[<<y, s>>] = handle[<<y, s>>]
            /\ secret'[<<y, s>>] = secret[<<y, s>>]
            /\ Inbox(y, s)' = Inbox(y, s)
       /\ gets'[y] = gets[y]
       /\ \A k \in KeyIds : drawnFor'[k] = y <=> drawnFor[k] = y
  /\ \A k \in KeyIds : kme[k] = "delivered" => kme'[k] = "delivered"

\* What happens in one exchange does not touch the flow of another.
LEMMA FlowElsewhere ==
  ASSUME NEW x \in Exchanges, NEW y \in Exchanges, x # y, Elsewhere(x), Flow(y)
  PROVE  Flow(y)'
<1> USE DEF Flow, Sides, Initiator, Responder
<1>1. /\ \A s \in Sides :
           /\ pc'[<<y, s>>] = pc[<<y, s>>]
           /\ handle'[<<y, s>>] = handle[<<y, s>>]
           /\ secret'[<<y, s>>] = secret[<<y, s>>]
           /\ Inbox(y, s)' = Inbox(y, s)
      /\ gets'[y] = gets[y]
      /\ \A k \in KeyIds : drawnFor'[k] = y <=> drawnFor[k] = y
      /\ \A k \in KeyIds : kme[k] = "delivered" => kme'[k] = "delivered"
  BY DEF Elsewhere
<1>2. /\ MixedRepeat(y)' <=> MixedRepeat(y)
      /\ Drawn(y)' <=> Drawn(y)
  BY <1>1 DEF MixedRepeat, Drawn
<1>3. Quiet(y)'
  BY <1>1, <1>2 DEF Quiet
<1>4. Roles(y)'
  BY <1>1 DEF Roles, HasKeyId
<1>5. ServerFlow(y)'
  BY <1>1, <1>2 DEF ServerFlow
<1>6. Answered(y)'
  BY <1>1 DEF Answered
<1>7. OneKey(y) => OneKey(y)'
  BY <1>1 DEF OneKey
<1>8. ClientFlow(y) => ClientFlow(y)'
  BY <1>1 DEF ClientFlow
<1> QED BY <1>2, <1>3, <1>4, <1>5, <1>6, <1>7, <1>8

\* What a step of side s of exchange x may touch: its object, the messages it
\* sends, and the keys that are still in the store or are its exchange's.
Local(x, s) ==
  /\ \E p \in PcStates : pc' = [pc EXCEPT ![<<x, s>>] = p]
  /\ \E h \in Handle \cup {None} : handle' = [handle EXCEPT ![<<x, s>>] = h]
  /\ secret' = secret \/ \E k : secret' = [secret EXCEPT ![<<x, s>>] = k]
  /\ gets' = gets \/ \E n : gets' = [gets EXCEPT ![x] = n]
  /\ net' = net \/ \E v : net' = net \cup {[exchange |-> x, from |-> s, value |-> v]}
  /\ SameKeys \/ (\E k \in KeyIds : Draw(x, k)) \/ (\E k \in KeyIds : Fetch(k))

\* A call changes only its own object and the keys of its own exchange.
LEMMA LocalElsewhere ==
  ASSUME TypeOK, Ledger, NEW x \in Exchanges, NEW s \in Sides, Local(x, s)
  PROVE  Elsewhere(x)
<1>1. ASSUME NEW y \in Exchanges \ {x}, NEW t \in Sides
      PROVE  /\ pc'[<<y, t>>] = pc[<<y, t>>]
             /\ handle'[<<y, t>>] = handle[<<y, t>>]
             /\ secret'[<<y, t>>] = secret[<<y, t>>]
             /\ Inbox(y, t)' = Inbox(y, t)
             /\ gets'[y] = gets[y]
  <2>1. <<y, t>> \in Objects /\ <<y, t>> # <<x, s>>
    BY DEF Objects
  <2>2. pc'[<<y, t>>] = pc[<<y, t>>]
    BY <2>1 DEF Local, TypeOK, IkeTypeOK
  <2>3. handle'[<<y, t>>] = handle[<<y, t>>]
    BY <2>1 DEF Local, TypeOK
  <2>4. secret'[<<y, t>>] = secret[<<y, t>>]
    BY <2>1 DEF Local, TypeOK, IkeTypeOK
  <2>5. Inbox(y, t)' = Inbox(y, t)
    BY DEF Local, Inbox
  <2>6. gets'[y] = gets[y]
    BY DEF Local, TypeOK, IkeTypeOK
  <2> QED BY <2>2, <2>3, <2>4, <2>5, <2>6
<1>2. ASSUME NEW k \in KeyIds
      PROVE  /\ \A y \in Exchanges \ {x} : drawnFor'[k] = y <=> drawnFor[k] = y
             /\ kme[k] = "delivered" => kme'[k] = "delivered"
  <2>1. CASE SameKeys
    BY <2>1 DEF SameKeys
  <2>2. ASSUME NEW j \in KeyIds, Draw(x, j)
        PROVE  /\ \A y \in Exchanges \ {x} : drawnFor'[k] = y <=> drawnFor[k] = y
               /\ kme[k] = "delivered" => kme'[k] = "delivered"
    BY <2>2, Kex014Assumption DEF Draw, Ledger, TypeOK, Kme
  <2>3. ASSUME NEW j \in KeyIds, Fetch(j)
        PROVE  /\ \A y \in Exchanges \ {x} : drawnFor'[k] = y <=> drawnFor[k] = y
               /\ kme[k] = "delivered" => kme'[k] = "delivered"
    BY <2>3 DEF Fetch, TypeOK, Kme
  <2> QED BY <2>1, <2>2, <2>3 DEF Local
<1>3. Sides # {}
  BY DEF Sides
<1> QED BY <1>1, <1>2, <1>3 DEF Elsewhere

\* The exchange keeps to one key if only an exchange without a key draws one.
LEMMA OneKeyStep ==
  ASSUME TypeOK, NEW x \in Exchanges, OneKey(x),
         \/ SameKeys
         \/ ~Drawn(x) /\ \E k \in KeyIds : Draw(x, k)
         \/ \E k \in KeyIds : Fetch(k)
  PROVE  OneKey(x)'
<1>1. CASE SameKeys \/ \E k \in KeyIds : Fetch(k)
  BY <1>1 DEF OneKey, SameKeys, Fetch
<1>2. ASSUME ~Drawn(x), NEW k \in KeyIds, Draw(x, k) PROVE OneKey(x)'
  BY <1>2 DEF OneKey, Drawn, Draw, TypeOK
<1> QED BY <1>1, <1>2

\* Keys that stay as they are, or are fetched, do not make an exchange draw.
LEMMA DrawnStep ==
  ASSUME TypeOK, NEW x \in Exchanges, SameKeys \/ \E k \in KeyIds : Fetch(k)
  PROVE  /\ Drawn(x)' <=> Drawn(x)
         /\ \A k \in KeyIds : drawnFor'[k] = drawnFor[k]
         /\ \A k \in KeyIds : kme[k] = "delivered" => kme'[k] = "delivered"
BY DEF SameKeys, Fetch, Drawn, TypeOK, Kme

-------------------------------------------------------------------------------
\* The initiator builds a request. It draws the key of the exchange if it is in
\* client mode and this is its first request.
LEMMA RequestFlow ==
  ASSUME Ownership, NEW x \in Exchanges, Flow(x), get_public_key(x, Initiator)
  PROVE  Flow(x)' /\ Elsewhere(x)
<1> DEFINE i == <<x, Initiator>>
           r == <<x, Responder>>
<1>1. TypeOK /\ HandleOwn /\ Ledger /\ Initiator \in Sides /\ Responder \in Sides
  BY DEF Ownership, Sides
<1>2. PICK ok \in BOOLEAN, h \in Handle, v \in Chunks :
        /\ IkeGetPublicKey(x, Initiator, ok, v)
        /\ handle' = [handle EXCEPT ![i] = h]
        /\ \/ /\ Mode[<<x, Initiator>>] = "client"
              /\ ~HasKeyId(i)
              /\ DrawOutcome(x, i, ok, h)
              /\ ok => v = h.key_id
           \/ /\ Mode[<<x, Initiator>>] = "client" => HasKeyId(i)
              /\ SameKeys
              /\ h = handle[i]
              /\ v = IF Mode[<<x, Initiator>>] = "client" THEN None ELSE h.key_id
  BY <1>1, GetPublicKeyEffect
<1>3. IkeBuildRequest(x, ok, v)
  BY <1>2 DEF IkeGetPublicKey, Initiator, Responder
<1>4. /\ pc[i] \in {"created", "sent"}
      /\ pc' = [pc EXCEPT ![i] = IF ok THEN "sent" ELSE "failed"]
      /\ gets[x] < MaxGets
      /\ gets' = [gets EXCEPT ![x] = @ + 1]
      /\ secret' = secret
      /\ IF ok THEN net' = net \cup {[exchange |-> x, from |-> Initiator, value |-> v]}
               ELSE net' = net
  BY <1>3 DEF IkeBuildRequest
<1>5. i \in Objects /\ r \in Objects /\ i # r /\ Mode[<<x, Initiator>>] \in Modes
  BY <1>1, Kex014Assumption DEF Objects, Initiator, Responder
<1>6. /\ pc'[i] = (IF ok THEN "sent" ELSE "failed")
      /\ pc'[r] = pc[r]
      /\ handle'[i] = h
      /\ handle'[r] = handle[r]
      /\ gets'[x] = gets[x] + 1
      /\ gets[x] \in Nat
  BY <1>1, <1>2, <1>4, <1>5 DEF TypeOK, IkeTypeOK
<1>7. /\ Inbox(x, Initiator)' = Inbox(x, Initiator)
      /\ \A m \in Inbox(x, Responder)' : m \in Inbox(x, Responder) \/ (ok /\ m.value = v)
  BY <1>4 DEF Inbox, Peer, Initiator, Responder
<1>8. SameKeys \/ \E k \in KeyIds : Draw(x, k)
  BY <1>2, DrawStep
<1>9. ~SameKeys => /\ pc[i] = "created"
                   /\ Mode[<<x, Initiator>>] = "client"
                   /\ ~Drawn(x)
                   /\ pc[r] = "absent"
                   /\ Inbox(x, Initiator) = {}
  BY <1>1, <1>2, <1>4 DEF Flow, Roles, Quiet
<1>10. Elsewhere(x)
  <2>1. Local(x, Initiator)
    BY <1>2, <1>4, <1>8 DEF Local, PcStates, Live
  <2> QED BY <1>1, <2>1, LocalElsewhere
<1>11. ~MixedRepeat(x)' => OneKey(x) /\ ClientFlow(x)
  BY <1>6 DEF Flow, MixedRepeat
<1>12. Quiet(x)'
  BY <1>6 DEF Quiet
<1>13. ok /\ Mode[<<x, Initiator>>] = "client" => h.key_id # None
  <2>1. ASSUME NEW k \in KeyIds PROVE [key_id |-> k, key |-> k].key_id # None
    BY Etsi014Assumption
  <2> QED BY <1>2, <2>1 DEF DrawOutcome, HasKeyId
<1>14. Mode[<<x, Initiator>>] = "server" => h = handle[i] /\ h.key_id = None /\ v = None /\ SameKeys
  <2>1. Mode[<<x, Initiator>>] = "server" => ~HasKeyId(i)
    BY <1>1, <1>4 DEF Flow, Roles
  <2> QED BY <1>2, <2>1 DEF HasKeyId
<1>15. Roles(x)'
  <2>1. pc'[i] = "sent" => gets'[x] > 0 /\ (h.key_id # None <=> Mode[<<x, Initiator>>] = "client")
    BY <1>5, <1>6, <1>13, <1>14 DEF Modes
  <2> QED BY <1>6, <2>1 DEF Flow, Roles, HasKeyId, Sides
<1>16. ServerFlow(x)'
  <2>1. Mode[<<x, Initiator>>] = "server" => (Drawn(x)' <=> Drawn(x))
    BY <1>14 DEF SameKeys, Drawn
  <2> QED BY <1>6, <1>7, <1>14, <2>1 DEF Flow, ServerFlow
<1>17. Answered(x)'
  BY <1>4, <1>6, <1>7 DEF Flow, Answered
<1>18. OneKey(x) => OneKey(x)'
  BY <1>1, <1>8, <1>9, OneKeyStep
<1>19. ~MixedRepeat(x)' => ClientFlow(x)'
  <2> SUFFICES ASSUME ~MixedRepeat(x)', Mode[<<x, Initiator>>] = "client"
               PROVE  ClientFlow(x)'
    BY DEF ClientFlow
  <2>1. Mode[<<x, Responder>>] = "server" => (ok => v # None)
    <3>1. Mode[<<x, Responder>>] = "server" => pc[i] = "created"
      BY <1>4, <1>6 DEF Flow, Roles, MixedRepeat
    <3> QED BY <1>1, <1>2, <1>13, <3>1 DEF Flow, Roles
  <2>2. pc'[r] = "peer_set" \/ Inbox(x, Initiator)' # {}
          => \A k \in KeyIds : drawnFor'[k] = x => kme'[k] = "delivered"
    BY <1>6, <1>7, <1>9, <1>11 DEF Flow, ClientFlow, SameKeys
  <2> QED BY <1>7, <1>11, <2>1, <2>2 DEF ClientFlow
<1> QED BY <1>10, <1>11, <1>12, <1>15, <1>16, <1>17, <1>18, <1>19 DEF Flow

\* The responder answers. It has a key ID by then and draws nothing.
LEMMA ResponseFlow ==
  ASSUME Ownership, NEW x \in Exchanges, Flow(x), get_public_key(x, Responder)
  PROVE  Flow(x)' /\ Elsewhere(x)
<1> DEFINE i == <<x, Initiator>>
           r == <<x, Responder>>
<1>1. TypeOK /\ HandleOwn /\ Ledger /\ Initiator \in Sides /\ Responder \in Sides
  BY DEF Ownership, Sides
<1>2. PICK ok \in BOOLEAN, h \in Handle, v \in Chunks :
        /\ IkeGetPublicKey(x, Responder, ok, v)
        /\ handle' = [handle EXCEPT ![r] = h]
        /\ \/ ~HasKeyId(r)
           \/ /\ SameKeys
              /\ h = handle[r]
              /\ v = IF Mode[<<x, Responder>>] = "client" THEN None ELSE h.key_id
  BY <1>1, GetPublicKeyEffect
<1>3. /\ pc[r] = "peer_set"
      /\ pc' = [pc EXCEPT ![r] = IF ok THEN "sent" ELSE "failed"]
      /\ gets' = gets
      /\ secret' = secret
      /\ IF ok THEN net' = net \cup {[exchange |-> x, from |-> Responder, value |-> v]}
               ELSE net' = net
  BY <1>2 DEF IkeGetPublicKey, IkeBuildResponse, Initiator, Responder
<1>4. /\ HasKeyId(r)
      /\ SameKeys
      /\ h = handle[r]
      /\ v = IF Mode[<<x, Responder>>] = "client" THEN None ELSE h.key_id
      /\ pc[i] \notin {"absent", "created"}
  BY <1>2, <1>3 DEF Flow, Roles, Quiet
<1>5. i \in Objects /\ r \in Objects /\ i # r /\ Mode[<<x, Responder>>] \in Modes
  BY <1>1, Kex014Assumption DEF Objects, Initiator, Responder
<1>6. /\ pc'[i] = pc[i]
      /\ pc'[r] \in {"sent", "failed"}
      /\ handle'[i] = handle[i]
      /\ handle'[r] = handle[r]
  BY <1>1, <1>2, <1>3, <1>4, <1>5 DEF TypeOK, IkeTypeOK
<1>7. /\ Inbox(x, Responder)' = Inbox(x, Responder)
      /\ Inbox(x, Initiator) \subseteq Inbox(x, Initiator)'
      /\ \A m \in Inbox(x, Initiator)' : m \in Inbox(x, Initiator) \/ m.value = v
  BY <1>3 DEF Inbox, Peer, Initiator, Responder
<1>8. Elsewhere(x)
  <2>1. Local(x, Responder)
    BY <1>2, <1>3, <1>4 DEF Local, PcStates, Live
  <2> QED BY <1>1, <2>1, LocalElsewhere
<1>9. /\ Drawn(x)' <=> Drawn(x)
      /\ OneKey(x) => OneKey(x)'
      /\ MixedRepeat(x)' <=> MixedRepeat(x)
  BY <1>1, <1>3, <1>4, OneKeyStep, DrawnStep DEF MixedRepeat
<1>10. Quiet(x)'
  BY <1>4, <1>6 DEF Quiet
<1>11. Roles(x)'
  BY <1>3, <1>6 DEF Flow, Roles, HasKeyId, Sides
<1>12. ServerFlow(x)'
  <2>1. Mode[<<x, Initiator>>] = "server" => v # None
    BY <1>3, <1>4, <1>5 DEF Flow, ServerFlow, HasKeyId, Modes
  <2> QED BY <1>6, <1>7, <1>9, <2>1 DEF Flow, ServerFlow
<1>13. ClientFlow(x) => ClientFlow(x)'
  BY <1>3, <1>4, <1>7 DEF ClientFlow, SameKeys
<1>14. Answered(x)'
  BY <1>3, <1>6, <1>7 DEF Flow, Answered
<1> QED BY <1>8, <1>9, <1>10, <1>11, <1>12, <1>13, <1>14 DEF Flow

\* The initiator takes the response. In server-initiated mode it fetches the
\* key the response names; no response makes it draw one.
LEMMA InitiatorPeerFlow ==
  ASSUME Ownership, NEW x \in Exchanges, Flow(x), set_public_key(x, Initiator)
  PROVE  Flow(x)' /\ Elsewhere(x)
<1> DEFINE i == <<x, Initiator>>
           r == <<x, Responder>>
<1>1. TypeOK /\ HandleOwn /\ Ledger /\ Initiator \in Sides /\ Responder \in Sides
  BY DEF Ownership, Sides
<1>2. PICK m \in Inbox(x, Initiator), ok \in BOOLEAN, h \in Handle :
        /\ IkeSetPublicKey(x, Initiator, m.value, ok)
        /\ handle' = [handle EXCEPT ![i] = h]
        /\ \/ Mode[<<x, Initiator>>] = "server" /\ m.value = None
           \/ m.value \in KeyIds /\ AdoptOutcome(m.value, i, ok, h)
           \/ SameKeys
  BY <1>1, SetPublicKeyEffect
<1>3. /\ pc[i] = "sent"
      /\ pc' = [pc EXCEPT ![i] = IF ok THEN "peer_set" ELSE "failed"]
      /\ UNCHANGED <<gets, net, secret>>
  BY <1>2 DEF IkeSetPublicKey
<1>4. SameKeys \/ \E k \in KeyIds : Fetch(k)
  BY <1>2 DEF AdoptOutcome, Flow, ServerFlow
<1>5. i \in Objects /\ r \in Objects /\ i # r
  BY <1>1 DEF Objects, Initiator, Responder
<1>6. /\ pc'[i] \in {"peer_set", "failed"}
      /\ pc'[r] = pc[r]
      /\ handle'[r] = handle[r]
  BY <1>1, <1>2, <1>3, <1>5 DEF TypeOK, IkeTypeOK
<1>7. \A s \in Sides : Inbox(x, s)' = Inbox(x, s)
  BY <1>3 DEF Inbox
<1>8. Elsewhere(x)
  <2>1. Local(x, Initiator)
    BY <1>2, <1>3, <1>4 DEF Local, PcStates, Live
  <2> QED BY <1>1, <2>1, LocalElsewhere
<1>9. /\ Drawn(x)' <=> Drawn(x)
      /\ OneKey(x) => OneKey(x)'
      /\ MixedRepeat(x)' <=> MixedRepeat(x)
      /\ \A k \in KeyIds : drawnFor'[k] = drawnFor[k]
      /\ \A k \in KeyIds : kme[k] = "delivered" => kme'[k] = "delivered"
  BY <1>1, <1>3, <1>4, OneKeyStep, DrawnStep DEF MixedRepeat
<1>10. Quiet(x)' /\ Roles(x)'
  BY <1>1, <1>6 DEF Flow, Quiet, Roles, HasKeyId, Sides
<1>11. ServerFlow(x)'
  BY <1>1, <1>6, <1>7, <1>9 DEF Flow, ServerFlow
<1>12. ClientFlow(x) => ClientFlow(x)'
  BY <1>1, <1>6, <1>7, <1>9 DEF ClientFlow
<1>13. Answered(x)'
  BY <1>1, <1>2, <1>7 DEF Answered
<1> QED BY <1>8, <1>9, <1>10, <1>11, <1>12, <1>13 DEF Flow

\* The responder takes a request: it draws the key of the exchange if the
\* request is empty and nobody has, or else fetches the key the request names.
LEMMA ResponderPeerFlow ==
  ASSUME Ownership, NEW x \in Exchanges, Flow(x), set_public_key(x, Responder)
  PROVE  Flow(x)' /\ Elsewhere(x)
<1> DEFINE i == <<x, Initiator>>
           r == <<x, Responder>>
<1>1. TypeOK /\ HandleOwn /\ Ledger /\ Initiator \in Sides /\ Responder \in Sides
  BY DEF Ownership, Sides
<1>2. PICK m \in Inbox(x, Responder), ok \in BOOLEAN, h \in Handle :
        /\ IkeSetPublicKey(x, Responder, m.value, ok)
        /\ handle' = [handle EXCEPT ![r] = h]
        /\ \/ /\ Mode[<<x, Responder>>] = "server"
              /\ m.value = None
              /\ DrawOutcome(x, r, ok, h)
              /\ ok => h.key_id # None
           \/ /\ m.value \in KeyIds
              /\ AdoptOutcome(m.value, r, ok, h)
           \/ /\ ok = HasKeyId(r)
              /\ SameKeys
  BY <1>1, SetPublicKeyEffect
<1>3. /\ pc[r] = "created"
      /\ pc' = [pc EXCEPT ![r] = IF ok THEN "peer_set" ELSE "failed"]
      /\ UNCHANGED <<gets, net, secret>>
  BY <1>2 DEF IkeSetPublicKey, Initiator, Responder
<1>4. ~HasKeyId(r) /\ pc[i] \notin {"absent", "created"}
  BY <1>1, <1>3 DEF Flow, Roles, Quiet
<1>5. i \in Objects /\ r \in Objects /\ i # r /\ Mode[<<x, Initiator>>] \in Modes
  BY <1>1, Kex014Assumption DEF Objects, Initiator, Responder
<1>6. /\ pc'[r] = (IF ok THEN "peer_set" ELSE "failed")
      /\ pc'[i] = pc[i]
      /\ handle'[r] = h
      /\ handle'[i] = handle[i]
  BY <1>1, <1>2, <1>3, <1>5 DEF TypeOK, IkeTypeOK
<1>7. \A s \in Sides : Inbox(x, s)' = Inbox(x, s)
  BY <1>3 DEF Inbox
<1>8. \/ /\ Mode[<<x, Responder>>] = "server"
         /\ DrawOutcome(x, r, ok, h)
         /\ ok => h.key_id # None
         /\ (Mode[<<x, Initiator>>] = "server" /\ ~Drawn(x)) \/ MixedRepeat(x)
      \/ /\ Mode[<<x, Initiator>>] = "client"
         /\ m.value \in KeyIds
         /\ AdoptOutcome(m.value, r, ok, h)
      \/ SameKeys /\ ~ok
  <2>1. Mode[<<x, Initiator>>] = "server" => m.value = None /\ ~Drawn(x)
    BY <1>3 DEF Flow, ServerFlow
  <2>2. Mode[<<x, Initiator>>] = "client" /\ Mode[<<x, Responder>>] = "server"
          => m.value # None \/ MixedRepeat(x)
    BY DEF Flow, ClientFlow
  <2> QED BY <1>2, <1>4, <1>5, <2>1, <2>2, Etsi014Assumption DEF Modes
<1>9. \/ SameKeys
      \/ (~Drawn(x) \/ MixedRepeat(x)) /\ \E k \in KeyIds : Draw(x, k)
      \/ \E k \in KeyIds : Fetch(k)
  BY <1>8, DrawStep DEF AdoptOutcome
<1>10. Elsewhere(x)
  <2>1. Local(x, Responder)
    BY <1>2, <1>3, <1>9 DEF Local, PcStates, Live
  <2> QED BY <1>1, <2>1, LocalElsewhere
<1>11. /\ MixedRepeat(x)' <=> MixedRepeat(x)
       /\ ~MixedRepeat(x) => OneKey(x) /\ ClientFlow(x)
  BY <1>3 DEF Flow, MixedRepeat
<1>12. Quiet(x)'
  BY <1>4, <1>6 DEF Quiet
<1>13. Roles(x)'
  <2>1. ok => h.key_id # None
    BY <1>8, Etsi014Assumption DEF AdoptOutcome
  <2> QED BY <1>1, <1>3, <1>6, <2>1 DEF Flow, Roles, HasKeyId, Sides
<1>14. ServerFlow(x)'
  <2>1. Mode[<<x, Initiator>>] = "server" => ~MixedRepeat(x)
    BY DEF MixedRepeat
  <2> QED BY <1>1, <1>6, <1>7, <1>8, <2>1 DEF Flow, ServerFlow
<1>15. Answered(x)'
  BY <1>1, <1>3, <1>6, <1>7 DEF Flow, Answered
<1>16. ~MixedRepeat(x) => OneKey(x)'
  BY <1>1, <1>9, <1>11, OneKeyStep
<1>17. ~MixedRepeat(x) => ClientFlow(x)'
  <2> SUFFICES ASSUME ~MixedRepeat(x),
                      Mode[<<x, Initiator>>] = "client",
                      pc'[r] = "peer_set" \/ Inbox(x, Initiator) # {},
                      NEW k \in KeyIds, drawnFor'[k] = x
               PROVE  kme'[k] = "delivered"
    BY <1>1, <1>7, <1>11 DEF ClientFlow
  <2>1. SameKeys \/ \E j \in KeyIds : Fetch(j)
    BY <1>8 DEF AdoptOutcome
  <2>2. drawnFor[k] = x /\ (kme[k] = "delivered" => kme'[k] = "delivered")
    BY <1>1, <2>1, DrawnStep
  <2>3. CASE Inbox(x, Initiator) # {}
    BY <1>11, <2>2, <2>3 DEF ClientFlow
  <2>4. CASE pc'[r] = "peer_set"
    <3>1. ok
      BY <1>6, <2>4
    <3>2. m.value \in KeyIds /\ Fetch(m.value)
      BY <1>8, <3>1 DEF AdoptOutcome
    <3>3. drawnFor[m.value] = x
      BY <3>2, Etsi014Assumption DEF Ownership, MessageOwn, Inbox
    <3>4. k = m.value
      BY <1>11, <2>2, <3>2, <3>3 DEF OneKey
    <3> QED BY <1>1, <3>2, <3>4 DEF Fetch, TypeOK, Kme
  <2> QED BY <2>3, <2>4
<1> QED BY <1>10, <1>11, <1>12, <1>13, <1>14, <1>15, <1>16, <1>17 DEF Flow

\* A daemon derives its keys, or an object comes or goes: no key is drawn, and
\* nothing is sent.
LEMMA SecretFlow ==
  ASSUME Ownership, NEW x \in Exchanges, Flow(x), NEW s \in Sides, get_shared_secret(x, s)
  PROVE  Flow(x)' /\ Elsewhere(x)
<1> DEFINE i == <<x, Initiator>>
           r == <<x, Responder>>
           o == <<x, s>>
<1>1. TypeOK /\ HandleOwn /\ Ledger /\ Initiator \in Sides /\ Responder \in Sides
  BY DEF Ownership, Sides
<1>2. PICK ok \in BOOLEAN, h \in Handle :
        /\ IkeGetSharedSecret(x, s, ok, h.key)
        /\ handle' = [handle EXCEPT ![o] = h]
        /\ h.key_id = handle[o].key_id
        /\ SameKeys \/ (h.key_id \in KeyIds /\ Fetch(h.key_id))
  BY <1>1, GetSharedSecretEffect
<1>3. /\ pc[o] = IF s = Initiator THEN "peer_set" ELSE "sent"
      /\ pc' = [pc EXCEPT ![o] = IF ok THEN "keyed" ELSE "failed"]
      /\ UNCHANGED <<gets, net>>
      /\ secret' = secret \/ secret' = [secret EXCEPT ![o] = h.key]
  BY <1>2 DEF IkeGetSharedSecret
<1>4. SameKeys \/ \E k \in KeyIds : Fetch(k)
  BY <1>2
<1>5. /\ i \in Objects /\ r \in Objects /\ i # r
      /\ o \in {i, r} /\ o \in Objects
  BY <1>1 DEF Objects, Sides, Initiator, Responder
<1>6. /\ pc'[o] \in {"keyed", "failed"}
      /\ \A p \in Objects \ {o} :
           pc'[p] = pc[p] /\ handle'[p] = handle[p] /\ secret'[p] = secret[p]
  BY <1>1, <1>2, <1>3, <1>5 DEF TypeOK, IkeTypeOK
<1>7. \A t \in Sides : Inbox(x, t)' = Inbox(x, t)
  BY <1>3 DEF Inbox
<1>8. Elsewhere(x)
  <2>1. Local(x, s)
    BY <1>2, <1>3, <1>4 DEF Local, PcStates, Live
  <2> QED BY <1>1, <2>1, LocalElsewhere
<1>9. /\ Drawn(x)' <=> Drawn(x)
      /\ OneKey(x) => OneKey(x)'
      /\ MixedRepeat(x)' <=> MixedRepeat(x)
      /\ \A k \in KeyIds : drawnFor'[k] = drawnFor[k]
      /\ \A k \in KeyIds : kme[k] = "delivered" => kme'[k] = "delivered"
  BY <1>1, <1>3, <1>4, OneKeyStep, DrawnStep DEF MixedRepeat
<1>10. pc'[i] \in {pc[i], "keyed", "failed"} /\ pc'[r] \in {pc[r], "keyed", "failed"}
  BY <1>5, <1>6
<1>11. Quiet(x)'
  <2>1. pc[i] \notin {"absent", "created"}
    BY <1>3, <1>5 DEF Flow, Quiet, Initiator, Responder
  <2> QED BY <1>10, <2>1 DEF Quiet
<1>12. Roles(x)'
  BY <1>3, <1>5, <1>6, <1>10 DEF Flow, Roles, HasKeyId, Sides
<1>13. ServerFlow(x)'
  BY <1>1, <1>3, <1>5, <1>6, <1>7, <1>9 DEF Flow, ServerFlow
<1>14. ClientFlow(x) => ClientFlow(x)'
  BY <1>1, <1>7, <1>9, <1>10 DEF ClientFlow
<1>15. Answered(x)'
  BY <1>1, <1>3, <1>5, <1>6, <1>7 DEF Flow, Answered
<1> QED BY <1>8, <1>9, <1>11, <1>12, <1>13, <1>14, <1>15 DEF Flow

\* An object comes without a key ID, and goes without touching its exchange.
LEMMA LifetimeFlow ==
  ASSUME Ownership, NEW x \in Exchanges, Flow(x), NEW s \in Sides,
         qkd_kex_create(x, s) \/ destroy(x, s)
  PROVE  Flow(x)' /\ Elsewhere(x)
<1> DEFINE i == <<x, Initiator>>
           r == <<x, Responder>>
           o == <<x, s>>
<1>1. TypeOK /\ Ledger /\ Initiator \in Sides /\ Responder \in Sides
  BY DEF Ownership, Sides
<1>2. UNCHANGED <<gets, net, secret, kme, drawnFor>>
  BY DEF qkd_kex_create, destroy, IkeCreate, IkeDestroy
<1>3. PICK h \in Handle \cup {None}, p \in {"created", "gone"} :
        /\ handle' = [handle EXCEPT ![o] = h]
        /\ pc' = [pc EXCEPT ![o] = p]
        /\ p = "created" => /\ h.key_id = None
                            /\ pc[o] = "absent"
                            /\ s = Responder => Inbox(x, Responder) # {}
        /\ pc[o] = "absent" \/ p = "gone"
        /\ pc[o] = "absent" => (s = Responder => Inbox(x, Responder) # {})
  <2>1. CASE qkd_kex_create(x, s)
    <3>1. PICK h \in qkd_open :
            IkeCreate(x, s, h # None) /\ handle' = [handle EXCEPT ![o] = h]
      BY <2>1 DEF qkd_kex_create
    <3>2. h \in Handle \cup {None} /\ (h # None => h.key_id = None)
      BY DEF qkd_open, When, Handle, Chunks
    <3>3. /\ pc' = [pc EXCEPT ![o] = IF h # None THEN "created" ELSE "gone"]
          /\ pc[o] = "absent"
          /\ s = Responder => Inbox(x, Responder) # {}
      BY <3>1 DEF IkeCreate
    <3> QED BY <3>1, <3>2, <3>3
  <2>2. CASE destroy(x, s)
    BY <2>2 DEF destroy, IkeDestroy, qkd_close, Live
  <2> QED BY <2>1, <2>2
<1>4. /\ i \in Objects /\ r \in Objects /\ i # r
      /\ o \in {i, r} /\ o \in Objects
      /\ o = r => s = Responder
  BY <1>1 DEF Objects, Sides, Initiator, Responder
<1>5. /\ pc'[o] = p
      /\ handle'[o] = h
      /\ \A q \in Objects \ {o} : pc'[q] = pc[q] /\ handle'[q] = handle[q]
  BY <1>1, <1>3, <1>4 DEF TypeOK, IkeTypeOK
<1>6. \A t \in Sides : Inbox(x, t)' = Inbox(x, t)
  BY <1>2 DEF Inbox
<1>7. Elsewhere(x)
  <2>1. Local(x, s)
    BY <1>2, <1>3 DEF Local, PcStates, Live, SameKeys
  <2> QED BY <1>1, <2>1, LocalElsewhere
<1>8. /\ Drawn(x)' <=> Drawn(x)
      /\ OneKey(x) => OneKey(x)'
      /\ MixedRepeat(x)' <=> MixedRepeat(x)
  BY <1>2 DEF OneKey, Drawn, MixedRepeat
<1>9. Quiet(x)'
  <2> SUFFICES ASSUME pc'[i] \in {"absent", "created"}
               PROVE  /\ ~Drawn(x)
                      /\ pc'[r] = "absent"
                      /\ \A t \in Sides : Inbox(x, t) = {}
    BY <1>6, <1>8 DEF Quiet
  <2>1. pc[i] \in {"absent", "created"}
    BY <1>3, <1>4, <1>5
  <2>2. o # r
    BY <1>1, <1>3, <1>4, <2>1 DEF Flow, Quiet
  <2> QED BY <1>4, <1>5, <2>1, <2>2 DEF Flow, Quiet
<1>10. Roles(x)'
  BY <1>2, <1>3, <1>4, <1>5 DEF Flow, Roles, HasKeyId, Sides
<1>11. ServerFlow(x)'
  BY <1>1, <1>3, <1>4, <1>5, <1>6, <1>8 DEF Flow, ServerFlow
<1>12. ClientFlow(x) => ClientFlow(x)'
  BY <1>1, <1>2, <1>3, <1>4, <1>5, <1>6 DEF ClientFlow
<1>13. Answered(x)'
  BY <1>1, <1>2, <1>3, <1>4, <1>5, <1>6 DEF Flow, Answered
<1> QED BY <1>7, <1>8, <1>9, <1>10, <1>11, <1>12, <1>13 DEF Flow

-------------------------------------------------------------------------------
\* A call leaves a server-mode initiator the key it had, or one just fetched: it
\* draws none, since no answer it gets is empty.
LEMMA FetchedKey ==
  ASSUME Ownership, NEW x \in Exchanges, Flow(x), Mode[<<x, Initiator>>] = "server",
         Call(x, Initiator) \/ destroy(x, Initiator)
  PROVE  \E h \in Handle \cup {None} :
           /\ handle' = [handle EXCEPT ![<<x, Initiator>>] = h]
           /\ h # None /\ h.key # None =>
                \/ handle[<<x, Initiator>>] # None /\ h.key = handle[<<x, Initiator>>].key
                \/ Fetch(h.key)
           /\ secret'[<<x, Initiator>>] = secret[<<x, Initiator>>]
                \/ (h # None /\ h.key # None /\ secret'[<<x, Initiator>>] = h.key)
<1> DEFINE o == <<x, Initiator>>
<1>1. /\ TypeOK /\ HandleOwn /\ o \in Objects /\ Initiator \in Sides
      /\ Mode[<<x, Initiator>>] # "client"
  BY DEF Ownership, Objects, Sides
<1>2. CASE qkd_kex_create(x, Initiator)
  <2>1. PICK h \in qkd_open : handle' = [handle EXCEPT ![o] = h]
    BY <1>2 DEF qkd_kex_create
  <2>2. h = None \/ h = [key_id |-> None, key |-> None]
    BY <2>1 DEF qkd_open, When
  <2>3. h \in Handle \cup {None} /\ ~(h # None /\ h.key # None)
    BY <2>2 DEF Handle, Chunks
  <2>4. UNCHANGED secret
    BY <1>2 DEF qkd_kex_create, IkeCreate
  <2> QED BY <2>1, <2>3, <2>4
<1>3. CASE destroy(x, Initiator)
  BY <1>3 DEF destroy, qkd_close, IkeDestroy
<1>4. CASE get_public_key(x, Initiator)
  <2>1. PICK ok \in BOOLEAN, h \in Handle, v \in Chunks :
          /\ IkeGetPublicKey(x, Initiator, ok, v)
          /\ handle' = [handle EXCEPT ![o] = h]
          /\ h = handle[o]
    BY <1>1, <1>4, GetPublicKeyEffect
  <2>2. UNCHANGED secret
    BY <2>1 DEF IkeGetPublicKey, IkeBuildRequest, IkeBuildResponse
  <2> QED BY <2>1, <2>2
<1>5. CASE set_public_key(x, Initiator)
  <2>1. PICK m \in Inbox(x, Initiator), ok \in BOOLEAN, h \in Handle :
          /\ IkeSetPublicKey(x, Initiator, m.value, ok)
          /\ handle' = [handle EXCEPT ![o] = h]
          /\ m.value = None \/ AdoptOutcome(m.value, o, ok, h)
    BY <1>1, <1>5, SetPublicKeyEffect
  <2>2. UNCHANGED secret /\ pc[o] = "sent"
    BY <2>1 DEF IkeSetPublicKey
  <2>3. AdoptOutcome(m.value, o, ok, h)
    BY <2>1 DEF Flow, ServerFlow
  <2>4. handle[o] # None
    BY <1>1, <2>2 DEF HandleOwn, Live
  <2>5. Fetch(h.key) \/ h.key = handle[o].key
    BY <2>3 DEF AdoptOutcome
  <2> QED BY <2>1, <2>2, <2>4, <2>5
<1>6. CASE get_shared_secret(x, Initiator)
  <2>1. PICK ok \in BOOLEAN, h \in Handle :
          /\ IkeGetSharedSecret(x, Initiator, ok, h.key)
          /\ handle' = [handle EXCEPT ![o] = h]
          /\ h.key # handle[o].key => Fetch(h.key)
          /\ ok => h.key # None
    BY <1>1, <1>6, GetSharedSecretEffect
  <2>2. pc[o] = "peer_set" /\ secret' = IF ok THEN [secret EXCEPT ![o] = h.key] ELSE secret
    BY <2>1 DEF IkeGetSharedSecret
  <2>3. secret'[o] = secret[o] \/ (h.key # None /\ secret'[o] = h.key)
    BY <1>1, <2>1, <2>2 DEF TypeOK, IkeTypeOK
  <2>4. handle[o] # None /\ h # None
    BY <1>1, <2>2, Etsi014Assumption DEF HandleOwn, Live
  <2> QED BY <2>1, <2>3, <2>4
<1> QED BY <1>2, <1>3, <1>4, <1>5, <1>6 DEF Call

\* A call leaves the other objects, and what their daemons were handed, alone.
LEMMA OtherObject ==
  ASSUME TypeOK, NEW x \in Exchanges, NEW s \in Sides, Call(x, s) \/ destroy(x, s),
         NEW o \in Objects, o # <<x, s>>
  PROVE  handle'[o] = handle[o] /\ secret'[o] = secret[o]
<1>1. \E h : handle' = [handle EXCEPT ![<<x, s>>] = h]
  BY DEF Call, qkd_kex_create, get_public_key, set_public_key, get_shared_secret, destroy
<1>2. secret' = secret \/ \E k : secret' = [secret EXCEPT ![<<x, s>>] = k]
  <2>1. CASE get_shared_secret(x, s)
    BY <2>1 DEF get_shared_secret, IkeGetSharedSecret
  <2>2. CASE ~get_shared_secret(x, s)
    BY <2>2 DEF Call, qkd_kex_create, get_public_key, set_public_key, destroy,
                IkeCreate, IkeGetPublicKey, IkeBuildRequest, IkeBuildResponse,
                IkeSetPublicKey, IkeDestroy
  <2> QED BY <2>1, <2>2
<1> QED BY <1>1, <1>2 DEF TypeOK, IkeTypeOK

\* A key that was delivered stays delivered, so what a server-mode initiator
\* fetched stays fetched, whoever takes the next step.
LEMMA FetchedStep ==
  ASSUME Ownership, NEW x \in Exchanges, Flow(x), NEW s \in Sides,
         Call(x, s) \/ destroy(x, s),
         \A k \in KeyIds : kme[k] = "delivered" => kme'[k] = "delivered",
         NEW y \in Exchanges, Fetched(y)
  PROVE  Fetched(y)'
<1> DEFINE o == <<y, Initiator>>
<1> SUFFICES ASSUME Mode[o] = "server" PROVE Fetched(y)'
  BY DEF Fetched
<1>1. /\ TypeOK /\ o \in Objects /\ Initiator \in Sides
      /\ handle[o] \in Handle \cup {None} /\ secret[o] \in Chunks
      /\ handle[o] # None => handle[o].key \in Chunks
  <2>1. TypeOK /\ o \in Objects /\ Initiator \in Sides
    BY DEF Ownership, Objects, Sides
  <2>2. handle[o] \in Handle \cup {None} /\ secret[o] \in Chunks
    BY <2>1 DEF TypeOK, IkeTypeOK, Chunks
  <2>3. \A h \in Handle : h.key \in Chunks
    BY DEF Handle
  <2> QED BY <2>1, <2>2, <2>3
<1>2. /\ handle[o] # None /\ handle[o].key # None => kme'[handle[o].key] = "delivered"
      /\ secret[o] # None => kme'[secret[o]] = "delivered"
  BY <1>1 DEF Fetched, Chunks
<1>3. CASE y = x /\ s = Initiator
  <2>1. PICK h \in Handle \cup {None} :
          /\ handle' = [handle EXCEPT ![o] = h]
          /\ h # None /\ h.key # None =>
               \/ handle[o] # None /\ h.key = handle[o].key
               \/ Fetch(h.key)
          /\ secret'[o] = secret[o] \/ (h # None /\ h.key # None /\ secret'[o] = h.key)
    BY <1>3, FetchedKey
  <2>2. handle'[o] = h
    BY <1>1, <2>1 DEF TypeOK
  <2>3. h # None /\ h.key # None => kme'[h.key] = "delivered"
    <3> SUFFICES ASSUME h # None, h.key # None, Fetch(h.key)
                 PROVE  kme'[h.key] = "delivered"
      BY <1>2, <2>1
    <3>1. h.key \in KeyIds
      BY <2>1 DEF Handle, Chunks
    <3> QED BY <1>1, <3>1 DEF Fetch, TypeOK, Kme
  <2> QED BY <1>2, <2>1, <2>2, <2>3 DEF Fetched
<1>4. CASE ~(y = x /\ s = Initiator)
  <2>1. o # <<x, s>>
    BY <1>4
  <2>2. handle'[o] = handle[o] /\ secret'[o] = secret[o]
    BY <1>1, <2>1, OtherObject
  <2> QED BY <1>2, <2>2 DEF Fetched
<1> QED BY <1>3, <1>4

\* A call that replaces what a handle holds puts a key in with its ID: who takes
\* up an ID has none yet, and who fetches a key fetches that of the ID it has.
LEMMA KeyOfItsIdStep ==
  ASSUME Ownership, KeyOfItsId, NEW x \in Exchanges, Roles(x), NEW s \in Sides,
         Call(x, s) \/ destroy(x, s)
  PROVE  KeyOfItsId'
<1> DEFINE o == <<x, s>>
           Matching(h) == h.key # None => h.key = h.key_id
<1>1. /\ TypeOK /\ HandleOwn /\ o \in Objects
      /\ Mode[o] \in Modes
  BY Kex014Assumption DEF Ownership, Objects
<1>2. pc[o] \in Live => handle[o] \in Handle /\ handle[o] # None /\ Matching(handle[o])
  BY <1>1, LiveHandle, Etsi014Assumption DEF KeyOfItsId
<1>3. ASSUME NEW h, DrawOutcome(x, o, TRUE, h) \/ DrawOutcome(x, o, FALSE, h), Matching(handle[o])
      PROVE  Matching(h)
  BY <1>3 DEF DrawOutcome
<1>4. \E h : handle' = [handle EXCEPT ![o] = h] /\ (h # None => Matching(h))
  <2>1. CASE qkd_kex_create(x, s)
    <3>1. PICK h \in qkd_open : handle' = [handle EXCEPT ![o] = h]
      BY <2>1 DEF qkd_kex_create
    <3>2. h = None \/ h = [key_id |-> None, key |-> None]
      BY <3>1 DEF qkd_open, When
    <3>3. h # None => Matching(h)
      BY <3>2
    <3> QED BY <3>1, <3>3
  <2>2. CASE destroy(x, s)
    BY <2>2 DEF destroy, qkd_close
  <2>3. CASE get_public_key(x, s)
    <3>1. PICK ok \in BOOLEAN, h \in Handle, v \in Chunks :
            /\ handle' = [handle EXCEPT ![o] = h]
            /\ DrawOutcome(x, o, ok, h) \/ h = handle[o]
      BY <1>1, <2>3, GetPublicKeyEffect
    <3>2. Matching(handle[o])
      BY <1>2, <2>3 DEF get_public_key
    <3>3. ok = TRUE \/ ok = FALSE
      OBVIOUS
    <3>4. Matching(h)
      BY <1>3, <3>1, <3>2, <3>3
    <3> QED BY <3>1, <3>4
  <2>4. CASE set_public_key(x, s)
    <3>1. PICK m \in Inbox(x, s), ok \in BOOLEAN, h \in Handle :
            /\ IkeSetPublicKey(x, s, m.value, ok)
            /\ handle' = [handle EXCEPT ![o] = h]
            /\ \/ DrawOutcome(x, o, ok, h)
               \/ /\ Mode[<<x, s>>] = "client" => ~HasKeyId(o)
                  /\ AdoptOutcome(m.value, o, ok, h)
               \/ h = handle[o]
      BY <1>1, <2>4, SetPublicKeyEffect
    <3>2. Matching(handle[o])
      BY <1>2, <2>4 DEF set_public_key
    <3>3. ok = TRUE \/ ok = FALSE
      OBVIOUS
    <3>4. Mode[<<x, s>>] = "server" => ~HasKeyId(o)
      BY <3>1 DEF IkeSetPublicKey, Roles, Sides
    <3>5. AdoptOutcome(m.value, o, ok, h) /\ ~HasKeyId(o) => Matching(h)
      BY <3>2 DEF AdoptOutcome, HasKeyId
    <3>6. Matching(h)
      BY <1>1, <1>3, <3>1, <3>2, <3>3, <3>4, <3>5 DEF Modes
    <3> QED BY <3>1, <3>6
  <2>5. CASE get_shared_secret(x, s)
    <3>1. PICK ok \in BOOLEAN, h \in Handle :
            /\ handle' = [handle EXCEPT ![o] = h]
            /\ h.key_id = handle[o].key_id
            /\ h.key \in {handle[o].key, h.key_id}
      BY <1>1, <2>5, GetSharedSecretEffect
    <3>2. Matching(handle[o])
      BY <1>2, <2>5 DEF get_shared_secret
    <3> QED BY <3>1, <3>2
  <2> QED BY <2>1, <2>2, <2>3, <2>4, <2>5 DEF Call
<1>5. ASSUME NEW p \in Objects, p # o PROVE handle'[p] = handle[p]
  BY <1>1, <1>5, OtherObject
<1>6. PICK h : handle' = [handle EXCEPT ![o] = h] /\ (h # None => Matching(h))
  BY <1>4
<1>7. handle'[o] = h
  BY <1>1, <1>6 DEF TypeOK
<1> QED BY <1>5, <1>6, <1>7 DEF KeyOfItsId

-------------------------------------------------------------------------------
\* Before the first request every exchange is quiet.
LEMMA IndInvInit == Init => IndInv
<1> SUFFICES ASSUME Init PROVE IndInv
  OBVIOUS
<1>1. Ownership
  BY OwnershipInit
<1>2. ASSUME NEW x \in Exchanges PROVE Flow(x)
  <2>1. \A s \in Sides : <<x, s>> \in Objects
    BY DEF Objects
  <2>2. /\ pc[<<x, Initiator>>] = "absent"
        /\ pc[<<x, Responder>>] = "absent"
        /\ secret[<<x, Initiator>>] = None
        /\ \A s \in Sides : pc[<<x, s>>] = "absent"
        /\ net = {}
        /\ \A k \in KeyIds : drawnFor[k] # x
    BY <2>1, Kex014Assumption DEF Init, IkeInit, Sides
  <2> QED BY <2>2 DEF Flow, OneKey, Quiet, Roles, ServerFlow, ClientFlow, Answered,
                      Drawn, Inbox, Sides
<1>3. ASSUME NEW x \in Exchanges PROVE Fetched(x)
  BY DEF Init, IkeInit, Fetched, Objects, Sides
<1>4. KeyOfItsId
  BY DEF Init, KeyOfItsId
<1> QED BY <1>1, <1>2, <1>3, <1>4 DEF IndInv

\* IndInv is inductive.
LEMMA IndInvStep ==
  ASSUME IndInv, [Next]_vars
  PROVE  IndInv'
<1>1. Ownership'
  BY OwnershipStep DEF IndInv
<1>2. ASSUME NEW x \in Exchanges, NEW s \in Sides, Call(x, s) \/ destroy(x, s)
      PROVE  KeyOfItsId' /\ \A y \in Exchanges : Flow(y)' /\ Fetched(y)'
  <2>1. Ownership /\ Flow(x) /\ s \in {Initiator, Responder}
    BY DEF IndInv, Sides
  <2>2. Flow(x)' /\ Elsewhere(x)
    BY <1>2, <2>1, RequestFlow, ResponseFlow, InitiatorPeerFlow, ResponderPeerFlow,
       SecretFlow, LifetimeFlow DEF Call
  <2>3. \A k \in KeyIds : kme[k] = "delivered" => kme'[k] = "delivered"
    BY <2>2 DEF Elsewhere
  <2>4. KeyOfItsId'
    BY <1>2, KeyOfItsIdStep DEF IndInv, Flow
  <2> QED BY <1>2, <2>1, <2>2, <2>3, <2>4, FlowElsewhere, FetchedStep DEF IndInv
<1>3. CASE UNCHANGED vars
  <2>0. KeyOfItsId'
    BY <1>3 DEF IndInv, KeyOfItsId, vars, objVars
  <2> SUFFICES ASSUME NEW y \in Exchanges PROVE Flow(y)' /\ Fetched(y)'
    BY <1>1, <2>0 DEF IndInv
  <2>1. UNCHANGED <<pc, gets, net, secret, handle, kme, drawnFor>>
    BY <1>3 DEF vars, ikeVars, objVars
  <2>2. \A s \in Sides : Inbox(y, s)' = Inbox(y, s)
    BY <2>1 DEF Inbox
  <2>3. Quiet(y)' /\ Roles(y)'
    BY <2>1, <2>2 DEF IndInv, Flow, Quiet, Roles, Drawn, HasKeyId
  <2>4. ServerFlow(y)' /\ Answered(y)'
    BY <2>1, <2>2 DEF IndInv, Flow, ServerFlow, Answered, Drawn, Sides
  <2>5. ~MixedRepeat(y)' => OneKey(y)' /\ ClientFlow(y)'
    BY <2>1, <2>2 DEF IndInv, Flow, MixedRepeat, OneKey, ClientFlow, Sides
  <2>6. Fetched(y)'
    BY <2>1 DEF IndInv, Fetched
  <2> QED BY <2>3, <2>4, <2>5, <2>6 DEF Flow
<1> QED BY <1>1, <1>2, <1>3 DEF IndInv, Next, AllDone

\* The parts of IndInv hold from start to end, however the two plugins of each
\* exchange were built.
THEOREM IndInvInvariant == Spec => []IndInv
BY IndInvInit, IndInvStep, PTL DEF Spec

\* An exchange that takes one key out of the store leaves its sides nothing to
\* disagree on.
LEMMA OneKeyAgrees ==
  ASSUME Ownership, NEW x \in Exchanges, OneKey(x)
  PROVE  Agrees(x)
<1> SUFFICES ASSUME secret[<<x, Initiator>>] # None, secret[<<x, Responder>>] # None
             PROVE  secret[<<x, Initiator>>] = secret[<<x, Responder>>]
  BY DEF Agrees
<1>1. <<x, Initiator>> \in Objects /\ <<x, Responder>> \in Objects
  BY DEF Objects, Sides
<1>2. /\ secret[<<x, Initiator>>] \in KeyIds
      /\ secret[<<x, Responder>>] \in KeyIds
      /\ drawnFor[secret[<<x, Initiator>>]] = x
      /\ drawnFor[secret[<<x, Responder>>]] = x
  BY <1>1 DEF Ownership, SecretOwn, TypeOK, IkeTypeOK
<1> QED BY <1>2 DEF OneKey

\* Whatever fails, is repeated or is given up on, an exchange takes at most one
\* key out of the KMEs' store, but for a client-mode initiator's repeated
\* request to a server-mode responder.
THEOREM OneKeyUnlessRepeatedTheorem == Spec => []OneKeyUnlessRepeated
<1>1. IndInv => OneKeyUnlessRepeated
  BY DEF IndInv, Flow, OneKeyUnlessRepeated
<1> QED BY <1>1, IndInvInvariant, PTL

\* Two daemons that both finish an exchange hold the same secret, with the same
\* exception and in every deployment.
THEOREM AgreesUnlessRepeatedTheorem == Spec => []AgreesUnlessRepeated
<1>1. IndInv => AgreesUnlessRepeated
  BY OneKeyAgrees DEF IndInv, Flow, AgreesUnlessRepeated
<1> QED BY <1>1, IndInvInvariant, PTL

\* Where no request is repeated between builds of different modes, the exception
\* does not arise.
LEMMA CompatibleOneKey ==
  ASSUME Compatible, IndInv, NEW x \in Exchanges
  PROVE  OneKey(x) /\ ClientFlow(x)
<1>1. gets[x] \in 0..MaxGets
  BY DEF IndInv, Ownership, TypeOK, IkeTypeOK
<1>2. ~MixedRepeat(x)
  BY <1>1 DEF Compatible, MixedRepeat
<1> QED BY <1>2 DEF IndInv, Flow

\* In compatible deployments an exchange takes at most one key out of the store.
THEOREM OneKeyTheorem == Compatible /\ Spec => []OneKeyPerExchange
<1> SUFFICES ASSUME Compatible PROVE Spec => []OneKeyPerExchange
  OBVIOUS
<1>1. IndInv => OneKeyPerExchange
  BY CompatibleOneKey DEF OneKeyPerExchange
<1> QED BY <1>1, IndInvInvariant, PTL

\* In compatible deployments two daemons that both finish an exchange hold the
\* same secret.
THEOREM AgreementTheorem == Compatible /\ Spec => []Agreement
<1> SUFFICES ASSUME Compatible PROVE Spec => []Agreement
  OBVIOUS
<1>1. IndInv => Agreement
  BY CompatibleOneKey, OneKeyAgrees DEF IndInv, Agreement
<1> QED BY <1>1, IndInvInvariant, PTL

\* In compatible deployments an initiator never derives its keys from a key that
\* was not fetched by its ID: in client mode the responder fetches it before it
\* answers, in server mode the initiator itself does.
THEOREM ConfirmedKeyTheorem == Compatible /\ Spec => []ConfirmedKey
<1> SUFFICES ASSUME Compatible PROVE Spec => []ConfirmedKey
  OBVIOUS
<1>1. IndInv => ConfirmedKey
  <2> SUFFICES ASSUME IndInv, NEW x \in Exchanges, secret[<<x, Initiator>>] # None
               PROVE  kme[secret[<<x, Initiator>>]] = "delivered"
    BY DEF ConfirmedKey
  <2>1. CASE Mode[<<x, Initiator>>] = "client"
    <3>1. /\ secret[<<x, Initiator>>] \in KeyIds
          /\ drawnFor[secret[<<x, Initiator>>]] = x
      BY DEF IndInv, Ownership, SecretOwn, TypeOK, IkeTypeOK, Objects, Sides
    <3>2. ClientFlow(x)
      BY CompatibleOneKey
    <3> QED BY <2>1, <3>1, <3>2 DEF IndInv, Flow, Answered, ClientFlow
  <2>2. CASE Mode[<<x, Initiator>>] = "server"
    BY <2>2 DEF IndInv, Fetched
  <2>3. Mode[<<x, Initiator>>] \in Modes
    BY Kex014Assumption DEF Objects, Sides
  <2> QED BY <2>1, <2>2, <2>3 DEF Modes
<1> QED BY <1>1, IndInvInvariant, PTL
================================================================================
