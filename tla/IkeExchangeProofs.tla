--------------------------- MODULE IkeExchangeProofs ---------------------------
(* Facts about IkeExchange that the proofs of the key exchange methods share.  *)
EXTENDS IkeExchange, TLAPS

\* A payload sent in an exchange is found in one inbox.
LEMMA InboxStep ==
  ASSUME NEW x \in Exchanges, NEW s \in Sides, NEW v,
         net' = net \cup {[exchange |-> x, from |-> s, value |-> v]}
  PROVE  /\ Inbox(x, Peer(s))' =
              Inbox(x, Peer(s)) \cup {[exchange |-> x, from |-> s, value |-> v]}
         /\ Inbox(x, s)' = Inbox(x, s)
         /\ \A y \in Exchanges \ {x}, t \in Sides : Inbox(y, t)' = Inbox(y, t)
<1> DEFINE m == [exchange |-> x, from |-> s, value |-> v]
<1>1. m.exchange = x /\ m.from = s
  OBVIOUS
<1>2. Peer(Peer(s)) = s /\ Peer(s) # s
  BY DEF Peer, Sides, Initiator, Responder
<1> HIDE DEF m
<1>3. net' = net \cup {m}
  BY DEF m
<1>4. Inbox(x, Peer(s))' = Inbox(x, Peer(s)) \cup {m}
  BY <1>1, <1>2, <1>3 DEF Inbox
<1>5. Inbox(x, s)' = Inbox(x, s)
  BY <1>1, <1>2, <1>3 DEF Inbox
<1>6. \A y \in Exchanges \ {x}, t \in Sides : Inbox(y, t)' = Inbox(y, t)
  BY <1>1, <1>3 DEF Inbox
<1> QED BY <1>4, <1>5, <1>6 DEF m
================================================================================
