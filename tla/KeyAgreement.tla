----------------------------- MODULE KeyAgreement -----------------------------
(* What a key exchange method promises to the two IKE daemons that run it:   *)
(* an exchange settles on at most one key, no other exchange settles on that *)
(* key, and whatever one of the two sides obtains is the settled key.        *)
(* Nothing is said of when, or whether, a side obtains it.                   *)
CONSTANTS Exchanges,    \* IKE exchanges that run the method
          Sides,        \* the two sides of an exchange
          Keys,         \* keys an exchange may settle on
          None          \* "no key yet", not one of the Keys

VARIABLES agreed,       \* agreed[x]: the key exchange x has settled on
          obtained      \* obtained[<<x, s>>]: what side s of x was handed

absVars == <<agreed, obtained>>

AbsInit ==
  /\ agreed = [x \in Exchanges |-> None]
  /\ obtained = [o \in Exchanges \X Sides |-> None]

\* Exchange x settles on a key that belongs to no exchange.
Agree(x) ==
  /\ agreed[x] = None
  /\ \E k \in Keys :
       /\ \A y \in Exchanges : agreed[y] # k
       /\ agreed' = [agreed EXCEPT ![x] = k]
  /\ UNCHANGED obtained

\* Side s of exchange x is handed the settled key.
Obtain(x, s) ==
  /\ agreed[x] # None
  /\ obtained' = [obtained EXCEPT ![<<x, s>>] = agreed[x]]
  /\ UNCHANGED agreed

AbsNext ==
  \E x \in Exchanges :
    \/ Agree(x)
    \/ \E s \in Sides : Obtain(x, s)

AbsSpec == AbsInit /\ [][AbsNext]_absVars
===============================================================================
