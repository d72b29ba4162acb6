-------------------------- MODULE KeyAgreementProofs --------------------------
(* What the promise KeyAgreement means for the two daemons of an exchange, and *)
(* so what a method that implements it gives them.                             *)
EXTENDS KeyAgreement, TLAPS

AbsTypeOK ==
  /\ agreed \in [Exchanges -> Keys \cup {None}]
  /\ obtained \in [Exchanges \X Sides -> Keys \cup {None}]

\* Whoever was handed anything was handed what its exchange settled on, and no
\* two exchanges settled on one key.
Kept ==
  /\ \A x \in Exchanges, s \in Sides :
       obtained[<<x, s>>] # None => obtained[<<x, s>>] = agreed[x]
  /\ \A x, y \in Exchanges : agreed[x] # None /\ agreed[x] = agreed[y] => x = y

AbsInv == AbsTypeOK /\ Kept

\* Two sides of one exchange that were both handed a key were handed the same.
SidesAgree ==
  \A x \in Exchanges : \A s, t \in Sides :
    obtained[<<x, s>>] # None /\ obtained[<<x, t>>] # None
      => obtained[<<x, s>>] = obtained[<<x, t>>]

\* Sides of different exchanges are never handed the same key.
ExchangesApart ==
  \A x, y \in Exchanges : \A s, t \in Sides :
    obtained[<<x, s>>] # None /\ obtained[<<x, s>>] = obtained[<<y, t>>] => x = y

\* A side that was handed its key is never handed another one.
ObtainedForGood ==
  [][ \A x \in Exchanges, s \in Sides :
        obtained[<<x, s>>] # None => obtained'[<<x, s>>] = obtained[<<x, s>>] ]_absVars

-------------------------------------------------------------------------------
\* AbsInv holds at the start, when nobody has anything.
LEMMA AbsInvInit == AbsInit => AbsInv
BY DEF AbsInit, AbsInv, AbsTypeOK, Kept

\* Settling on a key and handing it over both keep AbsInv.
LEMMA AbsInvStep ==
  ASSUME AbsInv, [AbsNext]_absVars
  PROVE  AbsInv'
<1> USE DEF AbsInv, AbsTypeOK, Kept
<1>1. ASSUME NEW x \in Exchanges, Agree(x) PROVE AbsInv'
  BY <1>1 DEF Agree
<1>2. ASSUME NEW x \in Exchanges, NEW s \in Sides, Obtain(x, s) PROVE AbsInv'
  BY <1>2 DEF Obtain
<1>3. CASE UNCHANGED absVars
  BY <1>3 DEF absVars
<1> QED BY <1>1, <1>2, <1>3 DEF AbsNext

\* The promise makes the daemons of an exchange agree and keeps different
\* exchanges apart.
THEOREM PromiseAgrees == AbsSpec => [](SidesAgree /\ ExchangesApart)
<1>1. AbsInv => SidesAgree /\ ExchangesApart
  <2> SUFFICES ASSUME AbsInv PROVE SidesAgree /\ ExchangesApart
    OBVIOUS
  <2>1. SidesAgree
    BY DEF AbsInv, Kept, SidesAgree
  <2>2. ExchangesApart
    BY DEF AbsInv, Kept, ExchangesApart
  <2> QED BY <2>1, <2>2
<1> QED BY <1>1, AbsInvInit, AbsInvStep, PTL DEF AbsSpec

\* What a side was handed is for good.
THEOREM PromiseStands == AbsSpec => ObtainedForGood
<1> DEFINE ForGood == \A x \in Exchanges, s \in Sides :
                        obtained[<<x, s>>] # None
                          => obtained'[<<x, s>>] = obtained[<<x, s>>]
<1>1. AbsInv /\ [AbsNext]_absVars => [ForGood]_absVars
  <2> SUFFICES ASSUME AbsInv, AbsNext PROVE ForGood
    OBVIOUS
  <2>1. ASSUME NEW x \in Exchanges, Agree(x) PROVE ForGood
    BY <2>1 DEF Agree
  <2>2. ASSUME NEW x \in Exchanges, NEW s \in Sides, Obtain(x, s) PROVE ForGood
    BY <2>2 DEF Obtain, AbsInv, AbsTypeOK, Kept
  <2> QED BY <2>1, <2>2 DEF AbsNext
<1> QED BY <1>1, AbsInvInit, AbsInvStep, PTL DEF AbsSpec, ObtainedForGood
===============================================================================
