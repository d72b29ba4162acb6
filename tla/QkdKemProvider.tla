---------------------------- MODULE QkdKemProvider ----------------------------
(* The OpenSSL provider behind the qkd-kem plugin, as qkd_kem.c uses it: key *)
(* pairs, encapsulation and decapsulation. What the provider does with the   *)
(* QKD network in between is one more way for a call to fail.                *)
(* An EVP_PKEY_* call returns 1, or 0 or a negative value if it failed.      *)
EXTENDS Integers, Chunk

CONSTANTS KeyPairs,     \* key pairs the provider can generate
          Secrets,      \* secrets it can encapsulate
          Noise,        \* bytes nobody agreed on, or that nobody wrote
          Errors        \* what a call that fails returns; {} if none does

PublicKeys == [kind : {"public_key"}, pair : KeyPairs]
Ciphertexts == [kind : {"ciphertext"}, pair : KeyPairs, secret : Secrets]

ASSUME ProviderAssumption ==
  /\ Errors \subseteq {0, -1}
  /\ Noise \notin Secrets \cup PublicKeys \cup Ciphertexts \cup {None}
  /\ None \notin KeyPairs \cup Secrets \cup PublicKeys \cup Ciphertexts

PublicKey(pair) == [kind |-> "public_key", pair |-> pair]
Ciphertext(pair, secret) == [kind |-> "ciphertext", pair |-> pair, secret |-> secret]

Fails(outcomes) == IF Errors # {} THEN outcomes ELSE {}

\* EVP_PKEY_encapsulate to a public key, with one of the fresh secrets. A call
\* that fails has written nothing, or something, to the buffers it was given.
Encapsulate(key, fresh) ==
  {[code |-> 1, ciphertext |-> Ciphertext(key.pair, k), secret |-> k] : k \in fresh}
  \cup {[code |-> c, ciphertext |-> Noise, secret |-> Noise] :
          c \in IF fresh = {} THEN Errors \cup {0} ELSE Errors}

\* EVP_PKEY_decapsulate: with another key pair than the one encapsulated to
\* the call succeeds all the same, with a secret of its own.
Decapsulate(pair, value) ==
  {[code |-> 1, secret |-> IF value \in Ciphertexts /\ value.pair = pair
                           THEN value.secret ELSE Noise]}
  \cup {[code |-> c, secret |-> Noise] : c \in Errors}
===============================================================================
