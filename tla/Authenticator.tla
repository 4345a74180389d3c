--------------------------- MODULE Authenticator ---------------------------
(***************************************************************************)
(* answer and validate of Authenticator (src/src/auth.ts): a tag is the    *)
(* text of a MAC in hexadecimal, and Buffer.from decodes what a peer sends *)
(* only as far as it is hexadecimal.  A character of a tag is one of four: *)
(* a digit, a digit with both cases, and one that is no digit.             *)
(***************************************************************************)
EXTENDS Integers, Sequences

CONSTANTS
  Secret,
  Challenge,
  Mac  \* Mac[<<secret, challenge>>]: the half bytes of the HMAC under the hashed secret

Nibble == [c \in {"0", "a", "A"} |-> IF c = "0" THEN 0 ELSE 10]
Chars == DOMAIN Nibble \cup {"x"}
Pairs(s) == Len(s) \div 2

\* HMAC and SHA-256 are taken to tell secrets and challenges apart.
ASSUME MacAssumption ==
  /\ DOMAIN Mac = Secret \X Challenge
  /\ \A p, q \in DOMAIN Mac :
       /\ p # q => Mac[p] # Mac[q]
       /\ Mac[p] \in Seq({0, 10}) /\ Len(Mac[p]) = Len(Mac[q]) /\ Len(Mac[p]) % 2 = 0

Answer(secret, challenge) ==
  [i \in DOMAIN Mac[<<secret, challenge>>] |->
     IF Mac[<<secret, challenge>>][i] = 0 THEN "0" ELSE "a"]

\* Buffer.from(tag, "hex"): as many pairs as are hexadecimal from the start.
Decoded(tag) ==
  LET whole(n) == \A i \in 1 .. 2 * n : tag[i] \in DOMAIN Nibble
      n == CHOOSE k \in 0 .. Pairs(tag) :
             whole(k) /\ \A m \in 0 .. Pairs(tag) : whole(m) => m =< k
  IN [i \in 1 .. 2 * n |-> Nibble[tag[i]]]

\* Mutant: the input is not screened.
ScreenedNot(tag) == TRUE

Screened(tag) ==
  Len(tag) % 2 = 0 /\ \A i \in DOMAIN tag : tag[i] \in DOMAIN Nibble

Validate(secret, challenge, tag) ==
  /\ Screened(tag)
  /\ Len(Decoded(tag)) = Len(Mac[<<secret, challenge>>])
  /\ Decoded(tag) = Mac[<<secret, challenge>>]
=============================================================================
