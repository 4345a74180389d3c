-------------------------- MODULE AlgorithmProofs --------------------------
(***************************************************************************)
(* What the pure algorithms compute, for inputs beyond those that are      *)
(* enumerated: any map of scalars as a JSON value, any port count and word *)
(* width, any number of draws, tags of any length, and command lines of    *)
(* any tokens and any length.  A lemma says it of the operator; the        *)
(* theorems, at the end, say it of every call.                             *)
(***************************************************************************)
EXTENDS MCAlgorithms, FiniteSetTheorems, WellFoundedInduction, TLAPS

(* Messages. *)

\* The JSON values: maps of any finite set of keys, and integers of any size.
Keys == Names \cup Text
AnyScalar ==
  {String(s) : s \in Keys \cup Spelled} \cup {Number(n) : n \in Int} \cup {Null, Other}
AnyMap == {Map(f) : f \in UNION {[K -> AnyScalar] : K \in {S \in SUBSET Keys : IsFiniteSet(S)}}}

LEMMA Shapes ==
  /\ \A s : Is(String(s), "string") /\ ~Is(String(s), "number") /\ ~Is(String(s), "map")
            /\ String(s) # Null /\ String(s).string = s
  /\ \A n : Is(Number(n), "number") /\ ~Is(Number(n), "string") /\ ~Is(Number(n), "map")
            /\ Number(n) # Null /\ Number(n).number = n
  /\ \A f : Is(Map(f), "map") /\ ~Is(Map(f), "string") /\ ~Is(Map(f), "number")
            /\ Map(f) # Null /\ Map(f).map = f
  /\ ~Is(Null, "map") /\ ~Is(Null, "string") /\ ~Is(Null, "number")
  /\ ~Is(Other, "map") /\ ~Is(Other, "string") /\ ~Is(Other, "number") /\ Other # Null
  BY DEF Is, String, Number, Map, Null, Other

LEMMA Kinds ==
  /\ \A k, x, l, y : Message(k, x) = Message(l, y) <=> k = l /\ x = y
  /\ \A k, x : Message(k, x).kind = k /\ Message(k, x).value = x
  BY DEF Message

LEMMA Variant ==
  ASSUME NEW to \in {"server", "client"}, NEW k \in Variants(to)
  PROVE  /\ k \in Names
         /\ Holds(k) = "unit" <=> k = "Heartbeat"
         /\ k = "Heartbeat" => to = "client"
         /\ Holds(k) \in {"unit", "u16", "uuid", "string"}
  BY DEF Variants, Names, Holds

\* What a map with one key is taken for.
LEMMA OneKey ==
  ASSUME NEW to \in {"server", "client"}, NEW k \in Variants(to), NEW f, DOMAIN f = {k}
  PROVE  Deserialize(Map(f), to) = Payload(k, f[k])
<1>1. SplitVariant(Map(f), to) = {k}
  BY FS_Singleton, Shapes DEF SplitVariant
<1>2. (CHOOSE x \in {k} : TRUE) = k
  OBVIOUS
<1> QED
  BY <1>1, <1>2, Shapes DEF Deserialize

\* A map that names no variant is rejected.
LEMMA NoVariant ==
  ASSUME NEW to \in {"server", "client"}, NEW f, SplitVariant(Map(f), to) = {}
  PROVE  Deserialize(Map(f), to) = Rejected
  BY Shapes DEF Deserialize

\* Every message comes back.
LEMMA ComesBack ==
  ASSUME NEW to \in {"server", "client"}, NEW m \in MessagesTo(to)
  PROVE  Deserialize(Serialize(m), to) = m
<1>1. PICK k \in Variants(to) : \E h \in Payloads(Holds(k)) : m = Message(k, h)
  BY DEF MessagesTo
<1>h. PICK h \in Payloads(Holds(k)) : m = Message(k, h)
  BY <1>1
<1>2. m.kind = k /\ m.value = h
  BY <1>h, Kinds
<1>3. CASE Holds(k) = "unit"
  <2>1. k = "Heartbeat" /\ to = "client" /\ h = Null
    BY <1>3, Variant DEF Payloads
  <2>2. Serialize(m) = String("Heartbeat")
    BY <1>2, <1>3, <2>1 DEF Serialize
  <2> QED
    BY <1>h, <2>1, <2>2, Shapes DEF Deserialize, Unit
<1>4. CASE Holds(k) # "unit"
  <2> DEFINE f == [x \in {k} |-> h]
  <2>1. Serialize(m) = Map(f) /\ DOMAIN f = {k} /\ f[k] = h
    BY <1>2, <1>4 DEF Serialize, Single
  <2>2. Payload(k, h) = Message(k, h)
    <3>1. CASE Holds(k) = "u16"
      BY <3>1, Shapes, MaxAssumption DEF Payload, Payloads, ExpectU16
    <3>2. CASE Holds(k) = "uuid"
      BY <3>2, Shapes DEF Payload, Payloads, ExpectUuid, Spelled
    <3>3. CASE Holds(k) = "string"
      BY <3>3, Shapes DEF Payload, Payloads
    <3> QED
      BY <1>4, <3>1, <3>2, <3>3, Variant
  <2> HIDE DEF f
  <2> QED
    BY <1>h, <2>1, <2>2, OneKey
<1> QED
  BY <1>3, <1>4

LEMMA Failures ==
  ASSUME NEW to \in {"server", "client"}, NEW m \in MessagesTo(to)
  PROVE  m # End
<1>1. PICK k \in Variants(to) : \E h \in Payloads(Holds(k)) : m = Message(k, h)
  BY DEF MessagesTo
<1>2. k # "end" 
  BY DEF Variants
<1> QED
  BY <1>1, <1>2, Kinds DEF End

\* A bare string is the unit variant or nothing.
LEMMA BareString ==
  ASSUME NEW to \in {"server", "client"}, NEW s
  PROVE  ReadStrictly(String(s), to)
<1>1. Deserialize(String(s), to) = Unit(s, to)
  BY Shapes DEF Deserialize
<1>2. CASE to = "client" /\ s = "Heartbeat"
  <2>1. Unit(s, to) = Message("Heartbeat", Null) /\ "Heartbeat" \in Variants(to)
    BY <1>2 DEF Unit, Variants
  <2>2. Holds("Heartbeat") = "unit" /\ Null \in Payloads("unit")
    BY DEF Holds, Payloads
  <2>3. Message("Heartbeat", Null) \in MessagesTo(to)
    BY <2>1, <2>2 DEF MessagesTo
  <2>4. Serialize(Message("Heartbeat", Null)) = String(s)
    BY <1>2, <2>2, Kinds DEF Serialize
  <2>5. Canonical(String(s)) = String(s)
    BY Shapes DEF Canonical
  <2> QED
    BY <1>1, <2>1, <2>3, <2>4, <2>5, Failures DEF ReadStrictly
<1>3. CASE ~(to = "client" /\ s = "Heartbeat")
  <2>1. Unit(s, to) = Rejected /\ Rejected # End
    BY <1>3, Kinds DEF Unit, Rejected, End
  <2> QED
    BY <1>1, <2>1 DEF ReadStrictly
<1> QED
  BY <1>2, <1>3

\* A map whose key is a variant: accepted with a payload of its type only.
LEMMA Newtype ==
  ASSUME NEW to \in {"server", "client"}, NEW k \in Variants(to), NEW f, DOMAIN f = {k},
         f = [x \in {k} |-> f[k]], f[k] \in AnyScalar
  PROVE  ReadStrictly(Map(f), to)
<1> DEFINE got == Payload(k, f[k])
<1>1. Deserialize(Map(f), to) = got
  BY OneKey
<1>2. got # End /\ (got # Rejected => Holds(k) # "unit" /\ got.kind = k)
  BY Kinds, Variant DEF Payload, End, Rejected, Variants
<1>3. ASSUME got # Rejected
      PROVE  got \in MessagesTo(to) /\ Serialize(got) = Canonical(Map(f))
  <2>u. ASSUME NEW h, h \in Payloads(Holds(k)), got = Message(k, h)
        PROVE  got \in MessagesTo(to) /\ Serialize(got) = Map([x \in {k} |-> h])
    <3>1. got \in MessagesTo(to)
      BY <2>u DEF MessagesTo
    <3>2. Serialize(got) = Map([x \in {k} |-> h])
      BY <1>2, <1>3, <2>u, Kinds DEF Serialize, Single
    <3> QED
      BY <3>1, <3>2
  <2>c. /\ Is(Map(f), "map") /\ Map(f).map = f
        /\ Holds(k) # "uuid" \/ f[k] # String("UPPER") => Canonical(Map(f)) = Map(f)
        /\ Holds(k) = "uuid" /\ f[k] = String("UPPER") =>
             Canonical(Map(f)) = Map([x \in {k} |-> String("lower")])
    BY Shapes DEF Canonical
  <2>1. CASE Holds(k) = "u16"
    <3>1. ExpectU16(f[k]) /\ got = Message(k, f[k])
      BY <1>3, <2>1 DEF Payload
    <3>2. PICK n \in Int : f[k] = Number(n)
      BY <3>1, Shapes DEF AnyScalar, ExpectU16
    <3>3. n \in 0 .. U16Max
      BY <3>1, <3>2, Shapes, MaxAssumption DEF ExpectU16
    <3>4. f[k] \in Payloads(Holds(k))
      BY <2>1, <3>2, <3>3 DEF Payloads
    <3> QED
      BY <2>u, <2>c, <2>1, <3>1, <3>4
  <2>2. CASE Holds(k) = "uuid"
    <3>1. ExpectUuid(f[k]) /\ got = Message(k, String("lower"))
      BY <1>3, <2>2 DEF Payload
    <3>2. f[k] = String("lower") \/ f[k] = String("UPPER")
      BY <3>1, Shapes DEF AnyScalar, ExpectUuid, Spelled
    <3>3. String("lower") \in Payloads(Holds(k)) /\ String("lower") # String("UPPER")
      BY <2>2, Shapes DEF Payloads
    <3> QED
      BY <2>u, <2>c, <2>2, <3>1, <3>2, <3>3
  <2>3. CASE Holds(k) = "string"
    <3>1. Is(f[k], "string") /\ got = Message(k, f[k])
      BY <1>3, <2>3 DEF Payload
    <3>2. PICK s \in Keys \cup Spelled : f[k] = String(s)
      BY <3>1, Shapes DEF AnyScalar
    <3>3. f[k] \in Payloads(Holds(k))
      BY <2>3, <3>2 DEF Payloads, Keys
    <3> QED
      BY <2>u, <2>c, <2>3, <3>1, <3>3
  <2> QED
    BY <1>2, <1>3, <2>1, <2>2, <2>3, Variant
<1> HIDE DEF got
<1> QED
  BY <1>1, <1>2, <1>3 DEF ReadStrictly

\* What is rejected is read strictly.
LEMMA Misfit ==
  ASSUME NEW to \in {"server", "client"}, NEW v, Deserialize(v, to) = Rejected
  PROVE  ReadStrictly(v, to)
  BY Kinds DEF ReadStrictly, Rejected, End

\* A scalar, and a map of scalars with any finite set of keys.
LEMMA AnyRead ==
  ASSUME NEW to \in {"server", "client"}, NEW v \in AnyScalar \cup AnyMap
  PROVE  ReadStrictly(v, to)
<1>1. CASE v \in AnyScalar
  <2>1. ASSUME NEW s, v = String(s) PROVE ReadStrictly(v, to)
    BY <2>1, BareString
  <2>2. CASE v = Null
    <3>1. Deserialize(v, to) = End
      BY <2>2, Shapes DEF Deserialize
    <3> QED
      BY <2>2, <3>1 DEF ReadStrictly
  <2>3. CASE (\E n \in Int : v = Number(n)) \/ v = Other
    <3>1. Deserialize(v, to) = Rejected
      BY <2>3, Shapes DEF Deserialize
    <3> QED
      BY <3>1, Misfit
  <2> QED
    BY <1>1, <2>1, <2>2, <2>3 DEF AnyScalar
<1>2. CASE v \in AnyMap
  <2>1. PICK K \in SUBSET Keys : IsFiniteSet(K) /\ \E f \in [K -> AnyScalar] : v = Map(f)
    BY <1>2 DEF AnyMap
  <2>2. PICK f \in [K -> AnyScalar] : v = Map(f)
    BY <2>1
  <2>3. CASE SplitVariant(v, to) = {}
    BY <2>2, <2>3, NoVariant, Misfit
  <2>4. CASE SplitVariant(v, to) # {}
    <3>1. Cardinality(K) = 1 /\ K \cap Variants(to) # {}
      BY <2>2, <2>4, Shapes DEF SplitVariant
    <3>2. PICK k : K = {k}
      BY <2>1, <3>1, FS_Singleton
    <3>3. k \in Variants(to) /\ DOMAIN f = {k} /\ f = [x \in {k} |-> f[k]] /\ f[k] \in AnyScalar
      BY <2>2, <3>1, <3>2
    <3> QED
      BY <2>2, <3>3, Newtype
  <2> QED
    BY <2>3, <2>4
<1> QED
  BY <1>1, <1>2

\* The maps that are enumerated.
LEMMA MapRead ==
  ASSUME NEW to \in {"server", "client"}, NEW v \in Maps
  PROVE  ReadStrictly(v, to)
<1>1. CASE \E k \in Keys, w \in Scalars : v = Single(k, w)
  <2>1. PICK k \in Keys, w \in Scalars : v = Single(k, w)
    BY <1>1
  <2>2. w \in AnyScalar
    BY MaxAssumption DEF Scalars, AnyScalar, Keys
  <2>3. [x \in {k} |-> w] \in [{k} -> AnyScalar] /\ IsFiniteSet({k}) /\ {k} \subseteq Keys
    BY <2>2, FS_Singleton
  <2>4. v \in AnyMap
    BY <2>1, <2>3 DEF AnyMap, Single
  <2> QED
    BY <2>4, AnyRead
<1>2. CASE \E K : v = Map([k \in K |-> String("lower")]) /\ Cardinality(K) \in {0, 2}
  <2>1. SplitVariant(v, to) = {}
    BY <1>2, Shapes DEF SplitVariant
  <2> QED
    BY <1>2, <2>1, NoVariant, Misfit
<1> QED
  BY <1>1, <1>2 DEF Maps, Keys

-----------------------------------------------------------------------------
(* Fastrand. *)

LEMMA Monotone ==
  ASSUME NEW a \in Int, NEW b \in Int, NEW c \in Nat, a =< b
  PROVE  a * c =< b * c
  OBVIOUS

LEMMA DivMod ==
  ASSUME NEW a \in Nat, NEW b \in Nat \ {0}
  PROVE  /\ a \div b \in Nat /\ a % b \in 0 .. b - 1
         /\ a = (a \div b) * b + (a % b)
  OBVIOUS

\* The quotient is the only one with a remainder below the divisor.
LEMMA DivUnique ==
  ASSUME NEW a \in Nat, NEW b \in Nat \ {0}, NEW q \in Int, NEW r \in 0 .. b - 1,
         a = q * b + r
  PROVE  a \div b = q /\ a % b = r
<1> DEFINE p == a \div b
           s == a % b
<1>1. p \in Nat /\ s \in 0 .. b - 1 /\ a = p * b + s
  BY DivMod
<1> HIDE DEF p, s
<1>2. CASE p < q
  <2>1. (p + 1) * b =< q * b
    BY <1>1, <1>2, Monotone
  <2>2. (p + 1) * b = p * b + b
    BY <1>1
  <2>3. p * b \in Int /\ q * b \in Int
    BY <1>1
  <2> QED
    BY <1>1, <2>1, <2>2, <2>3
<1>3. CASE q < p
  <2>1. (q + 1) * b =< p * b
    BY <1>1, <1>3, Monotone
  <2>2. (q + 1) * b = q * b + b
    BY <1>1
  <2>3. p * b \in Int /\ q * b \in Int
    BY <1>1
  <2> QED
    BY <1>1, <2>1, <2>2, <2>3
<1>4. CASE p = q
  <2>1. p * b \in Int
    BY <1>1
  <2>2. s = r
    BY <1>1, <1>4, <2>1
  <2> QED
    BY <1>4, <2>2 DEF p, s
<1> QED
  BY <1>1, <1>2, <1>3, <1>4

\* The least r that takes r * n to a.
LEMMA Ceiling ==
  ASSUME NEW a \in Nat, NEW n \in Nat \ {0}, NEW r \in Int
  PROVE  a =< r * n <=> (a + n - 1) \div n =< r
<1> DEFINE c == (a + n - 1) \div n
           m == (a + n - 1) % n
<1>0. a + n - 1 \in Nat
  OBVIOUS
<1>1. c \in Nat /\ m \in 0 .. n - 1 /\ a + n - 1 = c * n + m
  BY <1>0, DivMod
<1> HIDE DEF c, m
<1>2. c * n \in Int /\ r * n \in Int
  BY <1>1
<1>3. ASSUME c =< r PROVE a =< r * n
  <2>1. c * n =< r * n
    BY <1>1, <1>3, Monotone
  <2> QED
    BY <1>1, <1>2, <2>1
<1>4. ASSUME r < c PROVE r * n < a
  <2>1. (r + 1) * n =< c * n
    BY <1>1, <1>4, Monotone
  <2>2. (r + 1) * n = r * n + n
    OBVIOUS
  <2> QED
    BY <1>1, <1>2, <2>1, <2>2
<1>5. a =< r * n <=> c =< r
  BY <1>1, <1>2, <1>3, <1>4
<1> QED
  BY <1>5 DEF c

Widths == PortCount \in Nat \ {0} /\ WordCount \in Nat \ {0} /\ WordCount >= PortCount

LEMMA Positive == Widths
  BY CountAssumption DEF Widths

\* WordCount is a multiple of n, and the threshold.
LEMMA Rest ==
  ASSUME NEW n \in 1 .. PortCount
  PROVE  /\ WordCount \div n \in Nat \ {0} /\ Threshold(n) \in 0 .. n - 1
         /\ WordCount = (WordCount \div n) * n + Threshold(n)
<1> USE Positive DEF Widths
<1> DEFINE W == WordCount
           q == W \div n
           t == W % n
<1>0. W \in Nat /\ n \in Nat \ {0}
  OBVIOUS
<1>1. q \in Nat /\ t \in 0 .. n - 1 /\ W = q * n + t
  BY <1>0, DivMod
<1> HIDE DEF q, t
<1>2. q >= 1
  <2>1. q = 0 => q * n = 0
    BY <1>1
  <2> QED
    BY <1>1, <2>1
<1>3. W - n \in Nat /\ W - n = 0 * W + (W - n) /\ W - n \in 0 .. W - 1
  OBVIOUS
<1>4. (W - n) % W = W - n
  BY <1>3, DivUnique
<1>5. W - n = (q - 1) * n + t
  <2>1. (q - 1) * n = q * n - n /\ q * n \in Int
    BY <1>1
  <2> QED
    BY <1>1, <2>1
<1>6. (W - n) % n = t
  <2>1. q - 1 \in Int
    BY <1>1
  <2> HIDE DEF W
  <2> QED
    BY <1>1, <1>3, <1>5, <2>1, DivUnique
<1>7. Threshold(n) = t
  BY <1>4, <1>6 DEF Threshold
<1> QED
  BY <1>1, <1>2, <1>7 DEF q

\* The words that a draw with result i returns on follow each other.
From(n, i) == (i * WordCount + Threshold(n) + n - 1) \div n

\* The high and the low part of a product.
LEMMA HighLow ==
  ASSUME NEW n \in 1 .. PortCount, NEW r \in Word
  PROVE  /\ Hi(r, n) \in 0 .. n - 1 /\ Lo(r, n) \in Word
         /\ r * n = Hi(r, n) * WordCount + Lo(r, n)
<1> USE Positive DEF Widths
<1>1. r \in Nat /\ r * n \in Nat
  BY DEF Word
<1>2. Hi(r, n) \in Nat /\ Lo(r, n) \in Word /\ r * n = Hi(r, n) * WordCount + Lo(r, n)
  BY <1>1, DivMod DEF Hi, Lo, Word
<1>3. Hi(r, n) < n
  <2> SUFFICES ASSUME n =< Hi(r, n) PROVE FALSE
    BY <1>2
  <2>1. n * WordCount =< Hi(r, n) * WordCount
    BY <1>2, Monotone
  <2>2. (r + 1) * n =< WordCount * n
    <3>1. r + 1 =< WordCount
      BY DEF Word
    <3> QED
      BY <1>1, <3>1, Monotone
  <2>3. (r + 1) * n = r * n + n /\ WordCount * n = n * WordCount
    BY <1>1
  <2>4. n * WordCount \in Int /\ Hi(r, n) * WordCount \in Int /\ Lo(r, n) \in Nat
    BY <1>2 DEF Word
  <2> QED
    BY <1>1, <1>2, <2>1, <2>2, <2>3, <2>4
<1> QED
  BY <1>2, <1>3

\* The words of result i that a later draw returns on: WordCount \div n of them.
LEMMA Block ==
  ASSUME NEW n \in 1 .. PortCount, NEW i \in 0 .. n - 1
  PROVE  /\ From(n, i) \in Nat
         /\ {r \in Later(n) : Hi(r, n) = i} = From(n, i) .. From(n, i) + (WordCount \div n) - 1
<1> USE Positive DEF Widths
<1> DEFINE W == WordCount
           q == W \div n
           t == Threshold(n)
           a == i * W + t
           c == From(n, i)
<1>1. q \in Nat \ {0} /\ t \in 0 .. n - 1 /\ W = q * n + t
  BY Rest
<1>w. W \in Nat \ {0}
  OBVIOUS
<1> HIDE DEF q, t, W
<1>2. i * W \in Nat /\ a \in Nat /\ q * n \in Nat
  BY <1>1, <1>w
<1>e. \A r \in Int : a =< r * n <=> (a + n - 1) \div n =< r
  BY <1>2, Ceiling
<1>c. c = (a + n - 1) \div n /\ c \in Nat
  <2>1. c = (a + n - 1) \div n
    BY DEF From, W, t
  <2>2. a + n - 1 \in Nat
    BY <1>2
  <2> QED
    BY <2>1, <2>2, DivMod
<1> HIDE DEF a, c
<1>3. \A r \in Int : a =< r * n <=> c =< r
  BY <1>e, <1>c
<1>4. ASSUME NEW r \in Int PROVE r * n < a + q * n <=> r < c + q
  <2>1. r - q \in Int /\ (r - q) * n = r * n - q * n /\ r * n \in Int
    BY <1>1
  <2>2. a =< (r - q) * n <=> c =< r - q
    BY <1>3, <2>1
  <2> HIDE DEF a
  <2>3. a \in Int /\ c \in Int /\ q \in Int /\ q * n \in Int
    BY <1>1, <1>2, <1>c
  <2> QED
    BY <2>1, <2>2, <2>3
<1>5. a + q * n = i * W + W
  BY <1>1, <1>2, <1>w DEF a
<1>6. ASSUME NEW r \in Later(n), Hi(r, n) = i PROVE r \in c .. c + q - 1
  <2>1. r \in Word /\ Lo(r, n) >= t
    BY DEF Later, t
  <2>2. r * n = i * W + Lo(r, n) /\ Lo(r, n) \in 0 .. W - 1 /\ r \in Int
    BY <1>6, <2>1, HighLow DEF W, Word
  <2>3. a =< r * n /\ r * n < a + q * n
    BY <1>1, <1>2, <1>w, <1>5, <2>1, <2>2 DEF a
  <2> QED
    BY <1>1, <1>3, <1>4, <1>c, <2>2, <2>3
<1>7. ASSUME NEW r \in c .. c + q - 1 PROVE r \in Later(n) /\ Hi(r, n) = i
  <2>1. r \in Nat /\ a =< r * n /\ r * n < a + q * n
    BY <1>1, <1>3, <1>4, <1>c
  <2>2. r * n \in Nat
    BY <2>1
  <2> DEFINE l == r * n - i * W
  <2>3. l \in t .. W - 1 /\ r * n = i * W + l
    BY <1>1, <1>2, <1>w, <1>5, <2>1, <2>2 DEF a
  <2>4. Hi(r, n) = i /\ Lo(r, n) = l
    <3>1. l \in 0 .. W - 1
      BY <1>1, <2>3
    <3> HIDE DEF l
    <3>2. (r * n) \div W = i /\ (r * n) % W = l
      BY <1>w, <2>2, <2>3, <3>1, DivUnique
    <3> QED
      BY <3>2 DEF Hi, Lo, W
  <2>5. r \in Word
    <3>1. i * W + W =< n * W
      <4>1. (i + 1) * W =< n * W
        BY <1>w, Monotone
      <4>2. (i + 1) * W = i * W + W
        BY <1>w
      <4> QED
        BY <4>1, <4>2
    <3>2. r < W
      <4> SUFFICES ASSUME W =< r PROVE FALSE
        BY <1>w, <2>1
      <4>1. W * n =< r * n
        BY <1>w, <2>1, Monotone
      <4>2. W * n = n * W /\ W * n \in Int
        BY <1>w
      <4> QED
        BY <1>2, <1>5, <1>w, <2>1, <2>2, <3>1, <4>1, <4>2
    <3> QED
      BY <2>1, <3>2 DEF Word, W
  <2> QED
    BY <2>3, <2>4, <2>5, <1>1, <1>w DEF Later, t
<1>8. {r \in Later(n) : Hi(r, n) = i} = c .. c + q - 1
  BY <1>6, <1>7
<1> QED
  BY <1>8, <1>c DEF c, q, W

\* The first draw rejects no more and no less: n > Threshold(n).
LEMMA FirstIsLater ==
  ASSUME NEW n \in 1 .. PortCount
  PROVE  First(n) = Later(n)
<1>1. Threshold(n) \in 0 .. n - 1
  BY Rest
<1>2. \A r \in Word : Lo(r, n) \in Nat
  BY HighLow DEF Word
<1>3. n \in Nat /\ Threshold(n) \in Nat
  BY <1>1, Positive DEF Widths
<1>4. ASSUME NEW r \in Word, Lo(r, n) >= n PROVE Lo(r, n) >= Threshold(n)
  BY <1>1, <1>2, <1>3, <1>4
<1> QED
  BY <1>4 DEF First, Later

\* As many words as the multiple of n: they are laid out in blocks of equal length.
LEMMA Kept ==
  ASSUME NEW n \in 1 .. PortCount
  PROVE  Cardinality(Later(n)) = (WordCount \div n) * n
<1> USE Positive DEF Widths
<1> DEFINE q == WordCount \div n
           M == 0 .. q * n - 1
           f == [m \in M |-> From(n, m \div q) + (m % q)]
<1>1. q \in Nat \ {0} /\ n \in Nat \ {0} /\ q * n \in Nat
  BY Rest
<1> HIDE DEF q
<1>2. ASSUME NEW m \in M
      PROVE  /\ m \div q \in 0 .. n - 1 /\ m % q \in 0 .. q - 1 /\ m = (m \div q) * q + (m % q)
             /\ f[m] \in Later(n) /\ Hi(f[m], n) = m \div q
  <2>1. m \in Nat /\ m < q * n
    BY <1>1
  <2>2. m \div q \in Nat /\ m % q \in 0 .. q - 1 /\ m = (m \div q) * q + (m % q)
    BY <1>1, <2>1, DivMod
  <2> DEFINE i == m \div q
             k == m % q
  <2>3. i \in Nat /\ k \in 0 .. q - 1 /\ m = i * q + k /\ f[m] = From(n, i) + k
    BY <2>2
  <2> HIDE DEF i, k, f
  <2>4. i < n
    <3> SUFFICES ASSUME n =< i PROVE FALSE
      BY <1>1, <2>3
    <3>1. n * q =< i * q
      BY <1>1, <2>3, Monotone
    <3>2. n * q = q * n /\ i * q \in Int
      BY <1>1, <2>3
    <3> QED
      BY <1>1, <2>1, <2>3, <3>1, <3>2
  <2>5. f[m] \in From(n, i) .. From(n, i) + q - 1
    <3>1. From(n, i) \in Nat
      BY <1>1, <2>3, <2>4, Block
    <3> QED
      BY <1>1, <2>3, <3>1
  <2>6. f[m] \in Later(n) /\ Hi(f[m], n) = i
    <3>1. {r \in Later(n) : Hi(r, n) = i} = From(n, i) .. From(n, i) + q - 1
      BY <1>1, <2>3, <2>4, Block DEF q
    <3> QED
      BY <2>5, <3>1
  <2>7. i \in 0 .. n - 1
    BY <1>1, <2>3, <2>4
  <2> QED
    BY <2>2, <2>6, <2>7 DEF i
<1>3. ASSUME NEW m \in M, NEW l \in M, f[m] = f[l] PROVE m = l
  <2>1. m \div q = l \div q
    BY <1>2, <1>3
  <2> DEFINE i == m \div q
  <2>2. i \in 0 .. n - 1 /\ From(n, i) \in Nat
    BY <1>1, <1>2, Block
  <2>3. f[m] = From(n, i) + (m % q) /\ f[l] = From(n, i) + (l % q)
    BY <2>1
  <2>4. m = i * q + (m % q) /\ l = i * q + (l % q) /\ m % q \in 0 .. q - 1 /\ l % q \in 0 .. q - 1
    BY <1>2, <2>1
  <2> DEFINE a == m % q
             b == l % q
  <2> HIDE DEF i, f
  <2>5. a = b
    <3>1. f[m] = From(n, i) + a /\ f[l] = From(n, i) + b /\ a \in Int /\ b \in Int
      BY <1>1, <2>3, <2>4
    <3> HIDE DEF a, b
    <3>2. From(n, i) + a = From(n, i) + b
      BY <1>3, <3>1
    <3> QED
      BY <2>2, <3>1, <3>2
  <2> QED
    BY <2>4, <2>5
<1>4. ASSUME NEW r \in Later(n) PROVE \E m \in M : f[m] = r
  <2> DEFINE i == Hi(r, n)
             k == r - From(n, i)
             m == i * q + k
  <2>1. r \in Word /\ i \in 0 .. n - 1
    <3>1. r \in Word
      BY DEF Later
    <3> QED
      BY <3>1, HighLow
  <2>2. From(n, i) \in Nat /\ r \in From(n, i) .. From(n, i) + q - 1
    BY <2>1, Block DEF q
  <2> HIDE DEF i
  <2>3. k \in 0 .. q - 1 /\ r = From(n, i) + k
    BY <1>1, <2>2
  <2> HIDE DEF k
  <2>4. m \in Nat /\ m < q * n
    <3>1. (i + 1) * q =< n * q
      BY <1>1, <2>1, Monotone
    <3>2. (i + 1) * q = i * q + q /\ i * q \in Nat /\ n * q = q * n
      BY <1>1, <2>1
    <3> QED
      BY <1>1, <2>3, <3>1, <3>2
  <2> HIDE DEF m
  <2>5. m \div q = i /\ m % q = k
    BY <1>1, <2>1, <2>3, <2>4, DivUnique DEF m
  <2>6. m \in M
    BY <1>1, <2>4
  <2> QED
    BY <2>3, <2>5, <2>6
<1>5. f \in Bijection(M, Later(n))
  <2>1. f \in [M -> Later(n)]
    BY <1>2
  <2> HIDE DEF f, M
  <2> QED
    BY <1>3, <1>4, <2>1 DEF Bijection, Injection, Surjection, IsInjective
<1>6. IsFiniteSet(M) /\ Cardinality(M) = q * n
  <2>1. 0 \in Int /\ q * n - 1 \in Int
    BY <1>1
  <2>2. IsFiniteSet(M) /\ Cardinality(M) = IF 0 > q * n - 1 THEN 0 ELSE q * n - 1 - 0 + 1
    BY <2>1, FS_Interval
  <2> QED
    BY <1>1, <2>2
<1> HIDE DEF f, M
<1>7. ExistsBijection(M, Later(n))
  BY <1>5 DEF ExistsBijection
<1> QED
  BY <1>6, <1>7, FS_Bijection DEF q

\* Every result has its share of the words, and most words are returned on.
LEMMA EvenDraw ==
  ASSUME NEW n \in 1 .. PortCount
  PROVE  Even(n)
<1> DEFINE q == WordCount \div n
           t == Threshold(n)
<1>1. q \in Nat \ {0} /\ t \in 0 .. n - 1 /\ WordCount = q * n + t
  BY Rest
<1>n. n \in Nat \ {0} /\ q * n \in Nat
  BY <1>1, Positive DEF Widths
<1>2. ASSUME NEW i \in 0 .. n - 1 PROVE Cardinality({r \in Later(n) : Hi(r, n) = i}) = q
  <2>1. /\ From(n, i) \in Nat
        /\ {r \in Later(n) : Hi(r, n) = i} = From(n, i) .. From(n, i) + q - 1
    BY Block
  <2> HIDE DEF q
  <2> DEFINE b == From(n, i) + q - 1
  <2>2. From(n, i) \in Int /\ b \in Int
    BY <1>1, <2>1
  <2>3. Cardinality(From(n, i) .. b) = IF From(n, i) > b THEN 0 ELSE b - From(n, i) + 1
    BY <2>2, FS_Interval
  <2>4. Cardinality(From(n, i) .. b) = q
    BY <1>1, <2>1, <2>3
  <2> QED
    BY <2>1, <2>4
<1>3. 2 * Cardinality(Later(n)) > WordCount
  <2>1. Cardinality(Later(n)) = q * n
    BY Kept
  <2>2. n =< q * n
    <3>1. 1 * n =< q * n
      BY <1>1, <1>n, Monotone
    <3> QED
      BY <1>n, <3>1
  <2> HIDE DEF q, t
  <2> QED
    BY <1>1, <1>n, <2>1, <2>2
<1> HIDE DEF q
<1> QED
  BY <1>2, <1>3, FirstIsLater DEF Even

\* A set of naturals with a member has a least one.
LEMMA Least ==
  ASSUME NEW T, T \subseteq Nat, T # {}
  PROVE  \E x \in T : \A y \in T : x =< y
<1> DEFINE R == OpToRel(<, Nat)
<1>1. IsWellFoundedOn(R, Nat)
  BY NatLessThanWellFounded
<1>2. \A x, y \in Nat : <<x, y>> \in R <=> x < y
  BY DEF OpToRel
<1> HIDE DEF R
<1>3. PICK x \in T : \A y \in T : ~ (<<y, x>> \in R)
  BY <1>1, WFMin
<1>4. ASSUME NEW y \in T PROVE x =< y
  <2>1. x \in Nat /\ y \in Nat /\ ~(<<y, x>> \in R)
    BY <1>3
  <2>2. ~(y < x)
    BY <2>1, <1>2
  <2> QED
    BY <2>1, <2>2
<1> QED
  BY <1>4

\* What has no least counterexample has none.
LEMMA NoLeast ==
  ASSUME NEW T, T \subseteq Nat, \A x \in T : \E y \in T : y < x
  PROVE  T = {}
<1> SUFFICES ASSUME T # {} PROVE FALSE
  OBVIOUS
<1>1. PICK x \in T : \A y \in T : x =< y
  BY Least
<1>2. PICK y \in T : y < x
  OBVIOUS
<1>3. x \in Nat /\ y \in Nat /\ x =< y
  BY <1>1
<1> QED
  BY <1>2, <1>3

\* The draw that ends the loop, if one does, is the first that may.
LEMMA Draw ==
  ASSUME NEW n \in Nat, NEW words \in Seq(Word), LastDraw(words, n) # 0
  PROVE  LastDraw(words, n) \in DOMAIN words
<1> DEFINE T == {i \in DOMAIN words : Accepts(words, i, n)}
<1>1. T # {} /\ T \subseteq Nat
  BY DEF LastDraw
<1>2. PICK i \in T : \A j \in T : i =< j
  BY <1>1, Least
<1>3. \A j \in 1 .. i - 1 : j \in DOMAIN words /\ ~(i =< j)
  BY <1>1, <1>2
<1>4. \A j \in 1 .. i - 1 : ~Accepts(words, j, n)
  BY <1>2, <1>3
<1> QED
  BY <1>1, <1>2, <1>4 DEF LastDraw

\* Whatever the words, the port is in the range.
LEMMA InRange ==
  ASSUME NEW low \in Port, NEW high \in Port, low =< high,
         NEW words \in Seq(Word), words # <<>>
  PROVE  U16(low, high, words) \subseteq low .. high
<1> USE Positive DEF Widths
<1> DEFINE n == Span(low, high)
           draw == LastDraw(words, n)
<1>1. n \in 1 .. PortCount /\ low \in Nat /\ high \in Nat /\ n = high - low + 1
  BY DEF Port, Span
<1>2. ASSUME draw # 0 PROVE low + Hi(words[draw], n) \in low .. high
  <2>1. words[draw] \in Word
    BY <1>1, <1>2, Draw
  <2>2. Hi(words[draw], n) \in 0 .. n - 1
    BY <1>1, <2>1, HighLow
  <2> HIDE DEF n, draw
  <2> QED
    BY <1>1, <2>2
<1>3. ASSUME low = 0, high = PortCount - 1 PROVE words[1] % PortCount \in low .. high
  <2>1. words[1] \in Nat
    BY DEF Word
  <2>2. words[1] % PortCount \in 0 .. PortCount - 1
    BY <2>1, DivMod
  <2> QED
    BY <1>3, <2>2
<1>4. ~(low > high)
  BY <1>1
<1> HIDE DEF n, draw
<1> QED
  BY <1>2, <1>3, <1>4 DEF U16, n, draw

-----------------------------------------------------------------------------
(* Tags. *)

LEMMA SameEnd ==
  ASSUME NEW a \in Nat, NEW b \in Nat, 1 .. a = 1 .. b
  PROVE  a = b
<1>1. \A i \in Int : i \in 1 .. a <=> i \in 1 .. b
  OBVIOUS
<1>2. CASE a < b
  BY <1>1, <1>2
<1>3. CASE b < a
  BY <1>1, <1>3
<1> QED
  BY <1>2, <1>3

\* Buffer.from cuts nothing off a text that the regular expression lets pass.
LEMMA Halves ==
  ASSUME NEW tag \in Seq(Chars), Screened(tag)
  PROVE  Decoded(tag) = [i \in 1 .. Len(tag) |-> Nibble[tag[i]]]
<1> DEFINE whole(n) == \A i \in 1 .. 2 * n : tag[i] \in DOMAIN Nibble
           n == CHOOSE k \in 0 .. Pairs(tag) :
                  whole(k) /\ \A m \in 0 .. Pairs(tag) : whole(m) => m =< k
<1>1. Len(tag) \in Nat /\ DOMAIN tag = 1 .. Len(tag)
  OBVIOUS
<1>2. Pairs(tag) \in Nat /\ 2 * Pairs(tag) = Len(tag)
  <2> DEFINE l == Len(tag)
  <2>1. l \in Nat /\ l % 2 = 0
    BY <1>1 DEF Screened
  <2> HIDE DEF l
  <2>2. l \div 2 \in Nat /\ 2 * (l \div 2) = l
    BY <2>1
  <2> QED
    BY <2>2 DEF l, Pairs
<1>3. whole(Pairs(tag))
  BY <1>1, <1>2 DEF Screened
<1> HIDE DEF whole
<1>4. \A k \in 0 .. Pairs(tag) : k =< Pairs(tag)
  BY <1>2
<1>5. /\ n \in 0 .. Pairs(tag)
      /\ \A m \in 0 .. Pairs(tag) : whole(m) => m =< n
  <2>1. Pairs(tag) \in 0 .. Pairs(tag)
    BY <1>2
  <2> QED
    BY <1>3, <1>4, <2>1
<1>6. n = Pairs(tag)
  BY <1>2, <1>3, <1>5
<1> HIDE DEF n
<1>7. Decoded(tag) = [i \in 1 .. 2 * n |-> Nibble[tag[i]]]
  BY DEF Decoded, n, whole
<1> QED
  BY <1>2, <1>6, <1>7

LEMMA Mine ==
  ASSUME NEW s \in Secret, NEW c \in Challenge
  PROVE  /\ Mac[<<s, c>>] \in Seq({0, 10})
         /\ Len(Mac[<<s, c>>]) % 2 = 0
<1>1. <<s, c>> \in DOMAIN Mac
  BY MacAssumption
<1>2. \A p \in DOMAIN Mac : Mac[p] \in Seq({0, 10}) /\ Len(Mac[p]) % 2 = 0
  BY MacAssumption
<1> QED
  BY <1>1, <1>2

\* For a tag of any length.
LEMMA Exactly ==
  ASSUME NEW s \in Secret, NEW c \in Challenge, NEW tag \in Seq(Chars)
  PROVE  Exact(s, c, tag)
<1> DEFINE mac == Mac[<<s, c>>]
<1>1. mac \in Seq({0, 10}) /\ Len(mac) % 2 = 0
  BY Mine
<1>2. /\ Len(mac) \in Nat /\ DOMAIN mac = 1 .. Len(mac)
      /\ mac = [i \in 1 .. Len(mac) |-> mac[i]]
      /\ \A i \in 1 .. Len(mac) : mac[i] \in {0, 10}
  <2> HIDE DEF mac
  <2>1. Len(mac) \in Nat /\ DOMAIN mac = 1 .. Len(mac)
    BY <1>1
  <2>2. mac = [i \in 1 .. Len(mac) |-> mac[i]]
    BY <1>1
  <2>3. \A i \in 1 .. Len(mac) : mac[i] \in {0, 10}
    BY <1>1
  <2> QED
    BY <2>1, <2>2, <2>3
<1>3. Answer(s, c) = [i \in DOMAIN mac |-> IF mac[i] = 0 THEN "0" ELSE "a"]
  BY DEF Answer
<1>4. Validate(s, c, tag) <=> Screened(tag) /\ Decoded(tag) = mac
  BY DEF Validate
<1> HIDE DEF mac
<1>5. Len(tag) \in Nat /\ DOMAIN tag = 1 .. Len(tag) /\ \A i \in DOMAIN tag : tag[i] \in Chars
  OBVIOUS
<1>6. /\ DOMAIN Nibble = {"0", "a", "A"} /\ Chars = {"0", "a", "A", "x"}
      /\ Nibble["0"] = 0 /\ Nibble["a"] = 10 /\ Nibble["A"] = 10
  BY DEF Nibble, Chars
<1>7. ASSUME Screened(tag), Decoded(tag) = mac PROVE Lower(tag) = Answer(s, c)
  <2>1. mac = [i \in 1 .. Len(tag) |-> Nibble[tag[i]]]
    BY <1>7, Halves
  <2>2. DOMAIN mac = DOMAIN tag /\ \A i \in DOMAIN tag : mac[i] = Nibble[tag[i]]
    BY <2>1, <1>5
  <2>3. \A i \in DOMAIN tag : tag[i] \in {"0", "a", "A"}
    BY <1>6, <1>7 DEF Screened
  <2>4. \A i \in DOMAIN tag :
          (IF tag[i] = "A" THEN "a" ELSE tag[i]) = IF mac[i] = 0 THEN "0" ELSE "a"
    BY <1>6, <2>2, <2>3
  <2> QED
    BY <1>3, <2>2, <2>4 DEF Lower
<1>8. ASSUME Lower(tag) = Answer(s, c) PROVE Screened(tag) /\ Decoded(tag) = mac
  <2>1. DOMAIN tag = DOMAIN mac
    BY <1>3, <1>8 DEF Lower
  <2>2. Len(tag) = Len(mac)
    BY <1>2, <1>5, <2>1, SameEnd
  <2>3. \A i \in DOMAIN tag :
          (IF tag[i] = "A" THEN "a" ELSE tag[i]) = IF mac[i] = 0 THEN "0" ELSE "a"
    BY <1>3, <1>8, <2>1 DEF Lower
  <2>4. \A i \in DOMAIN tag : tag[i] \in {"0", "a", "A"} /\ Nibble[tag[i]] = mac[i]
    BY <1>2, <1>5, <1>6, <2>1, <2>3
  <2>5. Screened(tag)
    BY <1>1, <1>6, <2>2, <2>4 DEF Screened
  <2>6. Decoded(tag) = [i \in 1 .. Len(tag) |-> Nibble[tag[i]]]
    BY <2>5, Halves
  <2> QED
    BY <1>2, <1>5, <2>2, <2>4, <2>5, <2>6
<1> QED
  BY <1>4, <1>7, <1>8 DEF Exact

-----------------------------------------------------------------------------
(* The command line. *)

Command == {"local", "server"}
Ids(k) == {a.id : a \in ArgumentSet(k)}

\* What an argument is declared with.
IsArgument(a, id, parser, env, default, positional, optional) ==
  /\ a.id = id /\ a.parser = parser /\ a.env = env /\ a.default = default
  /\ a.positional = positional /\ a.optional = optional

LEMMA Local ==
  LET args == Arguments("local") IN
  /\ DOMAIN args = 1 .. 5
  /\ IsArgument(args[1], "local_port", "u16", TRUE, Unset, TRUE, FALSE)
  /\ IsArgument(args[2], "local_host", "string", FALSE, Plain("localhost"), FALSE, FALSE)
  /\ IsArgument(args[3], "to", "string", TRUE, Unset, FALSE, FALSE)
  /\ IsArgument(args[4], "port", "u16", FALSE, Plain("0"), FALSE, FALSE)
  /\ IsArgument(args[5], "secret", "string", TRUE, Unset, FALSE, TRUE)
  BY DEF Arguments, Positional, Option, SecretOption, IsArgument

LEMMA Remote ==
  LET args == Arguments("server") IN
  /\ DOMAIN args = 1 .. 5
  /\ IsArgument(args[1], "min_port", "u16", TRUE, Plain("1024"), FALSE, FALSE)
  /\ IsArgument(args[2], "max_port", "u16", TRUE, Plain("65535"), FALSE, FALSE)
  /\ IsArgument(args[3], "secret", "string", TRUE, Unset, FALSE, TRUE)
  /\ IsArgument(args[4], "bind_addr", "ip", FALSE, Plain("0.0.0.0"), FALSE, FALSE)
  /\ IsArgument(args[5], "bind_tunnels", "ip", FALSE, Unset, FALSE, TRUE)
  BY DEF Arguments, Option, SecretOption, IsArgument

\* The arguments of a command have different ids; at most the first is positional.
LEMMA Declared ==
  ASSUME NEW k \in Command
  PROVE  /\ \A a, b \in ArgumentSet(k) : a.id = b.id => a = b
         /\ \A a \in ArgumentSet(k) :
              a.positional \in BOOLEAN /\ (a.id \in OptionIds(k) <=> ~a.positional)
         /\ "exit" \notin Ids(k)
         /\ \E a \in ArgumentSet(k) : \A n :
              Target(k, n) \subseteq {a} /\ (Target(k, n) # {} => a.positional)
<1> DEFINE args == Arguments(k)
<1>0. \A i \in 1 .. 5 : i \in {1, 2, 3, 4, 5}
  OBVIOUS
<1>1. /\ DOMAIN args = 1 .. 5
      /\ \A i, j \in {1, 2, 3, 4, 5} : args[i].id = args[j].id => i = j
      /\ \A i \in {1, 2, 3, 4, 5} : args[i].positional \in BOOLEAN /\ args[i].id # "exit"
      /\ \A i \in {2, 3, 4, 5} : args[i].positional = FALSE
  <2> DEFINE five(v, w, x, y, z) ==
              /\ args[1].id = v /\ args[2].id = w /\ args[3].id = x /\ args[4].id = y
              /\ args[5].id = z
             ids == \/ five("local_port", "local_host", "to", "port", "secret")
                    \/ five("min_port", "max_port", "secret", "bind_addr", "bind_tunnels")
  <2>1. /\ DOMAIN args = 1 .. 5 /\ ids /\ args[1].positional \in BOOLEAN
        /\ args[2].positional = FALSE /\ args[3].positional = FALSE
        /\ args[4].positional = FALSE /\ args[5].positional = FALSE
    <3>1. CASE k = "local"
      BY <3>1, Local DEF IsArgument
    <3>2. CASE k = "server"
      BY <3>2, Remote DEF IsArgument
    <3> QED
      BY <3>1, <3>2 DEF Command
  <2> HIDE DEF args
  <2>2. \A i, j \in {1, 2, 3, 4, 5} : args[i].id = args[j].id => i = j
    BY <2>1
  <2> QED
    BY <2>1, <2>2
<1>2. ArgumentSet(k) = {args[i] : i \in {1, 2, 3, 4, 5}}
  BY <1>0, <1>1 DEF ArgumentSet
<1>3. \A i \in DOMAIN args : args[i].positional => i = 1
  BY <1>0, <1>1
<1>4. \A n : Target(k, n) \subseteq {args[1]} /\ (Target(k, n) # {} => args[1].positional)
  BY <1>3 DEF Target
<1> HIDE DEF args
<1>5. \A a, b \in ArgumentSet(k) : a.id = b.id => a = b
  BY <1>1, <1>2
<1>6. \A a \in ArgumentSet(k) : a.positional \in BOOLEAN /\ a.id # "exit"
  BY <1>1, <1>2
<1>7. \A a \in ArgumentSet(k) : a.id \in OptionIds(k) <=> ~a.positional
  BY <1>5 DEF OptionIds
<1> QED
  BY <1>2, <1>4, <1>5, <1>6, <1>7 DEF Ids

\* Which tokens are values is decided, from the left, for every line.
Decided(k, line, n, V) == V \subseteq 1 .. n /\ \A i \in 1 .. n : i \in V <=> Takes(k, line, V, i)

LEMMA TakesBelow ==
  ASSUME NEW k, NEW line, NEW i \in Nat, NEW V, NEW W, \A j \in 1 .. i - 1 : j \in V <=> j \in W
  PROVE  Takes(k, line, V, i) <=> Takes(k, line, W, i)
<1>1. i > 1 => (i - 1 \in V <=> i - 1 \in W)
  OBVIOUS
<1> QED
  BY <1>1 DEF Takes

LEMMA TakenDecided ==
  ASSUME NEW k, NEW line, NEW L \in Nat, DOMAIN line = 1 .. L
  PROVE  Decided(k, line, L, Taken(k, line))
<1> DEFINE T == {n \in Nat : ~ \E V : Decided(k, line, n, V)}
<1>1. ASSUME NEW n \in T PROVE \E m \in T : m < n
  <2>1. CASE n = 0
    <3>1. 1 .. n = {}
      BY <2>1
    <3>2. Decided(k, line, n, {})
      BY <3>1 DEF Decided
    <3> QED
      BY <3>2
  <2>2. CASE n # 0
    <3> SUFFICES ASSUME n - 1 \notin T PROVE FALSE
      BY <2>2
    <3>1. n - 1 \in Nat /\ n \in Nat
      BY <2>2
    <3>2. PICK V : Decided(k, line, n - 1, V)
      BY <3>1
    <3> DEFINE W == V \cup {i \in {n} : Takes(k, line, V, i)}
    <3>3. V \subseteq 1 .. n - 1 /\ \A i \in 1 .. n - 1 : i \in V <=> Takes(k, line, V, i)
      BY <3>2 DEF Decided
    <3>4. \A j \in 1 .. n - 1 : j \in V <=> j \in W
      BY <3>1
    <3>n. n \notin V /\ V \subseteq 1 .. n /\ n \in 1 .. n
      BY <3>1, <3>3
    <3>5. W \subseteq 1 .. n /\ (n \in W <=> Takes(k, line, V, n))
      BY <3>n
    <3> HIDE DEF W
    <3>6. ASSUME NEW i \in 1 .. n PROVE i \in W <=> Takes(k, line, W, i)
      <4>1. i \in Nat /\ \A j \in 1 .. i - 1 : j \in 1 .. n - 1
        BY <3>1
      <4>2. Takes(k, line, V, i) <=> Takes(k, line, W, i)
        BY <4>1, <3>4, TakesBelow
      <4>3. i = n \/ i \in 1 .. n - 1
        BY <3>1
      <4> QED
        BY <3>3, <3>4, <3>5, <4>2, <4>3
    <3>7. Decided(k, line, n, W)
      BY <3>5, <3>6 DEF Decided
    <3> QED
      BY <3>7
  <2> QED
    BY <2>1, <2>2
<1>2. T = {}
  BY <1>1, NoLeast
<1>3. PICK V : Decided(k, line, L, V)
  BY <1>2
<1>4. \E U \in SUBSET DOMAIN line : \A i \in DOMAIN line : i \in U <=> Takes(k, line, U, i)
  BY <1>3 DEF Decided
<1> QED
  BY <1>4 DEF Taken, Decided

-----------------------------------------------------------------------------
Start(empty) == [at |-> 1, raw |-> empty, k |-> 0, only |-> FALSE]
Iterates(k, line, s) == IF Exits(s) \/ s.at > Len(line) THEN s ELSE Reads(k, line, s)
Iterated(k, line, empty, n, g) ==
  g = [i \in 0 .. n |-> IF i = 0 THEN Start(empty) ELSE Iterates(k, line, g[i - 1])]

\* The loop has a course, whatever the line.
LEMMA Course ==
  ASSUME NEW k, NEW line, NEW empty, NEW L \in Nat
  PROVE  \E g : Iterated(k, line, empty, L, g)
<1> DEFINE T == {n \in Nat : ~ \E g : Iterated(k, line, empty, n, g)}
<1>1. ASSUME NEW n \in T PROVE \E m \in T : m < n
  <2>1. CASE n = 0
    <3> DEFINE g == [i \in 0 .. 0 |-> Start(empty)]
    <3>1. \A i \in 0 .. 0 : i = 0
      OBVIOUS
    <3>2. g = [i \in 0 .. 0 |-> IF i = 0 THEN Start(empty) ELSE Iterates(k, line, g[i - 1])]
      BY <3>1
    <3> QED
      BY <2>1, <3>2 DEF Iterated
  <2>2. CASE n # 0
    <3> SUFFICES ASSUME n - 1 \notin T PROVE FALSE
      BY <2>2
    <3>1. n - 1 \in Nat /\ n \in Nat
      BY <2>2
    <3>2. PICK h : Iterated(k, line, empty, n - 1, h)
      BY <3>1
    <3> DEFINE g == [i \in 0 .. n |-> IF i = n THEN Iterates(k, line, h[n - 1]) ELSE h[i]]
               next(f) == [i \in 0 .. n |-> IF i = 0 THEN Start(empty)
                                            ELSE Iterates(k, line, f[i - 1])]
    <3>3. h = [i \in 0 .. n - 1 |-> IF i = 0 THEN Start(empty) ELSE Iterates(k, line, h[i - 1])]
      BY <3>2 DEF Iterated
    <3>4. ASSUME NEW i \in 0 .. n
          PROVE  g[i] = IF i = 0 THEN Start(empty) ELSE Iterates(k, line, g[i - 1])
      <4>1. CASE i = 0
        BY <3>1, <3>3, <4>1, <2>2
      <4>2. CASE i # 0
        <5>1. i - 1 \in 0 .. n - 1 /\ i - 1 \in 0 .. n /\ i - 1 # n
          BY <3>1, <4>2
        <5>2. g[i - 1] = h[i - 1]
          BY <5>1
        <5>3. i # n => i \in 0 .. n - 1
          BY <3>1
        <5>4. i # n => h[i] = Iterates(k, line, h[i - 1])
          BY <3>3, <4>2, <5>3
        <5>5. g[i] = IF i = n THEN Iterates(k, line, h[n - 1]) ELSE h[i]
          OBVIOUS
        <5> QED
          BY <4>2, <5>2, <5>4, <5>5
      <4> QED
        BY <4>1, <4>2
    <3>5. DOMAIN g = 0 .. n /\ g = [i \in DOMAIN g |-> g[i]]
      OBVIOUS
    <3> HIDE DEF g
    <3>6. g = next(g)
      BY <3>4, <3>5
    <3>7. Iterated(k, line, empty, n, g)
      BY <3>6 DEF Iterated
    <3> QED
      BY <3>7
  <2> QED
    BY <2>1, <2>2
<1>2. T = {}
  BY <1>1, NoLeast
<1> QED
  BY <1>2

Runs(k, line, empty, g) ==
  /\ Scan(k, line, empty) = g[Len(line)] /\ g[0] = Start(empty)
  /\ \A n \in 1 .. Len(line) : g[n] = Iterates(k, line, g[n - 1])

LEMMA ScanRuns ==
  ASSUME NEW k, NEW line, NEW empty, Len(line) \in Nat
  PROVE  \E g : Runs(k, line, empty, g)
<1> DEFINE L == Len(line)
<1>1. Scan(k, line, empty) = (CHOOSE g : Iterated(k, line, empty, L, g))[L]
  BY DEF Scan, Iterated, Iterates, Start
<1> DEFINE g == CHOOSE g : Iterated(k, line, empty, L, g)
<1>2. Iterated(k, line, empty, L, g)
  BY Course
<1> HIDE DEF g
<1>3. g = [i \in 0 .. L |-> IF i = 0 THEN Start(empty) ELSE Iterates(k, line, g[i - 1])]
  BY <1>2 DEF Iterated
<1>4. 0 \in 0 .. L /\ \A n \in 1 .. L : n \in 0 .. L /\ n # 0
  OBVIOUS
<1>5. g[0] = Start(empty)
  BY <1>3, <1>4
<1>6. ASSUME NEW n \in 1 .. L PROVE g[n] = Iterates(k, line, g[n - 1])
  BY <1>3, <1>4
<1> QED
  BY <1>1, <1>5, <1>6 DEF g, Runs

-----------------------------------------------------------------------------
IsToken(t) ==
  /\ t.kind \in {"word", "separator", "help", "flag", "joined"}
  /\ t.kind = "separator" <=> t = Separator
  /\ t.kind = "help" <=> t = HelpFlag
  /\ t # Unset /\ (t.kind = "joined" => t.value # Unset)
Line(line) ==
  /\ Len(line) \in Nat /\ DOMAIN line = 1 .. Len(line)
  /\ \A i \in 1 .. Len(line) : IsToken(line[i])

Before(S, n) == {i \in S : i < n}
Best(k, line, V, a, n) ==
  IF Before(Given(k, line, V, a), n) # {}
  THEN Says(line, V, Max(Before(Given(k, line, V, a), n))) ELSE Unset

\* The loop has read the tokens before s.at, and none of them is wrong ...
Reached(k, line, V, s) ==
  /\ ~Exits(s)
  /\ s.at \in 1 .. Len(line) + 1 /\ s.at \notin V
  /\ s.only <=> Past(line, V, s.at)
  /\ s.k = Cardinality(Before(Places(line, V), s.at))
  /\ \A i \in Wrong(k, line, V) : i >= s.at
  /\ DOMAIN s.raw = Ids(k)
  /\ \A a \in ArgumentSet(k) : s.raw[a.id] = Best(k, line, V, a, s.at)

\* ... or it has come to the first that is.
Stopped(k, line, V, s) ==
  \E w \in Wrong(k, line, V) :
    /\ \A j \in Wrong(k, line, V) : w =< j
    /\ s = Exit(IF line[w] = HelpFlag /\ w \notin Places(line, V) THEN 0 ELSE 2)

LEMMA MaxIs ==
  ASSUME NEW S, S \subseteq Int, NEW m \in S, \A i \in S : i =< m
  PROVE  Max(S) = m
<1>1. \A x \in S : (\A y \in S : x >= y) <=> x = m
  OBVIOUS
<1> QED
  BY <1>1 DEF Max

LEMMA MinIs ==
  ASSUME NEW S, S \subseteq Int, NEW m \in S, \A i \in S : m =< i
  PROVE  Min(S) = m
<1>1. \A x \in S : (\A y \in S : x =< y) <=> x = m
  OBVIOUS
<1> QED
  BY <1>1 DEF Min

LEMMA BeforeNext ==
  ASSUME NEW G, G \subseteq Int, NEW m \in Int, NEW n \in Int, m < n
  PROVE  /\ (\A i \in G : ~(m =< i /\ i < n)) => Before(G, n) = Before(G, m)
         /\ n - 1 \in G => Before(G, n) # {} /\ Max(Before(G, n)) = n - 1
<1>1. ASSUME \A i \in G : ~(m =< i /\ i < n) PROVE Before(G, n) = Before(G, m)
  <2>1. \A i \in G : i < n <=> i < m
    BY <1>1
  <2> QED
    BY <2>1 DEF Before
<1>2. ASSUME n - 1 \in G PROVE Before(G, n) # {} /\ Max(Before(G, n)) = n - 1
  <2>0. n - 1 < n
    OBVIOUS
  <2>1. n - 1 \in Before(G, n) /\ Before(G, n) \subseteq Int
    BY <1>2, <2>0 DEF Before
  <2>2. \A i \in Before(G, n) : i =< n - 1
    BY DEF Before
  <2> QED
    BY <2>1, <2>2, MaxIs
<1> QED
  BY <1>1, <1>2

\* One token further, or two.
LEMMA Onward ==
  ASSUME NEW k, NEW line, Line(line), NEW V, NEW s, Reached(k, line, V, s),
         NEW u, ~Exits(u), u.at \in {s.at + 1, s.at + 2}, u.at =< Len(line) + 1, u.at \notin V,
         u.only <=> Past(line, V, u.at),
         u.k = Cardinality(Before(Places(line, V), u.at)),
         \A i \in Wrong(k, line, V) : ~(s.at =< i /\ i < u.at),
         DOMAIN u.raw = Ids(k),
         \A a \in ArgumentSet(k) :
           \/ u.at - 1 \in Given(k, line, V, a) /\ u.raw[a.id] = Says(line, V, u.at - 1)
           \/ /\ \A i \in Given(k, line, V, a) : ~(s.at =< i /\ i < u.at)
              /\ u.raw[a.id] = s.raw[a.id]
  PROVE  Reached(k, line, V, u)
<1>1. s.at \in Int /\ u.at \in Int /\ u.at \in 1 .. Len(line) + 1 /\ s.at < u.at
  BY DEF Reached, Line
<1>2. \A i \in Wrong(k, line, V) : i \in Int
  BY DEF Wrong, Line
<1>3. \A i \in Wrong(k, line, V) : i >= u.at
  BY <1>1, <1>2 DEF Reached
<1>4. ASSUME NEW a \in ArgumentSet(k) PROVE u.raw[a.id] = Best(k, line, V, a, u.at)
  <2> DEFINE G == Given(k, line, V, a)
  <2>1. G \subseteq Int
    BY DEF Given, Line
  <2>2. CASE u.at - 1 \in G /\ u.raw[a.id] = Says(line, V, u.at - 1)
    <3> HIDE DEF G
    <3>1. Before(G, u.at) # {} /\ Max(Before(G, u.at)) = u.at - 1
      BY <1>1, <2>1, <2>2, BeforeNext
    <3> QED
      BY <2>2, <3>1 DEF Best, G
  <2>3. CASE (\A i \in G : ~(s.at =< i /\ i < u.at)) /\ u.raw[a.id] = s.raw[a.id]
    <3> HIDE DEF G
    <3>1. Before(G, u.at) = Before(G, s.at)
      BY <1>1, <2>1, <2>3, BeforeNext
    <3>2. s.raw[a.id] = Best(k, line, V, a, s.at)
      BY DEF Reached
    <3> QED
      BY <2>3, <3>1, <3>2 DEF Best, G
  <2> QED
    BY <2>2, <2>3
<1> QED
  BY <1>1, <1>3, <1>4 DEF Reached

Site(k, line, V, s) ==
  /\ Line(line) /\ Decided(k, line, Len(line), V) /\ Reached(k, line, V, s)
  /\ s.at =< Len(line)

\* What is to be decided of the token at s.at.
LEMMA Here ==
  ASSUME NEW k, NEW line, NEW V, NEW s, Site(k, line, V, s),
         NEW i, i = s.at
  PROVE  /\ i \in 1 .. Len(line) /\ i \in DOMAIN line \ V /\ IsToken(line[i])
         /\ i \in Places(line, V) <=> line[i].kind = "word" \/ s.only
         /\ i + 1 \in V <=> i < Len(line) /\ Bare(k, line[i]) /\ ~s.only
         /\ Past(line, V, i + 1) <=> s.only \/ line[i] = Separator
<1>1. /\ i \in 1 .. Len(line) /\ Len(line) \in Nat /\ i \in DOMAIN line \ V /\ IsToken(line[i])
      /\ s.only <=> Past(line, V, i)
  BY DEF Site, Line, Reached
<1>2. i \in Places(line, V) <=> line[i].kind = "word" \/ s.only
  BY <1>1 DEF Places
<1>3. \A j \in Int : j \in 1 .. (i + 1) - 1 <=> (j \in 1 .. i - 1 \/ j = i)
  BY <1>1
<1>4. Past(line, V, i + 1) <=> s.only \/ line[i] = Separator
  BY <1>1, <1>3 DEF Past
<1>5. (\A j \in 1 .. (i + 1) - 1 : line[j] = Separator => j \in V)
        <=> ~s.only /\ line[i] # Separator
  BY <1>1, <1>3 DEF Past
<1>6. i + 1 > 1 /\ (i + 1) - 1 = i
  BY <1>1
<1>7. Takes(k, line, V, i + 1) <=> Bare(k, line[i]) /\ ~s.only /\ line[i] # Separator
  BY <1>1, <1>5, <1>6 DEF Takes
<1>8. Bare(k, line[i]) => line[i] # Separator
  BY <1>1 DEF Bare, IsToken
<1>9. i + 1 \in V <=> i + 1 \in 1 .. Len(line) /\ Takes(k, line, V, i + 1)
  BY DEF Site, Decided
<1>10. i + 1 \in 1 .. Len(line) <=> i < Len(line)
  BY <1>1
<1> QED
  BY <1>1, <1>2, <1>4, <1>7, <1>8, <1>9, <1>10

LEMMA GivenHere ==
  ASSUME NEW k, NEW line, NEW V, NEW s, Site(k, line, V, s), NEW i, i = s.at
  PROVE  /\ \A a : i \in Given(k, line, V, a) <=>
              IF i \in Places(line, V) THEN a \in Target(k, s.k)
              ELSE ~a.positional /\ line[i].kind = "joined" /\ line[i].id = a.id
         /\ i \in Wrong(k, line, V) <=>
              IF i \in Places(line, V) THEN Target(k, s.k) = {}
              ELSE \/ line[i] = HelpFlag
                   \/ line[i].kind \in {"flag", "joined"} /\ line[i].id \notin OptionIds(k)
                   \/ Bare(k, line[i]) /\ i = Len(line)
<1>1. i \in DOMAIN line \ V
  BY Here
<1>2. Place(k, line, V, i) = Target(k, s.k)
  BY DEF Place, Before, Site, Reached
<1>3. \A a : i \in Given(k, line, V, a) <=>
              IF i \in Places(line, V) THEN a \in Target(k, s.k)
              ELSE ~a.positional /\ line[i].kind = "joined" /\ line[i].id = a.id
  BY <1>1, <1>2 DEF Given
<1>4. i \in Wrong(k, line, V) <=>
              IF i \in Places(line, V) THEN Target(k, s.k) = {}
              ELSE \/ line[i] = HelpFlag
                   \/ line[i].kind \in {"flag", "joined"} /\ line[i].id \notin OptionIds(k)
                   \/ Bare(k, line[i]) /\ i = Len(line)
  BY <1>1, <1>2 DEF Wrong
<1> QED
  BY <1>3, <1>4

LEMMA StopsHere ==
  ASSUME NEW k, NEW line, NEW V, NEW s, Site(k, line, V, s), s.at \in Wrong(k, line, V)
  PROVE  Stopped(k, line, V, Exit(IF line[s.at] = HelpFlag /\ s.at \notin Places(line, V)
                                  THEN 0 ELSE 2))
<1>1. s.at \in Int /\ \A i \in Wrong(k, line, V) : i \in Int /\ i >= s.at
  BY DEF Site, Line, Reached, Wrong
<1>2. \A i \in Wrong(k, line, V) : s.at =< i
  BY <1>1
<1> QED
  BY <1>2 DEF Stopped

LEMMA CountHere ==
  ASSUME NEW k, NEW line, NEW V, NEW s, Site(k, line, V, s), NEW i, i = s.at
  PROVE  /\ s.k \in Nat
         /\ Cardinality(Before(Places(line, V), i + 1))
              = IF i \in Places(line, V) THEN s.k + 1 ELSE s.k
         /\ i + 1 \in V => Before(Places(line, V), i + 2) = Before(Places(line, V), i + 1)
<1> DEFINE P == Places(line, V)
<1>1. P \subseteq 1 .. Len(line) /\ Len(line) \in Nat /\ i \in 1 .. Len(line) /\ P \cap V = {}
  BY DEF Places, Site, Line, Reached
<1>2. s.k = Cardinality(Before(P, i))
  BY DEF Site, Reached
<1> HIDE DEF P
<1>3. IsFiniteSet(1 .. Len(line))
  BY <1>1, FS_Interval
<1>4. Before(P, i) \subseteq 1 .. Len(line) /\ IsFiniteSet(Before(P, i))
  <2>1. Before(P, i) \subseteq 1 .. Len(line)
    BY <1>1 DEF Before
  <2> QED
    BY <1>3, <2>1, FS_Subset
<1>5. i \notin Before(P, i)
  BY <1>1 DEF Before
<1>n. /\ \A j \in P : (j < i + 1 <=> j < i \/ j = i) /\ (j < i + 2 <=> j < i + 1 \/ j = i + 1)
      /\ i < i + 1
  BY <1>1
<1>6. i \in P => Before(P, i + 1) = Before(P, i) \cup {i}
  BY <1>n DEF Before
<1>7. i \notin P => Before(P, i + 1) = Before(P, i)
  BY <1>n DEF Before
<1>8. i + 1 \in V => Before(P, i + 2) = Before(P, i + 1)
  BY <1>1, <1>n DEF Before
<1>9. s.k \in Nat
  BY <1>2, <1>4, FS_CardinalityType
<1>10. i \in P => Cardinality(Before(P, i + 1)) = s.k + 1
  BY <1>2, <1>4, <1>5, <1>6, FS_AddElement
<1> QED
  BY <1>2, <1>7, <1>8, <1>9, <1>10 DEF P

LEMMA Puts ==
  ASSUME NEW raw, NEW id \in DOMAIN raw, NEW w
  PROVE  /\ DOMAIN Put(raw, id, w) = DOMAIN raw
         /\ \A x \in DOMAIN raw : Put(raw, id, w)[x] = IF x = id THEN w ELSE raw[x]
  BY DEF Put

Goes(s, n, raw, k, only) == [at |-> s.at + n, raw |-> raw, k |-> k, only |-> only]

\* Where an iteration goes on.
On(k, line, V, s, u) ==
  IF Exits(u) THEN Stopped(k, line, V, u)
  ELSE Reached(k, line, V, u) /\ u.at \in {s.at + 1, s.at + 2}

LEMMA OneFurther ==
  ASSUME NEW k, NEW line, NEW V, NEW s, Site(k, line, V, s), NEW i, i = s.at,
         NEW u, ~Exits(u), u.at = i + 1, i + 1 \notin V,
         u.only <=> Past(line, V, i + 1),
         u.k = Cardinality(Before(Places(line, V), i + 1)),
         i \notin Wrong(k, line, V), DOMAIN u.raw = Ids(k),
         \A a \in ArgumentSet(k) :
           u.raw[a.id] = IF i \in Given(k, line, V, a) THEN Says(line, V, i) ELSE s.raw[a.id]
  PROVE  Reached(k, line, V, u)
<1>1. /\ i \in Int /\ (i + 1) - 1 = i /\ i + 1 =< Len(line) + 1
      /\ \A j \in Int : i =< j /\ j < i + 1 => j = i
  BY DEF Site, Line, Reached
<1>2. \A a : Given(k, line, V, a) \subseteq Int /\ Wrong(k, line, V) \subseteq Int
  BY DEF Given, Wrong, Site, Line
<1>3. \A j \in Wrong(k, line, V) : ~(i =< j /\ j < i + 1)
  BY <1>1, <1>2
<1>4. \A a \in ArgumentSet(k) :
        \/ (i + 1) - 1 \in Given(k, line, V, a) /\ u.raw[a.id] = Says(line, V, (i + 1) - 1)
        \/ /\ \A j \in Given(k, line, V, a) : ~(i =< j /\ j < i + 1)
           /\ u.raw[a.id] = s.raw[a.id]
  BY <1>1, <1>2
<1> QED
  BY <1>1, <1>3, <1>4, Onward DEF Site

\* A token that has a place: a word, or any token after the separator.
LEMMA ReadsPlaced ==
  ASSUME NEW k \in Command, NEW line, NEW V, NEW s, Site(k, line, V, s),
         s.at \in Places(line, V)
  PROVE  On(k, line, V, s, Reads(k, line, s))
<1> DEFINE i == s.at
           t == line[s.at]
           target == Target(k, s.k)
           b == CHOOSE b \in target : TRUE
<1>1. /\ i \in 1 .. Len(line) /\ i \in DOMAIN line \ V /\ IsToken(t)
      /\ t.kind = "word" \/ s.only
      /\ i + 1 \in V <=> i < Len(line) /\ Bare(k, t) /\ ~s.only
      /\ Past(line, V, i + 1) <=> s.only \/ t = Separator
  BY Here
<1>2. ~(~s.only /\ t = Separator) /\ ~(~s.only /\ t = HelpFlag)
      /\ ~(~s.only /\ t.kind \in {"joined", "flag"})
  BY <1>1 DEF IsToken
<1>3. CASE target = {}
  <2>1. Reads(k, line, s) = Exit(2)
    BY <1>2, <1>3 DEF Reads
  <2>2. i \in Wrong(k, line, V)
    BY <1>3, GivenHere
  <2> QED
    BY <2>1, <2>2, StopsHere DEF On, Exit, Exits
<1>4. CASE target # {}
  <2> DEFINE u == Goes(s, 1, Put(s.raw, b.id, t), s.k + 1, s.only)
  <2>1. Reads(k, line, s) = u
    BY <1>1, <1>2, <1>4 DEF Reads, Goes
  <2>2. b \in ArgumentSet(k) /\ \A a : a \in target <=> a = b
    BY <1>4, Declared
  <2>3. ~Exits(u) /\ u.at = i + 1 /\ u.raw = Put(s.raw, b.id, t) /\ u.k = s.k + 1
        /\ u.only = s.only
    BY DEF Goes, Exits
  <2> HIDE DEF u, b, target
  <2>4. i + 1 \notin V /\ (Past(line, V, i + 1) <=> s.only)
    BY <1>1, <1>2 DEF Bare, IsToken
  <2>5. u.k = Cardinality(Before(Places(line, V), i + 1))
    BY <2>3, CountHere
  <2>6. i \notin Wrong(k, line, V)
    BY <1>4, GivenHere DEF target
  <2>7. DOMAIN s.raw = Ids(k) /\ b.id \in Ids(k)
    BY <2>2 DEF Site, Reached, Ids
  <2>8. DOMAIN u.raw = Ids(k)
        /\ \A a \in ArgumentSet(k) : u.raw[a.id] = IF a.id = b.id THEN t ELSE s.raw[a.id]
    <3>1. DOMAIN u.raw = Ids(k)
          /\ \A x \in Ids(k) : u.raw[x] = IF x = b.id THEN t ELSE s.raw[x]
      BY <2>3, <2>7, Puts
    <3> QED
      BY <3>1 DEF Ids
  <2>9. \A a : i \in Given(k, line, V, a) <=> a = b
    BY <2>2, GivenHere DEF target
  <2>10. Says(line, V, i) = t
    BY DEF Says
  <2>11. \A a \in ArgumentSet(k) :
           u.raw[a.id] = IF i \in Given(k, line, V, a) THEN Says(line, V, i) ELSE s.raw[a.id]
    BY <2>2, <2>8, <2>9, <2>10, Declared
  <2>12. Reached(k, line, V, u)
    BY <2>3, <2>4, <2>5, <2>6, <2>8, <2>11, OneFurther
  <2> QED
    BY <2>1, <2>3, <2>12 DEF On
<1> QED
  BY <1>3, <1>4

\* The separator, help, and a flag that stands before no separator.
LEMMA ReadsSeparator ==
  ASSUME NEW k \in Command, NEW line, NEW V, NEW s, Site(k, line, V, s),
         s.at \notin Places(line, V), line[s.at].kind \in {"separator", "help"}
  PROVE  On(k, line, V, s, Reads(k, line, s))
<1> DEFINE i == s.at
           t == line[s.at]
<1>1. /\ i \in 1 .. Len(line) /\ i \in DOMAIN line \ V /\ IsToken(t) /\ ~s.only
      /\ i + 1 \in V <=> i < Len(line) /\ Bare(k, t) /\ ~s.only
      /\ Past(line, V, i + 1) <=> s.only \/ t = Separator
  BY Here
<1>2. CASE t.kind = "help"
  <2>1. ~s.only /\ t = HelpFlag /\ t # Separator /\ t.kind \notin {"joined", "flag", "word"}
    BY <1>1, <1>2 DEF IsToken
  <2>2. Reads(k, line, s) = Exit(0)
    BY <2>1 DEF Reads
  <2>3. i \in Wrong(k, line, V)
    BY <2>1, GivenHere
  <2> QED
    BY <2>1, <2>2, <2>3, StopsHere DEF On, Exit, Exits
<1>3. CASE t.kind = "separator"
  <2> DEFINE u == Goes(s, 1, s.raw, s.k, TRUE)
  <2>1. ~s.only /\ t # HelpFlag /\ t = Separator /\ t.kind \notin {"joined", "flag", "word"}
    BY <1>1, <1>3 DEF IsToken
  <2>2. Reads(k, line, s) = u
    BY <2>1 DEF Reads, Goes
  <2>3. ~Exits(u) /\ u.at = i + 1 /\ u.raw = s.raw /\ u.k = s.k /\ u.only = TRUE
    BY DEF Goes, Exits
  <2> HIDE DEF u
  <2>4. i + 1 \notin V /\ Past(line, V, i + 1)
    BY <1>1, <2>1 DEF Bare
  <2>5. u.k = Cardinality(Before(Places(line, V), i + 1))
    BY <2>3, CountHere
  <2>6. i \notin Wrong(k, line, V) /\ \A a : i \notin Given(k, line, V, a)
    BY <2>1, GivenHere DEF Bare
  <2>7. DOMAIN u.raw = Ids(k)
    BY <2>3 DEF Site, Reached
  <2>8. Reached(k, line, V, u)
    BY <2>3, <2>4, <2>5, <2>6, <2>7, OneFurther
  <2> QED
    BY <2>2, <2>3, <2>8 DEF On
<1> QED
  BY <1>2, <1>3

LEMMA ReadsJoined ==
  ASSUME NEW k \in Command, NEW line, NEW V, NEW s, Site(k, line, V, s),
         s.at \notin Places(line, V), line[s.at].kind = "joined"
  PROVE  On(k, line, V, s, Reads(k, line, s))
<1> DEFINE i == s.at
           t == line[s.at]
<1>1. /\ i \in 1 .. Len(line) /\ i \in DOMAIN line \ V /\ IsToken(t) /\ ~s.only
      /\ i + 1 \in V <=> i < Len(line) /\ Bare(k, t) /\ ~s.only
      /\ Past(line, V, i + 1) <=> s.only \/ t = Separator
  BY Here
<1>2. t # Separator /\ t # HelpFlag /\ t.kind = "joined"
  BY <1>1 DEF IsToken
<1>3. CASE t.id \notin OptionIds(k)
  <2>1. Reads(k, line, s) = Exit(2)
    BY <1>1, <1>2, <1>3 DEF Reads
  <2>2. i \in Wrong(k, line, V)
    BY <1>2, <1>3, GivenHere
  <2> QED
    BY <1>2, <2>1, <2>2, StopsHere DEF On, Exit, Exits
<1>4. CASE t.id \in OptionIds(k)
  <2> DEFINE u == Goes(s, 1, Put(s.raw, t.id, t.value), s.k, FALSE)
  <2>1. Reads(k, line, s) = u
    BY <1>1, <1>2, <1>4 DEF Reads, Goes
  <2>3. ~Exits(u) /\ u.at = i + 1 /\ u.raw = Put(s.raw, t.id, t.value) /\ u.k = s.k
        /\ u.only = FALSE
    BY DEF Goes, Exits
  <2> HIDE DEF u
  <2>4. i + 1 \notin V /\ ~Past(line, V, i + 1)
    BY <1>1, <1>2 DEF Bare
  <2>5. u.k = Cardinality(Before(Places(line, V), i + 1))
    BY <2>3, CountHere
  <2>6. i \notin Wrong(k, line, V)
    BY <1>2, <1>4, GivenHere DEF Bare
  <2>7. DOMAIN s.raw = Ids(k) /\ t.id \in Ids(k)
    BY <1>4 DEF Site, Reached, Ids, OptionIds
  <2>8. DOMAIN u.raw = Ids(k)
        /\ \A a \in ArgumentSet(k) : u.raw[a.id] = IF a.id = t.id THEN t.value ELSE s.raw[a.id]
    <3>1. DOMAIN u.raw = Ids(k)
          /\ \A x \in Ids(k) : u.raw[x] = IF x = t.id THEN t.value ELSE s.raw[x]
      BY <2>3, <2>7, Puts
    <3> QED
      BY <3>1 DEF Ids
  <2>9. \A a \in ArgumentSet(k) : i \in Given(k, line, V, a) <=> a.id = t.id
    BY <1>2, <1>4, GivenHere, Declared
  <2>10. Says(line, V, i) = t.value
    BY <1>1 DEF Says
  <2>11. \A a \in ArgumentSet(k) :
           u.raw[a.id] = IF i \in Given(k, line, V, a) THEN Says(line, V, i) ELSE s.raw[a.id]
    BY <2>8, <2>9, <2>10
  <2>12. Reached(k, line, V, u)
    BY <2>3, <2>4, <2>5, <2>6, <2>8, <2>11, OneFurther
  <2> QED
    BY <2>1, <2>3, <2>12 DEF On
<1> QED
  BY <1>3, <1>4

LEMMA ReadsFlag ==
  ASSUME NEW k \in Command, NEW line, NEW V, NEW s, Site(k, line, V, s),
         s.at \notin Places(line, V), line[s.at].kind = "flag"
  PROVE  On(k, line, V, s, Reads(k, line, s))
<1> DEFINE i == s.at
           t == line[s.at]
<1>1. /\ i \in 1 .. Len(line) /\ i \in DOMAIN line \ V /\ IsToken(t) /\ ~s.only
      /\ i + 1 \in V <=> i < Len(line) /\ Bare(k, t) /\ ~s.only
      /\ Past(line, V, i + 1) <=> s.only \/ t = Separator
      /\ i \in Int /\ Len(line) \in Nat
  BY Here DEF Site, Line
<1>2. t # Separator /\ t # HelpFlag /\ t.kind = "flag"
  BY <1>1 DEF IsToken
<1>3. CASE ~(t.id \in OptionIds(k) /\ i < Len(line))
  <2>1. Reads(k, line, s) = Exit(2)
    BY <1>1, <1>2, <1>3 DEF Reads
  <2>2. i < Len(line) \/ i = Len(line)
    BY <1>1
  <2>3. i \in Wrong(k, line, V)
    BY <1>2, <1>3, <2>2, GivenHere DEF Bare
  <2> QED
    BY <1>2, <2>1, <2>3, StopsHere DEF On, Exit, Exits
<1>4. CASE t.id \in OptionIds(k) /\ i < Len(line)
  <2> DEFINE w == line[i + 1]
             u == Goes(s, 2, Put(s.raw, t.id, w), s.k, FALSE)
  <2>1. Reads(k, line, s) = u
    BY <1>1, <1>2, <1>4 DEF Reads, Goes
  <2>3. ~Exits(u) /\ u.at = i + 2 /\ u.raw = Put(s.raw, t.id, w) /\ u.k = s.k
        /\ u.only = FALSE
    BY DEF Goes, Exits
  <2> HIDE DEF u
  <2>v. i + 1 \in V /\ ~Past(line, V, i + 1)
    BY <1>1, <1>2, <1>4 DEF Bare
  <2>4. i + 2 \notin V /\ ~Past(line, V, i + 2)
    <3>1. /\ (i + 2) - 1 = i + 1
          /\ \A j \in Int : j \in 1 .. (i + 2) - 1 => j \in 1 .. (i + 1) - 1 \/ j = i + 1
      BY <1>1
    <3>2. ~Takes(k, line, V, i + 2)
      BY <2>v, <3>1 DEF Takes
    <3>3. i + 2 \notin V
      BY <3>2 DEF Site, Decided
    <3> QED
      BY <2>v, <3>1, <3>3 DEF Past
  <2>5. u.k = Cardinality(Before(Places(line, V), i + 2))
    BY <2>3, <2>v, CountHere
  <2>6. i \notin Wrong(k, line, V) /\ i + 1 \notin Wrong(k, line, V)
    <3>1. i # Len(line)
      BY <1>1, <1>4
    <3>2. i \notin Wrong(k, line, V)
      BY <1>2, <1>4, <3>1, GivenHere DEF Bare
    <3> QED
      BY <2>v, <3>2 DEF Wrong
  <2>7. DOMAIN s.raw = Ids(k) /\ t.id \in Ids(k)
    BY <1>4 DEF Site, Reached, Ids, OptionIds
  <2>8. DOMAIN u.raw = Ids(k)
        /\ \A a \in ArgumentSet(k) : u.raw[a.id] = IF a.id = t.id THEN w ELSE s.raw[a.id]
    <3>1. DOMAIN u.raw = Ids(k)
          /\ \A x \in Ids(k) : u.raw[x] = IF x = t.id THEN w ELSE s.raw[x]
      BY <2>3, <2>7, Puts
    <3> QED
      BY <3>1 DEF Ids
  <2>9. \A a \in ArgumentSet(k) : i \notin Given(k, line, V, a)
                                  /\ (i + 1 \in Given(k, line, V, a) <=> a.id = t.id)
    <3>1. \A a : i \notin Given(k, line, V, a)
      BY <1>2, GivenHere
    <3>2. i + 1 \in DOMAIN line /\ i + 1 \notin Places(line, V) /\ (i + 1) - 1 = i
      BY <1>1, <1>4, <2>v DEF Places, Site, Line
    <3>3. \A a : i + 1 \in Given(k, line, V, a) <=> ~a.positional /\ t.id = a.id
      BY <2>v, <3>2 DEF Given
    <3> QED
      BY <1>4, <3>1, <3>3, Declared
  <2>10. Says(line, V, i + 1) = w
    BY <2>v DEF Says
  <2>12. Reached(k, line, V, u)
    <3>1. /\ (i + 2) - 1 = i + 1 /\ i + 2 =< Len(line) + 1
          /\ \A j \in Int : i =< j /\ j < i + 2 => j = i \/ j = i + 1
      BY <1>1, <1>4
    <3>2. \A a : Given(k, line, V, a) \subseteq Int /\ Wrong(k, line, V) \subseteq Int
      BY DEF Given, Wrong, Site, Line
    <3>3. \A j \in Wrong(k, line, V) : ~(i =< j /\ j < i + 2)
      BY <2>6, <3>1, <3>2
    <3>4. \A a \in ArgumentSet(k) :
           \/ (i + 2) - 1 \in Given(k, line, V, a) /\ u.raw[a.id] = Says(line, V, (i + 2) - 1)
           \/ /\ \A j \in Given(k, line, V, a) : ~(i =< j /\ j < i + 2)
              /\ u.raw[a.id] = s.raw[a.id]
      <4> TAKE a \in ArgumentSet(k)
      <4>1. CASE a.id = t.id
        BY <2>8, <2>9, <2>10, <3>1, <4>1
      <4>2. CASE a.id # t.id
        <5>1. \A j \in Given(k, line, V, a) : j \in Int /\ j # i /\ j # i + 1
          BY <2>9, <3>2, <4>2
        <5>2. \A j \in Given(k, line, V, a) : ~(i =< j /\ j < i + 2)
          BY <3>1, <5>1
        <5> QED
          BY <2>8, <4>2, <5>2
      <4> QED
        BY <4>1, <4>2
    <3> QED
      BY <2>3, <2>4, <2>5, <2>8, <3>1, <3>3, <3>4, Onward DEF Site
  <2> QED
    BY <2>1, <2>3, <2>12 DEF On
<1> QED
  BY <1>3, <1>4

LEMMA ReadsOn ==
  ASSUME NEW k \in Command, NEW line, NEW V, NEW s, Site(k, line, V, s)
  PROVE  On(k, line, V, s, Reads(k, line, s))
<1>1. /\ IsToken(line[s.at])
      /\ s.at \in Places(line, V) <=> line[s.at].kind = "word" \/ s.only
  BY Here
<1>2. \/ s.at \in Places(line, V)
      \/ s.at \notin Places(line, V) /\ line[s.at].kind \in {"separator", "help", "joined", "flag"}
  BY <1>1 DEF IsToken
<1> QED
  BY <1>2, ReadsPlaced, ReadsSeparator, ReadsJoined, ReadsFlag

Empty(k) == [id \in Ids(k) |-> Unset]

LEMMA ReachedFirst ==
  ASSUME NEW k \in Command, NEW line, Line(line), NEW V, Decided(k, line, Len(line), V)
  PROVE  Reached(k, line, V, Start(Empty(k)))
<1> DEFINE s == Start(Empty(k))
<1>1. ~Exits(s) /\ s.at = 1 /\ s.raw = Empty(k) /\ s.k = 0 /\ s.only = FALSE
  BY DEF Start, Exits
<1> HIDE DEF s
<1>2. Len(line) \in Nat /\ 1 .. 1 - 1 = {}
  BY DEF Line
<1>3. 1 \notin V
  BY DEF Decided, Takes
<1>4. ~Past(line, V, 1)
  BY <1>2 DEF Past
<1>5. ASSUME NEW S, S \subseteq 1 .. Len(line) PROVE Before(S, 1) = {}
  <2>1. \A i \in 1 .. Len(line) : ~(i < 1)
    BY <1>2
  <2> QED
    BY <1>5, <2>1 DEF Before
<1>6. Places(line, V) \subseteq 1 .. Len(line) /\ Wrong(k, line, V) \subseteq 1 .. Len(line)
      /\ \A a : Given(k, line, V, a) \subseteq 1 .. Len(line)
  BY DEF Places, Wrong, Given, Line
<1>7. Cardinality(Before(Places(line, V), 1)) = 0
  BY <1>5, <1>6, FS_EmptySet
<1>8. \A a \in ArgumentSet(k) : s.raw[a.id] = Best(k, line, V, a, 1)
  BY <1>1, <1>5, <1>6 DEF Best, Empty, Ids
<1>9. DOMAIN s.raw = Ids(k)
  BY <1>1 DEF Empty
<1>10. 1 \in 1 .. Len(line) + 1 /\ \A i \in Wrong(k, line, V) : i >= 1
  BY <1>2, <1>6
<1> QED
  BY <1>1, <1>3, <1>4, <1>7, <1>8, <1>9, <1>10 DEF Reached, s

\* The loop ends past the line, or at the first token that is wrong.
LEMMA ScanIs ==
  ASSUME NEW k \in Command, NEW line, Line(line), NEW V, Decided(k, line, Len(line), V)
  PROVE  LET end == Scan(k, line, Empty(k)) IN
         IF Exits(end) THEN Stopped(k, line, V, end)
         ELSE Reached(k, line, V, end) /\ end.at = Len(line) + 1
<1> DEFINE L == Len(line)
<1>0. L \in Nat
  BY DEF Line
<1>r. PICK g : Runs(k, line, Empty(k), g)
  BY <1>0, ScanRuns
<1>1. /\ Scan(k, line, Empty(k)) = g[L] /\ g[0] = Start(Empty(k))
      /\ \A n \in 1 .. L : g[n] = Iterates(k, line, g[n - 1])
  BY <1>r DEF Runs
<1> DEFINE ReadSo(n) ==
      IF Exits(g[n]) THEN Stopped(k, line, V, g[n])
      ELSE Reached(k, line, V, g[n]) /\ (g[n].at > n \/ g[n].at > L)
           T == {n \in 0 .. L : ~ReadSo(n)}
<1>2. ReadSo(0)
  <2>1. Reached(k, line, V, g[0]) /\ g[0].at = 1 /\ ~Exits(g[0])
    BY <1>1, ReachedFirst DEF Start, Exits
  <2> QED
    BY <2>1
<1>3. ASSUME NEW n \in 1 .. L, ReadSo(n - 1) PROVE ReadSo(n)
  <2> DEFINE s == g[n - 1]
  <2>1. g[n] = IF Exits(s) \/ s.at > L THEN s ELSE Reads(k, line, s)
    BY <1>1 DEF Iterates
  <2>2. CASE Exits(s)
    BY <1>3, <2>1, <2>2
  <2>3. CASE ~Exits(s) /\ s.at > L
    BY <1>3, <2>1, <2>3
  <2>4. CASE ~Exits(s) /\ ~(s.at > L)
    <3>1. Reached(k, line, V, s) /\ (s.at > n - 1 \/ s.at > L)
      BY <1>3, <2>4
    <3>2. s.at \in Int /\ n \in Int /\ s.at =< L /\ s.at > n - 1
      BY <1>0, <2>4, <3>1 DEF Reached
    <3>3. Site(k, line, V, s)
      BY <3>1, <3>2 DEF Site
    <3>4. On(k, line, V, s, Reads(k, line, s))
      BY <3>3, ReadsOn
    <3>5. g[n] = Reads(k, line, s)
      BY <2>1, <2>4
    <3> HIDE DEF s
    <3>6. s.at + 1 > n /\ s.at + 2 > n
      BY <3>2
    <3> QED
      BY <3>4, <3>5, <3>6 DEF On
  <2> QED
    BY <2>2, <2>3, <2>4
<1> HIDE DEF ReadSo
<1>4. \A n \in T : \E m \in T : m < n
  <2> TAKE n \in T
  <2>1. n # 0
    BY <1>2
  <2>2. n \in 1 .. L /\ n - 1 \in 0 .. L /\ n - 1 < n
    BY <1>0, <2>1
  <2>3. ~ReadSo(n - 1)
    BY <1>3, <2>2
  <2> QED
    BY <2>2, <2>3
<1>5. T = {}
  <2>1. T \subseteq Nat
    BY <1>0
  <2> HIDE DEF T
  <2> QED
    BY <1>4, <2>1, NoLeast
<1>6. ReadSo(L)
  BY <1>0, <1>5
<1>7. ~Exits(g[L]) => g[L].at \in 1 .. L + 1 /\ g[L].at > L
  BY <1>6 DEF ReadSo, Reached
<1>8. ~Exits(g[L]) => g[L].at = L + 1
  BY <1>0, <1>7
<1> QED
  BY <1>1, <1>6, <1>8 DEF ReadSo

LEMMA MaxIn ==
  ASSUME NEW L \in Nat, NEW S, S \subseteq 1 .. L, S # {}
  PROVE  Max(S) \in S
<1> DEFINE T == {L - i : i \in S}
<1>1. T \subseteq Nat /\ T # {}
  <2>1. \A i \in S : L - i \in Nat
    OBVIOUS
  <2> QED
    BY <2>1
<1>2. PICK x \in T : \A y \in T : x =< y
  BY <1>1, Least
<1>3. PICK m \in S : x = L - m
  OBVIOUS
<1>4. \A i \in S : L - i \in T /\ i \in Int
  OBVIOUS
<1>5. \A i \in S : i =< m
  BY <1>2, <1>3, <1>4
<1>6. Max(S) = m
  BY <1>4, <1>5, MaxIs
<1> QED
  BY <1>6

\* What the loop leaves for an argument is the last token or joined value that
\* the line gives it.
LEMMA RawIs ==
  ASSUME NEW k \in Command, NEW line, Line(line), NEW V, NEW s, Reached(k, line, V, s),
         s.at = Len(line) + 1, NEW a \in ArgumentSet(k), NEW env
  PROVE  Source(a, s.raw, env) = Decides(line, V, a, Given(k, line, V, a), env)
<1> DEFINE G == Given(k, line, V, a)
           L == Len(line)
<1>1. L \in Nat /\ G \subseteq 1 .. L
  BY DEF Line, Given
<1>2. \A i \in G : i < L + 1
  BY <1>1
<1>3. Before(G, L + 1) = G
  BY <1>2 DEF Before
<1>4. s.raw[a.id] = IF G # {} THEN Says(line, V, Max(G)) ELSE Unset
  BY <1>3 DEF Reached, Best
<1>5. ASSUME NEW i \in G PROVE Says(line, V, i) # Unset
  <2>1. IsToken(line[i])
    BY <1>1 DEF Line
  <2>2. i \in V \cup Places(line, V) \/ line[i].kind = "joined"
    BY DEF Given
  <2> QED
    BY <2>1, <2>2 DEF Says, IsToken
<1>6. G # {} => Says(line, V, Max(G)) # Unset
  BY <1>1, <1>5, MaxIn
<1> HIDE DEF G
<1> QED
  BY <1>4, <1>6 DEF Source, Decides, G

-----------------------------------------------------------------------------
Fine(a, v) == IF v = Unset THEN a.optional ELSE Parses(a.parser, v)
Held(a, v) == IF v = Unset THEN Unset ELSE Value(a.parser, v)

\* The values are those of the texts, if all of them are fine.
LEMMA MatchesIs ==
  ASSUME NEW k \in Command, NEW raw, NEW env, NEW text,
         \A a \in ArgumentSet(k) : Source(a, raw, env) = text[a]
  PROVE  LET values == Matches(k, raw, env) IN
         IF \A a \in ArgumentSet(k) : Fine(a, text[a])
         THEN /\ DOMAIN values = Ids(k)
              /\ \A a \in ArgumentSet(k) : values[a.id] = Held(a, text[a])
         ELSE values = Exit(2)
<1> DEFINE named(id) == CHOOSE a \in ArgumentSet(k) : a.id = id
           source == [a \in ArgumentSet(k) |-> Source(a, raw, env)]
           values == [id \in Ids(k) |->
                        IF source[named(id)] = Unset THEN Unset
                        ELSE Value(named(id).parser, source[named(id)])]
<1>1. Matches(k, raw, env) =
        IF \A a \in ArgumentSet(k) : IF source[a] = Unset THEN a.optional
                                     ELSE Parses(a.parser, source[a])
        THEN values ELSE Exit(2)
  BY DEF Matches, Ids
<1>2. \A a \in ArgumentSet(k) : source[a] = text[a]
  OBVIOUS
<1>3. ASSUME NEW a \in ArgumentSet(k) PROVE named(a.id) = a
  BY Declared
<1>4. DOMAIN values = Ids(k)
  OBVIOUS
<1>5. ASSUME NEW a \in ArgumentSet(k) PROVE values[a.id] = Held(a, text[a])
  <2>1. a.id \in Ids(k)
    BY DEF Ids
  <2> HIDE DEF named, source
  <2> QED
    BY <1>2, <1>3, <2>1 DEF Held
<1>6. (\A a \in ArgumentSet(k) : IF source[a] = Unset THEN a.optional
                                 ELSE Parses(a.parser, source[a]))
        <=> \A a \in ArgumentSet(k) : Fine(a, text[a])
  <2> HIDE DEF source
  <2> QED
    BY <1>2 DEF Fine
<1> HIDE DEF values, source
<1> QED
  BY <1>1, <1>4, <1>5, <1>6

\* main on a line where nothing is wrong and every text is fine.
LEMMA RunLocal ==
  ASSUME NEW line, NEW env, NEW values, Parse("local", line, env) = values,
         DOMAIN values = Ids("local")
  PROVE  Main("local", line, env) = [client |-> values]
  BY Declared DEF Main, Run, Exits, Command

LEMMA RunServer ==
  ASSUME NEW line, NEW env, NEW values, Parse("server", line, env) = values,
         DOMAIN values = Ids("server"),
         NEW low, low = values["min_port"], NEW high, high = values["max_port"]
  PROVE  LET outcome == Main("server", line, env) IN
         IF low > high THEN outcome = Exit(2)
         ELSE /\ outcome # Exit(2)
              /\ outcome.range[1] = low /\ outcome.range[2] = high
              /\ outcome.secret = values["secret"] /\ outcome.bindAddr = values["bind_addr"]
              /\ outcome.bindTunnels = IF values["bind_tunnels"] = Unset
                                       THEN values["bind_addr"] ELSE values["bind_tunnels"]
<1> DEFINE range == <<low, high>>
<1>1. Main("server", line, env) =
        IF IsEmpty(range) THEN Exit(2) ELSE NewServer(range, values)
  BY Declared DEF Main, Run, Exits, Command
<1>2. IsEmpty(range) <=> low > high
  BY DEF IsEmpty
<1>3. LET outcome == NewServer(range, values) IN
      /\ DOMAIN outcome # DOMAIN Exit(2)
      /\ outcome.range = range
      /\ outcome.secret = values["secret"] /\ outcome.bindAddr = values["bind_addr"]
      /\ outcome.bindTunnels = IF values["bind_tunnels"] = Unset
                               THEN values["bind_addr"] ELSE values["bind_tunnels"]
  BY DEF NewServer, Exit
<1>4. range[1] = low /\ range[2] = high
  OBVIOUS
<1> HIDE DEF range
<1> QED
  BY <1>1, <1>2, <1>3, <1>4

\* A port is a number.
LEMMA PortIs ==
  ASSUME NEW a, NEW v, a.parser = "u16", ~a.optional, Fine(a, v)
  PROVE  Held(a, v) \in Ports /\ Held(a, v) \in Int
<1>1. v # Unset /\ v.text \in DOMAIN Numeral
  BY DEF Fine, Parses
<1>2. Held(a, v) = Numeral[v.text]
  BY <1>1 DEF Held, Value
<1>3. Numeral[v.text] \in Nat
  BY <1>1, NumeralAssumption
<1>4. Numeral[v.text] \in Ports
  BY <1>1 DEF Ports
<1> QED
  BY <1>2, <1>3, <1>4

\* Any line of any tokens, with any environment.
LEMMA AnyLine ==
  ASSUME NEW k \in Command, NEW line, Line(line), NEW env
  PROVE  Understood(k, line, env)
<1> DEFINE V == Taken(k, line)
           wrong == Wrong(k, line, V)
           arguments == ArgumentSet(k)
           text == [a \in arguments |-> Decides(line, V, a, Given(k, line, V, a), env)]
           is(id, v) == \E a \in arguments :
             a.id = id /\ v = IF text[a] = Unset THEN Unset ELSE Value(a.parser, text[a])
           outcome == Main(k, line, env)
           end == Scan(k, line, Empty(k))
           values == Matches(k, end.raw, env)
<1>1. Decided(k, line, Len(line), V)
  BY TakenDecided DEF Line
<1>2. IF Exits(end) THEN Stopped(k, line, V, end)
      ELSE Reached(k, line, V, end) /\ end.at = Len(line) + 1
  BY <1>1, ScanIs
<1>3. Parse(k, line, env) = IF Exits(end) THEN end ELSE values
  BY DEF Parse, Empty, Ids
<1>4. wrong \subseteq 1 .. Len(line) /\ Len(line) \in Nat
  BY DEF Wrong, Line
<1>5. \A a \in arguments : text[a] = Decides(line, V, a, Given(k, line, V, a), env)
  OBVIOUS
<1>e. Exits(Exit(0)) /\ Exits(Exit(2))
  BY DEF Exits, Exit
<1>6. CASE Exits(end)
  <2>1. PICK w \in wrong :
          /\ \A j \in wrong : w =< j
          /\ end = Exit(IF line[w] = HelpFlag /\ w \notin Places(line, V) THEN 0 ELSE 2)
    BY <1>2, <1>6 DEF Stopped
  <2>2. Min(wrong) = w
    <3>1. wrong \subseteq Int
      BY <1>4
    <3> HIDE DEF wrong
    <3> QED
      BY <2>1, <3>1, MinIs
  <2>3. outcome = end
    BY <1>3, <1>6 DEF Main
  <2> QED
    BY <2>1, <2>2, <2>3 DEF Understood
<1>7. CASE ~Exits(end)
  <2>1. Reached(k, line, V, end) /\ end.at = Len(line) + 1
    BY <1>2, <1>7
  <2>2. wrong = {}
    <3>1. \A i \in wrong : i >= Len(line) + 1
      BY <2>1 DEF Reached
    <3>2. \A i \in wrong : i \in Int /\ i =< Len(line)
      BY <1>4
    <3> QED
      BY <1>4, <3>1, <3>2
  <2>3. \A a \in arguments : Source(a, end.raw, env) = text[a]
    BY <2>1, RawIs
  <2>4. Parse(k, line, env) = values
    BY <1>3, <1>7
  <2> HIDE DEF text, values, V
  <2>5. IF \A a \in arguments : Fine(a, text[a])
        THEN /\ DOMAIN values = Ids(k)
             /\ \A a \in arguments : values[a.id] = Held(a, text[a])
        ELSE values = Exit(2)
    BY <2>3, MatchesIs DEF values
  <2> DEFINE bad == \E a \in arguments :
               IF text[a] = Unset THEN ~a.optional ELSE ~Parses(a.parser, text[a])
  <2>6. bad <=> ~ \A a \in arguments : Fine(a, text[a])
    BY DEF Fine
  <2>7. CASE bad
    <3>1. outcome = Exit(2)
      BY <1>e, <2>4, <2>5, <2>6, <2>7 DEF Main
    <3> QED
      BY <2>2, <2>7, <3>1 DEF Understood, V, text
  <2>8. CASE ~bad
    <3>1. /\ DOMAIN values = Ids(k) /\ \A a \in arguments : Fine(a, text[a])
          /\ \A a \in arguments : values[a.id] = Held(a, text[a])
      BY <2>5, <2>6, <2>8
    <3>2. \A a \in arguments : is(a.id, values[a.id])
      BY <3>1 DEF Held
    <3>3. CASE k = "local"
      <4>1. outcome = [client |-> values]
        BY <2>4, <3>1, <3>3, RunLocal
      <4>2. outcome.client = values
        BY <4>1
      <4> HIDE DEF bad, is, outcome
      <4>3. \A a \in arguments : is(a.id, outcome.client[a.id])
        BY <3>2, <4>2
      <4> QED
        BY <2>2, <2>8, <3>3, <4>3 DEF Understood, V, text, bad, is, outcome
    <3>4. CASE k = "server"
      <4> DEFINE a(i) == Arguments(k)[i]
                 low == values["min_port"]
                 high == values["max_port"]
      <4>1. /\ a(1) \in arguments /\ a(2) \in arguments /\ a(3) \in arguments
            /\ a(4) \in arguments /\ a(5) \in arguments
        BY <3>4, Remote DEF ArgumentSet
      <4>2. /\ a(1).id = "min_port" /\ a(2).id = "max_port" /\ a(3).id = "secret"
            /\ a(4).id = "bind_addr" /\ a(5).id = "bind_tunnels"
            /\ a(1).parser = "u16" /\ ~a(1).optional /\ a(2).parser = "u16" /\ ~a(2).optional
        BY <3>4, Remote DEF IsArgument
      <4> HIDE DEF a, is, bad, outcome
      <4>3. /\ is("min_port", low) /\ is("max_port", high) /\ is("secret", values["secret"])
            /\ is("bind_addr", values["bind_addr"]) /\ is("bind_tunnels", values["bind_tunnels"])
        BY <3>2, <4>1, <4>2
      <4>4. low \in Ports /\ low \in Int /\ high \in Ports /\ high \in Int
        BY <3>1, <4>1, <4>2, PortIs
      <4> HIDE DEF low, high
      <4>5. IF low > high THEN outcome = Exit(2)
            ELSE /\ outcome # Exit(2)
                 /\ outcome.range[1] = low /\ outcome.range[2] = high
                 /\ outcome.secret = values["secret"] /\ outcome.bindAddr = values["bind_addr"]
                 /\ outcome.bindTunnels = IF values["bind_tunnels"] = Unset
                                          THEN values["bind_addr"] ELSE values["bind_tunnels"]
        BY <2>4, <3>1, <3>4, RunServer DEF outcome, low, high
      <4>6. IF outcome = Exit(2)
            THEN \E m, n \in Ports : m > n /\ is("min_port", m) /\ is("max_port", n)
            ELSE /\ outcome.range[1] =< outcome.range[2]
                 /\ is("min_port", outcome.range[1]) /\ is("max_port", outcome.range[2])
                 /\ is("secret", outcome.secret) /\ is("bind_addr", outcome.bindAddr)
                 /\ \/ is("bind_tunnels", outcome.bindTunnels)
                    \/ is("bind_tunnels", Unset) /\ outcome.bindTunnels = outcome.bindAddr
        <5>1. CASE low > high
          BY <4>3, <4>4, <4>5, <5>1
        <5>2. CASE ~(low > high)
          <6>1. low =< high
            BY <4>4, <5>2
          <6> QED
            BY <4>3, <4>5, <5>2, <6>1
        <5> QED
          BY <5>1, <5>2
      <4> QED
        BY <2>2, <2>8, <3>4, <4>6 DEF Understood, V, text, bad, is, outcome
    <3> QED
      BY <3>3, <3>4 DEF Command
  <2> QED
    BY <2>7, <2>8
<1> QED
  BY <1>6, <1>7

-----------------------------------------------------------------------------
(* Every call. *)

\* What the model enumerates is among the values above, whatever its bounds.
Side == {"server", "client"}
Called ==
  \/ call.of = "none"
  \/ call \in [of : {"deserialize"}, to : Side, wire : AnyScalar \cup AnyMap \cup Maps]
  \/ \E to \in Side :
       call \in [of : {"serialize"}, to : {to}, message : MessagesTo(to)]
  \/ call \in [of : {"u16"}, low : Port, high : Port, words : Seq(Word) \ {<<>>}]
  \/ call \in [of : {"validate"}, secret : Secret, challenge : Challenge, tag : Seq(Chars)]
  \/ call.of = "main" /\ call.command \in Command /\ Line(call.line)

LEMMA Shaped ==
  /\ Separator.kind = "separator" /\ HelpFlag.kind = "help" /\ Separator # HelpFlag
  /\ \A text : Plain(text).kind = "word"
  /\ \A id : Flag(id).kind = "flag"
  /\ \A id, text : Joined(id, text).kind = "joined"
  BY DEF Separator, HelpFlag, Plain, Flag, Joined

LEMMA CalledInit == Init => Called
  BY DEF Init, Called

LEMMA CalledStep == Called /\ [Next]_call => Called'
<1> SUFFICES ASSUME Called, [Next]_call PROVE Called'
  OBVIOUS
<1>1. ASSUME NEW to \in {"server", "client"}, NEW v \in Scalars \cup Maps, Arrives(to, v)
      PROVE  Called'
  <2>1. v \in AnyScalar \cup AnyMap \cup Maps
    BY MaxAssumption DEF Scalars, AnyScalar, Keys
  <2> QED
    BY <1>1, <2>1 DEF Arrives, Called, Side
<1>2. ASSUME NEW to \in {"server", "client"}, NEW m \in MessagesTo(to), Sent(to, m)
      PROVE  Called'
  BY <1>2 DEF Sent, Called, Side
<1>3. ASSUME NEW a \in Port, NEW b \in Port, NEW r \in Word, Draws(a, b, r) PROVE Called'
  <2>1. <<r>> \in Seq(Word) /\ <<r>> # <<>>
    OBVIOUS
  <2> QED
    BY <1>3, <2>1 DEF Draws, Called
<1>4. ASSUME NEW s \in Secret, NEW c \in Challenge, NEW t \in BoundedSeq(Chars, MaxTag),
             Answered(s, c, t)
      PROVE  Called'
  <2>1. PICK m \in 0 .. MaxTag : t \in [1 .. m -> Chars]
    BY DEF BoundedSeq, SeqOf
  <2>2. m \in Nat
    BY <2>1, BoundAssumption
  <2>3. t \in Seq(Chars)
    BY <2>1, <2>2
  <2> QED
    BY <1>4, <2>3 DEF Answered, Called
<1>5. ASSUME NEW k \in {"local", "server"}, NEW env,
             NEW line \in BoundedSeq(Tokens(k), MaxTokens), Typed(k, line, env)
      PROVE  Called'
  <2>1. PICK m \in 0 .. MaxTokens : line \in [1 .. m -> Tokens(k)]
    BY DEF BoundedSeq, SeqOf
  <2>2. m \in Nat
    BY <2>1, BoundAssumption
  <2>3. Len(line) = m /\ DOMAIN line = 1 .. m /\ \A i \in 1 .. m : line[i] \in Tokens(k)
    BY <2>1, <2>2
  <2>4. ASSUME NEW t \in Tokens(k) PROVE IsToken(t)
    <3>1. \/ t \in {Separator, HelpFlag} \/ \E id : t = Flag(id)
          \/ \E text : t = Plain(text) \/ \E id : t = Joined(id, text)
      BY DEF Tokens
    <3>2. /\ t.kind \in {"word", "separator", "help", "flag", "joined"}
          /\ t.kind = "separator" <=> t = Separator
          /\ t.kind = "help" <=> t = HelpFlag
      BY <3>1, Shaped
    <3>3. t # Unset /\ (t.kind = "joined" => t.value # Unset)
      BY UnsetAssumption
    <3> QED
      BY <3>2, <3>3 DEF IsToken
  <2>5. Line(line)
    BY <2>2, <2>3, <2>4 DEF Line
  <2> QED
    BY <1>5, <2>5 DEF Typed, Called, Command
<1>6. ASSUME NEW r \in Word, DrawsAgain(r) PROVE Called'
  <2> DEFINE words == Append(call.words, r)
  <2>1. call \in [of : {"u16"}, low : Port, high : Port, words : Seq(Word) \ {<<>>}]
    BY <1>6 DEF DrawsAgain, Called
  <2>2. words \in Seq(Word) /\ words # <<>>
    BY <2>1
  <2> HIDE DEF words
  <2>3. call' = [call EXCEPT !.words = words]
    BY <1>6 DEF DrawsAgain, words
  <2> QED
    BY <2>1, <2>2, <2>3 DEF Called
<1>7. CASE UNCHANGED call
  BY <1>7 DEF Called
<1> QED
  BY <1>1, <1>2, <1>3, <1>4, <1>5, <1>6, <1>7 DEF Next, Calls

LEMMA CallsAreRight ==
  Called => Strict /\ RoundTrip /\ Uniform /\ TagExact /\ LineIsRead
<1> SUFFICES ASSUME Called
             PROVE  Strict /\ RoundTrip /\ Uniform /\ TagExact /\ LineIsRead
  OBVIOUS
<1>1. Strict
  BY AnyRead, MapRead DEF Called, Strict, Side
<1>2. RoundTrip
  BY ComesBack DEF Called, RoundTrip, Side
<1>3. Uniform
  <2> SUFFICES ASSUME call.of = "u16", call.low =< call.high
               PROVE  /\ U16(call.low, call.high, call.words) \subseteq call.low .. call.high
                      /\ Even(Span(call.low, call.high))
    BY DEF Uniform
  <2>1. /\ call.low \in Port /\ call.high \in Port
        /\ call.words \in Seq(Word) /\ call.words # <<>>
    BY DEF Called
  <2>2. Span(call.low, call.high) \in 1 .. PortCount
    BY <2>1, CountAssumption DEF Port, Span
  <2> QED
    BY <2>1, <2>2, InRange, EvenDraw
<1>4. TagExact
  BY Exactly DEF Called, TagExact
<1>5. LineIsRead
  <2> SUFFICES ASSUME call.of = "main"
               PROVE  Understood(call.command, call.line, call.env)
    BY DEF LineIsRead
  <2>1. call.command \in Command /\ Line(call.line)
    BY DEF Called
  <2> QED
    BY <2>1, AnyLine
<1> QED
  BY <1>1, <1>2, <1>3, <1>4, <1>5

\* deserialize takes a value for a message only if the other side would have
\* written it, and null only for the end, whatever the JSON value is.
THEOREM StrictCorrect == Spec => []Strict
  BY CalledInit, CalledStep, CallsAreRight, PTL DEF Spec

\* What serialize writes, deserialize of the receiver reads back, for any text
\* and number that a message may hold.
THEOREM RoundTripCorrect == Spec => []RoundTrip
  BY CalledInit, CalledStep, CallsAreRight, PTL DEF Spec

\* u16 returns a port of the range and every port for equally many words, for
\* any port count and width of the words, and more words end the loop than
\* prolong it.
THEOREM UniformCorrect == Spec => []Uniform
  BY CalledInit, CalledStep, CallsAreRight, PTL DEF Spec

\* validate accepts the text of the answer in either case and nothing else, for
\* any secrets and MACs and tags of any length.
THEOREM TagExactCorrect == Spec => []TagExact
  BY CalledInit, CalledStep, CallsAreRight, PTL DEF Spec

\* main understands a line as it is meant, whatever its tokens and however many
\* there are, in any environment and for any words that are numbers.
THEOREM LineIsReadCorrect == Spec => []LineIsRead
  BY CalledInit, CalledStep, CallsAreRight, PTL DEF Spec
=============================================================================
