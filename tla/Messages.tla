------------------------------ MODULE Messages ------------------------------
(***************************************************************************)
(* The messages on the wire (src/src/shared.ts): serialize, splitVariant   *)
(* and deserialize between JSON values and ClientMessage or ServerMessage. *)
(* A UUID comes in two spellings, of which "lower" is the canonical one.    *)
(***************************************************************************)
EXTENDS Integers, FiniteSets

CONSTANTS
  U16Max,  \* 65535 in the code
  Text     \* strings that are neither a name of a variant nor a UUID

ASSUME MaxAssumption == U16Max \in Nat
ASSUME TextAssumption == \A s \in Text : s \notin {"lower", "UPPER"}

Spelled == {"lower", "UPPER"}

Variants(to) ==
  IF to = "server" THEN {"Authenticate", "Hello", "Accept"}
  ELSE {"Challenge", "Hello", "Heartbeat", "Connection", "Error"}

\* What the newtype variants hold.
Holds(variant) ==
  CASE variant = "Hello" -> "u16"
    [] variant \in {"Accept", "Challenge", "Connection"} -> "uuid"
    [] variant \in {"Authenticate", "Error"} -> "string"
    [] OTHER -> "unit"

-----------------------------------------------------------------------------
(* JSON values: arrays, booleans and fractions are told apart from the rest, *)
(* not from each other.                                                      *)

String(s) == [string |-> s]
Number(n) == [number |-> n]
Map(f) == [map |-> f]
Null == [null |-> TRUE]
Other == [other |-> TRUE]
Is(v, type) == type \in DOMAIN v
Single(k, v) == Map([x \in {k} |-> v])

Names == Variants("server") \cup Variants("client")
Scalars ==
  {String(s) : s \in Names \cup Text \cup Spelled}
  \cup {Number(n) : n \in -1 .. U16Max + 1} \cup {Null, Other}
Maps ==
  {Single(k, v) : k \in Names \cup Text, v \in Scalars}
  \cup {Map([k \in keys |-> String("lower")]) :
           keys \in {K \in SUBSET (Names \cup Text) : Cardinality(K) \in {0, 2}}}

-----------------------------------------------------------------------------
(* Deserialization: a message, End for null, or Rejected for an exception.   *)

Message(variant, held) == [kind |-> variant, value |-> held]
End == Message("end", Null)
Rejected == Message("rejected", Null)

ExpectU16(v) == Is(v, "number") /\ v.number >= 0 /\ v.number =< U16Max

ExpectUuid(v) == Is(v, "string") /\ v.string \in Spelled

Payload(variant, v) ==
  LET holds == Holds(variant) IN
  CASE holds = "u16" /\ ExpectU16(v) -> Message(variant, v)
    [] holds = "uuid" /\ ExpectUuid(v) -> Message(variant, String("lower"))
    [] holds = "string" /\ Is(v, "string") -> Message(variant, v)
    [] OTHER -> Rejected

\* Mutant: a map with more keys will do.
SplitVariantLax(v, to) == DOMAIN v.map \cap Variants(to)

\* The variant of a map with one key, if it is one of those expected.
SplitVariant(v, to) ==
  IF Cardinality(DOMAIN v.map) = 1 THEN DOMAIN v.map \cap Variants(to) ELSE {}

\* Mutant: the bare string of the unit variant is rejected too.
UnitNone(s, to) == Rejected

\* A bare string: the unit variant or nothing.
Unit(s, to) ==
  IF to = "client" /\ s = "Heartbeat" THEN Message(s, Null) ELSE Rejected

Deserialize(v, to) ==
  CASE v = Null -> End
    [] Is(v, "string") -> Unit(v.string, to)
    [] Is(v, "map") /\ SplitVariant(v, to) # {} ->
         LET k == CHOOSE k \in SplitVariant(v, to) : TRUE IN Payload(k, v.map[k])
    [] OTHER -> Rejected

Serialize(m) ==
  IF Holds(m.kind) = "unit" THEN String(m.kind) ELSE Single(m.kind, m.value)

(* The messages that a side may receive. *)

Payloads(holds) ==
  CASE holds = "u16" -> {Number(n) : n \in 0 .. U16Max}
    [] holds = "uuid" -> {String("lower")}
    [] holds = "string" -> {String(s) : s \in Names \cup Text \cup Spelled}
    [] holds = "unit" -> {Null}
MessagesTo(side) ==
  UNION {{Message(k, h) : h \in Payloads(Holds(k))} : k \in Variants(side)}
=============================================================================
