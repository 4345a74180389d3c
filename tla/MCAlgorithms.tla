---------------------------- MODULE MCAlgorithms ----------------------------
(***************************************************************************)
(* The pure algorithms over bounded inputs.  A behaviour is one call: of   *)
(* serialize on a message, of deserialize on a JSON value, of u16 on a     *)
(* range and the words drawn, of validate on a tag, or of main on a        *)
(* command line and an environment.                                        *)
(***************************************************************************)
EXTENDS Messages, Fastrand, Authenticator, CommandLine, SequencesExt

CONSTANTS
  MaxDraws,  \* bound: the first draw and those after it
  MaxTag,    \* bound: a MAC, and a pair past its end
  MaxTokens  \* bound: a flag and the value it takes, "--", and one token more

ASSUME BoundAssumption == MaxDraws \in Nat /\ MaxTag \in Nat /\ MaxTokens \in Nat

VARIABLE call

Macs == [p \in {"one", "two"} \X {"first", "second"} |->
  CASE p = <<"one", "first">> -> <<0, 10, 0, 10>>
    [] p = <<"one", "second">> -> <<0, 10, 0, 0>>
    [] p = <<"two", "first">> -> <<10, 10, 10, 10>>
    [] p = <<"two", "second">> -> <<0, 0, 0, 0>>]

\* Words that are and are not a number, and every kind of token, with a flag of
\* the other command among them.
Numerals == [w \in {"0", "80", "1024", "65535"} |->
  CASE w = "0" -> 0 [] w = "80" -> 80 [] w = "1024" -> 1024 [] w = "65535" -> 65535]
Ports == {Numeral[w] : w \in DOMAIN Numeral}
Tokens(command) ==
  {Separator, HelpFlag, Flag("to"), Flag("max_port"), Plain("80"), Plain("")} \cup
  IF command = "local" THEN {Flag("port"), Joined("to", "x"), Joined("port", "0")}
  ELSE {Joined("min_port", "0"), Joined("secret", ""), Joined("bind_addr", "::"),
        Joined("bind_tunnels", "0.0.0.0")}
ASSUME UnsetAssumption ==
  \A k \in {"local", "server"} : \A t \in Tokens(k) :
    t # Unset /\ (t.kind = "joined" => t.value # Unset)
Envs ==
  {[v \in {"local_port", "to", "secret", "min_port", "max_port"} |-> value] :
     value \in {Unset, Plain(""), Plain("80")}}

Init == call = [of |-> "none"]

Arrives(to, v) == call' = [of |-> "deserialize", to |-> to, wire |-> v]

Sent(to, m) == call' = [of |-> "serialize", to |-> to, message |-> m]

Draws(low, high, r) == call' = [of |-> "u16", low |-> low, high |-> high, words |-> <<r>>]

DrawsAgain(r) ==
  /\ call.of = "u16" /\ Len(call.words) < MaxDraws
  /\ call.low =< call.high /\ U16(call.low, call.high, call.words) = {}
  /\ call' = [call EXCEPT !.words = Append(@, r)]

Answered(secret, challenge, tag) ==
  call' = [of |-> "validate", secret |-> secret, challenge |-> challenge, tag |-> tag]

Typed(command, line, env) ==
  call' = [of |-> "main", command |-> command, line |-> line, env |-> env]

Calls ==
  \/ \E to \in {"server", "client"}, v \in Scalars \cup Maps : Arrives(to, v)
  \/ \E to \in {"server", "client"} : \E m \in MessagesTo(to) : Sent(to, m)
  \/ \E a, b \in Port, r \in Word : Draws(a, b, r)
  \/ \E s \in Secret, c \in Challenge, t \in BoundedSeq(Chars, MaxTag) : Answered(s, c, t)
  \/ \E k \in {"local", "server"}, env \in Envs :
       \E line \in BoundedSeq(Tokens(k), MaxTokens) : Typed(k, line, env)

Next ==
  \/ call.of = "none" /\ Calls
  \/ \E r \in Word : DrawsAgain(r)

Spec == Init /\ [][Next]_call

-----------------------------------------------------------------------------
(* Properties *)

\* Nothing else is taken for a message: what is accepted is a message to this
\* side with a payload of its type (no port past 65535, no id that is not a
\* UUID), the one the sender would have written so, up to the spelling of the
\* UUID, and only null is taken for the end of the stream.
Canonical(v) ==
  IF Is(v, "map") /\ \E k \in DOMAIN v.map :
                       Holds(k) = "uuid" /\ v.map[k] = String("UPPER")
  THEN Map([k \in DOMAIN v.map |-> String("lower")]) ELSE v
ReadStrictly(v, to) ==
  LET got == Deserialize(v, to) IN
  /\ got \notin {End, Rejected} =>
       got \in MessagesTo(to) /\ Serialize(got) = Canonical(v)
  /\ got = End => v = Null
Strict == call.of = "deserialize" => ReadStrictly(call.wire, call.to)

\* Whatever one side sends, the other receives.
RoundTrip ==
  call.of = "serialize" =>
    Deserialize(Serialize(call.message), call.to) = call.message

\* "The rejection loop that removes modulo bias": every port of the range is
\* the result of equally many words, in the first draw and in each later one,
\* no other port is, and more words end the loop than prolong it.
\* The whole range is drawn without a loop, as the low bits of one word.
Even(n) ==
  /\ \A accepted \in {First(n), Later(n)} : \A i, j \in 0 .. n - 1 :
       Cardinality({r \in accepted : Hi(r, n) = i})
         = Cardinality({r \in accepted : Hi(r, n) = j})
  /\ 2 * Cardinality(Later(n)) > WordCount
Uniform ==
  (call.of = "u16" /\ call.low =< call.high) =>
    /\ U16(call.low, call.high, call.words) \subseteq call.low .. call.high
    /\ Even(Span(call.low, call.high))

\* validate accepts the text of the answer to this challenge under this secret,
\* in either case, and no other text: not the answer to another, and not one
\* that Buffer.from would cut down to it.
Lower(t) == [i \in DOMAIN t |-> IF t[i] = "A" THEN "a" ELSE t[i]]
Exact(secret, challenge, tag) ==
  Validate(secret, challenge, tag) <=> Lower(tag) = Answer(secret, challenge)
TagExact == call.of = "validate" => Exact(call.secret, call.challenge, call.tag)

\* main runs the command with, for every argument, the last value the line gives
\* it, else the environment's unless that is empty, else its default; and it
\* exits, with 0 where help is asked for before anything is wrong with the line,
\* else with 2, if a token has no place, a value is none of its type or missing,
\* or the range is empty.  A flag takes the next token as it is, "--" and help
\* included, and past "--" every token is positional.
Bare(k, t) == t.kind = "flag" /\ t.id \in OptionIds(k)
Takes(k, line, V, i) ==
  /\ i > 1 /\ i - 1 \notin V /\ Bare(k, line[i - 1])
  /\ \A j \in 1 .. i - 1 : line[j] = Separator => j \in V
Taken(k, line) ==
  CHOOSE V \in SUBSET DOMAIN line : \A i \in DOMAIN line : i \in V <=> Takes(k, line, V, i)
Past(line, V, i) == \E j \in 1 .. i - 1 : line[j] = Separator /\ j \notin V
Places(line, V) ==
  {i \in DOMAIN line \ V : line[i].kind = "word" \/ Past(line, V, i)}
Place(k, line, V, i) == Target(k, Cardinality({h \in Places(line, V) : h < i}))
Given(k, line, V, a) ==
  {i \in DOMAIN line :
     IF i \in Places(line, V) THEN a \in Place(k, line, V, i)
     ELSE /\ ~a.positional
          /\ IF i \in V THEN line[i - 1].id = a.id
             ELSE line[i].kind = "joined" /\ line[i].id = a.id}
Wrong(k, line, V) ==
  {i \in DOMAIN line \ V :
     IF i \in Places(line, V) THEN Place(k, line, V, i) = {}
     ELSE \/ line[i] = HelpFlag
          \/ line[i].kind \in {"flag", "joined"} /\ line[i].id \notin OptionIds(k)
          \/ Bare(k, line[i]) /\ i = Len(line)}
Says(line, V, i) ==
  IF i \in V \cup Places(line, V) THEN line[i] ELSE line[i].value
Decides(line, V, a, given, env) ==
  IF given # {} THEN Says(line, V, Max(given))
  ELSE IF a.env /\ env[a.id] \notin {Unset, Plain("")} THEN env[a.id] ELSE a.default
Understood(k, line, env) ==
  LET V == Taken(k, line)
      wrong == Wrong(k, line, V)
      arguments == ArgumentSet(k)
      text == [a \in arguments |-> Decides(line, V, a, Given(k, line, V, a), env)]
      is(id, v) == \E a \in arguments :
        a.id = id /\ v = IF text[a] = Unset THEN Unset ELSE Value(a.parser, text[a])
      outcome == Main(k, line, env)
  IN IF wrong # {} THEN
       LET help == line[Min(wrong)] = HelpFlag /\ Min(wrong) \notin Places(line, V)
       IN outcome = Exit(IF help THEN 0 ELSE 2)
     ELSE IF \E a \in arguments :
               IF text[a] = Unset THEN ~a.optional ELSE ~Parses(a.parser, text[a])
       THEN outcome = Exit(2)
     ELSE IF k = "local"
       THEN \A a \in arguments : is(a.id, outcome.client[a.id])
     ELSE IF outcome = Exit(2)
       THEN \E m, n \in Ports : m > n /\ is("min_port", m) /\ is("max_port", n)
     ELSE /\ outcome.range[1] =< outcome.range[2]
          /\ is("min_port", outcome.range[1]) /\ is("max_port", outcome.range[2])
          /\ is("secret", outcome.secret) /\ is("bind_addr", outcome.bindAddr)
          /\ \/ is("bind_tunnels", outcome.bindTunnels)
             \/ is("bind_tunnels", Unset) /\ outcome.bindTunnels = outcome.bindAddr
LineIsRead == call.of = "main" => Understood(call.command, call.line, call.env)
=============================================================================
