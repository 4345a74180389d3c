---------------------------- MODULE CommandLine ----------------------------
(***************************************************************************)
(* The command line: the arguments that main.ts declares, parse of         *)
(* src/src/deps/clap.ts, and what run makes of the values.  A token is a   *)
(* word, the separator "--", a help flag, or a flag of an argument, by     *)
(* itself or with its value joined (--to=x, -tx); long and short flags are *)
(* not told apart.  The texts of help and errors are left out: an outcome  *)
(* is an exit code, or the client or server that is started.               *)
(***************************************************************************)
EXTENDS Integers, Sequences, FiniteSets

CONSTANTS
  Numeral,  \* a function from the words that are a u16 to their values
  Address,  \* the words that are an IP address
  Unset     \* no value

ASSUME NumeralAssumption ==
  /\ {"0", "1024", "65535"} \subseteq DOMAIN Numeral
  /\ \A w \in DOMAIN Numeral : Numeral[w] \in Nat /\ Numeral[w] =< 65535
ASSUME AddressAssumption == "0.0.0.0" \in Address

\* Words and tokens.
Plain(text) == [kind |-> "word", text |-> text]
Separator == [kind |-> "separator"]
HelpFlag == [kind |-> "help"]
Flag(id) == [kind |-> "flag", id |-> id]
Joined(id, text) == [kind |-> "joined", id |-> id, value |-> Plain(text)]

-----------------------------------------------------------------------------
(* The arguments of the commands. *)

Positional(id, parser) ==
  [id |-> id, parser |-> parser, env |-> TRUE, default |-> Unset,
   positional |-> TRUE, optional |-> FALSE]
Option(id, parser, env, default, optional) ==
  [id |-> id, parser |-> parser, env |-> env, default |-> default,
   positional |-> FALSE, optional |-> optional]

SecretOption == Option("secret", "string", TRUE, Unset, TRUE)

Arguments(command) ==
  IF command = "local" THEN
    <<Positional("local_port", "u16"),
      Option("local_host", "string", FALSE, Plain("localhost"), FALSE),
      Option("to", "string", TRUE, Unset, FALSE),
      Option("port", "u16", FALSE, Plain("0"), FALSE), SecretOption>>
  ELSE
    <<Option("min_port", "u16", TRUE, Plain("1024"), FALSE),
      Option("max_port", "u16", TRUE, Plain("65535"), FALSE), SecretOption,
      Option("bind_addr", "ip", FALSE, Plain("0.0.0.0"), FALSE),
      Option("bind_tunnels", "ip", FALSE, Unset, TRUE)>>

ArgumentSet(command) == {Arguments(command)[i] : i \in DOMAIN Arguments(command)}
OptionIds(command) == {a.id : a \in {b \in ArgumentSet(command) : ~b.positional}}

\* The positional argument before which k others are declared, if there is one.
Target(command, k) ==
  LET places == {i \in DOMAIN Arguments(command) : Arguments(command)[i].positional}
  IN {Arguments(command)[i] :
        i \in {j \in places : Cardinality({h \in places : h < j}) = k}}

\* What takes the place of a word where a word is not what a parser wants.
Parses(parser, w) ==
  CASE parser = "string" -> TRUE
    [] parser = "u16" -> w.kind = "word" /\ w.text \in DOMAIN Numeral
    [] parser = "ip" -> w.kind = "word" /\ w.text \in Address

Value(parser, w) == IF parser = "u16" THEN Numeral[w.text] ELSE w

-----------------------------------------------------------------------------
(* parse: the loop over the tokens, and the loop over the arguments. *)

Exit(code) == [exit |-> code]
Exits(outcome) == "exit" \in DOMAIN outcome

Put(raw, id, w) == [raw EXCEPT ![id] = w]

\* One token, or a flag and its value: s.k positionals have been read, and after
\* the separator everything is positional.
Reads(command, line, s) ==
  LET token == line[s.at]
      known == token.kind \in {"flag", "joined"} /\ token.id \in OptionIds(command)
      target == Target(command, s.k)
      goes(n, raw, k, only) == [at |-> s.at + n, raw |-> raw, k |-> k, only |-> only]
  IN CASE ~s.only /\ token = Separator -> goes(1, s.raw, s.k, TRUE)
       [] ~s.only /\ token = HelpFlag -> Exit(0)
       [] ~s.only /\ token.kind = "joined" /\ known ->
            goes(1, Put(s.raw, token.id, token.value), s.k, FALSE)
       [] ~s.only /\ token.kind = "flag" /\ known /\ s.at < Len(line) ->
            goes(2, Put(s.raw, token.id, line[s.at + 1]), s.k, FALSE)
       [] (s.only \/ token.kind = "word") /\ target # {} ->
            goes(1, Put(s.raw, (CHOOSE a \in target : TRUE).id, token), s.k + 1, s.only)
       [] OTHER -> Exit(2)

\* The loop: after as many iterations as there are tokens it is past the line, or
\* has exited.
Scan(command, line, empty) ==
  LET after[n \in 0 .. Len(line)] ==
        IF n = 0 THEN [at |-> 1, raw |-> empty, k |-> 0, only |-> FALSE]
        ELSE LET s == after[n - 1] IN
             IF Exits(s) \/ s.at > Len(line) THEN s ELSE Reads(command, line, s)
  IN after[Len(line)]

\* Mutant: an environment variable that is empty counts.
SourceEmpty(a, raw, env) ==
  CASE raw[a.id] # Unset -> raw[a.id]
    [] raw[a.id] = Unset /\ a.env /\ env[a.id] # Unset -> env[a.id]
    [] OTHER -> a.default

\* The command line, then the environment, then the default.
Source(a, raw, env) ==
  CASE raw[a.id] # Unset -> raw[a.id]
    [] raw[a.id] = Unset /\ a.env /\ env[a.id] \notin {Unset, Plain("")} -> env[a.id]
    [] OTHER -> a.default

\* Whether a value is missing or invalid first decides the text only.
Matches(command, raw, env) ==
  LET source == [a \in ArgumentSet(command) |-> Source(a, raw, env)]
      fine(a) == IF source[a] = Unset THEN a.optional ELSE Parses(a.parser, source[a])
      named(id) == CHOOSE a \in ArgumentSet(command) : a.id = id
      values == [id \in {a.id : a \in ArgumentSet(command)} |->
                   IF source[named(id)] = Unset THEN Unset
                   ELSE Value(named(id).parser, source[named(id)])]
  IN IF \A a \in ArgumentSet(command) : fine(a) THEN values ELSE Exit(2)

\* What follows the name of a command.
Parse(command, line, env) ==
  LET empty == [id \in {a.id : a \in ArgumentSet(command)} |-> Unset]
      end == Scan(command, line, empty)
  IN IF Exits(end) THEN end ELSE Matches(command, end.raw, env)

-----------------------------------------------------------------------------
(* run *)

IsEmpty(range) == range[1] > range[2]

NewServer(range, values) ==
  [range |-> range, secret |-> values["secret"], bindAddr |-> values["bind_addr"],
   bindTunnels |-> IF values["bind_tunnels"] = Unset THEN values["bind_addr"]
                   ELSE values["bind_tunnels"]]

\* The port range is looked at before there is a server.
Run(command, values) ==
  LET range == <<values["min_port"], values["max_port"]>> IN
  IF command = "local" THEN [client |-> values]
  ELSE IF IsEmpty(range) THEN Exit(2) ELSE NewServer(range, values)

Main(command, line, env) ==
  LET values == Parse(command, line, env)
  IN IF Exits(values) THEN values ELSE Run(command, values)
=============================================================================
