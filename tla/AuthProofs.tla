----------------------------- MODULE AuthProofs -----------------------------
(***************************************************************************)
(* What holds of Auth for any set of secrets.  What each side may have     *)
(* sent follows from the secrets and from how far the server is (ClientMay *)
(* and ServerMay); the streams hold nothing else, whatever timeouts and    *)
(* resets do to the two processes.                                         *)
(*                                                                         *)
(* What the client is told when nothing is slow follows from the course of *)
(* the exchange, which is spelt out for each kind of pair of secrets       *)
(* (Course).                                                               *)
(***************************************************************************)
EXTENDS Auth, SequenceTheorems, TLAPS

\* The client has a secret that the server does not ask for.
Unasked == sSecret = None /\ cSecret # None

ClientMay == IF Unasked THEN {EOF} ELSE {Authenticate(cSecret), Hello, EOF}
ServerMay ==
  {Error(text) : text \in Reason} \cup {EOF}
    \cup (IF sSecret = None THEN {} ELSE {Challenge})
    \cup (IF spc = "serving" THEN {Hello} ELSE {})

Streams == toServer \in Seq(ClientMay) /\ toClient \in Seq(ServerMay)

Pcs ==
  /\ cpc \in ClientWaits \cup {"authenticate", "hello", "connected"} \cup ClientFailed
  /\ spc \in ServerWaits \cup {"start", "refusing", "binding", "serving", "done"}
  /\ told \in Reason /\ reason \in Reason /\ reset \in BOOLEAN /\ quiet \in BOOLEAN
  /\ cSecret \in Secret \cup {None} /\ sSecret \in Secret \cup {None}

Screened ==
  /\ sSecret = None => spc \in {"first", "binding", "serving", "done"}
  /\ sSecret # None /\ spc \in {"first", "binding", "serving"} => cSecret = sSecret
  /\ Unasked => /\ spc \in {"first", "done"}
                /\ cpc \in {"challenge", "expectedChallenge", "ioError", "timeout"}
  /\ cpc = "connected" => spc = "serving"

IInv == Pcs /\ Streams /\ Screened

LEMMA Widen == ASSUME NEW S, NEW T, NEW s \in Seq(S), S \subseteq T PROVE s \in Seq(T)
  OBVIOUS

LEMMA Join ==
  ASSUME NEW S, NEW s \in Seq(S), NEW t \in Seq(S) PROVE s \o t \in Seq(S)
  OBVIOUS

LEMMA Empty == ASSUME NEW S PROVE <<>> \in Seq(S)
  OBVIOUS

LEMMA Single == ASSUME NEW S, NEW x \in S PROVE <<x>> \in Seq(S)
  OBVIOUS

LEMMA Initial == Init => IInv
<1> SUFFICES ASSUME Init PROVE IInv
  OBVIOUS
<1>1. Pcs
  <2>1. cpc \in {"hello", "challenge"} /\ spc \in {"first", "start"}
    BY DEF Init
  <2>2. told \in Reason /\ reason \in Reason
    BY DEF Init, Reason
  <2> QED
    BY <2>1, <2>2 DEF Init, Pcs, ClientWaits, ServerWaits
<1>2. Streams
  BY Empty DEF Init, Streams
<1>3. Screened
  BY DEF Init, Screened, Unasked
<1> QED
  BY <1>1, <1>2, <1>3 DEF IInv

\* What may be sent does not shrink: the server that serves goes on serving.
LEMMA May ==
  ASSUME UNCHANGED fixed, spc = "serving" => spc' = "serving"
  PROVE  ClientMay' = ClientMay /\ ServerMay \subseteq ServerMay'
  BY DEF fixed, ClientMay, ServerMay, Unasked, Authenticate

ServerSteps ==
  SendChallenge \/ RecvTag \/ ServerTimesOut \/ Refuse \/ RecvFirst \/ BindOk \/ BindFails

LEMMA ServerFrame ==
  ASSUME IInv, ServerSteps
  PROVE  /\ UNCHANGED <<fixed, clientVars, reset>> /\ spc # "serving"
         /\ spc' \in ServerWaits \cup {"refusing", "binding", "serving", "done"}
         /\ reason' \in Reason
  BY DEF ServerSteps, SendChallenge, RecvTag, ServerTimesOut, Refuse, RecvFirst, BindOk,
         BindFails, Leaves, ServerWaits, Reason, IInv, Pcs

LEMMA ServerStreams == ASSUME IInv, ServerSteps PROVE Streams'
<1>1. ClientMay' = ClientMay /\ ServerMay \subseteq ServerMay'
  BY ServerFrame, May
<1>2. toServer \in Seq(ClientMay) /\ toClient \in Seq(ServerMay')
  BY <1>1, Widen DEF IInv, Streams
<1>3. toServer' \in Seq(ClientMay)
  <2>1. toServer' = toServer \/ (toServer # <<>> /\ toServer' = Tail(toServer))
    BY DEF ServerSteps, SendChallenge, RecvTag, ServerTimesOut, Refuse, RecvFirst, BindOk,
           BindFails
  <2> QED
    BY <1>2, <2>1, HeadTailProperties
<1>4. toClient' \in Seq(ServerMay')
  <2>1. EOF \in ServerMay' /\ \A text \in Reason : Error(text) \in ServerMay'
    BY DEF ServerMay
  <2>2. <<>> \in Seq(ServerMay') /\ <<EOF>> \in Seq(ServerMay')
    BY <2>1
  <2>3. \A sent \in Seq(ServerMay') : toClient \o sent \o <<EOF>> \in Seq(ServerMay')
    BY <1>2, <2>2, Join
  <2>4. CASE SendChallenge
    <3>1. Challenge \in ServerMay'
      BY <2>4, ServerFrame DEF SendChallenge, IInv, Screened, ServerMay, fixed
    <3> QED
      BY <1>2, <2>4, <3>1, AppendProperties DEF SendChallenge
  <2>5. CASE BindOk
    <3>1. Hello \in ServerMay'
      BY <2>5 DEF BindOk, ServerMay
    <3> QED
      BY <1>2, <2>5, <3>1, AppendProperties DEF BindOk
  <2>6. CASE Refuse
    <3>1. <<Error(reason)>> \in Seq(ServerMay')
      BY <2>1 DEF IInv, Pcs
    <3> QED
      BY <2>3, <2>6, <3>1 DEF Refuse, Leaves
  <2>7. CASE BindFails
    <3>0. "no port" \in Reason
      BY DEF Reason
    <3>2. Error("no port") \in ServerMay'
      BY <2>1, <3>0
    <3>1. <<Error("no port")>> \in Seq(ServerMay')
      BY <3>2, Single
    <3> QED
      BY <2>3, <2>7, <3>1 DEF BindFails, Leaves
  <2>8. CASE RecvTag \/ ServerTimesOut \/ RecvFirst
    <3>1. toClient' = toClient \/ toClient' = toClient \o <<>> \o <<EOF>>
      BY <2>8 DEF RecvTag, ServerTimesOut, RecvFirst, Leaves
    <3> QED
      BY <1>2, <2>2, <2>3, <3>1
  <2> QED
    BY <2>4, <2>5, <2>6, <2>7, <2>8 DEF ServerSteps
<1> QED
  BY <1>1, <1>3, <1>4 DEF Streams

LEMMA ServerScreens == ASSUME IInv, ServerSteps PROVE Screened'
<1>1. UNCHANGED <<cSecret, sSecret, cpc>> /\ spc # "serving" /\ cpc # "connected"
  BY ServerFrame DEF fixed, clientVars, IInv, Screened
<1>2. CASE RecvTag
  <2>1. Head(toServer) \in ClientMay
    BY <1>2, HeadTailProperties DEF RecvTag, IInv, Streams
  <2>2. sSecret # None /\ spc = "auth"
    BY <1>2 DEF RecvTag, IInv, Screened
  <2>3. spc' = "first" => cSecret = sSecret
    BY <1>2, <2>1, <2>2 DEF RecvTag, ClientMay, Unasked, Authenticate, Hello, EOF, Of
  <2>4. spc' \in {"first", "refusing"}
    BY <1>2 DEF RecvTag
  <2> QED
    BY <1>1, <2>2, <2>3, <2>4 DEF Screened, Unasked
<1>3. CASE RecvFirst
  <2>1. Head(toServer) \in ClientMay
    BY <1>3, HeadTailProperties DEF RecvFirst, IInv, Streams
  <2>2. spc = "first" /\ spc' \in {"binding", "done"}
    BY <1>3 DEF RecvFirst, Leaves
  <2>3. Unasked => spc' = "done"
    BY <1>3, <2>1 DEF RecvFirst, Leaves, ClientMay, Hello, EOF, Of
  <2> QED
    BY <1>1, <2>2, <2>3 DEF Screened, Unasked, IInv
<1>4. CASE ~RecvTag /\ ~RecvFirst
  <2>1. \/ spc = "start" /\ spc' = "auth"
        \/ spc = "auth" /\ spc' = "refusing"
        \/ spc \in {"first", "refusing"} /\ spc' = "done"
        \/ spc = "binding" /\ spc' \in {"serving", "done"}
    BY <1>4 DEF ServerSteps, SendChallenge, ServerTimesOut, Refuse, BindOk, BindFails,
                Leaves, ServerWaits
  <2> QED
    BY <1>1, <2>1 DEF Screened, Unasked, IInv
<1> QED
  BY <1>2, <1>3, <1>4

LEMMA ServerStepKeeps == ASSUME IInv, ServerSteps PROVE IInv'
<1>1. Pcs'
  BY ServerFrame DEF IInv, Pcs, fixed, clientVars
<1> QED
  BY <1>1, ServerStreams, ServerScreens DEF IInv

LEMMA ResetsKeeps == ASSUME IInv, Resets PROVE IInv'
<1>1. UNCHANGED <<fixed, clientVars, serverVars, toServer>> /\ reset' = TRUE
  BY DEF Resets
<1>2. PICK n \in 0 .. Len(toClient) : toClient' = SubSeq(toClient, 1, n)
  BY DEF Resets
<1>3. toClient' \in Seq(ServerMay)
  BY <1>2, SubSeqProperties DEF IInv, Streams
<1>4. ClientMay' = ClientMay /\ ServerMay' = ServerMay
  BY <1>1 DEF ClientMay, ServerMay, Unasked, Authenticate, fixed, serverVars
<1>5. Streams'
  BY <1>1, <1>3, <1>4 DEF IInv, Streams
<1> QED
  BY <1>1, <1>5 DEF IInv, Pcs, Screened, Unasked, fixed, clientVars, serverVars

LEMMA ClientStepKeeps == ASSUME IInv, ClientStep PROVE IInv'
<1>1. UNCHANGED <<fixed, serverVars, reset>>
  BY DEF ClientStep, RecvChallenge, SendTag, SendHello, Sends, RecvReply, RecvFails,
         ClientTimesOut, ClientExits
<1>2. ClientMay' = ClientMay /\ ServerMay' = ServerMay
  BY <1>1 DEF ClientMay, ServerMay, Unasked, Authenticate, fixed, serverVars
<1>3. toClient' \in Seq(ServerMay)
  <2>1. toClient' = toClient \/ (toClient # <<>> /\ toClient' = Tail(toClient))
    BY DEF ClientStep, RecvChallenge, SendTag, SendHello, RecvReply, RecvFails,
           ClientTimesOut, ClientExits
  <2> QED
    BY <2>1, HeadTailProperties DEF IInv, Streams
<1>4. toServer' \in Seq(ClientMay)
  <2>1. cpc \in {"authenticate", "hello"} => ~Unasked
    BY DEF IInv, Screened
  <2>2. \/ toServer' = toServer
        \/ ~Unasked /\ toServer' = Append(toServer, Authenticate(cSecret))
        \/ ~Unasked /\ toServer' = Append(toServer, Hello)
        \/ toServer' = Append(toServer, EOF)
    BY <2>1 DEF ClientStep, RecvChallenge, SendTag, SendHello, Sends, RecvReply, RecvFails,
                ClientTimesOut, ClientExits
  <2>3. EOF \in ClientMay /\ (~Unasked => {Authenticate(cSecret), Hello} \subseteq ClientMay)
    BY DEF ClientMay
  <2>4. ASSUME NEW m \in ClientMay PROVE Append(toServer, m) \in Seq(ClientMay)
    BY AppendProperties DEF IInv, Streams
  <2> QED
    BY <2>2, <2>3, <2>4 DEF IInv, Streams
<1>5. Pcs' /\ Screened'
  <2>1. CASE RecvChallenge
    <3>1. Head(toClient) \in ServerMay
      BY <2>1, HeadTailProperties DEF RecvChallenge, IInv, Streams
    <3>2. Unasked => Head(toClient) # Challenge
      BY <3>1 DEF ServerMay, Unasked, IInv, Screened, Error, EOF, Challenge, Of
    <3>3. cpc' \in {"authenticate", "expectedChallenge"} /\ told' = told
          /\ (Unasked => cpc' = "expectedChallenge")
      BY <2>1, <3>2 DEF RecvChallenge
    <3> QED
      BY <1>1, <3>3 DEF IInv, Pcs, Screened, Unasked, ClientFailed, fixed, serverVars
  <2>2. CASE RecvReply
    <3>1. Head(toClient) \in ServerMay
      BY <2>2, HeadTailProperties DEF RecvReply, IInv, Streams
    <3>2. Head(toClient) = Hello => spc = "serving"
      BY <3>1 DEF ServerMay, Error, EOF, Challenge, Hello, Of
    <3>3. cpc' \in {"connected", "needsSecret", "eof", "serverError"}
          /\ (cpc' = "connected" => Head(toClient) = Hello)
      BY <2>2 DEF RecvReply
    <3>4. told' \in Reason
      BY <2>2, <3>1 DEF RecvReply, IInv, Pcs, ServerMay, Error, EOF, Challenge, Hello, Of
    <3>5. ~Unasked
      BY <2>2 DEF RecvReply, IInv, Screened
    <3> QED
      BY <1>1, <3>2, <3>3, <3>4, <3>5
         DEF IInv, Pcs, Screened, Unasked, ClientFailed, fixed, serverVars
  <2>3. CASE ~RecvChallenge /\ ~RecvReply
    <3>1. /\ told' = told
          /\ \/ cpc = "authenticate" /\ cpc' \in {"ioError", "hello"}
             \/ cpc = "hello" /\ cpc' \in {"ioError", "reply"}
             \/ cpc \in ClientWaits /\ cpc' \in {"ioError", "timeout"}
             \/ cpc' = cpc
      BY <2>3 DEF ClientStep, SendTag, SendHello, Sends, RecvFails, ClientTimesOut,
                  ClientExits, clientVars
    <3> QED
      BY <1>1, <3>1 DEF IInv, Pcs, Screened, Unasked, ClientFailed, ClientWaits, fixed, serverVars
  <2> QED
    BY <2>1, <2>2, <2>3
<1> QED
  BY <1>2, <1>3, <1>4, <1>5 DEF IInv, Streams

LEMMA Inductive == IInv /\ [Next]_vars => IInv'
<1> SUFFICES ASSUME IInv, [Next]_vars PROVE IInv'
  OBVIOUS
<1>1. CASE UNCHANGED vars
  BY <1>1 DEF IInv, Pcs, Streams, Screened, ClientMay, ServerMay, Unasked, Authenticate,
              vars, fixed, clientVars, serverVars
<1>2. CASE Next
  BY <1>2, ServerStepKeeps, ResetsKeeps, ClientStepKeeps DEF Next, ServerStep, ServerSteps
<1> QED
  BY <1>1, <1>2

LEMMA Invariant == Spec => []IInv
  BY Initial, Inductive, PTL DEF Spec

\* A tunnel is opened only for a client with the secret of the server, or for
\* one without a secret by a server without one, for any secrets and whatever
\* timeouts and resets interrupt the exchange.
THEOREM AgreementCorrect == Spec => []Agreement
<1>1. IInv => Agreement
  BY DEF IInv, Screened, Unasked, Agreement
<1> QED
  BY <1>1, Invariant, PTL

\* Client.new resolves only when the server serves the tunnel.
THEOREM ConnectedCorrect == Spec => []ConnectedIsServed
<1>1. IInv => ConnectedIsServed
  BY DEF IInv, Screened, ConnectedIsServed
<1> QED
  BY <1>1, Invariant, PTL
-----------------------------------------------------------------------------
(* What the client is told when nothing is slow.  With no loss and no early  *)
(* timeout the exchange has one course for each pair of secrets, up to the   *)
(* pace of the two sides.                                                    *)

Now(c, s, sent, answered) ==
  cpc = c /\ spc = s /\ toServer = sent /\ toClient = answered

Tag == Authenticate(cSecret)
Refused(text) == <<Error(text), EOF>>

\* Two secrets, before the server has looked at the tag.
Proves ==
  /\ ~reset
  /\ \/ Now("challenge", "start", <<>>, <<>>)
     \/ Now("challenge", "auth", <<>>, <<Challenge>>)
     \/ Now("authenticate", "auth", <<>>, <<>>)
     \/ Now("hello", "auth", <<Tag>>, <<>>)
     \/ Now("reply", "auth", <<Tag, Hello>>, <<>>)

\* Past it: the server takes the Hello and binds.
Opened ==
  \/ Now("hello", "first", <<>>, <<>>)
  \/ Now("reply", "first", <<Hello>>, <<>>)
  \/ Now("reply", "binding", <<>>, <<>>)
  \/ Now("reply", "serving", <<>>, <<Hello>>)
  \/ Now("connected", "serving", <<>>, <<>>)
  \/ Now("reply", "done", <<>>, Refused("no port"))
  \/ Now("serverError", "done", <<>>, <<EOF>>) /\ told = "no port"

\* Equal secrets, or none and none.
Opens ==
  \/ Proves
  \/ ~reset /\ Opened

\* Two secrets.  A reset comes after the server has left, and may cut the
\* answer short.
Refuses ==
  \/ Proves
  \/ /\ ~reset
     /\ \/ Now("hello", "refusing", <<>>, <<>>) /\ reason = "invalid secret"
        \/ Now("reply", "refusing", <<Hello>>, <<>>) /\ reason = "invalid secret"
        \/ Now("hello", "done", <<>>, Refused("invalid secret"))
        \/ Now("reply", "done", <<Hello>>, Refused("invalid secret"))
  \/ /\ reset /\ cpc = "reply" /\ spc = "done"
     /\ toClient \in {<<>>, <<Error("invalid secret")>>, Refused("invalid secret")}
  \/ cpc = "ioError"
  \/ cpc = "serverError" /\ told = "invalid secret"

\* The client has none.  The challenge stands before all that the server sends.
Asks ==
  \/ cpc = "needsSecret"
  \/ /\ ~reset
     /\ \/ cpc = "hello" /\ spc \in {"start", "auth"} /\ toServer = <<>>
        \/ cpc = "reply" /\ spc \in {"start", "auth"} /\ toServer = <<Hello>>
        \/ cpc = "reply" /\ spc \in {"refusing", "done"} /\ toServer = <<>>
     /\ IF spc = "start" THEN toClient = <<>>
                         ELSE toClient # <<>> /\ Head(toClient) = Challenge

\* The server has none.
Waits ==
  \/ cpc \in {"expectedChallenge", "timeout"}
  \/ cpc = "challenge" /\ ~reset /\ toServer = <<>>

Course ==
  quiet =>
    /\ cSecret = sSecret => Opens
    /\ cSecret # sSecret /\ cSecret # None /\ sSecret # None => Refuses
    /\ cSecret # sSecret /\ cSecret = None => Asks
    /\ cSecret # sSecret /\ sSecret = None => Waits

LEMMA CourseInit == Init => Course
  BY DEF Init, Course, Opens, Opened, Proves, Refuses, Asks, Waits, Now

LEMMA Kinds ==
  /\ Challenge # Hello /\ Challenge # EOF /\ Hello # EOF
  /\ Hello.kind = "Hello" /\ EOF.kind = "EOF" /\ Challenge.kind = "Challenge"
  /\ \A s : Authenticate(s).kind = "Authenticate" /\ Authenticate(s).value = s
            /\ Authenticate(s) # Hello
  /\ \A t : /\ Error(t).kind = "Error" /\ Error(t).value = t
            /\ Error(t) # Hello /\ Error(t) # Challenge /\ Error(t) # EOF
  BY DEF Challenge, Hello, EOF, Authenticate, Error, Of

LEMMA Pair ==
  ASSUME NEW S, NEW s \in Seq(S), NEW t \in Seq(S), Len(s) = 2, Len(t) = 2,
         s[1] = t[1], s[2] = t[2]
  PROVE  s = t
  BY SeqEqual

LEMMA AppendPair == ASSUME NEW a, NEW b PROVE Append(<<a>>, b) = <<a, b>>
<1>1. <<a>> \in Seq({a, b}) /\ <<a, b>> \in Seq({a, b}) /\ b \in {a, b}
  OBVIOUS
<1>2. Append(<<a>>, b) \in Seq({a, b}) /\ Len(Append(<<a>>, b)) = 2
  BY <1>1
<1>3. Append(<<a>>, b)[1] = a /\ Append(<<a>>, b)[2] = b
  BY <1>1
<1>4. Len(<<a, b>>) = 2 /\ <<a, b>>[1] = a /\ <<a, b>>[2] = b
  OBVIOUS
<1>5. ASSUME NEW s \in Seq({a, b}), Len(s) = 2, s[1] = a, s[2] = b PROVE s = <<a, b>>
  BY <1>1, <1>4, <1>5, Pair
<1> QED
  BY <1>2, <1>3, <1>5

LEMMA JoinPair == ASSUME NEW a, NEW b PROVE <<>> \o <<a>> \o <<b>> = <<a, b>>
<1>1. <<a>> \in Seq({a, b}) /\ <<b>> \in Seq({a, b})
  OBVIOUS
<1>2. <<>> \o <<a>> = <<a>>
  OBVIOUS
<1>3. <<a>> \o <<b>> = Append(<<a>>, b)
  BY <1>1
<1> QED
  BY <1>2, <1>3, AppendPair

\* The sequences of up to two messages that the exchange consists of.
LEMMA Short ==
  ASSUME NEW a, NEW b
  PROVE  /\ <<a>> # <<>> /\ Head(<<a>>) = a /\ Tail(<<a>>) = <<>>
         /\ <<a, b>> # <<>> /\ Head(<<a, b>>) = a /\ Tail(<<a, b>>) = <<b>>
         /\ Append(<<>>, a) = <<a>> /\ Append(<<a>>, b) = <<a, b>>
         /\ <<>> \o <<a>> \o <<b>> = <<a, b>>
<1>1. <<a>> # <<>> /\ Head(<<a>>) = a /\ Tail(<<a>>) = <<>>
  OBVIOUS
<1>2. <<a, b>> # <<>> /\ Head(<<a, b>>) = a
  OBVIOUS
<1>3. Tail(<<a, b>>) = <<b>>
  OBVIOUS
<1>4. Append(<<>>, a) = <<a>>
  OBVIOUS
<1> QED
  BY <1>1, <1>2, <1>3, <1>4, AppendPair, JoinPair

LEMMA Cut ==
  ASSUME NEW a, NEW b, NEW n \in 0 .. Len(<<a, b>>)
  PROVE  SubSeq(<<a, b>>, 1, n) \in {<<>>, <<a>>, <<a, b>>}
<1>1. <<a, b>> \in Seq({a, b}) /\ <<a>> \in Seq({a, b}) /\ Len(<<a>>) = 1 /\ <<a>>[1] = a
      /\ Len(<<a, b>>) = 2 /\ <<a, b>>[1] = a /\ <<a, b>>[2] = b
  OBVIOUS
<1>2. PICK s : s = SubSeq(<<a, b>>, 1, n)
  OBVIOUS
<1>3. s \in Seq({a, b}) /\ Len(s) = n /\ \A j \in 1 .. n : s[j] = <<a, b>>[j]
  BY <1>1, <1>2, SubSeqProperties
<1>4. n = 0 => s = <<>>
  BY <1>3
<1>5. n = 1 => s = <<a>>
  <2>1. ASSUME n = 1 PROVE Len(s) = Len(<<a>>) /\ \A j \in 1 .. Len(s) : s[j] = <<a>>[j]
    BY <1>1, <1>3, <2>1
  <2> QED
    BY <1>1, <1>3, <2>1, SeqEqual
<1>6. n = 2 => s = <<a, b>>
  <2>1. ASSUME n = 2 PROVE Len(s) = 2 /\ s[1] = <<a, b>>[1] /\ s[2] = <<a, b>>[2]
    BY <1>3, <2>1
  <2> QED
    BY <1>1, <1>3, <2>1, Pair
<1>7. n = 0 \/ n = 1 \/ n = 2
  BY <1>1
<1> QED
  BY <1>2, <1>4, <1>5, <1>6, <1>7

\* What each step needs, when nothing is slow.
LEMMA Guards ==
  ASSUME quiet, Next
  PROVE  \/ SendChallenge /\ spc = "start"
         \/ RecvTag /\ spc = "auth" /\ toServer # <<>>
         \/ RecvFirst /\ spc = "first" /\ toServer # <<>>
         \/ /\ ServerTimesOut /\ spc \in ServerWaits /\ toServer = <<>>
            /\ cpc \notin {"authenticate", "hello"}
            /\ cpc \in ClientWaits => toClient = <<>> /\ ~reset
         \/ Refuse /\ spc = "refusing"
         \/ (BindOk \/ BindFails) /\ spc = "binding"
         \/ Resets /\ spc = "done" /\ toServer # <<>> /\ ~reset
         \/ RecvChallenge /\ cpc = "challenge" /\ toClient # <<>>
         \/ SendTag /\ cpc = "authenticate"
         \/ SendHello /\ cpc = "hello"
         \/ RecvReply /\ cpc = "reply" /\ toClient # <<>>
         \/ RecvFails /\ cpc \in ClientWaits /\ toClient = <<>> /\ reset
         \/ /\ ClientTimesOut /\ cpc \in ClientWaits /\ toClient = <<>> /\ ~reset
            /\ spc \notin {"start", "refusing", "binding"}
            /\ spc \in ServerWaits => toServer = <<>>
         \/ ClientExits /\ cpc \in ClientFailed /\ spc \in ServerWaits
<1>1. ServerTimesOut => /\ spc \in ServerWaits /\ toServer = <<>>
                        /\ cpc \notin {"authenticate", "hello"}
                        /\ cpc \in ClientWaits => toClient = <<>> /\ ~reset
  BY DEF ServerTimesOut, UnderWay
<1>2. ClientTimesOut => /\ cpc \in ClientWaits /\ toClient = <<>> /\ ~reset
                        /\ spc \notin {"start", "refusing", "binding"}
                        /\ spc \in ServerWaits => toServer = <<>>
  BY DEF ClientTimesOut, UnderWay
<1>3. /\ SendChallenge => spc = "start"
      /\ RecvTag => spc = "auth" /\ toServer # <<>>
      /\ RecvFirst => spc = "first" /\ toServer # <<>>
      /\ Refuse => spc = "refusing"
      /\ BindOk \/ BindFails => spc = "binding"
      /\ Resets => spc = "done" /\ toServer # <<>> /\ ~reset
  BY DEF SendChallenge, RecvTag, RecvFirst, Refuse, BindOk, BindFails, Resets
<1>4. /\ RecvChallenge => cpc = "challenge" /\ toClient # <<>>
      /\ SendTag => cpc = "authenticate"
      /\ SendHello => cpc = "hello"
      /\ RecvReply => cpc = "reply" /\ toClient # <<>>
      /\ RecvFails => cpc \in ClientWaits /\ toClient = <<>> /\ reset
      /\ ClientExits => cpc \in ClientFailed /\ spc \in ServerWaits
  BY DEF RecvChallenge, SendTag, SendHello, RecvReply, RecvFails, ClientExits
<1> QED
  BY <1>1, <1>2, <1>3, <1>4 DEF Next, ServerStep, ClientStep

LEMMA WaitsStep ==
  ASSUME IInv, quiet, cSecret # sSecret, sSecret = None, Waits, Next
  PROVE  Waits'
<1>1. CASE cpc \in {"expectedChallenge", "timeout"}
  <2>1. cpc' = cpc
    BY <1>1 DEF Next, ServerStep, SendChallenge, RecvTag, ServerTimesOut, Refuse, RecvFirst,
                BindOk, BindFails, Resets, ClientStep, RecvChallenge, SendTag, SendHello,
                RecvReply, RecvFails, ClientTimesOut, ClientExits, clientVars, ClientWaits
  <2> QED
    BY <1>1, <2>1 DEF Waits
<1>2. CASE cpc = "challenge" /\ ~reset /\ toServer = <<>>
  <2>1. ServerStep => UNCHANGED <<cpc, reset, toServer>>
    BY <1>2 DEF ServerStep, SendChallenge, RecvTag, ServerTimesOut, Refuse, RecvFirst,
                BindOk, BindFails, Resets, clientVars
  <2>2. ASSUME RecvChallenge PROVE cpc' = "expectedChallenge"
    <3>1. Head(toClient) \in ServerMay
      BY <2>2, HeadTailProperties DEF RecvChallenge, IInv, Streams
    <3>2. Head(toClient) # Challenge
      BY <3>1, Kinds DEF ServerMay, IInv, Screened, Unasked
    <3> QED
      BY <2>2, <3>2 DEF RecvChallenge
  <2>3. ASSUME ClientStep, ~RecvChallenge PROVE cpc' = "timeout"
    BY <1>2, <2>3 DEF ClientStep, SendTag, SendHello, RecvReply, RecvFails, ClientTimesOut,
                ClientExits, ClientFailed
  <2> QED
    BY <1>2, <2>1, <2>2, <2>3 DEF Waits, Next
<1> QED
  BY <1>1, <1>2 DEF Waits

LEMMA AsksStep ==
  ASSUME IInv, quiet, cSecret # sSecret, cSecret = None, Asks, Next
  PROVE  Asks'
<1>1. UNCHANGED <<cSecret, sSecret>>
  BY DEF Next, ServerStep, SendChallenge, RecvTag, ServerTimesOut, Refuse, RecvFirst,
         BindOk, BindFails, Resets, ClientStep, RecvChallenge, SendTag, SendHello,
         RecvReply, RecvFails, ClientTimesOut, ClientExits, fixed
<1>2. CASE cpc = "needsSecret"
  <2>1. cpc' = cpc
    BY <1>2 DEF Next, ServerStep, SendChallenge, RecvTag, ServerTimesOut, Refuse, RecvFirst,
                BindOk, BindFails, Resets, ClientStep, RecvChallenge, SendTag, SendHello,
                RecvReply, RecvFails, ClientTimesOut, ClientExits, clientVars, ClientWaits
  <2> QED
    BY <1>2, <2>1 DEF Asks
<1>3. CASE cpc # "needsSecret"
  <2> USE <1>3
  <2>1. CASE SendChallenge
    <3>1. toClient' # <<>> /\ Head(toClient') = Challenge
      BY <2>1, Short DEF SendChallenge, Asks
    <3> QED
      BY <2>1, <3>1 DEF SendChallenge, Asks, clientVars
  <2>2. CASE RecvTag
    <3>1. cpc = "reply" /\ toServer = <<Hello>> /\ spc = "auth"
      BY <2>2 DEF RecvTag, Asks
    <3>2. toServer' = <<>> /\ spc' = "refusing"
      BY <2>2, <3>1, Short, Kinds DEF RecvTag
    <3> QED
      BY <2>2, <3>1, <3>2 DEF RecvTag, Asks, clientVars
  <2>3. CASE Refuse
    <3>1. spc = "refusing" /\ toClient \in Seq(ServerMay) /\ toClient # <<>>
          /\ Head(toClient) = Challenge
      BY <2>3 DEF Refuse, Asks, IInv, Streams
    <3>2. toClient' # <<>> /\ Head(toClient') = Head(toClient)
      BY <2>3, <3>1 DEF Refuse, Leaves
    <3> QED
      BY <2>3, <3>1, <3>2 DEF Refuse, Leaves, Asks, clientVars
  <2>4. CASE SendHello
    <3>1. cpc = "hello" /\ toServer = <<>> /\ ~reset
      BY <2>4 DEF SendHello, Asks
    <3>2. toServer' = <<Hello>> /\ cpc' = "reply"
      BY <2>4, <3>1, Short DEF SendHello, Sends
    <3> QED
      BY <2>4, <3>1, <3>2 DEF SendHello, Asks, serverVars
  <2>5. CASE RecvReply
    <3>1. toClient # <<>> => Head(toClient) = Challenge
      BY <1>3 DEF Asks
    <3>2. cpc' = "needsSecret"
      BY <2>5, <3>1, Kinds DEF RecvReply
    <3> QED
      BY <3>2 DEF Asks
  <2>6. ~ServerTimesOut /\ ~ClientTimesOut
    BY Short DEF ServerTimesOut, ClientTimesOut, UnderWay, Asks, ServerWaits, ClientWaits
  <2>7. ~RecvFirst /\ ~BindOk /\ ~BindFails /\ ~Resets /\ ~RecvChallenge /\ ~SendTag
        /\ ~RecvFails /\ ~ClientExits
    BY DEF RecvFirst, BindOk, BindFails, Resets, RecvChallenge, SendTag, RecvFails,
           ClientExits, Asks, ClientFailed
  <2> QED
    BY <2>1, <2>2, <2>3, <2>4, <2>5, <2>6, <2>7 DEF Next, ServerStep, ClientStep
<1> QED
  BY <1>2, <1>3

LEMMA Fixed == Next => UNCHANGED fixed
  BY DEF Next, ServerStep, SendChallenge, RecvTag, ServerTimesOut, Refuse, RecvFirst,
         BindOk, BindFails, Resets, ClientStep, RecvChallenge, SendTag, SendHello, RecvReply,
         RecvFails, ClientTimesOut, ClientExits

\* The verdict on the tag is the one way out of Proves.
LEMMA ProvesStep ==
  ASSUME quiet, Proves, Next
  PROVE  /\ ~reset' /\ UNCHANGED <<fixed, told>>
         /\ \/ Proves'
            \/ /\ UNCHANGED <<cpc, toClient>> /\ toClient = <<>>
               /\ IF cSecret = sSecret THEN spc' = "first"
                  ELSE spc' = "refusing" /\ reason' = "invalid secret"
               /\ \/ cpc = "hello" /\ toServer' = <<>>
                  \/ cpc = "reply" /\ toServer' = <<Hello>>
<1>1. CASE Now("challenge", "start", <<>>, <<>>)
  <2>1. SendChallenge
    BY <1>1, Guards DEF Proves, Now, ClientWaits, ServerWaits, ClientFailed
  <2>2. toClient' = <<Challenge>>
    BY <1>1, <2>1, Short DEF SendChallenge, Now
  <2> QED
    BY <1>1, <2>1, <2>2 DEF SendChallenge, Proves, Now, clientVars
<1>2. CASE Now("challenge", "auth", <<>>, <<Challenge>>)
  <2>1. RecvChallenge
    BY <1>2, Short, Guards DEF Proves, Now, ClientWaits, ServerWaits, ClientFailed
  <2> QED
    BY <1>2, <2>1, Short DEF RecvChallenge, Proves, Now, serverVars
<1>3. CASE Now("authenticate", "auth", <<>>, <<>>)
  <2>1. SendTag
    BY <1>3, Guards DEF Proves, Now, ClientWaits, ServerWaits, ClientFailed
  <2>2. ~reset /\ toServer = <<>>
    BY <1>3 DEF Proves, Now
  <2>3. cpc' = "hello" /\ toServer' = <<Tag>> /\ Tag' = Tag
    BY <2>1, <2>2, Short DEF SendTag, Sends, Tag, fixed
  <2> QED
    BY <1>3, <2>1, <2>2, <2>3 DEF SendTag, Proves, Now, serverVars
<1>4. CASE Now("hello", "auth", <<Tag>>, <<>>)
  <2>1. SendHello \/ RecvTag
    BY <1>4, Short, Guards DEF Proves, Now, ClientWaits, ServerWaits, ClientFailed
  <2>2. CASE SendHello
    BY <1>4, <2>2, Short DEF SendHello, Sends, Proves, Now, Tag, serverVars, fixed
  <2>3. CASE RecvTag
    <3>1. Head(toServer) = Tag /\ Tail(toServer) = <<>>
      BY <1>4, Short DEF Now
    <3>2. Tag.kind = "Authenticate" /\ Tag.value = cSecret
      BY Kinds DEF Tag
    <3>3. toServer' = <<>> /\ UNCHANGED <<fixed, cpc, told, toClient, reset>>
      BY <2>3, <3>1 DEF RecvTag, clientVars
    <3>4. IF cSecret = sSecret THEN spc' = "first"
          ELSE spc' = "refusing" /\ reason' = "invalid secret"
      BY <2>3, <3>1, <3>2 DEF RecvTag
    <3>5. cpc = "hello" /\ toClient = <<>> /\ ~reset
      BY <1>4 DEF Now, Proves
    <3> QED
      BY <3>3, <3>4, <3>5
  <2> QED
    BY <2>1, <2>2, <2>3
<1>5. CASE Now("reply", "auth", <<Tag, Hello>>, <<>>)
  <2>1. RecvTag
    BY <1>5, Short, Guards DEF Proves, Now, ClientWaits, ServerWaits, ClientFailed
  <2>2. Head(toServer) = Tag /\ Tail(toServer) = <<Hello>>
    BY <1>5, Short DEF Now
  <2>3. Tag.kind = "Authenticate" /\ Tag.value = cSecret
    BY Kinds DEF Tag
  <2> QED
    BY <1>5, <2>1, <2>2, <2>3 DEF RecvTag, Proves, Now, clientVars
<1> QED
  BY <1>1, <1>2, <1>3, <1>4, <1>5 DEF Proves

LEMMA OpensStep ==
  ASSUME quiet, cSecret = sSecret, Opens, Next
  PROVE  Opens'
<1>0. CASE Proves
  BY <1>0, ProvesStep DEF Opens, Opened, Now
<1> SUFFICES ASSUME ~reset, Opened PROVE Opens'
  BY <1>0 DEF Opens
<1>1. CASE Now("hello", "first", <<>>, <<>>)
  <2>1. SendHello
    BY <1>1, Short, Guards DEF Now, ClientWaits, ServerWaits, ClientFailed
  <2> QED
    BY <1>1, <2>1, Short, Kinds DEF SendHello, Sends, serverVars, Opens, Opened, Now
<1>2. CASE Now("reply", "first", <<Hello>>, <<>>)
  <2>1. RecvFirst
    BY <1>2, Short, Guards DEF Now, ClientWaits, ServerWaits, ClientFailed
  <2> QED
    BY <1>2, <2>1, Short, Kinds DEF RecvFirst, clientVars, Opens, Opened, Now
<1>3. CASE Now("reply", "binding", <<>>, <<>>)
  <2>1. BindOk \/ BindFails
    BY <1>3, Short, Guards DEF Now, ClientWaits, ServerWaits, ClientFailed
  <2>2. CASE BindOk
    <3>1. toClient' = <<Hello>>
      BY <1>3, <2>2, Short DEF BindOk, Now
    <3> QED
      BY <1>3, <2>2, <3>1 DEF BindOk, Opens, Opened, Now, clientVars
  <2>3. CASE BindFails
    <3>1. toClient' = Refused("no port")
      BY <1>3, <2>3, Short DEF BindFails, Leaves, Refused, Now
    <3> QED
      BY <1>3, <2>3, <3>1 DEF BindFails, Leaves, Opens, Opened, Now, clientVars, Refused
  <2> QED
    BY <2>1, <2>2, <2>3
<1>4. CASE Now("reply", "serving", <<>>, <<Hello>>)
  <2>1. RecvReply
    BY <1>4, Short, Guards DEF Now, ClientWaits, ServerWaits, ClientFailed
  <2> QED
    BY <1>4, <2>1, Short, Kinds DEF RecvReply, serverVars, Opens, Opened, Now
<1>5. CASE Now("connected", "serving", <<>>, <<>>)
  <2>1. FALSE
    BY <1>5, Short, Guards DEF Opens, Now, ClientWaits, ServerWaits, ClientFailed
  <2> QED
    BY <2>1
<1>6. CASE Now("reply", "done", <<>>, Refused("no port"))
  <2>1. RecvReply
    BY <1>6, Short, Guards DEF Refused, Now, ClientWaits, ServerWaits, ClientFailed
  <2>2. Head(toClient) = Error("no port") /\ Tail(toClient) = <<EOF>>
    BY <1>6, Short DEF Now, Refused
  <2>3. cpc' = "serverError" /\ told' = "no port"
    BY <2>1, <2>2, Kinds DEF RecvReply
  <2> QED
    BY <1>6, <2>1, <2>2, <2>3 DEF RecvReply, serverVars, Opens, Opened, Now
<1>7. CASE Now("serverError", "done", <<>>, <<EOF>>) /\ told = "no port"
  <2>1. FALSE
    BY <1>7, Short, Guards DEF Opens, Now, ClientWaits, ServerWaits, ClientFailed
  <2> QED
    BY <2>1
<1> QED
  BY <1>1, <1>2, <1>3, <1>4, <1>5, <1>6, <1>7 DEF Opened

LEMMA RefusesStep ==
  ASSUME IInv, quiet, cSecret # sSecret, Refuses, Next
  PROVE  Refuses'
<1>1. CASE Proves
  BY <1>1, ProvesStep DEF Refuses, Now
<1>2. CASE Now("hello", "refusing", <<>>, <<>>) /\ reason = "invalid secret" /\ ~reset
  <2>1. SendHello \/ Refuse
    BY <1>2, Guards DEF Now, ClientWaits, ServerWaits, ClientFailed
  <2>2. CASE SendHello
    BY <1>2, <2>2, Short DEF SendHello, Sends, Refuses, Now, serverVars
  <2>3. CASE Refuse
    <3>1. toClient' = Refused("invalid secret")
      BY <1>2, <2>3, Short DEF Refuse, Leaves, Refused, Now
    <3> QED
      BY <1>2, <2>3, <3>1 DEF Refuse, Leaves, Refuses, Now, clientVars, Refused
  <2> QED
    BY <2>1, <2>2, <2>3
<1>3. CASE Now("reply", "refusing", <<Hello>>, <<>>) /\ reason = "invalid secret" /\ ~reset
  <2>1. Refuse
    BY <1>3, Guards DEF Now, ClientWaits, ServerWaits, ClientFailed
  <2>2. toClient' = Refused("invalid secret")
    BY <1>3, <2>1, Short DEF Refuse, Leaves, Refused, Now
  <2> QED
    BY <1>3, <2>1, <2>2 DEF Refuse, Leaves, Refuses, Now, clientVars, Refused
<1>4. CASE Now("hello", "done", <<>>, Refused("invalid secret")) /\ ~reset
  <2>1. SendHello
    BY <1>4, Guards DEF Now, ClientWaits, ServerWaits, ClientFailed
  <2> QED
    BY <1>4, <2>1, Short DEF SendHello, Sends, Refuses, Now, serverVars, Refused
<1>5. CASE Now("reply", "done", <<Hello>>, Refused("invalid secret")) /\ ~reset
  <2>1. RecvReply \/ Resets
    BY <1>5, Short, Guards DEF Refused, Now, ClientWaits, ServerWaits, ClientFailed
  <2>2. CASE RecvReply
    <3>1. Head(toClient) = Error("invalid secret")
      BY <1>5, Short DEF Now, Refused
    <3> QED
      BY <2>2, <3>1, Kinds DEF RecvReply, Refuses
  <2>3. CASE Resets
    <3>1. PICK n \in 0 .. Len(toClient) : toClient' = SubSeq(toClient, 1, n)
      BY <2>3 DEF Resets
    <3>2. toClient' \in {<<>>, <<Error("invalid secret")>>, Refused("invalid secret")}
      BY <1>5, <3>1, Cut DEF Now, Refused
    <3> QED
      BY <1>5, <2>3, <3>2 DEF Resets, Refuses, Now, clientVars, serverVars, Refused
  <2> QED
    BY <2>1, <2>2, <2>3
<1>6. CASE /\ reset /\ cpc = "reply" /\ spc = "done"
           /\ toClient \in {<<>>, <<Error("invalid secret")>>, Refused("invalid secret")}
  <2>1. RecvReply \/ RecvFails
    BY <1>6, Guards DEF Now, ClientWaits, ServerWaits, ClientFailed
  <2>2. CASE RecvReply
    <3>1. Head(toClient) = Error("invalid secret")
      BY <1>6, <2>2, Short DEF RecvReply, Refused
    <3> QED
      BY <2>2, <3>1, Kinds DEF RecvReply, Refuses
  <2>3. CASE RecvFails
    BY <2>3 DEF RecvFails, Refuses
  <2> QED
    BY <2>1, <2>2, <2>3
<1>7. CASE cpc = "ioError" \/ (cpc = "serverError" /\ told = "invalid secret")
  <2>1. UNCHANGED <<cpc, told>>
    BY <1>7 DEF Next, ServerStep, SendChallenge, RecvTag, ServerTimesOut, Refuse,
                RecvFirst, BindOk, BindFails, Resets, ClientStep, RecvChallenge, SendTag,
                SendHello, RecvReply, RecvFails, ClientTimesOut, ClientExits, clientVars,
                ClientWaits
  <2> QED
    BY <1>7, <2>1 DEF Refuses
<1> QED
  BY <1>1, <1>2, <1>3, <1>4, <1>5, <1>6, <1>7 DEF Refuses

LEMMA CourseStep == IInv /\ Course /\ [Next]_vars => Course'
<1> SUFFICES ASSUME IInv, Course, [Next]_vars, quiet' PROVE Course'
  BY DEF Course
<1>1. CASE UNCHANGED vars
  BY <1>1 DEF Course, Opens, Opened, Proves, Refuses, Asks, Waits, Now, Tag, Refused, vars,
              fixed, clientVars, serverVars
<1>2. CASE Next
  <2>1. UNCHANGED <<quiet, cSecret, sSecret>>
    BY <1>2, Fixed DEF fixed
  <2>2. cSecret = sSecret => Opens'
    BY <1>2, <2>1, OpensStep DEF Course
  <2>3. cSecret # sSecret /\ cSecret # None /\ sSecret # None => Refuses'
    BY <1>2, <2>1, RefusesStep DEF Course
  <2>4. cSecret # sSecret /\ cSecret = None => Asks'
    BY <1>2, <2>1, AsksStep DEF Course
  <2>5. cSecret # sSecret /\ sSecret = None => Waits'
    BY <1>2, <2>1, WaitsStep DEF Course
  <2> QED
    BY <2>1, <2>2, <2>3, <2>4, <2>5 DEF Course
<1> QED
  BY <1>1, <1>2

\* What the user is told, when nothing is slow, is the mismatch that there is,
\* for any secrets: Client.new fails with the server's refusal, the lack of a
\* secret, or the wait for a challenge that nobody sends.
THEOREM OutcomeCorrect == Spec => []Outcome
<1>1. Course => Outcome
  BY DEF Course, Outcome, Opens, Opened, Proves, Refuses, Asks, Waits, Now, ClientFailed
<1> QED
  BY <1>1, CourseInit, CourseStep, Invariant, PTL DEF Spec
=============================================================================
