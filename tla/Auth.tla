-------------------------------- MODULE Auth --------------------------------
(***************************************************************************)
(* The opening of a control connection: Client.new (src/src/client.ts) and *)
(* the first half of Server.handleConnection (src/src/server.ts), with the *)
(* two halves of Authenticator (src/src/auth.ts), over two FIFO streams.   *)
(*                                                                         *)
(* A tag is modelled by the secret whose hash is its key: there is one     *)
(* challenge, and HMAC is taken to tell keys apart.  recvTimeout times out *)
(* at any moment, or, when it is quiet, only when nothing is under way.    *)
(***************************************************************************)
EXTENDS Integers, Sequences

CONSTANTS
  Secret,  \* the secrets that a side may have
  None     \* the side has no secret

ASSUME NoneAssumption == None \notin Secret

VARIABLES
  quiet,     \* messages are faster than the timeouts, throughout
  cSecret,   \* the secret of the client, or None
  sSecret,   \* the secret of the server, or None
  cpc,       \* the await at which Client.new is, or how it has settled
  told,      \* the text of the Error message that Client.new failed with
  spc,       \* the await at which handleConnection is
  reason,    \* the text of the Error message that the server sends
  toServer,  \* what is under way, or decoded and not received
  toClient,
  reset      \* the client's socket has been reset

fixed == <<quiet, cSecret, sSecret>>
clientVars == <<cpc, told>>
serverVars == <<spc, reason>>
vars == <<fixed, clientVars, serverVars, toServer, toClient, reset>>

Of(kind) == [kind |-> kind]
EOF == Of("EOF")
Hello == Of("Hello")
Challenge == Of("Challenge")
Authenticate(s) == [kind |-> "Authenticate", value |-> s]
Error(text) == [kind |-> "Error", value |-> text]

ClientWaits == {"challenge", "reply"}
ClientFailed == {"expectedChallenge", "serverError", "needsSecret", "eof",
                 "ioError", "timeout"}
ServerWaits == {"auth", "first"}

Init ==
  /\ cSecret \in Secret \cup {None} /\ sSecret \in Secret \cup {None}
  /\ cpc = IF cSecret = None THEN "hello" ELSE "challenge"
  /\ spc = IF sSecret = None THEN "first" ELSE "start"
  /\ told = "" /\ reason = "" /\ reset = FALSE /\ quiet \in BOOLEAN
  /\ toServer = <<>> /\ toClient = <<>>

UnderWay ==
  \/ cpc \in {"authenticate", "hello"} \/ spc \in {"start", "refusing", "binding"}
  \/ spc \in ServerWaits /\ toServer # <<>>
  \/ cpc \in ClientWaits /\ (toClient # <<>> \/ reset)

-----------------------------------------------------------------------------
(* The server. *)

\* dropStream: what is sent arrives, then the end of the stream.
Leaves(sent) == spc' = "done" /\ toClient' = toClient \o sent \o <<EOF>>

SendChallenge ==
  /\ spc = "start" /\ spc' = "auth"
  /\ toClient' = Append(toClient, Challenge)
  /\ UNCHANGED <<fixed, clientVars, reason, toServer, reset>>

\* Mutant: whatever tag comes is taken.
RecvTagUnchecked ==
  /\ spc = "auth" /\ toServer # <<>> /\ toServer' = Tail(toServer)
  /\ spc' = IF Head(toServer).kind = "Authenticate" THEN "first" ELSE "refusing"
  /\ reason' = "no secret"
  /\ UNCHANGED <<fixed, clientVars, toClient, reset>>

\* serverHandshake, on a message or the end of the stream.
RecvTag ==
  /\ spc = "auth" /\ toServer # <<>> /\ toServer' = Tail(toServer)
  /\ LET m == Head(toServer) IN
       IF m.kind = "Authenticate"
       THEN IF m.value = sSecret
            THEN spc' = "first" /\ UNCHANGED reason
            ELSE spc' = "refusing" /\ reason' = "invalid secret"
       ELSE spc' = "refusing" /\ reason' = "no secret"
  /\ UNCHANGED <<fixed, clientVars, toClient, reset>>

\* Mutant: the handshake waits without a timeout.
ServerTimesOutLate ==
  /\ spc = "first" /\ toServer = <<>> /\ (quiet => ~UnderWay)
  /\ Leaves(<<>>)
  /\ UNCHANGED <<fixed, clientVars, reason, toServer, reset>>

\* recvTimeout: in the handshake, the failure is sent to the client.
ServerTimesOut ==
  /\ spc \in ServerWaits /\ toServer = <<>> /\ (quiet => ~UnderWay)
  /\ IF spc = "auth"
     THEN spc' = "refusing" /\ reason' = "timed out" /\ UNCHANGED toClient
     ELSE Leaves(<<>>) /\ UNCHANGED reason
  /\ UNCHANGED <<fixed, clientVars, toServer, reset>>

Refuse ==
  /\ spc = "refusing" /\ Leaves(<<Error(reason)>>)
  /\ UNCHANGED <<fixed, clientVars, reason, toServer, reset>>

\* The first message: Hello, or one on which handleConnection returns.
RecvFirst ==
  /\ spc = "first" /\ toServer # <<>> /\ toServer' = Tail(toServer)
  /\ IF Head(toServer) = Hello
     THEN spc' = "binding" /\ UNCHANGED toClient
     ELSE Leaves(<<>>)
  /\ UNCHANGED <<fixed, clientVars, reason, reset>>

BindOk ==
  /\ spc = "binding" /\ spc' = "serving"
  /\ toClient' = Append(toClient, Hello)
  /\ UNCHANGED <<fixed, clientVars, reason, toServer, reset>>

\* Mutant: the client is not told.
BindFailsSilently ==
  /\ spc = "binding" /\ Leaves(<<>>) /\ reason' = "no port"
  /\ UNCHANGED <<fixed, clientVars, toServer, reset>>

BindFails ==
  /\ spc = "binding" /\ reason' = "no port" /\ Leaves(<<Error("no port")>>)
  /\ UNCHANGED <<fixed, clientVars, toServer, reset>>

\* What reaches a socket that the server has destroyed resets the connection;
\* what the client has not read by then is lost.
Resets ==
  /\ spc = "done" /\ toServer # <<>> /\ ~reset /\ reset' = TRUE
  /\ \E n \in 0 .. Len(toClient) : toClient' = SubSeq(toClient, 1, n)
  /\ UNCHANGED <<fixed, clientVars, serverVars, toServer>>

-----------------------------------------------------------------------------
(* The client. *)

\* clientHandshake, on a message or the end of the stream.
RecvChallenge ==
  /\ cpc = "challenge" /\ toClient # <<>> /\ toClient' = Tail(toClient)
  /\ cpc' = IF Head(toClient) = Challenge THEN "authenticate" ELSE "expectedChallenge"
  /\ UNCHANGED <<fixed, told, serverVars, toServer, reset>>

\* send, which fails on a socket that has been reset.
Sends(m, next) ==
  IF reset THEN cpc' = "ioError" /\ UNCHANGED toServer
           ELSE cpc' = next /\ toServer' = Append(toServer, m)

SendTag ==
  /\ cpc = "authenticate" /\ Sends(Authenticate(cSecret), "hello")
  /\ UNCHANGED <<fixed, told, serverVars, toClient, reset>>

SendHello ==
  /\ cpc = "hello" /\ Sends(Hello, "reply")
  /\ UNCHANGED <<fixed, told, serverVars, toClient, reset>>

\* Mutant: everything but an error is a success.
RecvReplyLax ==
  /\ cpc = "reply" /\ toClient # <<>> /\ toClient' = Tail(toClient)
  /\ cpc' = IF Head(toClient).kind = "Error" THEN "serverError" ELSE "connected"
  /\ UNCHANGED <<fixed, told, serverVars, toServer, reset>>

RecvReply ==
  /\ cpc = "reply" /\ toClient # <<>> /\ toClient' = Tail(toClient)
  /\ LET m == Head(toClient) IN
       /\ cpc' = CASE m = Hello -> "connected" [] m = Challenge -> "needsSecret"
                   [] m = EOF -> "eof" [] OTHER -> "serverError"
       /\ told' = IF m.kind = "Error" THEN m.value ELSE told
  /\ UNCHANGED <<fixed, serverVars, toServer, reset>>

\* recv, when the stream has failed and every frame is received.
RecvFails ==
  /\ cpc \in ClientWaits /\ toClient = <<>> /\ reset /\ cpc' = "ioError"
  /\ UNCHANGED <<fixed, told, serverVars, toServer, toClient, reset>>

ClientTimesOut ==
  /\ cpc \in ClientWaits /\ toClient = <<>> /\ ~reset /\ (quiet => ~UnderWay)
  /\ cpc' = "timeout"
  /\ UNCHANGED <<fixed, told, serverVars, toServer, toClient, reset>>

\* The process of a client that failed exits.  As a library it need not, and
\* Client.new keeps the socket open.
ClientExits ==
  /\ cpc \in ClientFailed /\ ~reset /\ EOF \notin {toServer[i] : i \in DOMAIN toServer}
  /\ spc \in ServerWaits /\ toServer' = Append(toServer, EOF)
  /\ UNCHANGED <<fixed, clientVars, serverVars, toClient, reset>>

ServerStep ==
  SendChallenge \/ RecvTag \/ ServerTimesOut \/ Refuse \/ RecvFirst \/ BindOk
  \/ BindFails \/ Resets
ClientStep ==
  RecvChallenge \/ SendTag \/ SendHello \/ RecvReply \/ RecvFails
  \/ ClientTimesOut \/ ClientExits
Next == ServerStep \/ ClientStep

\* Timers fire and what can be received or sent is; a reset or an exit may
\* never come.
Fairness ==
  /\ WF_vars(SendChallenge \/ RecvTag \/ ServerTimesOut \/ Refuse \/ RecvFirst
             \/ BindOk \/ BindFails)
  /\ WF_vars(RecvChallenge \/ SendTag \/ SendHello \/ RecvReply \/ RecvFails
             \/ ClientTimesOut)

Spec == Init /\ [][Next]_vars /\ Fairness

-----------------------------------------------------------------------------
(* Properties *)

Reason == {"", "invalid secret", "no secret", "timed out", "no port"}
ToServer == {Authenticate(s) : s \in Secret} \cup {Hello, EOF}
ToClient == {Error(text) : text \in Reason} \cup {Challenge, Hello, EOF}

TypeOK ==
  /\ cSecret \in Secret \cup {None} /\ sSecret \in Secret \cup {None}
  /\ cpc \in ClientWaits \cup {"authenticate", "hello", "connected"} \cup ClientFailed
  /\ spc \in ServerWaits \cup {"start", "refusing", "binding", "serving", "done"}
  /\ told \in Reason /\ reason \in Reason /\ reset \in BOOLEAN /\ quiet \in BOOLEAN
  /\ toServer \in Seq(ToServer) /\ toClient \in Seq(ToClient)

\* The server opens a tunnel only for a client with its secret; without one it
\* opens none for a client that has a secret.
Agreement == spc \in {"binding", "serving"} => cSecret = sSecret

\* Client.new resolves only when the server serves the tunnel: no Challenge,
\* end or leftover is taken for the reply.
ConnectedIsServed == cpc = "connected" => spc = "serving"

\* However the messages and timeouts interleave, both sides come to a decision.
BothDecide ==
  /\ <>(cpc \in ClientFailed \cup {"connected"})
  /\ <>(spc \in {"serving", "done"})

\* What the user is told, when nothing is slow: the error is that of the
\* mismatch, except that a reset may overtake the answer to a wrong secret, and
\* that a client whose server has no secret waits until one side gives up.
Outcome ==
  quiet /\ cpc \in ClientFailed =>
    CASE cSecret = sSecret -> cpc = "serverError" /\ told = "no port"
      [] cSecret # sSecret /\ cSecret = None -> cpc = "needsSecret"
      [] cSecret # sSecret /\ sSecret = None -> cpc \in {"timeout", "expectedChallenge"}
      [] OTHER -> cpc = "ioError" \/ (cpc = "serverError" /\ told = "invalid secret")
=============================================================================
