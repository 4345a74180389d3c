------------------------------- MODULE Client -------------------------------
(***************************************************************************)
(* Client.listen and the tasks it starts (src/src/client.ts).  The control *)
(* connection delivers messages; each Connection message starts a task,    *)
(* handleConnection, which dials the server, authenticates, announces      *)
(* itself, dials the local port, forwards what was read past the frames,   *)
(* and copies.  The abort signal ends the loop and destroys what is active.*)
(* A dial is connectWithTimeout: tcpConnect (src/src/deps/tokio.ts) walks  *)
(* over the addresses of the host within one timeout.                      *)
(*                                                                         *)
(* A task stops at its awaits; the other modules say how they end: Auth    *)
(* the handshake, CopyBidirectional the copy.  A socket that is reset      *)
(* while nobody listens for its error ends the process (crashed).          *)
(***************************************************************************)
EXTENDS Integers, Sequences

CONSTANTS
  Task,     \* Connection messages, one for each id the server announces
  Secret,   \* the client has a secret
  MaxAddresses  \* bound: addresses that a host name resolves to

ASSUME SecretAssumption == Secret \in BOOLEAN
ASSUME AddressAssumption == MaxAddresses \in Nat \ {0}
ASSUME TaskAssumption == "bad" \notin Task

VARIABLES
  phase,     \* "made" by Client.new, "listening", "ended": listen has returned
  inbox,     \* messages decoded and not received: tasks, or "bad"
  control,   \* the control stream: "open", "ended", "failed"
  aborted,   \* the signal
  pc,        \* pc[t]: the await at which handleConnection is
  remote,    \* remote[t]: "none", "open", "lost" (destroyed), "dropped"
  local,     \* local[t]: likewise
  dial,      \* dial[t]: where tcpConnect is, or "idle"; "abandoned" when its
             \* timeout has fired and its lookup has not ended
  rest,      \* rest[t]: addresses it has not tried yet
  active,    \* Client.active: <<t, "remote">> and <<t, "local">>
  crashed    \* an uncaught error event

loopVars == <<phase, inbox, control>>
dialVars == <<dial, rest>>
taskVars == <<pc, remote, local, dialVars, active>>
vars == <<loopVars, aborted, taskVars, crashed>>

Elements(q) == {q[i] : i \in DOMAIN q}

Init ==
  /\ phase = "made" /\ inbox = <<>> /\ control = "open" /\ aborted = FALSE
  /\ pc = [t \in Task |-> "none"] /\ active = {}
  /\ dial = [t \in Task |-> "idle"] /\ rest = [t \in Task |-> 0]
  /\ remote = [t \in Task |-> "none"] /\ local = [t \in Task |-> "none"]
  /\ crashed = FALSE

\* listen receives what there is to receive before the next event of the loop.
Due == phase = "listening" /\ (inbox # <<>> \/ control # "open" \/ aborted)
Event == ~crashed /\ ~Due

-----------------------------------------------------------------------------
(* The control connection.  Hello, Challenge, Heartbeat and Error messages  *)
(* are only logged; a message that does not parse ends listen, and what     *)
(* comes after it is never received.                                        *)

Announced(t) == pc[t] # "none" \/ t \in Elements(inbox)

ServerSends(m) ==
  /\ Event /\ phase # "ended" /\ control = "open" /\ "bad" \notin Elements(inbox)
  /\ m # "bad" => ~Announced(m)
  /\ inbox' = Append(inbox, m)
  /\ UNCHANGED <<phase, control, aborted, taskVars, crashed>>

ControlEnds(how) ==
  /\ Event /\ phase # "ended" /\ control = "open"
  /\ control' = how
  /\ UNCHANGED <<phase, inbox, aborted, taskVars, crashed>>

\* An abort signal that has fired calls no listener that is added later.
Listen ==
  /\ Event /\ phase = "made" /\ phase' = "listening"
  /\ UNCHANGED <<inbox, control, aborted, taskVars, crashed>>

\* recv, on a frame: start the task, or give up.
Receive ==
  /\ ~crashed /\ phase = "listening" /\ inbox # <<>>
  /\ inbox' = Tail(inbox)
  /\ IF Head(inbox) = "bad"
     THEN phase' = "ended" /\ UNCHANGED <<pc, dial>>
     ELSE /\ pc' = [pc EXCEPT ![Head(inbox)] = "dialing"] /\ UNCHANGED phase
          /\ dial' = [dial EXCEPT ![Head(inbox)] = "resolving"]
  /\ UNCHANGED <<control, aborted, remote, local, rest, active, crashed>>

\* Mutant: the failure or end is looked at before the frames.
ReceiveNothingEarly ==
  /\ ~crashed /\ phase = "listening"
  /\ control # "open" \/ aborted
  /\ phase' = "ended"
  /\ UNCHANGED <<inbox, control, aborted, taskVars, crashed>>

\* recv, without a frame: the failure, the end of the stream, or the signal,
\* which may have fired before listen was called.
ReceiveNothing ==
  /\ ~crashed /\ phase = "listening" /\ inbox = <<>>
  /\ control # "open" \/ aborted
  /\ phase' = "ended"
  /\ UNCHANGED <<inbox, control, aborted, taskVars, crashed>>

Destroyed(sockets, which) ==
  [t \in Task |-> IF <<t, which>> \in active /\ sockets[t] = "open"
                  THEN "lost" ELSE sockets[t]]

\* onAbort, if it is registered, and the rejection of the pending recv.
Abort ==
  /\ Event /\ ~aborted /\ aborted' = TRUE
  /\ IF phase = "listening"
     THEN /\ remote' = Destroyed(remote, "remote")
          /\ local' = Destroyed(local, "local")
          /\ active' = {} /\ phase' = "ended"
     ELSE UNCHANGED <<remote, local, active, phase>>
  /\ UNCHANGED <<inbox, control, pc, dialVars, crashed>>

-----------------------------------------------------------------------------
(* The tasks. *)

\* The finally block: forget and drop both sockets.
Finally(t) ==
  /\ pc' = [pc EXCEPT ![t] = "done"]
  /\ active' = active \ {<<t, "remote">>, <<t, "local">>}
  /\ remote' = [remote EXCEPT ![t] = IF @ = "open" THEN "dropped" ELSE @]
  /\ local' = [local EXCEPT ![t] = IF @ = "open" THEN "dropped" ELSE @]
  /\ UNCHANGED <<loopVars, aborted, crashed>>

Leaves(t) == Finally(t) /\ UNCHANGED dialVars

\* tcpConnect under connectWithTimeout: the host is looked up, and its
\* addresses are tried one by one until one of them answers.
StartsDial(t) == dial' = [dial EXCEPT ![t] = "resolving"]

\* Mutant: the signal is not looked at after the lookup.
LookupEndsAnyway(t) ==
  /\ Event /\ dial[t] \in {"resolving", "abandoned"}
  /\ dial' = [dial EXCEPT ![t] = "connecting"]
  /\ \E n \in 1 .. MaxAddresses : rest' = [rest EXCEPT ![t] = n - 1]
  /\ UNCHANGED <<pc, remote, local, active, loopVars, aborted, crashed>>

\* A lookup that fails, or finds nothing, leaves the name itself to be tried.
\* One that ends after the timeout opens no socket.
LookupEnds(t) ==
  /\ Event /\ dial[t] \in {"resolving", "abandoned"}
  /\ IF dial[t] = "abandoned"
     THEN dial' = [dial EXCEPT ![t] = "idle"] /\ UNCHANGED rest
     ELSE /\ dial' = [dial EXCEPT ![t] = "connecting"]
          /\ \E n \in 1 .. MaxAddresses : rest' = [rest EXCEPT ![t] = n - 1]
  /\ UNCHANGED <<pc, remote, local, active, loopVars, aborted, crashed>>

Answers(t) == dial[t] = "connecting" /\ dial' = [dial EXCEPT ![t] = "idle"]

\* An address refuses: its socket is destroyed and the next is tried.
NextAddress(t) ==
  /\ Event /\ dial[t] = "connecting" /\ rest[t] > 0
  /\ rest' = [rest EXCEPT ![t] = @ - 1]
  /\ UNCHANGED <<pc, remote, local, dial, active, loopVars, aborted, crashed>>

DialFails(t) ==
  /\ Event /\ dial[t] = "connecting" /\ rest[t] = 0
  /\ dial' = [dial EXCEPT ![t] = "idle"] /\ UNCHANGED rest
  /\ Finally(t)

\* The 3 seconds cover the whole dial; the abort destroys the socket that is
\* connecting, a lookup goes on.
DialTimesOut(t) ==
  /\ Event /\ pc[t] \in {"dialing", "dialingLocal"}
  /\ dial' = [dial EXCEPT ![t] = IF @ = "resolving" THEN "abandoned" ELSE "idle"]
  /\ UNCHANGED rest
  /\ Finally(t)

\* connectWithTimeout to the server.
RemoteConnected(t) ==
  /\ Event /\ pc[t] = "dialing" /\ Answers(t)
  /\ remote' = [remote EXCEPT ![t] = "open"]
  /\ active' = active \cup {<<t, "remote">>}
  /\ pc' = [pc EXCEPT ![t] = IF Secret THEN "handshaking" ELSE "announcing"]
  /\ UNCHANGED <<rest, local, loopVars, aborted, crashed>>

\* clientHandshake: the challenge is answered.
HandshakeOk(t) ==
  /\ Event /\ pc[t] = "handshaking" /\ remote[t] = "open"
  /\ pc' = [pc EXCEPT ![t] = "announcing"]
  /\ UNCHANGED <<dialVars, remote, local, active, loopVars, aborted, crashed>>

\* Mutant: recv in place of recvTimeout, which an abort does not wake.
HandshakeFailsOnReset(t) ==
  Event /\ pc[t] = "handshaking" /\ remote[t] = "lost" /\ ~aborted /\ Leaves(t)

\* An unexpected message, the end or loss of the stream, or the timeout.
HandshakeFails(t) == Event /\ pc[t] = "handshaking" /\ Leaves(t)

\* send(Accept(id)).
AnnounceOk(t) ==
  /\ Event /\ pc[t] = "announcing" /\ remote[t] = "open"
  /\ pc' = [pc EXCEPT ![t] = "dialingLocal"] /\ StartsDial(t)
  /\ UNCHANGED <<rest, remote, local, active, loopVars, aborted, crashed>>

AnnounceFails(t) ==
  Event /\ pc[t] = "announcing" /\ remote[t] = "lost" /\ Leaves(t)

\* A copy that starts with a lost socket: see Released in CopyBidirectional.
CopyPc(t) == IF remote[t] = "lost" THEN "stuck" ELSE "copying"

\* Mutant: the local socket is not recorded.
LocalConnectedUnrecorded(t) ==
  /\ Event /\ pc[t] = "dialingLocal" /\ Answers(t)
  /\ local' = [local EXCEPT ![t] = "open"]
  /\ \E empty \in BOOLEAN :
       pc' = [pc EXCEPT ![t] = IF empty THEN CopyPc(t) ELSE "forwarding"]
  /\ UNCHANGED <<rest, remote, active, loopVars, aborted, crashed>>

\* The local port answers; readBuf may be empty.
LocalConnected(t) ==
  /\ Event /\ pc[t] = "dialingLocal" /\ Answers(t)
  /\ local' = [local EXCEPT ![t] = "open"]
  /\ active' = active \cup {<<t, "local">>}
  /\ \E empty \in BOOLEAN :
       pc' = [pc EXCEPT ![t] = IF empty THEN CopyPc(t) ELSE "forwarding"]
  /\ UNCHANGED <<rest, remote, loopVars, aborted, crashed>>

\* The write of readBuf to the local socket.
Forwarded(t) ==
  /\ Event /\ pc[t] = "forwarding" /\ local[t] = "open"
  /\ pc' = [pc EXCEPT ![t] = CopyPc(t)]
  /\ UNCHANGED <<dialVars, remote, local, active, loopVars, aborted, crashed>>

ForwardFails(t) ==
  Event /\ pc[t] = "forwarding" /\ local[t] = "lost" /\ Leaves(t)

\* copyBidirectional settles: both directions ended, or a socket was
\* destroyed.
CopyEnds(t) == Event /\ pc[t] = "copying" /\ Leaves(t)

\* A reset of the remote socket: noted by Delimited until intoParts, fatal
\* while readBuf is forwarded, the end of the copy after that.
RemoteResets(t) ==
  /\ Event /\ remote[t] = "open"
  /\ remote' = [remote EXCEPT ![t] = "lost"]
  /\ crashed' = (pc[t] = "forwarding")
  /\ UNCHANGED <<dialVars, pc, local, active, loopVars, aborted>>

\* A reset of the local socket: it also rejects a copy that is stuck.
LocalResets(t) ==
  /\ Event /\ local[t] = "open"
  /\ local' = [local EXCEPT ![t] = "lost"]
  /\ crashed' = (pc[t] = "forwarding")
  /\ pc' = [pc EXCEPT ![t] = IF @ = "stuck" THEN "copying" ELSE @]
  /\ UNCHANGED <<dialVars, remote, active, loopVars, aborted>>

Next ==
  \/ \E m \in Task \cup {"bad"} : ServerSends(m)
  \/ \E how \in {"ended", "failed"} : ControlEnds(how)
  \/ Listen \/ Receive \/ ReceiveNothing \/ Abort
  \/ \E t \in Task :
       \/ LookupEnds(t) \/ NextAddress(t) \/ DialFails(t) \/ DialTimesOut(t)
       \/ RemoteConnected(t) \/ RemoteResets(t)
       \/ HandshakeOk(t) \/ HandshakeFails(t) \/ AnnounceOk(t) \/ AnnounceFails(t)
       \/ LocalConnected(t) \/ LocalResets(t)
       \/ Forwarded(t) \/ ForwardFails(t) \/ CopyEnds(t)

\* Timers fire, writes complete, and copies end (Released).  Whether servers
\* and local ports answer is up to them.
Fairness ==
  /\ WF_vars(Receive) /\ WF_vars(ReceiveNothing)
  /\ \A t \in Task :
       /\ WF_vars(DialTimesOut(t)) /\ WF_vars(HandshakeFails(t))
       /\ WF_vars(AnnounceOk(t)) /\ WF_vars(AnnounceFails(t))
       /\ WF_vars(Forwarded(t))
       /\ WF_vars(ForwardFails(t)) /\ WF_vars(CopyEnds(t))

Spec == Init /\ [][Next]_vars /\ Fairness

-----------------------------------------------------------------------------
(* Properties *)

SocketState == {"none", "open", "lost", "dropped"}
Pc == {"none", "dialing", "handshaking", "announcing", "dialingLocal",
       "forwarding", "copying", "stuck", "done"}

TypeOK ==
  /\ phase \in {"made", "listening", "ended"} /\ inbox \in Seq(Task \cup {"bad"})
  /\ control \in {"open", "ended", "failed"} /\ aborted \in BOOLEAN
  /\ pc \in [Task -> Pc] /\ remote \in [Task -> SocketState]
  /\ local \in [Task -> SocketState]
  /\ dial \in [Task -> {"idle", "resolving", "connecting", "abandoned"}]
  /\ rest \in [Task -> 0 .. MaxAddresses - 1]
  /\ active \in SUBSET (Task \X {"remote", "local"}) /\ crashed \in BOOLEAN

\* The sockets in the hands of tasks that run, and those of them not destroyed.
Socket(which) == IF which = "remote" THEN remote ELSE local
Held ==
  {s \in Task \X {"remote", "local"} :
     pc[s[1]] # "done" /\ Socket(s[2])[s[1]] # "none"}
HeldOpen == {s \in Held : Socket(s[2])[s[1]] = "open"}

\* Shutdown can find what it has to destroy, and nothing of an ended task is
\* kept in the set: a socket that a task holds open is in active.
ActiveExact == HeldOpen \subseteq active /\ active \subseteq Held

\* However a task ends, at whichever await, it leaves no socket open, and none
\* that is connecting, nor will one: a lookup that is late connects nowhere.
DoneHoldsNothing ==
  \A t \in Task : pc[t] = "done" =>
    /\ remote[t] # "open" /\ local[t] # "open"
    /\ dial[t] \in {"idle", "abandoned"}

\* Connections that the server announced before its last word are served: the
\* end, the failure or the signal that ends listen overtakes no frame.
AnnouncedServed == phase = "ended" => inbox = <<>>

\* A task ends, whatever the server, the local port and the shutdown do,
\* unless its copy starts with a socket that is lost.
TaskEnds ==
  \A t \in Task : pc[t] = "dialing" ~> pc[t] \in {"done", "stuck"} \/ crashed

\* "Sockets currently being proxied, so shutdown can release them": nothing is
\* proxied any more after shutdown.
ShutdownReleases ==
  aborted /\ phase = "ended" =>
    \A t \in Task : ~(pc[t] = "copying" /\ remote[t] = "open" /\ local[t] = "open")
=============================================================================
