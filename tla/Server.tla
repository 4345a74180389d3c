------------------------------- MODULE Server -------------------------------
(***************************************************************************)
(* The bore server (src/src/server.ts): the session that handleConnection  *)
(* runs for every stream accepted on the control port, the registry of     *)
(* tunnel listeners, the map of visitor connections waiting for an Accept  *)
(* and their stale timers, and shutdown.                                   *)
(*                                                                         *)
(* Sessions are tasks of one event loop: a step runs from one await to the *)
(* next, with the promise continuations it settles.  Clients are           *)
(* arbitrary: they may send any message, stay silent, close or reset.      *)
(* What the code delegates (uuid freshness, bind(2), timers) is described  *)
(* at its operator.                                                        *)
(***************************************************************************)
EXTENDS Integers, Sequences

CONSTANTS
  Conn,             \* streams that may be accepted on the control port
  Visitor,          \* connections that may be made to tunnel ports
  Id,               \* the uuids the server may generate
  MinPort, MaxPort, \* PortRange: both bounds belong to the range
  ControlPort,      \* CONTROL_PORT
  SharedAddress,    \* TRUE when bindTunnels and bindAddr cannot both have a port
  Request,          \* ports that Hello messages may ask for; 0 is "any"
  Ephemeral,        \* ports the kernel picks from when asked to bind port 0
  Tries,            \* random ports createListener tries (150)
  Secret,           \* TRUE when the server was given a secret
  Resets,           \* TRUE when visitors may reset their connection
  NoVisitor, NoId

ASSUME PortAssumption ==
  /\ MinPort \in Nat /\ MaxPort \in Nat /\ MinPort =< MaxPort
  /\ ControlPort \in Nat /\ Request \subseteq Nat
  /\ Ephemeral \subseteq Nat
ASSUME TriesAssumption == Tries \in Nat \ {0}
ASSUME FlagAssumption ==
  Secret \in BOOLEAN /\ Resets \in BOOLEAN /\ SharedAddress \in BOOLEAN
ASSUME NoneAssumption == NoVisitor \notin Visitor /\ NoId \notin Id

VARIABLES
  state,      \* "running", "stopped" by shutdown, or "crashed"
  pc,         \* pc[c]: the await at which the session of c is suspended
  link,       \* link[c]: the transport below c, seen from the server
  want,       \* want[c]: the port asked for by the Hello of c
  tries,      \* tries[c]: binds the session of c may still attempt
  lsn,        \* lsn[c]: the tunnel listener of c: "none", "open", "closed"
  port,       \* port[c]: the port that listener is bound to
  queue,      \* queue[c]: TcpListener.queue of that listener
  listeners,  \* Server.listeners, less the control listener
  conns,      \* Server.conns: the visitor stored under each id
  timer,      \* ids whose 10 s stale timer is pending
  expired,    \* ids whose stale timer has fired
  issued,     \* issued[id]: the visitor the id was generated for
  cur,        \* cur[c]: the local `id` of the session of c
  announced,  \* ids of Connection messages whose write has completed
  taken,      \* taken[c]: the local `stream2` of an Accept session
  vis         \* vis[v]: the server's socket of v: "new", "open", "closed"

sessionVars == <<want, tries, cur, taken>>
listenerVars == <<lsn, port, queue, listeners>>
mapVars == <<conns, timer, expired, issued, announced>>
vars == <<state, pc, link, sessionVars, listenerVars, mapVars, vis>>

Serving == {"greeting", "beating", "accepting", "announcing"}
Proxying == {"flushing", "copying"}
Opening == {"challenging", "proving", "receiving", "binding", "refusing"}
Label == {"idle", "done"} \cup Opening \cup Serving \cup Proxying

Init ==
  /\ state = "running"
  /\ pc = [c \in Conn |-> "idle"]
  /\ link = [c \in Conn |-> "up"]
  /\ want = [c \in Conn |-> 0]
  /\ tries = [c \in Conn |-> 0]
  /\ lsn = [c \in Conn |-> "none"]
  /\ port = [c \in Conn |-> 0]
  /\ queue = [c \in Conn |-> <<>>]
  /\ listeners = {}
  /\ conns = [id \in Id |-> NoVisitor]
  /\ timer = {} /\ expired = {}
  /\ issued = [id \in Id |-> NoVisitor]
  /\ cur = [c \in Conn |-> NoId]
  /\ announced = {}
  /\ taken = [c \in Conn |-> NoVisitor]
  /\ vis = [v \in Visitor |-> "new"]

\* The process ends with its first uncaught error event.
Alive == state # "crashed"

\* The session of c runs on to its next await, while there is a process.
Goto(c, label) == Alive /\ pc' = [pc EXCEPT ![c] = label]

(***************************************************************************)
(* The control stream.  A client that closes its socket is seen only by    *)
(* writing: the first write after the close is answered by a reset         *)
(* ("probed"), every write after the reset fails.  A close is taken to     *)
(* happen when the session next depends on it: at one of the Watched       *)
(* awaits.  Elsewhere it is one of the outcomes of the receive or the copy.*)
(***************************************************************************)
Watched == {"challenging", "flushing"} \cup Serving

CanSend(c) == link[c] # "reset"

AfterSend(c) == [link EXCEPT ![c] = IF @ = "gone" THEN "probed" ELSE @]

ClientCloses(c) ==
  /\ Alive /\ link[c] = "up" /\ pc[c] \in Watched
  /\ link' = [link EXCEPT ![c] = "gone"]
  /\ UNCHANGED <<state, pc, sessionVars, listenerVars, mapVars, vis>>

\* intoParts has taken the error listener off the stream and
\* copyBidirectional has not added its own while the session flushes: the
\* error event of the socket is then uncaught and ends the process.
ClientResets(c) ==
  /\ Alive /\ link[c] # "reset" /\ pc[c] \in Watched
  /\ link' = [link EXCEPT ![c] = "reset"]
  /\ state' = IF pc[c] = "flushing" THEN "crashed" ELSE state
  /\ UNCHANGED <<pc, sessionVars, listenerVars, mapVars, vis>>

(***************************************************************************)
(* Opening a session: Server.listen spawns handleConnection, which runs    *)
(* serverHandshake when there is a secret and then waits for one message.  *)
(***************************************************************************)
Connect(c) ==
  /\ state = "running" /\ pc[c] = "idle"
  /\ Goto(c, IF Secret THEN "challenging" ELSE "receiving")
  /\ UNCHANGED <<state, link, sessionVars, listenerVars, mapVars, vis>>

SendChallenge(c) ==
  /\ pc[c] = "challenging"
  /\ link' = AfterSend(c)
  /\ Goto(c, IF CanSend(c) THEN "proving" ELSE "refusing")
  /\ UNCHANGED <<state, sessionVars, listenerVars, mapVars, vis>>

\* The reply validates.
HandshakeOk(c) ==
  /\ pc[c] = "proving"
  /\ Goto(c, "receiving")
  /\ UNCHANGED <<state, link, sessionVars, listenerVars, mapVars, vis>>

\* Mutant: the reply is awaited with recv, not recvTimeout.
HandshakeFailsOnlyOnClose(c) ==
  /\ pc[c] = "proving" /\ link[c] # "up"
  /\ Goto(c, "refusing")
  /\ UNCHANGED <<state, link, sessionVars, listenerVars, mapVars, vis>>

\* Another message, a wrong tag, end of stream, a frame error or 3 s.
HandshakeFails(c) ==
  /\ pc[c] = "proving"
  /\ Goto(c, "refusing")
  /\ UNCHANGED <<state, link, sessionVars, listenerVars, mapVars, vis>>

\* ServerMessage.Error is sent, or fails to be; the session ends either way.
Refuse(c) ==
  /\ pc[c] = "refusing"
  /\ link' = AfterSend(c)
  /\ Goto(c, "done")
  /\ UNCHANGED <<state, sessionVars, listenerVars, mapVars, vis>>

\* recvTimeout: end of stream, Authenticate, a frame error, or 3 s.
RecvNothing(c) ==
  /\ pc[c] = "receiving"
  /\ Goto(c, "done")
  /\ UNCHANGED <<state, link, sessionVars, listenerVars, mapVars, vis>>

(***************************************************************************)
(* Hello: createListener, then the serving loop.                           *)
(***************************************************************************)
InRange(p) == MinPort =< p /\ p =< MaxPort

\* Mutant: any port will do.
RecvHelloUnchecked(c, p) ==
  /\ pc[c] = "receiving"
  /\ Goto(c, "binding")
  /\ want' = [want EXCEPT ![c] = p]
  /\ tries' = [tries EXCEPT ![c] = IF p = 0 THEN Tries ELSE 1]
  /\ UNCHANGED <<state, link, cur, taken, listenerVars, mapVars, vis>>

RecvHello(c, p) ==
  /\ pc[c] = "receiving"
  /\ Goto(c, IF p = 0 \/ InRange(p) THEN "binding" ELSE "refusing")
  /\ want' = [want EXCEPT ![c] = p]
  /\ tries' = [tries EXCEPT ![c] = IF p = 0 THEN Tries ELSE 1]
  /\ UNCHANGED <<state, link, cur, taken, listenerVars, mapVars, vis>>

\* fastrand.u16 draws any port of the range.
Candidate(c) == IF want[c] = 0 THEN MinPort .. MaxPort ELSE {want[c]}

\* bind(2): port 0 is any ephemeral port.
PortsFor(q) == IF q = 0 THEN Ephemeral ELSE {q}

\* A listener of ours has the port: a tunnel, or the control listener while
\* the server runs, if it is bound to the same address (--bind-tunnels).
InUse(p) ==
  \/ state = "running" /\ SharedAddress /\ p = ControlPort
  \/ \E d \in Conn : lsn[d] = "open" /\ port[d] = p

\* Mutant: the new listener is not added to the registry.
BindOkUnregistered(c) ==
  /\ pc[c] = "binding"
  /\ \E q \in Candidate(c) : \E p \in PortsFor(q) :
       ~InUse(p) /\ port' = [port EXCEPT ![c] = p]
  /\ lsn' = [lsn EXCEPT ![c] = "open"]
  /\ Goto(c, "greeting")
  /\ UNCHANGED <<state, link, sessionVars, queue, listeners, mapVars, vis>>

BindOk(c) ==
  /\ pc[c] = "binding"
  /\ \E q \in Candidate(c) : \E p \in PortsFor(q) :
       /\ ~InUse(p)
       /\ port' = [port EXCEPT ![c] = p]
  /\ lsn' = [lsn EXCEPT ![c] = "open"]
  /\ listeners' = listeners \cup {c}
  /\ Goto(c, "greeting")
  /\ UNCHANGED <<state, link, sessionVars, queue, mapVars, vis>>

\* The port belongs to us, to another process, or is not permitted.
BindFails(c) ==
  /\ pc[c] = "binding"
  /\ tries' = [tries EXCEPT ![c] = @ - 1]
  /\ Goto(c, IF tries[c] = 1 THEN "refusing" ELSE "binding")
  /\ UNCHANGED <<state, link, want, cur, taken, listenerVars, mapVars, vis>>

Queued(c) == {queue[c][i] : i \in DOMAIN queue[c]}

\* TcpListener.close of the listeners of C: their queued sockets go too.
CloseListeners(C) ==
  /\ lsn' = [c \in Conn |-> IF c \in C THEN "closed" ELSE lsn[c]]
  /\ queue' = [c \in Conn |-> IF c \in C THEN <<>> ELSE queue[c]]

\* Mutant: the queued connections are dropped from the queue only.
FinallyLeaves(c) ==
  /\ listeners' = listeners \ {c}
  /\ CloseListeners({c})
  /\ Goto(c, "done")
  /\ UNCHANGED vis

\* The finally block of the serving loop.
Finally(c) ==
  /\ listeners' = listeners \ {c}
  /\ CloseListeners({c})
  /\ vis' = [v \in Visitor |-> IF v \in Queued(c) THEN "closed" ELSE vis[v]]
  /\ Goto(c, "done")

SendHello(c) ==
  /\ pc[c] = "greeting" /\ CanSend(c)
  /\ link' = AfterSend(c)
  /\ Goto(c, "beating")
  /\ UNCHANGED <<state, sessionVars, listenerVars, mapVars, vis>>

\* Mutant: a failed heartbeat is ignored.
SendFailsIgnored(c) ==
  /\ pc[c] \in {"greeting", "beating", "announcing"} /\ ~CanSend(c)
  /\ Goto(c, IF pc[c] = "beating" THEN "accepting" ELSE "beating")
  /\ UNCHANGED <<state, link, sessionVars, listenerVars, mapVars, vis>>

\* Whichever message of the serving loop cannot be written, the loop ends.
SendFails(c) ==
  /\ pc[c] \in {"greeting", "beating", "announcing"} /\ ~CanSend(c)
  /\ Finally(c)
  /\ UNCHANGED <<state, link, sessionVars, port, mapVars>>

\* Mutant: the entry and its timer are left for after the send, so that during
\* the await the client may have the id and the map does not.
AdmitUnstored(c, v) ==
  \E id \in Id :
    /\ issued[id] = NoVisitor
    /\ issued' = [issued EXCEPT ![id] = v]
    /\ cur' = [cur EXCEPT ![c] = id]
    /\ Goto(c, "announcing")
    /\ UNCHANGED <<conns, timer, expired, announced>>

\* A connection was accepted: a fresh uuid, its entry and its stale timer.
Admit(c, v) ==
  \E id \in Id :
    /\ issued[id] = NoVisitor
    /\ issued' = [issued EXCEPT ![id] = v]
    /\ conns' = [conns EXCEPT ![id] = v]
    /\ timer' = timer \cup {id}
    /\ cur' = [cur EXCEPT ![c] = id]
    /\ Goto(c, "announcing")
    /\ UNCHANGED <<expired, announced>>

\* Heartbeat sent, listener.accept() finds nothing queued and waits 500 ms.
HeartbeatThenWait(c) ==
  /\ pc[c] = "beating" /\ CanSend(c) /\ queue[c] = <<>>
  /\ link' = AfterSend(c)
  /\ Goto(c, "accepting")
  /\ UNCHANGED <<state, sessionVars, listenerVars, mapVars, vis>>

\* Mutant: accept() waits without looking at the queue.
HeartbeatThenIgnore(c) ==
  /\ pc[c] = "beating" /\ CanSend(c) /\ queue[c] # <<>>
  /\ link' = AfterSend(c)
  /\ Goto(c, "accepting")
  /\ UNCHANGED <<state, sessionVars, listenerVars, mapVars, vis>>

\* Heartbeat sent, listener.accept() takes the oldest queued connection.
HeartbeatThenTake(c) ==
  /\ pc[c] = "beating" /\ CanSend(c) /\ queue[c] # <<>>
  /\ link' = AfterSend(c)
  /\ Admit(c, Head(queue[c]))
  /\ queue' = [queue EXCEPT ![c] = Tail(@)]
  /\ UNCHANGED <<state, want, tries, taken, lsn, port, listeners, vis>>

AcceptTimeout(c) ==
  /\ pc[c] = "accepting"
  /\ Goto(c, "beating")
  /\ UNCHANGED <<state, link, sessionVars, listenerVars, mapVars, vis>>

\* A connection event with no accept() waiting is queued.
ArriveQueued(v, c) ==
  /\ Alive
  /\ vis[v] = "new" /\ lsn[c] = "open" /\ pc[c] # "accepting"
  /\ vis' = [vis EXCEPT ![v] = "open"]
  /\ queue' = [queue EXCEPT ![c] = Append(@, v)]
  /\ UNCHANGED <<state, pc, link, sessionVars, lsn, port, listeners, mapVars>>

\* A connection event resolves the accept() that is waiting.
ArriveAccepted(v, c) ==
  /\ vis[v] = "new" /\ lsn[c] = "open" /\ pc[c] = "accepting"
  /\ vis' = [vis EXCEPT ![v] = "open"]
  /\ Admit(c, v)
  /\ UNCHANGED <<state, link, want, tries, taken, listenerVars>>

Announce(c) ==
  /\ pc[c] = "announcing" /\ CanSend(c)
  /\ link' = AfterSend(c)
  /\ announced' = announced \cup {cur[c]}
  /\ cur' = [cur EXCEPT ![c] = NoId]
  /\ Goto(c, "beating")
  /\ UNCHANGED <<state, want, tries, taken, listenerVars, conns, timer, expired,
                 issued, vis>>

\* The detached task: after 10 s the entry is deleted; its socket is left.
Expire(id) ==
  /\ Alive /\ id \in timer
  /\ timer' = timer \ {id} /\ expired' = expired \cup {id}
  /\ conns' = [conns EXCEPT ![id] = NoVisitor]
  /\ UNCHANGED <<state, pc, link, sessionVars, listenerVars, issued, announced,
                 vis>>

(***************************************************************************)
(* Accept: the session becomes the proxy of the connection it names.       *)
(***************************************************************************)

\* Mutant: the entry is read and not deleted.
RecvAcceptKeeps(c, id) ==
  /\ pc[c] = "receiving" /\ conns[id] # NoVisitor
  /\ taken' = [taken EXCEPT ![c] = conns[id]]
  /\ \E label \in Proxying : Goto(c, label)
  /\ UNCHANGED <<state, link, want, tries, cur, listenerVars, mapVars, vis>>

RecvAccept(c, id) ==
  /\ pc[c] = "receiving" /\ conns[id] # NoVisitor
  /\ conns' = [conns EXCEPT ![id] = NoVisitor]
  /\ taken' = [taken EXCEPT ![c] = conns[id]]
  /\ \E label \in Proxying : Goto(c, label)  \* is readBuf empty?
  /\ UNCHANGED <<state, link, want, tries, cur, listenerVars, timer, expired,
                 issued, announced, vis>>

RecvUnknownAccept(c, id) ==
  /\ pc[c] = "receiving" /\ conns[id] = NoVisitor
  /\ Goto(c, "done")
  /\ UNCHANGED <<state, link, sessionVars, listenerVars, mapVars, vis>>

Flushed(c) ==
  /\ pc[c] = "flushing"
  /\ Goto(c, "copying")
  /\ UNCHANGED <<state, link, sessionVars, listenerVars, mapVars, vis>>

\* copyBidirectional resolved or rejected: both streams are dropped.
CopyEnds(c) ==
  /\ pc[c] = "copying"
  /\ vis' = [vis EXCEPT ![taken[c]] = "closed"]
  /\ Goto(c, "done")
  /\ UNCHANGED <<state, link, sessionVars, listenerVars, mapVars>>

(***************************************************************************)
(* Shutdown closes the registered listeners, whose pending accept() calls  *)
(* reject and end their sessions, and destroys the stored connections.     *)
(***************************************************************************)
Stored == {conns[id] : id \in Id} \ {NoVisitor}

\* Mutant: the stored connections are destroyed and the map not cleared.
ShutdownUncleared ==
  /\ state = "running"
  /\ state' = "stopped"
  /\ CloseListeners(listeners)
  /\ listeners' = {}
  /\ pc' = [c \in Conn |-> IF c \in listeners /\ pc[c] = "accepting"
                           THEN "done" ELSE pc[c]]
  /\ vis' = [v \in Visitor |->
               IF v \in Stored \/ \E c \in listeners : v \in Queued(c)
               THEN "closed" ELSE vis[v]]
  /\ UNCHANGED <<link, sessionVars, port, mapVars>>

Shutdown ==
  /\ state = "running"
  /\ state' = "stopped"
  /\ CloseListeners(listeners)
  /\ listeners' = {}
  /\ pc' = [c \in Conn |-> IF c \in listeners /\ pc[c] = "accepting"
                           THEN "done" ELSE pc[c]]
  /\ vis' = [v \in Visitor |->
               IF v \in Stored \/ \E c \in listeners : v \in Queued(c)
               THEN "closed" ELSE vis[v]]
  /\ conns' = [id \in Id |-> NoVisitor]
  /\ UNCHANGED <<link, sessionVars, port, timer, expired, issued, announced>>

\* A visitor's socket has an error listener only while it is being copied;
\* a reset at any other time is an uncaught error event.
VisitorResets(v) ==
  /\ Alive /\ Resets /\ vis[v] = "open"
  /\ ~\E c \in Conn : pc[c] = "copying" /\ taken[c] = v
  /\ state' = "crashed"
  /\ UNCHANGED <<pc, link, sessionVars, listenerVars, mapVars, vis>>

\* Messages of the client that the session waits for.
ClientStep(c) ==
  \/ HandshakeOk(c)
  \/ \E p \in Request : RecvHello(c, p)
  \/ \E id \in Id : RecvAccept(c, id) \/ RecvUnknownAccept(c, id)

\* The steps the event loop owes a session: each await is bounded by a
\* timeout or by a write completing.
SessionStep(c) ==
  \/ SendChallenge(c) \/ HandshakeFails(c) \/ Refuse(c) \/ RecvNothing(c)
  \/ BindOk(c) \/ BindFails(c) \/ SendHello(c) \/ SendFails(c)
  \/ HeartbeatThenWait(c) \/ HeartbeatThenTake(c) \/ AcceptTimeout(c)
  \/ Announce(c) \/ Flushed(c)

Environment ==
  \/ \E c \in Conn : \/ Connect(c) \/ ClientStep(c) \/ CopyEnds(c)
                     \/ ClientCloses(c) \/ ClientResets(c)
  \/ \E v \in Visitor : VisitorResets(v)
  \/ \E v \in Visitor, c \in Conn : ArriveQueued(v, c) \/ ArriveAccepted(v, c)

Next ==
  \/ \E c \in Conn : SessionStep(c)
  \/ \E id \in Id : Expire(id)
  \/ Environment
  \/ Shutdown

Spec == Init /\ [][Next]_vars

\* Timeouts and completed writes drive every session; timers fire; a client
\* that closed answers the next write with a reset.  Nothing is assumed of
\* visitors, of what clients send, or of how long a copy lasts.
Fairness ==
  /\ \A c \in Conn : WF_vars(SessionStep(c))
  /\ \A c \in Conn : WF_vars(link[c] = "probed" /\ ClientResets(c))
  /\ \A id \in Id : WF_vars(Expire(id))

FairSpec == Spec /\ Fairness

-----------------------------------------------------------------------------
(* Properties *)

\* The types of the variables.  In particular a session never attempts more
\* binds than createListener's loop allows.
TypeOK ==
  /\ state \in {"running", "stopped", "crashed"}
  /\ pc \in [Conn -> Label]
  /\ link \in [Conn -> {"up", "gone", "probed", "reset"}]
  /\ want \in [Conn -> Nat]
  /\ tries \in [Conn -> 0 .. Tries]
  /\ lsn \in [Conn -> {"none", "open", "closed"}]
  /\ port \in [Conn -> Nat]
  /\ queue \in [Conn -> Seq(Visitor)]
  /\ listeners \in SUBSET Conn
  /\ conns \in [Id -> Visitor \cup {NoVisitor}]
  /\ timer \in SUBSET Id /\ expired \in SUBSET Id
  /\ issued \in [Id -> Visitor \cup {NoVisitor}]
  /\ cur \in [Conn -> Id \cup {NoId}]
  /\ announced \in SUBSET Id
  /\ \A c \in Conn : /\ pc[c] = "announcing" => cur[c] \in Id
                     /\ pc[c] = "binding" => tries[c] > 0
  /\ taken \in [Conn -> Visitor \cup {NoVisitor}]
  /\ vis \in [Visitor -> {"new", "open", "closed"}]

Takes(c, v) == pc[c] \in Proxying /\ taken[c] = v

\* A visitor's socket is referred to from one place: one position of one
\* listener's queue, or one entry of conns, or one proxying session.  Two
\* Accepts of one id, or an accept() that leaves the queue alone, would
\* connect one visitor to two clients.
QueuedOnce ==
  \A c, d \in Conn : \A i \in DOMAIN queue[c], j \in DOMAIN queue[d] :
    queue[c][i] = queue[d][j] => c = d /\ i = j
StoredOnce ==
  \A id, jd \in Id : conns[id] # NoVisitor /\ conns[id] = conns[jd] => id = jd
TakenOnce ==
  \A c, d \in Conn, v \in Visitor : Takes(c, v) /\ Takes(d, v) => c = d
Apart ==
  \A c \in Conn :
    /\ \A i \in DOMAIN queue[c] :
         /\ \A id \in Id : conns[id] # queue[c][i]
         /\ \A d \in Conn : ~Takes(d, queue[c][i])
    /\ \A id \in Id : conns[id] # NoVisitor => ~Takes(c, conns[id])
SingleOwner == QueuedOnce /\ StoredOnce /\ TakenOnce /\ Apart

\* No socket is destroyed under the queue, the map or the proxy that still
\* refers to it: shutdown and close() take out what they destroy.
HeldIsOpen ==
  /\ \A c \in Conn : \A i \in DOMAIN queue[c] : vis[queue[c][i]] = "open"
  /\ \A id \in Id : conns[id] # NoVisitor => vis[conns[id]] = "open"
  /\ \A c \in Conn, v \in Visitor : Takes(c, v) => vis[v] = "open"

\* Every stored connection has its stale timer pending, and is stored under
\* the id that was generated for it.
StoredIsTimed ==
  \A id \in Id : conns[id] # NoVisitor => id \in timer /\ conns[id] = issued[id]

Held(v) ==
  \/ v \in Stored
  \/ \E c \in Conn : v \in Queued(c) \/ Takes(c, v)

\* The only way the server forgets a socket that is still open is the stale
\* timer: finally blocks, close() and shutdown destroy what they let go of.
OnlyExpiryForgets ==
  \A v \in Visitor : vis[v] = "open" /\ ~Held(v) =>
    \E id \in expired : issued[id] = v

\* The ids that a client may know of: a Connection message can arrive, and its
\* Accept come back, while the await of its send is still pending.
Sent == announced \cup {cur[c] : c \in {d \in Conn : pc[d] = "announcing"}}

\* An id that a client may know of finds its connection until somebody accepts
\* it, its 10 s have passed, or shutdown destroys it: the entry is stored before
\* the Connection message leaves, and neither the failure of its send nor the
\* end of the announcing session removes it.
AnnouncedIsFound ==
  \A id \in Sent \ expired :
    \/ conns[id] = issued[id]
    \/ \E c \in Conn : taken[c] = issued[id]
    \/ vis[issued[id]] = "closed"

\* Server.listeners is exactly the set of open tunnel listeners, so that
\* shutdown has them all in hand.
RegistryExact == listeners = {c \in Conn : lsn[c] = "open"}

\* A tunnel listens on the port that its Hello asked for, and only if that is in
\* the operator's range; one that asked for none listens in the range, however
\* many binds it took, except that in a range that starts at 0 the candidate 0 is
\* "any port" to the kernel.
PortAllowed ==
  \A c \in Conn : lsn[c] = "open" =>
    /\ want[c] # 0 => InRange(want[c]) /\ port[c] = want[c]
    /\ want[c] = 0 => InRange(port[c]) \/ (MinPort = 0 /\ port[c] \in Ephemeral)

\* No socket outlives every reference to it: what is discarded is closed.
NothingForgotten == \A v \in Visitor : vis[v] = "open" => Held(v)

\* A client that is gone loses its tunnel: heartbeats provoke the reset and
\* the failing write ends the serving loop.
DeadClientReleased ==
  \A c \in Conn :
    lsn[c] = "open" /\ link[c] # "up" ~> lsn[c] # "open" \/ state = "crashed"

\* A queued visitor is announced or destroyed: an accept() that timed out
\* loses no connection, and the serving loop returns to accept().
QueueDrains ==
  \A c \in Conn, v \in Visitor :
    v \in Queued(c) ~> v \notin Queued(c) \/ state = "crashed"

\* A client that says nothing, or says it late, cannot keep a session open
\* without a tunnel: every await before the serving loop is bounded.
OpeningEnds ==
  \A c \in Conn :
    pc[c] \in Opening ~> pc[c] \notin Opening \/ state = "crashed"
=============================================================================
