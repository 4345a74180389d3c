-------------------------------- MODULE Bore --------------------------------
(***************************************************************************)
(* A client and a server of bore around one tunnel: the serving loop of    *)
(* the control session and the sessions of the streams that carry Accept   *)
(* (src/src/server.ts), the control loop and the tasks of the client       *)
(* (src/src/client.ts), and the end of the client's process                *)
(* (src/src/main.ts).  The control connection is open from the start: what *)
(* comes before is in Auth.  Queue and accept() are one queue here (Backlog *)
(* promises no less), a handshake and a copy are steps with the outcomes   *)
(* that Auth and CopyBidirectional allow.                                  *)
(*                                                                         *)
(* A behaviour that is steady has no losses, deaths, refusals or late      *)
(* messages; in the others each of them may come at any moment.            *)
(***************************************************************************)
EXTENDS Integers, Sequences

CONSTANTS
  Visitor,  \* connections made to the tunnel port, in the order they arrive
  Id,       \* the uuids the server generates, in the order it does
  NoVisitor, NoId

ASSUME NumberAssumption == Visitor \subseteq Nat /\ Id \subseteq Nat
ASSUME NoneAssumption == NoVisitor \notin Visitor /\ NoId \notin Id

VARIABLES
  steady,
  server,   \* the server's process: "up", "dead"
  client,   \* the client's process
  link,     \* the control connection: "up", "ended" by the server's death,
            \* "gone" with the client, "lost" to a reset
  control,  \* Connection messages on their way to the client
  loop,     \* the session of the control connection: "beating",
            \* "announcing", "done"
  queue,    \* connections of the tunnel listener not accepted yet
  conns, timer, issued, cur,  \* as in Server
  vis,      \* vis[v]: the server's socket: "new", "open", "closed"
  left,     \* visitors that have ended their half
  task,     \* task[id]: the await of the client's task; "stuck" is a copy
            \* that started with a stream lost
  ended,    \* ids whose local service has ended its half
  accept,   \* ids whose Accept message is on its way
  session,  \* session[id]: the server's session of the stream of that task:
            \* "none", "receiving", "proxying", "done"
  taken     \* taken[id]: its stream2

processVars == <<steady, server, client>>
linkVars == <<link, control>>
loopVars == <<loop, queue, cur>>
mapVars == <<conns, timer, issued>>
visitorVars == <<vis, left>>
taskVars == <<task, ended>>
sessionVars == <<accept, session, taken>>
vars == <<processVars, linkVars, loopVars, mapVars, visitorVars, taskVars,
          sessionVars>>

Init ==
  /\ steady \in BOOLEAN /\ server = "up" /\ client = "up"
  /\ link = "up" /\ control = <<>>
  /\ loop = "beating" /\ queue = <<>> /\ cur = NoId
  /\ conns = [id \in Id |-> NoVisitor] /\ timer = {}
  /\ issued = [id \in Id |-> NoVisitor]
  /\ vis = [v \in Visitor |-> "new"] /\ left = {}
  /\ task = [id \in Id |-> "none"] /\ ended = {}
  /\ accept = {} /\ session = [id \in Id |-> "none"]
  /\ taken = [id \in Id |-> NoVisitor]

Queued == {queue[i] : i \in DOMAIN queue}
Stored == {conns[id] : id \in Id} \ {NoVisitor}

\* A reset loses the end of what was on its way.
Reset(l) ==
  /\ link' = l
  /\ IF l = "lost" THEN \E n \in 0 .. Len(control) : control' = SubSeq(control, 1, n)
                   ELSE UNCHANGED control

-----------------------------------------------------------------------------
(* Visitors and the local service. *)

Arrive(v) ==
  /\ server = "up" /\ loop # "done"
  /\ vis[v] = "new" /\ \A w \in Visitor : w < v => vis[w] # "new"
  /\ vis' = [vis EXCEPT ![v] = "open"]
  /\ queue' = Append(queue, v)
  /\ UNCHANGED <<processVars, linkVars, loop, cur, mapVars, left, taskVars,
                 sessionVars>>

VisitorEnds(v) ==
  /\ vis[v] = "open" /\ v \notin left
  /\ left' = left \cup {v}
  /\ UNCHANGED <<processVars, linkVars, loopVars, mapVars, vis, taskVars,
                 sessionVars>>

LocalEnds(id) ==
  /\ task[id] = "copying" /\ id \notin ended
  /\ ended' = ended \cup {id}
  /\ UNCHANGED <<processVars, linkVars, loopVars, mapVars, visitorVars, task,
                 sessionVars>>

-----------------------------------------------------------------------------
(* The serving loop of the server and the stale timers. *)

\* A uuid is generated once.
Fresh(id) ==
  issued[id] = NoVisitor /\ \A j \in Id : j < id => issued[j] # NoVisitor

\* Mutant: the connection is looked at, not taken out of the queue.
TakeKeeps(id) ==
  /\ loop = "beating" /\ link # "lost" /\ queue # <<>> /\ Fresh(id)
  /\ conns' = [conns EXCEPT ![id] = Head(queue)]
  /\ issued' = [issued EXCEPT ![id] = Head(queue)]
  /\ timer' = timer \cup {id} /\ cur' = id /\ loop' = "announcing"
  /\ UNCHANGED <<processVars, linkVars, queue, visitorVars, taskVars, sessionVars>>

\* Mutant: the connection is announced and never stored.
TakeUnstored(id) ==
  /\ loop = "beating" /\ link # "lost" /\ queue # <<>> /\ Fresh(id)
  /\ issued' = [issued EXCEPT ![id] = Head(queue)]
  /\ timer' = timer \cup {id} /\ cur' = id /\ loop' = "announcing"
  /\ queue' = Tail(queue)
  /\ UNCHANGED <<processVars, linkVars, conns, visitorVars, taskVars, sessionVars>>

\* A heartbeat is written and accept() yields a connection.
Take(id) ==
  /\ loop = "beating" /\ link # "lost" /\ queue # <<>> /\ Fresh(id)
  /\ conns' = [conns EXCEPT ![id] = Head(queue)]
  /\ issued' = [issued EXCEPT ![id] = Head(queue)]
  /\ timer' = timer \cup {id} /\ cur' = id /\ loop' = "announcing"
  /\ queue' = Tail(queue)
  /\ UNCHANGED <<processVars, linkVars, visitorVars, taskVars, sessionVars>>

\* What is written to a client that is gone arrives nowhere.
Announce ==
  /\ loop = "announcing" /\ link # "lost"
  /\ control' = IF link = "up" THEN Append(control, cur) ELSE control
  /\ loop' = "beating" /\ cur' = NoId
  /\ UNCHANGED <<processVars, link, queue, mapVars, visitorVars, taskVars,
                 sessionVars>>

\* A write fails: the session closes its listener and ends.
LoopEnds ==
  /\ loop # "done" /\ link \in {"gone", "lost"}
  /\ loop' = "done" /\ queue' = <<>> /\ cur' = NoId
  /\ vis' = [v \in Visitor |-> IF v \in Queued THEN "closed" ELSE vis[v]]
  /\ UNCHANGED <<processVars, linkVars, mapVars, left, taskVars, sessionVars>>

\* The 10 seconds are enough when nothing is late.
Expire(id) ==
  /\ id \in timer /\ (steady => conns[id] = NoVisitor)
  /\ timer' = timer \ {id}
  /\ conns' = [conns EXCEPT ![id] = NoVisitor]
  /\ UNCHANGED <<processVars, linkVars, loopVars, issued, visitorVars, taskVars,
                 sessionVars>>

-----------------------------------------------------------------------------
(* The sessions of the streams that client tasks open. *)

\* An entry that is found is taken; without one the stream is dropped.
RecvAccept(id) ==
  /\ session[id] = "receiving" /\ id \in accept
  /\ accept' = accept \ {id}
  /\ taken' = [taken EXCEPT ![id] = conns[id]]
  /\ session' = [session EXCEPT ![id] =
                   IF conns[id] = NoVisitor THEN "done" ELSE "proxying"]
  /\ conns' = [conns EXCEPT ![id] = NoVisitor]
  /\ UNCHANGED <<processVars, linkVars, loopVars, timer, issued, visitorVars,
                 taskVars>>

\* The end of the stream, a refused handshake, or 3 s without a message.
SessionEnds(id) ==
  /\ session[id] = "receiving"
  /\ ~steady \/ (task[id] = "done" /\ id \notin accept)
  /\ session' = [session EXCEPT ![id] = "done"]
  /\ UNCHANGED <<processVars, linkVars, loopVars, mapVars, visitorVars, taskVars,
                 accept, taken>>

Drop(id) ==
  /\ session' = [session EXCEPT ![id] = "done"]
  /\ vis' = [vis EXCEPT ![taken[id]] = "closed"]
  /\ UNCHANGED <<processVars, linkVars, loopVars, mapVars, left, taskVars,
                 accept, taken>>

\* copyBidirectional: both halves are over.  The end that is sent to a stream
\* which the client has lost is answered by a reset.
ProxyEnds(id) ==
  /\ session[id] = "proxying" /\ taken[id] \in left
  /\ task[id] \in {"stuck", "done"} \/ id \in ended
  /\ Drop(id)

\* A socket is lost, or what the visitor sends meets a stream whose task is over.
ProxyLost(id) ==
  /\ session[id] = "proxying" /\ (~steady \/ task[id] = "done")
  /\ Drop(id)

-----------------------------------------------------------------------------
(* The client. *)

Goes(id, from, to) == task[id] \in from /\ task' = [task EXCEPT ![id] = to]

\* Mutant: the client serves one connection at a time and ignores the rest.
RecvConnectionWhenIdle ==
  /\ client = "up" /\ control # <<>>
  /\ control' = Tail(control)
  /\ IF \A id \in Id : task[id] \in {"none", "done"}
     THEN Goes(Head(control), {"none"}, "dialing") ELSE UNCHANGED task
  /\ UNCHANGED <<processVars, link, loopVars, mapVars, visitorVars, ended,
                 sessionVars>>

\* Client.listen starts a task for a Connection message.
RecvConnection ==
  /\ client = "up" /\ control # <<>>
  /\ control' = Tail(control)
  /\ Goes(Head(control), {"none"}, "dialing")
  /\ UNCHANGED <<processVars, link, loopVars, mapVars, visitorVars, ended,
                 sessionVars>>

\* The control port accepts, and the handshake succeeds.
Dialed(id) ==
  /\ server = "up" /\ Goes(id, {"dialing"}, "announcing")
  /\ session' = [session EXCEPT ![id] = "receiving"]
  /\ UNCHANGED <<processVars, linkVars, loopVars, mapVars, visitorVars, ended,
                 accept, taken>>

SendAccept(id) ==
  /\ Goes(id, {"announcing"}, "dialingLocal")
  /\ accept' = accept \cup {id}
  /\ UNCHANGED <<processVars, linkVars, loopVars, mapVars, visitorVars, ended,
                 session, taken>>

\* A reset of the stream during the dial is noted by Delimited and by nobody
\* else: the copy attached to it hears neither its end nor its close.
LocalConnected(id) ==
  /\ \/ Goes(id, {"dialingLocal"}, "copying")
     \/ ~steady /\ Goes(id, {"dialingLocal"}, "stuck")
  /\ UNCHANGED <<processVars, linkVars, loopVars, mapVars, visitorVars, ended,
                 sessionVars>>

\* A dial, the handshake or the write fails: the finally block.
TaskFails(id) ==
  /\ ~steady /\ Goes(id, {"dialing", "announcing", "dialingLocal"}, "done")
  /\ UNCHANGED <<processVars, linkVars, loopVars, mapVars, visitorVars, ended,
                 sessionVars>>

\* Mutant: the server drops only the streams that it has proxied.
StreamEndedIfProxied(id) ==
  taken[id] # NoVisitor /\ (session[id] = "done" \/ taken[id] \in left)

\* The server's half of the stream is over.
StreamEnded(id) == session[id] = "done" \/ (session[id] = "proxying" /\ taken[id] \in left)

CopyEnds(id) ==
  /\ Goes(id, {"copying"}, "done") /\ id \in ended /\ StreamEnded(id)
  /\ UNCHANGED <<processVars, linkVars, loopVars, mapVars, visitorVars, ended,
                 sessionVars>>

\* A socket is lost, or what the service sends meets a stream that was dropped.
\* A reset of the local socket rejects the copy that is stuck, too.
CopyLost(id) ==
  /\ Goes(id, {"copying", "stuck"}, "done") /\ (~steady \/ session[id] = "done")
  /\ UNCHANGED <<processVars, linkVars, loopVars, mapVars, visitorVars, ended,
                 sessionVars>>

-----------------------------------------------------------------------------
(* What may happen to the processes and to the control connection. *)

\* Every socket of the process is closed by the kernel.
ClientEnds ==
  /\ client' = "dead"
  /\ link' = IF link = "up" THEN "gone" ELSE link
  /\ task' = [id \in Id |-> IF task[id] = "none" THEN "none" ELSE "done"]
  /\ UNCHANGED <<steady, server, control, loopVars, mapVars, visitorVars, ended,
                 sessionVars>>

ClientDies == client = "up" /\ ~steady /\ ClientEnds

\* listen throws, and main exits: the tasks go with the process.  When the
\* server has ended the stream listen returns, and they go on.
Exits == client = "up" /\ link = "lost" /\ control = <<>> /\ ClientEnds

ServerDies ==
  /\ server = "up" /\ ~steady /\ server' = "dead"
  /\ \E l \in IF link = "up" THEN {"ended", "lost"} ELSE {link} : Reset(l)
  /\ loop' = "done" /\ queue' = <<>> /\ cur' = NoId
  /\ conns' = [id \in Id |-> NoVisitor] /\ timer' = {}
  /\ vis' = [v \in Visitor |-> IF vis[v] = "open" THEN "closed" ELSE vis[v]]
  /\ session' = [id \in Id |-> IF session[id] = "none" THEN "none" ELSE "done"]
  /\ UNCHANGED <<steady, client, issued, left, taskVars, accept, taken>>

LinkLost ==
  /\ link = "up" /\ ~steady /\ Reset("lost")
  /\ UNCHANGED <<processVars, loopVars, mapVars, visitorVars, taskVars, sessionVars>>

-----------------------------------------------------------------------------
TaskStep(id) ==
  Dialed(id) \/ SendAccept(id) \/ LocalConnected(id) \/ TaskFails(id)
LoopStep == Announce \/ \E id \in Id : Take(id)

Next ==
  \/ \E v \in Visitor : Arrive(v) \/ VisitorEnds(v)
  \/ \E id \in Id :
       \/ Expire(id) \/ RecvAccept(id) \/ SessionEnds(id)
       \/ ProxyEnds(id) \/ ProxyLost(id)
       \/ TaskStep(id) \/ LocalEnds(id) \/ CopyEnds(id) \/ CopyLost(id)
  \/ LoopStep \/ LoopEnds \/ RecvConnection
  \/ ClientDies \/ Exits \/ ServerDies \/ LinkLost

\* Timers fire, what was sent arrives or is lost, and both ends of a proxied
\* connection come to the end of what they send.
Fairness ==
  /\ \A v \in Visitor : WF_vars(VisitorEnds(v))
  /\ \A id \in Id :
       /\ WF_vars(Expire(id)) /\ WF_vars(RecvAccept(id)) /\ WF_vars(SessionEnds(id))
       /\ WF_vars(ProxyEnds(id)) /\ WF_vars(TaskStep(id))
       /\ WF_vars(LocalEnds(id)) /\ WF_vars(CopyEnds(id))
  /\ WF_vars(LoopStep) /\ WF_vars(LoopEnds) /\ WF_vars(RecvConnection)
  /\ WF_vars(Exits)

Spec == Init /\ [][Next]_vars /\ Fairness

-----------------------------------------------------------------------------
(* Properties *)

TypeOK ==
  /\ steady \in BOOLEAN /\ server \in {"up", "dead"} /\ client \in {"up", "dead"}
  /\ link \in {"up", "ended", "gone", "lost"} /\ control \in Seq(Id)
  /\ loop \in {"beating", "announcing", "done"} /\ queue \in Seq(Visitor)
  /\ cur \in Id \cup {NoId} /\ (loop = "announcing" => cur \in Id)
  /\ conns \in [Id -> Visitor \cup {NoVisitor}] /\ timer \in SUBSET Id
  /\ issued \in [Id -> Visitor \cup {NoVisitor}]
  /\ vis \in [Visitor -> {"new", "open", "closed"}] /\ left \in SUBSET Visitor
  /\ task \in [Id -> {"none", "dialing", "announcing", "dialingLocal", "copying",
                    "stuck", "done"}]
  /\ ended \in SUBSET Id /\ accept \in SUBSET Id
  /\ session \in [Id -> {"none", "receiving", "proxying", "done"}]
  /\ taken \in [Id -> Visitor \cup {NoVisitor}]
  /\ \A id \in Id : session[id] = "proxying" => taken[id] # NoVisitor

Waiting(v) == v \in Queued \/ v \in Stored
Proxied(v) == \E id \in Id : session[id] = "proxying" /\ taken[id] = v

\* The visitor as the abstract tunnel sees it.
Stage(v) ==
  CASE vis[v] = "new" -> "new"
    [] vis[v] = "closed" -> "over"
    [] vis[v] = "open" /\ Waiting(v) -> "waiting"
    [] vis[v] = "open" /\ ~Waiting(v) /\ Proxied(v) -> "joined"
    [] OTHER -> "forgotten"

Promise == INSTANCE Tunnel WITH
  Local <- Id,
  stage <- [v \in Visitor |-> Stage(v)],
  partners <- [v \in Visitor |-> {id \in Id : taken[id] = v}]

\* Client and server together implement the tunnel: whatever dies, is lost or
\* comes late, a visitor is served by one local connection of its own, once,
\* and one that was given up or closed is not served any more.
Implements == Promise!Spec

\* In a steady behaviour the client connects to the local service for no id
\* whose visitor the server does not have for it: stored until the Accept on
\* its way arrives, and proxied after that.
LocalServesVisitor ==
  steady => \A id \in Id :
    task[id] \notin {"none", "done"} =>
      \/ conns[id] # NoVisitor /\ conns[id] = issued[id] /\ session[id] \in {"none", "receiving"}
      \/ session[id] = "proxying" /\ taken[id] = issued[id]
      \/ session[id] = "done" /\ taken[id] \in left

Joined(id, v) == session[id] = "proxying" /\ taken[id] = v /\ task[id] = "copying"

\* In a steady behaviour every visitor reaches the local service.
Served ==
  \A v \in Visitor : steady /\ Waiting(v) ~> \E id \in Id : Joined(id, v)

\* Nothing hangs, whatever dies or is lost: a waiting visitor is served, closed
\* or given up, and neither side of a proxied connection survives the other.
\* The exception is the code's own: a task whose stream was reset while it
\* dialled the local port, which only happens when something is lost, may keep
\* its local connection for as long as that one lives.
NothingHangs ==
  /\ \A v \in Visitor : Waiting(v) ~> ~Waiting(v)
  /\ \A id \in Id :
       /\ session[id] # "none" ~> session[id] = "done"
       /\ task[id] # "none" ~> task[id] = "done" \/ (task[id] = "stuck" /\ ~steady)
=============================================================================
