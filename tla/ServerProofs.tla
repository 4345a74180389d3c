---------------------------- MODULE ServerProofs ----------------------------
(***************************************************************************)
(* Safety of the server for any number of clients, visitors and ids: its   *)
(* types, the ownership of the visitors' sockets, the registry of          *)
(* listeners and their ports.                                              *)
(***************************************************************************)
EXTENDS Server, TLAPS

LEMMA TypeInit == Init => TypeOK
  BY PortAssumption, TriesAssumption, NoneAssumption
  DEF Init, TypeOK, Label, Opening, Serving, Proxying

\* What pushing, shifting and emptying do to a queue.
LEMMA AppendFacts ==
  ASSUME NEW s \in Seq(Visitor), NEW v \in Visitor
  PROVE  /\ Append(s, v) \in Seq(Visitor)
         /\ DOMAIN Append(s, v) = DOMAIN s \cup {Len(s) + 1}
         /\ Len(s) + 1 \notin DOMAIN s
         /\ Append(s, v)[Len(s) + 1] = v
         /\ \A i \in DOMAIN s : Append(s, v)[i] = s[i] /\ s[i] \in Visitor
  OBVIOUS

LEMMA TailFacts ==
  ASSUME NEW s \in Seq(Visitor), s # <<>>
  PROVE  /\ Tail(s) \in Seq(Visitor)
         /\ Head(s) \in Visitor
         /\ 1 \in DOMAIN s /\ s[1] = Head(s)
         /\ \A i \in DOMAIN Tail(s) :
              i \in Nat /\ i >= 1 /\ i + 1 \in DOMAIN s /\ Tail(s)[i] = s[i + 1]
  OBVIOUS

LEMMA TypeStep == TypeOK /\ [Next]_vars => TypeOK'
<1> SUFFICES ASSUME TypeOK, [Next]_vars PROVE TypeOK'
  OBVIOUS
<1> USE DEF TypeOK, Goto, AfterSend, Label, Opening, Serving, Proxying,
            vars, sessionVars, listenerVars, mapVars
<1>1. CASE UNCHANGED vars
  BY <1>1
<1>2. ASSUME NEW c \in Conn, SessionStep(c) PROVE TypeOK'
  <2>1. CASE SendChallenge(c)
    BY <2>1 DEF SendChallenge
  <2>2. CASE HandshakeFails(c)
    BY <2>2 DEF HandshakeFails
  <2>3. CASE Refuse(c)
    BY <2>3 DEF Refuse
  <2>4. CASE RecvNothing(c)
    BY <2>4 DEF RecvNothing
  <2>5. CASE BindOk(c)
    <3>1. \A q \in Candidate(c) : PortsFor(q) \subseteq Nat
      BY PortAssumption DEF Candidate, PortsFor
    <3> QED
      BY <2>5, <3>1 DEF BindOk
  <2>6. CASE BindFails(c)
    BY <2>6, TriesAssumption DEF BindFails
  <2>7. CASE SendHello(c)
    BY <2>7 DEF SendHello
  <2>8. CASE SendFails(c)
    BY <2>8 DEF SendFails, Finally, CloseListeners
  <2>9. CASE HeartbeatThenWait(c)
    BY <2>9 DEF HeartbeatThenWait
  <2>10. CASE HeartbeatThenTake(c)
    BY <2>10, TailFacts DEF HeartbeatThenTake, Admit
  <2>11. CASE AcceptTimeout(c)
    BY <2>11 DEF AcceptTimeout
  <2>12. CASE Announce(c)
    BY <2>12 DEF Announce
  <2>13. CASE Flushed(c)
    BY <2>13 DEF Flushed
  <2> QED
    BY <1>2, <2>1, <2>2, <2>3, <2>4, <2>5, <2>6, <2>7, <2>8, <2>9, <2>10,
       <2>11, <2>12, <2>13 DEF SessionStep
<1>3. ASSUME NEW id \in Id, Expire(id) PROVE TypeOK'
  BY <1>3 DEF Expire
<1>4. ASSUME NEW c \in Conn, ClientStep(c) PROVE TypeOK'
  <2>1. CASE HandshakeOk(c)
    BY <2>1 DEF HandshakeOk
  <2>2. ASSUME NEW p \in Request, RecvHello(c, p) PROVE TypeOK'
    BY <2>2, PortAssumption, TriesAssumption DEF RecvHello
  <2>3. ASSUME NEW id \in Id, RecvAccept(c, id) PROVE TypeOK'
    BY <2>3 DEF RecvAccept
  <2>4. ASSUME NEW id \in Id, RecvUnknownAccept(c, id) PROVE TypeOK'
    BY <2>4 DEF RecvUnknownAccept
  <2> QED
    BY <1>4, <2>1, <2>2, <2>3, <2>4 DEF ClientStep
<1>5. ASSUME NEW c \in Conn, Connect(c) PROVE TypeOK'
  BY <1>5 DEF Connect
<1>6. ASSUME NEW c \in Conn, CopyEnds(c) PROVE TypeOK'
  BY <1>6 DEF CopyEnds
<1>7. ASSUME NEW c \in Conn, ClientCloses(c) PROVE TypeOK'
  BY <1>7 DEF ClientCloses
<1>8. ASSUME NEW c \in Conn, ClientResets(c) PROVE TypeOK'
  BY <1>8 DEF ClientResets
<1>9. ASSUME NEW v \in Visitor, VisitorResets(v) PROVE TypeOK'
  BY <1>9 DEF VisitorResets
<1>10. ASSUME NEW v \in Visitor, NEW c \in Conn, ArriveQueued(v, c)
       PROVE  TypeOK'
  BY <1>10, AppendFacts DEF ArriveQueued
<1>11. ASSUME NEW v \in Visitor, NEW c \in Conn, ArriveAccepted(v, c)
       PROVE  TypeOK'
  BY <1>11 DEF ArriveAccepted, Admit
<1>12. CASE Shutdown
  BY <1>12 DEF Shutdown, CloseListeners
<1> QED
  BY <1>1, <1>2, <1>3, <1>4, <1>5, <1>6, <1>7, <1>8, <1>9, <1>10, <1>11, <1>12
  DEF Next, Environment

\* Every reachable state of the server is well typed; the Tries bound on the
\* binds of createListener is part of it.
THEOREM TypeCorrect == Spec => []TypeOK
  BY TypeInit, TypeStep, PTL DEF Spec

-----------------------------------------------------------------------------
(* Ownership.  SingleOwner is not inductive by itself: that a new connection *)
(* is not held yet follows from HeldIsOpen, and that a fresh id stores       *)
(* nothing from StoredIsTimed.                                               *)

Own == SingleOwner /\ HeldIsOpen /\ StoredIsTimed

LEMMA QueueElements ==
  ASSUME TypeOK
  PROVE  \A d \in Conn : \A i \in DOMAIN queue[d] : queue[d][i] \in Visitor
<1>1. queue \in [Conn -> Seq(Visitor)]
  BY DEF TypeOK
<1>2. ASSUME NEW d \in Conn, NEW i \in DOMAIN queue[d] PROVE queue[d][i] \in Visitor
  <2>1. queue[d] \in Seq(Visitor)
    BY <1>1
  <2> QED
    BY <2>1
<1> QED
  BY <1>2

LEMMA OwnInit == Init => Own
  BY NoneAssumption
  DEF Init, Own, SingleOwner, QueuedOnce, StoredOnce, TakenOnce, Apart,
      HeldIsOpen, StoredIsTimed, Takes, Proxying

\* A step that moves a session between two labels that both proxy or both do
\* not leaves the proxied visitors alone.
LEMMA TakesFrame ==
  ASSUME TypeOK, NEW c \in Conn, NEW label,
         Goto(c, label), pc[c] \in Proxying <=> label \in Proxying,
         taken' = taken
  PROVE  \A d \in Conn, v \in Visitor : Takes(d, v)' <=> Takes(d, v)
  BY DEF TypeOK, Goto, Takes

\* A step that changes no queue, no entry, no proxy and no socket.
LEMMA OwnFrame ==
  ASSUME Own,
         UNCHANGED <<queue, conns, timer, issued, vis>>,
         \A d \in Conn, v \in Visitor : Takes(d, v)' <=> Takes(d, v),
         TypeOK
  PROVE  Own'
<1>1. \A d \in Conn : \A i \in DOMAIN queue[d] : queue[d][i] \in Visitor
  BY DEF TypeOK
<1>2. SingleOwner'
  BY <1>1 DEF Own, SingleOwner, QueuedOnce, StoredOnce, TakenOnce, Apart, TypeOK
<1>3. HeldIsOpen'
  BY DEF Own, HeldIsOpen
<1>4. StoredIsTimed'
  BY DEF Own, StoredIsTimed
<1> QED
  BY <1>2, <1>3, <1>4 DEF Own

\* What the serving loop does with a connection v that nobody else holds.
LEMMA OwnAdmit ==
  ASSUME TypeOK, Own, NEW c \in Conn, NEW v \in Visitor, Admit(c, v),
         pc[c] \in Serving, UNCHANGED taken,
         vis' = [vis EXCEPT ![v] = "open"],
         queue' \in [Conn -> Seq(Visitor)],
         \A id \in Id : conns[id] # v,
         \A d \in Conn : ~Takes(d, v),
         \A d \in Conn : \A i \in DOMAIN queue'[d] :
           /\ queue'[d][i] # v
           /\ \E j \in DOMAIN queue[d] : queue'[d][i] = queue[d][j],
         QueuedOnce'
  PROVE  Own'
<1> PICK id \in Id : /\ issued[id] = NoVisitor
                     /\ issued' = [issued EXCEPT ![id] = v]
                     /\ conns' = [conns EXCEPT ![id] = v]
                     /\ timer' = timer \cup {id}
                     /\ Goto(c, "announcing")
  BY DEF Admit
<1>1. \A d \in Conn, w \in Visitor : Takes(d, w)' <=> Takes(d, w)
  BY TakesFrame DEF Serving, Proxying
<1>2. conns[id] = NoVisitor
  BY DEF Own, StoredIsTimed, TypeOK
<1>3. StoredOnce'
  BY <1>2, NoneAssumption DEF Own, SingleOwner, StoredOnce, TypeOK
<1>4. TakenOnce'
  BY <1>1 DEF Own, SingleOwner, TakenOnce
<1>5. Apart'
  <2>1. \A d \in Conn : \A i \in DOMAIN queue'[d] :
          \A jd \in Id : conns'[jd] # queue'[d][i]
    BY DEF Own, SingleOwner, Apart, TypeOK
  <2>2. \A d, e \in Conn : \A i \in DOMAIN queue'[d] : ~Takes(e, queue[d][i])'
    <3>1. \A d \in Conn : \A i \in DOMAIN queue'[d] : queue'[d][i] \in Visitor
      BY QueueElements
    <3> QED
      BY <1>1, <3>1 DEF Own, SingleOwner, Apart
  <2>3. \A d \in Conn : \A jd \in Id :
          conns'[jd] # NoVisitor => ~Takes(d, conns[jd])'
    BY <1>1 DEF Own, SingleOwner, Apart, TypeOK
  <2> QED
    BY <2>1, <2>2, <2>3 DEF Apart
<1>6. HeldIsOpen'
  BY <1>1 DEF Own, HeldIsOpen, TypeOK
<1>7. StoredIsTimed'
  BY DEF Own, StoredIsTimed, TypeOK
<1> QED
  BY <1>3, <1>4, <1>5, <1>6, <1>7 DEF Own, SingleOwner

\* Closing the listeners of C destroys what they queue, and D, stored
\* connections that leave the map, with it.
LEMMA OwnRelease ==
  ASSUME TypeOK, Own, NEW C, NEW D, CloseListeners(C),
         \A v \in Visitor :
           vis'[v] = IF v \in D \/ \E c \in C : c \in Conn /\ v \in Queued(c)
                     THEN "closed" ELSE vis[v],
         D \subseteq Stored,
         \A id \in Id : \/ conns'[id] = NoVisitor
                        \/ conns'[id] = conns[id] /\ conns[id] \notin D,
         \A d \in Conn, v \in Visitor : Takes(d, v)' <=> Takes(d, v),
         UNCHANGED <<timer, issued>>
  PROVE  Own'
<1>1. \A d \in Conn : \A i \in DOMAIN queue'[d] :
        /\ d \notin C /\ i \in DOMAIN queue[d]
        /\ queue'[d][i] = queue[d][i] /\ queue[d][i] \in Visitor
  BY DEF CloseListeners, TypeOK
<1>2. QueuedOnce'
  BY <1>1 DEF Own, SingleOwner, QueuedOnce
<1>3. StoredOnce'
  BY DEF Own, SingleOwner, StoredOnce
<1>4. TakenOnce'
  BY DEF Own, SingleOwner, TakenOnce
<1>5. Apart'
  <2>1. \A d \in Conn : \A i \in DOMAIN queue'[d] :
          \A id \in Id : conns'[id] # queue'[d][i]
    BY <1>1, NoneAssumption DEF Own, SingleOwner, Apart
  <2>2. \A d, e \in Conn : \A i \in DOMAIN queue'[d] : ~Takes(e, queue[d][i])'
    BY <1>1 DEF Own, SingleOwner, Apart
  <2>3. \A d \in Conn : \A id \in Id :
          conns'[id] # NoVisitor => ~Takes(d, conns[id])'
    BY DEF Own, SingleOwner, Apart, TypeOK
  <2> QED
    BY <2>1, <2>2, <2>3 DEF Apart
<1>6. HeldIsOpen'
  <2>1. \A d \in Conn : \A i \in DOMAIN queue'[d] : vis'[queue'[d][i]] = "open"
    <3> TAKE d \in Conn
    <3> TAKE i \in DOMAIN queue'[d]
    <3>1. queue[d][i] \notin D
      BY <1>1 DEF Stored, Own, SingleOwner, Apart
    <3>2. ~\E c \in C : c \in Conn /\ queue[d][i] \in Queued(c)
      BY <1>1 DEF Queued, Own, SingleOwner, QueuedOnce
    <3> QED
      BY <1>1, <3>1, <3>2 DEF Own, HeldIsOpen
  <2>2. \A id \in Id : conns'[id] # NoVisitor => vis'[conns'[id]] = "open"
    <3> SUFFICES ASSUME NEW id \in Id, conns'[id] # NoVisitor
                 PROVE  vis'[conns'[id]] = "open"
      OBVIOUS
    <3>1. conns'[id] = conns[id] /\ conns[id] \notin D /\ conns[id] \in Visitor
      BY DEF TypeOK
    <3>2. ~\E c \in C : c \in Conn /\ conns[id] \in Queued(c)
      BY DEF Queued, Own, SingleOwner, Apart
    <3> QED
      BY <3>1, <3>2 DEF Own, HeldIsOpen
  <2>3. \A d \in Conn, v \in Visitor : Takes(d, v) => vis'[v] = "open"
    <3> SUFFICES ASSUME NEW d \in Conn, NEW v \in Visitor, Takes(d, v)
                 PROVE  vis'[v] = "open"
      OBVIOUS
    <3>1. v \notin D
      <4>1. \A id \in Id : conns[id] # NoVisitor => conns[id] # v
        BY DEF Own, SingleOwner, Apart
      <4> QED
        BY <4>1 DEF Stored
    <3>2. ~\E c \in C : c \in Conn /\ v \in Queued(c)
      BY DEF Queued, Own, SingleOwner, Apart
    <3> QED
      BY <3>1, <3>2 DEF Own, HeldIsOpen
  <2> QED
    BY <2>1, <2>2, <2>3 DEF HeldIsOpen
<1>7. StoredIsTimed'
  BY DEF Own, StoredIsTimed
<1> QED
  BY <1>2, <1>3, <1>4, <1>5, <1>6, <1>7 DEF Own, SingleOwner

\* The steps of the sessions.
LEMMA OwnSession ==
  ASSUME TypeOK, TypeOK', Own, NEW c \in Conn, SessionStep(c)
  PROVE  Own'
<1> USE DEF sessionVars, listenerVars, mapVars
<1>1. CASE \/ SendChallenge(c) \/ HandshakeFails(c) \/ Refuse(c)
           \/ RecvNothing(c) \/ SendHello(c) \/ HeartbeatThenWait(c)
           \/ AcceptTimeout(c) \/ Announce(c) \/ Flushed(c)
  <2>1. UNCHANGED <<queue, conns, timer, issued, vis, taken>>
    BY <1>1 DEF SendChallenge, HandshakeFails, Refuse, RecvNothing, SendHello,
                HeartbeatThenWait, AcceptTimeout, Announce, Flushed
  <2>2. \E label : Goto(c, label) /\ (pc[c] \in Proxying <=> label \in Proxying)
    BY <1>1 DEF SendChallenge, HandshakeFails, Refuse, RecvNothing, SendHello,
                HeartbeatThenWait, AcceptTimeout, Announce, Flushed, Proxying
  <2>3. \A d \in Conn, v \in Visitor : Takes(d, v)' <=> Takes(d, v)
    BY <2>1, <2>2, TakesFrame
  <2> QED
    BY <2>1, <2>3, OwnFrame
<1>2. CASE BindOk(c) \/ BindFails(c)
  <2>1. UNCHANGED <<queue, conns, timer, issued, vis, taken>>
    BY <1>2 DEF BindOk, BindFails
  <2>2. \E label : Goto(c, label) /\ (pc[c] \in Proxying <=> label \in Proxying)
    BY <1>2 DEF BindOk, BindFails, Proxying
  <2>3. \A d \in Conn, v \in Visitor : Takes(d, v)' <=> Takes(d, v)
    BY <2>1, <2>2, TakesFrame
  <2> QED
    BY <2>1, <2>3, OwnFrame
<1>3. CASE SendFails(c)
  <2>1. \A d \in Conn, v \in Visitor : Takes(d, v)' <=> Takes(d, v)
    BY <1>3, TakesFrame DEF SendFails, Finally, Proxying
  <2> PICK C, D : C = {c} /\ D = {}
    OBVIOUS
  <2>2. /\ CloseListeners(C) /\ D \subseteq Stored
        /\ UNCHANGED <<conns, timer, issued>>
    BY <1>3 DEF SendFails, Finally
  <2>3. \A v \in Visitor :
          vis'[v] = IF v \in D \/ \E d \in C : d \in Conn /\ v \in Queued(d)
                    THEN "closed" ELSE vis[v]
    BY <1>3 DEF SendFails, Finally
  <2>4. \A id \in Id : \/ conns'[id] = NoVisitor
                       \/ conns'[id] = conns[id] /\ conns[id] \notin D
    BY <2>2
  <2> QED
    BY <2>1, <2>2, <2>3, <2>4, OwnRelease
<1>4. CASE HeartbeatThenTake(c)
  <2> DEFINE v == Head(queue[c])
  <2>1. /\ v \in Visitor /\ 1 \in DOMAIN queue[c] /\ queue[c][1] = v
        /\ \A i \in DOMAIN Tail(queue[c]) :
             /\ i \in Nat /\ i >= 1 /\ i + 1 \in DOMAIN queue[c]
             /\ Tail(queue[c])[i] = queue[c][i + 1]
    BY <1>4, TailFacts DEF TypeOK, HeartbeatThenTake
  <2>2. /\ \A id \in Id : conns[id] # v
        /\ \A d \in Conn : ~Takes(d, v)
        /\ vis[v] = "open"
    BY <2>1 DEF Own, SingleOwner, Apart, HeldIsOpen
  <2>3. \A d \in Conn : queue'[d] = IF d = c THEN Tail(queue[c]) ELSE queue[d]
    BY <1>4 DEF HeartbeatThenTake, TypeOK
  <2> DEFINE at(d, i) == IF d = c THEN i + 1 ELSE i
  <2>8. QueuedOnce
    BY DEF Own, SingleOwner
  <2>9. \A d \in Conn : \A i \in DOMAIN queue'[d] :
          /\ at(d, i) \in DOMAIN queue[d] /\ queue'[d][i] = queue[d][at(d, i)]
          /\ d = c => i \in Nat /\ i >= 1
    BY <2>1, <2>3
  <2>4. \A d \in Conn : \A i \in DOMAIN queue'[d] :
          queue'[d][i] # v /\ \E j \in DOMAIN queue[d] : queue'[d][i] = queue[d][j]
    <3> SUFFICES ASSUME NEW d \in Conn, NEW i \in DOMAIN queue'[d]
                 PROVE  queue'[d][i] # v
      BY <2>9
    <3>1. queue[d][at(d, i)] = queue[c][1] => d = c /\ at(d, i) = 1
      BY <2>1, <2>8, <2>9 DEF QueuedOnce
    <3>2. ~(d = c /\ at(d, i) = 1)
      BY <2>9
    <3> QED
      BY <2>1, <2>9, <3>1, <3>2
  <2>5. QueuedOnce'
    <3> SUFFICES ASSUME NEW d \in Conn, NEW e \in Conn,
                        NEW i \in DOMAIN queue'[d], NEW j \in DOMAIN queue'[e],
                        queue'[d][i] = queue'[e][j]
                 PROVE  d = e /\ i = j
      BY DEF QueuedOnce
    <3>1. d = e /\ at(d, i) = at(e, j)
      BY <2>8, <2>9 DEF QueuedOnce
    <3> QED
      BY <2>9, <3>1
  <2>6. vis' = [vis EXCEPT ![v] = "open"]
    BY <1>4, <2>1, <2>2 DEF HeartbeatThenTake, TypeOK
  <2>7. /\ Admit(c, v) /\ pc[c] \in Serving /\ UNCHANGED taken
        /\ queue' \in [Conn -> Seq(Visitor)]
    BY <1>4 DEF HeartbeatThenTake, TypeOK, Serving
  <2> QED
    BY <2>1, <2>2, <2>4, <2>5, <2>6, <2>7, OwnAdmit
<1> QED
  BY <1>1, <1>2, <1>3, <1>4 DEF SessionStep

\* Visitors arrive at the end of a queue, or at an accept() that waits.
LEMMA OwnArrive ==
  ASSUME TypeOK, TypeOK', Own, NEW v \in Visitor, NEW c \in Conn,
         ArriveQueued(v, c) \/ ArriveAccepted(v, c)
  PROVE  Own'
<1> USE DEF sessionVars, listenerVars, mapVars
<1>1. /\ \A id \in Id : conns[id] # v
      /\ \A d \in Conn : ~Takes(d, v)
      /\ \A d \in Conn : \A i \in DOMAIN queue[d] : queue[d][i] # v
      /\ vis[v] = "new"
  BY NoneAssumption DEF ArriveQueued, ArriveAccepted, Own, HeldIsOpen
<1>2. CASE ArriveAccepted(v, c)
  <2>1. /\ UNCHANGED <<queue, taken>> /\ vis' = [vis EXCEPT ![v] = "open"]
        /\ Admit(c, v) /\ pc[c] \in Serving
    BY <1>2 DEF ArriveAccepted, Serving
  <2>2. QueuedOnce'
    BY <2>1 DEF Own, SingleOwner, QueuedOnce
  <2>3. queue' \in [Conn -> Seq(Visitor)]
    BY DEF TypeOK
  <2> QED
    BY <1>1, <2>1, <2>2, <2>3, OwnAdmit
<1>3. CASE ArriveQueued(v, c)
  <2> DEFINE n == Len(queue[c]) + 1
  <2>1. /\ UNCHANGED <<pc, taken, conns, timer, issued>>
        /\ vis' = [vis EXCEPT ![v] = "open"]
        /\ queue' = [queue EXCEPT ![c] = Append(queue[c], v)]
    BY <1>3 DEF ArriveQueued
  <2>2. /\ DOMAIN queue'[c] = DOMAIN queue[c] \cup {n} /\ n \notin DOMAIN queue[c]
        /\ queue'[c][n] = v
        /\ \A i \in DOMAIN queue[c] : queue'[c][i] = queue[c][i]
    BY <2>1, AppendFacts DEF TypeOK
  <2>3. \A d \in Conn : d # c => queue'[d] = queue[d]
    BY <2>1 DEF TypeOK
  <2>4. \A d \in Conn : \A i \in DOMAIN queue'[d] :
          \/ i \in DOMAIN queue[d] /\ queue'[d][i] = queue[d][i]
          \/ d = c /\ i = n /\ queue'[d][i] = v
    BY <2>2, <2>3
  <2>5. \A d \in Conn, w \in Visitor : Takes(d, w)' <=> Takes(d, w)
    BY <2>1 DEF Takes
  <2>6. \A d \in Conn : \A i \in DOMAIN queue[d] : queue[d][i] \in Visitor
    BY QueueElements
  <2>7. QueuedOnce'
    BY <1>1, <2>4 DEF Own, SingleOwner, QueuedOnce
  <2>8. StoredOnce' /\ TakenOnce'
    BY <2>1, <2>5 DEF Own, SingleOwner, StoredOnce, TakenOnce
  <2>9. Apart'
    <3>1. \A d \in Conn : \A i \in DOMAIN queue'[d] :
            \A id \in Id : conns'[id] # queue'[d][i]
      BY <1>1, <2>1, <2>4 DEF Own, SingleOwner, Apart
    <3>2. \A d, e \in Conn : \A i \in DOMAIN queue'[d] :
            ~Takes(e, queue[d][i])'
      BY <1>1, <2>4, <2>5, <2>6 DEF Own, SingleOwner, Apart
    <3>3. \A d \in Conn : \A id \in Id :
            conns'[id] # NoVisitor => ~Takes(d, conns[id])'
      BY <2>1, <2>5 DEF Own, SingleOwner, Apart, TypeOK
    <3> QED
      BY <3>1, <3>2, <3>3 DEF Apart
  <2>10. HeldIsOpen'
    <3>1. vis'[v] = "open" /\ \A w \in Visitor : vis[w] = "open" => vis'[w] = "open"
      BY <2>1 DEF TypeOK
    <3>2. \A d \in Conn : \A i \in DOMAIN queue'[d] : vis'[queue'[d][i]] = "open"
      BY <2>4, <2>6, <3>1 DEF Own, HeldIsOpen
    <3>3. \A id \in Id : conns'[id] # NoVisitor => vis'[conns'[id]] = "open"
      BY <2>1, <3>1 DEF Own, HeldIsOpen, TypeOK
    <3>4. \A d \in Conn, w \in Visitor : Takes(d, w)' => vis'[w] = "open"
      BY <2>5, <3>1 DEF Own, HeldIsOpen
    <3> QED
      BY <3>2, <3>3, <3>4 DEF HeldIsOpen
  <2>11. StoredIsTimed'
    BY <2>1 DEF Own, StoredIsTimed
  <2> QED
    BY <2>7, <2>8, <2>9, <2>10, <2>11 DEF Own, SingleOwner
<1> QED
  BY <1>2, <1>3

\* The steps that take something out of conns, or end a proxy.
LEMMA OwnTakeOut ==
  ASSUME TypeOK, TypeOK', Own,
         \/ \E id \in Id : Expire(id)
         \/ \E c \in Conn, id \in Id : RecvAccept(c, id)
         \/ \E c \in Conn : CopyEnds(c)
  PROVE  Own'
<1> USE DEF sessionVars, listenerVars, mapVars
<1>0. \A d \in Conn : \A i \in DOMAIN queue[d] : queue[d][i] \in Visitor
  BY QueueElements
<1>1. ASSUME NEW id \in Id, Expire(id) PROVE Own'
  <2>1. /\ UNCHANGED <<pc, taken, queue, issued, vis>>
        /\ timer' = timer \ {id} /\ conns' = [conns EXCEPT ![id] = NoVisitor]
    BY <1>1 DEF Expire
  <2>2. \A d \in Conn, w \in Visitor : Takes(d, w)' <=> Takes(d, w)
    BY <2>1 DEF Takes
  <2>3. \A jd \in Id : conns'[jd] = IF jd = id THEN NoVisitor ELSE conns[jd]
    BY <2>1 DEF TypeOK
  <2>4. QueuedOnce' /\ StoredOnce' /\ TakenOnce'
    BY <2>1, <2>2, <2>3 DEF Own, SingleOwner, QueuedOnce, StoredOnce, TakenOnce
  <2>5. Apart'
    <3>1. \A jd \in Id : conns'[jd] # NoVisitor =>
            conns'[jd] = conns[jd] /\ conns[jd] \in Visitor
      BY <2>3 DEF TypeOK
    <3>2. \A d \in Conn : \A i \in DOMAIN queue[d] :
            \A jd \in Id : conns'[jd] # queue[d][i]
      <4> TAKE d \in Conn
      <4> TAKE i \in DOMAIN queue[d]
      <4> TAKE jd \in Id
      <4>1. conns[jd] # queue[d][i]
        BY DEF Own, SingleOwner, Apart
      <4>2. NoVisitor # queue[d][i]
        BY <1>0, NoneAssumption
      <4> QED
        BY <2>3, <4>1, <4>2
    <3>3. \A d \in Conn : \A i \in DOMAIN queue[d] :
            \A e \in Conn : ~Takes(e, queue[d][i])'
      <4> TAKE d \in Conn
      <4> TAKE i \in DOMAIN queue[d]
      <4> TAKE e \in Conn
      <4>1. ~Takes(e, queue[d][i])
        BY DEF Own, SingleOwner, Apart
      <4>2. queue' = queue
        BY <2>1
      <4> QED
        BY <1>0, <2>2, <4>1, <4>2
    <3>4. \A d \in Conn, jd \in Id : conns'[jd] # NoVisitor => ~Takes(d, conns[jd])'
      BY <2>2, <3>1 DEF Own, SingleOwner, Apart
    <3> QED
      BY <2>1, <3>1, <3>2, <3>3, <3>4 DEF Apart
  <2>6. HeldIsOpen'
    BY <2>1, <2>2, <2>3 DEF Own, HeldIsOpen
  <2>7. StoredIsTimed'
    BY <2>1, <2>3 DEF Own, StoredIsTimed
  <2> QED
    BY <2>4, <2>5, <2>6, <2>7 DEF Own, SingleOwner
<1>2. ASSUME NEW c \in Conn, NEW id \in Id, RecvAccept(c, id) PROVE Own'
  <2> DEFINE v == conns[id]
  <2>1. /\ UNCHANGED <<queue, timer, issued, vis>> /\ v \in Visitor
        /\ conns' = [conns EXCEPT ![id] = NoVisitor]
        /\ taken' = [taken EXCEPT ![c] = v]
        /\ pc[c] = "receiving"
    BY <1>2 DEF RecvAccept, TypeOK
  <2>2. PICK label \in Proxying : Goto(c, label)
    BY <1>2 DEF RecvAccept
  <2>3. \A jd \in Id : conns'[jd] = IF jd = id THEN NoVisitor ELSE conns[jd]
    BY <2>1 DEF TypeOK
  <2>4. \A d \in Conn, w \in Visitor :
          Takes(d, w)' <=> Takes(d, w) \/ (d = c /\ w = v)
    <3>1. \A d \in Conn : pc'[d] = IF d = c THEN label ELSE pc[d]
      BY <2>2 DEF Goto, TypeOK
    <3>2. \A d \in Conn : taken'[d] = IF d = c THEN v ELSE taken[d]
      BY <2>1 DEF TypeOK
    <3>3. pc[c] \notin Proxying
      BY <2>1 DEF Proxying
    <3> QED
      BY <2>2, <3>1, <3>2, <3>3 DEF Takes
  <2>5. /\ \A d \in Conn : ~Takes(d, v)
        /\ \A d \in Conn : \A i \in DOMAIN queue[d] : queue[d][i] # v
        /\ \A jd \in Id : jd # id => conns[jd] # v
        /\ vis[v] = "open"
    <3>1. v # NoVisitor
      BY <2>1, NoneAssumption
    <3>2. \A d \in Conn : ~Takes(d, v)
      BY <3>1 DEF Own, SingleOwner, Apart
    <3>3. \A d \in Conn : \A i \in DOMAIN queue[d] : queue[d][i] # v
      BY DEF Own, SingleOwner, Apart
    <3>4. \A jd \in Id : jd # id => conns[jd] # v
      BY <3>1 DEF Own, SingleOwner, StoredOnce
    <3>5. vis[v] = "open"
      BY <3>1 DEF Own, HeldIsOpen
    <3> QED
      BY <3>2, <3>3, <3>4, <3>5
  <2>6. QueuedOnce' /\ StoredOnce'
    BY <2>1, <2>3 DEF Own, SingleOwner, QueuedOnce, StoredOnce
  <2>7. TakenOnce'
    BY <2>4, <2>5 DEF Own, SingleOwner, TakenOnce
  <2>8. Apart'
    <3>1. \A d \in Conn : \A i \in DOMAIN queue'[d] :
            \A jd \in Id : conns'[jd] # queue'[d][i]
      BY <1>0, <2>1, <2>3, NoneAssumption DEF Own, SingleOwner, Apart
    <3>2. \A d, e \in Conn : \A i \in DOMAIN queue'[d] :
            ~Takes(e, queue[d][i])'
      BY <1>0, <2>1, <2>4, <2>5 DEF Own, SingleOwner, Apart
    <3>3. \A d \in Conn : \A jd \in Id :
            conns'[jd] # NoVisitor => ~Takes(d, conns[jd])'
      BY <2>3, <2>4, <2>5 DEF Own, SingleOwner, Apart, TypeOK
    <3> QED
      BY <3>1, <3>2, <3>3 DEF Apart
  <2>9. HeldIsOpen'
    BY <2>1, <2>3, <2>4, <2>5 DEF Own, HeldIsOpen
  <2>10. StoredIsTimed'
    BY <2>1, <2>3 DEF Own, StoredIsTimed
  <2> QED
    BY <2>6, <2>7, <2>8, <2>9, <2>10 DEF Own, SingleOwner
<1>3. ASSUME NEW c \in Conn, CopyEnds(c) PROVE Own'
  <2>1. /\ UNCHANGED <<taken, queue, conns, timer, issued>>
        /\ vis' = [vis EXCEPT ![taken[c]] = "closed"]
        /\ pc[c] = "copying" /\ Goto(c, "done")
    BY <1>3 DEF CopyEnds
  <2>2. \A d \in Conn, w \in Visitor : Takes(d, w)' <=> Takes(d, w) /\ d # c
    BY <2>1 DEF Takes, Goto, TypeOK, Proxying
  <2>3. \A w \in Visitor : w # taken[c] => vis'[w] = vis[w]
    BY <2>1 DEF TypeOK
  <2>4. \A w \in Visitor : w = taken[c] => Takes(c, w)
    BY <2>1 DEF Takes, Proxying
  <2>5. QueuedOnce' /\ StoredOnce' /\ TakenOnce'
    BY <2>1, <2>2 DEF Own, SingleOwner, QueuedOnce, StoredOnce, TakenOnce
  <2>6. Apart'
    <3>1. \A d \in Conn : \A i \in DOMAIN queue'[d] :
            \A jd \in Id : conns'[jd] # queue'[d][i]
      BY <2>1 DEF Own, SingleOwner, Apart
    <3>2. \A d, e \in Conn : \A i \in DOMAIN queue'[d] :
            ~Takes(e, queue[d][i])'
      BY <1>0, <2>1, <2>2 DEF Own, SingleOwner, Apart
    <3>3. \A d \in Conn : \A jd \in Id :
            conns'[jd] # NoVisitor => ~Takes(d, conns[jd])'
      BY <2>1, <2>2 DEF Own, SingleOwner, Apart, TypeOK
    <3> QED
      BY <3>1, <3>2, <3>3 DEF Apart
  <2>7. HeldIsOpen'
    <3>1. \A d \in Conn : \A i \in DOMAIN queue'[d] : vis'[queue'[d][i]] = "open"
      BY <1>0, <2>1, <2>3, <2>4 DEF Own, SingleOwner, Apart, HeldIsOpen
    <3>2. \A jd \in Id : conns'[jd] # NoVisitor => vis'[conns'[jd]] = "open"
      BY <2>1, <2>3, <2>4 DEF Own, SingleOwner, Apart, HeldIsOpen, TypeOK
    <3>3. \A d \in Conn, w \in Visitor : Takes(d, w)' => vis'[w] = "open"
      BY <2>2, <2>3, <2>4 DEF Own, SingleOwner, TakenOnce, HeldIsOpen
    <3> QED
      BY <3>1, <3>2, <3>3 DEF HeldIsOpen
  <2>8. StoredIsTimed'
    BY <2>1 DEF Own, StoredIsTimed
  <2> QED
    BY <2>5, <2>6, <2>7, <2>8 DEF Own, SingleOwner
<1> QED
  BY <1>1, <1>2, <1>3

LEMMA OwnShutdown ==
  ASSUME TypeOK, Own, Shutdown
  PROVE  Own'
<1> USE DEF sessionVars, listenerVars, mapVars
<1>1. /\ CloseListeners(listeners) /\ Stored \subseteq Stored
      /\ UNCHANGED <<timer, issued>>
      /\ \A id \in Id : conns'[id] = NoVisitor
  BY DEF Shutdown
<1>2. \A v \in Visitor :
        vis'[v] = IF v \in Stored
                     \/ \E c \in listeners : c \in Conn /\ v \in Queued(c)
                  THEN "closed" ELSE vis[v]
  BY DEF Shutdown, TypeOK
<1>3. \A d \in Conn, v \in Visitor : Takes(d, v)' <=> Takes(d, v)
  BY DEF Shutdown, Takes, Proxying
<1> QED
  BY <1>1, <1>2, <1>3, OwnRelease

LEMMA OwnStep == TypeOK /\ TypeOK' /\ Own /\ [Next]_vars => Own'
<1> SUFFICES ASSUME TypeOK, TypeOK', Own, [Next]_vars PROVE Own'
  OBVIOUS
<1> USE DEF sessionVars, listenerVars, mapVars
<1>1. CASE UNCHANGED vars
  <2>1. UNCHANGED <<pc, taken, queue, conns, timer, issued, vis>>
    BY <1>1 DEF vars
  <2>2. \A d \in Conn, v \in Visitor : Takes(d, v)' <=> Takes(d, v)
    BY <2>1 DEF Takes
  <2> QED
    BY <2>1, <2>2, OwnFrame
<1>2. ASSUME NEW c \in Conn, SessionStep(c) PROVE Own'
  BY <1>2, OwnSession
<1>3. ASSUME NEW c \in Conn,
             \/ Connect(c) \/ HandshakeOk(c) \/ \E p \in Request : RecvHello(c, p)
             \/ \E id \in Id : RecvUnknownAccept(c, id)
      PROVE  Own'
  <2>1. UNCHANGED <<queue, conns, timer, issued, vis, taken>>
    BY <1>3 DEF Connect, HandshakeOk, RecvHello, RecvUnknownAccept
  <2>2. \E label : Goto(c, label) /\ (pc[c] \in Proxying <=> label \in Proxying)
    BY <1>3 DEF Connect, HandshakeOk, RecvHello, RecvUnknownAccept, Proxying
  <2>3. \A d \in Conn, v \in Visitor : Takes(d, v)' <=> Takes(d, v)
    BY <2>1, <2>2, TakesFrame
  <2> QED
    BY <2>1, <2>3, OwnFrame
<1>4. ASSUME \/ \E c \in Conn : ClientCloses(c) \/ ClientResets(c)
             \/ \E v \in Visitor : VisitorResets(v)
      PROVE  Own'
  <2>1. UNCHANGED <<pc, queue, conns, timer, issued, vis, taken>>
    BY <1>4 DEF ClientCloses, ClientResets, VisitorResets
  <2>2. \A d \in Conn, v \in Visitor : Takes(d, v)' <=> Takes(d, v)
    BY <2>1 DEF Takes
  <2> QED
    BY <2>1, <2>2, OwnFrame
<1> QED
  BY <1>1, <1>2, <1>3, <1>4, OwnArrive, OwnTakeOut, OwnShutdown
  DEF Next, Environment, ClientStep

\* A visitor's socket is referred to from one place, is open while it is, and
\* a stored one is timed: for any number of clients, visitors and ids, with
\* clients that send anything and fail at any point.
THEOREM OwnershipCorrect == Spec => [](SingleOwner /\ HeldIsOpen /\ StoredIsTimed)
<1>1. Init => TypeOK /\ Own
  BY TypeInit, OwnInit
<1>2. TypeOK /\ Own /\ [Next]_vars => TypeOK' /\ Own'
  BY TypeStep, OwnStep
<1>3. Own => SingleOwner /\ HeldIsOpen /\ StoredIsTimed
  BY DEF Own
<1> QED
  BY <1>1, <1>2, <1>3, PTL DEF Spec

\* No socket is destroyed under the queue, the map or the proxy that refers to it.
THEOREM HeldCorrect == Spec => []HeldIsOpen
  BY OwnershipCorrect, PTL

-----------------------------------------------------------------------------
(* What is announced is found.  An id is followed from the moment it is      *)
(* generated, and a session names a visitor only once it proxies, so that an *)
(* Accept overwrites no earlier one.                                         *)

Tracked ==
  /\ \A id \in timer :
       /\ issued[id] \in Visitor
       /\ \/ conns[id] = issued[id]
          \/ \E c \in Conn : taken[c] = issued[id]
          \/ vis[issued[id]] = "closed"
  /\ \A c \in Conn : taken[c] # NoVisitor => pc[c] \in Proxying \cup {"done"}

LEMMA TrackedStep == TypeOK /\ Own /\ Tracked /\ [Next]_vars => Tracked'
<1> SUFFICES ASSUME TypeOK, Own, Tracked, [Next]_vars PROVE Tracked'
  OBVIOUS
<1> USE DEF sessionVars, listenerVars, mapVars, Goto
<1> DEFINE Stays == \A c \in Conn : pc[c] \in Proxying \cup {"done"}
                                      => pc'[c] \in Proxying \cup {"done"}
           Closed == \A v \in Visitor : vis[v] = "closed" => vis'[v] = "closed"
<1>1. ASSUME UNCHANGED <<conns, timer, issued, taken>>, Stays, Closed PROVE Tracked'
  BY <1>1 DEF Tracked
<1>2. ASSUME NEW c \in Conn, NEW v \in Visitor, Admit(c, v), pc[c] \in Serving,
             UNCHANGED taken, Closed
      PROVE  Tracked'
  <2> PICK id \in Id : /\ issued[id] = NoVisitor
                       /\ issued' = [issued EXCEPT ![id] = v]
                       /\ conns' = [conns EXCEPT ![id] = v]
                       /\ timer' = timer \cup {id}
                       /\ pc' = [pc EXCEPT ![c] = "announcing"]
    BY <1>2 DEF Admit
  <2>1. Stays
    BY <1>2 DEF Serving, Proxying, TypeOK
  <2>2. \A jd \in timer : jd # id /\ issued'[jd] = issued[jd] /\ conns'[jd] = conns[jd]
    BY NoneAssumption DEF Tracked, TypeOK
  <2>3. issued'[id] = v /\ conns'[id] = v
    BY DEF TypeOK
  <2> QED
    BY <1>2, <2>1, <2>2, <2>3 DEF Tracked
<1>3. ASSUME NEW c \in Conn, HeartbeatThenTake(c) PROVE Tracked'
  <2>1. queue[c] \in Seq(Visitor) /\ queue[c] # <<>>
    BY <1>3 DEF HeartbeatThenTake, TypeOK
  <2>2. Head(queue[c]) \in Visitor
    BY <2>1, TailFacts
  <2> QED
    BY <1>2, <1>3, <2>2 DEF HeartbeatThenTake, Serving
<1>4. ASSUME NEW v \in Visitor, NEW c \in Conn, ArriveAccepted(v, c) PROVE Tracked'
  <2>1. Closed
    BY <1>4 DEF ArriveAccepted, TypeOK
  <2> QED
    BY <1>2, <1>4, <2>1 DEF ArriveAccepted, Serving
<1>5. ASSUME NEW v \in Visitor, NEW c \in Conn, ArriveQueued(v, c) PROVE Tracked'
  BY <1>1, <1>5 DEF ArriveQueued, TypeOK
<1>6. ASSUME NEW c \in Conn, NEW id \in Id, RecvAccept(c, id) PROVE Tracked'
  <2>1. taken[c] = NoVisitor
    BY <1>6 DEF RecvAccept, Tracked, Proxying
  <2>2. /\ taken' = [taken EXCEPT ![c] = conns[id]]
        /\ conns' = [conns EXCEPT ![id] = NoVisitor]
        /\ UNCHANGED <<timer, issued, vis>>
        /\ \E label \in Proxying : pc' = [pc EXCEPT ![c] = label]
    BY <1>6 DEF RecvAccept
  <2>3. conns[id] = issued[id]
    BY <1>6 DEF RecvAccept, Own, StoredIsTimed
  <2>4. \A d \in Conn : taken'[d] # NoVisitor => pc'[d] \in Proxying \cup {"done"}
    BY <2>2 DEF Tracked, TypeOK, Proxying
  <2>5. ASSUME NEW jd \in timer
        PROVE  \/ conns'[jd] = issued[jd]
               \/ \E d \in Conn : taken'[d] = issued[jd]
               \/ vis[issued[jd]] = "closed"
    <3>1. issued[jd] \in Visitor
      BY DEF Tracked
    <3>2. CASE jd = id
      BY <2>2, <2>3, <3>2 DEF TypeOK
    <3>3. CASE conns[jd] = issued[jd] /\ jd # id
      BY <2>2, <3>3 DEF TypeOK
    <3>4. ASSUME NEW d \in Conn, taken[d] = issued[jd] PROVE taken'[d] = issued[jd]
      BY <2>1, <2>2, <3>1, <3>4, NoneAssumption DEF TypeOK
    <3> QED
      BY <3>2, <3>3, <3>4 DEF Tracked
  <2> QED
    BY <2>2, <2>4, <2>5 DEF Tracked
<1>7. ASSUME NEW id \in Id, Expire(id) PROVE Tracked'
  BY <1>7 DEF Expire, Tracked, TypeOK
<1>8. ASSUME NEW c \in Conn, SendFails(c) PROVE Tracked'
  BY <1>1, <1>8 DEF SendFails, Finally, TypeOK
<1>9. ASSUME NEW c \in Conn, CopyEnds(c) PROVE Tracked'
  BY <1>1, <1>9 DEF CopyEnds, TypeOK
<1>10. CASE Shutdown
  <2>1. /\ UNCHANGED <<timer, issued, taken>> /\ Stays
        /\ \A v \in Visitor : v \in Stored \/ vis[v] = "closed" => vis'[v] = "closed"
    BY <1>10 DEF Shutdown, TypeOK, Proxying
  <2>2. \A id \in timer : conns[id] = issued[id] => issued[id] \in Stored
    BY NoneAssumption DEF Tracked, Stored, TypeOK
  <2> QED
    BY <2>1, <2>2 DEF Tracked
<1>11. ASSUME NEW c \in Conn, SessionStep(c), ~HeartbeatThenTake(c), ~SendFails(c)
       PROVE  Tracked'
  <2>1. UNCHANGED <<conns, timer, issued, taken, vis>>
    BY <1>11 DEF SessionStep, SendChallenge, HandshakeFails, Refuse, RecvNothing,
       BindOk, BindFails, SendHello, HeartbeatThenWait, AcceptTimeout, Announce, Flushed
  <2>2. Stays
    BY <1>11 DEF SessionStep, SendChallenge, HandshakeFails, Refuse, RecvNothing,
       BindOk, BindFails, SendHello, HeartbeatThenWait, AcceptTimeout, Announce, Flushed,
       Proxying, TypeOK
  <2> QED
    BY <1>1, <2>1, <2>2
<1>12. ASSUME NEW c \in Conn,
              \/ Connect(c) \/ HandshakeOk(c) \/ ClientCloses(c) \/ ClientResets(c)
              \/ \E p \in Request : RecvHello(c, p)
              \/ \E id \in Id : RecvUnknownAccept(c, id)
       PROVE  Tracked'
  <2>1. UNCHANGED <<conns, timer, issued, taken, vis>>
    BY <1>12 DEF Connect, HandshakeOk, RecvHello, RecvUnknownAccept, ClientCloses,
       ClientResets
  <2>2. Stays
    BY <1>12 DEF Connect, HandshakeOk, RecvHello, RecvUnknownAccept, ClientCloses,
       ClientResets, Proxying, TypeOK
  <2> QED
    BY <1>1, <2>1, <2>2
<1>13. ASSUME NEW v \in Visitor, VisitorResets(v) PROVE Tracked'
  BY <1>1, <1>13 DEF VisitorResets
<1>14. CASE UNCHANGED vars
  BY <1>1, <1>14 DEF vars
<1> QED
  BY <1>3, <1>4, <1>5, <1>6, <1>7, <1>8, <1>9, <1>10, <1>11, <1>12, <1>13, <1>14
  DEF Next, Environment, ClientStep

\* An id that may be on its way to a client has had its timer started.
Timed == Sent \subseteq timer \cup expired

LEMMA TimedStep == TypeOK /\ Timed /\ [Next]_vars => Timed'
<1> SUFFICES ASSUME TypeOK, Timed, [Next]_vars PROVE Timed'
  OBVIOUS
<1> USE DEF sessionVars, listenerVars, mapVars, Goto
<1> DEFINE Announces(c) == pc'[c] = "announcing" => pc[c] = "announcing" /\ cur'[c] = cur[c]
<1>1. ASSUME UNCHANGED <<announced, timer, expired>>, \A c \in Conn : Announces(c)
      PROVE  Timed'
  BY <1>1 DEF Timed, Sent
<1>2. ASSUME NEW c \in Conn, NEW v \in Visitor, Admit(c, v) PROVE Timed'
  <2> PICK id \in Id : /\ timer' = timer \cup {id} /\ UNCHANGED <<expired, announced>>
                       /\ cur' = [cur EXCEPT ![c] = id]
                       /\ pc' = [pc EXCEPT ![c] = "announcing"]
    BY <1>2 DEF Admit
  <2>1. cur'[c] = id /\ \A d \in Conn : d # c => Announces(d)
    BY DEF TypeOK
  <2> QED
    BY <2>1 DEF Timed, Sent
<1>3. ASSUME NEW c \in Conn, HeartbeatThenTake(c) PROVE Timed'
  <2>1. queue[c] \in Seq(Visitor) /\ queue[c] # <<>>
    BY <1>3 DEF HeartbeatThenTake, TypeOK
  <2>2. Head(queue[c]) \in Visitor
    BY <2>1, TailFacts
  <2> QED
    BY <1>2, <1>3, <2>2 DEF HeartbeatThenTake
<1>4. ASSUME NEW v \in Visitor, NEW c \in Conn, ArriveAccepted(v, c) PROVE Timed'
  BY <1>2, <1>4 DEF ArriveAccepted
<1>5. ASSUME NEW v \in Visitor, NEW c \in Conn, ArriveQueued(v, c) PROVE Timed'
  BY <1>1, <1>5 DEF ArriveQueued
<1>6. ASSUME NEW c \in Conn, Announce(c) PROVE Timed'
  <2>1. /\ pc[c] = "announcing" /\ announced' = announced \cup {cur[c]}
        /\ UNCHANGED <<timer, expired>>
    BY <1>6 DEF Announce
  <2>2. \A d \in Conn : Announces(d)
    BY <1>6 DEF Announce, TypeOK
  <2> QED
    BY <2>1, <2>2 DEF Timed, Sent
<1>7. ASSUME NEW id \in Id, Expire(id) PROVE Timed'
  BY <1>7 DEF Expire, Timed, Sent
<1>8. ASSUME NEW c \in Conn, SendFails(c) PROVE Timed'
  BY <1>1, <1>8 DEF SendFails, Finally, TypeOK
<1>9. ASSUME NEW c \in Conn, CopyEnds(c) PROVE Timed'
  BY <1>1, <1>9 DEF CopyEnds, TypeOK
<1>10. CASE Shutdown
  BY <1>1, <1>10 DEF Shutdown, TypeOK
<1>11. ASSUME NEW c \in Conn, SessionStep(c), ~HeartbeatThenTake(c), ~SendFails(c),
              ~Announce(c)
       PROVE  Timed'
  BY <1>1, <1>11 DEF SessionStep, SendChallenge, HandshakeFails, Refuse, RecvNothing,
     BindOk, BindFails, SendHello, HeartbeatThenWait, AcceptTimeout, Flushed, TypeOK
<1>12. ASSUME NEW c \in Conn,
              \/ Connect(c) \/ HandshakeOk(c) \/ ClientCloses(c) \/ ClientResets(c)
              \/ \E p \in Request : RecvHello(c, p)
              \/ \E id \in Id : RecvAccept(c, id) \/ RecvUnknownAccept(c, id)
       PROVE  Timed'
  BY <1>1, <1>12 DEF Connect, HandshakeOk, RecvHello, RecvAccept, RecvUnknownAccept,
     ClientCloses, ClientResets, Proxying, TypeOK
<1>13. ASSUME NEW v \in Visitor, VisitorResets(v) PROVE Timed'
  BY <1>1, <1>13 DEF VisitorResets
<1>14. CASE UNCHANGED vars
  BY <1>1, <1>14 DEF vars
<1> QED
  BY <1>3, <1>4, <1>5, <1>6, <1>7, <1>8, <1>9, <1>10, <1>11, <1>12, <1>13, <1>14
  DEF Next, Environment, ClientStep

\* From the moment its Connection message is handed to the socket, an id finds
\* its connection until it is accepted, expires or is destroyed by shutdown,
\* whatever other sessions accept or end meanwhile.
THEOREM AnnouncedCorrect == Spec => []AnnouncedIsFound
<1>1. Init => TypeOK /\ Own /\ Tracked /\ Timed
  BY TypeInit, OwnInit DEF Init, Tracked, Timed, Sent
<1>2. TypeOK /\ Own /\ Tracked /\ Timed /\ [Next]_vars
        => TypeOK' /\ Own' /\ Tracked' /\ Timed'
  BY TypeStep, OwnStep, TrackedStep, TimedStep
<1>3. Tracked /\ Timed => AnnouncedIsFound
  BY DEF Tracked, Timed, AnnouncedIsFound
<1> QED
  BY <1>1, <1>2, <1>3, PTL DEF Spec

-----------------------------------------------------------------------------
(* What is forgotten.  No step but an expiry lets go of an open socket, and  *)
(* an id that has expired stays the id of its visitor.                       *)

\* A step that opens only what it holds and lets go only of what it closes.
LEMMA ForgetRule ==
  ASSUME OnlyExpiryForgets,
         \A v \in Visitor : vis'[v] = "open" => vis[v] = "open" \/ Held(v)',
         \A v \in Visitor : Held(v) /\ vis'[v] = "open" =>
           Held(v)' \/ \E id \in expired' : issued'[id] = v,
         \A id \in expired : issued[id] \in Visitor =>
           issued'[id] = issued[id] /\ id \in expired'
  PROVE  OnlyExpiryForgets'
  BY DEF OnlyExpiryForgets

LEMMA ForgetAdmit ==
  ASSUME TypeOK, Own, OnlyExpiryForgets, NEW c \in Conn, NEW v \in Visitor,
         Admit(c, v), pc[c] \in Serving, UNCHANGED taken,
         \A w \in Visitor : w # v => vis'[w] = vis[w],
         \A d \in Conn : Queued(d) \ {v} \subseteq Queued(d)'
  PROVE  OnlyExpiryForgets'
<1> PICK id \in Id : /\ issued[id] = NoVisitor
                     /\ issued' = [issued EXCEPT ![id] = v]
                     /\ conns' = [conns EXCEPT ![id] = v]
                     /\ UNCHANGED expired
                     /\ Goto(c, "announcing")
  BY DEF Admit
<1>1. \A d \in Conn, w \in Visitor : Takes(d, w)' <=> Takes(d, w)
  BY TakesFrame DEF Serving, Proxying
<1>2. conns[id] = NoVisitor
  BY DEF Own, StoredIsTimed, TypeOK
<1>3. v \in Stored' /\ Stored \subseteq Stored'
  BY <1>2, NoneAssumption DEF Stored, TypeOK
<1>4. \A w \in Visitor : Held(w) \/ w = v => Held(w)'
  BY <1>1, <1>3 DEF Held
<1>5. \A jd \in expired : issued[jd] \in Visitor =>
        issued'[jd] = issued[jd] /\ jd \in expired'
  BY NoneAssumption DEF TypeOK
<1> QED
  BY <1>4, <1>5, ForgetRule

LEMMA ForgetStep ==
  TypeOK /\ Own /\ OnlyExpiryForgets /\ [Next]_vars => OnlyExpiryForgets'
<1> SUFFICES ASSUME TypeOK, Own, OnlyExpiryForgets, [Next]_vars
             PROVE  OnlyExpiryForgets'
  OBVIOUS
<1> USE DEF sessionVars, listenerVars, mapVars
<1>1. ASSUME UNCHANGED <<queue, conns, expired, issued, vis>>,
             \A d \in Conn, v \in Visitor : Takes(d, v)' <=> Takes(d, v)
      PROVE  OnlyExpiryForgets'
  BY <1>1 DEF OnlyExpiryForgets, Held, Stored, Queued
<1>2. ASSUME NEW c \in Conn, HeartbeatThenTake(c) PROVE OnlyExpiryForgets'
  <2> DEFINE v == Head(queue[c])
  <2>1. queue[c] \in Seq(Visitor) /\ queue[c] # <<>>
    BY <1>2 DEF HeartbeatThenTake, TypeOK
  <2>2. v \in Visitor
    BY <2>1, TailFacts
  <2>3. \A d \in Conn : Queued(d) \ {v} \subseteq Queued(d)'
    <3> SUFFICES ASSUME NEW d \in Conn, NEW i \in DOMAIN queue[d], queue[d][i] # v
                 PROVE  queue[d][i] \in Queued(d)'
      BY DEF Queued
    <3>1. CASE d # c
      BY <1>2, <3>1 DEF HeartbeatThenTake, Queued, TypeOK
    <3>2. CASE d = c
      <4>1. queue'[c] = Tail(queue[c])
        BY <1>2 DEF HeartbeatThenTake, TypeOK
      <4>2. i \in 1 .. Len(queue[c]) /\ i # 1
        BY <2>1, <3>2
      <4>3. i - 1 \in DOMAIN Tail(queue[c]) /\ Tail(queue[c])[i - 1] = queue[c][i]
        BY <2>1, <4>2
      <4> QED
        BY <3>2, <4>1, <4>3 DEF Queued
    <3> QED
      BY <3>1, <3>2
  <2>4. /\ Admit(c, v) /\ pc[c] \in Serving /\ UNCHANGED taken
        /\ \A w \in Visitor : w # v => vis'[w] = vis[w]
    BY <1>2 DEF HeartbeatThenTake, Serving
  <2> QED
    BY <2>2, <2>3, <2>4, ForgetAdmit
<1>3. ASSUME NEW v \in Visitor, NEW c \in Conn, ArriveAccepted(v, c)
      PROVE  OnlyExpiryForgets'
  <2>1. \A d \in Conn : Queued(d) \ {v} \subseteq Queued(d)'
    BY <1>3 DEF ArriveAccepted, Queued
  <2>2. /\ Admit(c, v) /\ pc[c] \in Serving /\ UNCHANGED taken
        /\ \A w \in Visitor : w # v => vis'[w] = vis[w]
    BY <1>3 DEF ArriveAccepted, Serving, TypeOK
  <2> QED
    BY <2>1, <2>2, ForgetAdmit
<1>4. ASSUME NEW v \in Visitor, NEW c \in Conn, ArriveQueued(v, c)
      PROVE  OnlyExpiryForgets'
  <2>1. /\ UNCHANGED <<pc, taken, conns, expired, issued>>
        /\ vis' = [vis EXCEPT ![v] = "open"]
        /\ queue' = [queue EXCEPT ![c] = Append(queue[c], v)]
    BY <1>4 DEF ArriveQueued
  <2>2. \A d \in Conn : Queued(d) \subseteq Queued(d)' /\ v \in Queued(c)'
    BY <2>1, AppendFacts DEF Queued, TypeOK
  <2>3. \A w \in Visitor : Held(w) \/ w = v => Held(w)'
    BY <2>1, <2>2 DEF Held, Stored, Takes
  <2> QED
    BY <2>1, <2>3, ForgetRule DEF TypeOK
<1>5. ASSUME NEW c \in Conn, SendFails(c) PROVE OnlyExpiryForgets'
  <2>1. /\ UNCHANGED <<taken, conns, expired, issued>> /\ Goto(c, "done")
        /\ CloseListeners({c}) /\ pc[c] \in Serving
        /\ vis' = [w \in Visitor |-> IF w \in Queued(c) THEN "closed" ELSE vis[w]]
    BY <1>5 DEF SendFails, Finally, Serving
  <2>2. \A d \in Conn, w \in Visitor : Takes(d, w)' <=> Takes(d, w)
    BY <2>1, TakesFrame DEF Serving, Proxying
  <2>3. \A d \in Conn : d # c => Queued(d)' = Queued(d)
    BY <2>1 DEF CloseListeners, Queued
  <2>4. \A w \in Visitor : Held(w) /\ vis'[w] = "open" => Held(w)'
    BY <2>1, <2>2, <2>3 DEF Held, Stored
  <2> QED
    BY <2>1, <2>4, ForgetRule
<1>6. ASSUME NEW c \in Conn, NEW id \in Id, RecvAccept(c, id)
      PROVE  OnlyExpiryForgets'
  <2>1. /\ UNCHANGED <<queue, expired, issued, vis>> /\ pc[c] = "receiving"
        /\ taken' = [taken EXCEPT ![c] = conns[id]]
        /\ conns' = [conns EXCEPT ![id] = NoVisitor]
        /\ \E label \in Proxying : pc' = [pc EXCEPT ![c] = label]
    BY <1>6 DEF RecvAccept, Goto
  <2>2. \A d \in Conn, w \in Visitor : Takes(d, w) => Takes(d, w)'
    BY <2>1 DEF Takes, Proxying, TypeOK
  <2>3. \A w \in Visitor : conns[id] = w => Takes(c, w)'
    BY <2>1 DEF Takes, TypeOK
  <2>4. \A w \in Visitor : w \in Stored => w \in Stored' \/ Takes(c, w)'
    BY <2>1, <2>3 DEF Stored, TypeOK
  <2>5. \A w \in Visitor : Held(w) => Held(w)'
    BY <2>1, <2>2, <2>4 DEF Held, Queued
  <2> QED
    BY <2>1, <2>5, ForgetRule
<1>7. ASSUME NEW id \in Id, Expire(id) PROVE OnlyExpiryForgets'
  <2>1. /\ UNCHANGED <<pc, queue, taken, issued, vis>> /\ expired' = expired \cup {id}
        /\ conns' = [conns EXCEPT ![id] = NoVisitor]
    BY <1>7 DEF Expire
  <2>2. \A w \in Visitor : w \in Stored => w \in Stored' \/ issued[id] = w
    BY <2>1 DEF Stored, Own, StoredIsTimed, TypeOK
  <2>3. \A w \in Visitor : Held(w) => Held(w)' \/ issued[id] = w
    BY <2>1, <2>2 DEF Held, Queued, Takes
  <2> QED
    BY <2>1, <2>3, ForgetRule
<1>8. ASSUME NEW c \in Conn, CopyEnds(c) PROVE OnlyExpiryForgets'
  <2>1. /\ UNCHANGED <<queue, conns, expired, issued, taken>> /\ pc[c] = "copying"
        /\ vis' = [vis EXCEPT ![taken[c]] = "closed"]
        /\ pc' = [pc EXCEPT ![c] = "done"]
    BY <1>8 DEF CopyEnds, Goto
  <2>2. \A d \in Conn, w \in Visitor :
          Takes(d, w) /\ vis'[w] = "open" => Takes(d, w)'
    BY <2>1 DEF Takes, TypeOK
  <2>3. \A w \in Visitor : Held(w) /\ vis'[w] = "open" => Held(w)'
    BY <2>1, <2>2 DEF Held, Stored, Queued
  <2> QED
    BY <2>1, <2>3, ForgetRule DEF TypeOK
<1>9. CASE Shutdown
  <2>1. /\ UNCHANGED <<expired, issued, taken>> /\ CloseListeners(listeners)
        /\ \A d \in Conn : pc[d] \in Proxying => pc'[d] = pc[d]
        /\ vis' = [w \in Visitor |->
                     IF w \in Stored \/ \E c \in listeners : w \in Queued(c)
                     THEN "closed" ELSE vis[w]]
    BY <1>9 DEF Shutdown, TypeOK, Proxying
  <2>2. \A d \in Conn, w \in Visitor : Takes(d, w) => Takes(d, w)'
    BY <2>1 DEF Takes
  <2>3. \A d \in Conn : d \notin listeners => Queued(d)' = Queued(d)
    BY <2>1 DEF CloseListeners, Queued
  <2>4. \A w \in Visitor : Held(w) /\ vis'[w] = "open" => Held(w)'
    BY <2>1, <2>2, <2>3 DEF Held
  <2> QED
    BY <2>1, <2>4, ForgetRule
<1>10. ASSUME NEW c \in Conn, SessionStep(c), ~HeartbeatThenTake(c), ~SendFails(c)
       PROVE  OnlyExpiryForgets'
  <2>1. UNCHANGED <<queue, conns, expired, issued, vis, taken>>
    BY <1>10 DEF SessionStep, SendChallenge, HandshakeFails, Refuse, RecvNothing,
       BindOk, BindFails, SendHello, HeartbeatThenWait, AcceptTimeout, Announce, Flushed
  <2>2. \E label : Goto(c, label) /\ (pc[c] \in Proxying <=> label \in Proxying)
    BY <1>10 DEF SessionStep, SendChallenge, HandshakeFails, Refuse, RecvNothing,
       BindOk, BindFails, SendHello, HeartbeatThenWait, AcceptTimeout, Announce, Flushed,
       Proxying
  <2> QED
    BY <1>1, <2>1, <2>2, TakesFrame
<1>11. ASSUME NEW c \in Conn,
              \/ Connect(c) \/ HandshakeOk(c) \/ \E p \in Request : RecvHello(c, p)
              \/ \E id \in Id : RecvUnknownAccept(c, id)
       PROVE  OnlyExpiryForgets'
  <2>1. UNCHANGED <<queue, conns, expired, issued, vis, taken>>
    BY <1>11 DEF Connect, HandshakeOk, RecvHello, RecvUnknownAccept
  <2>2. \E label : Goto(c, label) /\ (pc[c] \in Proxying <=> label \in Proxying)
    BY <1>11 DEF Connect, HandshakeOk, RecvHello, RecvUnknownAccept, Proxying
  <2> QED
    BY <1>1, <2>1, <2>2, TakesFrame
<1>12. ASSUME \/ \E c \in Conn : ClientCloses(c) \/ ClientResets(c)
              \/ \E v \in Visitor : VisitorResets(v)
              \/ UNCHANGED vars
       PROVE  OnlyExpiryForgets'
  BY <1>1, <1>12 DEF ClientCloses, ClientResets, VisitorResets, Takes, vars
<1> QED
  BY <1>2, <1>3, <1>4, <1>5, <1>6, <1>7, <1>8, <1>9, <1>10, <1>11, <1>12
  DEF Next, Environment, ClientStep

\* The stale timer is the only way an open socket of a visitor is lost sight
\* of: every other step that lets one go destroys it or hands it on.
THEOREM ForgetCorrect == Spec => []OnlyExpiryForgets
<1>1. Init => TypeOK /\ Own /\ OnlyExpiryForgets
  BY TypeInit, OwnInit DEF Init, OnlyExpiryForgets
<1>2. TypeOK /\ Own /\ OnlyExpiryForgets /\ [Next]_vars
        => TypeOK' /\ Own' /\ OnlyExpiryForgets'
  BY TypeStep, OwnStep, ForgetStep
<1> QED
  BY <1>1, <1>2, PTL DEF Spec

-----------------------------------------------------------------------------
(* The registry of tunnel listeners. *)

LEMMA RegistryStep == TypeOK /\ RegistryExact /\ [Next]_vars => RegistryExact'
<1> SUFFICES ASSUME TypeOK, RegistryExact, [Next]_vars PROVE RegistryExact'
  OBVIOUS
<1> USE DEF vars, sessionVars, listenerVars, mapVars
<1>1. ASSUME UNCHANGED <<lsn, listeners>> PROVE RegistryExact'
  BY <1>1 DEF RegistryExact
<1>2. ASSUME NEW c \in Conn, BindOk(c) PROVE RegistryExact'
  BY <1>2 DEF BindOk, RegistryExact, TypeOK
<1>3. ASSUME NEW c \in Conn, SendFails(c) PROVE RegistryExact'
  BY <1>3 DEF SendFails, Finally, CloseListeners, RegistryExact
<1>4. CASE Shutdown
  BY <1>4 DEF Shutdown, CloseListeners, RegistryExact
<1>5. ASSUME NEW c \in Conn, SessionStep(c), ~BindOk(c), ~SendFails(c)
      PROVE  UNCHANGED <<lsn, listeners>>
  BY <1>5 DEF SessionStep, SendChallenge, HandshakeFails, Refuse, RecvNothing,
     BindFails, SendHello, HeartbeatThenWait, HeartbeatThenTake, AcceptTimeout,
     Announce, Flushed
<1>6. ASSUME NEW c \in Conn,
             \/ Connect(c) \/ ClientStep(c) \/ CopyEnds(c)
             \/ ClientCloses(c) \/ ClientResets(c)
      PROVE  UNCHANGED <<lsn, listeners>>
  BY <1>6 DEF Connect, ClientStep, CopyEnds, ClientCloses, ClientResets,
     HandshakeOk, RecvHello, RecvAccept, RecvUnknownAccept
<1>7. ASSUME NEW v \in Visitor, NEW c \in Conn,
             VisitorResets(v) \/ ArriveQueued(v, c) \/ ArriveAccepted(v, c)
      PROVE  UNCHANGED <<lsn, listeners>>
  BY <1>7 DEF VisitorResets, ArriveQueued, ArriveAccepted
<1>8. ASSUME NEW v \in Visitor, VisitorResets(v)
      PROVE  UNCHANGED <<lsn, listeners>>
  BY <1>8 DEF VisitorResets
<1>9. ASSUME NEW id \in Id, Expire(id) PROVE UNCHANGED <<lsn, listeners>>
  BY <1>9 DEF Expire
<1>10. CASE UNCHANGED vars
  BY <1>1, <1>10
<1> QED
  BY <1>1, <1>2, <1>3, <1>4, <1>5, <1>6, <1>7, <1>8, <1>9, <1>10
  DEF Next, Environment

\* Server.listeners holds every open tunnel listener and no other, through
\* failed sends, timeouts and shutdown.
THEOREM RegistryCorrect == Spec => []RegistryExact
<1>1. Init => RegistryExact
  BY DEF Init, RegistryExact
<1> QED
  BY <1>1, TypeInit, TypeStep, RegistryStep, PTL DEF Spec

-----------------------------------------------------------------------------
(* The ports.  What was asked for has passed the check of the range once the *)
(* session binds, and does not change once there is a tunnel.                *)

Early == {"idle", "challenging", "proving", "receiving", "binding"}
Asked == \A c \in Conn : pc[c] = "binding" => want[c] = 0 \/ InRange(want[c])
Unbound == \A c \in Conn : pc[c] \in Early => lsn[c] # "open"
Ports == Asked /\ Unbound /\ PortAllowed

LEMMA PortStep == TypeOK /\ Ports /\ [Next]_vars => Ports'
<1> SUFFICES ASSUME TypeOK, Ports, [Next]_vars PROVE Ports'
  OBVIOUS
<1> USE DEF vars, sessionVars, listenerVars, mapVars, Goto
<1> DEFINE Rebinds == \A c \in Conn : pc'[c] = "binding" => pc[c] = "binding"
           Advances == \A c \in Conn : pc'[c] \in Early => pc[c] \in Early
           Opens == \A c \in Conn : lsn'[c] = "open" => lsn[c] = "open"
<1>1. ASSUME UNCHANGED want, Rebinds PROVE Asked'
  BY <1>1 DEF Ports, Asked, InRange
<1>2. ASSUME UNCHANGED <<port, want>>, Opens PROVE PortAllowed'
  BY <1>2 DEF Ports, PortAllowed, InRange
<1>14. ASSUME Advances, Opens PROVE Unbound'
  BY <1>14 DEF Ports, Unbound
<1>3. ASSUME NEW c \in Conn, BindOk(c) PROVE Ports'
  <2>1. PICK q \in Candidate(c) : \E p \in PortsFor(q) :
               ~InUse(p) /\ port' = [port EXCEPT ![c] = p]
    BY <1>3 DEF BindOk
  <2>2. PICK p \in PortsFor(q) : port' = [port EXCEPT ![c] = p]
    BY <2>1
  <2>3. pc[c] = "binding" /\ UNCHANGED <<state, want>>
        /\ lsn' = [lsn EXCEPT ![c] = "open"] /\ pc' = [pc EXCEPT ![c] = "greeting"]
    BY <1>3 DEF BindOk
  <2>4. Asked'
    BY <1>1, <2>3 DEF TypeOK
  <2>5. Unbound'
    BY <2>3 DEF Ports, Unbound, Early, TypeOK
  <2>6. CASE want[c] # 0
    <3>1. InRange(want[c]) /\ q = want[c]
      BY <2>3, <2>6 DEF Ports, Asked, Candidate
    <3>2. p = want[c]
      BY <2>6, <3>1 DEF PortsFor
    <3> QED
      BY <2>2, <2>3, <2>4, <2>5, <2>6, <3>1, <3>2 DEF Ports, PortAllowed, InRange, TypeOK
  <2>7. CASE want[c] = 0
    <3>1. q \in MinPort .. MaxPort
      BY <2>7 DEF Candidate
    <3>2. InRange(p) \/ (MinPort = 0 /\ p \in Ephemeral)
      BY <3>1, PortAssumption DEF PortsFor, InRange
    <3> QED
      BY <2>2, <2>3, <2>4, <2>5, <2>7, <3>2 DEF Ports, PortAllowed, InRange, TypeOK
  <2> QED
    BY <2>6, <2>7
<1>4. ASSUME NEW c \in Conn, NEW p \in Request, RecvHello(c, p) PROVE Ports'
  <2>1. Asked'
    BY <1>4 DEF RecvHello, Ports, Asked, InRange, TypeOK
  <2>2. lsn[c] # "open"
    BY <1>4 DEF RecvHello, Ports, Unbound, Early
  <2>3. PortAllowed'
    BY <1>4, <2>2 DEF RecvHello, Ports, PortAllowed, InRange, TypeOK
  <2>4. Unbound'
    BY <1>4, <1>14 DEF RecvHello, Early, TypeOK
  <2> QED
    BY <2>1, <2>3, <2>4 DEF Ports
<1>5. ASSUME UNCHANGED <<want, port>>, Rebinds, Advances, Opens PROVE Ports'
  BY <1>1, <1>2, <1>5, <1>14 DEF Ports
<1>6. ASSUME NEW c \in Conn, SessionStep(c), ~BindOk(c) PROVE Ports'
  BY <1>5, <1>6 DEF SessionStep, SendChallenge, HandshakeFails, Refuse, RecvNothing,
     BindFails, SendHello, SendFails, Finally, CloseListeners, HeartbeatThenWait,
     HeartbeatThenTake, Admit, AcceptTimeout, Announce, Flushed, Early, TypeOK
<1>7. ASSUME NEW c \in Conn,
             \/ Connect(c) \/ HandshakeOk(c) \/ CopyEnds(c)
             \/ ClientCloses(c) \/ ClientResets(c)
      PROVE  Ports'
  BY <1>5, <1>7 DEF Connect, CopyEnds, ClientCloses, ClientResets, HandshakeOk, Early,
     TypeOK
<1>13. ASSUME NEW c \in Conn, NEW id \in Id,
              RecvAccept(c, id) \/ RecvUnknownAccept(c, id)
       PROVE  Ports'
  BY <1>5, <1>13 DEF RecvAccept, RecvUnknownAccept, Proxying, Early, TypeOK
<1>8. ASSUME NEW v \in Visitor, NEW c \in Conn,
             VisitorResets(v) \/ ArriveQueued(v, c) \/ ArriveAccepted(v, c)
      PROVE  Ports'
  BY <1>5, <1>8 DEF VisitorResets, ArriveQueued, ArriveAccepted, Admit, Early, TypeOK
<1>9. ASSUME NEW v \in Visitor, VisitorResets(v) PROVE Ports'
  BY <1>5, <1>9 DEF VisitorResets
<1>10. ASSUME NEW id \in Id, Expire(id) PROVE Ports'
  BY <1>5, <1>10 DEF Expire
<1>11. CASE Shutdown
  BY <1>5, <1>11 DEF Shutdown, CloseListeners, Early, TypeOK
<1>12. CASE UNCHANGED vars
  BY <1>5, <1>12
<1> QED
  BY <1>3, <1>4, <1>6, <1>7, <1>8, <1>9, <1>10, <1>11, <1>12, <1>13
  DEF Next, Environment, ClientStep

\* The port of a tunnel is the one its client asked for, in the operator's range,
\* or was drawn from the range, for every range, every request, and whatever
\* other listeners and other processes hold.
THEOREM PortsCorrect == Spec => []PortAllowed
<1>1. Init => Ports
  BY DEF Init, Ports, Asked, Unbound, PortAllowed
<1>2. Ports => PortAllowed
  BY DEF Ports
<1> QED
  BY <1>1, <1>2, TypeInit, TypeStep, PortStep, PTL DEF Spec
=============================================================================
