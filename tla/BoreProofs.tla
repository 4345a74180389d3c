----------------------------- MODULE BoreProofs -----------------------------
(***************************************************************************)
(* Client and server together implement the tunnel, for any number of      *)
(* visitors and ids, whatever dies, is lost or comes late.                 *)
(***************************************************************************)
EXTENDS Bore, SequenceTheorems, TLAPS

(* The queue of the session and the frames on the way are lists: each of      *)
(* their members is there once.                                              *)

\* The list q has the members of C, each once.
Members(q) == {q[i] : i \in DOMAIN q}
Lists(q, C) == Members(q) = C /\ \A i, j \in DOMAIN q : q[i] = q[j] => i = j

LEMMA EmptyLists == Lists(<<>>, {})
  BY DEF Lists, Members

LEMMA NonemptyLists ==
  ASSUME NEW S, NEW q \in Seq(S), q # <<>>, NEW C, Lists(q, C)
  PROVE  Head(q) \in C
  BY DEF Lists, Members

LEMMA AppendLists ==
  ASSUME NEW S, NEW q \in Seq(S), NEW C, NEW x \in S, x \notin C, Lists(q, C)
  PROVE  Lists(Append(q, x), C \cup {x})
<1> DEFINE t == Append(q, x)
<1>1. /\ Len(q) + 1 \notin DOMAIN q /\ DOMAIN t = DOMAIN q \cup {Len(q) + 1}
      /\ \A i \in DOMAIN q : t[i] = q[i] /\ q[i] # x
      /\ t[Len(q) + 1] = x
  BY DEF Lists, Members
<1> HIDE DEF t
<1>2. Members(t) = Members(q) \cup {x}
  BY <1>1 DEF Members
<1> QED
  BY <1>1, <1>2 DEF Lists, t

\* t is q without its entry at k.
LEMMA FewerLists ==
  ASSUME NEW S, NEW q \in Seq(S), NEW C, Lists(q, C), NEW k \in DOMAIN q, NEW t,
         DOMAIN t = 1 .. Len(q) - 1,
         \A j \in DOMAIN t : t[j] = IF j < k THEN q[j] ELSE q[j + 1]
  PROVE  Lists(t, C \ {q[k]})
<1> DEFINE n == Len(q)
           at(j) == IF j < k THEN j ELSE j + 1
<1>1. n \in Nat /\ DOMAIN q = 1 .. n /\ k \in 1 .. n /\ DOMAIN t = 1 .. n - 1
  OBVIOUS
<1> HIDE DEF n
<1>2. \A j \in DOMAIN t : at(j) \in DOMAIN q \ {k} /\ t[j] = q[at(j)]
  BY <1>1
<1>3. \A i, j \in DOMAIN t : at(i) = at(j) => i = j
  BY <1>1
<1>4. \A i \in DOMAIN q \ {k} : \E j \in DOMAIN t : at(j) = i
  <2> TAKE i \in DOMAIN q \ {k}
  <2>1. i < k => i \in DOMAIN t /\ at(i) = i
    BY <1>1
  <2>2. ~(i < k) => i - 1 \in DOMAIN t /\ at(i - 1) = i
    BY <1>1
  <2> QED
    BY <2>1, <2>2
<1> HIDE DEF at
<1> QED
  BY <1>2, <1>3, <1>4 DEF Lists, Members

LEMMA TailLists ==
  ASSUME NEW S, NEW q \in Seq(S), q # <<>>, NEW C, Lists(q, C)
  PROVE  Lists(Tail(q), C \ {Head(q)})
<1> DEFINE t == Tail(q)
<1>1. /\ 1 \in DOMAIN q /\ Head(q) = q[1] /\ DOMAIN t = 1 .. Len(q) - 1
      /\ \A j \in DOMAIN t : t[j] = IF j < 1 THEN q[j] ELSE q[j + 1]
  OBVIOUS
<1> HIDE DEF t
<1>2. Lists(t, C \ {q[1]})
  BY <1>1, FewerLists
<1> QED
  BY <1>1, <1>2 DEF t
-----------------------------------------------------------------------------
LEMMA TypeInit == Init => TypeOK
<1>1. <<>> \in Seq(Visitor) /\ <<>> \in Seq(Id)
  OBVIOUS
<1> QED
  BY <1>1, NoneAssumption DEF Init, TypeOK

LEMMA ResetType ==
  ASSUME TypeOK, NEW l, l \in {"ended", "lost", "gone", "up"}, Reset(l)
  PROVE  link' \in {"up", "ended", "gone", "lost"} /\ control' \in Seq(Id)
<1>1. ASSUME NEW n \in 0 .. Len(control) PROVE SubSeq(control, 1, n) \in Seq(Id)
  BY DEF TypeOK
<1> QED
  BY <1>1 DEF Reset, TypeOK

LEMMA TypeStep == TypeOK /\ [Next]_vars => TypeOK'
<1> SUFFICES ASSUME TypeOK, [Next]_vars PROVE TypeOK'
  OBVIOUS
<1> USE DEF TypeOK, processVars, linkVars, loopVars, mapVars, visitorVars,
            taskVars, sessionVars
<1>1. ASSUME NEW v \in Visitor, Arrive(v) \/ VisitorEnds(v) PROVE TypeOK'
  <2>1. CASE Arrive(v)
    <3>1. queue' \in Seq(Visitor)
      BY <2>1, AppendProperties DEF Arrive
    <3> QED
      BY <2>1, <3>1 DEF Arrive
  <2>2. CASE VisitorEnds(v)
    BY <2>2 DEF VisitorEnds
  <2> QED
    BY <1>1, <2>1, <2>2
<1>2. ASSUME NEW id \in Id, Take(id) PROVE TypeOK'
  <2>1. queue' \in Seq(Visitor) /\ Head(queue) \in Visitor
    BY <1>2, HeadTailProperties DEF Take
  <2> QED
    BY <1>2, <2>1 DEF Take
<1>3. CASE Announce
  <2>1. control' \in Seq(Id)
    BY <1>3, AppendProperties DEF Announce
  <2> QED
    BY <1>3, <2>1 DEF Announce
<1>4. CASE LoopEnds
  <2>1. queue' \in Seq(Visitor)
    BY <1>4 DEF LoopEnds
  <2> QED
    BY <1>4, <2>1 DEF LoopEnds
<1>5. ASSUME NEW id \in Id, Expire(id) \/ RecvAccept(id) \/ SessionEnds(id)
      PROVE TypeOK'
  <2>1. CASE Expire(id)
    BY <2>1 DEF Expire
  <2>2. CASE RecvAccept(id)
    BY <2>2 DEF RecvAccept
  <2>3. CASE SessionEnds(id)
    BY <2>3 DEF SessionEnds
  <2> QED
    BY <1>5, <2>1, <2>2, <2>3
<1>6. ASSUME NEW id \in Id, ProxyEnds(id) \/ ProxyLost(id) PROVE TypeOK'
  BY <1>6 DEF ProxyEnds, ProxyLost, Drop
<1>7. ASSUME NEW id \in Id, TaskStep(id) \/ LocalEnds(id) \/ CopyEnds(id) \/ CopyLost(id)
      PROVE TypeOK'
  <2>1. CASE Dialed(id)
    BY <2>1 DEF Dialed, Goes
  <2>2. CASE SendAccept(id) \/ LocalConnected(id) \/ TaskFails(id)
    BY <2>2 DEF SendAccept, LocalConnected, TaskFails, Goes
  <2>3. CASE LocalEnds(id) \/ CopyEnds(id) \/ CopyLost(id)
    BY <2>3 DEF LocalEnds, CopyEnds, CopyLost, Goes
  <2> QED
    BY <1>7, <2>1, <2>2, <2>3 DEF TaskStep
<1>8. CASE RecvConnection
  <2>1. control' \in Seq(Id) /\ Head(control) \in Id
    BY <1>8, HeadTailProperties DEF RecvConnection
  <2> QED
    BY <1>8, <2>1 DEF RecvConnection, Goes
<1>9. CASE ClientDies \/ Exits
  BY <1>9 DEF ClientDies, Exits, ClientEnds
<1>10. CASE ServerDies
  <2>1. link' \in {"up", "ended", "gone", "lost"} /\ control' \in Seq(Id)
    BY <1>10, ResetType DEF ServerDies
  <2>2. queue' \in Seq(Visitor)
    BY <1>10 DEF ServerDies
  <2> QED
    BY <1>10, <2>1, <2>2 DEF ServerDies
<1>11. CASE LinkLost
  BY <1>11, ResetType DEF LinkLost
<1>12. CASE UNCHANGED vars
  BY <1>12 DEF vars
<1> QED
  BY <1>1, <1>2, <1>3, <1>4, <1>5, <1>6, <1>7, <1>8, <1>9, <1>10, <1>11, <1>12
     DEF Next, LoopStep

\* The types of the variables.
THEOREM TypeCorrect == Spec => []TypeOK
  BY TypeInit, TypeStep, PTL DEF Spec

-----------------------------------------------------------------------------
(* Where a visitor's socket is: in the queue, in conns, or with the one     *)
(* session that has taken it.                                               *)

\* A visitor is queued once, or stored under one id, and then nobody has
\* taken it; and nobody else ever takes what one session has taken.
Once ==
  /\ Lists(queue, Queued)
  /\ Queued \cap Stored = {}
  /\ \A id, jd \in Id : conns[id] # NoVisitor /\ conns[id] = conns[jd] => id = jd
  /\ \A id, jd \in Id : taken[id] # NoVisitor /\ taken[id] = taken[jd] => id = jd
  /\ \A id \in Id : taken[id] \notin Queued \cup Stored

\* What is held is open, and what was taken has arrived.
Open ==
  /\ \A v \in Queued \cup Stored : vis[v] = "open"
  /\ \A id \in Id : session[id] = "proxying" => vis[taken[id]] = "open"
  /\ \A id \in Id : taken[id] # NoVisitor => vis[taken[id]] # "new"

\* An id stores nothing before it is issued, a session has taken nothing
\* before it proxies.
Early ==
  /\ \A id \in Id : issued[id] = NoVisitor => conns[id] = NoVisitor
  /\ \A id \in Id : session[id] \in {"none", "receiving"} => taken[id] = NoVisitor

Owns == Once /\ Open /\ Early

LEMMA QueuedMembers == Queued = Members(queue)
  BY DEF Queued, Members

\* What is queued, stored, taken and open, and which sessions proxy.
ownVars == <<queue, conns, issued, vis, session, taken>>

LEMMA OwnsFrame == Owns /\ UNCHANGED ownVars => Owns'
  BY DEF Owns, Once, Open, Early, Queued, Stored, ownVars, Lists, Members

LEMMA OwnsInit == Init => Owns
<1> SUFFICES ASSUME Init PROVE Owns
  OBVIOUS
<1>1. Queued = {} /\ Stored = {}
  BY DEF Init, Queued, Stored
<1>2. Lists(queue, Queued)
  BY <1>1, EmptyLists DEF Init
<1> QED
  BY <1>1, <1>2 DEF Init, Owns, Once, Open, Early

LEMMA OwnsArrive ==
  ASSUME TypeOK, Owns, NEW v \in Visitor, Arrive(v)
  PROVE  /\ Owns' /\ Queued' = Queued \cup {v} /\ Stored' = Stored
         /\ v \notin Queued \cup Stored
<1>1. v \notin Queued \cup Stored /\ \A id \in Id : taken[id] # v
  BY NoneAssumption DEF Owns, Open, Arrive
<1>2. Stored' = Stored
  BY DEF Arrive, Stored, mapVars
<1>3. Lists(queue', Queued \cup {v})
  BY <1>1, AppendLists DEF Arrive, Owns, Once, TypeOK
<1>4. Queued' = Queued \cup {v}
  BY <1>3 DEF Lists, Members, Queued
<1> QED
  BY <1>1, <1>2, <1>3, <1>4
     DEF Owns, Once, Open, Early, Arrive, mapVars, sessionVars, TypeOK

\* The head of the queue becomes an entry of conns: it waits as before.
LEMMA OwnsTake ==
  ASSUME TypeOK, Owns, NEW id \in Id, Take(id)
  PROVE  Owns' /\ Queued' \cup Stored' = Queued \cup Stored
<1> DEFINE v == Head(queue)
<1>1. v \in Queued /\ v \in Visitor
  BY NonemptyLists, HeadTailProperties DEF Take, Owns, Once, TypeOK
<1>2. Lists(queue', Queued \ {v})
  BY TailLists DEF Take, Owns, Once, TypeOK
<1>3. Queued' = Queued \ {v}
  BY <1>2 DEF Lists, Members, Queued
<1>4. conns[id] = NoVisitor /\ conns' = [conns EXCEPT ![id] = v]
  BY DEF Take, Fresh, Owns, Early
<1>5. Stored' = Stored \cup {v}
  BY <1>1, <1>4, NoneAssumption DEF Stored, TypeOK
<1>6. \A jd \in Id : conns[jd] # v
  BY <1>1, NoneAssumption DEF Owns, Once, Stored
<1>7. Once'
  BY <1>1, <1>2, <1>3, <1>4, <1>5, <1>6, NoneAssumption
     DEF Owns, Once, Take, sessionVars, TypeOK
<1>8. Open' /\ Early'
  BY <1>1, <1>3, <1>4, <1>5, NoneAssumption
     DEF Owns, Open, Early, Take, sessionVars, visitorVars, TypeOK
<1> QED
  BY <1>1, <1>3, <1>5, <1>7, <1>8 DEF Owns

\* The sockets of V are closed, and nothing refers to them any more.
LEMMA OwnsLoopEnds ==
  ASSUME TypeOK, Owns, LoopEnds
  PROVE  Owns' /\ Queued' = {} /\ Stored' = Stored
<1>1. Queued' = {} /\ Stored' = Stored
  BY DEF LoopEnds, Queued, Stored, mapVars
<1>2. Lists(queue', Queued')
  BY <1>1, EmptyLists DEF LoopEnds
<1>3. Once' /\ Early'
  BY <1>1, <1>2 DEF Owns, Once, Early, LoopEnds, mapVars, sessionVars, TypeOK
<1>4. ASSUME NEW v \in Visitor, v \notin Queued PROVE vis'[v] = vis[v]
  BY <1>4 DEF LoopEnds
<1>5. Stored \subseteq Visitor \ Queued /\ \A id \in Id : taken[id] \notin Queued
  BY DEF Owns, Once, Stored, TypeOK
<1>6. Open'
  BY <1>1, <1>4, <1>5 DEF Owns, Open, LoopEnds, sessionVars, TypeOK
<1> QED
  BY <1>1, <1>3, <1>6 DEF Owns

\* One entry of conns goes.
LEMMA Unstore ==
  ASSUME TypeOK, Owns, NEW id \in Id, conns' = [conns EXCEPT ![id] = NoVisitor]
  PROVE  Stored' = Stored \ {conns[id]}
<1>1. ASSUME NEW v, v \in Stored \ {conns[id]} PROVE v \in Stored'
  <2>1. PICK jd \in Id : conns[jd] = v
    BY <1>1 DEF Stored
  <2>2. conns'[jd] = v
    BY <1>1, <2>1 DEF TypeOK
  <2> QED
    BY <1>1, <2>1, <2>2 DEF Stored
<1>2. ASSUME NEW v, v \in Stored' PROVE v \in Stored \ {conns[id]}
  <2>1. PICK jd \in Id : conns'[jd] = v /\ v # NoVisitor
    BY <1>2 DEF Stored
  <2>2. jd # id /\ conns[jd] = v
    BY <2>1 DEF TypeOK
  <2>3. v # conns[id]
    BY <2>1, <2>2 DEF Owns, Once
  <2> QED
    BY <2>1, <2>2, <2>3 DEF Stored
<1> QED
  BY <1>1, <1>2

LEMMA OwnsExpire ==
  ASSUME TypeOK, Owns, NEW id \in Id, Expire(id)
  PROVE  Owns' /\ Queued' = Queued /\ Stored' = Stored \ {conns[id]}
<1>1. Stored' = Stored \ {conns[id]}
  BY Unstore DEF Expire
<1>2. Queued' = Queued
  BY DEF Expire, Queued, loopVars
<1> QED
  BY <1>1, <1>2
     DEF Owns, Once, Open, Early, Expire, loopVars, sessionVars, visitorVars, TypeOK

LEMMA OwnsRecvAccept ==
  ASSUME TypeOK, Owns, NEW id \in Id, RecvAccept(id)
  PROVE  /\ Owns' /\ Queued' = Queued /\ Stored' = Stored \ {conns[id]}
         /\ taken[id] = NoVisitor
<1>1. Stored' = Stored \ {conns[id]}
  BY Unstore DEF RecvAccept
<1>2. Queued' = Queued
  BY DEF RecvAccept, Queued, loopVars
<1>3. taken[id] = NoVisitor
  BY DEF RecvAccept, Owns, Early
<1>4. /\ conns' = [conns EXCEPT ![id] = NoVisitor]
      /\ taken' = [taken EXCEPT ![id] = conns[id]]
      /\ UNCHANGED <<queue, vis, issued>>
  BY DEF RecvAccept, loopVars, visitorVars
<1>5. conns[id] # NoVisitor =>
        conns[id] \in Stored /\ vis[conns[id]] = "open" /\ \A jd \in Id : taken[jd] # conns[id]
  BY DEF Owns, Once, Open, Stored
<1>6. NoVisitor \notin Queued \cup Stored
  BY NoneAssumption DEF Queued, Stored, TypeOK
<1>7. Once'
  BY <1>1, <1>2, <1>3, <1>4, <1>5, <1>6 DEF Owns, Once, TypeOK
<1>8. Open' /\ Early'
  BY <1>1, <1>2, <1>3, <1>4, <1>5 DEF Owns, Open, Early, RecvAccept, TypeOK
<1> QED
  BY <1>1, <1>2, <1>3, <1>7, <1>8 DEF Owns

LEMMA OwnsDrop ==
  ASSUME TypeOK, Owns, NEW id \in Id, session[id] = "proxying", Drop(id)
  PROVE  Owns' /\ Queued' = Queued /\ Stored' = Stored
<1>1. Queued' = Queued /\ Stored' = Stored
  BY DEF Drop, Queued, Stored, loopVars, mapVars
<1>2. UNCHANGED <<queue, conns, issued, taken>>
  BY DEF Drop, loopVars, mapVars
<1>3. taken[id] # NoVisitor /\ taken[id] \notin Queued \cup Stored
  BY DEF Owns, Once, TypeOK
<1> QED
  BY <1>1, <1>2, <1>3 DEF Owns, Once, Open, Early, Drop, TypeOK

LEMMA OwnsServerDies ==
  ASSUME TypeOK, Owns, ServerDies
  PROVE  Owns' /\ Queued' = {} /\ Stored' = {}
<1>1. Queued' = {} /\ Stored' = {}
  BY DEF ServerDies, Queued, Stored
<1>2. Lists(queue', Queued')
  BY <1>1, EmptyLists DEF ServerDies
<1> QED
  BY <1>1, <1>2 DEF Owns, Once, Open, Early, ServerDies, TypeOK

\* A task that has not dialed has no session.
Undialed == \A id \in Id : task[id] \in {"none", "dialing"} => session[id] = "none"

LEMMA UndialedInit == Init => Undialed
  BY DEF Init, Undialed

LEMMA UndialedStep == TypeOK /\ Undialed /\ [Next]_vars => Undialed'
<1> SUFFICES ASSUME TypeOK, Undialed, [Next]_vars PROVE Undialed'
  OBVIOUS
<1> USE DEF Undialed, TypeOK
<1>1. ASSUME NEW v \in Visitor, Arrive(v) \/ VisitorEnds(v) PROVE Undialed'
  BY <1>1 DEF Arrive, VisitorEnds, taskVars, sessionVars
<1>2. ASSUME NEW id \in Id, Take(id) \/ Expire(id) \/ LocalEnds(id) PROVE Undialed'
  BY <1>2 DEF Take, Expire, LocalEnds, taskVars, sessionVars
<1>3. ASSUME NEW id \in Id, RecvAccept(id) \/ SessionEnds(id) PROVE Undialed'
  BY <1>3 DEF RecvAccept, SessionEnds, taskVars
<1>4. ASSUME NEW id \in Id, ProxyEnds(id) \/ ProxyLost(id) PROVE Undialed'
  BY <1>4 DEF ProxyEnds, ProxyLost, Drop, taskVars
<1>5. ASSUME NEW id \in Id, Dialed(id) PROVE Undialed'
  BY <1>5 DEF Dialed, Goes
<1>6. ASSUME NEW id \in Id, \/ SendAccept(id) \/ LocalConnected(id) \/ TaskFails(id)
                            \/ CopyEnds(id) \/ CopyLost(id)
      PROVE  Undialed'
  BY <1>6 DEF SendAccept, LocalConnected, TaskFails, CopyEnds, CopyLost, Goes, sessionVars
<1>7. CASE Announce \/ LoopEnds \/ LinkLost \/ UNCHANGED vars
  BY <1>7 DEF Announce, LoopEnds, LinkLost, vars, taskVars, sessionVars
<1>8. CASE RecvConnection
  BY <1>8 DEF RecvConnection, Goes, sessionVars
<1>9. CASE ClientDies \/ Exits
  BY <1>9 DEF ClientDies, Exits, ClientEnds, sessionVars
<1>10. CASE ServerDies
  BY <1>10 DEF ServerDies, taskVars
<1> QED
  BY <1>1, <1>2, <1>3, <1>4, <1>5, <1>6, <1>7, <1>8, <1>9, <1>10
     DEF Next, LoopStep, TaskStep

LEMMA OwnsStep == TypeOK /\ Undialed /\ Owns /\ [Next]_vars => Owns'
<1> SUFFICES ASSUME TypeOK, Undialed, Owns, [Next]_vars PROVE Owns'
  OBVIOUS
<1>1. ASSUME NEW v \in Visitor, VisitorEnds(v) PROVE UNCHANGED ownVars
  BY <1>1 DEF VisitorEnds, ownVars, loopVars, mapVars, sessionVars
<1>2. CASE Announce \/ RecvConnection \/ ClientDies \/ Exits \/ LinkLost \/ UNCHANGED vars
  <2>1. UNCHANGED ownVars
    BY <1>2 DEF Announce, RecvConnection, ClientDies, Exits, ClientEnds, LinkLost, ownVars,
                loopVars, mapVars, visitorVars, sessionVars, vars
  <2> QED
    BY <2>1, OwnsFrame
<1>3. ASSUME NEW id \in Id, SessionEnds(id) \/ Dialed(id) PROVE Owns'
  <2>1. UNCHANGED <<queue, conns, issued, vis, taken>>
    BY <1>3 DEF SessionEnds, Dialed, loopVars, mapVars, visitorVars
  <2>2. Once'
    BY <2>1 DEF Owns, Once, Queued, Stored, Lists, Members
  <2>3. Open' /\ Early'
    <3>1. session[id] \in {"none", "receiving"}
      BY <1>3 DEF SessionEnds, Dialed, Goes, Undialed
    <3>2. taken[id] = NoVisitor
      BY <3>1 DEF Owns, Early
    <3>3. \E s \in {"receiving", "done"} : session' = [session EXCEPT ![id] = s]
      BY <1>3 DEF SessionEnds, Dialed
    <3> QED
      BY <2>1, <3>2, <3>3 DEF Owns, Open, Early, Queued, Stored, TypeOK
  <2> QED
    BY <2>2, <2>3 DEF Owns
<1>4. ASSUME NEW id \in Id, \/ SendAccept(id) \/ LocalConnected(id) \/ TaskFails(id)
                            \/ LocalEnds(id) \/ CopyEnds(id) \/ CopyLost(id)
      PROVE  UNCHANGED ownVars
  BY <1>4 DEF SendAccept, LocalConnected, TaskFails, LocalEnds, CopyEnds, CopyLost,
              ownVars, loopVars, mapVars, visitorVars, sessionVars
<1>5. ASSUME NEW id \in Id, ProxyEnds(id) \/ ProxyLost(id) PROVE Owns'
  BY <1>5, OwnsDrop DEF ProxyEnds, ProxyLost
<1> QED
  BY <1>1, <1>2, <1>3, <1>4, <1>5, OwnsFrame, OwnsArrive, OwnsTake, OwnsLoopEnds,
     OwnsExpire, OwnsRecvAccept, OwnsServerDies DEF Next, LoopStep, TaskStep

-----------------------------------------------------------------------------
(* Every step is a step of the tunnel, or none of its steps. *)

Stages == [v \in Visitor |-> Stage(v)]
Partners == [v \in Visitor |-> {id \in Id : taken[id] = v}]

\* A stage depends on three things.
LEMMA StageIs ==
  ASSUME NEW v \in Visitor
  PROVE  /\ vis[v] = "new" => Stage(v) = "new"
         /\ vis[v] = "closed" => Stage(v) = "over"
         /\ vis[v] = "open" /\ Waiting(v) => Stage(v) = "waiting"
         /\ vis[v] = "open" /\ ~Waiting(v) /\ Proxied(v) => Stage(v) = "joined"
         /\ vis[v] = "open" /\ ~Waiting(v) /\ ~Proxied(v) => Stage(v) = "forgotten"
  BY DEF Stage

LEMMA SameStage ==
  ASSUME TypeOK, TypeOK', NEW v \in Visitor, vis'[v] = vis[v],
         Waiting(v)' <=> Waiting(v), Proxied(v)' <=> Proxied(v)
  PROVE  Stage(v)' = Stage(v)
<1>1. vis[v] \in {"new", "open", "closed"}
  BY DEF TypeOK
<1>2. /\ vis'[v] = "new" => Stage(v)' = "new"
      /\ vis'[v] = "closed" => Stage(v)' = "over"
      /\ vis'[v] = "open" /\ Waiting(v)' => Stage(v)' = "waiting"
      /\ vis'[v] = "open" /\ ~Waiting(v)' /\ Proxied(v)' => Stage(v)' = "joined"
      /\ vis'[v] = "open" /\ ~Waiting(v)' /\ ~Proxied(v)' => Stage(v)' = "forgotten"
  BY DEF Stage
<1> QED
  BY <1>1, <1>2, StageIs

\* The visitor's stage and partners stay when where it waits, who proxies it
\* and its socket do.
LEMMA Stutter ==
  ASSUME TypeOK, TypeOK', UNCHANGED <<vis, taken>>, Queued' \cup Stored' = Queued \cup Stored,
         \A id \in Id : session[id] = "proxying" <=> session'[id] = "proxying"
  PROVE  UNCHANGED <<Stages, Partners>>
<1>1. ASSUME NEW v \in Visitor PROVE Stage(v)' = Stage(v)
  <2>1. (Waiting(v)' <=> Waiting(v)) /\ (Proxied(v)' <=> Proxied(v))
    BY DEF Waiting, Proxied
  <2> QED
    BY <2>1, SameStage
<1> QED
  BY <1>1 DEF Stages, Partners

LEMMA ArriveStep ==
  ASSUME TypeOK, TypeOK', Owns, NEW v \in Visitor, Arrive(v) PROVE Promise!Arrive(v)
<1>1. /\ Queued' = Queued \cup {v} /\ Stored' = Stored
      /\ vis[v] = "new" /\ vis' = [vis EXCEPT ![v] = "open"]
      /\ UNCHANGED <<session, taken>>
  BY OwnsArrive DEF Arrive, sessionVars
<1>2. Stage(v) = "new" /\ Stage(v)' = "waiting"
  BY <1>1 DEF Stage, Waiting, TypeOK
<1>3. ASSUME NEW w \in Visitor, w # v PROVE Stage(w)' = Stage(w)
  <2>1. (Waiting(w)' <=> Waiting(w)) /\ (Proxied(w)' <=> Proxied(w)) /\ vis'[w] = vis[w]
    BY <1>1, <1>3 DEF Waiting, Proxied, TypeOK
  <2> QED
    BY <2>1, SameStage
<1>4. Stages' = [Stages EXCEPT ![v] = "waiting"]
  BY <1>2, <1>3 DEF Stages
<1>5. UNCHANGED Partners
  BY <1>1 DEF Partners
<1> QED
  BY <1>2, <1>4, <1>5 DEF Promise!Arrive, Stages, Partners

LEMMA ExpireStep ==
  ASSUME TypeOK, TypeOK', Owns, NEW id \in Id, Expire(id),
         NEW v \in Visitor, conns[id] = v
  PROVE  Promise!Forget(v)
<1>1. /\ Queued' = Queued /\ Stored' = Stored \ {v}
      /\ UNCHANGED <<vis, session, taken>>
  BY OwnsExpire DEF Expire, visitorVars, sessionVars
<1>2. v \in Stored /\ v \notin Queued /\ vis[v] = "open"
  BY NoneAssumption DEF Owns, Once, Open, Stored
<1>3. ~Proxied(v)
  BY <1>2 DEF Proxied, Owns, Once
<1>4. Stage(v) = "waiting" /\ Stage(v)' = "forgotten"
  <2>1. Waiting(v) /\ ~Waiting(v)' /\ ~Proxied(v)' /\ vis'[v] = "open"
    BY <1>1, <1>2, <1>3 DEF Waiting, Proxied
  <2> QED
    BY <1>2, <2>1 DEF Stage
<1>5. ASSUME NEW w \in Visitor, w # v PROVE Stage(w)' = Stage(w)
  <2>1. (Waiting(w)' <=> Waiting(w)) /\ (Proxied(w)' <=> Proxied(w))
    BY <1>1, <1>5 DEF Waiting, Proxied
  <2> QED
    BY <1>1, <2>1, SameStage
<1>6. Stages' = [Stages EXCEPT ![v] = "forgotten"]
  BY <1>4, <1>5 DEF Stages
<1>7. UNCHANGED Partners
  BY <1>1 DEF Partners
<1> QED
  BY <1>2, <1>4, <1>6, <1>7 DEF Promise!Forget, Stages, Partners

LEMMA AcceptStep ==
  ASSUME TypeOK, TypeOK', Owns, NEW id \in Id, RecvAccept(id),
         NEW v \in Visitor, conns[id] = v
  PROVE  Promise!Join(v, id)
<1>1. /\ Queued' = Queued /\ Stored' = Stored \ {v} /\ taken[id] = NoVisitor
      /\ vis' = vis /\ taken' = [taken EXCEPT ![id] = v]
      /\ session' = [session EXCEPT ![id] = "proxying"] /\ session[id] # "proxying"
  BY OwnsRecvAccept, NoneAssumption DEF RecvAccept, visitorVars
<1>2. v \in Stored /\ v \notin Queued /\ vis[v] = "open"
  BY NoneAssumption DEF Owns, Once, Open, Stored
<1>3. \A jd \in Id : taken[jd] # v
  BY <1>2 DEF Owns, Once
<1>4. Stage(v) = "waiting" /\ Stage(v)' = "joined"
  <2>1. Waiting(v) /\ ~Waiting(v)' /\ vis'[v] = "open"
    BY <1>1, <1>2 DEF Waiting
  <2>2. Proxied(v)'
    BY <1>1 DEF Proxied, TypeOK
  <2> QED
    BY <1>2, <2>1, <2>2 DEF Stage
<1>5. ASSUME NEW w \in Visitor, w # v
      PROVE  /\ Stage(w)' = Stage(w)
             /\ {jd \in Id : taken'[jd] = w} = {jd \in Id : taken[jd] = w}
  <2>1. \A jd \in Id : taken'[jd] = w <=> taken[jd] = w
    BY <1>1, <1>5, NoneAssumption DEF TypeOK
  <2>2. (Waiting(w)' <=> Waiting(w)) /\ (Proxied(w)' <=> Proxied(w))
    BY <1>1, <1>5, <2>1 DEF Proxied, Waiting, TypeOK
  <2> QED
    BY <1>1, <2>1, <2>2, SameStage
<1>6. Stages' = [Stages EXCEPT ![v] = "joined"]
  BY <1>4, <1>5 DEF Stages
<1>7. {jd \in Id : taken'[jd] = v} = {id} /\ {jd \in Id : taken[jd] = v} = {}
  BY <1>1, <1>3 DEF TypeOK
<1>8. Partners' = [Partners EXCEPT ![v] = {id}]
  BY <1>5, <1>7 DEF Partners
<1>9. Partners[v] = {} /\ \A w \in Visitor : id \notin Partners[w]
  BY <1>1, <1>2, <1>7, NoneAssumption DEF Partners
<1> QED
  BY <1>2, <1>4, <1>6, <1>8, <1>9 DEF Promise!Join, Stages, Partners

LEMMA DropStep ==
  ASSUME TypeOK, TypeOK', Owns, NEW id \in Id, session[id] = "proxying", Drop(id),
         NEW v \in Visitor, taken[id] = v
  PROVE  Promise!Close({v})
<1>1. /\ Queued' = Queued /\ Stored' = Stored /\ UNCHANGED taken
      /\ vis' = [vis EXCEPT ![v] = "closed"] /\ session' = [session EXCEPT ![id] = "done"]
  BY OwnsDrop DEF Drop
<1>2. vis[v] = "open"
  BY DEF Owns, Open
<1>3. Stage(v) \in {"waiting", "joined", "forgotten"} /\ Stage(v)' = "over"
  BY <1>1, <1>2 DEF Stage, TypeOK
<1>4. ASSUME NEW w \in Visitor, w # v PROVE Stage(w)' = Stage(w)
  <2>1. (Waiting(w)' <=> Waiting(w)) /\ (Proxied(w)' <=> Proxied(w)) /\ vis'[w] = vis[w]
    BY <1>1, <1>4 DEF Proxied, Waiting, TypeOK
  <2> QED
    BY <2>1, SameStage
<1>5. Stages' = [w \in Visitor |-> IF w \in {v} THEN "over" ELSE Stages[w]]
  BY <1>3, <1>4 DEF Stages
<1>6. UNCHANGED Partners
  BY <1>1 DEF Partners
<1> QED
  BY <1>2, <1>3, <1>5, <1>6 DEF Promise!Close, Stages, Partners

\* Every socket of V is closed, and the rest waits and is proxied as before.
LEMMA CloseStep ==
  ASSUME TypeOK, TypeOK', NEW V \in SUBSET Visitor, UNCHANGED taken,
         \A v \in V : vis[v] = "open" /\ vis'[v] = "closed",
         \A w \in Visitor \ V : \/ vis'[w] = vis[w] /\ vis[w] \in {"new", "closed"}
                                \/ /\ vis'[w] = vis[w] /\ (Waiting(w)' <=> Waiting(w))
                                   /\ (Proxied(w)' <=> Proxied(w))
  PROVE  Promise!Close(V)
<1>1. ASSUME NEW v \in V
      PROVE  Stage(v) \in {"waiting", "joined", "forgotten"} /\ Stage(v)' = "over"
  BY DEF Stage
<1>2. ASSUME NEW w \in Visitor \ V PROVE Stage(w)' = Stage(w)
  <2>1. CASE vis'[w] = vis[w] /\ vis[w] \in {"new", "closed"}
    BY <2>1 DEF Stage
  <2> QED
    BY <2>1, SameStage
<1>3. Stages' = [w \in Visitor |-> IF w \in V THEN "over" ELSE Stages[w]]
  BY <1>1, <1>2 DEF Stages
<1>4. UNCHANGED Partners
  BY DEF Partners
<1> QED
  BY <1>1, <1>3, <1>4 DEF Promise!Close, Stages, Partners

LEMMA LoopEndsStep ==
  ASSUME TypeOK, TypeOK', Owns, LoopEnds PROVE Promise!Close(Queued)
<1>1. /\ Queued' = {} /\ Stored' = Stored /\ UNCHANGED <<session, taken>>
      /\ vis' = [v \in Visitor |-> IF v \in Queued THEN "closed" ELSE vis[v]]
  BY OwnsLoopEnds DEF LoopEnds, sessionVars
<1>2. Queued \in SUBSET Visitor
  BY DEF Queued, TypeOK
<1>3. \A v \in Queued : vis[v] = "open" /\ vis'[v] = "closed"
  BY <1>1, <1>2 DEF Owns, Open
<1>4. \A w \in Visitor \ Queued :
        vis'[w] = vis[w] /\ (Waiting(w)' <=> Waiting(w)) /\ (Proxied(w)' <=> Proxied(w))
  BY <1>1 DEF Waiting, Proxied
<1> QED
  BY <1>1, <1>2, <1>3, <1>4, CloseStep

LEMMA ServerDiesStep ==
  ASSUME TypeOK, TypeOK', Owns, ServerDies
  PROVE  Promise!Close({v \in Visitor : vis[v] = "open"})
<1> DEFINE V == {v \in Visitor : vis[v] = "open"}
<1>1. /\ UNCHANGED taken
      /\ vis' = [v \in Visitor |-> IF vis[v] = "open" THEN "closed" ELSE vis[v]]
  BY DEF ServerDies
<1>2. \A w \in Visitor \ V : vis'[w] = vis[w] /\ vis[w] \in {"new", "closed"}
  BY <1>1 DEF TypeOK
<1> QED
  BY <1>1, <1>2, CloseStep

LEMMA TunnelStep ==
  TypeOK /\ TypeOK' /\ Undialed /\ Owns /\ [Next]_vars => [Promise!Next]_(Promise!vars)
<1> SUFFICES ASSUME TypeOK, TypeOK', Undialed, Owns, [Next]_vars
             PROVE  Promise!Next \/ UNCHANGED <<Stages, Partners>>
  BY DEF Promise!vars, Stages, Partners
<1> DEFINE Same == UNCHANGED <<Stages, Partners>>
<1>1. ASSUME NEW v \in Visitor, Arrive(v) PROVE Promise!Next
  BY <1>1, ArriveStep DEF Promise!Next
<1>2. ASSUME UNCHANGED <<queue, conns, vis, taken>>,
             \A id \in Id : session[id] = "proxying" <=> session'[id] = "proxying"
      PROVE  UNCHANGED <<Stages, Partners>>
  <2>1. Queued' \cup Stored' = Queued \cup Stored
    BY <1>2 DEF Queued, Stored
  <2> QED
    BY <1>2, <2>1, Stutter
<1>3. ASSUME NEW v \in Visitor, VisitorEnds(v) PROVE Same
  BY <1>2, <1>3 DEF VisitorEnds, loopVars, mapVars, sessionVars
<1>4. ASSUME NEW id \in Id, Take(id) PROVE Same
  BY <1>4, OwnsTake, Stutter DEF Take, visitorVars, sessionVars
<1>5. ASSUME NEW id \in Id, Expire(id) PROVE Promise!Next \/ Same
  <2>1. CASE conns[id] = NoVisitor
    <3>1. conns' = conns
      BY <1>5, <2>1 DEF Expire, TypeOK
    <3> QED
      BY <1>2, <1>5, <3>1 DEF Expire, loopVars, visitorVars, sessionVars
  <2>2. CASE conns[id] # NoVisitor
    <3>1. conns[id] \in Visitor
      BY <2>2 DEF TypeOK
    <3> QED
      BY <1>5, <2>2, <3>1, ExpireStep DEF Promise!Next
  <2> QED
    BY <2>1, <2>2
<1>6. ASSUME NEW id \in Id, RecvAccept(id) PROVE Promise!Next \/ Same
  <2>1. CASE conns[id] = NoVisitor
    <3>1. conns' = conns /\ taken' = taken
      <4>1. taken[id] = NoVisitor
        BY <1>6, OwnsRecvAccept
      <4> QED
        BY <1>6, <2>1, <4>1 DEF RecvAccept, TypeOK
    <3>2. \A jd \in Id : session[jd] = "proxying" <=> session'[jd] = "proxying"
      BY <1>6, <2>1 DEF RecvAccept, TypeOK
    <3> QED
      BY <1>2, <1>6, <3>1, <3>2 DEF RecvAccept, loopVars, visitorVars
  <2>2. CASE conns[id] # NoVisitor
    <3>1. conns[id] \in Visitor
      BY <2>2 DEF TypeOK
    <3> QED
      BY <1>6, <2>2, <3>1, AcceptStep DEF Promise!Next
  <2> QED
    BY <2>1, <2>2
<1>7. ASSUME NEW id \in Id, SessionEnds(id) \/ Dialed(id) PROVE Same
  <2>1. session[id] \in {"none", "receiving"}
    BY <1>7 DEF SessionEnds, Dialed, Goes, Undialed
  <2>2. \E s \in {"receiving", "done"} : session' = [session EXCEPT ![id] = s]
    BY <1>7 DEF SessionEnds, Dialed
  <2>3. \A jd \in Id : session[jd] = "proxying" <=> session'[jd] = "proxying"
    BY <2>1, <2>2 DEF TypeOK
  <2> QED
    BY <1>2, <1>7, <2>3 DEF SessionEnds, Dialed, loopVars, mapVars, visitorVars
<1>8. ASSUME NEW id \in Id, ProxyEnds(id) \/ ProxyLost(id) PROVE Promise!Next
  <2>1. session[id] = "proxying" /\ Drop(id)
    BY <1>8 DEF ProxyEnds, ProxyLost
  <2>2. {taken[id]} \in SUBSET Visitor
    BY <2>1 DEF TypeOK
  <2> QED
    BY <2>1, <2>2, DropStep DEF Promise!Next
<1>9. ASSUME NEW id \in Id, \/ SendAccept(id) \/ LocalConnected(id) \/ TaskFails(id)
                            \/ LocalEnds(id) \/ CopyEnds(id) \/ CopyLost(id)
      PROVE  Same
  BY <1>2, <1>9 DEF SendAccept, LocalConnected, TaskFails, LocalEnds, CopyEnds, CopyLost,
                    loopVars, mapVars, visitorVars, sessionVars
<1>10. CASE Announce \/ RecvConnection \/ ClientDies \/ Exits \/ LinkLost \/ UNCHANGED vars
  BY <1>2, <1>10 DEF Announce, RecvConnection, ClientDies, Exits, ClientEnds, LinkLost,
                     loopVars, mapVars, visitorVars, sessionVars, vars
<1>11. CASE LoopEnds
  <2>1. Queued \in SUBSET Visitor
    BY DEF Queued, TypeOK
  <2> QED
    BY <1>11, <2>1, LoopEndsStep DEF Promise!Next
<1>12. CASE ServerDies
  <2>1. {v \in Visitor : vis[v] = "open"} \in SUBSET Visitor
    OBVIOUS
  <2> QED
    BY <1>12, <2>1, ServerDiesStep DEF Promise!Next
<1> QED
  BY <1>1, <1>3, <1>4, <1>5, <1>6, <1>7, <1>8, <1>9, <1>10, <1>11, <1>12
     DEF Next, LoopStep, TaskStep

LEMMA TunnelInit == Init => Promise!Init
<1> SUFFICES ASSUME Init PROVE Promise!Init
  OBVIOUS
<1>1. \A v \in Visitor : Stage(v) = "new"
  BY DEF Init, Stage
<1>2. \A v \in Visitor : {id \in Id : taken[id] = v} = {}
  BY NoneAssumption DEF Init
<1> QED
  BY <1>1, <1>2 DEF Promise!Init

\* Whatever dies, is lost or comes late, a visitor is served by one local
\* connection of its own, once, and is not served after it was given up or
\* closed: for any number of visitors and ids, client and server together
\* implement the tunnel.
THEOREM Refines == Spec => Implements
  BY TypeInit, TypeStep, UndialedInit, UndialedStep, OwnsInit, OwnsStep, TunnelInit,
     TunnelStep, PTL DEF Spec, Implements, Promise!Spec

-----------------------------------------------------------------------------
(* What a steady behaviour keeps: a visitor that is announced, or served, is *)
(* the server's to hand out.                                                 *)

Stays(id) == /\ conns[id] # NoVisitor /\ conns[id] = issued[id]
             /\ task[id] = "none" /\ session[id] = "none"

Announced == Members(control)

\* The id on its way is stored; no id is announced twice or before its time.
Control ==
  /\ Lists(control, Announced)
  /\ \A id \in Announced : Stays(id)
  /\ loop = "announcing" => cur \notin Announced /\ Stays(cur)
  /\ \A id \in Id : issued[id] = NoVisitor => task[id] = "none"

Serves(id) ==
  \/ conns[id] # NoVisitor /\ conns[id] = issued[id] /\ session[id] \in {"none", "receiving"}
  \/ session[id] = "proxying" /\ taken[id] = issued[id]
  \/ session[id] = "done" /\ taken[id] \in left

ActiveTask(id) == task[id] \notin {"none", "done"}

Smooth ==
  steady => /\ server = "up" /\ client = "up" /\ link = "up"
            /\ Control
            /\ \A id \in Id : ActiveTask(id) => Serves(id)

LEMMA SmoothInit == Init => Smooth
<1> SUFFICES ASSUME Init PROVE Smooth
  OBVIOUS
<1>1. Announced = {}
  BY DEF Init, Announced, Members
<1>2. Lists(control, Announced)
  BY <1>1, EmptyLists DEF Init
<1> QED
  BY <1>1, <1>2 DEF Init, Smooth, Control, ActiveTask

\* Steps that leave all of it alone.
smoothVars == <<steady, server, client, link, control, loop, cur, conns, issued,
                task, session, taken, left>>

LEMMA SmoothFrame == Smooth /\ UNCHANGED smoothVars => Smooth'
  BY DEF smoothVars, Smooth, Control, Serves, ActiveTask, Stays, Announced, Lists,
         Members

\* Steps of one task and its session, once the task has been started.
LEMMA SmoothTask ==
  ASSUME TypeOK, Smooth, NEW id \in Id, task[id] # "none",
         UNCHANGED <<steady, server, client, link, control, loop, cur, issued>>,
         \A jd \in Id \ {id} : /\ conns'[jd] = conns[jd] /\ task'[jd] = task[jd]
                               /\ session'[jd] = session[jd] /\ taken'[jd] = taken[jd],
         left' = left, issued[id] = NoVisitor => task'[id] = "none",
         steady /\ ActiveTask(id)' => Serves(id)'
  PROVE  Smooth'
<1> SUFFICES ASSUME steady PROVE Smooth'
  BY DEF Smooth
<1>1. Announced' = Announced /\ Announced \subseteq Id
  BY DEF Announced, Members, TypeOK
<1>2. Lists(control, Announced)' 
  BY <1>1 DEF Smooth, Control, Lists, Members
<1>3. \A jd \in Announced : jd # id /\ Stays(jd)'
  BY <1>1 DEF Smooth, Control, Stays
<1>4. loop' = "announcing" => cur' \notin Announced' /\ Stays(cur)'
  BY <1>1 DEF Smooth, Control, Stays, TypeOK
<1>5. Control'
  BY <1>1, <1>2, <1>3, <1>4 DEF Control, Smooth
<1>6. ASSUME NEW jd \in Id, ActiveTask(jd)' PROVE Serves(jd)'
  <2>1. CASE jd = id
    BY <1>6, <2>1
  <2>2. CASE jd # id
    BY <1>6, <2>2 DEF Smooth, Serves, ActiveTask
  <2> QED
    BY <2>1, <2>2
<1> QED
  BY <1>5, <1>6 DEF Smooth

LEMMA SmoothTake ==
  ASSUME TypeOK, Undialed, Owns, Smooth, NEW id \in Id, Take(id) PROVE Smooth'
<1> SUFFICES ASSUME steady PROVE Smooth'
  BY DEF Smooth, Take, processVars
<1>1. Head(queue) \in Visitor /\ Announced \subseteq Id
  BY HeadTailProperties DEF Take, TypeOK, Announced, Members
<1>2. /\ UNCHANGED <<steady, server, client, link, control, task, session, taken, left>>
      /\ conns' = [conns EXCEPT ![id] = Head(queue)]
      /\ issued' = [issued EXCEPT ![id] = Head(queue)]
      /\ loop' = "announcing" /\ cur' = id
  BY DEF Take, processVars, linkVars, visitorVars, taskVars, sessionVars
<1>3. issued[id] = NoVisitor /\ conns[id] = NoVisitor /\ task[id] = "none" /\ session[id] = "none"
  BY DEF Take, Fresh, Smooth, Control, Owns, Early, Undialed
<1>4. Announced' = Announced /\ Lists(control, Announced)'
  BY <1>2 DEF Announced, Smooth, Control, Lists, Members
<1>5. \A jd \in Announced : jd # id /\ Stays(jd)'
  BY <1>1, <1>2, <1>3 DEF Smooth, Control, Stays, TypeOK
<1>6. cur' \notin Announced' /\ Stays(cur)'
  BY <1>1, <1>2, <1>3, <1>4, <1>5, NoneAssumption DEF Stays, TypeOK
<1>7. Control'
  <2>1. \A jd \in Announced' : Stays(jd)'
    BY <1>4, <1>5
  <2>2. \A jd \in Id : issued'[jd] = NoVisitor => task'[jd] = "none"
    BY <1>1, <1>2, NoneAssumption DEF Control, Smooth, TypeOK
  <2> QED
    BY <1>4, <1>6, <2>1, <2>2 DEF Control
<1>8. ASSUME NEW jd \in Id, ActiveTask(jd)' PROVE Serves(jd)'
  BY <1>2, <1>3, <1>8 DEF Smooth, Serves, ActiveTask, TypeOK
<1> QED
  BY <1>2, <1>7, <1>8 DEF Smooth

LEMMA SmoothAnnounce ==
  ASSUME TypeOK, Smooth, Announce PROVE Smooth'
<1> SUFFICES ASSUME steady PROVE Smooth'
  BY DEF Smooth, Announce, processVars
<1>1. /\ UNCHANGED <<steady, server, client, link, conns, issued, task, session, taken, left>>
      /\ control' = Append(control, cur) /\ loop' = "beating"
  BY DEF Announce, Smooth, processVars, mapVars, visitorVars, taskVars, sessionVars
<1>2. cur \in Id /\ cur \notin Announced /\ Stays(cur)
  BY DEF Announce, Smooth, Control, TypeOK
<1>3. Lists(control', Announced \cup {cur})
  BY <1>1, <1>2, AppendLists DEF Smooth, Control, TypeOK
<1>4. Announced' = Announced \cup {cur}
  BY <1>3 DEF Lists, Announced
<1>5. Control'
  BY <1>1, <1>2, <1>3, <1>4 DEF Smooth, Control, Stays
<1>6. \A id \in Id : ActiveTask(id)' => Serves(id)'
  BY <1>1 DEF Smooth, Serves, ActiveTask
<1> QED
  BY <1>1, <1>5, <1>6 DEF Smooth

LEMMA SmoothRecv ==
  ASSUME TypeOK, Smooth, RecvConnection PROVE Smooth'
<1> SUFFICES ASSUME steady PROVE Smooth'
  BY DEF Smooth, RecvConnection, processVars
<1> DEFINE id == Head(control)
<1>1. /\ UNCHANGED <<steady, server, client, link, loop, cur, conns, issued, session, taken, left>>
      /\ control' = Tail(control) /\ task' = [task EXCEPT ![id] = "dialing"]
  BY DEF RecvConnection, Goes, processVars, loopVars, mapVars, visitorVars, sessionVars
<1>2. id \in Announced /\ id \in Id /\ Stays(id)
  BY NonemptyLists, HeadTailProperties DEF RecvConnection, Smooth, Control, TypeOK
<1>3. Lists(control', Announced \ {id})
  BY <1>1, TailLists DEF RecvConnection, Smooth, Control, TypeOK
<1>4. Announced' = Announced \ {id} /\ Announced \subseteq Id
  <2>1. Announced' = Announced \ {id}
    BY <1>3 DEF Lists, Announced
  <2>2. Announced \subseteq Id
    BY DEF Announced, Members, TypeOK
  <2> QED
    BY <2>1, <2>2
<1>5. issued[id] # NoVisitor /\ (loop = "announcing" => cur # id)
  BY <1>2 DEF Stays, Smooth, Control
<1>6. \A jd \in Announced' : Stays(jd)'
  BY <1>1, <1>4 DEF Smooth, Control, Stays, TypeOK
<1>7. loop' = "announcing" => cur' \notin Announced' /\ Stays(cur)'
  BY <1>1, <1>4, <1>5 DEF Smooth, Control, Stays, TypeOK
<1>8. \A jd \in Id : issued'[jd] = NoVisitor => task'[jd] = "none"
  BY <1>1, <1>5 DEF Smooth, Control, TypeOK
<1>9. Control'
  BY <1>3, <1>4, <1>6, <1>7, <1>8 DEF Control
<1>10. ASSUME NEW jd \in Id, ActiveTask(jd)' PROVE Serves(jd)'
  BY <1>1, <1>2, <1>10 DEF Smooth, Serves, ActiveTask, Stays, TypeOK
<1> QED
  BY <1>1, <1>9, <1>10 DEF Smooth

LEMMA SmoothStep == TypeOK /\ Undialed /\ Owns /\ Smooth /\ [Next]_vars => Smooth'
<1> SUFFICES ASSUME TypeOK, Undialed, Owns, Smooth, [Next]_vars PROVE Smooth'
  OBVIOUS
<1>1. ASSUME NEW v \in Visitor, Arrive(v) PROVE Smooth'
  BY <1>1, SmoothFrame DEF Arrive, smoothVars, processVars, linkVars, mapVars, taskVars, sessionVars
<1>2. ASSUME NEW v \in Visitor, VisitorEnds(v) PROVE Smooth'
  BY <1>2 DEF VisitorEnds, Smooth, Control, Serves, ActiveTask, Stays, Announced, Lists,
              Members, processVars, linkVars, loopVars, mapVars, taskVars, sessionVars
<1>3. ASSUME NEW id \in Id, Expire(id) PROVE Smooth'
  <2>1. steady => conns' = conns
    BY <1>3 DEF Expire, TypeOK
  <2>2. UNCHANGED <<steady, server, client, link, control, loop, cur, issued, task,
                    session, taken, left>>
    BY <1>3 DEF Expire, processVars, linkVars, loopVars, visitorVars, taskVars, sessionVars
  <2>3. CASE steady
    BY <2>1, <2>2, <2>3, SmoothFrame DEF smoothVars
  <2>4. CASE ~steady
    BY <2>2, <2>4 DEF Smooth
  <2> QED
    BY <2>3, <2>4
<1>4. ASSUME NEW id \in Id, RecvAccept(id) \/ SessionEnds(id) \/ ProxyEnds(id) \/ ProxyLost(id)
      PROVE  Smooth'
  <2>1. task[id] # "none"
    BY <1>4 DEF RecvAccept, SessionEnds, ProxyEnds, ProxyLost, Undialed
  <2>2. /\ UNCHANGED <<steady, server, client, link, control, loop, cur, issued, task, left>>
        /\ \A jd \in Id \ {id} : /\ conns'[jd] = conns[jd] /\ session'[jd] = session[jd]
                                 /\ taken'[jd] = taken[jd]
    BY <1>4 DEF RecvAccept, SessionEnds, ProxyEnds, ProxyLost, Drop, TypeOK, processVars,
                linkVars, loopVars, mapVars, visitorVars, taskVars
  <2>3. issued[id] = NoVisitor /\ steady => task'[id] = "none"
    BY <2>2 DEF Smooth, Control
  <2>4. ASSUME steady, ActiveTask(id) PROVE Serves(id)'
    <3>1. Serves(id)
      BY <2>4 DEF Smooth
    <3>2. CASE RecvAccept(id)
      <4>1. conns[id] # NoVisitor /\ conns[id] = issued[id]
        BY <3>1, <3>2 DEF Serves, RecvAccept
      <4> QED
        BY <3>2, <4>1, <2>2 DEF Serves, RecvAccept, TypeOK
    <3>3. CASE SessionEnds(id)
      BY <2>4, <3>3 DEF SessionEnds, ActiveTask
    <3>4. CASE ProxyEnds(id)
      BY <2>2, <3>4 DEF ProxyEnds, Drop, Serves, TypeOK
    <3>5. CASE ProxyLost(id)
      BY <2>4, <3>5 DEF ProxyLost, ActiveTask
    <3> QED
      BY <1>4, <3>2, <3>3, <3>4, <3>5
  <2>5. CASE steady
    BY <2>1, <2>2, <2>3, <2>4, <2>5, SmoothTask DEF ActiveTask
  <2>6. CASE ~steady
    BY <2>2, <2>6 DEF Smooth
  <2> QED
    BY <2>5, <2>6
<1>5. ASSUME NEW id \in Id, TaskStep(id) \/ CopyEnds(id) \/ CopyLost(id) PROVE Smooth'
  <2>1. task[id] # "none" /\ ActiveTask(id)
    BY <1>5 DEF TaskStep, Dialed, SendAccept, LocalConnected, TaskFails, CopyEnds, CopyLost,
                Goes, ActiveTask
  <2>2. /\ UNCHANGED <<steady, server, client, link, control, loop, cur, issued, left, conns, taken>>
        /\ \A jd \in Id \ {id} : task'[jd] = task[jd] /\ session'[jd] = session[jd]
    BY <1>5 DEF TaskStep, Dialed, SendAccept, LocalConnected, TaskFails, CopyEnds, CopyLost,
                Goes, TypeOK, processVars, linkVars, loopVars, mapVars, visitorVars, sessionVars
  <2>3. issued[id] = NoVisitor /\ steady => task[id] = "none"
    BY DEF Smooth, Control
  <2>4. ASSUME steady PROVE Serves(id)'
    <3>1. Serves(id)
      BY <2>1, <2>4 DEF Smooth
    <3>2. CASE Dialed(id)
      <4>1. session[id] = "none" /\ session'[id] = "receiving"
        BY <3>2 DEF Dialed, Goes, Undialed, TypeOK
      <4> QED
        BY <2>2, <3>1, <4>1 DEF Serves
    <3>3. CASE ~Dialed(id)
      <4>1. session' = session
        BY <1>5, <3>3 DEF TaskStep, SendAccept, LocalConnected, TaskFails, CopyEnds,
                          CopyLost, sessionVars
      <4> QED
        BY <2>2, <3>1, <4>1 DEF Serves
    <3> QED
      BY <3>2, <3>3
  <2>5. CASE steady
    BY <2>1, <2>2, <2>3, <2>4, <2>5, SmoothTask
  <2>6. CASE ~steady
    BY <2>2, <2>6 DEF Smooth
  <2> QED
    BY <2>5, <2>6
<1>6. ASSUME NEW id \in Id, LocalEnds(id) PROVE Smooth'
  BY <1>6, SmoothFrame DEF LocalEnds, smoothVars, processVars, linkVars, loopVars, mapVars,
                           visitorVars, sessionVars
<1>7. CASE LoopEnds \/ ClientDies \/ Exits \/ ServerDies \/ LinkLost
  <2>1. ~steady /\ steady' = steady
    BY <1>7 DEF LoopEnds, ClientDies, Exits, ClientEnds, ServerDies, LinkLost, Smooth, processVars
  <2> QED
    BY <2>1 DEF Smooth
<1>8. CASE UNCHANGED vars
  BY <1>8, SmoothFrame DEF vars, smoothVars, processVars, linkVars, loopVars, mapVars,
                           visitorVars, taskVars, sessionVars
<1> QED
  BY <1>1, <1>2, <1>3, <1>4, <1>5, <1>6, <1>7, <1>8, SmoothTake, SmoothAnnounce, SmoothRecv
     DEF Next, LoopStep

\* In a steady behaviour no id ever reaches a client, and no task ever runs
\* for one, whose visitor the server could not hand out: the control
\* connection may carry any number of ids at once.
THEOREM ServesCorrect == Spec => []LocalServesVisitor
<1>1. Smooth => LocalServesVisitor
  BY DEF Smooth, LocalServesVisitor, Serves, ActiveTask
<1> QED
  BY <1>1, TypeInit, TypeStep, UndialedInit, UndialedStep, OwnsInit, OwnsStep, SmoothInit,
     SmoothStep, PTL DEF Spec
=============================================================================
