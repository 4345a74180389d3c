---------------------------- MODULE ClientProofs ----------------------------
(***************************************************************************)
(* What holds of Client for any number of tasks and of addresses: no frame *)
(* is overtaken by what ends listen, the set that shutdown reads is exact, *)
(* and a task leaves nothing behind.                                       *)
(*                                                                         *)
(* The three rest on one inductive invariant.  A message is in the inbox   *)
(* once and its task has not started (Queue), so that a task starts with   *)
(* no socket; the sockets and the dial of a task agree with the await it   *)
(* is at (Stage); and the set agrees with the sockets (Exact).             *)
(***************************************************************************)
EXTENDS Client, SequenceTheorems, TLAPS

EachOnce(q) == \A i, j \in DOMAIN q : q[i] = q[j] => i = j

HasRemote == {"handshaking", "announcing", "dialingLocal", "forwarding", "copying", "stuck"}
HasLocal == {"forwarding", "copying", "stuck"}

Queue ==
  /\ EachOnce(inbox)
  /\ \A i \in DOMAIN inbox : inbox[i] \in Task => pc[inbox[i]] = "none"
  /\ \A i \in DOMAIN inbox : inbox[i] = "bad" => i = Len(inbox)

Stage(t) ==
  /\ dial[t] \in {"resolving", "connecting"} => pc[t] \in {"dialing", "dialingLocal"}
  /\ dial[t] = "abandoned" => pc[t] = "done"
  /\ remote[t] = "open" => pc[t] \in HasRemote
  /\ local[t] = "open" => pc[t] \in HasLocal
  /\ pc[t] = "none" => remote[t] = "none" /\ local[t] = "none"
  /\ pc[t] = "dialing" => remote[t] = "none" /\ local[t] = "none"
  /\ pc[t] \in HasRemote => remote[t] # "none"

Exact(t) ==
  /\ pc[t] # "done" /\ remote[t] = "open" => <<t, "remote">> \in active
  /\ pc[t] # "done" /\ local[t] = "open" => <<t, "local">> \in active
  /\ <<t, "remote">> \in active => pc[t] # "done" /\ remote[t] # "none"
  /\ <<t, "local">> \in active => pc[t] # "done" /\ local[t] # "none"

Tasks == \A t \in Task : Stage(t) /\ Exact(t)

IInv == TypeOK /\ Queue /\ AnnouncedServed /\ Tasks

-----------------------------------------------------------------------------
LEMMA TailElements ==
  ASSUME NEW S, NEW s \in Seq(S), s # <<>>
  PROVE  /\ Len(s) \in Nat \ {0} /\ DOMAIN s = 1 .. Len(s) /\ Head(s) = s[1]
         /\ DOMAIN Tail(s) = 1 .. Len(s) - 1
         /\ \A i \in 1 .. Len(s) - 1 : Tail(s)[i] = s[i + 1]
  OBVIOUS

(* Types. *)

LEMMA TypeInit == Init => TypeOK
<1> SUFFICES ASSUME Init PROVE TypeOK
  OBVIOUS
<1>1. 0 \in 0 .. MaxAddresses - 1
  BY AddressAssumption
<1>2. rest \in [Task -> 0 .. MaxAddresses - 1]
  BY <1>1 DEF Init
<1>3. active \in SUBSET (Task \X {"remote", "local"})
  BY DEF Init
<1>4. inbox \in Seq(Task \cup {"bad"})
  BY DEF Init
<1>5. /\ pc \in [Task -> Pc] /\ remote \in [Task -> SocketState]
      /\ local \in [Task -> SocketState]
      /\ dial \in [Task -> {"idle", "resolving", "connecting", "abandoned"}]
  BY DEF Init, Pc, SocketState
<1>6. /\ phase \in {"made", "listening", "ended"} /\ control \in {"open", "ended", "failed"}
      /\ aborted \in BOOLEAN /\ crashed \in BOOLEAN
  BY DEF Init
<1> QED
  BY <1>2, <1>3, <1>4, <1>5, <1>6 DEF TypeOK

LEMMA FinallyType ==
  ASSUME TypeOK, NEW t \in Task, Finally(t)
  PROVE  /\ pc' \in [Task -> Pc] /\ remote' \in [Task -> SocketState]
         /\ local' \in [Task -> SocketState]
         /\ active' \in SUBSET (Task \X {"remote", "local"})
         /\ phase' = phase /\ inbox' = inbox /\ control' = control
         /\ aborted' = aborted /\ crashed' = crashed
  BY DEF TypeOK, Finally, Pc, SocketState, loopVars

LoopStep ==
  \/ \E m \in Task \cup {"bad"} : ServerSends(m)
  \/ \E how \in {"ended", "failed"} : ControlEnds(how)
  \/ Listen \/ Receive \/ ReceiveNothing \/ Abort

DialStep(t) == LookupEnds(t) \/ NextAddress(t)

LeaveStep(t) ==
  \/ DialFails(t) \/ DialTimesOut(t) \/ HandshakeFails(t) \/ AnnounceFails(t)
  \/ ForwardFails(t) \/ CopyEnds(t)

GoStep(t) ==
  \/ RemoteConnected(t) \/ HandshakeOk(t) \/ AnnounceOk(t)
  \/ LocalConnected(t) \/ Forwarded(t) \/ RemoteResets(t) \/ LocalResets(t)

LEMMA Steps == Next <=> LoopStep \/ \E t \in Task : DialStep(t) \/ LeaveStep(t) \/ GoStep(t)
  BY DEF Next, LoopStep, DialStep, LeaveStep, GoStep

LEMMA TypeDestroyed ==
  ASSUME NEW sockets \in [Task -> SocketState], NEW which
  PROVE  Destroyed(sockets, which) \in [Task -> SocketState]
  BY DEF Destroyed, SocketState

LEMMA TypeLoop == TypeOK /\ LoopStep => TypeOK'
<1> SUFFICES ASSUME TypeOK, LoopStep PROVE TypeOK'
  OBVIOUS
<1> USE DEF taskVars, dialVars
<1>1. ASSUME NEW m \in Task \cup {"bad"}, ServerSends(m) PROVE TypeOK'
  BY <1>1, AppendProperties DEF TypeOK, ServerSends
<1>2. ASSUME NEW how \in {"ended", "failed"}, ControlEnds(how) PROVE TypeOK'
  BY <1>2 DEF TypeOK, ControlEnds
<1>3. CASE Listen
  BY <1>3 DEF TypeOK, Listen
<1>4. CASE Receive
  <2>1. inbox' \in Seq(Task \cup {"bad"}) /\ Head(inbox) \in Task \cup {"bad"}
    BY <1>4, HeadTailProperties DEF TypeOK, Receive
  <2>2. phase' \in {"made", "listening", "ended"} /\ pc' \in [Task -> Pc]
        /\ dial' \in [Task -> {"idle", "resolving", "connecting", "abandoned"}]
    BY <1>4, <2>1 DEF TypeOK, Receive, Pc
  <2> QED
    BY <1>4, <2>1, <2>2 DEF TypeOK, Receive
<1>5. CASE ReceiveNothing
  BY <1>5 DEF TypeOK, ReceiveNothing
<1>6. CASE Abort
  <2>1. remote' \in [Task -> SocketState] /\ local' \in [Task -> SocketState]
    BY <1>6, TypeDestroyed DEF TypeOK, Abort
  <2> QED
    BY <1>6, <2>1 DEF TypeOK, Abort
<1> QED
  BY <1>1, <1>2, <1>3, <1>4, <1>5, <1>6 DEF LoopStep

LEMMA TypeTask ==
  ASSUME TypeOK, NEW t \in Task, DialStep(t) \/ LeaveStep(t) \/ GoStep(t)
  PROVE  TypeOK'
<1> USE DEF loopVars, dialVars
<1>1. CASE DialStep(t)
  <2>1. rest' \in [Task -> 0 .. MaxAddresses - 1]
    <3>1. CASE LookupEnds(t)
      <4>1. CASE rest' = rest
        BY <4>1 DEF TypeOK
      <4>2. CASE \E n \in 1 .. MaxAddresses : rest' = [rest EXCEPT ![t] = n - 1]
        <5>1. PICK n \in 1 .. MaxAddresses : rest' = [rest EXCEPT ![t] = n - 1]
          BY <4>2
        <5>2. n - 1 \in 0 .. MaxAddresses - 1
          BY AddressAssumption
        <5> QED
          BY <5>1, <5>2 DEF TypeOK
      <4> QED
        BY <3>1, <4>1, <4>2 DEF LookupEnds
    <3>2. CASE NextAddress(t)
      <4>1. rest[t] \in 0 .. MaxAddresses - 1 /\ rest[t] > 0
        BY <3>2 DEF TypeOK, NextAddress
      <4>2. rest[t] - 1 \in 0 .. MaxAddresses - 1
        BY <4>1, AddressAssumption
      <4> QED
        BY <3>2, <4>2 DEF TypeOK, NextAddress
    <3> QED
      BY <1>1, <3>1, <3>2 DEF DialStep
  <2>2. dial' \in [Task -> {"idle", "resolving", "connecting", "abandoned"}]
    BY <1>1 DEF TypeOK, DialStep, LookupEnds, NextAddress
  <2> QED
    BY <1>1, <2>1, <2>2 DEF TypeOK, DialStep, LookupEnds, NextAddress
<1>2. CASE LeaveStep(t)
  <2>1. Finally(t) /\ rest' = rest
    BY <1>2 DEF LeaveStep, DialFails, DialTimesOut, HandshakeFails, AnnounceFails,
                ForwardFails, CopyEnds, Leaves
  <2>2. dial' \in [Task -> {"idle", "resolving", "connecting", "abandoned"}]
    BY <1>2 DEF TypeOK, LeaveStep, DialFails, DialTimesOut, HandshakeFails, AnnounceFails,
                ForwardFails, CopyEnds, Leaves
  <2> QED
    BY <2>1, <2>2, FinallyType DEF TypeOK
<1>3. CASE GoStep(t)
  <2>1. /\ pc' \in [Task -> Pc] /\ remote' \in [Task -> SocketState]
        /\ local' \in [Task -> SocketState]
    BY <1>3 DEF TypeOK, GoStep, RemoteConnected, HandshakeOk, AnnounceOk, LocalConnected,
                Forwarded, RemoteResets, LocalResets, CopyPc, Pc, SocketState
  <2>2. dial' \in [Task -> {"idle", "resolving", "connecting", "abandoned"}] /\ rest' = rest
    BY <1>3 DEF TypeOK, GoStep, RemoteConnected, HandshakeOk, AnnounceOk, LocalConnected,
                Forwarded, RemoteResets, LocalResets, Answers, StartsDial
  <2>3. active' \in SUBSET (Task \X {"remote", "local"})
    <3>1. active' \in {active, active \cup {<<t, "remote">>}, active \cup {<<t, "local">>}}
      BY <1>3 DEF GoStep, RemoteConnected, HandshakeOk, AnnounceOk, LocalConnected,
                  Forwarded, RemoteResets, LocalResets
    <3>2. /\ <<t, "remote">> \in Task \X {"remote", "local"}
          /\ <<t, "local">> \in Task \X {"remote", "local"}
      OBVIOUS
    <3> QED
      BY <3>1, <3>2 DEF TypeOK
  <2>5. crashed' \in BOOLEAN
    <3>1. crashed' = crashed \/ crashed' = (pc[t] = "forwarding")
      BY <1>3 DEF GoStep, RemoteConnected, HandshakeOk, AnnounceOk, LocalConnected,
                  Forwarded, RemoteResets, LocalResets
    <3> QED
      BY <3>1, Zenon DEF TypeOK
  <2>4. UNCHANGED <<phase, inbox, control, aborted>>
    BY <1>3 DEF GoStep, RemoteConnected, HandshakeOk, AnnounceOk, LocalConnected,
                Forwarded, RemoteResets, LocalResets
  <2> QED
    BY <2>1, <2>2, <2>3, <2>4, <2>5 DEF TypeOK
<1> QED
  BY <1>1, <1>2, <1>3

LEMMA TypeStep == TypeOK /\ [Next]_vars => TypeOK'
<1> SUFFICES ASSUME TypeOK, [Next]_vars PROVE TypeOK'
  OBVIOUS
<1>1. CASE UNCHANGED vars
  BY <1>1 DEF TypeOK, vars, loopVars, taskVars, dialVars
<1> QED
  BY <1>1, TypeLoop, TypeTask, Steps

\* Every variable of the client has its type.
THEOREM TypeCorrect == Spec => []TypeOK
  BY TypeInit, TypeStep, PTL DEF Spec

-----------------------------------------------------------------------------
(* The queue of messages. *)

\* A task starts in Receive only.
LEMMA QueueFrame ==
  ASSUME Queue, AnnouncedServed, UNCHANGED <<inbox, phase>>,
         \A t \in Task : pc[t] = "none" => pc'[t] = "none"
  PROVE  Queue' /\ AnnouncedServed'
  BY DEF Queue, AnnouncedServed, EachOnce

LEMMA QueueLoop == TypeOK /\ Queue /\ AnnouncedServed /\ LoopStep => Queue' /\ AnnouncedServed'
<1> SUFFICES ASSUME TypeOK, Queue, AnnouncedServed, LoopStep PROVE Queue' /\ AnnouncedServed'
  OBVIOUS
<1> USE DEF taskVars, dialVars
<1>1. ASSUME NEW m \in Task \cup {"bad"}, ServerSends(m) PROVE Queue' /\ AnnouncedServed'
  <2>1. /\ Len(inbox) \in Nat /\ DOMAIN inbox = 1 .. Len(inbox)
        /\ DOMAIN inbox' = 1 .. Len(inbox) + 1
        /\ \A i \in 1 .. Len(inbox) : inbox'[i] = inbox[i]
        /\ inbox'[Len(inbox) + 1] = m
    BY <1>1, AppendProperties DEF TypeOK, ServerSends
  <2>2. \A i \in 1 .. Len(inbox) : inbox[i] # m /\ inbox[i] # "bad"
    BY <1>1, <2>1 DEF ServerSends, Announced, Elements, Queue
  <2>3. pc' = pc /\ phase' = phase /\ phase # "ended" /\ (m \in Task => pc[m] = "none")
    BY <1>1, TaskAssumption DEF ServerSends, Announced
  <2>4. EachOnce(inbox')
    BY <2>1, <2>2 DEF Queue, EachOnce
  <2>5. Len(inbox') = Len(inbox) + 1
    BY <1>1 DEF TypeOK, ServerSends
  <2>6. ASSUME NEW i \in DOMAIN inbox'
        PROVE  /\ inbox'[i] \in Task => pc'[inbox'[i]] = "none"
               /\ inbox'[i] = "bad" => i = Len(inbox')
    <3>1. CASE i \in 1 .. Len(inbox)
      BY <2>1, <2>2, <2>3, <3>1 DEF Queue
    <3>2. CASE i = Len(inbox) + 1
      BY <2>1, <2>3, <2>5, <3>2
    <3> QED
      BY <2>1, <3>1, <3>2
  <2> QED
    BY <2>3, <2>4, <2>6 DEF Queue, AnnouncedServed
<1>2. ASSUME NEW how \in {"ended", "failed"}, ControlEnds(how) PROVE Queue' /\ AnnouncedServed'
  BY <1>2, QueueFrame DEF ControlEnds
<1>3. CASE Listen
  BY <1>3 DEF Listen, Queue, AnnouncedServed, EachOnce
<1>4. CASE Receive
  <2>1. /\ Len(inbox) \in Nat \ {0} /\ DOMAIN inbox = 1 .. Len(inbox)
        /\ Head(inbox) = inbox[1] /\ DOMAIN inbox' = 1 .. Len(inbox) - 1
        /\ \A i \in 1 .. Len(inbox) - 1 : inbox'[i] = inbox[i + 1]
    BY <1>4, TailElements DEF TypeOK, Receive
  <2>2. Len(inbox') = Len(inbox) - 1 /\ inbox' \in Seq(Task \cup {"bad"})
    BY <1>4 DEF TypeOK, Receive
  <2>3. EachOnce(inbox')
    BY <2>1 DEF Queue, EachOnce
  <2>4. ASSUME NEW i \in DOMAIN inbox'
        PROVE  /\ inbox'[i] \in Task => pc'[inbox'[i]] = "none"
               /\ inbox'[i] = "bad" => i = Len(inbox')
    <3>1. i \in 1 .. Len(inbox) - 1 /\ i + 1 \in 1 .. Len(inbox) /\ 1 \in 1 .. Len(inbox)
      BY <2>1
    <3>2. inbox'[i] = inbox[i + 1] /\ inbox[i + 1] # inbox[1]
      BY <2>1, <3>1 DEF Queue, EachOnce
    <3>3. inbox'[i] \in Task => pc'[inbox'[i]] = pc[inbox'[i]]
      BY <1>4, <2>1, <3>2 DEF Receive, TypeOK
    <3>4. inbox'[i] \in Task => pc[inbox'[i]] = "none"
      BY <2>1, <3>1, <3>2 DEF Queue
    <3>5. inbox'[i] = "bad" => i + 1 = Len(inbox)
      BY <2>1, <3>1, <3>2 DEF Queue
    <3> QED
      BY <2>1, <2>2, <3>1, <3>3, <3>4, <3>5
  <2>5. AnnouncedServed'
    <3>1. CASE Head(inbox) = "bad"
      <4>1. Len(inbox) = 1
        BY <2>1, <3>1 DEF Queue
      <4> QED
        BY <2>2, <4>1 DEF AnnouncedServed
    <3>2. CASE Head(inbox) # "bad"
      BY <1>4, <3>2 DEF Receive, AnnouncedServed
    <3> QED
      BY <3>1, <3>2
  <2> QED
    BY <2>3, <2>4, <2>5 DEF Queue
<1>5. CASE ReceiveNothing
  BY <1>5 DEF ReceiveNothing, Queue, AnnouncedServed, EachOnce
<1>6. CASE Abort
  BY <1>6 DEF Abort, Event, Due, Queue, AnnouncedServed, EachOnce
<1> QED
  BY <1>1, <1>2, <1>3, <1>4, <1>5, <1>6 DEF LoopStep

-----------------------------------------------------------------------------
(* The tasks. *)

LEMMA TasksInit == Init => Tasks
  BY DEF Init, Tasks, Stage, Exact, HasRemote, HasLocal

\* What Stage and Exact say of a task reads its own entries only.
Same(u) ==
  /\ pc'[u] = pc[u] /\ remote'[u] = remote[u] /\ local'[u] = local[u]
  /\ dial'[u] = dial[u]
  /\ <<u, "remote">> \in active' <=> <<u, "remote">> \in active
  /\ <<u, "local">> \in active' <=> <<u, "local">> \in active

LEMMA SameTask ==
  ASSUME NEW u, Stage(u), Exact(u), Same(u) PROVE Stage(u)' /\ Exact(u)'
  BY DEF Stage, Exact, Same

LEMMA TasksLoop == TypeOK /\ Queue /\ Tasks /\ LoopStep => Tasks'
<1> SUFFICES ASSUME TypeOK, Queue, Tasks, LoopStep, NEW u \in Task PROVE Stage(u)' /\ Exact(u)'
  BY DEF Tasks
<1> USE DEF taskVars, dialVars
<1>0. Stage(u) /\ Exact(u)
  BY DEF Tasks
<1>1. CASE UNCHANGED taskVars
  BY <1>0, <1>1, SameTask DEF Same
<1>2. CASE Receive
  <2>1. CASE u = Head(inbox)
    <3>1. inbox # <<>> /\ u # "bad"
      BY <1>2, TaskAssumption DEF Receive
    <3>2. 1 \in DOMAIN inbox /\ Head(inbox) = inbox[1]
      BY <3>1, TailElements DEF TypeOK
    <3>3. pc[u] = "none"
      BY <2>1, <3>2 DEF Queue
    <3>4. pc'[u] = "dialing" /\ dial'[u] = "resolving"
      BY <1>2, <2>1, <3>1 DEF Receive, TypeOK
    <3>5. UNCHANGED <<remote, local, active>>
      BY <1>2 DEF Receive
    <3> QED
      BY <1>0, <3>3, <3>4, <3>5 DEF Stage, Exact, HasRemote, HasLocal
  <2>2. CASE u # Head(inbox)
    <3>1. pc'[u] = pc[u] /\ dial'[u] = dial[u] /\ UNCHANGED <<remote, local, active>>
      BY <1>2, <2>2 DEF Receive, TypeOK
    <3> QED
      BY <1>0, <3>1, SameTask DEF Same
  <2> QED
    BY <2>1, <2>2
<1>3. CASE Abort /\ phase = "listening"
  <2>1. active' = {} /\ pc' = pc /\ dial' = dial
    BY <1>3 DEF Abort
  <2>2. /\ remote'[u] = IF <<u, "remote">> \in active /\ remote[u] = "open"
                        THEN "lost" ELSE remote[u]
        /\ local'[u] = IF <<u, "local">> \in active /\ local[u] = "open"
                       THEN "lost" ELSE local[u]
    BY <1>3 DEF Abort, Destroyed
  <2>3. remote'[u] # "open" /\ local'[u] # "open"
    BY <1>0, <2>2 DEF Stage, Exact, HasRemote, HasLocal
  <2> QED
    BY <1>0, <2>1, <2>2, <2>3 DEF Stage, Exact, HasRemote, HasLocal
<1> QED
  BY <1>1, <1>2, <1>3 DEF LoopStep, ServerSends, ControlEnds, Listen, ReceiveNothing, Abort

LEMMA TasksOther ==
  ASSUME TypeOK, NEW t \in Task, DialStep(t) \/ LeaveStep(t) \/ GoStep(t),
         NEW u \in Task, u # t
  PROVE  Same(u)
<1> USE DEF loopVars, dialVars
<1>1. CASE DialStep(t)
  BY <1>1 DEF TypeOK, Same, DialStep, LookupEnds, NextAddress
<1>2. CASE LeaveStep(t)
  <2>1. Finally(t)
    BY <1>2 DEF LeaveStep, DialFails, DialTimesOut, HandshakeFails, AnnounceFails,
                ForwardFails, CopyEnds, Leaves
  <2>2. dial'[u] = dial[u]
    BY <1>2 DEF TypeOK, LeaveStep, DialFails, DialTimesOut, HandshakeFails, AnnounceFails,
                ForwardFails, CopyEnds, Leaves
  <2> QED
    BY <2>1, <2>2 DEF TypeOK, Finally, Same
<1>3. CASE GoStep(t)
  <2>1. /\ pc'[u] = pc[u] /\ remote'[u] = remote[u] /\ local'[u] = local[u]
        /\ dial'[u] = dial[u]
    BY <1>3 DEF TypeOK, GoStep, RemoteConnected, HandshakeOk, AnnounceOk, LocalConnected,
                Forwarded, RemoteResets, LocalResets, Answers, StartsDial
  <2>2. active' \in {active, active \cup {<<t, "remote">>}, active \cup {<<t, "local">>}}
    BY <1>3 DEF GoStep, RemoteConnected, HandshakeOk, AnnounceOk, LocalConnected,
                Forwarded, RemoteResets, LocalResets
  <2> QED
    BY <2>1, <2>2 DEF Same
<1> QED
  BY <1>1, <1>2, <1>3

LEMMA TasksSelf ==
  ASSUME TypeOK, NEW t \in Task, DialStep(t) \/ LeaveStep(t) \/ GoStep(t),
         Stage(t), Exact(t)
  PROVE  Stage(t)' /\ Exact(t)' /\ (pc[t] = "none" => pc'[t] = "none")
<1> USE DEF loopVars, dialVars, HasRemote, HasLocal
<1>1. CASE DialStep(t)
  <2>1. UNCHANGED <<pc, remote, local, active>>
    BY <1>1 DEF DialStep, LookupEnds, NextAddress
  <2>2. \/ dial'[t] \in {"idle", dial[t]}
        \/ dial[t] = "resolving" /\ dial'[t] = "connecting"
    BY <1>1 DEF DialStep, LookupEnds, NextAddress, TypeOK
  <2> QED
    BY <2>1, <2>2 DEF Stage, Exact
<1>2. CASE LeaveStep(t)
  <2>1. Finally(t)
    BY <1>2 DEF LeaveStep, DialFails, DialTimesOut, HandshakeFails, AnnounceFails,
                ForwardFails, CopyEnds, Leaves
  <2>2. /\ pc'[t] = "done" /\ remote'[t] # "open" /\ local'[t] # "open"
        /\ <<t, "remote">> \notin active' /\ <<t, "local">> \notin active'
    BY <2>1 DEF Finally, TypeOK
  <2>3. dial'[t] \in {"idle", "abandoned"} /\ pc[t] # "none"
    BY <1>2 DEF TypeOK, Stage, LeaveStep, DialFails, DialTimesOut, HandshakeFails, AnnounceFails,
                ForwardFails, CopyEnds, Leaves
  <2> QED
    BY <2>2, <2>3 DEF Stage, Exact
<1>3. CASE RemoteConnected(t)
  BY <1>3 DEF RemoteConnected, Answers, TypeOK, Stage, Exact
<1>4. CASE HandshakeOk(t) \/ AnnounceOk(t)
  BY <1>4 DEF HandshakeOk, AnnounceOk, StartsDial, TypeOK, Stage, Exact
<1>5. CASE LocalConnected(t)
  BY <1>5 DEF LocalConnected, CopyPc, Answers, TypeOK, Stage, Exact
<1>6. CASE Forwarded(t)
  BY <1>6 DEF Forwarded, CopyPc, TypeOK, Stage, Exact
<1>7. CASE RemoteResets(t) \/ LocalResets(t)
  BY <1>7 DEF RemoteResets, LocalResets, TypeOK, Stage, Exact
<1> QED
  BY <1>1, <1>2, <1>3, <1>4, <1>5, <1>6, <1>7 DEF GoStep

-----------------------------------------------------------------------------
(* The invariant. *)

LEMMA Inductive == IInv /\ [Next]_vars => IInv'
<1> SUFFICES ASSUME IInv, [Next]_vars PROVE IInv'
  OBVIOUS
<1>0. TypeOK /\ Queue /\ AnnouncedServed /\ Tasks
  BY DEF IInv
<1>1. CASE LoopStep
  BY <1>0, <1>1, TypeLoop, QueueLoop, TasksLoop DEF IInv
<1>2. ASSUME NEW t \in Task, DialStep(t) \/ LeaveStep(t) \/ GoStep(t) PROVE IInv'
  <2>1. TypeOK'
    BY <1>0, <1>2, TypeTask
  <2>2. Stage(t)' /\ Exact(t)' /\ (pc[t] = "none" => pc'[t] = "none")
    BY <1>0, <1>2, TasksSelf DEF Tasks
  <2>3. \A u \in Task : u # t => Same(u)
    BY <1>0, <1>2, TasksOther
  <2>4. ASSUME NEW u \in Task PROVE Stage(u)' /\ Exact(u)'
    <3>1. CASE u = t
      BY <2>2, <3>1
    <3>2. CASE u # t
      BY <1>0, <2>3, <3>2, SameTask DEF Tasks
    <3> QED
      BY <3>1, <3>2
  <2>5. \A u \in Task : pc[u] = "none" => pc'[u] = "none"
    BY <2>2, <2>3 DEF Same
  <2>6. UNCHANGED <<inbox, phase>>
    BY <1>2 DEF DialStep, LookupEnds, NextAddress, LeaveStep, DialFails, DialTimesOut,
                HandshakeFails, AnnounceFails, ForwardFails, CopyEnds, Leaves, Finally,
                GoStep, RemoteConnected, HandshakeOk, AnnounceOk, LocalConnected,
                Forwarded, RemoteResets, LocalResets, loopVars
  <2>7. Queue' /\ AnnouncedServed'
    BY <1>0, <2>5, <2>6, QueueFrame
  <2> QED
    BY <2>1, <2>4, <2>7 DEF IInv, Tasks
<1>3. CASE UNCHANGED vars
  <2>1. TypeOK'
    BY <1>0, <1>3, TypeStep
  <2>2. Queue' /\ AnnouncedServed'
    BY <1>0, <1>3 DEF vars, loopVars, taskVars, Queue, AnnouncedServed, EachOnce
  <2>3. Tasks'
    BY <1>0, <1>3, SameTask DEF vars, taskVars, dialVars, Tasks, Same
  <2> QED
    BY <2>1, <2>2, <2>3 DEF IInv
<1> QED
  BY <1>1, <1>2, <1>3, Steps

LEMMA Initial == Init => IInv
<1> SUFFICES ASSUME Init PROVE IInv
  OBVIOUS
<1>1. Queue /\ AnnouncedServed
  BY DEF Init, Queue, AnnouncedServed, EachOnce
<1> QED
  BY <1>1, TypeInit, TasksInit DEF IInv

LEMMA Invariant == Spec => []IInv
  BY Initial, Inductive, PTL DEF Spec

\* What ends listen overtakes no frame: whatever the order in which messages,
\* the end or the failure of the stream and the signal arrive, every
\* Connection message that came first has started its task.
THEOREM ServedCorrect == Spec => []AnnouncedServed
<1>1. IInv => AnnouncedServed
  BY DEF IInv
<1> QED
  BY <1>1, Invariant, PTL

\* Client.active holds each open socket of a running task, and nothing of a
\* task that has ended: what shutdown destroys is what has to be destroyed.
THEOREM ActiveCorrect == Spec => []ActiveExact
<1>1. IInv => ActiveExact
  <2> SUFFICES ASSUME IInv PROVE HeldOpen \subseteq active /\ active \subseteq Held
    BY DEF ActiveExact
  <2>1. ASSUME NEW t \in Task, NEW w \in {"remote", "local"}
        PROVE  /\ <<t, w>> \in HeldOpen => <<t, w>> \in active
               /\ <<t, w>> \in active => <<t, w>> \in Held
    <3>1. Exact(t)
      BY DEF IInv, Tasks
    <3>2. <<t, w>> \in Held <=> pc[t] # "done" /\ Socket(w)[t] # "none"
      BY DEF Held
    <3>3. <<t, w>> \in HeldOpen => <<t, w>> \in Held /\ Socket(w)[t] = "open"
      BY DEF HeldOpen
    <3> QED
      BY <3>1, <3>2, <3>3 DEF Exact, Socket
  <2>2. HeldOpen \subseteq Task \X {"remote", "local"}
    BY DEF HeldOpen, Held
  <2>3. active \subseteq Task \X {"remote", "local"}
    BY DEF IInv, TypeOK
  <2>4. ASSUME NEW s \in Task \X {"remote", "local"}
        PROVE  (s \in HeldOpen => s \in active) /\ (s \in active => s \in Held)
    <3>1. PICK t \in Task, w \in {"remote", "local"} : s = <<t, w>>
      OBVIOUS
    <3> QED
      BY <2>1, <3>1
  <2> QED
    BY <2>2, <2>3, <2>4
<1> QED
  BY <1>1, Invariant, PTL

\* At whichever await a task ends, both its sockets are closed and no dial of
\* it can still open one, the walk over the addresses and a late lookup
\* included.
THEOREM DoneCorrect == Spec => []DoneHoldsNothing
<1>1. IInv => DoneHoldsNothing
  BY DEF IInv, TypeOK, Tasks, Stage, HasRemote, HasLocal, DoneHoldsNothing
<1> QED
  BY <1>1, Invariant, PTL
=============================================================================
