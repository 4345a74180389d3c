------------------------- MODULE TcpListenerProofs -------------------------
(***************************************************************************)
(* The listener implements the backlog, for any number of connections and  *)
(* of callers of accept.                                                   *)
(***************************************************************************)
EXTENDS TcpListener, SequenceTheorems, TLAPS

(* The waiters are a list of the pending calls, from which a cancelled call   *)
(* is removed wherever it stands.                                            *)

\* The list q has the members of C, each once.
Members(q) == {q[i] : i \in DOMAIN q}
Lists(q, C) == Members(q) = C /\ \A i, j \in DOMAIN q : q[i] = q[j] => i = j

LEMMA EmptyLists == Lists(<<>>, {})
  BY DEF Lists, Members

LEMMA NonemptyLists ==
  ASSUME NEW S, NEW q \in Seq(S), q # <<>>, NEW C, Lists(q, C)
  PROVE  Head(q) \in C
  BY DEF Lists, Members

LEMMA AppendLists ==
  ASSUME NEW S, NEW q \in Seq(S), NEW C, NEW x \in S, x \notin C, Lists(q, C)
  PROVE  Lists(Append(q, x), C \cup {x})
<1> DEFINE t == Append(q, x)
<1>1. /\ Len(q) + 1 \notin DOMAIN q /\ DOMAIN t = DOMAIN q \cup {Len(q) + 1}
      /\ \A i \in DOMAIN q : t[i] = q[i] /\ q[i] # x
      /\ t[Len(q) + 1] = x
  BY DEF Lists, Members
<1> HIDE DEF t
<1>2. Members(t) = Members(q) \cup {x}
  BY <1>1 DEF Members
<1> QED
  BY <1>1, <1>2 DEF Lists, t

\* t is q without its entry at k.
LEMMA FewerLists ==
  ASSUME NEW S, NEW q \in Seq(S), NEW C, Lists(q, C), NEW k \in DOMAIN q, NEW t,
         DOMAIN t = 1 .. Len(q) - 1,
         \A j \in DOMAIN t : t[j] = IF j < k THEN q[j] ELSE q[j + 1]
  PROVE  Lists(t, C \ {q[k]})
<1> DEFINE n == Len(q)
           at(j) == IF j < k THEN j ELSE j + 1
<1>1. n \in Nat /\ DOMAIN q = 1 .. n /\ k \in 1 .. n /\ DOMAIN t = 1 .. n - 1
  OBVIOUS
<1> HIDE DEF n
<1>2. \A j \in DOMAIN t : at(j) \in DOMAIN q \ {k} /\ t[j] = q[at(j)]
  BY <1>1
<1>3. \A i, j \in DOMAIN t : at(i) = at(j) => i = j
  BY <1>1
<1>4. \A i \in DOMAIN q \ {k} : \E j \in DOMAIN t : at(j) = i
  <2> TAKE i \in DOMAIN q \ {k}
  <2>1. i < k => i \in DOMAIN t /\ at(i) = i
    BY <1>1
  <2>2. ~(i < k) => i - 1 \in DOMAIN t /\ at(i - 1) = i
    BY <1>1
  <2> QED
    BY <2>1, <2>2
<1> HIDE DEF at
<1> QED
  BY <1>2, <1>3, <1>4 DEF Lists, Members

LEMMA TailLists ==
  ASSUME NEW S, NEW q \in Seq(S), q # <<>>, NEW C, Lists(q, C)
  PROVE  Lists(Tail(q), C \ {Head(q)})
<1> DEFINE t == Tail(q)
<1>1. /\ 1 \in DOMAIN q /\ Head(q) = q[1] /\ DOMAIN t = 1 .. Len(q) - 1
      /\ \A j \in DOMAIN t : t[j] = IF j < 1 THEN q[j] ELSE q[j + 1]
  OBVIOUS
<1> HIDE DEF t
<1>2. Lists(t, C \ {q[1]})
  BY <1>1, FewerLists
<1> QED
  BY <1>1, <1>2 DEF t

LEMMA Behind ==
  ASSUME NEW n \in Nat, NEW k \in 1 .. n
  PROVE  /\ k \in Int /\ n \in Int /\ k + 1 \in Int
         /\ n - (k + 1) + 1 = n - k /\ (~(k + 1 =< n) => n - k = 0)
         /\ \A j \in 1 .. n - k : (k + 1) + j - 1 = k + j
         /\ \A j \in 1 .. n - 1 :
              ~(j < k) => j - (k - 1) \in 1 .. n - k /\ k + (j - (k - 1)) = j + 1
  OBVIOUS

\* What Array.splice(k, 1) leaves.
LEMMA RemoveLists ==
  ASSUME NEW S, NEW q \in Seq(S), NEW C, Lists(q, C), NEW k \in DOMAIN q, NEW t,
         t = SubSeq(q, 1, k - 1) \o SubSeq(q, k + 1, Len(q))
  PROVE  t \in Seq(S) /\ Lists(t, C \ {q[k]})
<1> DEFINE n == Len(q)
           u == SubSeq(q, 1, k - 1)
           v == SubSeq(q, k + 1, n)
<1>1. k \in 1 .. n /\ n \in Nat
  OBVIOUS
<1>2. u \in Seq(S) /\ Len(u) = k - 1 /\ \A j \in 1 .. k - 1 : u[j] = q[j]
  BY <1>1, SubSeqProperties
<1>3. v \in Seq(S) /\ Len(v) = n - k /\ \A j \in 1 .. n - k : v[j] = q[k + j]
  <2>1. k + 1 \in Int /\ n \in Int /\ \A i \in k + 1 .. n : q[i] \in S
    BY <1>1
  <2>2. /\ v \in Seq(S) /\ Len(v) = IF k + 1 =< n THEN n - (k + 1) + 1 ELSE 0
        /\ \A j \in 1 .. n - (k + 1) + 1 : v[j] = q[(k + 1) + j - 1]
    BY <2>1, SubSeqProperties
  <2>3. /\ n - (k + 1) + 1 = n - k /\ (~(k + 1 =< n) => n - k = 0)
        /\ \A j \in 1 .. n - k : (k + 1) + j - 1 = k + j
    BY <1>1, Behind, Zenon
  <2> HIDE DEF n, v
  <2> QED
    BY <2>2, <2>3
<1>4. t = u \o v /\ n = Len(q)
  OBVIOUS
<1> HIDE DEF n, u, v
<1>5. /\ u \o v \in Seq(S) /\ Len(u \o v) = Len(u) + Len(v)
      /\ \A j \in 1 .. Len(u) + Len(v) : (u \o v)[j] = IF j =< Len(u) THEN u[j] ELSE v[j - Len(u)]
  BY <1>2, <1>3, ConcatProperties
<1>6. Len(u) + Len(v) = n - 1
  BY <1>1, <1>2, <1>3
<1>7. DOMAIN t = 1 .. n - 1
  BY <1>4, <1>5, <1>6
<1>8. ASSUME NEW j \in DOMAIN t PROVE t[j] = IF j < k THEN q[j] ELSE q[j + 1]
  <2>1. j \in 1 .. n - 1
    BY <1>7
  <2>2. CASE j < k
    <3>1. j \in 1 .. k - 1 /\ j =< Len(u) /\ j \in 1 .. Len(u) + Len(v)
      BY <1>1, <1>2, <1>6, <2>1, <2>2
    <3> QED
      BY <1>2, <1>4, <1>5, <2>2, <3>1
  <2>3. CASE ~(j < k)
    <3>1. j - (k - 1) \in 1 .. n - k /\ k + (j - (k - 1)) = j + 1
      BY <1>1, <2>1, <2>3, Behind, Zenon
    <3>2. ~(j =< Len(u)) /\ j \in 1 .. Len(u) + Len(v) /\ j - Len(u) = j - (k - 1)
      BY <1>1, <1>2, <1>6, <2>1, <2>3
    <3>3. v[j - (k - 1)] = q[j + 1]
      BY <1>3, <3>1
    <3> QED
      BY <1>4, <1>5, <2>3, <3>2, <3>3
  <2> QED
    BY <2>2, <2>3
<1>9. Lists(t, C \ {q[k]})
  BY <1>4, <1>7, <1>8, FewerLists
<1> QED
  BY <1>4, <1>5, <1>9

LEMMA JoinMembers ==
  ASSUME NEW S, NEW s \in Seq(S), NEW t \in Seq(S)
  PROVE  Members(s \o t) = Members(s) \cup Members(t)
<1> DEFINE u == s \o t
<1>1. /\ DOMAIN u = 1 .. Len(s) + Len(t) /\ Len(s) \in Nat /\ Len(t) \in Nat
      /\ DOMAIN s = 1 .. Len(s) /\ DOMAIN t = 1 .. Len(t)
      /\ \A j \in DOMAIN u : u[j] = IF j =< Len(s) THEN s[j] ELSE t[j - Len(s)]
  BY ConcatProperties
<1> HIDE DEF u
<1>2. \A j \in DOMAIN u : IF j =< Len(s) THEN j \in DOMAIN s ELSE j - Len(s) \in DOMAIN t
  BY <1>1
<1>3. \A j \in DOMAIN s : j \in DOMAIN u /\ j =< Len(s)
  BY <1>1
<1>4. \A j \in DOMAIN t : j + Len(s) \in DOMAIN u /\ ~(j + Len(s) =< Len(s)) /\ (j + Len(s)) - Len(s) = j
  BY <1>1
<1>5. \A j \in DOMAIN t : u[j + Len(s)] = t[j]
  BY <1>1, <1>4
<1>6. Members(u) \subseteq Members(s) \cup Members(t)
  BY <1>1, <1>2 DEF Members
<1>7. Members(s) \subseteq Members(u)
  BY <1>1, <1>3 DEF Members
<1>8. Members(t) \subseteq Members(u)
  BY <1>4, <1>5 DEF Members
<1> QED
  BY <1>6, <1>7, <1>8 DEF u

LEMMA MoveHead ==
  ASSUME NEW S, NEW s \in Seq(S), NEW t \in Seq(S), t # <<>>
  PROVE  Append(s, Head(t)) \o Tail(t) = s \o t
  OBVIOUS
-----------------------------------------------------------------------------
LEMMA TypeInit == Init => TypeOK
<1>1. <<>> \in Seq(Socket) /\ <<>> \in Seq(Call)
  OBVIOUS
<1> QED
  BY <1>1 DEF Init, TypeOK

LEMMA TypeStep == TypeOK /\ [Next]_vars => TypeOK'
<1> SUFFICES ASSUME TypeOK, [Next]_vars PROVE TypeOK'
  OBVIOUS
<1>1. ASSUME NEW s \in Socket, Connection(s) PROVE TypeOK'
  <2>1. /\ Append(came, s) \in Seq(Socket) /\ Append(queue, s) \in Seq(Socket)
        /\ Append(accepted, s) \in Seq(Socket)
    BY AppendProperties DEF TypeOK
  <2>2. waiters # <<>> => Tail(waiters) \in Seq(Call)
    BY HeadTailProperties DEF TypeOK
  <2> QED
    BY <1>1, <2>1, <2>2 DEF Connection, TypeOK
<1>2. CASE ServerError
  <2>1. <<>> \in Seq(Call)
    OBVIOUS
  <2> QED
    BY <1>2, <2>1 DEF ServerError, TypeOK
<1>3. ASSUME NEW c \in Call, Accept(c) PROVE TypeOK'
  <2>1. CASE queue # <<>>
    <3>1. Tail(queue) \in Seq(Socket) /\ Head(queue) \in Socket
      BY <2>1, HeadTailProperties DEF TypeOK
    <3>2. Append(accepted, Head(queue)) \in Seq(Socket)
      BY <3>1, AppendProperties DEF TypeOK
    <3> QED
      BY <1>3, <2>1, <3>1, <3>2 DEF Accept, TypeOK
  <2>2. CASE queue = <<>>
    <3>1. Append(waiters, c) \in Seq(Call)
      BY AppendProperties DEF TypeOK
    <3> QED
      BY <1>3, <2>2, <3>1 DEF Accept, TypeOK
  <2> QED
    BY <2>1, <2>2
<1>4. ASSUME NEW c \in Call, Abort(c) PROVE TypeOK'
  <2>1. \A i \in DOMAIN waiters :
          SubSeq(waiters, 1, i - 1) \o SubSeq(waiters, i + 1, Len(waiters))
            \in Seq(Call)
    <3> TAKE i \in DOMAIN waiters
    <3>1. SubSeq(waiters, 1, i - 1) \in Seq(Call)
      BY DEF TypeOK
    <3>2. SubSeq(waiters, i + 1, Len(waiters)) \in Seq(Call)
      BY DEF TypeOK
    <3> QED
      BY <3>1, <3>2
  <2> QED
    BY <1>4, <2>1 DEF Abort, TypeOK
<1>5. CASE Close
  <2>1. <<>> \in Seq(Call) /\ <<>> \in Seq(Socket)
    OBVIOUS
  <2>2. Elements(queue) \subseteq Socket
    BY DEF Elements, TypeOK
  <2> QED
    BY <1>5, <2>1, <2>2 DEF Close, TypeOK
<1>6. CASE UNCHANGED vars
  BY <1>6 DEF vars, TypeOK
<1> QED
  BY <1>1, <1>2, <1>3, <1>4, <1>5, <1>6 DEF Next

\* The types of the two lists, the sockets and the pending calls.
THEOREM TypeCorrect == Spec => []TypeOK
  BY TypeInit, TypeStep, PTL DEF Spec

-----------------------------------------------------------------------------
(* NoneLost needs WaitersWait: a connection that finds a waiter must find    *)
(* its promise unsettled, and an empty queue to overtake.                    *)

Wait ==
  /\ Lists(waiters, pending)
  /\ waiters # <<>> => queue = <<>>
  /\ closed => queue = <<>>

LEMMA WaitInit == Init => Wait
  BY EmptyLists DEF Init, Wait

LEMMA WaitStep == TypeOK /\ Wait /\ [Next]_vars => Wait'
<1> SUFFICES ASSUME TypeOK, Wait, [Next]_vars PROVE Wait'
  OBVIOUS
<1>1. ASSUME NEW s \in Socket, Connection(s) PROVE Wait'
  <2>1. CASE waiters = <<>>
    BY <1>1, <2>1 DEF Connection, Wait
  <2>2. CASE waiters # <<>>
    <3>1. Lists(Tail(waiters), pending \ {Head(waiters)})
      BY <2>2, TailLists DEF TypeOK, Wait
    <3> QED
      BY <1>1, <2>2, <3>1 DEF Connection, Wait
  <2> QED
    BY <2>1, <2>2
<1>2. pending \ Elements(waiters) = {}
  BY DEF Wait, Lists, Members, Elements
<1>3. CASE ServerError
  BY <1>2, <1>3, EmptyLists DEF ServerError, Wait
<1>4. CASE Close
  BY <1>2, <1>4, EmptyLists DEF Close, Wait
<1>5. ASSUME NEW c \in Call, Accept(c) PROVE Wait'
  <2>1. CASE queue # <<>>
    BY <1>5, <2>1 DEF Accept, Wait
  <2>2. CASE queue = <<>>
    <3>1. Lists(Append(waiters, c), pending \cup {c})
      BY <1>5, AppendLists DEF Accept, TypeOK, Wait
    <3> QED
      BY <1>5, <2>2, <3>1 DEF Accept, Wait
  <2> QED
    BY <2>1, <2>2
<1>6. ASSUME NEW c \in Call, Abort(c) PROVE Wait'
  <2>1. PICK k \in DOMAIN waiters :
          /\ waiters[k] = c
          /\ waiters' = SubSeq(waiters, 1, k - 1)
                         \o SubSeq(waiters, k + 1, Len(waiters))
    BY <1>6 DEF Abort
  <2> DEFINE rest == SubSeq(waiters, 1, k - 1)
                      \o SubSeq(waiters, k + 1, Len(waiters))
  <2>2. waiters \in Seq(Call) /\ waiters # <<>>
    BY DEF TypeOK
  <2>3. Lists(rest, pending \ {c})
    BY <2>1, <2>2, RemoveLists DEF Wait
  <2>4. waiters' = rest
    BY <2>1
  <2> HIDE DEF rest
  <2> QED
    BY <1>6, <2>2, <2>3, <2>4 DEF Abort, Wait
<1>7. CASE UNCHANGED vars
  BY <1>7 DEF vars, Wait
<1> QED
  BY <1>1, <1>3, <1>4, <1>5, <1>6, <1>7 DEF Next

\* The waiters are the pending calls, and none waits beside a queued
\* connection.
THEOREM WaitersCorrect == Spec => []WaitersWait
<1>1. Wait => WaitersWait
  BY DEF Wait, WaitersWait, Lists, Members, Elements
<1> QED
  BY <1>1, TypeInit, TypeStep, WaitInit, WaitStep, PTL DEF Spec

LEMMA AppendLater ==
  ASSUME accepted \in Seq(Socket), queue \in Seq(Socket), NEW s \in Socket
  PROVE  Append(accepted \o queue, s) = accepted \o Append(queue, s)
  OBVIOUS

LEMMA NoneLostStep ==
  TypeOK /\ Wait /\ NoneLost /\ [Next]_vars => NoneLost'
<1> SUFFICES ASSUME TypeOK, Wait, NoneLost, [Next]_vars PROVE NoneLost'
  OBVIOUS
<1>t. /\ queue \in Seq(Socket) /\ came \in Seq(Socket)
      /\ accepted \in Seq(Socket) /\ waiters \in Seq(Call)
  BY DEF TypeOK
<1>1. ASSUME NEW s \in Socket, Connection(s) PROVE NoneLost'
  <2>1. ~closed /\ ~closed' /\ came = accepted \o queue /\ came' = Append(came, s)
    BY <1>1 DEF Connection, NoneLost
  <2>2. CASE waiters = <<>>
    <3>1. Append(accepted \o queue, s) = accepted \o Append(queue, s)
      BY <1>t, AppendLater
    <3> QED
      BY <1>1, <2>1, <2>2, <3>1 DEF Connection, NoneLost
  <2>3. CASE waiters # <<>>
    <3>1. queue = <<>> /\ Head(waiters) \in pending
      BY <1>t, <2>3, NonemptyLists DEF Wait
    <3>2. came = accepted
      BY <1>t, <2>1, <3>1, ConcatEmptySeq
    <3>3. accepted' = Append(accepted, s) /\ queue' = <<>>
      BY <1>1, <2>3, <3>1 DEF Connection
    <3>4. accepted' \in Seq(Socket)
      BY <1>t, <3>3, AppendProperties
    <3>5. came' = accepted' \o queue'
      BY <2>1, <3>2, <3>3, <3>4, ConcatEmptySeq
    <3> QED
      BY <2>1, <3>5 DEF NoneLost
  <2> QED
    BY <2>2, <2>3
<1>2. CASE UNCHANGED <<queue, closed, came, accepted, destroyed>>
  BY <1>2 DEF NoneLost
<1>3. CASE ServerError
  BY <1>2, <1>3 DEF ServerError
<1>4. ASSUME NEW c \in Call, Accept(c) PROVE NoneLost'
  <2>1. CASE queue # <<>>
    <3>1. ~closed
      BY <2>1 DEF Wait
    <3>2. Append(accepted, Head(queue)) \o Tail(queue) = accepted \o queue
      BY <1>t, <2>1, MoveHead
    <3> QED
      BY <1>4, <2>1, <3>1, <3>2 DEF Accept, NoneLost
  <2>2. CASE queue = <<>>
    BY <1>2, <1>4, <2>2 DEF Accept
  <2> QED
    BY <2>1, <2>2
<1>5. ASSUME NEW c \in Call, Abort(c) PROVE NoneLost'
  BY <1>2, <1>5 DEF Abort
<1>6. CASE Close
  <2>1. came = accepted \o queue
    BY <1>6 DEF Close, NoneLost
  <2>2. Members(came) = Members(accepted) \cup Members(queue)
    BY <1>t, <2>1, JoinMembers
  <2>3. Elements(came) = Elements(accepted) \cup Elements(queue)
    BY <2>2 DEF Members, Elements
  <2>4. /\ closed' = TRUE /\ destroyed' = Elements(queue)
        /\ UNCHANGED <<came, accepted>>
    BY <1>6 DEF Close
  <2> QED
    BY <2>3, <2>4 DEF NoneLost, Elements
<1>7. CASE UNCHANGED vars
  BY <1>2, <1>7 DEF vars
<1> QED
  BY <1>1, <1>3, <1>4, <1>5, <1>6, <1>7 DEF Next

LEMMA NoneLostInit == Init => NoneLost
  BY DEF Init, NoneLost

\* No connection is lost, overtaken or handed out twice, whatever accept()
\* calls are cancelled and whenever the listener fails or is closed.
THEOREM NoneLostCorrect == Spec => []NoneLost
  BY TypeInit, TypeStep, WaitInit, WaitStep, NoneLostInit, NoneLostStep, PTL
     DEF Spec

-----------------------------------------------------------------------------
(* Refinement. *)

LEMMA BacklogStep == TypeOK /\ Wait /\ [Next]_vars => [B!Next]_(B!vars)
<1> SUFFICES ASSUME TypeOK, Wait, [Next]_vars PROVE [B!Next]_(B!vars)
  OBVIOUS
<1>p. pending \subseteq Call /\ Elements(waiters) = pending
  BY DEF TypeOK, Wait, Lists, Members, Elements
<1>1. ASSUME NEW s \in Socket, Connection(s) PROVE B!Come(s)
  <2>1. CASE waiters = <<>>
    <3>1. pending = {}
      BY <1>p, <2>1 DEF Elements
    <3> QED
      BY <1>1, <2>1, <3>1 DEF Connection, B!Come
  <2>2. CASE waiters # <<>>
    <3>1. Head(waiters) \in pending
      BY <2>2, NonemptyLists DEF TypeOK, Wait
    <3> QED
      BY <1>1, <2>2, <3>1 DEF Connection, B!Come
  <2> QED
    BY <2>1, <2>2
<1>2. CASE ServerError
  <2>1. B!GiveUp(Elements(waiters))
    BY <1>2 DEF ServerError, B!GiveUp
  <2> QED
    BY <1>p, <2>1 DEF B!Next
<1>3. ASSUME NEW c \in Call, Accept(c) PROVE B!Accept(c)
  BY <1>3 DEF Accept, B!Accept
<1>4. ASSUME NEW c \in Call, Abort(c) PROVE B!GiveUp({c})
  BY <1>4 DEF Abort, B!GiveUp
<1>5. CASE Close
  <2>1. pending' = {}
    BY <1>5, <1>p DEF Close
  <2> QED
    BY <1>5, <2>1 DEF Close, B!Close, B!Next
<1>6. CASE UNCHANGED vars
  BY <1>6 DEF vars, B!vars
<1> QED
  BY <1>1, <1>2, <1>3, <1>4, <1>5, <1>6 DEF Next, B!Next

\* The queue and the list of waiters behave like a backlog that calls of
\* accept take from, each when it is served or not at all.
THEOREM Refines == Spec => Implements
<1>1. Init => B!Init
  BY DEF Init, B!Init
<1> QED
  BY <1>1, TypeInit, TypeStep, WaitInit, WaitStep, BacklogStep, PTL
     DEF Spec, Implements, B!Spec
=============================================================================
