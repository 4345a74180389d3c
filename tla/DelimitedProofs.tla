-------------------------- MODULE DelimitedProofs --------------------------
(***************************************************************************)
(* What the transport delivers, for every stream, every cut of it into     *)
(* data events, every frame limit and every order of the calls of recv.    *)
(***************************************************************************)
EXTENDS Delimited, SequenceTheorems, TLAPS

(* The waiters are a list of the pending calls, from which a cancelled call   *)
(* is removed wherever it stands.                                            *)

\* The list q has the members of C, each once.
Members(q) == {q[i] : i \in DOMAIN q}
Lists(q, C) == Members(q) = C /\ \A i, j \in DOMAIN q : q[i] = q[j] => i = j

LEMMA EmptyLists == Lists(<<>>, {})
  BY DEF Lists, Members

LEMMA NonemptyLists ==
  ASSUME NEW S, NEW q \in Seq(S), q # <<>>, NEW C, Lists(q, C)
  PROVE  Head(q) \in C
  BY DEF Lists, Members

LEMMA AppendLists ==
  ASSUME NEW S, NEW q \in Seq(S), NEW C, NEW x \in S, x \notin C, Lists(q, C)
  PROVE  Lists(Append(q, x), C \cup {x})
<1> DEFINE t == Append(q, x)
<1>1. /\ Len(q) + 1 \notin DOMAIN q /\ DOMAIN t = DOMAIN q \cup {Len(q) + 1}
      /\ \A i \in DOMAIN q : t[i] = q[i] /\ q[i] # x
      /\ t[Len(q) + 1] = x
  BY DEF Lists, Members
<1> HIDE DEF t
<1>2. Members(t) = Members(q) \cup {x}
  BY <1>1 DEF Members
<1> QED
  BY <1>1, <1>2 DEF Lists, t

\* t is q without its entry at k.
LEMMA FewerLists ==
  ASSUME NEW S, NEW q \in Seq(S), NEW C, Lists(q, C), NEW k \in DOMAIN q, NEW t,
         DOMAIN t = 1 .. Len(q) - 1,
         \A j \in DOMAIN t : t[j] = IF j < k THEN q[j] ELSE q[j + 1]
  PROVE  Lists(t, C \ {q[k]})
<1> DEFINE n == Len(q)
           at(j) == IF j < k THEN j ELSE j + 1
<1>1. n \in Nat /\ DOMAIN q = 1 .. n /\ k \in 1 .. n /\ DOMAIN t = 1 .. n - 1
  OBVIOUS
<1> HIDE DEF n
<1>2. \A j \in DOMAIN t : at(j) \in DOMAIN q \ {k} /\ t[j] = q[at(j)]
  BY <1>1
<1>3. \A i, j \in DOMAIN t : at(i) = at(j) => i = j
  BY <1>1
<1>4. \A i \in DOMAIN q \ {k} : \E j \in DOMAIN t : at(j) = i
  <2> TAKE i \in DOMAIN q \ {k}
  <2>1. i < k => i \in DOMAIN t /\ at(i) = i
    BY <1>1
  <2>2. ~(i < k) => i - 1 \in DOMAIN t /\ at(i - 1) = i
    BY <1>1
  <2> QED
    BY <2>1, <2>2
<1> HIDE DEF at
<1> QED
  BY <1>2, <1>3, <1>4 DEF Lists, Members

LEMMA TailLists ==
  ASSUME NEW S, NEW q \in Seq(S), q # <<>>, NEW C, Lists(q, C)
  PROVE  Lists(Tail(q), C \ {Head(q)})
<1> DEFINE t == Tail(q)
<1>1. /\ 1 \in DOMAIN q /\ Head(q) = q[1] /\ DOMAIN t = 1 .. Len(q) - 1
      /\ \A j \in DOMAIN t : t[j] = IF j < 1 THEN q[j] ELSE q[j + 1]
  OBVIOUS
<1> HIDE DEF t
<1>2. Lists(t, C \ {q[1]})
  BY <1>1, FewerLists
<1> QED
  BY <1>1, <1>2 DEF t

LEMMA Behind ==
  ASSUME NEW n \in Nat, NEW k \in 1 .. n
  PROVE  /\ k \in Int /\ n \in Int /\ k + 1 \in Int
         /\ n - (k + 1) + 1 = n - k /\ (~(k + 1 =< n) => n - k = 0)
         /\ \A j \in 1 .. n - k : (k + 1) + j - 1 = k + j
         /\ \A j \in 1 .. n - 1 :
              ~(j < k) => j - (k - 1) \in 1 .. n - k /\ k + (j - (k - 1)) = j + 1
  OBVIOUS

\* What Array.splice(k, 1) leaves.
LEMMA RemoveLists ==
  ASSUME NEW S, NEW q \in Seq(S), NEW C, Lists(q, C), NEW k \in DOMAIN q, NEW t,
         t = SubSeq(q, 1, k - 1) \o SubSeq(q, k + 1, Len(q))
  PROVE  t \in Seq(S) /\ Lists(t, C \ {q[k]})
<1> DEFINE n == Len(q)
           u == SubSeq(q, 1, k - 1)
           v == SubSeq(q, k + 1, n)
<1>1. k \in 1 .. n /\ n \in Nat
  OBVIOUS
<1>2. u \in Seq(S) /\ Len(u) = k - 1 /\ \A j \in 1 .. k - 1 : u[j] = q[j]
  BY <1>1, SubSeqProperties
<1>3. v \in Seq(S) /\ Len(v) = n - k /\ \A j \in 1 .. n - k : v[j] = q[k + j]
  <2>1. k + 1 \in Int /\ n \in Int /\ \A i \in k + 1 .. n : q[i] \in S
    BY <1>1
  <2>2. /\ v \in Seq(S) /\ Len(v) = IF k + 1 =< n THEN n - (k + 1) + 1 ELSE 0
        /\ \A j \in 1 .. n - (k + 1) + 1 : v[j] = q[(k + 1) + j - 1]
    BY <2>1, SubSeqProperties
  <2>3. /\ n - (k + 1) + 1 = n - k /\ (~(k + 1 =< n) => n - k = 0)
        /\ \A j \in 1 .. n - k : (k + 1) + j - 1 = k + j
    BY <1>1, Behind, Zenon
  <2> HIDE DEF n, v
  <2> QED
    BY <2>2, <2>3
<1>4. t = u \o v /\ n = Len(q)
  OBVIOUS
<1> HIDE DEF n, u, v
<1>5. /\ u \o v \in Seq(S) /\ Len(u \o v) = Len(u) + Len(v)
      /\ \A j \in 1 .. Len(u) + Len(v) : (u \o v)[j] = IF j =< Len(u) THEN u[j] ELSE v[j - Len(u)]
  BY <1>2, <1>3, ConcatProperties
<1>6. Len(u) + Len(v) = n - 1
  BY <1>1, <1>2, <1>3
<1>7. DOMAIN t = 1 .. n - 1
  BY <1>4, <1>5, <1>6
<1>8. ASSUME NEW j \in DOMAIN t PROVE t[j] = IF j < k THEN q[j] ELSE q[j + 1]
  <2>1. j \in 1 .. n - 1
    BY <1>7
  <2>2. CASE j < k
    <3>1. j \in 1 .. k - 1 /\ j =< Len(u) /\ j \in 1 .. Len(u) + Len(v)
      BY <1>1, <1>2, <1>6, <2>1, <2>2
    <3> QED
      BY <1>2, <1>4, <1>5, <2>2, <3>1
  <2>3. CASE ~(j < k)
    <3>1. j - (k - 1) \in 1 .. n - k /\ k + (j - (k - 1)) = j + 1
      BY <1>1, <2>1, <2>3, Behind, Zenon
    <3>2. ~(j =< Len(u)) /\ j \in 1 .. Len(u) + Len(v) /\ j - Len(u) = j - (k - 1)
      BY <1>1, <1>2, <1>6, <2>1, <2>3
    <3>3. v[j - (k - 1)] = q[j + 1]
      BY <1>3, <3>1
    <3> QED
      BY <1>4, <1>5, <2>3, <3>2, <3>3
  <2> QED
    BY <2>2, <2>3
<1>9. Lists(t, C \ {q[k]})
  BY <1>4, <1>7, <1>8, FewerLists
<1> QED
  BY <1>4, <1>5, <1>9

LEMMA MoveHead ==
  ASSUME NEW S, NEW s \in Seq(S), NEW t \in Seq(S), t # <<>>
  PROVE  Append(s, Head(t)) \o Tail(t) = s \o t
  OBVIOUS

LEMMA LastOfAppend ==
  ASSUME NEW S, NEW s \in Seq(S), NEW x \in S
  PROVE  Append(s, x) # <<>> /\ Append(s, x)[Len(Append(s, x))] = x
  OBVIOUS
-----------------------------------------------------------------------------
LEMMA PushType ==
  ASSUME RecvType, NEW f \in Frame, Push(f)
  PROVE  RecvType'
<1> USE DEF RecvType
<1>1. Append(produced, f) \in Seq(Frame)
  BY AppendProperties
<1>2. Append(frames, f) \in Seq(Frame)
  BY AppendProperties
<1>3. Append(delivered, f) \in Seq(Frame)
  BY AppendProperties
<1>4. CASE waiters = <<>>
  BY <1>1, <1>2, <1>4 DEF Push
<1>5. CASE waiters # <<>>
  <2>1. Tail(waiters) \in Seq(Caller)
    BY <1>5, HeadTailProperties
  <2> QED
    BY <1>1, <1>3, <1>5, <2>1 DEF Push
<1> QED
  BY <1>4, <1>5

\* The window that decode searches.
LEMMA WindowFacts ==
  ASSUME CodecType
  PROVE  /\ stream \in Seq(Nat) /\ Len(stream) \in Nat /\ MaxLength \in Nat
         /\ arrived \in Nat /\ consumed \in Nat /\ consumed =< arrived
         /\ BufLen \in Nat /\ BufLen = arrived - consumed /\ ReadTo \in Nat
         /\ ReadTo =< BufLen /\ ReadTo =< MaxLength + 1
         /\ ~TooLong => ReadTo = BufLen /\ BufLen =< MaxLength
         /\ nextIndex \in Nat
  BY StreamAssumption, LengthAssumption DEF CodecType, BufLen, ReadTo, TooLong

LEMMA TypeInit == Init => TypeOK
<1> SUFFICES ASSUME Init PROVE TypeOK
  OBVIOUS
<1>1. RecvType
  BY DEF Init, RecvType
<1>2. stream \in Seq(Nat) /\ Len(stream) \in Nat
  BY StreamAssumption DEF Init
<1>3. CodecType
  BY <1>2, LengthAssumption DEF Init, CodecType, BufLen
<1>4. FlagType
  BY DEF Init, FlagType
<1> QED
  BY <1>1, <1>3, <1>4 DEF TypeOK

LEMMA RecvTypeStep == RecvType /\ CodecType /\ [Next]_vars => RecvType'
<1> SUFFICES ASSUME RecvType, CodecType, [Next]_vars PROVE RecvType'
  OBVIOUS
<1> USE DEF vars, recvVars
<1>1. ASSUME UNCHANGED recvVars PROVE RecvType'
  BY <1>1 DEF RecvType
<1>2. ASSUME NEW n \in 1 .. Len(stream), OnData(n) PROVE RecvType'
  BY <1>1, <1>2 DEF OnData
<1>3. CASE OnEnd \/ DiscardToDelimiter \/ NeedMore \/ IntoParts
  BY <1>1, <1>3 DEF OnEnd, DiscardToDelimiter, NeedMore, IntoParts
<1>4. CASE OnError \/ Oversize
  <2>1. <<>> \in Seq(Caller)
    OBVIOUS
  <2> QED
    BY <1>4, <2>1 DEF OnError, Oversize, Fail, RecvType
<1>5. CASE DiscardRest \/ EndOfStream
  <2>1. Eof \in Frame
    BY DEF Eof, Frame
  <2>2. Push(Eof) \/ UNCHANGED recvVars
    BY <1>5 DEF DiscardRest, EndOfStream
  <2> QED
    BY <1>1, <2>1, <2>2, PushType
<1>6. CASE DecodeFrame
  <2>1. PICK i \in nextIndex .. ReadTo - 1 : Push(<<consumed + 1, consumed + i>>)
    BY <1>6 DEF DecodeFrame
  <2>2. <<consumed + 1, consumed + i>> \in Frame
    BY <2>1, WindowFacts DEF Frame
  <2> QED
    BY <2>1, <2>2, PushType
<1>7. CASE LastFrame
  <2>1. <<consumed + 1, arrived>> \in Frame
    BY WindowFacts DEF Frame
  <2> QED
    BY <1>7, <2>1, PushType DEF LastFrame
<1>8. ASSUME NEW r \in Caller, Recv(r) PROVE RecvType'
  <2>1. CASE frames = <<>>
    <3>1. Append(waiters, r) \in Seq(Caller)
      BY AppendProperties DEF RecvType
    <3> QED
      BY <1>8, <2>1, <3>1 DEF Recv, RecvType
  <2>2. CASE frames # <<>>
    <3>1. Tail(frames) \in Seq(Frame) /\ Head(frames) \in Frame
      BY <2>2, HeadTailProperties DEF RecvType
    <3>2. Append(delivered, Head(frames)) \in Seq(Frame)
      BY <3>1, AppendProperties DEF RecvType
    <3> QED
      BY <1>8, <2>2, <3>1, <3>2 DEF Recv, RecvType
  <2> QED
    BY <2>1, <2>2
<1>9. ASSUME NEW r \in Caller, AbortRecv(r) PROVE RecvType'
  <2>1. \A i \in DOMAIN waiters :
          SubSeq(waiters, 1, i - 1) \o SubSeq(waiters, i + 1, Len(waiters))
            \in Seq(Caller)
    BY DEF RecvType
  <2> QED
    BY <1>9, <2>1 DEF AbortRecv, RecvType
<1>10. CASE UNCHANGED vars
  BY <1>1, <1>10
<1> QED
  BY <1>2, <1>3, <1>4, <1>5, <1>6, <1>7, <1>8, <1>9, <1>10 DEF Next, Decode

LEMMA Left ==
  ASSUME NEW a \in Nat, NEW c \in 0 .. a
  PROVE  0 =< a - c
  OBVIOUS

LEMMA TakeOut ==
  ASSUME CodecType, consumed' \in 0 .. arrived, nextIndex' = 0,
         UNCHANGED <<stream, arrived, detached, readBuf>>
  PROVE  CodecType'
<1>1. arrived \in Nat /\ MaxLength \in Nat
  BY WindowFacts
<1>2. 0 =< arrived - consumed'
  BY <1>1, Left
<1>3. BufLen' = arrived - consumed'
  BY DEF BufLen
<1>4. nextIndex' \in 0 .. MaxLength
  BY <1>1
<1> QED
  BY <1>2, <1>3, <1>4 DEF CodecType

LEMMA CodecTypeStep ==
  CodecType /\ FlagType /\ [Next]_vars => CodecType' /\ FlagType'
<1> SUFFICES ASSUME CodecType, FlagType, [Next]_vars
             PROVE  CodecType' /\ FlagType'
  OBVIOUS
<1> USE WindowFacts DEF vars, codecVars, endVars, CodecType, FlagType
<1>1. CASE UNCHANGED vars
  BY <1>1 DEF BufLen
<1>2. ASSUME NEW n \in 1 .. Len(stream), OnData(n)
      PROVE  CodecType' /\ FlagType'
  BY <1>2 DEF OnData, BufLen
<1>3. CASE OnEnd
  BY <1>3 DEF OnEnd, BufLen
<1>4. CASE OnError
  BY <1>4 DEF OnError, Fail, BufLen
<1>5. CASE DiscardToDelimiter
  <2>1. PICK i \in nextIndex .. ReadTo - 1 : consumed' = consumed + i + 1
    BY <1>5 DEF DiscardToDelimiter
  <2>2. consumed' \in 0 .. arrived
    BY <2>1
  <2>3. /\ nextIndex' = 0 /\ isDiscarding' \in BOOLEAN
        /\ UNCHANGED <<stream, arrived, endVars, mode>>
    BY <1>5 DEF DiscardToDelimiter
  <2> QED
    BY <2>2, <2>3, TakeOut
<1>6. CASE DiscardRest
  BY <1>6 DEF DiscardRest, BufLen
<1>7. CASE DecodeFrame
  <2>1. PICK i \in nextIndex .. ReadTo - 1 : consumed' = consumed + i + 1
    BY <1>7 DEF DecodeFrame
  <2>2. consumed' \in 0 .. arrived
    BY <2>1
  <2>3. /\ nextIndex' = 0 /\ isDiscarding' \in BOOLEAN
        /\ UNCHANGED <<stream, arrived, endVars, mode>>
    BY <1>7 DEF DecodeFrame
  <2> QED
    BY <2>2, <2>3, TakeOut
<1>8. CASE Oversize
  BY <1>8 DEF Oversize, Fail, BufLen
<1>9. CASE NeedMore
  BY <1>9 DEF NeedMore, BufLen
<1>10. CASE LastFrame
  BY <1>10 DEF LastFrame, BufLen
<1>11. CASE EndOfStream
  BY <1>11 DEF EndOfStream, BufLen
<1>12. ASSUME NEW r \in Caller, Recv(r) \/ AbortRecv(r)
       PROVE  CodecType' /\ FlagType'
  BY <1>12 DEF Recv, AbortRecv, BufLen
<1>13. CASE IntoParts
  BY <1>13 DEF IntoParts, BufLen
<1> QED
  BY <1>1, <1>2, <1>3, <1>4, <1>5, <1>6, <1>7, <1>8, <1>9, <1>10, <1>11,
     <1>12, <1>13 DEF Next, Decode

\* The resume index and the consumed prefix stay inside the buffer.
THEOREM TypeCorrect == Spec => []TypeOK
  BY TypeInit, RecvTypeStep, CodecTypeStep, PTL DEF Spec, TypeOK

-----------------------------------------------------------------------------
(* The frames come in order. *)

LEMMA AppendLater ==
  ASSUME delivered \in Seq(Frame), frames \in Seq(Frame), NEW f \in Frame
  PROVE  Append(delivered \o frames, f) = delivered \o Append(frames, f)
  OBVIOUS

\* InOrder is not inductive: a frame that goes past the queue to a waiter must
\* find the queue empty, and the waiter unsettled.
Queued ==
  /\ InOrder
  /\ waiters # <<>> => frames = <<>>
  /\ Lists(waiters, pending)

LEMMA PushQueued ==
  ASSUME RecvType, Queued, NEW f \in Frame, Push(f)
  PROVE  Queued'
<1>0. /\ delivered \in Seq(Frame) /\ frames \in Seq(Frame)
      /\ waiters \in Seq(Caller) /\ f \in Frame
  BY DEF RecvType
<1>1. CASE waiters = <<>>
  <2>1. Append(delivered \o frames, f) = delivered \o Append(frames, f)
    BY <1>0, AppendLater
  <2>2. InOrder'
    BY <1>1, <2>1 DEF Push, Queued, InOrder
  <2>3. waiters' = waiters /\ pending' = pending
    BY <1>1 DEF Push
  <2> QED
    BY <1>1, <2>2, <2>3 DEF Queued
<1>2. CASE waiters # <<>>
  <2>1. frames = <<>> /\ produced = delivered
    BY <1>0, <1>2, ConcatEmptySeq DEF Queued, InOrder
  <2>2. /\ Head(waiters) \in pending
        /\ Lists(Tail(waiters), pending \ {Head(waiters)})
    BY <1>0, <1>2, NonemptyLists, TailLists DEF Queued
  <2>3. delivered' = Append(delivered, f) /\ delivered' \in Seq(Frame)
    <3>1. Append(delivered, f) \in Seq(Frame)
      BY <1>0, AppendProperties
    <3> QED
      BY <1>2, <2>2, <3>1 DEF Push
  <2>4. InOrder'
    BY <1>2, <2>1, <2>3, ConcatEmptySeq DEF Push, InOrder
  <2> QED
    BY <1>2, <2>1, <2>2, <2>4 DEF Push, Queued
<1> QED
  BY <1>1, <1>2

LEMMA QueuedStep == RecvType /\ CodecType /\ Queued /\ [Next]_vars => Queued'
<1> SUFFICES ASSUME RecvType, CodecType, Queued, [Next]_vars PROVE Queued'
  OBVIOUS
<1> USE DEF vars, recvVars
<1>1. ASSUME UNCHANGED recvVars PROVE Queued'
  BY <1>1 DEF Queued, InOrder
<1>2. ASSUME NEW n \in 1 .. Len(stream), OnData(n) PROVE Queued'
  BY <1>1, <1>2 DEF OnData
<1>3. CASE OnEnd \/ DiscardToDelimiter \/ NeedMore \/ IntoParts
  BY <1>1, <1>3 DEF OnEnd, DiscardToDelimiter, NeedMore, IntoParts
<1>4. CASE OnError \/ Oversize
  <2>1. /\ waiters' = <<>> /\ pending' = pending \ Members(waiters)
        /\ UNCHANGED <<frames, produced, delivered>>
    BY <1>4 DEF OnError, Oversize, Fail, Members
  <2>2. pending' = {}
    BY <2>1 DEF Queued, Lists
  <2> QED
    BY <2>1, <2>2, EmptyLists DEF Queued, InOrder
<1>5. CASE DiscardRest \/ EndOfStream
  <2>1. Eof \in Frame
    BY DEF Eof, Frame
  <2>2. Push(Eof) \/ UNCHANGED recvVars
    BY <1>5 DEF DiscardRest, EndOfStream
  <2> QED
    BY <1>1, <2>1, <2>2, PushQueued
<1>6. CASE DecodeFrame
  <2>1. PICK i \in nextIndex .. ReadTo - 1 : Push(<<consumed + 1, consumed + i>>)
    BY <1>6 DEF DecodeFrame
  <2>2. <<consumed + 1, consumed + i>> \in Frame
    BY <2>1, WindowFacts DEF Frame
  <2> QED
    BY <2>1, <2>2, PushQueued
<1>7. CASE LastFrame
  <2>1. <<consumed + 1, arrived>> \in Frame
    BY WindowFacts DEF Frame
  <2> QED
    BY <1>7, <2>1, PushQueued DEF LastFrame
<1>8. ASSUME NEW r \in Caller, Recv(r) PROVE Queued'
  <2>1. CASE frames = <<>>
    <3>1. Lists(Append(waiters, r), pending \cup {r})
      BY <1>8, AppendLists DEF Recv, RecvType, Queued
    <3> QED
      BY <1>8, <2>1, <3>1 DEF Recv, Queued, InOrder
  <2>2. CASE frames # <<>>
    <3>1. waiters = <<>>
      BY <2>2 DEF Queued
    <3>2. produced = Append(delivered, Head(frames)) \o Tail(frames)
      BY <2>2, MoveHead DEF RecvType, Queued, InOrder
    <3> QED
      BY <1>8, <2>2, <3>1, <3>2 DEF Recv, Queued, InOrder
  <2> QED
    BY <2>1, <2>2
<1>9. ASSUME NEW r \in Caller, AbortRecv(r) PROVE Queued'
  <2>1. PICK k \in DOMAIN waiters :
          /\ waiters[k] = r
          /\ waiters' = SubSeq(waiters, 1, k - 1)
                         \o SubSeq(waiters, k + 1, Len(waiters))
    BY <1>9 DEF AbortRecv
  <2>2. Lists(waiters', pending \ {r})
    BY <2>1, RemoveLists DEF RecvType, Queued
  <2>3. waiters # <<>>
    OBVIOUS
  <2> QED
    BY <1>9, <2>2, <2>3 DEF AbortRecv, Queued, InOrder
<1>10. CASE UNCHANGED vars
  BY <1>1, <1>10
<1> QED
  BY <1>2, <1>3, <1>4, <1>5, <1>6, <1>7, <1>8, <1>9, <1>10 DEF Next, Decode

LEMMA QueuedInit == Init => Queued
  BY EmptyLists DEF Init, Queued, InOrder

\* Whatever is cancelled and whenever: recv resolves with the decoded frames
\* in their order, and none is lost or given twice.
THEOREM OrderCorrect == Spec => []InOrder
<1>1. Queued => InOrder
  BY DEF Queued
<1> QED
  BY <1>1, TypeInit, RecvTypeStep, CodecTypeStep, QueuedInit, QueuedStep, PTL
     DEF Spec, TypeOK

-----------------------------------------------------------------------------
(* The frames are the segments of the stream. *)

\* FramesAreSegments is not inductive: the codec must not have passed a
\* delimiter with nextIndex, and must stand behind one unless it discards.
NoDelimiter(a, b) == \A i \in a .. b : stream[i] # 0

Scan ==
  /\ FramesAreSegments
  /\ ~detached => NoDelimiter(consumed + 1, consumed + nextIndex)
  /\ ~detached /\ ~isDiscarding =>
       \/ consumed = 0
       \/ stream[consumed] = 0
       \/ finished /\ consumed = arrived
  /\ mode # "idle" => ~detached
  /\ mode = "eof" => finished

LEMMA ScanInit == Init => Scan
<1> SUFFICES ASSUME Init PROVE Scan
  OBVIOUS
<1>1. FramesAreSegments
  BY DEF Init, FramesAreSegments
<1>2. NoDelimiter(consumed + 1, consumed + nextIndex)
  BY DEF Init, NoDelimiter
<1> QED
  BY <1>1, <1>2 DEF Init, Scan

\* The segments of a stream stay its segments.
LEMMA SegmentStays ==
  ASSUME CodecType, CodecType', stream' = stream, arrived' >= arrived,
         finished => finished' /\ arrived' = arrived,
         NEW a \in Nat, NEW b \in Nat, Segment(a, b)
  PROVE  Segment(a, b)'
<1>1. arrived \in Nat /\ arrived' \in Nat /\ Len(stream) \in Nat
  BY WindowFacts DEF CodecType
<1>2. b =< arrived'
  BY <1>1 DEF Segment
<1>3. \/ b < arrived' /\ stream[b + 1] = 0
      \/ b = arrived' /\ b >= a /\ finished'
  BY <1>1 DEF Segment
<1> QED
  BY <1>2, <1>3 DEF Segment

LEMMA FramesStay ==
  ASSUME RecvType, CodecType, CodecType', stream' = stream, arrived' >= arrived,
         finished => finished' /\ arrived' = arrived,
         FramesAreSegments, produced' = produced
  PROVE  FramesAreSegments'
<1> SUFFICES ASSUME NEW i \in DOMAIN produced, produced[i] # Eof
             PROVE  Segment(produced[i][1], produced[i][2])'
  BY DEF FramesAreSegments
<1>1. produced[i] \in Frame
  BY DEF RecvType
<1>2. produced[i][1] \in Nat /\ produced[i][2] \in Nat
  BY <1>1 DEF Frame
<1>3. Segment(produced[i][1], produced[i][2])
  BY DEF FramesAreSegments
<1> QED
  BY <1>2, <1>3, SegmentStays

LEMMA PushFrame ==
  ASSUME RecvType, CodecType, CodecType', UNCHANGED <<stream, arrived, finished>>,
         FramesAreSegments, NEW f \in Frame, produced' = Append(produced, f),
         f # Eof => Segment(f[1], f[2])
  PROVE  FramesAreSegments'
<1> SUFFICES ASSUME NEW i \in DOMAIN produced', produced'[i] # Eof
             PROVE  Segment(produced'[i][1], produced'[i][2])
  BY DEF FramesAreSegments, Segment
<1>1. /\ DOMAIN produced' = 1 .. Len(produced) + 1 /\ Len(produced) \in Nat
      /\ DOMAIN produced = 1 .. Len(produced)
      /\ \A j \in 1 .. Len(produced) : produced'[j] = produced[j]
      /\ produced'[Len(produced) + 1] = f
  BY AppendProperties DEF RecvType
<1>2. i \in DOMAIN produced \/ i = Len(produced) + 1
  BY <1>1
<1> QED
  BY <1>1, <1>2 DEF FramesAreSegments

\* A delimiter the search finds closes the bytes searched before it.
LEMMA FoundFacts ==
  ASSUME CodecType, NoDelimiter(consumed + 1, consumed + nextIndex),
         NEW i \in nextIndex .. ReadTo - 1, Found(i)
  PROVE  /\ i \in 0 .. MaxLength /\ consumed + i + 1 \in 1 .. arrived
         /\ stream[consumed + i + 1] = 0
         /\ NoDelimiter(consumed + 1, consumed + i)
<1>w. /\ consumed \in Nat /\ nextIndex \in Nat /\ ReadTo \in Nat
      /\ ReadTo =< arrived - consumed /\ ReadTo =< MaxLength + 1
      /\ arrived \in Nat /\ MaxLength \in Nat
  BY WindowFacts
<1>0. consumed \in Nat /\ nextIndex \in Nat /\ i \in Nat
  BY <1>w
<1>1. i \in 0 .. MaxLength /\ consumed + i + 1 \in 1 .. arrived
  BY <1>w
<1>2. stream[consumed + i + 1] = 0
  <2>1. consumed + 1 + i = consumed + i + 1
    BY <1>1, WindowFacts
  <2> QED
    BY <2>1 DEF Found
<1>3. ASSUME NEW p \in consumed + 1 .. consumed + i PROVE stream[p] # 0
  <2>1. CASE p =< consumed + nextIndex
    BY <1>0, <2>1 DEF NoDelimiter
  <2>2. CASE p > consumed + nextIndex
    <3>1. p - consumed - 1 \in nextIndex .. i - 1
      BY <1>0, <2>2
    <3>2. consumed + 1 + (p - consumed - 1) = p
      BY <1>0
    <3> QED
      BY <3>1, <3>2 DEF Found
  <2> QED
    BY <1>0, <2>1, <2>2
<1> QED
  BY <1>1, <1>2, <1>3 DEF NoDelimiter

\* A window without one holds no delimiter at all.
LEMMA NoneFoundFacts ==
  ASSUME CodecType, NoDelimiter(consumed + 1, consumed + nextIndex), NoneFound
  PROVE  NoDelimiter(consumed + 1, consumed + ReadTo)
<1> SUFFICES ASSUME NEW p \in consumed + 1 .. consumed + ReadTo
             PROVE  stream[p] # 0
  BY DEF NoDelimiter
<1>0. consumed \in Nat /\ nextIndex \in Nat /\ ReadTo \in Nat
  BY WindowFacts
<1>1. CASE p =< consumed + nextIndex
  BY <1>0, <1>1 DEF NoDelimiter
<1>2. CASE p > consumed + nextIndex
  <2>1. p - consumed - 1 \in nextIndex .. ReadTo - 1
    BY <1>0, <1>2
  <2>2. consumed + 1 + (p - consumed - 1) = p
    BY <1>0
  <2> QED
    BY <2>1, <2>2 DEF NoneFound
<1> QED
  BY <1>0, <1>1, <1>2

LEMMA ScanStep ==
  RecvType /\ CodecType /\ CodecType' /\ Scan /\ [Next]_vars => Scan'
<1> SUFFICES ASSUME RecvType, CodecType, CodecType', Scan, [Next]_vars
             PROVE  Scan'
  OBVIOUS
<1> USE DEF vars, codecVars, endVars, recvVars
<1>a. FramesAreSegments
  BY DEF Scan
<1>b. Eof \in Frame
  BY DEF Eof, Frame
<1>e. \A c \in Int : NoDelimiter(c + 1, c + 0)
  BY DEF NoDelimiter
<1>1. CASE UNCHANGED vars
  BY <1>1 DEF Scan, FramesAreSegments, NoDelimiter, Segment
<1>2. ASSUME NEW n \in 1 .. Len(stream), OnData(n) PROVE Scan'
  <2>1. /\ ~finished /\ ~detached /\ arrived' = arrived + n
        /\ mode' = "data" /\ UNCHANGED <<stream, codecVars, endVars, recvVars>>
    BY <1>2 DEF OnData, Listening
  <2>2. n \in Nat /\ arrived' >= arrived
    BY <2>1, WindowFacts
  <2>3. FramesAreSegments'
    BY <1>a, <2>1, <2>2, FramesStay
  <2> QED
    BY <2>1, <2>3 DEF Scan, NoDelimiter
<1>3. CASE OnEnd
  <2>1. /\ ~finished /\ ~detached /\ finished' = TRUE /\ mode' = "eof"
        /\ UNCHANGED <<stream, arrived, codecVars, detached, produced>>
    BY <1>3 DEF OnEnd, Listening
  <2>2. FramesAreSegments'
    BY <1>a, <2>1, FramesStay, WindowFacts
  <2> QED
    BY <2>1, <2>2 DEF Scan, NoDelimiter
<1>4. ASSUME UNCHANGED <<stream, arrived, codecVars, finished, detached, mode, produced>>
      PROVE  Scan'
  BY <1>4 DEF Scan, FramesAreSegments, NoDelimiter, Segment
<1>5. ASSUME NEW r \in Caller, Recv(r) \/ AbortRecv(r) PROVE Scan'
  BY <1>4, <1>5 DEF Recv, AbortRecv
<1>6. CASE OnError
  BY <1>4, <1>6 DEF OnError, Fail
<1>7. CASE DiscardToDelimiter
  <2>0. ~detached /\ NoDelimiter(consumed + 1, consumed + nextIndex)
    BY <1>7 DEF DiscardToDelimiter, Scan
  <2>1. PICK i \in nextIndex .. ReadTo - 1 : Found(i) /\ consumed' = consumed + i + 1
    BY <1>7 DEF DiscardToDelimiter
  <2>2. stream[consumed'] = 0 /\ consumed' \in Int
    BY <2>0, <2>1, FoundFacts
  <2>3. /\ nextIndex' = 0
        /\ UNCHANGED <<stream, arrived, finished, detached, mode, produced>>
    BY <1>7 DEF DiscardToDelimiter
  <2>4. FramesAreSegments'
    BY <1>a, <2>3, FramesStay, WindowFacts
  <2>5. NoDelimiter(consumed + 1, consumed + nextIndex)'
    BY <1>e, <2>2, <2>3 DEF NoDelimiter
  <2> QED
    BY <2>2, <2>3, <2>4, <2>5 DEF Scan
<1>8. CASE DiscardRest
  <2>0. ~detached /\ isDiscarding
    BY <1>8 DEF DiscardRest, Scan
  <2>1. /\ consumed' = consumed + ReadTo /\ nextIndex' = 0
        /\ mode' = "idle" \/ mode' = mode
        /\ UNCHANGED <<stream, arrived, isDiscarding, finished, detached>>
    BY <1>8 DEF DiscardRest
  <2>2. produced' = produced \/ produced' = Append(produced, Eof)
    BY <1>8 DEF DiscardRest, Push
  <2>3. FramesAreSegments'
    <3>1. CASE produced' = produced
      BY <1>a, <2>1, <3>1, FramesStay, WindowFacts
    <3>2. CASE produced' = Append(produced, Eof)
      BY <1>a, <1>b, <2>1, <3>2, PushFrame
    <3> QED
      BY <2>2, <3>1, <3>2
  <2>4. consumed' \in Int
    BY <2>1, WindowFacts
  <2>5. NoDelimiter(consumed + 1, consumed + nextIndex)'
    BY <1>e, <2>1, <2>4 DEF NoDelimiter
  <2> QED
    BY <2>0, <2>1, <2>3, <2>5 DEF Scan
<1>9. CASE DecodeFrame
  <2>0. /\ ~detached /\ ~isDiscarding
        /\ NoDelimiter(consumed + 1, consumed + nextIndex)
    BY <1>9 DEF DecodeFrame, Scan
  <2>1. PICK i \in nextIndex .. ReadTo - 1 :
          /\ Found(i) /\ consumed' = consumed + i + 1
          /\ Push(<<consumed + 1, consumed + i>>)
    BY <1>9 DEF DecodeFrame
  <2>2. /\ i \in 0 .. MaxLength /\ consumed + i + 1 \in 1 .. arrived
        /\ stream[consumed + i + 1] = 0
        /\ NoDelimiter(consumed + 1, consumed + i)
    BY <2>0, <2>1, FoundFacts
  <2>3. /\ nextIndex' = 0
        /\ UNCHANGED <<stream, arrived, isDiscarding, finished, detached, mode>>
    BY <1>9 DEF DecodeFrame
  <2>4. consumed = 0 \/ stream[consumed] = 0
    BY <2>0, <2>2, WindowFacts DEF Scan
  <2>5. Segment(consumed + 1, consumed + i)
    <3>0. consumed \in Nat /\ i \in Nat /\ arrived \in Nat
      BY <2>2, WindowFacts
    <3>1. /\ consumed + 1 >= 1 /\ consumed + i >= (consumed + 1) - 1
          /\ (consumed + i) - (consumed + 1) + 1 = i /\ (consumed + 1) - 1 = consumed
          /\ (consumed + i) + 1 = consumed + i + 1
      BY <3>0
    <3>2. i =< MaxLength /\ consumed + i < arrived
      BY <2>2, <3>0
    <3>3. consumed + 1 = 1 \/ stream[(consumed + 1) - 1] = 0
      BY <2>4, <3>0, <3>1
    <3>4. \A p \in consumed + 1 .. consumed + i : stream[p] # 0
      BY <2>2 DEF NoDelimiter
    <3>5. stream[(consumed + i) + 1] = 0
      BY <2>2, <3>1
    <3>6. consumed + i =< arrived
      BY <3>0, <3>2
    <3> DEFINE a == consumed + 1
               b == consumed + i
    <3>7. /\ a >= 1 /\ b >= a - 1 /\ b =< arrived /\ b - a + 1 =< MaxLength
          /\ a = 1 \/ stream[a - 1] = 0
          /\ b < arrived /\ stream[b + 1] = 0
          /\ \A p \in a .. b : stream[p] # 0
      BY <3>1, <3>2, <3>3, <3>4, <3>5, <3>6
    <3> HIDE DEF a, b
    <3>8. Segment(a, b)
      BY <3>7 DEF Segment
    <3> QED
      BY <3>8 DEF a, b
  <2>6. <<consumed + 1, consumed + i>> \in Frame
    <3>1. consumed \in Nat /\ i \in Nat
      BY <2>2, WindowFacts
    <3>2. consumed + 1 \in Nat /\ consumed + i \in Nat
      BY <3>1
    <3> QED
      BY <3>2 DEF Frame
  <2>7. FramesAreSegments'
    BY <1>a, <2>1, <2>3, <2>5, <2>6, PushFrame DEF Push
  <2>8. consumed' \in Int /\ stream[consumed'] = 0
    BY <2>1, <2>2
  <2>9. NoDelimiter(consumed + 1, consumed + nextIndex)'
    BY <1>e, <2>3, <2>8 DEF NoDelimiter
  <2> QED
    BY <2>3, <2>7, <2>8, <2>9, <1>9 DEF Scan, DecodeFrame
<1>10. CASE Oversize
  <2>1. /\ isDiscarding' = TRUE /\ mode' = "idle" /\ ~detached
        /\ UNCHANGED <<stream, arrived, consumed, nextIndex, finished, detached, produced>>
    BY <1>10 DEF Oversize, Scan
  <2>2. FramesAreSegments'
    BY <1>a, <2>1, FramesStay, WindowFacts
  <2> QED
    BY <2>1, <2>2 DEF Scan, NoDelimiter
<1>11. CASE NeedMore
  <2>1. /\ nextIndex' = ReadTo /\ mode' = "idle" /\ ~detached /\ NoneFound
        /\ UNCHANGED <<stream, arrived, consumed, isDiscarding, finished, detached, produced>>
    BY <1>11 DEF NeedMore, Scan
  <2>2. FramesAreSegments'
    BY <1>a, <2>1, FramesStay, WindowFacts
  <2>3. NoDelimiter(consumed + 1, consumed + ReadTo)
    BY <2>1, NoneFoundFacts DEF Scan
  <2> QED
    BY <2>1, <2>2, <2>3 DEF Scan, NoDelimiter
<1>12. CASE LastFrame
  <2>0. /\ ~detached /\ ~isDiscarding /\ finished /\ NoneFound
        /\ ~TooLong /\ BufLen > 0
        /\ NoDelimiter(consumed + 1, consumed + nextIndex)
    BY <1>12 DEF LastFrame, Scan
  <2>1. /\ consumed' = arrived /\ nextIndex' = 0
        /\ Push(<<consumed + 1, arrived>>)
        /\ UNCHANGED <<stream, arrived, isDiscarding, finished, detached, mode>>
    BY <1>12 DEF LastFrame
  <2>2. consumed + ReadTo = arrived /\ consumed < arrived
        /\ arrived - (consumed + 1) + 1 =< MaxLength
    BY <2>0, WindowFacts
  <2>3. NoDelimiter(consumed + 1, arrived)
    BY <2>0, <2>2, NoneFoundFacts
  <2>4. Segment(consumed + 1, arrived)
    <3>1. consumed + 1 = 1 \/ stream[(consumed + 1) - 1] = 0
      <4>1. consumed = 0 \/ stream[consumed] = 0
        BY <2>0, <2>2, WindowFacts DEF Scan
      <4>2. (consumed + 1) - 1 = consumed
        BY WindowFacts
      <4> QED
        BY <4>1, <4>2, WindowFacts
    <3>2. \A p \in consumed + 1 .. arrived : stream[p] # 0
      BY <2>3 DEF NoDelimiter
    <3> QED
      BY <2>0, <2>2, <3>1, <3>2, WindowFacts DEF Segment
  <2>5. <<consumed + 1, arrived>> \in Frame
    BY WindowFacts DEF Frame
  <2>6. FramesAreSegments'
    BY <1>a, <2>1, <2>4, <2>5, PushFrame DEF Push
  <2>7. consumed' \in Int
    BY <2>1, WindowFacts
  <2>8. NoDelimiter(consumed + 1, consumed + nextIndex)'
    BY <1>e, <2>1, <2>7 DEF NoDelimiter
  <2> QED
    BY <2>0, <2>1, <2>6, <2>8 DEF Scan
<1>13. CASE EndOfStream
  <2>1. /\ nextIndex' = ReadTo /\ BufLen = 0 /\ mode' = "idle" /\ ~detached
        /\ produced' = Append(produced, Eof)
        /\ UNCHANGED <<stream, arrived, consumed, isDiscarding, finished, detached>>
    BY <1>13 DEF EndOfStream, Push, Scan
  <2>2. FramesAreSegments'
    BY <1>a, <1>b, <2>1, PushFrame
  <2>3. nextIndex' = 0 /\ consumed' \in Int
    <3>1. ReadTo = 0 /\ consumed \in Int
      BY <2>1, WindowFacts
    <3> QED
      BY <2>1, <3>1
  <2>4. NoDelimiter(consumed + 1, consumed + nextIndex)'
    <3>1. NoDelimiter(consumed' + 1, consumed' + 0)
      BY <1>e, <2>3
    <3> QED
      BY <2>1, <2>3, <3>1 DEF NoDelimiter
  <2> QED
    BY <2>1, <2>2, <2>4 DEF Scan
<1>14. CASE IntoParts
  <2>1. /\ detached' = TRUE /\ mode = "idle"
        /\ UNCHANGED <<stream, arrived, finished, mode, produced>>
    BY <1>14 DEF IntoParts, MayDetach
  <2>2. FramesAreSegments'
    BY <1>a, <2>1, FramesStay, WindowFacts
  <2> QED
    BY <2>1, <2>2 DEF Scan
<1> QED
  BY <1>1, <1>2, <1>3, <1>5, <1>6, <1>7, <1>8, <1>9, <1>10, <1>11, <1>12,
     <1>13, <1>14 DEF Next, Decode

\* For every stream, frame limit and cutting of the stream into data events:
\* a frame is a delimited run of the stream, whole and within the limit.
THEOREM FramesCorrect == Spec => []FramesAreSegments
<1>1. Scan => FramesAreSegments
  BY DEF Scan
<1> QED
  BY <1>1, TypeInit, RecvTypeStep, CodecTypeStep, ScanInit, ScanStep, PTL
     DEF Spec, TypeOK

-----------------------------------------------------------------------------
(* The handoff at the end of the handshake. *)

\* Where the stream goes on after the frames of the sequence q.
After(q) == IF q = <<>> THEN 1 ELSE q[Len(q)][2] + 2

Handoff ==
  /\ HandoffKeepsBuffer
  /\ ~failed /\ ~finished /\ ~detached => consumed + 1 = After(produced)
  /\ isDiscarding => failed
  /\ mode = "eof" => finished
  /\ mode # "idle" => ~detached
  /\ detached => pending = {}

LEMMA HandoffInit == Init => Handoff
  BY DEF Init, Handoff, HandoffKeepsBuffer, After

LEMMA HandoffStep ==
  RecvType /\ CodecType /\ InOrder /\ Handoff /\ [Next]_vars => Handoff'
<1> SUFFICES ASSUME RecvType, CodecType, InOrder, Handoff, [Next]_vars
             PROVE  Handoff'
  OBVIOUS
<1> USE DEF vars, codecVars, endVars, recvVars
<1>1. CASE UNCHANGED vars
  BY <1>1 DEF Handoff, HandoffKeepsBuffer, After, NextUnread, LastReceived
\* A detached transport takes no step.
<1>2. CASE detached
  <2>1. mode = "idle" /\ pending = {}
    BY <1>2 DEF Handoff
  <2>2. UNCHANGED vars
    BY <1>2, <2>1 DEF Next, Decode, OnData, OnEnd, OnError, Listening, Recv,
       AbortRecv, IntoParts, MayDetach, DiscardToDelimiter, DiscardRest,
       DecodeFrame, Oversize, NeedMore, LastFrame, EndOfStream
  <2> QED
    BY <1>1, <2>2
\* Before that, a step but IntoParts leaves the first conjunct void.
<1>3. ASSUME ~detached', isDiscarding' => failed', mode' = "eof" => finished',
             ~failed' /\ ~finished' => consumed' + 1 = After(produced')
      PROVE  Handoff'
  BY <1>3 DEF Handoff, HandoffKeepsBuffer, After
<1>4. ASSUME ~detached, UNCHANGED <<consumed, detached, produced>>,
             isDiscarding' => failed', mode' = "eof" => finished',
             finished => finished', failed => failed'
      PROVE  Handoff'
  BY <1>3, <1>4 DEF Handoff, After
<1>5. ASSUME ~detached, NEW n \in 1 .. Len(stream), OnData(n) PROVE Handoff'
  BY <1>4, <1>5 DEF OnData, Handoff
<1>6. CASE ~detached /\ (OnEnd \/ OnError)
  BY <1>4, <1>6 DEF OnEnd, OnError, Listening, Fail, Handoff
<1>7. ASSUME ~detached, NEW r \in Caller, Recv(r) \/ AbortRecv(r) PROVE Handoff'
  BY <1>4, <1>7 DEF Recv, AbortRecv, Handoff
<1>8. CASE ~detached /\ Oversize
  BY <1>4, <1>8 DEF Oversize, Fail, Handoff
<1>9. CASE ~detached /\ NeedMore
  BY <1>4, <1>9 DEF NeedMore, Handoff
<1>10. CASE ~detached /\ (DiscardToDelimiter \/ DiscardRest)
  <2>1. failed' /\ ~detached' /\ (mode' = "eof" => finished')
    BY <1>10 DEF DiscardToDelimiter, DiscardRest, Handoff
  <2> QED
    BY <1>3, <2>1
<1>11. CASE ~detached /\ (LastFrame \/ EndOfStream)
  <2>1. finished' /\ ~detached' /\ isDiscarding' = isDiscarding /\ failed' = failed
    BY <1>11 DEF LastFrame, EndOfStream, Handoff
  <2> QED
    BY <1>3, <2>1 DEF Handoff
<1>12. CASE ~detached /\ DecodeFrame
  <2>1. PICK i \in nextIndex .. ReadTo - 1 :
          /\ consumed' = consumed + i + 1
          /\ produced' = Append(produced, <<consumed + 1, consumed + i>>)
    BY <1>12 DEF DecodeFrame, Push
  <2>2. consumed \in Nat /\ i \in Nat /\ consumed + 1 \in Nat /\ consumed + i \in Nat
    <3>1. consumed \in Nat /\ nextIndex \in Nat /\ ReadTo \in Nat
      BY WindowFacts
    <3>2. i \in Nat
      BY <3>1
    <3> QED
      BY <3>1, <3>2
  <2>3. <<consumed + 1, consumed + i>> \in Frame
    BY <2>2 DEF Frame
  <2>4. /\ produced' # <<>>
        /\ produced'[Len(produced')] = <<consumed + 1, consumed + i>>
    <3>1. produced \in Seq(Frame)
      BY DEF RecvType
    <3> QED
      BY <2>1, <2>3, <3>1, LastOfAppend
  <2>5. After(produced') = (consumed + i) + 2
    BY <2>4 DEF After
  <2>6. (consumed + i + 1) + 1 = (consumed + i) + 2
    BY <2>2
  <2>7. ~detached' /\ UNCHANGED <<isDiscarding, failed, finished, mode>>
    BY <1>12 DEF DecodeFrame
  <2>8. consumed' + 1 = After(produced')
    BY <2>1, <2>5, <2>6
  <2> QED
    BY <1>3, <2>7, <2>8 DEF Handoff
<1>13. CASE ~detached /\ IntoParts
  <2>1. /\ detached' = TRUE /\ readBuf' = consumed /\ pending = {} /\ mode = "idle"
        /\ UNCHANGED <<isDiscarding, failed, finished, recvVars, mode>>
    BY <1>13 DEF IntoParts, MayDetach
  <2>2. ASSUME frames = <<>>, ~failed, ~finished PROVE readBuf' + 1 = NextUnread'
    <3>1. produced = delivered
      BY <2>2, ConcatEmptySeq DEF InOrder, RecvType
    <3>2. consumed + 1 = After(delivered)
      BY <1>13, <2>2, <3>1 DEF Handoff
    <3> QED
      BY <2>1, <3>2 DEF After, NextUnread, LastReceived
  <2>3. HandoffKeepsBuffer'
    BY <2>1, <2>2 DEF HandoffKeepsBuffer
  <2> QED
    BY <2>1, <2>3 DEF Handoff
<1> QED
  BY <1>1, <1>2, <1>5, <1>6, <1>7, <1>8, <1>9, <1>10, <1>11, <1>12, <1>13
     DEF Next, Decode

\* When nothing decoded is left unreceived, no byte is lost between the last
\* message of the handshake and the first byte of the proxied connection.
THEOREM HandoffCorrect == Spec => []HandoffKeepsBuffer
<1>1. Handoff => HandoffKeepsBuffer
  BY DEF Handoff
<1>2. Queued => InOrder
  BY DEF Queued
<1> QED
  BY <1>1, <1>2, TypeInit, RecvTypeStep, CodecTypeStep, QueuedInit, QueuedStep,
     HandoffInit, HandoffStep, PTL DEF Spec, TypeOK
-----------------------------------------------------------------------------
(* No call of recv waits in vain. *)

\* With one caller at a time, as in both programs, what a push or the end of
\* the stream finds waiting is all that waits.
Woken ==
  /\ Lists(waiters, pending)
  /\ waiters # <<>> => frames = <<>> /\ ~failed
  /\ waiters # <<>> /\ finished => mode = "eof"

LEMMA Alone ==
  ASSUME NEW r, Caller = {r}, RecvType, Lists(waiters, pending)
  PROVE  waiters # <<>> => Tail(waiters) = <<>> /\ pending = {r} /\ Head(waiters) = r
<1> SUFFICES ASSUME waiters # <<>> PROVE Tail(waiters) = <<>> /\ pending = {r} /\ Head(waiters) = r
  OBVIOUS
<1>1. Head(waiters) = r /\ r \in pending /\ pending \subseteq {r}
  BY NonemptyLists, HeadTailProperties DEF RecvType
<1>2. Lists(Tail(waiters), {}) /\ Tail(waiters) \in Seq(Caller)
  <2>1. pending \ {Head(waiters)} = {}
    BY <1>1
  <2> QED
    BY <2>1, TailLists, HeadTailProperties DEF RecvType
<1>3. Tail(waiters) = <<>>
  <2> DEFINE t == Tail(waiters)
  <2>1. Lists(t, {}) /\ t \in Seq(Caller)
    BY <1>2
  <2> HIDE DEF t
  <2>2. ~(t # <<>>)
    <3> SUFFICES ASSUME t # <<>> PROVE Head(t) \in {}
      OBVIOUS
    <3> QED
      BY <2>1, NonemptyLists
  <2> QED
    BY <2>2 DEF t
<1> QED
  BY <1>1, <1>3

LEMMA PushWakes ==
  ASSUME NEW r, Caller = {r}, RecvType, Lists(waiters, pending), NEW f, Push(f)
  PROVE  waiters' = <<>> /\ pending' = {}
<1>1. CASE waiters = <<>>
  <2>1. pending = {}
    BY <1>1 DEF Lists, Members
  <2> QED
    BY <1>1, <2>1 DEF Push
<1>2. CASE waiters # <<>>
  BY <1>2, Alone DEF Push
<1> QED
  BY <1>1, <1>2

LEMMA Resting == ASSUME waiters' = <<>>, pending' = {} PROVE Woken'
  BY EmptyLists DEF Woken

LEMMA WokenStep ==
  ASSUME NEW r, Caller = {r}, RecvType, Woken, [Next]_vars
  PROVE  Woken'
<1> USE DEF vars, recvVars, endVars
<1>0. Lists(waiters, pending)
  BY DEF Woken
<1>1. CASE UNCHANGED <<recvVars, failed, finished, mode>>
  BY <1>1 DEF Woken
<1>2. ASSUME NEW n \in 1 .. Len(stream), OnData(n) PROVE Woken'
  BY <1>2 DEF OnData, Listening, Woken
<1>3. CASE OnEnd
  BY <1>3 DEF OnEnd, Woken
<1>4. CASE OnError \/ Oversize
  <2>1. waiters' = <<>> /\ pending' = pending \ Members(waiters)
    BY <1>4 DEF OnError, Oversize, Fail, Members
  <2>2. pending' = {}
    BY <1>0, <2>1 DEF Lists
  <2> QED
    BY <2>1, <2>2, Resting
<1>5. CASE DecodeFrame \/ LastFrame \/ EndOfStream \/ (DiscardRest /\ Push(Eof))
  BY <1>0, <1>5, PushWakes, Resting DEF DecodeFrame, LastFrame, EndOfStream
<1>6. CASE DiscardToDelimiter \/ NeedMore \/ (DiscardRest /\ ~Push(Eof)) \/ IntoParts
  <2>1. UNCHANGED <<recvVars, failed, finished>>
    BY <1>6 DEF DiscardToDelimiter, NeedMore, DiscardRest, IntoParts
  <2>2. mode = "eof" => mode' = "eof"
    BY <1>6 DEF DiscardToDelimiter, NeedMore, DiscardRest, IntoParts
  <2> QED
    BY <2>1, <2>2 DEF Woken
<1>7. CASE Recv(r)
  <2>1. CASE frames = <<>>
    <3>1. Lists(Append(waiters, r), pending \cup {r})
      BY <1>0, <1>7, AppendLists DEF Recv, RecvType
    <3>2. /\ ~failed /\ ~finished /\ waiters' = Append(waiters, r)
          /\ pending' = pending \cup {r} /\ UNCHANGED <<frames, failed, finished>>
      BY <1>7, <2>1 DEF Recv
    <3> QED
      BY <2>1, <3>1, <3>2 DEF Woken
  <2>2. CASE frames # <<>>
    BY <1>7, <2>2 DEF Recv, Woken
  <2> QED
    BY <2>1, <2>2
<1>8. CASE AbortRecv(r)
  <2>1. PICK k \in DOMAIN waiters :
          /\ waiters[k] = r
          /\ waiters' = SubSeq(waiters, 1, k - 1)
                         \o SubSeq(waiters, k + 1, Len(waiters))
    BY <1>8 DEF AbortRecv
  <2>2. waiters # <<>> /\ pending = {r}
    <3>1. waiters # <<>>
      OBVIOUS
    <3> QED
      BY <1>0, <3>1, Alone
  <2>3. waiters' \in Seq(Caller) /\ Lists(waiters', pending \ {r})
    BY <1>0, <2>1, RemoveLists DEF RecvType
  <2>4. pending \ {r} = {}
    BY <2>2
  <2>5. waiters' = <<>>
    BY <2>3, <2>4, NonemptyLists
  <2>6. pending' = {}
    BY <1>8, <2>2, <2>4 DEF AbortRecv
  <2> QED
    BY <2>5, <2>6, Resting
<1>9. ASSUME NEW c \in Caller, Recv(c) \/ AbortRecv(c) PROVE Woken'
  BY <1>7, <1>8, <1>9
<1> QED
  BY <1>1, <1>2, <1>3, <1>4, <1>5, <1>6, <1>9 DEF Next, Decode

\* A recv that waits is woken by the next frame, the failure or the end of the
\* stream, for every stream, limit and cut; a second recv on the same stream
\* would not be woken by the end, and no code makes one.
THEOREM WakeupCorrect ==
  ASSUME NEW CONSTANT r, Caller = {r} PROVE Spec => []NoLostWakeup
<1>1. Woken => NoLostWakeup
  BY DEF Woken, NoLostWakeup, Lists, Members
<1>2. Init => Woken
  BY Resting, EmptyLists DEF Init, Woken
<1>3. RecvType /\ Woken /\ [Next]_vars => Woken'
  BY WokenStep
<1> QED
  BY <1>1, <1>2, <1>3, TypeInit, RecvTypeStep, CodecTypeStep, PTL DEF Spec, TypeOK
-----------------------------------------------------------------------------
(* No segment is skipped. *)

\* A segment, but for the end of the stream: what the codec would have to
\* produce once it is past it.
Piece(a, b) ==
  /\ a >= 1 /\ b >= a - 1 /\ b =< arrived /\ b - a + 1 =< MaxLength
  /\ a = 1 \/ stream[a - 1] = 0
  /\ NoDelimiter(a, b)
  /\ \/ b < arrived /\ stream[b + 1] = 0
     \/ b = arrived /\ b >= a

\* While the codec discards, it is inside a run that is longer than the limit.
Overrun(s) ==
  /\ s + MaxLength =< arrived
  /\ NoDelimiter(s, s + MaxLength) /\ NoDelimiter(s, consumed)

Taken ==
  /\ NothingSkipped
  /\ ~detached /\ isDiscarding => \E s \in 1 .. consumed + 1 : Overrun(s)

LEMMA SegmentPiece == ASSUME NEW a, NEW b, Segment(a, b) PROVE Piece(a, b)
  BY DEF Segment, Piece, NoDelimiter

LEMMA PieceSegment ==
  ASSUME NEW a \in Nat, NEW b \in Nat, Piece(a, b), b < arrived, arrived \in Nat
  PROVE  Segment(a, b)
  BY DEF Segment, Piece, NoDelimiter

\* Behind a delimiter, the next one ends the piece that starts here.
LEMMA NextPiece ==
  ASSUME CodecType, NEW a \in Nat, NEW b \in Nat, NEW e \in Nat, Piece(a, b),
         consumed =< b, b =< e, NoDelimiter(consumed + 1, e),
         consumed = 0 \/ stream[consumed] = 0
  PROVE  a = consumed + 1
<1>0. consumed \in Nat
  BY WindowFacts
<1>1. ~(a =< consumed)
  BY <1>0 DEF Piece, NoDelimiter
<1>2. ~(a > consumed + 1)
  <2> SUFFICES ASSUME a > consumed + 1 PROVE FALSE
    OBVIOUS
  <2>1. a - 1 \in consumed + 1 .. e /\ stream[a - 1] = 0
    BY <1>0 DEF Piece
  <2> QED
    BY <2>1 DEF NoDelimiter
<1> QED
  BY <1>0, <1>1, <1>2

\* In a run that is too long no piece ends.
LEMMA NoPiece ==
  ASSUME CodecType, NEW s \in 1 .. consumed + 1, Overrun(s),
         NEW a \in Nat, NEW b \in Nat, NEW e \in Nat, Piece(a, b),
         consumed =< b, b =< e, NoDelimiter(s, e)
  PROVE  FALSE
<1>0. consumed \in Nat /\ MaxLength \in Nat /\ s \in Nat /\ arrived \in Nat
  BY WindowFacts
<1>1. a =< s
  <2> SUFFICES ASSUME a > s PROVE FALSE
    BY <1>0
  <2>1. a - 1 \in s .. e /\ stream[a - 1] = 0
    BY <1>0 DEF Piece
  <2> QED
    BY <2>1 DEF NoDelimiter
<1>2. b >= s + MaxLength
  <2> SUFFICES ASSUME b < s + MaxLength PROVE FALSE
    BY <1>0
  <2>1. b + 1 \in s .. s + MaxLength /\ b < arrived
    BY <1>0 DEF Overrun
  <2>2. stream[b + 1] = 0
    BY <1>0, <2>1 DEF Piece
  <2> QED
    BY <2>1, <2>2 DEF Overrun, NoDelimiter
<1> QED
  BY <1>0, <1>1, <1>2 DEF Piece

\* To show after a step: the pieces that the codec has just gone past are
\* produced.
Longer == \A i \in DOMAIN produced : i \in DOMAIN produced' /\ produced'[i] = produced[i]
Fresh(a, b) ==
  Piece(a, b)' /\ consumed =< b /\ (b < consumed' \/ b = arrived')

LEMMA Unskipped ==
  ASSUME CodecType, CodecType', NothingSkipped, ~detached, Longer,
         stream' = stream, arrived' >= arrived,
         \A a \in 1 .. consumed', b \in 0 .. consumed' :
           Fresh(a, b) => \E i \in DOMAIN produced' : produced'[i] = <<a, b>>
  PROVE  NothingSkipped'
<1> SUFFICES ASSUME NEW a \in 1 .. consumed', NEW b \in 0 .. consumed', Segment(a, b)',
                    b < consumed' \/ b = arrived'
             PROVE  \E i \in DOMAIN produced' : produced'[i] = <<a, b>>
  BY DEF NothingSkipped
<1>0. /\ consumed \in Nat /\ arrived \in Nat /\ consumed =< arrived
      /\ consumed' \in Nat /\ arrived' \in Nat /\ a \in Nat /\ b \in Nat
  BY WindowFacts DEF CodecType
<1>1. Piece(a, b)'
  BY DEF Segment, Piece, NoDelimiter
<1>2. CASE consumed =< b
  BY <1>1, <1>2 DEF Fresh
<1>3. CASE b < consumed
  <2>1. b < arrived /\ b < arrived'
    BY <1>0, <1>3
  <2>2. Segment(a, b)
    BY <1>0, <2>1 DEF Segment
  <2>3. a \in 1 .. consumed /\ b \in 0 .. consumed
    BY <1>0, <1>3, <2>2 DEF Segment
  <2>4. PICK i \in DOMAIN produced : produced[i] = <<a, b>>
    BY <1>3, <2>2, <2>3 DEF NothingSkipped
  <2> QED
    BY <2>4 DEF Longer
<1> QED
  BY <1>0, <1>2, <1>3

LEMMA PushLonger ==
  ASSUME RecvType, NEW f \in Frame, Push(f)
  PROVE  Longer /\ \E i \in DOMAIN produced' : produced'[i] = f
<1>1. /\ Len(produced) \in Nat /\ DOMAIN produced = 1 .. Len(produced)
      /\ DOMAIN produced' = 1 .. Len(produced) + 1
      /\ \A i \in 1 .. Len(produced) : produced'[i] = produced[i]
      /\ produced'[Len(produced) + 1] = f
  BY AppendProperties DEF Push, RecvType
<1> QED
  BY <1>1 DEF Longer

LEMMA TakenFrame ==
  ASSUME CodecType, Taken, Longer,
         UNCHANGED <<stream, arrived, consumed, isDiscarding, finished, detached>>
  PROVE  Taken'
<1>1. NothingSkipped'
  <2> SUFFICES ASSUME ~detached, NEW a \in 1 .. consumed, NEW b \in 0 .. consumed,
                      Segment(a, b), b < consumed \/ b = arrived
               PROVE  \E i \in DOMAIN produced' : produced'[i] = <<a, b>>
    BY DEF NothingSkipped, Segment
  <2>1. PICK i \in DOMAIN produced : produced[i] = <<a, b>>
    BY DEF Taken, NothingSkipped
  <2> QED
    BY <2>1 DEF Longer
<1> QED
  BY <1>1 DEF Taken, Overrun, NoDelimiter
LEMMA JoinRuns ==
  ASSUME NEW s \in Nat, NEW c \in Nat, NEW e \in Nat, NoDelimiter(s, c), NoDelimiter(c + 1, e)
  PROVE  NoDelimiter(s, e)
  BY DEF NoDelimiter

\* The pieces that end from here to e, where the next delimiter or the end of
\* what has arrived is, end at e.
LEMMA EndsThere ==
  ASSUME CodecType, NEW a \in Nat, NEW b \in Nat, NEW e \in Nat, Piece(a, b), consumed =< b,
         NoDelimiter(consumed + 1, e), e =< arrived,
         \/ b =< e + 1 /\ (b =< e \/ b = arrived) /\ stream[e + 1] = 0
         \/ e = arrived
  PROVE  b = e
<1>0. consumed \in Nat /\ arrived \in Nat
  BY WindowFacts
<1>1. ~(b < e)
  <2> SUFFICES ASSUME b < e PROVE FALSE
    OBVIOUS
  <2>1. b + 1 \in consumed + 1 .. e /\ b < arrived
    BY <1>0 DEF Piece
  <2>2. stream[b + 1] = 0
    BY <1>0, <2>1 DEF Piece
  <2> QED
    BY <2>1, <2>2 DEF NoDelimiter
<1>2. CASE b =< e + 1 /\ (b =< e \/ b = arrived) /\ stream[e + 1] = 0
  <2> SUFFICES ASSUME b = e + 1 PROVE FALSE
    BY <1>1, <1>2
  <2>1. b = arrived /\ b >= a
    BY <1>0, <1>2 DEF Piece
  <2>2. b \in a .. b
    BY <2>1
  <2> QED
    BY <1>2, <2>2 DEF Piece, NoDelimiter
<1>3. CASE e = arrived
  BY <1>0, <1>1, <1>3 DEF Piece
<1> QED
  BY <1>2, <1>3

LEMMA TakenStep ==
  RecvType /\ CodecType /\ CodecType' /\ Scan /\ Taken /\ [Next]_vars => Taken'
<1> SUFFICES ASSUME RecvType, CodecType, CodecType', Scan, Taken, [Next]_vars
             PROVE  Taken'
  OBVIOUS
<1> USE DEF vars, codecVars, endVars, recvVars
<1>0. /\ consumed \in Nat /\ arrived \in Nat /\ consumed =< arrived /\ ReadTo \in Nat
      /\ MaxLength \in Nat
  BY WindowFacts
<1>a. UNCHANGED produced => Longer
  BY DEF Longer
<1>b. Eof \in Frame
  BY DEF Eof, Frame
<1>1. ASSUME UNCHANGED <<stream, arrived, consumed, isDiscarding, finished, detached, produced>>
      PROVE  Taken'
  BY <1>1, <1>a, TakenFrame
<1>2. ASSUME NEW n \in 1 .. Len(stream), OnData(n) PROVE Taken'
  <2>1. /\ ~detached /\ arrived' = arrived + n /\ n \in Nat \ {0} /\ arrived' > arrived
        /\ UNCHANGED <<stream, consumed, isDiscarding, detached, produced>>
    BY <1>2, <1>0, WindowFacts DEF OnData, Listening
  <2>2. \A a \in 1 .. consumed', b \in 0 .. consumed' : ~Fresh(a, b)
    BY <1>0, <2>1 DEF Fresh
  <2>3. NothingSkipped'
    BY <1>0, <1>a, <2>1, <2>2, Unskipped DEF Taken
  <2>4. ASSUME isDiscarding PROVE \E s \in 1 .. consumed' + 1 : Overrun(s)'
    <3>1. PICK s \in 1 .. consumed + 1 : Overrun(s)
      BY <2>1, <2>4 DEF Taken
    <3>2. Overrun(s)'
      <4>1. s + MaxLength =< arrived'
        BY <1>0, <2>1, <3>1 DEF Overrun
      <4> QED
        BY <2>1, <3>1, <4>1 DEF Overrun, NoDelimiter
    <3> QED
      BY <2>1, <3>1, <3>2
  <2> QED
    BY <2>1, <2>3, <2>4 DEF Taken
<1>3. CASE OnEnd
  <2>1. /\ ~detached /\ ~finished
        /\ UNCHANGED <<stream, arrived, consumed, isDiscarding, detached, produced>>
    BY <1>3 DEF OnEnd, Listening
  <2>2. ASSUME NEW a \in 1 .. consumed', NEW b \in 0 .. consumed', Fresh(a, b) PROVE FALSE
    <3>1. /\ Piece(a, b) /\ b = consumed /\ consumed = arrived /\ a \in Nat /\ b \in Nat
      BY <1>0, <2>1, <2>2 DEF Fresh, Piece, NoDelimiter
    <3>2. CASE isDiscarding
      <4>1. PICK s \in 1 .. consumed + 1 : Overrun(s)
        BY <2>1, <3>2 DEF Taken
      <4> QED
        BY <1>0, <3>1, <4>1, NoPiece DEF Overrun
    <3>3. CASE ~isDiscarding
      <4>1. consumed = 0 \/ stream[consumed] = 0
        BY <2>1, <3>3 DEF Scan
      <4>2. NoDelimiter(consumed + 1, consumed)
        BY <1>0 DEF NoDelimiter
      <4>3. a = consumed + 1
        BY <1>0, <3>1, <4>1, <4>2, NextPiece
      <4> QED
        BY <1>0, <3>1, <4>3 DEF Piece
    <3> QED
      BY <3>2, <3>3
  <2>3. NothingSkipped'
    BY <1>0, <1>a, <2>1, <2>2, Unskipped DEF Taken
  <2> QED
    BY <2>1, <2>3 DEF Taken, Overrun, NoDelimiter
<1>4. CASE OnError \/ NeedMore \/ \E r \in Caller : Recv(r) \/ AbortRecv(r)
  BY <1>1, <1>4 DEF OnError, Fail, NeedMore, Recv, AbortRecv
<1>5. CASE DiscardToDelimiter
  <2>0. ~detached /\ isDiscarding /\ NoDelimiter(consumed + 1, consumed + nextIndex)
    BY <1>5 DEF DiscardToDelimiter, Scan
  <2>1. PICK i \in nextIndex .. ReadTo - 1 : Found(i) /\ consumed' = consumed + i + 1
    BY <1>5 DEF DiscardToDelimiter
  <2>2. /\ isDiscarding' = FALSE
        /\ UNCHANGED <<stream, arrived, finished, detached, mode, produced>>
    BY <1>5 DEF DiscardToDelimiter
  <2> DEFINE e == consumed + i
  <2>3. /\ i \in 0 .. MaxLength /\ consumed + i + 1 \in 1 .. arrived
        /\ stream[consumed + i + 1] = 0 /\ NoDelimiter(consumed + 1, consumed + i)
    BY <2>0, <2>1, FoundFacts
  <2>4. e \in Nat /\ e < arrived /\ stream[e + 1] = 0 /\ consumed' = e + 1
        /\ NoDelimiter(consumed + 1, e) /\ consumed =< e
    BY <1>0, <2>1, <2>3
  <2> HIDE DEF e
  <2>5. PICK s \in 1 .. consumed + 1 : Overrun(s)
    BY <2>0 DEF Taken
  <2>6. NoDelimiter(s, e)
    BY <1>0, <2>4, <2>5, JoinRuns DEF Overrun
  <2>7. ASSUME NEW a \in 1 .. consumed', NEW b \in 0 .. consumed', Fresh(a, b) PROVE FALSE
    <3>1. Piece(a, b) /\ consumed =< b /\ b =< e + 1 /\ (b =< e \/ b = arrived)
          /\ a \in Nat /\ b \in Nat
      BY <1>0, <2>2, <2>4, <2>7 DEF Fresh, Piece, NoDelimiter
    <3>2. b = e
      <4>1. e =< arrived
        BY <1>0, <2>4
      <4> QED
        BY <2>4, <3>1, <4>1, EndsThere
    <3> QED
      BY <2>4, <2>5, <2>6, <3>1, <3>2, NoPiece
  <2>8. NothingSkipped'
    BY <1>0, <1>a, <2>0, <2>2, <2>7, Unskipped DEF Taken
  <2> QED
    BY <2>2, <2>8 DEF Taken
<1>6. CASE DiscardRest
  <2>0. ~detached /\ isDiscarding /\ NoneFound
        /\ NoDelimiter(consumed + 1, consumed + nextIndex)
    BY <1>6 DEF DiscardRest, Scan
  <2>1. /\ consumed' = consumed + ReadTo
        /\ UNCHANGED <<stream, arrived, isDiscarding, finished, detached>>
    BY <1>6 DEF DiscardRest
  <2>2. Longer
    BY <1>6, <1>a, <1>b, PushLonger DEF DiscardRest
  <2>3. NoDelimiter(consumed + 1, consumed + ReadTo)
    BY <2>0, NoneFoundFacts
  <2>4. PICK s \in 1 .. consumed + 1 : Overrun(s)
    BY <2>0 DEF Taken
  <2>5. NoDelimiter(s, consumed')
    BY <1>0, <2>1, <2>3, <2>4, JoinRuns DEF Overrun
  <2>6. ASSUME NEW a \in 1 .. consumed', NEW b \in 0 .. consumed', Fresh(a, b) PROVE FALSE
    <3>1. Piece(a, b) /\ consumed =< b /\ b =< consumed' /\ a \in Nat /\ b \in Nat
          /\ consumed' \in Nat
      BY <1>0, <2>1, <2>6 DEF Fresh, Piece, NoDelimiter
    <3> QED
      BY <2>4, <2>5, <3>1, NoPiece
  <2>7. NothingSkipped'
    BY <1>0, <2>0, <2>1, <2>2, <2>6, Unskipped DEF Taken
  <2>8. s \in 1 .. consumed' + 1 /\ Overrun(s)'
    BY <1>0, <2>1, <2>4, <2>5 DEF Overrun, NoDelimiter
  <2> QED
    BY <2>1, <2>7, <2>8 DEF Taken
<1>7. CASE DecodeFrame
  <2>0. ~detached /\ ~isDiscarding /\ NoDelimiter(consumed + 1, consumed + nextIndex)
    BY <1>7 DEF DecodeFrame, Scan
  <2>1. PICK i \in nextIndex .. ReadTo - 1 :
          /\ Found(i) /\ consumed' = consumed + i + 1
          /\ Push(<<consumed + 1, consumed + i>>)
    BY <1>7 DEF DecodeFrame
  <2>2. UNCHANGED <<stream, arrived, isDiscarding, finished, detached, mode>>
    BY <1>7 DEF DecodeFrame
  <2> DEFINE e == consumed + i
  <2>3. /\ i \in 0 .. MaxLength /\ consumed + i + 1 \in 1 .. arrived
        /\ stream[consumed + i + 1] = 0 /\ NoDelimiter(consumed + 1, consumed + i)
    BY <2>0, <2>1, FoundFacts
  <2>4. e \in Nat /\ e < arrived /\ stream[e + 1] = 0 /\ consumed' = e + 1
        /\ NoDelimiter(consumed + 1, e) /\ consumed =< e /\ Push(<<consumed + 1, e>>)
    BY <1>0, <2>1, <2>3
  <2> HIDE DEF e
  <2>5. <<consumed + 1, e>> \in Frame
    BY <1>0, <2>4 DEF Frame
  <2>6. Longer /\ \E j \in DOMAIN produced' : produced'[j] = <<consumed + 1, e>>
    BY <2>4, <2>5, PushLonger
  <2>7. consumed = 0 \/ stream[consumed] = 0
    BY <1>0, <2>0, <2>4 DEF Scan
  <2>8. ASSUME NEW a \in 1 .. consumed', NEW b \in 0 .. consumed', Fresh(a, b)
        PROVE  a = consumed + 1 /\ b = e
    <3>1. Piece(a, b) /\ consumed =< b /\ b =< e + 1 /\ (b =< e \/ b = arrived)
          /\ a \in Nat /\ b \in Nat
      BY <1>0, <2>2, <2>4, <2>8 DEF Fresh, Piece, NoDelimiter
    <3>2. b = e
      <4>1. e =< arrived
        BY <1>0, <2>4
      <4> QED
        BY <2>4, <3>1, <4>1, EndsThere
    <3> QED
      BY <2>4, <2>7, <3>1, <3>2, NextPiece
  <2>9. NothingSkipped'
    BY <1>0, <2>0, <2>2, <2>6, <2>8, Unskipped DEF Taken
  <2> QED
    BY <2>0, <2>2, <2>9 DEF Taken
<1>8. CASE Oversize
  <2>0. /\ ~detached /\ NoneFound /\ TooLong
        /\ NoDelimiter(consumed + 1, consumed + nextIndex)
    BY <1>8 DEF Oversize, Scan
  <2>1. UNCHANGED <<stream, arrived, consumed, finished, detached, produced>>
    BY <1>8 DEF Oversize
  <2>2. ReadTo = MaxLength + 1 /\ consumed + ReadTo =< arrived
    BY <1>0, <2>0, WindowFacts DEF TooLong, ReadTo
  <2>3. NoDelimiter(consumed + 1, consumed + ReadTo)
    BY <2>0, NoneFoundFacts
  <2>4. consumed + 1 \in 1 .. consumed + 1 /\ Overrun(consumed + 1)
    BY <1>0, <2>2, <2>3 DEF Overrun, NoDelimiter
  <2>5. \E s \in 1 .. consumed' + 1 : Overrun(s)'
    BY <2>1, <2>4 DEF Overrun, NoDelimiter
  <2>6. NothingSkipped'
    BY <2>1 DEF Taken, NothingSkipped, Segment
  <2> QED
    BY <2>5, <2>6 DEF Taken
<1>9. CASE LastFrame
  <2>0. /\ ~detached /\ ~isDiscarding /\ NoneFound /\ ~TooLong /\ BufLen > 0
        /\ NoDelimiter(consumed + 1, consumed + nextIndex)
    BY <1>9 DEF LastFrame, Scan
  <2>1. /\ consumed' = arrived /\ Push(<<consumed + 1, arrived>>)
        /\ UNCHANGED <<stream, arrived, isDiscarding, finished, detached>>
    BY <1>9 DEF LastFrame
  <2>2. consumed + ReadTo = arrived /\ consumed < arrived
    BY <2>0, WindowFacts
  <2>3. NoDelimiter(consumed + 1, arrived)
    BY <2>0, <2>2, NoneFoundFacts
  <2>4. <<consumed + 1, arrived>> \in Frame
    BY <1>0 DEF Frame
  <2>5. Longer /\ \E j \in DOMAIN produced' : produced'[j] = <<consumed + 1, arrived>>
    BY <2>1, <2>4, PushLonger
  <2>6. consumed = 0 \/ stream[consumed] = 0
    BY <1>0, <2>0, <2>2 DEF Scan
  <2>7. ASSUME NEW a \in 1 .. consumed', NEW b \in 0 .. consumed', Fresh(a, b)
        PROVE  a = consumed + 1 /\ b = arrived
    <3>1. Piece(a, b) /\ consumed =< b /\ a \in Nat /\ b \in Nat
      BY <1>0, <2>1, <2>7 DEF Fresh, Piece, NoDelimiter
    <3>2. b = arrived
      BY <1>0, <2>3, <3>1, EndsThere
    <3> QED
      BY <1>0, <2>3, <2>6, <3>1, <3>2, NextPiece
  <2>8. NothingSkipped'
    BY <1>0, <2>0, <2>1, <2>5, <2>7, Unskipped DEF Taken
  <2> QED
    BY <2>0, <2>1, <2>8 DEF Taken
<1>10. CASE EndOfStream
  <2>1. Longer
    BY <1>10, <1>b, PushLonger DEF EndOfStream
  <2> QED
    BY <1>10, <2>1, TakenFrame DEF EndOfStream
<1>11. CASE IntoParts
  BY <1>11 DEF IntoParts, Taken, NothingSkipped
<1>12. CASE UNCHANGED vars
  BY <1>1, <1>12
<1> QED
  BY <1>2, <1>3, <1>4, <1>5, <1>6, <1>7, <1>8, <1>9, <1>10, <1>11, <1>12 DEF Next, Decode

\* For every stream, limit and cut: the codec produces every segment that it
\* goes past; an oversized chunk takes none with it.
THEOREM SkippedCorrect == Spec => []NothingSkipped
<1>1. Taken => NothingSkipped
  BY DEF Taken
<1>2. Init => Taken
  BY DEF Init, Taken, NothingSkipped
<1> QED
  BY <1>1, <1>2, TypeInit, RecvTypeStep, CodecTypeStep, ScanInit, ScanStep, TakenStep, PTL
     DEF Spec, TypeOK
=============================================================================
