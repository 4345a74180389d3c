------------------------------ MODULE Delimited ------------------------------
(***************************************************************************)
(* The delimited transport (src/src/shared.ts): AnyDelimiterCodec, the     *)
(* class Delimited around it, and its end of life in intoParts.            *)
(*                                                                         *)
(* The bytes the peer sends are a sequence, and everything the code holds  *)
(* of it is an interval of positions: state.buf is consumed+1 .. arrived   *)
(* and the frame at positions a..b is the pair <<a, b>>.  One event        *)
(* handler runs to completion; the iterations of the loops of drain and    *)
(* decode are single steps here, taken while mode # "idle" and nothing     *)
(* else may happen.                                                        *)
(***************************************************************************)
EXTENDS Integers, Sequences

CONSTANTS
  MaxLength,  \* MAX_FRAME_LENGTH
  Streams,    \* what the peer may send: sequences of bytes, 0 is NUL
  Caller      \* the calls of recv that may be pending together

ASSUME LengthAssumption == MaxLength \in Nat \ {0}
ASSUME StreamAssumption == Streams \subseteq Seq(Nat)

VARIABLES
  stream,       \* the bytes of the peer
  arrived,      \* how many of them data events have delivered
  consumed,     \* how many the codec has taken out of state.buf
  nextIndex,    \* how far state.buf is known to hold no delimiter
  isDiscarding, \* the codec skips the rest of an oversized chunk
  frames,       \* decoded frames nobody has received, Eof for null
  waiters,      \* Delimited.waiters
  pending,      \* calls of recv whose promise is not settled
  failed,       \* failure # null
  finished,     \* the end event has been handled
  detached,     \* intoParts has been called
  readBuf,      \* position before the first byte that intoParts returned
  mode,         \* "idle", or the drain in progress: "data" or "eof"
  produced,     \* every frame pushed so far
  delivered     \* every frame a call of recv has resolved with

codecVars == <<consumed, nextIndex, isDiscarding>>
endVars == <<failed, finished, detached, readBuf>>
recvVars == <<frames, waiters, pending, produced, delivered>>
vars == <<stream, arrived, codecVars, endVars, recvVars, mode>>

Eof == <<0, 0>>

Init ==
  /\ stream \in Streams
  /\ arrived = 0 /\ consumed = 0 /\ nextIndex = 0 /\ isDiscarding = FALSE
  /\ frames = <<>> /\ waiters = <<>> /\ pending = {}
  /\ failed = FALSE /\ finished = FALSE /\ detached = FALSE /\ readBuf = 0
  /\ mode = "idle"
  /\ produced = <<>> /\ delivered = <<>>

(***************************************************************************)
(* Events of the socket.  Data still comes after a failure of the codec,   *)
(* not after the end; an error may come at any time.                       *)
(***************************************************************************)
Listening == mode = "idle" /\ ~detached /\ ~finished

OnData(n) ==
  /\ Listening /\ arrived + n =< Len(stream)
  /\ arrived' = arrived + n
  /\ mode' = "data"
  /\ UNCHANGED <<stream, codecVars, endVars, recvVars>>

OnEnd ==
  /\ Listening /\ arrived = Len(stream)
  /\ finished' = TRUE
  /\ mode' = "eof"
  /\ UNCHANGED <<stream, arrived, codecVars, failed, detached, readBuf, recvVars>>

-----------------------------------------------------------------------------
(* Delivering to the callers of recv. *)

\* Delimited.push: to the oldest waiter, whose promise takes the frame if it
\* is not settled yet, or to the queue.
Push(f) ==
  /\ produced' = Append(produced, f)
  /\ IF waiters = <<>>
     THEN /\ frames' = Append(frames, f)
          /\ UNCHANGED <<waiters, pending, delivered>>
     ELSE /\ waiters' = Tail(waiters)
          /\ pending' = pending \ {Head(waiters)}
          /\ delivered' = IF Head(waiters) \in pending
                          THEN Append(delivered, f) ELSE delivered
          /\ UNCHANGED frames

\* Mutant: the failure is stored, the waiting calls are not rejected.
FailSilently ==
  /\ failed' = TRUE
  /\ UNCHANGED <<waiters, pending>>

\* Delimited.fail: every waiting call is rejected.
Fail ==
  /\ failed' = TRUE
  /\ waiters' = <<>>
  /\ pending' = pending \ {waiters[i] : i \in DOMAIN waiters}

OnError ==
  /\ mode = "idle" /\ ~detached
  /\ Fail
  /\ UNCHANGED <<stream, arrived, codecVars, finished, detached, readBuf, mode,
                 frames, produced, delivered>>

\* nextFrame: frames first, then the failure, then the end, then a wait.
Recv(r) ==
  /\ mode = "idle" /\ ~detached /\ r \notin pending
  /\ IF frames # <<>>
     THEN /\ frames' = Tail(frames)
          /\ delivered' = Append(delivered, Head(frames))
          /\ UNCHANGED <<waiters, pending>>
     ELSE /\ ~failed /\ ~finished
          /\ waiters' = Append(waiters, r)
          /\ pending' = pending \cup {r}
          /\ UNCHANGED <<frames, delivered>>
  /\ UNCHANGED <<stream, arrived, codecVars, endVars, mode, produced>>

\* Mutant: the cancelled call stays among the waiters.
AbortRecvStays(r) ==
  /\ mode = "idle" /\ r \in pending
  /\ pending' = pending \ {r}
  /\ UNCHANGED <<stream, arrived, codecVars, endVars, mode, waiters, frames,
                 produced, delivered>>

\* The signal of a timeout or of a shutdown: onAbort of the waiter.
AbortRecv(r) ==
  /\ mode = "idle" /\ r \in pending
  /\ \E i \in DOMAIN waiters :
       /\ waiters[i] = r
       /\ waiters' = SubSeq(waiters, 1, i - 1)
                      \o SubSeq(waiters, i + 1, Len(waiters))
  /\ pending' = pending \ {r}
  /\ UNCHANGED <<stream, arrived, codecVars, endVars, mode, frames, produced,
                 delivered>>

-----------------------------------------------------------------------------
(* AnyDelimiterCodec.decode and decodeEof, one iteration at a time. *)

BufLen == arrived - consumed
ReadTo == IF BufLen > MaxLength THEN MaxLength + 1 ELSE BufLen

\* Offset i of state.buf holds the first delimiter of the searched window.
Found(i) ==
  /\ i \in nextIndex .. ReadTo - 1 /\ stream[consumed + 1 + i] = 0
  /\ \A j \in nextIndex .. i - 1 : stream[consumed + 1 + j] # 0
NoneFound == \A i \in nextIndex .. ReadTo - 1 : stream[consumed + 1 + i] # 0

\* Mutant: one byte too many is let through.
TooLongOffByOne == BufLen > MaxLength + 1

TooLong == BufLen > MaxLength

DiscardToDelimiter ==
  /\ mode # "idle" /\ isDiscarding
  /\ \E i \in nextIndex .. ReadTo - 1 :
       Found(i) /\ consumed' = consumed + i + 1
  /\ isDiscarding' = FALSE /\ nextIndex' = 0
  /\ UNCHANGED <<stream, arrived, endVars, recvVars, mode>>

\* Nothing of state.buf is left: decode returns null.
DiscardRest ==
  /\ mode # "idle" /\ isDiscarding /\ NoneFound
  /\ consumed' = consumed + ReadTo /\ nextIndex' = 0
  /\ IF consumed' = arrived
     THEN /\ mode' = "idle"
          /\ IF mode = "eof" THEN Push(Eof) ELSE UNCHANGED recvVars
     ELSE UNCHANGED <<mode, recvVars>>
  /\ UNCHANGED <<stream, arrived, isDiscarding, endVars>>

\* Mutant: the search of the next frame starts where this one ended.
DecodeFrameKeepsIndex ==
  /\ mode # "idle" /\ ~isDiscarding
  /\ \E i \in nextIndex .. ReadTo - 1 :
       /\ Found(i)
       /\ consumed' = consumed + i + 1
       /\ Push(<<consumed + 1, consumed + i>>)
       /\ nextIndex' = i
  /\ UNCHANGED <<stream, arrived, isDiscarding, endVars, mode>>

DecodeFrame ==
  /\ mode # "idle" /\ ~isDiscarding
  /\ \E i \in nextIndex .. ReadTo - 1 :
       /\ Found(i)
       /\ consumed' = consumed + i + 1
       /\ Push(<<consumed + 1, consumed + i>>)
  /\ nextIndex' = 0
  /\ UNCHANGED <<stream, arrived, isDiscarding, endVars, mode>>

\* Mutant: the whole buffer is thrown away with the oversized chunk.
OversizeDropsBuffer ==
  /\ mode # "idle" /\ ~isDiscarding /\ NoneFound /\ TooLong
  /\ isDiscarding' = TRUE /\ consumed' = arrived /\ nextIndex' = 0
  /\ Fail
  /\ mode' = "idle"
  /\ UNCHANGED <<stream, arrived, finished, detached, readBuf, frames, produced,
                 delivered>>

\* decode throws: the drain ends where it is, at end of stream without null.
Oversize ==
  /\ mode # "idle" /\ ~isDiscarding /\ NoneFound /\ TooLong
  /\ isDiscarding' = TRUE
  /\ Fail
  /\ mode' = "idle"
  /\ UNCHANGED <<stream, arrived, consumed, nextIndex, finished, detached,
                 readBuf, frames, produced, delivered>>

NeedMore ==
  /\ mode = "data" /\ ~isDiscarding /\ NoneFound /\ ~TooLong
  /\ nextIndex' = ReadTo
  /\ mode' = "idle"
  /\ UNCHANGED <<stream, arrived, consumed, isDiscarding, endVars, recvVars>>

\* decodeEof: what is left becomes the last frame.
LastFrame ==
  /\ mode = "eof" /\ ~isDiscarding /\ NoneFound /\ ~TooLong /\ BufLen > 0
  /\ Push(<<consumed + 1, arrived>>)
  /\ consumed' = arrived /\ nextIndex' = 0
  /\ UNCHANGED <<stream, arrived, isDiscarding, endVars, mode>>

EndOfStream ==
  /\ mode = "eof" /\ ~isDiscarding /\ BufLen = 0
  /\ Push(Eof)
  /\ nextIndex' = ReadTo
  /\ mode' = "idle"
  /\ UNCHANGED <<stream, arrived, consumed, isDiscarding, endVars>>

-----------------------------------------------------------------------------
\* Both callers have awaited their last recv, and go on only with a message.
LastReceived == delivered[Len(delivered)]
MayDetach ==
  /\ mode = "idle" /\ ~detached /\ pending = {}
  /\ delivered # <<>> => LastReceived # Eof

\* Mutant: the buffer is emptied before it is read.
IntoPartsEmptiesFirst ==
  /\ MayDetach
  /\ detached' = TRUE
  /\ readBuf' = arrived /\ consumed' = arrived
  /\ UNCHANGED <<stream, arrived, nextIndex, isDiscarding, failed, finished,
                 recvVars, mode>>

\* The listeners are removed and state.buf is handed over.
IntoParts ==
  /\ MayDetach
  /\ detached' = TRUE
  /\ readBuf' = consumed /\ consumed' = arrived
  /\ UNCHANGED <<stream, arrived, nextIndex, isDiscarding, failed, finished,
                 recvVars, mode>>

Decode ==
  \/ DiscardToDelimiter \/ DiscardRest \/ DecodeFrame \/ Oversize
  \/ NeedMore \/ LastFrame \/ EndOfStream

Next ==
  \/ \E n \in 1 .. Len(stream) : OnData(n)
  \/ OnEnd \/ OnError
  \/ Decode
  \/ \E r \in Caller : Recv(r) \/ AbortRecv(r)
  \/ IntoParts

Spec == Init /\ [][Next]_vars

-----------------------------------------------------------------------------
(* Properties *)

Frame == Nat \X Nat

RecvType ==
  /\ frames \in Seq(Frame) /\ produced \in Seq(Frame)
  /\ delivered \in Seq(Frame)
  /\ waiters \in Seq(Caller) /\ pending \in SUBSET Caller
CodecType ==
  /\ stream \in Streams
  /\ arrived \in 0 .. Len(stream) /\ consumed \in 0 .. arrived
  /\ nextIndex \in 0 .. MaxLength
  /\ ~detached => nextIndex =< BufLen
  /\ readBuf \in 0 .. arrived
FlagType ==
  /\ isDiscarding \in BOOLEAN /\ failed \in BOOLEAN
  /\ finished \in BOOLEAN /\ detached \in BOOLEAN
  /\ mode \in {"idle", "data", "eof"}

\* The types; the resume index stays inside the buffer and the window.
TypeOK == RecvType /\ CodecType /\ FlagType

\* What the protocol calls a frame: a NUL-free run of at most MaxLength
\* bytes between two delimiters, the start of the stream being one, or at
\* the end of the stream if it is not empty.
Segment(a, b) ==
  /\ a >= 1 /\ b >= a - 1 /\ b =< arrived
  /\ b - a + 1 =< MaxLength
  /\ a = 1 \/ stream[a - 1] = 0
  /\ \A i \in a .. b : stream[i] # 0
  /\ \/ b < arrived /\ stream[b + 1] = 0
     \/ b = arrived /\ b >= a /\ finished

\* Every frame that is produced is a segment of the stream, however the bytes
\* were cut into data events: no delimiter inside, no tail of an oversized
\* chunk, no missing byte.
FramesAreSegments ==
  \A i \in DOMAIN produced :
    produced[i] # Eof => Segment(produced[i][1], produced[i][2])

\* The codec takes no segment out of the buffer without producing it: an
\* oversized chunk costs no frame but itself.
NothingSkipped ==
  ~detached =>
    \A a \in 1 .. consumed, b \in 0 .. consumed :
      Segment(a, b) /\ (b < consumed \/ b = arrived) =>
        \E i \in DOMAIN produced : produced[i] = <<a, b>>

\* recv resolves with the frames in the order of the stream, each once: a
\* cancelled call takes none with it.
InOrder == produced = delivered \o frames

\* A call that waits has something to wait for: nothing is queued, and
\* neither a failure nor the end of the stream went by.
NoLostWakeup ==
  /\ pending = {waiters[i] : i \in DOMAIN waiters}
  /\ mode = "idle" /\ pending # {} => frames = <<>> /\ ~failed /\ ~finished

\* The position of the first byte after the last frame that was received.
NextUnread ==
  IF delivered = <<>> THEN 1 ELSE LastReceived[2] + 2

\* intoParts hands over every byte after the last frame received.
HandoffLossless == detached => readBuf + 1 = NextUnread

\* It does when all that has arrived since is an incomplete frame.
HandoffKeepsBuffer ==
  detached /\ frames = <<>> /\ ~failed /\ ~finished =>
    readBuf + 1 = NextUnread
=============================================================================
