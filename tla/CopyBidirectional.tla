------------------------- MODULE CopyBidirectional -------------------------
(***************************************************************************)
(* copyBidirectional between two sockets and the dropStream of both that   *)
(* follows it (src/src/deps/tokio.ts).  One socket carried the handshake   *)
(* and was read by Delimited before the copy, the other was not read yet.  *)
(* Direction x copies from socket x to the other one.  Data is counted in  *)
(* chunks.                                                                 *)
(*                                                                         *)
(* What the sockets do is Node's: a flowing socket emits data, then end; a *)
(* write returns false when HighWaterMark chunks are unflushed, and drain  *)
(* follows when all are flushed; end() makes finish follow; a destroyed    *)
(* socket emits close.  Node also destroys a socket that has emitted end   *)
(* and finish, but both directions are over by then (a half is ended only  *)
(* by the end of the other source), and dropStream comes first.            *)
(***************************************************************************)
EXTENDS Integers, FiniteSets

CONSTANTS
  HighWaterMark,
  MaxChunks   \* bound: what each peer sends

ASSUME MarkAssumption == HighWaterMark \in Nat \ {0}
ASSUME ChunksAssumption == MaxChunks \in Nat

Side == {"framed", "other"}
Other(x) == IF x = "framed" THEN "other" ELSE "framed"

VARIABLES
  sent,       \* sent[x]: chunks the peer of x has sent
  eof,        \* eof[x]: and no more will come
  got,        \* got[x]: chunks that data events of x have carried
  ended,      \* ended[x]: readableEnded
  flowing,    \* flowing[x]: x is not paused
  wrote,      \* wrote[x]: chunks written to x
  flushed,    \* flushed[x]: those the peer of x has
  needDrain,  \* needDrain[x]: a write returned false, drain is due
  fin,        \* fin[x]: "no", "ended" by end(), "finished"
  dead,       \* dead[x]: destroyed
  settled,    \* settled[x]: direction x, "no", "ok" or "err"
  dropped,    \* dropStream has been called on both
  lost        \* sockets that a reset or the client's shutdown has destroyed

peerVars == <<sent, eof>>
readVars == <<got, ended, flowing>>
writeVars == <<wrote, flushed, needDrain, fin>>
vars == <<peerVars, readVars, writeVars, dead, settled, dropped, lost>>

\* copyOneWay on a source whose end event came before: onEnd at once.
Init ==
  /\ lost \in SUBSET {"framed"}
  /\ \E early \in SUBSET ({"framed"} \ lost) :
       /\ ended = [x \in Side |-> x \in early] /\ eof = ended
       /\ settled = [x \in Side |-> IF x \in early THEN "ok" ELSE "no"]
       /\ fin = [x \in Side |-> IF Other(x) \in early THEN "ended" ELSE "no"]
  /\ dead = [x \in Side |-> x \in lost]
  /\ sent = [x \in Side |-> 0] /\ got = [x \in Side |-> 0]
  /\ flowing = [x \in Side |-> TRUE]
  /\ wrote = [x \in Side |-> 0] /\ flushed = [x \in Side |-> 0]
  /\ needDrain = [x \in Side |-> FALSE]
  /\ dropped = FALSE

\* Promise.all has settled.  dropStream follows in the same turn of the event
\* loop, before any other event.
Decided == (\E x \in Side : settled[x] = "err") \/ (\A x \in Side : settled[x] = "ok")
Event == ~Decided \/ dropped

-----------------------------------------------------------------------------
(* The peers. *)

PeerSends(x) ==
  /\ Event /\ ~eof[x] /\ ~dead[x] /\ sent[x] < MaxChunks
  /\ sent' = [sent EXCEPT ![x] = @ + 1]
  /\ UNCHANGED <<eof, readVars, writeVars, dead, settled, dropped, lost>>

PeerEnds(x) ==
  /\ Event /\ ~eof[x] /\ ~dead[x]
  /\ eof' = [eof EXCEPT ![x] = TRUE]
  /\ UNCHANGED <<sent, readVars, writeVars, dead, settled, dropped, lost>>

\* onError: x is the source of one direction, the destination of the other.
PeerResets(x) ==
  /\ Event /\ ~dead[x]
  /\ dead' = [dead EXCEPT ![x] = TRUE] /\ lost' = lost \cup {x}
  /\ settled' = [d \in Side |-> IF settled[d] = "no" THEN "err" ELSE settled[d]]
  /\ UNCHANGED <<peerVars, readVars, writeVars, dropped>>

\* Mutant: nothing listens for the close of the destination.
AbortUnheard ==
  /\ Event /\ ~dropped
  /\ dead' = [x \in Side |-> TRUE] /\ lost' = Side
  /\ UNCHANGED <<peerVars, readVars, writeVars, settled, dropped>>

\* The client's shutdown destroys both: onDestinationClose of each direction.
Abort ==
  /\ Event /\ ~dropped
  /\ dead' = [x \in Side |-> TRUE] /\ lost' = Side
  /\ settled' = [d \in Side |->
                   IF settled[d] = "no" /\ ~dead[Other(d)] THEN "ok" ELSE settled[d]]
  /\ UNCHANGED <<peerVars, readVars, writeVars, dropped>>

-----------------------------------------------------------------------------
(* The sockets. *)

\* Mutant: the source is never paused.
DataUnpaused(x) ==
  LET y == Other(x) IN
  /\ Event /\ flowing[x] /\ ~dead[x] /\ got[x] < sent[x]
  /\ got' = [got EXCEPT ![x] = @ + 1]
  /\ wrote' = [wrote EXCEPT ![y] = @ + 1]
  /\ UNCHANGED <<peerVars, ended, flowing, flushed, needDrain, fin, dead, settled,
                 dropped, lost>>

\* onData: what comes after the destination is gone settles the direction;
\* what comes after cleanup, on a source that still flows, is discarded.
Data(x) ==
  LET y == Other(x)
      gone == fin[y] # "no" \/ dead[y]
      full == wrote[y] + 1 - flushed[y] >= HighWaterMark
  IN
  /\ Event /\ flowing[x] /\ ~dead[x] /\ got[x] < sent[x]
  /\ got' = [got EXCEPT ![x] = @ + 1]
  /\ IF settled[x] # "no"
     THEN UNCHANGED <<settled, wrote, flowing, needDrain>>
     ELSE IF gone
     THEN settled' = [settled EXCEPT ![x] = "ok"]
          /\ UNCHANGED <<wrote, flowing, needDrain>>
     ELSE /\ wrote' = [wrote EXCEPT ![y] = @ + 1]
          /\ flowing' = [flowing EXCEPT ![x] = ~full]
          /\ needDrain' = [needDrain EXCEPT ![y] = full]
          /\ UNCHANGED settled
  /\ UNCHANGED <<peerVars, ended, flushed, fin, dead, dropped, lost>>

\* Mutant: a full close instead of a half-close.
EndBoth(x) ==
  /\ Event /\ flowing[x] /\ ~dead[x] /\ eof[x] /\ got[x] = sent[x] /\ ~ended[x]
  /\ ended' = [ended EXCEPT ![x] = TRUE]
  /\ fin' = [y \in Side |-> IF fin[y] = "no" THEN "ended" ELSE fin[y]]
  /\ settled' = [settled EXCEPT ![x] = "ok"]
  /\ UNCHANGED <<peerVars, got, flowing, wrote, flushed, needDrain, dead, dropped, lost>>

\* onEnd shuts down the write half of the destination.
End(x) ==
  LET y == Other(x) IN
  /\ Event /\ flowing[x] /\ ~dead[x] /\ eof[x] /\ got[x] = sent[x] /\ ~ended[x]
  /\ ended' = [ended EXCEPT ![x] = TRUE]
  /\ IF settled[x] = "no"
     THEN /\ settled' = [settled EXCEPT ![x] = "ok"]
          /\ fin' = [fin EXCEPT ![y] = IF @ = "no" /\ ~dead[y] THEN "ended" ELSE @]
     ELSE UNCHANGED <<settled, fin>>
  /\ UNCHANGED <<peerVars, got, flowing, wrote, flushed, needDrain, dead, dropped, lost>>

\* Mutant: drain resumes nothing.
FlushUnheard(x) ==
  /\ Event /\ ~dead[x] /\ flushed[x] < wrote[x]
  /\ flushed' = [flushed EXCEPT ![x] = @ + 1]
  /\ needDrain' = [needDrain EXCEPT ![x] = @ /\ flushed'[x] < wrote[x]]
  /\ UNCHANGED <<peerVars, readVars, wrote, fin, dead, settled, dropped, lost>>

\* A chunk reaches the peer of x; the last one brings drain, unless end() was
\* called, and drain resumes the source.
Flush(x) ==
  LET y == Other(x)
      drain == flushed[x] + 1 = wrote[x] /\ needDrain[x] /\ fin[x] = "no"
  IN
  /\ Event /\ ~dead[x] /\ flushed[x] < wrote[x]
  /\ flushed' = [flushed EXCEPT ![x] = @ + 1]
  /\ needDrain' = [needDrain EXCEPT ![x] = @ /\ ~drain]
  /\ flowing' = [flowing EXCEPT ![y] = @ \/ drain]
  /\ UNCHANGED <<peerVars, got, ended, wrote, fin, dead, settled, dropped, lost>>

\* The finish event, for which dropStream waits.
Finish(x) ==
  /\ Event /\ ~dead[x] /\ fin[x] = "ended" /\ flushed[x] = wrote[x]
  /\ fin' = [fin EXCEPT ![x] = "finished"]
  /\ dead' = [dead EXCEPT ![x] = dropped]
  /\ UNCHANGED <<peerVars, readVars, wrote, flushed, needDrain, settled, dropped, lost>>

\* Mutant: what is written and not flushed goes with the socket, the FIN too.
DropAtOnce ==
  /\ Decided /\ ~dropped
  /\ dropped' = TRUE
  /\ dead' = [x \in Side |-> TRUE]
  /\ fin' = [x \in Side |-> IF ~dead[x] /\ fin[x] = "no" THEN "ended" ELSE fin[x]]
  /\ UNCHANGED <<peerVars, readVars, wrote, flushed, needDrain, settled, lost>>

\* dropStream, on both: flush what is written, then destroy.
Drop ==
  /\ Decided /\ ~dropped
  /\ dropped' = TRUE
  /\ dead' = [x \in Side |-> dead[x] \/ fin[x] = "finished"]
  /\ fin' = [x \in Side |-> IF ~dead[x] /\ fin[x] = "no" THEN "ended" ELSE fin[x]]
  /\ UNCHANGED <<peerVars, readVars, wrote, flushed, needDrain, settled, lost>>

Next ==
  \/ \E x \in Side :
       PeerSends(x) \/ PeerEnds(x) \/ PeerResets(x)
       \/ Data(x) \/ End(x) \/ Flush(x) \/ Finish(x)
  \/ Abort \/ Drop

\* The event loop emits what is due, the peers read what is sent to them, and
\* each comes to the end of what it sends.
Fairness ==
  /\ \A x \in Side :
       WF_vars(Data(x)) /\ WF_vars(End(x)) /\ WF_vars(Flush(x))
       /\ WF_vars(Finish(x)) /\ WF_vars(PeerEnds(x))
  /\ WF_vars(Drop)

Spec == Init /\ [][Next]_vars /\ Fairness

-----------------------------------------------------------------------------
(* Properties *)

\* The types; a slow peer does not make the buffer grow past the mark.
TypeOK ==
  /\ sent \in [Side -> 0 .. MaxChunks] /\ eof \in [Side -> BOOLEAN]
  /\ got \in [Side -> 0 .. MaxChunks] /\ ended \in [Side -> BOOLEAN]
  /\ flowing \in [Side -> BOOLEAN]
  /\ wrote \in [Side -> 0 .. MaxChunks] /\ flushed \in [Side -> 0 .. MaxChunks]
  /\ \A x \in Side : wrote[x] \in flushed[x] .. flushed[x] + HighWaterMark
  /\ needDrain \in [Side -> BOOLEAN]
  /\ fin \in [Side -> {"no", "ended", "finished"}] /\ dead \in [Side -> BOOLEAN]
  /\ settled \in [Side -> {"no", "ok", "err"}] /\ dropped \in BOOLEAN
  /\ lost \in SUBSET Side

\* While the copy runs the peer of a destination has a prefix of what its source
\* yields, and it is told the end of the stream, by whichever direction and
\* however late, only with every chunk the source has sent; only a reset that
\* fails the copy cuts a stream short.  A socket that nobody but the code
\* destroys has told its peer the end: dropStream waits for finish.
Complete ==
  \A x \in Side : LET y == Other(x) IN
    /\ settled[x] = "no" => wrote[y] = got[x]
    /\ fin[y] = "finished" /\ settled[x] # "err" => eof[x] /\ flushed[y] = sent[x]
    /\ dead[y] /\ y \notin lost => fin[y] = "finished"

\* The end of one direction does not end the other: until both are over, the
\* write half of a socket is open as long as its source is.
HalfOpen ==
  ~Decided => \A x \in Side : fin[Other(x)] # "no" => ended[x]

\* A source is paused only while drain of the other socket is still to come.
NoStall ==
  \A x \in Side : LET y == Other(x) IN
    ~flowing[x] /\ settled[x] = "no" =>
      needDrain[y] /\ flushed[y] < wrote[y] /\ fin[y] = "no"

\* The promise settles and both sockets are released, whatever order ends,
\* resets and the shutdown of the client come in.  A socket that is lost before
\* the copy attaches its listeners is the exception: its end, error and close
\* are past, only readableEnded is looked up, and nothing settles its direction.
Released ==
  (\A x \in Side : ~dead[x]) => <>(dropped /\ \A x \in Side : dead[x])
=============================================================================
