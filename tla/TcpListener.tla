---------------------------- MODULE TcpListener ----------------------------
(***************************************************************************)
(* class TcpListener (src/src/deps/tokio.ts): the queue of connections and *)
(* the list of waiting accept() calls that the handlers of net.Server, the *)
(* callers, their timeouts and close() share.  Each runs to completion.    *)
(***************************************************************************)
EXTENDS Integers, Sequences

CONSTANTS
  Socket,  \* incoming connections
  Call     \* callers of accept; each calls it again and again

VARIABLES
  queue,     \* TcpListener.queue
  waiters,   \* TcpListener.waiters
  pending,   \* calls whose promise is not settled
  closed,    \* TcpListener.closed
  came,      \* connections in the order of their events
  accepted,  \* connections that promises have resolved with, in order
  destroyed  \* connections that close() destroyed

vars == <<queue, waiters, pending, closed, came, accepted, destroyed>>

Elements(q) == {q[i] : i \in DOMAIN q}

Init ==
  /\ queue = <<>> /\ waiters = <<>> /\ pending = {} /\ closed = FALSE
  /\ came = <<>> /\ accepted = <<>> /\ destroyed = {}

\* Mutant: the newest waiter is served.
ConnectionToNewest(s) ==
  /\ ~closed /\ s \notin Elements(came)
  /\ came' = Append(came, s)
  /\ IF waiters = <<>>
     THEN queue' = Append(queue, s) /\ UNCHANGED <<waiters, pending, accepted>>
     ELSE /\ waiters' = Tail(waiters)
          /\ pending' = pending \ {waiters[Len(waiters)]}
          /\ accepted' = Append(accepted, s)
          /\ UNCHANGED queue
  /\ UNCHANGED <<closed, destroyed>>

\* The connection event: to the oldest waiter, or to the queue.  A promise
\* that is settled already ignores the socket it is resolved with.
Connection(s) ==
  /\ ~closed /\ s \notin Elements(came)
  /\ came' = Append(came, s)
  /\ IF waiters = <<>>
     THEN queue' = Append(queue, s) /\ UNCHANGED <<waiters, pending, accepted>>
     ELSE /\ waiters' = Tail(waiters)
          /\ pending' = pending \ {Head(waiters)}
          /\ accepted' = IF Head(waiters) \in pending
                         THEN Append(accepted, s) ELSE accepted
          /\ UNCHANGED queue
  /\ UNCHANGED <<closed, destroyed>>

\* The error event rejects every waiter.
ServerError ==
  /\ ~closed
  /\ waiters' = <<>> /\ pending' = pending \ Elements(waiters)
  /\ UNCHANGED <<queue, closed, came, accepted, destroyed>>

\* Mutant: accept() waits without looking at the queue.
AcceptWaits(c) ==
  /\ c \notin pending
  /\ waiters' = Append(waiters, c) /\ pending' = pending \cup {c}
  /\ UNCHANGED <<queue, closed, came, accepted, destroyed>>

\* accept() on a closed listener waits like any other.
Accept(c) ==
  /\ c \notin pending
  /\ IF queue # <<>>
     THEN /\ queue' = Tail(queue)
          /\ accepted' = Append(accepted, Head(queue))
          /\ UNCHANGED <<waiters, pending>>
     ELSE /\ waiters' = Append(waiters, c)
          /\ pending' = pending \cup {c}
          /\ UNCHANGED <<queue, accepted>>
  /\ UNCHANGED <<closed, came, destroyed>>

\* Mutant: the cancelled accept stays among the waiters.
AbortStays(c) ==
  /\ c \in pending
  /\ pending' = pending \ {c}
  /\ UNCHANGED <<queue, waiters, closed, came, accepted, destroyed>>

\* The signal of timeout(500) or of the server's shutdown: onAbort.
Abort(c) ==
  /\ c \in pending
  /\ \E i \in DOMAIN waiters :
       /\ waiters[i] = c
       /\ waiters' = SubSeq(waiters, 1, i - 1)
                      \o SubSeq(waiters, i + 1, Len(waiters))
  /\ pending' = pending \ {c}
  /\ UNCHANGED <<queue, closed, came, accepted, destroyed>>

Close ==
  /\ ~closed
  /\ closed' = TRUE
  /\ destroyed' = Elements(queue) /\ queue' = <<>>
  /\ waiters' = <<>> /\ pending' = pending \ Elements(waiters)
  /\ UNCHANGED <<came, accepted>>

Next ==
  \/ \E s \in Socket : Connection(s)
  \/ ServerError
  \/ \E c \in Call : Accept(c) \/ Abort(c)
  \/ Close

Spec == Init /\ [][Next]_vars

-----------------------------------------------------------------------------
(* Properties *)

TypeOK ==
  /\ queue \in Seq(Socket) /\ came \in Seq(Socket) /\ accepted \in Seq(Socket)
  /\ waiters \in Seq(Call) /\ pending \in SUBSET Call
  /\ closed \in BOOLEAN /\ destroyed \in SUBSET Socket

\* Every connection that came is accepted, in the order of arrival, or still
\* queued, or destroyed with the listener: a cancelled accept() takes none
\* with it, and none is handed to two calls.
NoneLost ==
  /\ ~closed => came = accepted \o queue
  /\ closed => Elements(came) = Elements(accepted) \cup destroyed

\* The waiters are the pending calls, each once, and none waits while a
\* connection is queued.
WaitersWait ==
  /\ \A i, j \in DOMAIN waiters : waiters[i] = waiters[j] => i = j
  /\ Elements(waiters) = pending
  /\ waiters # <<>> => queue = <<>>

\* The callers see a backlog: cancelling, failing and closing included.
B == INSTANCE Backlog WITH open <- ~closed, backlog <- queue, calls <- pending
Implements == B!Spec
=============================================================================
