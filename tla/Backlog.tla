------------------------------ MODULE Backlog ------------------------------
(***************************************************************************)
(* What a listener promises to the callers of accept, as src/src/deps/     *)
(* tokio.ts:236-238 states it: connections are queued like the kernel      *)
(* backlog, and giving up an accept drops none of them.  There is no list  *)
(* of waiters here: a connection goes to some call that still waits.       *)
(***************************************************************************)
EXTENDS Sequences, FiniteSets

CONSTANTS
  Socket,  \* incoming connections
  Call     \* callers of accept

VARIABLES
  open,      \* the listener has not been closed
  backlog,   \* connections nobody has accepted
  calls,     \* calls of accept that wait
  accepted   \* every connection an accept has resolved with

vars == <<open, backlog, calls, accepted>>

Init == open = TRUE /\ backlog = <<>> /\ calls = {} /\ accepted = <<>>

Come(s) ==
  /\ open
  /\ IF calls = {}
     THEN backlog' = Append(backlog, s) /\ UNCHANGED <<calls, accepted>>
     ELSE /\ \E c \in calls : calls' = calls \ {c}
          /\ accepted' = Append(accepted, s)
          /\ UNCHANGED backlog
  /\ UNCHANGED open

Accept(c) ==
  /\ c \notin calls
  /\ IF backlog = <<>>
     THEN calls' = calls \cup {c} /\ UNCHANGED <<backlog, accepted>>
     ELSE /\ accepted' = Append(accepted, Head(backlog))
          /\ backlog' = Tail(backlog)
          /\ UNCHANGED calls
  /\ UNCHANGED open

GiveUp(C) ==
  /\ calls' = calls \ C
  /\ UNCHANGED <<open, backlog, accepted>>

\* What is not accepted is gone, and nobody goes on waiting for it.
Close ==
  /\ open
  /\ open' = FALSE /\ backlog' = <<>> /\ calls' = {}
  /\ UNCHANGED accepted

Next ==
  \/ \E s \in Socket : Come(s)
  \/ \E c \in Call : Accept(c)
  \/ \E C \in SUBSET Call : GiveUp(C)
  \/ Close

Spec == Init /\ [][Next]_vars
=============================================================================
