------------------------------- MODULE Tunnel -------------------------------
(***************************************************************************)
(* What a tunnel promises to the connections made to its port (the         *)
(* Protocol section of src/README.md): a connection waits, and is then     *)
(* joined with a connection to the local service of its own, or closed, or *)
(* given up after its 10 seconds, in which case nobody serves it any more. *)
(***************************************************************************)
CONSTANTS
  Visitor,  \* connections to the tunnel port
  Local     \* connections of the client to the local service

VARIABLES
  stage,    \* stage[v]: "new", "waiting", "joined", "forgotten", "over"
  partners  \* partners[v]: the local connections v was ever joined with

vars == <<stage, partners>>

Init ==
  /\ stage = [v \in Visitor |-> "new"]
  /\ partners = [v \in Visitor |-> {}]

Arrive(v) ==
  /\ stage[v] = "new"
  /\ stage' = [stage EXCEPT ![v] = "waiting"]
  /\ UNCHANGED partners

\* Once for every visitor, and once for every local connection.
Join(v, l) ==
  /\ stage[v] = "waiting" /\ partners[v] = {}
  /\ \A w \in Visitor : l \notin partners[w]
  /\ stage' = [stage EXCEPT ![v] = "joined"]
  /\ partners' = [partners EXCEPT ![v] = {l}]

Forget(v) ==
  /\ stage[v] = "waiting"
  /\ stage' = [stage EXCEPT ![v] = "forgotten"]
  /\ UNCHANGED partners

\* One connection is closed, or all those of a process or a listener.
Close(V) ==
  /\ \A v \in V : stage[v] \in {"waiting", "joined", "forgotten"}
  /\ stage' = [v \in Visitor |-> IF v \in V THEN "over" ELSE stage[v]]
  /\ UNCHANGED partners

Next ==
  \/ \E v \in Visitor : Arrive(v) \/ Forget(v) \/ \E l \in Local : Join(v, l)
  \/ \E V \in SUBSET Visitor : Close(V)

Spec == Init /\ [][Next]_vars
=============================================================================
