------------------------------ MODULE MCServer ------------------------------
(* Model values, ports and symmetry for the runs of Server. *)
EXTENDS Server, TLC

MCRequest == {0, 1, 2}     \* any port; of 1 and 2 one is in the range, 2..3 or 0..1
MCEphemeral == {7}

Symmetry == Permutations(Conn) \cup Permutations(Visitor) \cup Permutations(Id)
=============================================================================
