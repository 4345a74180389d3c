---------------------------- MODULE MCDelimited ----------------------------
(* All streams of NUL and one other byte up to a length, for Delimited. *)
EXTENDS Delimited

CONSTANT StreamLength

MCStreams == UNION {[1 .. n -> {0, 1}] : n \in 0 .. StreamLength}
=============================================================================
