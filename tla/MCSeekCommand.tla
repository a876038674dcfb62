------------------------------ MODULE MCSeekCommand ------------------------------
(* Instances of SeekCommand for TLC. *)
EXTENDS SeekCommand
=============================================================================
