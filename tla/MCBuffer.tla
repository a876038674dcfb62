------------------------------- MODULE MCBuffer -------------------------------
(* Instances of AesdCircularBuffer for TLC. *)
EXTENDS AesdCircularBuffer

\* Every position up to one past the last byte of a behaviour.
MCPositions == 0..(MaxBytes + 1)
=============================================================================
