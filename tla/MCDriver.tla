------------------------------- MODULE MCDriver -------------------------------
(* Instances of AesdCharReads for TLC. *)
EXTENDS AesdCharReads, TLC

\* Positions behind, inside and beyond the bytes of a behaviour.
MCPositions == -1..(MaxBytes + 1)
MCSeekOffs == {-1, 0, 1}
DriverSymmetry == Permutations(Handle)
=============================================================================
