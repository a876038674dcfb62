------------------------------- MODULE MCSocket -------------------------------
(* Instances of AesdSocket for TLC. *)
EXTENDS AesdSocket, TLC

\* The connections differ in nothing but their order of arrival.
ConnSymmetry == Permutations(Conn)
=============================================================================
