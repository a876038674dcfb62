-------------------------------- MODULE MCRace --------------------------------
(* Instances of AesdCharRace for TLC. *)
EXTENDS AesdCharRace
=============================================================================
