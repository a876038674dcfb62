-------------------------------- MODULE MCSystem --------------------------------
(* Instances of AesdSystem and SeekCommand for TLC: a behaviour is one of the  *)
(* server on its device, or of one packet and the memory behind its copy.      *)
EXTENDS AesdSystem, SeekCommand, TLC

VARIABLE part

MCPositions == 0..(MaxBytes + 1)
\* The second byte of the second line: inside the text or behind it, depending
\* on what the device holds.
MCSeeks == {<<1, 1>>}
SystemSymmetry == Permutations(Conn)

ServerInit == part \in {"system", "packet"} /\ SystemInit /\ SeekInit

ServerNext ==
  /\ UNCHANGED part
  /\ \/ part = "system" /\ SystemNext /\ UNCHANGED <<packet, tail>>
     \/ part = "packet" /\ SeekNext /\ UNCHANGED sysVars

ServerSpec == ServerInit /\ [][ServerNext]_<<part, sysVars, packet, tail>>
=============================================================================
