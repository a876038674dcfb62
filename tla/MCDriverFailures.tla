---------------------------- MODULE MCDriverFailures ----------------------------
(* Instances of AesdAllocFaults and AesdModule for TLC: what fails is an        *)
(* allocation while lines are written, or a step of loading the module.        *)
EXTENDS AesdAllocFaults, AesdModule, TLC

VARIABLE failing

MCPositions == 0..(MaxBytes + 1)
FailuresSymmetry == Permutations(Script) \cup Permutations(Major)

FailuresInit == failing \in {"writes", "loads"} /\ OopsInit /\ ModInit

FailuresNext ==
  /\ UNCHANGED failing
  /\ \/ failing = "writes" /\ OopsNext /\ UNCHANGED modVars
     \/ failing = "loads" /\ ModNext /\ UNCHANGED oopsVars

FailuresSpec == FailuresInit /\ [][FailuresNext]_<<failing, oopsVars, modVars>>
=============================================================================
