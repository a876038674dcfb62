------------------------------- MODULE MCExamples -------------------------------
(* Instances of SystemCalls and Threading for TLC: two libraries that share    *)
(* nothing, of which a program exercises one.                                 *)
EXTENDS SystemCalls, Threading

VARIABLE library

examplesVars == <<library, sysVars, thrVars>>

ExamplesInit == library \in {"systemcalls", "threading"} /\ SysInit /\ ThrInit

ExamplesNext ==
  /\ UNCHANGED library
  /\ \/ library = "systemcalls" /\ SysNext /\ UNCHANGED thrVars
     \/ library = "threading" /\ ThrNext /\ UNCHANGED sysVars

ExamplesSpec == ExamplesInit /\ [][ExamplesNext]_examplesVars /\ SysFairness /\ ThrFairness
=============================================================================
