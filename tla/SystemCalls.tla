------------------------------- MODULE SystemCalls -------------------------------
(***************************************************************************)
(* do_system, do_exec and do_exec_redirect (examples/systemcalls): a process  *)
(* forks, the child becomes the command, the parent waits for it.  Processes   *)
(* are explicit because a child of do_exec_redirect that cannot run the        *)
(* command goes on as a second copy of its caller.                            *)
(*                                                                         *)
(* A step is one system call.  Its outcome, the command and its exit status    *)
(* are the environment, and so is the program that calls these functions.      *)
(* The descriptor of the output file is counted where it stays open.          *)
(***************************************************************************)
EXTENDS Integers, FiniteSets

CONSTANTS
  Process,     \* as many processes as can be forked
  Root,        \* the one that is there at the start
  Kinds,       \* bound: the functions called, among "exec", "redirect", "system"
  MaxFd,       \* descriptors a process may have open
  MaxFaults    \* bound: forks, opens, dup2s and waits that fail

ASSUME SystemAssumption ==
  /\ Root \in Process
  /\ Kinds \subseteq {"exec", "redirect", "system"}
  /\ MaxFd \in Nat /\ MaxFaults \in Nat

VARIABLES
  proc,        \* process -> its state
  faults       \* failures so far

sysVars == <<proc, faults>>

\* Exit status 0, another exit status, killed by a signal.
Statuses == {"zero", "nonzero", "signal"}

\* At "none" a process does not exist yet, at "user" it runs the calling
\* program, at "running" the command.  born is the function that forked it, ended
\* how the child of its last call was seen to end; lost remembers that the wait
\* for the process failed.
NoProcess == [at |-> "none", born |-> "exec", kind |-> "exec", parent |-> Root, child |-> Root,
              fds |-> 0, status |-> "zero", result |-> FALSE, ended |-> "unknown", lost |-> FALSE]

At(p, where) == proc[p].at = where
Go(p, where) == proc' = [proc EXCEPT ![p].at = where]
Return(p, result) == proc' = [proc EXCEPT ![p].at = "user", ![p].result = result]
End(p, status) == proc' = [proc EXCEPT ![p].at = "zombie", ![p].status = status]
Fault == faults < MaxFaults /\ faults' = faults + 1
NoFault == UNCHANGED faults

\* command[] is filled from the arguments.
Call(p, kind) ==
  /\ At(p, "user")
  /\ proc' = [proc EXCEPT ![p].kind = kind, ![p].ended = "unknown",
                ![p].at = CASE kind = "exec" -> "fork" [] kind = "redirect" -> "open"
                            [] kind = "system" -> "system"]
  /\ NoFault

\* system(), then "!= 0" on its result; "failed" is a failure of its own.
DoSystem(p) ==
  /\ At(p, "system")
  /\ \E status \in Statuses \cup {"failed"} :
       proc' = [proc EXCEPT ![p].at = "user", ![p].ended = status, ![p].result = (status = "zero")]
  /\ NoFault

\* open(outputfile, ...)
OpenOutput(p) ==
  /\ At(p, "open")
  /\ \/ /\ proc[p].fds < MaxFd
        /\ proc' = [proc EXCEPT ![p].at = "fork", ![p].fds = @ + 1] /\ NoFault
     \/ proc[p].fds = MaxFd /\ Return(p, FALSE) /\ NoFault
     \/ Return(p, FALSE) /\ Fault

\* The child has the descriptors of its parent.  fork fails when no process is left.
Fork(p) ==
  /\ At(p, "fork")
  /\ \/ /\ NoFault
        /\ \E q \in Process :
             /\ At(q, "none")
             /\ proc' = [proc EXCEPT ![p].at = "wait", ![p].child = q,
                  ![q] = [NoProcess EXCEPT
                    !.at = IF proc[p].kind = "redirect" THEN "dup" ELSE "exec",
                    !.born = proc[p].kind, !.kind = proc[p].kind, !.parent = p,
                    !.fds = proc[p].fds]]
     \/ (\A q \in Process : ~At(q, "none")) /\ Return(p, FALSE) /\ NoFault
     \/ Return(p, FALSE) /\ Fault

\* dup2 and the close of the child's own descriptor.
Redirect(q) ==
  /\ At(q, "dup")
  /\ \/ proc' = [proc EXCEPT ![q].at = "exec", ![q].fds = @ - 1] /\ NoFault
     \/ Return(q, FALSE) /\ Fault

\* Both children return.
Bug_LeavesByExit(kind) == FALSE
\* After a failed execv do_exec calls _exit(-1), do_exec_redirect returns.
LeavesByExit(kind) == kind = "exec"

Exec(q) ==
  /\ At(q, "exec")
  /\ \/ Go(q, "running")
     \/ IF LeavesByExit(proc[q].kind) THEN End(q, "nonzero") ELSE Return(q, FALSE)
  /\ NoFault

\* A command that was killed by a signal taken for one that ended well.
Bug_Succeeded(kind, status) == status \in {"zero", "signal"}
\* What waitpid's status is turned into; do_exec_redirect does not ask for it.
Succeeded(kind, status) == kind = "redirect" \/ status = "zero"

\* A function that does not wait.
Bug_Wait(p) == At(p, "wait") /\ Return(p, TRUE) /\ NoFault

\* waitpid: the child's end, or an error (a signal the program handles).
Wait(p) ==
  LET q == proc[p].child
      ok == Succeeded(proc[p].kind, proc[q].status)
  IN  /\ At(p, "wait")
      /\ \/ /\ At(q, "zombie") /\ NoFault
            /\ proc' = [proc EXCEPT ![q].at = "reaped", ![p].at = "user", ![p].result = ok,
                          ![p].ended = proc[q].status]
         \/ Fault /\ proc' = [proc EXCEPT ![p].at = "user", ![p].result = FALSE, ![q].lost = TRUE]

CommandEnds(q) == At(q, "running") /\ (\E status \in Statuses : End(q, status)) /\ NoFault

\* A copy of the program ends like any other.
ProgramEnds(q) == q # Root /\ At(q, "user") /\ (\E status \in {"zero", "nonzero"} : End(q, status)) /\ NoFault

Library(p) == OpenOutput(p) \/ Fork(p) \/ Redirect(p) \/ Exec(p) \/ Wait(p) \/ DoSystem(p)

SysInit ==
  /\ proc = [p \in Process |-> IF p = Root THEN [NoProcess EXCEPT !.at = "user"] ELSE NoProcess]
  /\ faults = 0

SysNext ==
  \E p \in Process :
    \/ \E kind \in Kinds : Call(p, kind)
    \/ Library(p) \/ CommandEnds(p) \/ ProgramEnds(p)

SysSpec == SysInit /\ [][SysNext]_sysVars

\* Commands end, and the functions are run to their return.
SysFairness == \A p \in Process : WF_sysVars(Library(p)) /\ WF_sysVars(CommandEnds(p))
-----------------------------------------------------------------------------
(* Properties *)

\* do_exec and do_system return true exactly when they saw the command end with
\* 0, over every way in which fork, execv and the command fail.  A call whose wait
\* was interrupted saw no end and returns false, whatever becomes of the command.
ResultTellsSuccess ==
  \A p \in Process :
    At(p, "user") /\ proc[p].kind # "redirect" => (proc[p].result <=> proc[p].ended = "zero")

\* A process forked by do_exec never gets into the calling program, whatever
\* fails: only the one that called goes on with it.
ExecReturnsOnce == \A q \in Process \ {Root} : At(q, "user") => proc[q].born = "redirect"

Awaited(q) == At(proc[q].parent, "wait") /\ proc[proc[q].parent].child = q

\* A child is waited for, collected or lost.
Accounted(q) ==
  \/ At(q, "none")
  \/ Awaited(q) /\ ~At(q, "reaped") /\ ~proc[q].lost
  \/ ~Awaited(q) /\ At(q, "reaped") /\ ~proc[q].lost
  \/ ~Awaited(q) /\ ~At(q, "reaped") /\ proc[q].lost

\* Every child is either waited for by its parent, or collected, or lost to a wait
\* that failed, and only one of these: a copy of the program runs while its caller
\* stands still unless the caller's wait was interrupted, and then its end is never
\* collected.
EveryChildAccountedFor == \A q \in Process \ {Root} : Accounted(q)

\* The process runs the program, or one of the functions as its caller.
Calling(q) == proc[q].at \in {"user", "fork", "open", "system", "wait"}

\* Every wait ends once the command has ended; only that of do_exec_redirect can
\* last, and only while its child is a copy of the program.
ExecReturns ==
  \A p \in Process :
    At(p, "wait") ~> At(p, "user") \/ (proc[p].kind = "redirect" /\ Calling(proc[p].child))

\* What the comment of do_exec_redirect says of its output file: it "will be
\* closed at completion of the function call".
RedirectClosesItsFile == \A p \in Process : At(p, "user") => proc[p].fds = 0
=============================================================================
