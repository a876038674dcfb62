---------------------------- MODULE SystemCallsProofs ----------------------------
(***************************************************************************)
(* Proofs, for any number of processes, descriptors and failures, about what   *)
(* do_system, do_exec and do_exec_redirect tell their caller and what they      *)
(* leave behind.                                                              *)
(***************************************************************************)
EXTENDS SystemCalls, TLAPS

-----------------------------------------------------------------------------
(* The inductive invariant *)

CallKinds == {"exec", "redirect", "system"}
Places == {"none", "user", "fork", "open", "system", "wait", "dup", "exec", "running", "zombie",
           "reaped"}

ProcessType ==
  [at : Places, born : CallKinds, kind : CallKinds, parent : Process, child : Process,
   fds : 0..MaxFd, status : Statuses, result : BOOLEAN,
   ended : Statuses \cup {"unknown", "failed"}, lost : BOOLEAN]

SysTypeOK == proc \in [Process -> ProcessType] /\ faults \in Nat

\* What the record of a process says of how it got where it is.
History(r) ==
  /\ r.at \notin {"user", "zombie", "reaped"} => r.ended = "unknown"
  /\ r.at = "user" /\ r.kind # "redirect" => (r.result <=> r.ended = "zero")
  /\ r.at = "open" => r.kind = "redirect"
  /\ r.at = "fork" => r.kind # "system"
  /\ r.at \in {"dup", "exec"} => r.born = r.kind /\ r.born # "system"
  /\ r.at = "dup" => r.kind = "redirect"
  /\ r.at = "none" => ~r.lost

\* Where a process runs the calling program or is in one of the functions.
CallPlaces == {"user", "fork", "open", "system", "wait"}

\* The root is in the program for ever, and of the others only children of
\* do_exec_redirect get there.
Returned(p, r) ==
  /\ p = Root => r.at \in CallPlaces
  /\ p # Root /\ r.at \in CallPlaces => r.born = "redirect"

\* From its open on a call of do_exec_redirect has a descriptor.
Kept(r) == r.at = "dup" \/ (r.at = "fork" /\ r.kind = "redirect") => r.fds > 0

\* A process waits for a child of its own.
WaitsForOwn(p) ==
  LET q == proc[p].child
  IN  At(p, "wait") => q \notin {p, Root} /\ proc[q].parent = p /\ ~At(q, "none")

SysInv ==
  /\ SysTypeOK
  /\ \A p \in Process :
       History(proc[p]) /\ Returned(p, proc[p]) /\ Kept(proc[p]) /\ WaitsForOwn(p)
  /\ \A q \in Process \ {Root} : Accounted(q)

-----------------------------------------------------------------------------
(* Steps of one process *)

\* Process p alone changes, and its record stays sound.
Alters(p) ==
  /\ proc' \in [Process -> ProcessType]
  /\ \A r \in Process \ {p} : proc'[r] = proc[r]
  /\ History(proc'[p]) /\ Returned(p, proc'[p]) /\ Kept(proc'[p])
  /\ proc'[p].parent = proc[p].parent

\* A process that neither waits nor has ended deserts no child by going on.
LEMMA AltersInv ==
  ASSUME SysInv, NEW p \in Process, Alters(p), faults' \in Nat,
         proc[p].at \notin {"none", "wait", "zombie", "reaped"},
         proc'[p].at \notin {"none", "wait", "reaped"},
         proc'[p].lost = proc[p].lost
  PROVE  SysInv'
<1>1. SysTypeOK'
  BY DEF Alters, SysTypeOK
<1>2. \A r \in Process : History(proc'[r]) /\ Returned(r, proc'[r]) /\ Kept(proc'[r])
  BY DEF Alters, SysInv
<1>3. ASSUME NEW r \in Process
      PROVE  WaitsForOwn(r)'
  <2>1. WaitsForOwn(r) /\ proc[r].child \in Process
    BY DEF SysInv, SysTypeOK, ProcessType
  <2>2. CASE r = p
    BY <2>2 DEF WaitsForOwn, At
  <2>3. CASE r # p
    BY <2>1, <2>3 DEF WaitsForOwn, At, Alters
  <2>4. QED
    BY <2>2, <2>3
<1>4. ASSUME NEW q \in Process \ {Root}
      PROVE  Accounted(q)'
  <2>1. Accounted(q) /\ proc[q].parent \in Process
    BY DEF SysInv, SysTypeOK, ProcessType
  <2>2. /\ proc'[q].parent = proc[q].parent /\ proc'[q].lost = proc[q].lost
        /\ At(q, "none")' = At(q, "none") /\ At(q, "reaped")' = At(q, "reaped")
    BY DEF Alters, At
  <2>3. Awaited(q)' = Awaited(q)
    BY <2>1, <2>2 DEF Awaited, At, Alters
  <2>4. QED
    BY <2>1, <2>2, <2>3 DEF Accounted
<1>5. QED
  BY <1>1, <1>2, <1>3, <1>4 DEF SysInv

\* The parts of a record.
LEMMA Parts ==
  ASSUME SysInv, NEW p \in Process
  PROVE  /\ proc \in [Process -> ProcessType] /\ proc[p] \in ProcessType
         /\ proc[p].at \in Places /\ proc[p].born \in CallKinds /\ proc[p].kind \in CallKinds
         /\ proc[p].parent \in Process /\ proc[p].child \in Process
         /\ proc[p].fds \in 0..MaxFd /\ proc[p].status \in Statuses
         /\ proc[p].ended \in Statuses \cup {"unknown", "failed"}
         /\ proc[p].lost \in BOOLEAN /\ WaitsForOwn(p)
         /\ History(proc[p]) /\ Returned(p, proc[p]) /\ Kept(proc[p])
BY DEF SysInv, SysTypeOK, ProcessType

\* The process goes on to another place, and nothing else about it changes.
LEMMA GoEffect ==
  ASSUME SysInv, NEW p \in Process, NEW where \in Places, Go(p, where)
  PROVE  /\ proc' = [proc EXCEPT ![p] = [proc[p] EXCEPT !.at = where]]
         /\ [proc[p] EXCEPT !.at = where] \in ProcessType
<1>1. proc[p] \in ProcessType
  BY Parts
<1>2. QED
  BY <1>1 DEF Go, ProcessType

LEMMA ReturnEffect ==
  ASSUME SysInv, NEW p \in Process, Return(p, FALSE)
  PROVE  /\ proc' = [proc EXCEPT ![p] = [proc[p] EXCEPT !.at = "user", !.result = FALSE]]
         /\ [proc[p] EXCEPT !.at = "user", !.result = FALSE] \in ProcessType
<1>1. proc[p] \in ProcessType
  BY Parts
<1>2. QED
  BY <1>1 DEF Return, ProcessType, Places

LEMMA EndEffect ==
  ASSUME SysInv, NEW p \in Process, NEW status \in Statuses, End(p, status)
  PROVE  /\ proc' = [proc EXCEPT ![p] = [proc[p] EXCEPT !.at = "zombie", !.status = status]]
         /\ [proc[p] EXCEPT !.at = "zombie", !.status = status] \in ProcessType
<1>1. proc[p] \in ProcessType
  BY Parts
<1>2. QED
  BY <1>1 DEF End, ProcessType, Places

\* A function of the library that gives up returns false to the program.
LEMMA ReturnInv ==
  ASSUME SysInv, NEW p \in Process, Return(p, FALSE), faults' \in Nat,
         \/ proc[p].at \in {"open", "fork"}
         \/ proc[p].at \in {"dup", "exec"} /\ proc[p].kind = "redirect"
  PROVE  SysInv'
<1> DEFINE r == proc[p]
           s == [proc[p] EXCEPT !.at = "user", !.result = FALSE]
<1>1. proc' = [proc EXCEPT ![p] = s] /\ s \in ProcessType
  BY ReturnEffect
<1>2. /\ r \in ProcessType /\ History(r) /\ Returned(p, r) /\ Kept(r)
      /\ proc \in [Process -> ProcessType]
  BY Parts
<1>3. /\ s.at = "user" /\ s.result = FALSE /\ s.born = r.born /\ s.kind = r.kind
      /\ s.parent = r.parent /\ s.fds = r.fds /\ s.ended = r.ended
      /\ s.lost = r.lost
  BY <1>2 DEF ProcessType
<1> HIDE DEF s
<1>4. proc'[p] = s
  BY <1>1, <1>2
<1>5. History(s) /\ Returned(p, s) /\ Kept(s)
  BY <1>2, <1>3 DEF History, Returned, Kept, CallPlaces
<1>6. Alters(p)
  BY <1>1, <1>2, <1>3, <1>4, <1>5 DEF Alters
<1>7. QED
  BY <1>3, <1>4, <1>6, AltersInv

\* A process that ends leaves its record to its parent.
LEMMA EndInv ==
  ASSUME SysInv, NEW p \in Process \ {Root}, NEW status \in Statuses, End(p, status),
         faults' \in Nat, proc[p].at \in {"exec", "running", "user"}
  PROVE  SysInv'
<1> DEFINE r == proc[p]
           s == [proc[p] EXCEPT !.at = "zombie", !.status = status]
<1>1. proc' = [proc EXCEPT ![p] = s] /\ s \in ProcessType
  BY EndEffect
<1>2. /\ r \in ProcessType /\ History(r) /\ Returned(p, r) /\ Kept(r)
      /\ proc \in [Process -> ProcessType]
  BY Parts
<1>3. /\ s.at = "zombie" /\ s.parent = r.parent /\ s.fds = r.fds
      /\ s.lost = r.lost
  BY <1>2 DEF ProcessType
<1> HIDE DEF s
<1>4. proc'[p] = s
  BY <1>1, <1>2
<1>5. History(s) /\ Returned(p, s) /\ Kept(s)
  BY <1>2, <1>3 DEF History, Returned, Kept, CallPlaces
<1>6. Alters(p)
  BY <1>1, <1>2, <1>3, <1>4, <1>5 DEF Alters
<1>7. QED
  BY <1>3, <1>4, <1>6, AltersInv

-----------------------------------------------------------------------------
(* The actions *)

LEMMA CallInv ==
  ASSUME SysInv, NEW p \in Process, NEW kind \in Kinds, Call(p, kind)
  PROVE  SysInv'
<1> DEFINE r == proc[p]
           where == CASE kind = "exec" -> "fork" [] kind = "redirect" -> "open"
                      [] kind = "system" -> "system"
           s == [proc[p] EXCEPT !.kind = kind, !.ended = "unknown", !.at = where]
<1>1. /\ r \in ProcessType /\ r.at = "user" /\ History(r) /\ Returned(p, r) /\ Kept(r)
      /\ proc \in [Process -> ProcessType] /\ faults' \in Nat
  BY Parts DEF Call, At, NoFault, SysInv, SysTypeOK
<1>2. kind \in CallKinds
  BY SystemAssumption DEF CallKinds
<1>3. /\ where \in {"fork", "open", "system"}
      /\ (where = "fork" => kind = "exec") /\ (where = "open" => kind = "redirect")
  BY <1>2 DEF CallKinds
<1>w. proc' = [proc EXCEPT ![p].kind = kind, ![p].ended = "unknown", ![p].at = where]
  BY DEF Call
<1> HIDE DEF where
<1>4. proc' = [proc EXCEPT ![p] = s]
  BY <1>1, <1>w DEF ProcessType
<1>5. /\ s \in ProcessType
      /\ s.at = where /\ s.kind = kind /\ s.ended = "unknown" /\ s.born = r.born
      /\ s.parent = r.parent /\ s.fds = r.fds /\ s.lost = r.lost
  BY <1>1, <1>2, <1>3 DEF ProcessType, Places
<1> HIDE DEF s
<1>6. proc'[p] = s
  BY <1>1, <1>4
<1>7. History(s) /\ Returned(p, s) /\ Kept(s)
  BY <1>1, <1>3, <1>5 DEF History, Returned, Kept, CallPlaces
<1>8. Alters(p)
  BY <1>1, <1>4, <1>5, <1>6, <1>7 DEF Alters
<1>9. QED
  BY <1>1, <1>3, <1>5, <1>6, <1>8, AltersInv

LEMMA DoSystemInv ==
  ASSUME SysInv, NEW p \in Process, DoSystem(p)
  PROVE  SysInv'
<1>1. PICK status \in Statuses \cup {"failed"} :
        proc' = [proc EXCEPT ![p].at = "user", ![p].ended = status, ![p].result = (status = "zero")]
  BY DEF DoSystem
<1> DEFINE r == proc[p]
           s == [proc[p] EXCEPT !.at = "user", !.ended = status, !.result = (status = "zero")]
<1>2. /\ r \in ProcessType /\ r.at = "system" /\ History(r) /\ Returned(p, r) /\ Kept(r)
      /\ proc \in [Process -> ProcessType] /\ faults' \in Nat
  BY Parts DEF DoSystem, At, NoFault, SysInv, SysTypeOK
<1>3. proc' = [proc EXCEPT ![p] = s]
  BY <1>1, <1>2 DEF ProcessType
<1>4. (status = "zero") \in BOOLEAN
  OBVIOUS
<1>5. /\ s \in ProcessType
      /\ s.at = "user" /\ s.kind = r.kind /\ s.ended = status /\ (s.result <=> status = "zero")
      /\ s.born = r.born /\ s.parent = r.parent /\ s.fds = r.fds
      /\ s.lost = r.lost
  BY <1>2, <1>4 DEF ProcessType, Places
<1> HIDE DEF s
<1>6. proc'[p] = s
  BY <1>2, <1>3
<1>7. History(s) /\ Returned(p, s) /\ Kept(s)
  BY <1>2, <1>5 DEF History, Returned, Kept, CallPlaces
<1>8. Alters(p)
  BY <1>2, <1>3, <1>5, <1>6, <1>7 DEF Alters
<1>9. QED
  BY <1>2, <1>5, <1>6, <1>8, AltersInv

LEMMA OpenOutputInv ==
  ASSUME SysInv, NEW p \in Process, OpenOutput(p)
  PROVE  SysInv'
<1>1. At(p, "open") /\ faults \in Nat
  BY DEF OpenOutput, SysInv, SysTypeOK
<1>2. CASE Return(p, FALSE)
  <2>1. NoFault \/ Fault
    BY DEF OpenOutput
  <2>2. faults' \in Nat
    BY <1>1, <2>1 DEF NoFault, Fault
  <2>3. QED
    BY <1>1, <1>2, <2>2, ReturnInv DEF At
<1>3. CASE /\ proc[p].fds < MaxFd /\ NoFault
           /\ proc' = [proc EXCEPT ![p].at = "fork", ![p].fds = @ + 1]
  <2> DEFINE r == proc[p]
             more == proc[p].fds + 1
             s == [proc[p] EXCEPT !.at = "fork", !.fds = more]
  <2>1. /\ r \in ProcessType /\ r.at = "open" /\ History(r) /\ Returned(p, r) /\ Kept(r)
        /\ proc \in [Process -> ProcessType] /\ faults' \in Nat
    BY <1>1, <1>3, Parts DEF At, NoFault
  <2>2. more > 0 /\ more \in 0..MaxFd
    BY <1>3, <2>1, SystemAssumption DEF ProcessType, Kept
  <2>3. proc' = [proc EXCEPT ![p] = s]
    BY <1>3, <2>1 DEF ProcessType
  <2> HIDE DEF more
  <2>4. /\ s \in ProcessType
        /\ s.at = "fork" /\ s.kind = r.kind /\ s.ended = r.ended /\ s.born = r.born
        /\ s.parent = r.parent /\ s.fds = more /\ s.lost = r.lost
    BY <2>1, <2>2 DEF ProcessType, Places
  <2> HIDE DEF s
  <2>5. proc'[p] = s
    BY <2>1, <2>3
  <2>6. History(s) /\ Returned(p, s) /\ Kept(s)
    BY <2>1, <2>2, <2>4 DEF History, Returned, Kept, CallPlaces
  <2>7. Alters(p)
    BY <2>1, <2>3, <2>4, <2>5, <2>6 DEF Alters
  <2>8. QED
    BY <2>1, <2>4, <2>5, <2>7, AltersInv
<1>4. QED
  BY <1>2, <1>3 DEF OpenOutput

LEMMA RedirectInv ==
  ASSUME SysInv, NEW p \in Process, Redirect(p)
  PROVE  SysInv'
<1>1. At(p, "dup") /\ faults \in Nat
  BY DEF Redirect, SysInv, SysTypeOK
<1>2. CASE Return(p, FALSE) /\ Fault
  <2>1. faults' \in Nat /\ proc[p].kind = "redirect"
    BY <1>1, <1>2, Parts DEF Fault, At, History
  <2>2. QED
    BY <1>1, <1>2, <2>1, ReturnInv DEF At
<1>3. CASE proc' = [proc EXCEPT ![p].at = "exec", ![p].fds = @ - 1] /\ NoFault
  <2> DEFINE r == proc[p]
             less == proc[p].fds - 1
             s == [proc[p] EXCEPT !.at = "exec", !.fds = less]
  <2>1. /\ r \in ProcessType /\ r.at = "dup" /\ History(r) /\ Returned(p, r) /\ Kept(r)
        /\ proc \in [Process -> ProcessType] /\ faults' \in Nat
    BY <1>1, <1>3, Parts DEF At, NoFault
  <2>2. less \in 0..MaxFd
    BY <2>1, SystemAssumption DEF ProcessType, Kept
  <2>3. proc' = [proc EXCEPT ![p] = s]
    BY <1>3, <2>1 DEF ProcessType
  <2> HIDE DEF less
  <2>4. /\ s \in ProcessType
        /\ s.at = "exec" /\ s.kind = r.kind /\ s.ended = r.ended /\ s.born = r.born
        /\ s.parent = r.parent /\ s.fds = less /\ s.lost = r.lost
    BY <2>1, <2>2 DEF ProcessType, Places
  <2> HIDE DEF s
  <2>5. proc'[p] = s
    BY <2>1, <2>3
  <2>6. History(s) /\ Returned(p, s) /\ Kept(s)
    BY <2>1, <2>2, <2>4, SystemAssumption DEF History, Returned, Kept, CallPlaces
  <2>7. Alters(p)
    BY <2>1, <2>3, <2>4, <2>5, <2>6 DEF Alters
  <2>8. QED
    BY <2>1, <2>4, <2>5, <2>7, AltersInv
<1>4. QED
  BY <1>2, <1>3 DEF Redirect

LEMMA ExecInv ==
  ASSUME SysInv, NEW p \in Process, Exec(p)
  PROVE  SysInv'
<1> DEFINE r == proc[p]
<1>1. /\ r \in ProcessType /\ r.at = "exec" /\ History(r) /\ Returned(p, r) /\ Kept(r)
      /\ proc \in [Process -> ProcessType] /\ faults' \in Nat
  BY Parts DEF Exec, At, NoFault, SysInv, SysTypeOK
<1>2. r.kind \in {"exec", "redirect"} /\ p # Root
  BY <1>1, SystemAssumption DEF History, Returned, CallPlaces, ProcessType, CallKinds
<1>3. CASE Go(p, "running")
  <2> DEFINE s == [proc[p] EXCEPT !.at = "running"]
  <2>1. "running" \in Places
    BY DEF Places
  <2>2. proc' = [proc EXCEPT ![p] = s] /\ s \in ProcessType
    BY <1>3, <2>1, GoEffect
  <2>3. /\ s.at = "running" /\ s.kind = r.kind /\ s.ended = r.ended /\ s.born = r.born
        /\ s.parent = r.parent /\ s.fds = r.fds /\ s.lost = r.lost
    BY <1>1 DEF ProcessType
  <2> HIDE DEF s
  <2>4. proc'[p] = s
    BY <1>1, <2>2
  <2>5. History(s) /\ Returned(p, s) /\ Kept(s)
    BY <1>1, <1>2, <2>3 DEF History, Returned, Kept, CallPlaces
  <2>6. Alters(p)
    BY <1>1, <2>2, <2>3, <2>4, <2>5 DEF Alters
  <2>7. QED
    BY <1>1, <2>3, <2>4, <2>6, AltersInv
<1>4. CASE IF LeavesByExit(proc[p].kind) THEN End(p, "nonzero") ELSE Return(p, FALSE)
  <2>1. CASE r.kind = "exec"
    BY <1>1, <1>2, <1>4, <2>1, EndInv DEF LeavesByExit, Statuses
  <2>2. CASE r.kind = "redirect"
    BY <1>1, <1>4, <2>2, ReturnInv DEF LeavesByExit
  <2>3. QED
    BY <1>2, <2>1, <2>2
<1>5. QED
  BY <1>3, <1>4 DEF Exec

LEMMA EndsInv ==
  ASSUME SysInv, NEW p \in Process, CommandEnds(p) \/ ProgramEnds(p)
  PROVE  SysInv'
<1>1. faults' \in Nat
  BY DEF CommandEnds, ProgramEnds, NoFault, SysInv, SysTypeOK
<1>2. CASE CommandEnds(p)
  <2>1. p # Root
    BY <1>2, Parts DEF CommandEnds, At, Returned, CallPlaces
  <2>2. PICK status \in Statuses : End(p, status)
    BY <1>2 DEF CommandEnds
  <2>3. QED
    BY <1>1, <1>2, <2>1, <2>2, EndInv DEF CommandEnds, At
<1>3. CASE ProgramEnds(p)
  <2>1. PICK status \in {"zero", "nonzero"} : End(p, status)
    BY <1>3 DEF ProgramEnds
  <2>2. QED
    BY <1>1, <1>3, <2>1, EndInv DEF ProgramEnds, At, Statuses
<1>4. QED
  BY <1>2, <1>3

\* The child starts out with its parent's descriptors and no history, and the
\* parent waits for it.
LEMMA ForkInv ==
  ASSUME SysInv, NEW p \in Process, Fork(p)
  PROVE  SysInv'
<1>1. At(p, "fork") /\ faults \in Nat
  BY DEF Fork, SysInv, SysTypeOK
<1>2. CASE Return(p, FALSE) /\ Fault
  <2>1. faults' \in Nat
    BY <1>1, <1>2 DEF Fault
  <2>2. QED
    BY <1>1, <1>2, <2>1, ReturnInv DEF At
<1>3. ASSUME NEW q \in Process, At(q, "none"), NoFault,
             proc' = [proc EXCEPT ![p].at = "wait", ![p].child = q,
                        ![q] = [NoProcess EXCEPT
                          !.at = IF proc[p].kind = "redirect" THEN "dup" ELSE "exec",
                          !.born = proc[p].kind, !.kind = proc[p].kind, !.parent = p,
                          !.fds = proc[p].fds]]
      PROVE  SysInv'
  <2> DEFINE r == proc[p]
             first == IF proc[p].kind = "redirect" THEN "dup" ELSE "exec"
             s == [proc[p] EXCEPT !.at = "wait", !.child = q]
             c == [NoProcess EXCEPT !.at = first, !.born = proc[p].kind, !.kind = proc[p].kind,
                                    !.parent = p, !.fds = proc[p].fds]
  <2>1. /\ r \in ProcessType /\ r.at = "fork" /\ History(r) /\ Returned(p, r) /\ Kept(r)
        /\ proc \in [Process -> ProcessType] /\ faults' \in Nat
    BY <1>1, <1>3, Parts DEF At, NoFault
  <2>2. /\ proc[q] \in ProcessType /\ proc[q].at = "none" /\ ~proc[q].lost
        /\ q # p /\ q # Root
    BY <1>1, <1>3, Parts DEF At, History, Returned, CallPlaces
  <2>3. r.kind \in {"exec", "redirect"} /\ r.fds \in 0..MaxFd
    BY <2>1 DEF History, ProcessType, CallKinds
  <2>4. proc' = [proc EXCEPT ![p] = s, ![q] = c]
    BY <1>3, <2>1, <2>2 DEF ProcessType
  <2>5. /\ s \in ProcessType
        /\ s.at = "wait" /\ s.child = q /\ s.kind = r.kind /\ s.ended = r.ended /\ s.born = r.born
        /\ s.parent = r.parent /\ s.fds = r.fds /\ s.lost = r.lost
    BY <2>1 DEF ProcessType, Places
  <2>6. /\ first \in {"dup", "exec"} /\ (first = "dup" <=> r.kind = "redirect")
    OBVIOUS
  <2> HIDE DEF first
  <2>7. /\ c.at = first /\ c.born = r.kind /\ c.kind = r.kind /\ c.parent = p /\ c.child = Root
        /\ c.fds = r.fds /\ c.status = "zero" /\ c.result = FALSE /\ c.ended = "unknown"
        /\ c.lost = FALSE
    BY DEF NoProcess
  <2>8. c \in ProcessType
    <3>1. NoProcess \in ProcessType
      BY SystemAssumption DEF NoProcess, ProcessType, Places, CallKinds, Statuses
    <3>2. first \in Places /\ r.kind \in CallKinds /\ p \in Process
      BY <2>3, <2>6 DEF Places, CallKinds
    <3>3. QED
      BY <2>3, <3>1, <3>2 DEF ProcessType
  <2> HIDE DEF s, c
  <2>9. /\ proc' \in [Process -> ProcessType] /\ proc'[p] = s /\ proc'[q] = c
        /\ \A t \in Process \ {p, q} : proc'[t] = proc[t]
    BY <2>1, <2>2, <2>4, <2>5, <2>8
  <2>10. History(s) /\ Returned(p, s) /\ Kept(s)
    BY <2>1, <2>5 DEF History, Returned, Kept, CallPlaces
  <2>11. History(c) /\ Returned(q, c)
    BY <2>2, <2>3, <2>6, <2>7 DEF History, Returned, CallPlaces
  <2>12. Kept(c)
    <3>1. r.kind = "redirect" => r.fds > 0
      BY <2>1 DEF Kept, ProcessType
    <3>2. QED
      BY <2>3, <2>6, <2>7, <3>1 DEF Kept
  <2>13. \A t \in Process : History(proc'[t]) /\ Returned(t, proc'[t]) /\ Kept(proc'[t])
    BY <2>9, <2>10, <2>11, <2>12, Parts
  <2>14. ASSUME NEW t \in Process
         PROVE  WaitsForOwn(t)'
    <3>1. WaitsForOwn(t) /\ proc[t].child \in Process
      BY Parts
    <3>2. CASE t = p
      BY <2>2, <2>5, <2>6, <2>7, <2>9, <3>2 DEF WaitsForOwn, At
    <3>3. CASE t = q
      BY <2>6, <2>7, <2>9, <3>3 DEF WaitsForOwn, At
    <3>4. CASE t \notin {p, q}
      BY <2>1, <2>2, <2>5, <2>9, <3>1, <3>4 DEF WaitsForOwn, At
    <3>5. QED
      BY <3>2, <3>3, <3>4
  <2>15. ASSUME NEW t \in Process \ {Root}
         PROVE  Accounted(t)'
    <3>1. Accounted(t) /\ proc[t].parent \in Process
      BY Parts DEF SysInv
    <3>2. CASE t = q
      BY <2>2, <2>5, <2>6, <2>7, <2>9, <3>2 DEF Accounted, Awaited, At
    <3>3. CASE t # q
      <4>1. /\ proc'[t].parent = proc[t].parent /\ proc'[t].lost = proc[t].lost
            /\ At(t, "none")' = At(t, "none") /\ At(t, "reaped")' = At(t, "reaped")
        BY <2>1, <2>5, <2>9, <3>3 DEF At
      <4>2. Awaited(t)' = Awaited(t)
        BY <2>1, <2>2, <2>5, <2>6, <2>7, <2>9, <3>1, <3>3, <4>1 DEF Awaited, At
      <4>3. QED
        BY <3>1, <4>1, <4>2 DEF Accounted
    <3>4. QED
      BY <3>2, <3>3
  <2>16. QED
    BY <2>1, <2>9, <2>13, <2>14, <2>15 DEF SysInv, SysTypeOK
<1>4. CASE (\A q \in Process : ~At(q, "none")) /\ Return(p, FALSE) /\ NoFault
  <2>1. faults' \in Nat
    BY <1>1, <1>4 DEF NoFault
  <2>2. QED
    BY <1>1, <1>4, <2>1, ReturnInv DEF At
<1>5. QED
  BY <1>2, <1>3, <1>4 DEF Fork

\* The parent goes on, and its child is collected or lost.
LEMMA ReturnsFromWait ==
  ASSUME SysInv, NEW p \in Process, NEW q \in Process, At(p, "wait"), q = proc[p].child,
         q # p, q # Root, proc[q].parent = p, proc[q].at # "none", proc[q].at # "reaped",
         faults' \in Nat, proc' \in [Process -> ProcessType],
         \A t \in Process \ {p, q} : proc'[t] = proc[t],
         proc'[p].at = "user", proc'[p].parent = proc[p].parent, proc'[p].lost = proc[p].lost,
         proc'[q].parent = p,
         \/ proc[q].at = "zombie" /\ proc'[q].at = "reaped" /\ proc'[q].lost = FALSE
         \/ proc'[q].at = proc[q].at /\ proc'[q].lost = TRUE /\ proc'[q].child = proc[q].child,
         History(proc'[p]), Returned(p, proc'[p]), Kept(proc'[p]),
         History(proc'[q]), Returned(q, proc'[q]), Kept(proc'[q])
  PROVE  SysInv'
<1>1. \A t \in Process : History(proc'[t]) /\ Returned(t, proc'[t]) /\ Kept(proc'[t])
  BY Parts
<1>2. ASSUME NEW t \in Process, NEW u \in Process, u = proc[t].child, At(t, "wait"), t # p
      PROVE  u # q
  BY <1>2, Parts DEF WaitsForOwn
<1>3. ASSUME NEW t \in Process
      PROVE  WaitsForOwn(t)'
  <2>1. WaitsForOwn(t) /\ proc[t].child \in Process
    BY Parts
  <2>2. CASE t = p
    BY <2>2 DEF WaitsForOwn, At
  <2>3. CASE t = q
    BY <2>1, <2>3 DEF WaitsForOwn, At
  <2>4. CASE t \notin {p, q}
    BY <2>1, <2>4 DEF WaitsForOwn, At
  <2>5. QED
    BY <2>2, <2>3, <2>4
<1>4. ASSUME NEW t \in Process \ {Root}
      PROVE  Accounted(t)'
  <2>1. Accounted(t) /\ proc[t].parent \in Process
    BY Parts DEF SysInv
  <2>2. CASE t = q
    BY <2>2 DEF Accounted, Awaited, At
  <2>3. CASE t # q
    <3>1. /\ proc'[t].parent = proc[t].parent /\ proc'[t].lost = proc[t].lost
          /\ At(t, "none")' = At(t, "none") /\ At(t, "reaped")' = At(t, "reaped")
      BY <2>3 DEF At
    <3>2. Awaited(t)' = Awaited(t)
      <4>1. CASE proc[t].parent = p
        BY <2>3, <3>1, <4>1 DEF Awaited, At
      <4>2. CASE proc[t].parent = q
        BY <3>1, <4>2 DEF Awaited, At
      <4>3. CASE proc[t].parent \notin {p, q}
        BY <2>1, <3>1, <4>3 DEF Awaited, At
      <4>4. QED
        BY <4>1, <4>2, <4>3
    <3>3. QED
      BY <2>1, <3>1, <3>2 DEF Accounted
  <2>4. QED
    BY <2>2, <2>3
<1>5. QED
  BY <1>1, <1>3, <1>4 DEF SysInv, SysTypeOK

\* A wait that fails loses the child it was for; one that succeeds collects it.
LEMMA WaitInv ==
  ASSUME SysInv, NEW p \in Process, Wait(p)
  PROVE  SysInv'
<1> DEFINE r == proc[p]
           q == proc[p].child
           ok == Succeeded(proc[p].kind, proc[q].status)
<1>1. /\ r \in ProcessType /\ r.at = "wait" /\ History(r) /\ Returned(p, r) /\ Kept(r)
      /\ proc \in [Process -> ProcessType] /\ faults \in Nat /\ q \in Process
  BY Parts DEF Wait, At, SysInv, SysTypeOK
<1>w. /\ q # p /\ q # Root /\ proc[q].parent = p /\ proc[q] \in ProcessType /\ proc[q].at # "none"
      /\ History(proc[q]) /\ Returned(q, proc[q]) /\ Kept(proc[q])
      /\ Awaited(q) /\ proc[q].at # "reaped" /\ ~proc[q].lost
  <2>1. q # p /\ q # Root /\ proc[q].parent = p /\ proc[q].at # "none"
    BY <1>1, Parts DEF WaitsForOwn, At
  <2>2. Awaited(q) /\ Accounted(q)
    BY <1>1, <2>1 DEF Awaited, At, SysInv
  <2>3. QED
    BY <1>1, <2>1, <2>2, Parts DEF Accounted, At
<1>2. CASE Fault /\ proc' = [proc EXCEPT ![p].at = "user", ![p].result = FALSE, ![q].lost = TRUE]
  <2> DEFINE s == [proc[p] EXCEPT !.at = "user", !.result = FALSE]
             c == [proc[q] EXCEPT !.lost = TRUE]
  <2>0. faults' \in Nat
    BY <1>1, <1>2 DEF Fault
  <2>1. proc' = [proc EXCEPT ![p] = s, ![q] = c]
    BY <1>1, <1>w, <1>2 DEF ProcessType
  <2>2. /\ s \in ProcessType
        /\ s.at = "user" /\ s.result = FALSE /\ s.lost = r.lost /\ s.kind = r.kind
        /\ s.ended = r.ended /\ s.born = r.born /\ s.parent = r.parent /\ s.fds = r.fds
    BY <1>1 DEF ProcessType, Places
  <2>3. /\ c \in ProcessType
        /\ c.at = proc[q].at /\ c.result = proc[q].result /\ c.lost = TRUE
        /\ c.kind = proc[q].kind /\ c.ended = proc[q].ended /\ c.born = proc[q].born
        /\ c.parent = p /\ c.fds = proc[q].fds /\ c.child = proc[q].child
    BY <1>w DEF ProcessType
  <2> HIDE DEF s, c
  <2>4. /\ proc' \in [Process -> ProcessType] /\ proc'[p] = s /\ proc'[q] = c
        /\ \A t \in Process \ {p, q} : proc'[t] = proc[t]
    BY <1>1, <1>w, <2>1, <2>2, <2>3
  <2>5. History(s) /\ Returned(p, s) /\ Kept(s)
    BY <1>1, <2>2 DEF History, Returned, Kept, CallPlaces
  <2>6. History(c) /\ Returned(q, c) /\ Kept(c)
    BY <1>w, <2>3 DEF History, Returned, Kept, CallPlaces
  <2>7. /\ proc'[p].at = "user" /\ proc'[p].parent = proc[p].parent /\ proc'[p].lost = proc[p].lost
        /\ proc'[q].parent = p
        /\ proc'[q].at = proc[q].at /\ proc'[q].lost = TRUE /\ proc'[q].child = proc[q].child
        /\ History(proc'[p]) /\ Returned(p, proc'[p]) /\ Kept(proc'[p])
        /\ History(proc'[q]) /\ Returned(q, proc'[q]) /\ Kept(proc'[q])
    BY <2>2, <2>3, <2>4, <2>5, <2>6
  <2>8. At(p, "wait") /\ q = proc[p].child
    BY <1>1 DEF At
  <2> HIDE DEF q
  <2>9. QED
    BY <1>1, <1>w, <2>0, <2>4, <2>7, <2>8, ReturnsFromWait
<1>3. CASE /\ At(q, "zombie") /\ NoFault
           /\ proc' = [proc EXCEPT ![q].at = "reaped", ![p].at = "user", ![p].result = ok,
                         ![p].ended = proc[q].status]
  <2> DEFINE status == proc[q].status
             s == [proc[p] EXCEPT !.at = "user", !.result = ok, !.ended = status]
             c == [proc[q] EXCEPT !.at = "reaped"]
  <2>1. proc[q].at = "zombie" /\ status \in Statuses /\ faults' \in Nat
    BY <1>1, <1>w, <1>3 DEF At, NoFault, ProcessType
  <2>2. proc' = [proc EXCEPT ![p] = s, ![q] = c]
    BY <1>1, <1>w, <1>3 DEF ProcessType
  <2>3. /\ ok \in BOOLEAN /\ (ok <=> r.kind = "redirect" \/ status = "zero")
    BY DEF Succeeded
  <2> HIDE DEF ok, status
  <2>4. /\ s \in ProcessType
        /\ s.at = "user" /\ s.result = ok /\ s.ended = status /\ s.kind = r.kind
        /\ s.born = r.born /\ s.parent = r.parent /\ s.fds = r.fds /\ s.lost = r.lost
    BY <1>1, <2>1, <2>3 DEF ProcessType, Places
  <2>5. /\ c \in ProcessType /\ c.at = "reaped" /\ c.parent = p /\ c.lost = FALSE
        /\ c.fds = proc[q].fds
    BY <1>w DEF ProcessType, Places
  <2> HIDE DEF s, c
  <2>6. /\ proc' \in [Process -> ProcessType] /\ proc'[p] = s /\ proc'[q] = c
        /\ \A t \in Process \ {p, q} : proc'[t] = proc[t]
    BY <1>1, <1>w, <2>2, <2>4, <2>5
  <2>7. History(s) /\ Returned(p, s) /\ Kept(s)
    BY <1>1, <2>3, <2>4 DEF History, Returned, Kept, CallPlaces
  <2>8. History(c) /\ Returned(q, c) /\ Kept(c)
    BY <1>w, <2>5 DEF History, Returned, Kept, CallPlaces
  <2>9. QED
    BY <1>1, <1>w, <2>1, <2>4, <2>5, <2>6, <2>7, <2>8, ReturnsFromWait DEF At
<1>4. QED
  BY <1>2, <1>3 DEF Wait

LEMMA SysInvInit ==
  ASSUME SysInit
  PROVE  SysInv
<1> DEFINE first == [NoProcess EXCEPT !.at = "user"]
<1>1. NoProcess \in ProcessType /\ Root \in Process
  BY SystemAssumption DEF NoProcess, ProcessType, Places, CallKinds, Statuses
<1>2. first \in ProcessType
  BY <1>1 DEF ProcessType, Places
<1>3. /\ first.at = "user" /\ first.born = "exec" /\ first.kind = "exec" /\ first.ended = "unknown"
      /\ first.result = FALSE /\ first.fds = 0 /\ first.lost = FALSE
  BY DEF NoProcess
<1>4. /\ NoProcess.at = "none" /\ NoProcess.ended = "unknown"
      /\ NoProcess.fds = 0 /\ NoProcess.lost = FALSE
  BY DEF NoProcess
<1>5. proc = [p \in Process |-> IF p = Root THEN first ELSE NoProcess] /\ faults = 0
  BY DEF SysInit
<1> HIDE DEF first
<1>6. History(first) /\ Returned(Root, first) /\ Kept(first)
  BY <1>3 DEF History, Returned, Kept, CallPlaces
<1>7. \A p \in Process \ {Root} : History(NoProcess) /\ Returned(p, NoProcess) /\ Kept(NoProcess)
  BY <1>4 DEF History, Returned, Kept, CallPlaces
<1>8. \A p \in Process : proc[p] = IF p = Root THEN first ELSE NoProcess
  BY <1>5
<1>9. SysTypeOK
  BY <1>1, <1>2, <1>5 DEF SysTypeOK
<1>10. \A p \in Process : History(proc[p]) /\ Returned(p, proc[p]) /\ Kept(proc[p])
  BY <1>6, <1>7, <1>8
<1>11. \A p \in Process : WaitsForOwn(p)
  BY <1>3, <1>4, <1>8 DEF WaitsForOwn, At
<1>12. \A q \in Process \ {Root} : Accounted(q)
  BY <1>4, <1>8 DEF Accounted, At
<1>13. QED
  BY <1>9, <1>10, <1>11, <1>12 DEF SysInv

LEMMA SysInvNext ==
  ASSUME SysInv, [SysNext]_sysVars
  PROVE  SysInv'
<1>1. ASSUME NEW p \in Process, NEW kind \in Kinds, Call(p, kind)
      PROVE  SysInv'
  BY <1>1, CallInv
<1>2. ASSUME NEW p \in Process, Library(p)
      PROVE  SysInv'
  BY <1>2, OpenOutputInv, ForkInv, RedirectInv, ExecInv, WaitInv, DoSystemInv DEF Library
<1>3. ASSUME NEW p \in Process, CommandEnds(p) \/ ProgramEnds(p)
      PROVE  SysInv'
  BY <1>3, EndsInv
<1>4. CASE UNCHANGED sysVars
  BY <1>4 DEF sysVars, SysInv, SysTypeOK, WaitsForOwn, Accounted, Awaited, At
<1>5. QED
  BY <1>1, <1>2, <1>3, <1>4 DEF SysNext

-----------------------------------------------------------------------------
(* Theorems *)

THEOREM SysInvariant == SysSpec => []SysInv
<1>1. SysInit => SysInv
  BY SysInvInit
<1>2. SysInv /\ [SysNext]_sysVars => SysInv'
  BY SysInvNext
<1>3. QED
  BY <1>1, <1>2, PTL DEF SysSpec

\* What do_system and do_exec return is what they saw of the command's end, whichever
\* of fork, execv, the command and waitpid fails, in every process of a program.
THEOREM ResultIsSuccess == SysSpec => []ResultTellsSuccess
<1>1. SysInv => ResultTellsSuccess
  BY DEF SysInv, History, ResultTellsSuccess, At
<1>2. QED
  BY <1>1, SysInvariant, PTL

\* The _exit(-1) of do_exec: no process it forked goes on with the program, however
\* deep the copies that do_exec_redirect leaves behind fork in their turn.
THEOREM ExecReturnsToCaller == SysSpec => []ExecReturnsOnce
<1>1. SysInv => ExecReturnsOnce
  BY DEF SysInv, Returned, CallPlaces, ExecReturnsOnce, At
<1>2. QED
  BY <1>1, SysInvariant, PTL

\* waitpid is called for every child, and once: a child runs on beside its caller, as
\* the command or as a copy of the program, only after the caller's wait failed, and
\* nobody collects it then.
THEOREM ChildrenAccountedFor == SysSpec => []EveryChildAccountedFor
<1>1. SysInv => EveryChildAccountedFor
  BY DEF SysInv, EveryChildAccountedFor
<1>2. QED
  BY <1>1, SysInvariant, PTL
=============================================================================
