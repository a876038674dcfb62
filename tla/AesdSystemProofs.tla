---------------------------- MODULE AesdSystemProofs ----------------------------
(***************************************************************************)
(* Proofs, for any number of connections, descriptors and failures, of the   *)
(* safety properties of the server: the order in which packets reach the      *)
(* device, what is answered, what leaks, and what a leaked lock means.  Then  *)
(* the server on top of the driver: the composition does nothing that the     *)
(* server alone or the driver alone could not do, so what is proved of each   *)
(* of them holds of both together.  Last, which packets the server takes for a *)
(* seek command, for packets of any length.                                   *)
(***************************************************************************)
EXTENDS AesdSystem, SeekCommand, SharedLemmas

-----------------------------------------------------------------------------
(* The inductive invariant *)

\* The kernel's queue and the accepted connections: each connection is in one
\* of them at most, once, and in none before its client connects.  cur is the
\* connection accepted last.
Arrivals ==
  /\ \A i, j \in DOMAIN backlog : backlog[i] = backlog[j] => i = j
  /\ \A i, j \in DOMAIN served : served[i] = served[j] => i = j
  /\ \A i \in DOMAIN backlog, j \in DOMAIN served : backlog[i] # served[j]
  /\ \A i \in DOMAIN backlog : client[backlog[i]] # "idle"
  /\ \A i \in DOMAIN served : client[served[i]] # "idle"
  /\ main \in {"create", "joining"} => served # <<>>
  /\ served # <<>> => cur = served[Len(served)]

\* The main thread joins each thread before it accepts again, so one thread at
\* most is under way, that of cur, and only accepted connections have one.
OneThread ==
  /\ \A k \in Conn : worker[k].pc # "none" => \E i \in DOMAIN served : served[i] = k
  /\ \A k \in Conn : Live(k) => k = cur /\ main \in {"joining", "killed"}
  /\ main = "create" => worker[cur].pc = "none"

\* A connection's packet is on the device only after its thread wrote it.
WrittenOnce ==
  \A i \in DOMAIN device :
    worker[device[i].conn].pc \in {"unlock", "read_back", "send", "finish", "done"}

\* Packets are on the device in the order their connections were accepted.
DeviceOrder ==
  \A i, j \in DOMAIN device : \A a, b \in DOMAIN served :
    i < j /\ served[a] = device[i].conn /\ served[b] = device[j].conn => a < b

\* A thread that gets as far as reading back has carried out its packet.
DidBeforeAnswer ==
  \A k \in Conn :
    /\ worker[k].pc \in {"read_back", "send"} => worker[k].did # "none"
    /\ worker[k].pc = "unlock" /\ worker[k].err = "ok" => worker[k].did # "none"

\* Between its lock and its unlock a thread owns the mutex.
LockHeld ==
  \A k \in Conn : worker[k].pc \in {"reopen", "copy", "write", "unlock"} => mutex = k

\* The descriptors open for connection k, by the place its thread has reached.
FdsOf(k) ==
  LET w == worker[k]
  IN  /\ w.pc = "none" => fds[k] \subseteq {"sock"}
      /\ w.pc \in {"start", "open_tmp", "open_out"} => fds[k] = {"sock"}
      /\ w.pc \in {"read", "spool", "close_tmp"} => fds[k] = {"sock", "tmp"}
      /\ w.pc \in {"lock", "reopen"} =>
           fds[k] = IF w.out = "fd" THEN {"sock", "out"} ELSE {"sock"}
      /\ w.pc \in {"copy", "write", "unlock", "read_back", "send", "finish"} =>
           fds[k] = IF w.out = "fd" THEN {"sock", "out"} ELSE {"sock", "lent"}
      /\ w.pc = "finish" /\ w.out # "fd" => w.err # "ok"
      /\ w.pc = "done" => \/ fds[k] \subseteq {"sock", "out"}
                          \/ fds[k] \subseteq {"sock", "lent"}
      /\ w.pc = "done" /\ w.err = "ok" => fds[k] = {}

FdsByPlace ==
  Running => /\ \A k \in Conn : FdsOf(k)
             /\ main = "create" => fds[cur] = {"sock"}

SockInv ==
  /\ SockTypeOK
  /\ Arrivals
  /\ OneThread
  /\ WrittenOnce
  /\ DeviceOrder
  /\ DidBeforeAnswer /\ AnswerFollowsPacket
  /\ LockHeld
  /\ FdsByPlace
-----------------------------------------------------------------------------
(* Type correctness *)

\* A failure of the environment is counted within its bound.
LEMMA FaultType ==
  ASSUME faults \in 0..MaxFaults, Fault \/ NoFault \/ OpenFails
  PROVE  faults' \in 0..MaxFaults
BY SocketAssumption DEF Fault, NoFault, OpenFails

\* A connection is being served whenever the main thread creates or joins.
LEMMA CurAccepted ==
  ASSUME SockTypeOK, Arrivals, main \in {"create", "joining"}
  PROVE  cur \in Conn /\ Len(served) \in DOMAIN served /\ cur = served[Len(served)]
<1>1. served \in Seq(Conn) /\ served # <<>>
  BY DEF SockTypeOK, Arrivals
<1>2. Len(served) \in DOMAIN served /\ served[Len(served)] \in Conn
  BY <1>1, EmptySeq, LenProperties, ElementOfSeq
<1>3. QED
  BY <1>1, <1>2 DEF Arrivals

\* A thread that moves on keeps its type.
LEMMA GoType ==
  ASSUME worker \in [Conn -> WorkerType], NEW k \in Conn, NEW pc \in ThreadPlace,
         Go(k, pc) \/ Fail(k, pc)
  PROVE  worker' \in [Conn -> WorkerType]
BY DEF Go, Fail, WorkerType

\* So does a thread that moves on and sets some of its locals.
LEMMA UpdateType ==
  ASSUME worker \in [Conn -> WorkerType], NEW k \in Conn, NEW pc \in ThreadPlace,
         NEW err \in {"ok", "err", "null"}, NEW out \in {"none", "fd", "failed"},
         NEW from \in Nat, NEW to \in Nat, NEW did \in {"none", "sought", "written"},
         NEW rounds \in Nat,
         \/ worker' = [worker EXCEPT ![k].err = err]
         \/ worker' = [worker EXCEPT ![k].pc = pc, ![k].err = err]
         \/ worker' = [worker EXCEPT ![k].pc = pc, ![k].out = out]
         \/ worker' = [worker EXCEPT ![k].pc = pc, ![k].from = from, ![k].to = to]
         \/ worker' = [worker EXCEPT ![k].pc = pc, ![k].did = did]
         \/ worker' = [worker EXCEPT ![k].pc = pc, ![k].rounds = rounds]
  PROVE  worker' \in [Conn -> WorkerType]
BY DEF WorkerType

LEMMA TypeInit ==
  ASSUME SockInit
  PROVE  SockTypeOK
BY SocketAssumption DEF SockInit, SockTypeOK, NoWorker, WorkerType, ThreadPlace, MainPlace

LEMMA TypeMain ==
  ASSUME SockTypeOK, Arrivals, Main
  PROVE  SockTypeOK'
<1> USE DEF clientVars, histories
<1>1. CASE CheckQuit
  BY <1>1 DEF SockTypeOK, CheckQuit, MainPlace
<1>2. CASE EnterAccept
  BY <1>2 DEF SockTypeOK, EnterAccept, MainPlace
<1>3. CASE Accept
  <2>1. Head(backlog) \in Conn /\ Tail(backlog) \in Seq(Conn)
    BY <1>3, HeadTailProperties DEF SockTypeOK, Accept
  <2>2. served' \in Seq(Conn)
    BY <1>3, <2>1, AppendProperties DEF SockTypeOK, Accept
  <2>3. fds' \in [Conn -> SUBSET {"sock", "tmp", "out", "lent"}]
    BY <1>3, <2>1 DEF SockTypeOK, Accept, OpenFor
  <2>4. QED
    BY <1>3, <2>1, <2>2, <2>3 DEF SockTypeOK, Accept, MainPlace
<1>4. CASE AcceptFails
  <2>1. faults' \in 0..MaxFaults
    BY <1>4, FaultType DEF SockTypeOK, AcceptFails
  <2>2. QED
    BY <1>4, <2>1 DEF SockTypeOK, AcceptFails, MainPlace
<1>5. CASE CreateThread
  <2>1. cur \in Conn /\ "start" \in ThreadPlace
    BY <1>5, CurAccepted DEF CreateThread, ThreadPlace
  <2>2. worker' \in [Conn -> WorkerType]
    BY <1>5, <2>1, GoType DEF SockTypeOK, CreateThread
  <2>3. QED
    BY <1>5, <2>2 DEF SockTypeOK, CreateThread, MainPlace
<1>6. CASE CreateThreadFails
  <2>1. cur \in Conn /\ faults' \in 0..MaxFaults
    BY <1>6, CurAccepted, FaultType DEF SockTypeOK, CreateThreadFails
  <2>2. worker' \in [Conn -> WorkerType]
    <3>1. cur \in Conn /\ "none" \in ThreadPlace /\ 0 \in Nat
          /\ worker' = [worker EXCEPT ![cur].err = "err"]
      BY <1>6, <2>1 DEF CreateThreadFails, ThreadPlace
    <3>2. QED
      BY <3>1, UpdateType DEF SockTypeOK
  <2>3. QED
    BY <1>6, <2>1, <2>2 DEF SockTypeOK, CreateThreadFails, MainPlace
<1>7. CASE JoinThread
  BY <1>7 DEF SockTypeOK, JoinThread, DieOfSignal, MainPlace
<1>8. CASE CloseSock
  BY <1>8 DEF SockTypeOK, CloseSock, MainPlace
<1>9. QED
  BY <1>1, <1>2, <1>3, <1>4, <1>5, <1>6, <1>7, <1>8 DEF Main

LEMMA TypeThread ==
  ASSUME SockTypeOK, NEW k \in Conn, Thread(k)
  PROVE  SockTypeOK'
<1> USE DEF clientVars, histories, mainVars
<1> DEFINE Fds == [Conn -> SUBSET {"sock", "tmp", "out", "lent"}]
<1>a. worker \in [Conn -> WorkerType] /\ faults \in 0..MaxFaults /\ fds \in Fds
  BY DEF SockTypeOK
<1>b. {"done", "open_tmp", "read", "spool", "close_tmp", "open_out", "lock", "reopen", "copy",
       "write", "unlock", "read_back", "send", "finish"} \subseteq ThreadPlace
  BY DEF ThreadPlace
<1>c. worker[k] \in WorkerType
  BY <1>a
<1>1. CASE StartThread(k)
  <2>1. faults' \in 0..MaxFaults
    BY <1>1, <1>a, FaultType DEF StartThread
  <2>2. worker' \in [Conn -> WorkerType]
    <3>1. CASE Go(k, "open_tmp")
      BY <3>1, <1>a, <1>b, GoType
    <3>2. CASE worker' = [worker EXCEPT ![k].pc = "done", ![k].err = "null"]
      BY <3>2, <1>a, <1>b, UpdateType
    <3>3. QED
      BY <1>1, <3>1, <3>2 DEF StartThread
  <2>3. QED
    BY <1>1, <2>1, <2>2 DEF SockTypeOK, StartThread
<1>2. CASE OpenTmp(k)
  <2>1. faults' \in 0..MaxFaults
    BY <1>2, <1>a, FaultType DEF OpenTmp
  <2>2. worker' \in [Conn -> WorkerType]
    BY <1>2, <1>a, <1>b, GoType DEF OpenTmp
  <2>3. fds' \in Fds
    BY <1>2, <1>a DEF OpenTmp, OpenFor
  <2>4. QED
    BY <1>2, <2>1, <2>2, <2>3 DEF SockTypeOK, OpenTmp
<1>3. CASE ReadClient(k)
  <2>1. sent[k] \in 0..MaxSend /\ taken[k] \in 0..MaxSend /\ MaxSend \in Nat
    BY SocketAssumption DEF SockTypeOK
  <2>2. sent[k] \in Nat /\ taken[k] \in Nat
    BY <2>1
  <2>3. worker' \in [Conn -> WorkerType]
    <3>1. CASE worker' = [worker EXCEPT ![k].pc = "spool", ![k].from = taken[k], ![k].to = sent[k]]
      BY <3>1, <1>a, <1>b, <2>2, UpdateType
    <3>2. CASE worker' = [worker EXCEPT ![k].pc = "close_tmp", ![k].from = taken[k],
                                        ![k].to = taken[k]]
      BY <3>2, <1>a, <1>b, <2>2, UpdateType
    <3>3. CASE Fail(k, "close_tmp")
      BY <3>3, <1>a, <1>b, GoType
    <3>4. QED
      BY <1>3, <3>1, <3>2, <3>3 DEF ReadClient
  <2>4. taken' \in [Conn -> 0..MaxSend]
    BY <1>3, <2>1 DEF SockTypeOK, ReadClient
  <2>5. QED
    BY <1>3, <2>3, <2>4 DEF SockTypeOK, ReadClient
<1>4. CASE SpoolPiece(k)
  <2>1. faults' \in 0..MaxFaults
    BY <1>4, <1>a, FaultType DEF SpoolPiece
  <2>2. worker' \in [Conn -> WorkerType]
    BY <1>4, <1>a, <1>b, GoType DEF SpoolPiece, LeavesReadLoop
  <2>3. QED
    BY <1>4, <2>1, <2>2 DEF SockTypeOK, SpoolPiece
<1>5. CASE CloseTmp(k)
  <2>1. worker' \in [Conn -> WorkerType]
    BY <1>5, <1>a, <1>b, GoType DEF CloseTmp
  <2>2. fds' \in Fds
    BY <1>5, <1>a DEF CloseTmp, CloseFor
  <2>3. QED
    BY <1>5, <2>1, <2>2 DEF SockTypeOK, CloseTmp
<1>6. CASE OpenOut(k)
  <2>1. faults' \in 0..MaxFaults
    BY <1>6, <1>a, FaultType DEF OpenOut
  <2>2. worker' \in [Conn -> WorkerType]
    BY <1>6, <1>a, <1>b, UpdateType DEF OpenOut
  <2>3. fds' \in Fds
    BY <1>6, <1>a DEF OpenOut, OpenFor
  <2>4. QED
    BY <1>6, <2>1, <2>2, <2>3 DEF SockTypeOK, OpenOut
<1>7. CASE Lock(k)
  <2>1. worker' \in [Conn -> WorkerType]
    BY <1>7, <1>a, <1>b, GoType DEF Lock
  <2>2. QED
    BY <1>7, <2>1 DEF SockTypeOK, Lock
<1>8. CASE Reopen(k)
  <2>1. faults' \in 0..MaxFaults
    BY <1>8, <1>a, FaultType DEF Reopen
  <2>2. worker' \in [Conn -> WorkerType]
    BY <1>8, <1>a, <1>b, GoType DEF Reopen
  <2>3. fds' \in Fds
    BY <1>8, <1>a DEF Reopen, OpenFor
  <2>4. QED
    BY <1>8, <2>1, <2>2, <2>3 DEF SockTypeOK, Reopen
<1>9. CASE CopyPacket(k)
  <2>1. faults' \in 0..MaxFaults
    BY <1>9, <1>a, FaultType DEF CopyPacket
  <2>2. worker' \in [Conn -> WorkerType]
    BY <1>9, <1>a, <1>b, GoType DEF CopyPacket
  <2>3. QED
    BY <1>9, <2>1, <2>2 DEF SockTypeOK, CopyPacket
<1>10. CASE WriteDevice(k)
  <2>1. faults' \in 0..MaxFaults
    BY <1>10, <1>a, FaultType DEF WriteDevice
  <2>2. [conn |-> k, from |-> worker[k].from, to |-> worker[k].to]
          \in [conn : Conn, from : Nat, to : Nat]
    BY <1>c DEF WorkerType
  <2>3. device' \in Seq([conn : Conn, from : Nat, to : Nat])
    <3> DEFINE Packets == [conn : Conn, from : Nat, to : Nat]
               stored == [conn |-> k, from |-> worker[k].from, to |-> worker[k].to]
    <3>1. device \in Seq(Packets) /\ (device' = device \/ device' = Append(device, stored))
      BY <1>10 DEF SockTypeOK, WriteDevice
    <3> HIDE DEF Packets, stored
    <3>2. stored \in Packets
      BY <2>2 DEF Packets, stored
    <3>3. device' \in Seq(Packets)
      BY <3>1, <3>2, AppendProperties
    <3>4. QED
      BY <3>3 DEF Packets
  <2>4. worker' \in [Conn -> WorkerType]
    <3>1. ASSUME NEW did \in {"sought", "written"},
                 worker' = [worker EXCEPT ![k].pc = "unlock", ![k].did = did]
          PROVE  worker' \in [Conn -> WorkerType]
      BY <3>1, <1>a, <1>b, UpdateType
    <3>2. CASE Fail(k, "unlock")
      BY <3>2, <1>a, <1>b, GoType
    <3>3. QED
      BY <1>10, <3>1, <3>2 DEF WriteDevice
  <2>5. QED
    BY <1>10, <2>1, <2>3, <2>4 DEF SockTypeOK, WriteDevice
<1>11. CASE Unlock(k)
  <2>1. worker' \in [Conn -> WorkerType]
    BY <1>11, <1>a, <1>b, GoType DEF Unlock
  <2>2. QED
    BY <1>11, <2>1 DEF SockTypeOK, Unlock
<1>12. CASE ReadBack(k)
  <2>1. worker[k].rounds + 1 \in Nat
    BY <1>c DEF WorkerType
  <2>2. worker' \in [Conn -> WorkerType]
    <3>1. CASE worker' = [worker EXCEPT ![k].pc = "send", ![k].rounds = @ + 1]
      BY <3>1, <1>a, <1>b, <2>1, UpdateType
    <3>2. CASE Go(k, "finish") \/ Fail(k, "finish")
      BY <3>2, <1>a, <1>b, GoType
    <3>3. QED
      BY <1>12, <3>1, <3>2 DEF ReadBack
  <2>3. QED
    BY <1>12, <2>2 DEF SockTypeOK, ReadBack
<1>13. CASE SendBack(k)
  <2>1. worker' \in [Conn -> WorkerType]
    BY <1>13, <1>a, <1>b, GoType DEF SendBack
  <2>2. fds' \in Fds
    BY <1>13, <1>a DEF SendBack, DieOfSignal
  <2>3. main' \in MainPlace
    BY <1>13 DEF SendBack, DieOfSignal, SockTypeOK, MainPlace
  <2>4. QED
    BY <1>13, <2>1, <2>2, <2>3 DEF SockTypeOK, SendBack
<1>14. CASE FinishThread(k)
  <2>1. worker' \in [Conn -> WorkerType]
    BY <1>14, <1>a, <1>b, GoType DEF FinishThread
  <2>2. fds' \in Fds
    BY <1>14, <1>a DEF FinishThread, CloseFor
  <2>3. QED
    BY <1>14, <2>1, <2>2 DEF SockTypeOK, FinishThread
<1>15. QED
  BY <1>1, <1>2, <1>3, <1>4, <1>5, <1>6, <1>7, <1>8, <1>9, <1>10, <1>11, <1>12,
     <1>13, <1>14 DEF Thread

LEMMA TypeSignalMain ==
  ASSUME SockTypeOK, SignalMain
  PROVE  SockTypeOK'
BY DEF SockTypeOK, SignalMain, MainPlace, clientVars, histories

LEMMA TypeOthers ==
  ASSUME SockTypeOK, NEW k \in Conn,
         SignalThread(k) \/ Connect(k) \/ SendPiece(k) \/ HangUp(k)
  PROVE  SockTypeOK'
<1> USE DEF clientVars, histories, mainVars
<1>1. CASE SignalThread(k)
  <2>1. "close_tmp" \in ThreadPlace
    BY DEF ThreadPlace
  <2>2. worker' \in [Conn -> WorkerType]
    BY <1>1, <2>1, GoType DEF SockTypeOK, SignalThread
  <2>3. QED
    BY <1>1, <2>2 DEF SockTypeOK, SignalThread
<1>2. CASE Connect(k)
  <2>1. backlog' \in Seq(Conn)
    BY <1>2, AppendProperties DEF SockTypeOK, Connect
  <2>2. QED
    BY <1>2, <2>1 DEF SockTypeOK, Connect
<1>3. CASE SendPiece(k)
  <2>1. sent' \in [Conn -> 0..MaxSend]
    BY <1>3, SocketAssumption DEF SockTypeOK, SendPiece
  <2>2. QED
    BY <1>3, <2>1 DEF SockTypeOK, SendPiece
<1>4. CASE HangUp(k)
  BY <1>4 DEF SockTypeOK, HangUp
<1>5. QED
  BY <1>1, <1>2, <1>3, <1>4

-----------------------------------------------------------------------------
(* A thread's steps by what they do to its record *)

\* Only k's record changes; it gets to place pc with these locals.
Moves(k, pc, err, out, did) ==
  /\ \A j \in Conn \ {k} : worker'[j] = worker[j]
  /\ worker'[k].pc = pc /\ worker'[k].err = err
  /\ worker'[k].out = out /\ worker'[k].did = did

\* It gets there with its locals as they are, or with an error.
Reaches(k, pc) == Moves(k, pc, worker[k].err, worker[k].out, worker[k].did)
FailsTo(k, pc) == Moves(k, pc, "err", worker[k].out, worker[k].did)

\* What each form of assignment to a thread's record does.
LEMMA GoMoves ==
  ASSUME worker \in [Conn -> WorkerType], NEW k \in Conn, NEW pc
  PROVE  (Go(k, pc) => Reaches(k, pc)) /\ (Fail(k, pc) => FailsTo(k, pc))
BY DEF Go, Fail, Reaches, FailsTo, Moves, WorkerType

LEMMA UpdateMoves ==
  ASSUME worker \in [Conn -> WorkerType], NEW k \in Conn, NEW pc, NEW x
  PROVE  LET w == worker[k]
         IN  /\ worker' = [worker EXCEPT ![k].err = x] => Moves(k, w.pc, x, w.out, w.did)
             /\ worker' = [worker EXCEPT ![k].pc = pc, ![k].err = x] =>
                  Moves(k, pc, x, w.out, w.did)
             /\ worker' = [worker EXCEPT ![k].pc = pc, ![k].out = x] =>
                  Moves(k, pc, w.err, x, w.did)
             /\ worker' = [worker EXCEPT ![k].pc = pc, ![k].did = x] =>
                  Moves(k, pc, w.err, w.out, x)
BY DEF Moves, WorkerType

LEMMA CountMoves ==
  ASSUME worker \in [Conn -> WorkerType], NEW k \in Conn, NEW pc, NEW x, NEW y,
         \/ worker' = [worker EXCEPT ![k].pc = pc, ![k].from = x, ![k].to = y]
         \/ worker' = [worker EXCEPT ![k].pc = pc, ![k].rounds = x]
  PROVE  Reaches(k, pc)
BY DEF Reaches, Moves, WorkerType

\* The life of a thread: where each of its steps starts and where it may lead.
\* First up to the packet in the temporary file.
LEMMA SpoolingMoves ==
  ASSUME worker \in [Conn -> WorkerType], NEW k \in Conn
  PROVE  LET w == worker[k]
         IN  /\ StartThread(k) =>
                  w.pc = "start" /\ (Reaches(k, "open_tmp") \/ Moves(k, "done", "null", w.out, w.did))
             /\ OpenTmp(k) =>
                  w.pc = "open_tmp" /\ \/ Reaches(k, "read") /\ OpenFor(k, "tmp")
                                       \/ FailsTo(k, "done") /\ UNCHANGED fds
             /\ ReadClient(k) =>
                  w.pc = "read" /\ \/ Reaches(k, "spool") \/ Reaches(k, "close_tmp")
                                   \/ FailsTo(k, "close_tmp")
             /\ SpoolPiece(k) =>
                  w.pc = "spool" /\ (Reaches(k, "close_tmp") \/ FailsTo(k, "close_tmp"))
             /\ CloseTmp(k) =>
                  w.pc = "close_tmp"
                  /\ \/ Reaches(k, "open_out") /\ w.err = "ok"
                     \/ Reaches(k, "done") /\ w.err # "ok"
<1>1. ASSUME StartThread(k)
      PROVE  Reaches(k, "open_tmp") \/ Moves(k, "done", "null", worker[k].out, worker[k].did)
  BY <1>1, GoMoves, UpdateMoves DEF StartThread
<1>2. ReadClient(k) => Reaches(k, "spool") \/ Reaches(k, "close_tmp") \/ FailsTo(k, "close_tmp")
  <2>1. CASE worker' = [worker EXCEPT ![k].pc = "spool", ![k].from = taken[k], ![k].to = sent[k]]
    BY <2>1, CountMoves
  <2>2. CASE worker' = [worker EXCEPT ![k].pc = "close_tmp", ![k].from = taken[k],
                                      ![k].to = taken[k]]
    BY <2>2, CountMoves
  <2>3. QED
    BY <2>1, <2>2, GoMoves DEF ReadClient
<1>3. QED
  BY <1>1, <1>2, GoMoves
     DEF StartThread, OpenTmp, ReadClient, SpoolPiece, LeavesReadLoop, CloseTmp

\* Then the device.
LEMMA DeviceMoves ==
  ASSUME worker \in [Conn -> WorkerType], NEW k \in Conn
  PROVE  LET w == worker[k]
         IN  /\ OpenOut(k) =>
                  w.pc = "open_out"
                  /\ \/ Moves(k, "lock", w.err, "fd", w.did) /\ OpenFor(k, "out")
                     \/ Moves(k, "lock", w.err, "failed", w.did) /\ UNCHANGED fds
             /\ Lock(k) => w.pc = "lock" /\ Reaches(k, "reopen")
             /\ Reopen(k) =>
                  w.pc = "reopen" /\ \/ Reaches(k, "copy") /\ w.out = "fd" /\ UNCHANGED fds
                                     \/ Reaches(k, "copy") /\ w.out # "fd" /\ OpenFor(k, "lent")
                                     \/ FailsTo(k, "done") /\ w.out # "fd" /\ UNCHANGED fds
             /\ CopyPacket(k) => w.pc = "copy" /\ (Reaches(k, "write") \/ FailsTo(k, "done"))
             /\ WriteDevice(k) =>
                  w.pc = "write" /\ \/ Moves(k, "unlock", w.err, w.out, "sought")
                                    \/ Moves(k, "unlock", w.err, w.out, "written")
                                    \/ FailsTo(k, "unlock")
             /\ Unlock(k) =>
                  w.pc = "unlock" /\ \/ Reaches(k, "done") /\ w.err # "ok"
                                     \/ Reaches(k, "read_back") /\ w.err = "ok"
<1>1. OpenOut(k) => \/ Moves(k, "lock", worker[k].err, "fd", worker[k].did) /\ OpenFor(k, "out")
                    \/ Moves(k, "lock", worker[k].err, "failed", worker[k].did) /\ UNCHANGED fds
  BY UpdateMoves DEF OpenOut
<1>2. WriteDevice(k) => \/ Moves(k, "unlock", worker[k].err, worker[k].out, "sought")
                        \/ Moves(k, "unlock", worker[k].err, worker[k].out, "written")
                        \/ FailsTo(k, "unlock")
  BY GoMoves, UpdateMoves DEF WriteDevice
<1>3. QED
  BY <1>1, <1>2, GoMoves
     DEF OpenOut, Lock, Reopen, CopyPacket, WriteDevice, Unlock, Refused

\* Then the answer.
LEMMA AnswerMoves ==
  ASSUME worker \in [Conn -> WorkerType], NEW k \in Conn
  PROVE  LET w == worker[k]
         IN  /\ ReadBack(k) =>
                  w.pc = "read_back" /\ \/ Reaches(k, "send") /\ w.out = "fd"
                                        \/ Reaches(k, "finish") /\ w.out = "fd"
                                        \/ FailsTo(k, "finish")
             /\ SendBack(k) =>
                  w.pc = "send" /\ \/ Reaches(k, "read_back") /\ UNCHANGED <<main, fds>>
                                   \/ FailsTo(k, "finish") /\ UNCHANGED <<main, fds, answered>>
                                   \/ UNCHANGED <<worker, answered>> /\ main' = "killed"
             /\ FinishThread(k) => w.pc = "finish" /\ Reaches(k, "done")
<1>1. ReadBack(k) => \/ Reaches(k, "send") /\ worker[k].out = "fd"
                     \/ Reaches(k, "finish") /\ worker[k].out = "fd"
                     \/ FailsTo(k, "finish")
  <2>1. ASSUME worker' = [worker EXCEPT ![k].pc = "send", ![k].rounds = @ + 1]
        PROVE  Reaches(k, "send")
    BY <2>1, CountMoves
  <2>2. QED
    BY <2>1, GoMoves DEF ReadBack
<1>2. QED
  BY <1>1, GoMoves DEF ReadBack, SendBack, DieOfSignal, FinishThread

\* A thread's step changes the thread's own record, which stays in the life of
\* a thread, and nothing of the connections that wait or were accepted.
LEMMA ThreadEffect ==
  ASSUME SockTypeOK, NEW k \in Conn, Thread(k)
  PROVE  /\ \A j \in Conn \ {k} : worker'[j] = worker[j]
         /\ Live(k) /\ worker'[k].pc # "none"
         /\ UNCHANGED <<cur, quit_sig, backlog, client, sent, served>>
         /\ main' \in {main, "killed"}
<1>1. worker \in [Conn -> WorkerType]
  BY DEF SockTypeOK
<1>2. \A j \in Conn \ {k} : worker'[j] = worker[j]
  BY <1>1, SpoolingMoves, DeviceMoves, AnswerMoves DEF Thread, Reaches, FailsTo, Moves
<1>3. Live(k) /\ worker'[k].pc # "none"
  BY <1>1, SpoolingMoves, DeviceMoves, AnswerMoves DEF Thread, Reaches, FailsTo, Moves, Live
<1>4. UNCHANGED <<cur, quit_sig, backlog, client, sent, served>> /\ main' \in {main, "killed"}
  BY DEF Thread, StartThread, OpenTmp, ReadClient, SpoolPiece, CloseTmp, OpenOut, Lock, Reopen,
         CopyPacket, WriteDevice, Unlock, ReadBack, SendBack, DieOfSignal, FinishThread,
         clientVars, mainVars, histories
<1>5. QED
  BY <1>2, <1>3, <1>4

\* The places of the only thread there is.
LEMMA ThreadIsCur ==
  ASSUME SockTypeOK, OneThread, Running, NEW k \in Conn, Thread(k)
  PROVE  k = cur /\ main = "joining"
BY ThreadEffect DEF OneThread, Running

-----------------------------------------------------------------------------
(* The connections that wait and those that were accepted *)

LEMMA ArrivalsNext ==
  ASSUME SockTypeOK, Arrivals, OneThread, SockNext
  PROVE  Arrivals'
<1> USE DEF clientVars, histories, mainVars
<1>a. backlog \in Seq(Conn) /\ served \in Seq(Conn) /\ Running
  BY DEF SockTypeOK, SockNext
<1>1. CASE Accept
  <2> DEFINE k == Head(backlog)
  <2>1. k = backlog[1] /\ k \in Conn /\ 1 \in DOMAIN backlog
        /\ backlog' = Tail(backlog) /\ Len(backlog') = Len(backlog) - 1
        /\ \A i \in DOMAIN backlog' : i + 1 \in DOMAIN backlog /\ backlog'[i] = backlog[i + 1]
    BY <1>1, <1>a, HeadTailProperties, EmptySeq, LenProperties DEF Accept
  <2>2. served' = Append(served, k) /\ Len(served') = Len(served) + 1
        /\ DOMAIN served' = 1..(Len(served) + 1) /\ DOMAIN served = 1..Len(served)
        /\ Len(served) \in Nat
        /\ \A i \in DOMAIN served : served'[i] = served[i]
        /\ served'[Len(served) + 1] = k
    BY <1>1, <1>a, <2>1, AppendProperties, LenProperties DEF Accept
  <2>3. cur' = k /\ main' = "create" /\ UNCHANGED client
    BY <1>1 DEF Accept
  <2> HIDE DEF k
  <2>4. \A i, j \in DOMAIN backlog' : backlog'[i] = backlog'[j] => i = j
    <3>1. ASSUME NEW i \in DOMAIN backlog', NEW j \in DOMAIN backlog', backlog'[i] = backlog'[j]
          PROVE  i = j
      <4>1. i + 1 = j + 1
        BY <2>1, <3>1 DEF Arrivals
      <4>2. i \in Nat /\ j \in Nat
        BY <1>a, <2>1, HeadTailProperties, EmptySeq, LenProperties, <1>1 DEF Accept
      <4>3. QED
        BY <4>1, <4>2
    <3>2. QED
      BY <3>1
  <2>5. \A i \in DOMAIN backlog' : backlog'[i] # k
    <3>1. ASSUME NEW i \in DOMAIN backlog', backlog'[i] = k
          PROVE  FALSE
      <4>1. i + 1 = 1
        BY <2>1, <3>1 DEF Arrivals
      <4>2. i \in Nat \ {0}
        BY <1>a, <2>1, HeadTailProperties, EmptySeq, LenProperties, <1>1 DEF Accept
      <4>3. QED
        BY <4>1, <4>2
    <3>2. QED
      BY <3>1
  <2>6. \A i \in DOMAIN served : served[i] # k
    BY <2>1 DEF Arrivals
  <2>7. \A i, j \in DOMAIN served' : served'[i] = served'[j] => i = j
    BY <2>2, <2>6 DEF Arrivals
  <2>8. \A i \in DOMAIN backlog', j \in DOMAIN served' : backlog'[i] # served'[j]
    BY <2>1, <2>2, <2>5 DEF Arrivals
  <2>9. /\ \A i \in DOMAIN backlog' : client'[backlog'[i]] # "idle"
        /\ \A i \in DOMAIN served' : client'[served'[i]] # "idle"
    BY <2>1, <2>2, <2>3 DEF Arrivals
  <2>10. served' # <<>> /\ cur' = served'[Len(served')]
    BY <2>2, <2>3, EmptySeq
  <2>11. QED
    BY <2>4, <2>7, <2>8, <2>9, <2>10 DEF Arrivals
<1>2. ASSUME NEW k \in Conn, Connect(k)
      PROVE  Arrivals'
  <2>1. /\ backlog' = Append(backlog, k)
        /\ DOMAIN backlog' = 1..(Len(backlog) + 1) /\ DOMAIN backlog = 1..Len(backlog)
        /\ Len(backlog) \in Nat
        /\ \A i \in DOMAIN backlog : backlog'[i] = backlog[i]
        /\ backlog'[Len(backlog) + 1] = k
    BY <1>2, <1>a, AppendProperties, LenProperties DEF Connect
  <2>2. /\ client[k] = "idle"
        /\ client' = [client EXCEPT ![k] = "connected"]
        /\ UNCHANGED <<main, cur, served>>
    BY <1>2 DEF Connect
  <2>3. /\ \A i \in DOMAIN backlog : backlog[i] # k
        /\ \A i \in DOMAIN served : served[i] # k
    BY <2>2 DEF Arrivals
  <2>4. \A c \in Conn : client'[c] = IF c = k THEN "connected" ELSE client[c]
    BY <2>2 DEF SockTypeOK
  <2>5. /\ \A i \in DOMAIN backlog : backlog[i] \in Conn
        /\ \A i \in DOMAIN served : served[i] \in Conn
    BY <1>a, ElementOfSeq
  <2>6. \A i, j \in DOMAIN backlog' : backlog'[i] = backlog'[j] => i = j
    BY <2>1, <2>3 DEF Arrivals
  <2>7. \A i \in DOMAIN backlog', j \in DOMAIN served' : backlog'[i] # served'[j]
    BY <2>1, <2>2, <2>3 DEF Arrivals
  <2>8. /\ \A i \in DOMAIN backlog' : client'[backlog'[i]] # "idle"
        /\ \A i \in DOMAIN served' : client'[served'[i]] # "idle"
    BY <2>1, <2>2, <2>3, <2>4, <2>5 DEF Arrivals
  <2>9. QED
    BY <2>2, <2>6, <2>7, <2>8 DEF Arrivals
<1>3. ASSUME NEW k \in Conn, HangUp(k)
      PROVE  Arrivals'
  <2>1. client \in [Conn -> {"idle", "connected", "gone"}]
        /\ client' = [client EXCEPT ![k] = "gone"] /\ UNCHANGED <<main, cur, served, backlog>>
    BY <1>3 DEF HangUp, SockTypeOK
  <2>2. \A c \in Conn : client[c] # "idle" => client'[c] # "idle"
    BY <2>1
  <2>3. /\ \A i \in DOMAIN backlog : backlog[i] \in Conn
        /\ \A i \in DOMAIN served : served[i] \in Conn
    BY <1>a, ElementOfSeq
  <2>4. QED
    BY <2>1, <2>2, <2>3 DEF Arrivals
<1>4. ASSUME NEW k \in Conn, Thread(k)
      PROVE  Arrivals'
  <2>1. main' \in {main, "killed"} /\ UNCHANGED <<cur, served, backlog, client>>
    BY <1>4, ThreadEffect
  <2>2. QED
    BY <2>1 DEF Arrivals
<1>5. CASE CheckQuit \/ EnterAccept \/ AcceptFails \/ CreateThread \/ CreateThreadFails
           \/ JoinThread \/ CloseSock
  <2>1. /\ UNCHANGED <<cur, served, backlog, client>>
        /\ main' \in {"create", "joining"} => main = "create"
    BY <1>5 DEF CheckQuit, EnterAccept, AcceptFails, CreateThread, CreateThreadFails,
                JoinThread, DieOfSignal, CloseSock
  <2>2. QED
    BY <2>1 DEF Arrivals
<1>6. CASE SignalMain \/ \E k \in Conn : SignalThread(k) \/ SendPiece(k)
  <2>1. /\ UNCHANGED <<cur, served, backlog, client>>
        /\ main' \in {"create", "joining"} => main' = main
    BY <1>6 DEF SignalMain, SignalThread, SendPiece
  <2>2. QED
    BY <2>1 DEF Arrivals
<1>7. QED
  BY <1>1, <1>2, <1>3, <1>4, <1>5, <1>6 DEF SockNext, Main

-----------------------------------------------------------------------------
(* One thread at a time *)

\* The steps that are not a thread's own: what they do to the threads, and that
\* they leave the lock, the device and the answers alone.
LEMMA OtherMoves ==
  ASSUME SockTypeOK, Arrivals, SockNext, \A k \in Conn : ~Thread(k)
  PROVE  /\ UNCHANGED <<mutex, device, answered>>
         /\ \/ Accept /\ UNCHANGED worker
            \/ /\ main = "create" /\ main' = "joining" /\ UNCHANGED <<cur, served, fds>>
               /\ cur \in Conn /\ Reaches(cur, "start")
            \/ /\ main = "create" /\ main' = "check" /\ UNCHANGED <<cur, served, fds>>
               /\ cur \in Conn
               /\ Moves(cur, worker[cur].pc, "err", worker[cur].out, worker[cur].did)
            \/ /\ UNCHANGED <<main, cur, served, fds>>
               /\ \E k \in Conn : worker[k].pc = "read" /\ FailsTo(k, "close_tmp")
            \/ /\ main = "joining" /\ Joinable(cur) /\ UNCHANGED <<worker, cur, served>>
               /\ \/ main' = "check" /\ UNCHANGED fds
                  \/ main' = "killed"
            \/ main = "closing" /\ main' = "exited" /\ UNCHANGED <<worker, cur, served>>
            \/ UNCHANGED <<worker, cur, served, fds>>
               /\ \/ main' = main
                  \/ main \in {"check", "calling", "accepting"}
                     /\ main' \in {"calling", "accepting", "closing"}
<1> USE DEF clientVars, histories, mainVars
<1>a. worker \in [Conn -> WorkerType]
  BY DEF SockTypeOK
<1>1. CASE CheckQuit \/ EnterAccept \/ AcceptFails \/ SignalMain \/ JoinThread \/ CloseSock \/ Accept
  BY <1>1 DEF CheckQuit, EnterAccept, AcceptFails, SignalMain, JoinThread, DieOfSignal,
              CloseSock, Accept
<1>2. CASE CreateThread
  <2>1. cur \in Conn /\ Reaches(cur, "start")
    BY <1>2, <1>a, CurAccepted, GoMoves DEF CreateThread
  <2>2. QED
    BY <1>2, <2>1 DEF CreateThread
<1>3. CASE CreateThreadFails
  <2>1. cur \in Conn
    BY <1>3, CurAccepted DEF CreateThreadFails
  <2>2. Moves(cur, worker[cur].pc, "err", worker[cur].out, worker[cur].did)
    BY <1>3, <1>a, <2>1, UpdateMoves DEF CreateThreadFails
  <2>3. QED
    BY <1>3, <2>1, <2>2 DEF CreateThreadFails
<1>4. ASSUME NEW k \in Conn, SignalThread(k)
      PROVE  /\ UNCHANGED <<mutex, device, answered, main, cur, served, fds>>
             /\ \/ UNCHANGED worker
                \/ worker[k].pc = "read" /\ FailsTo(k, "close_tmp")
  BY <1>4, <1>a, GoMoves DEF SignalThread
<1>5. ASSUME NEW k \in Conn, Connect(k) \/ SendPiece(k) \/ HangUp(k)
      PROVE  UNCHANGED <<mutex, device, answered, main, cur, served, fds, worker>>
  BY <1>5 DEF Connect, SendPiece, HangUp
<1>6. QED
  BY <1>1, <1>2, <1>3, <1>4, <1>5 DEF SockNext, Main

LEMMA OneThreadNext ==
  ASSUME SockTypeOK, Arrivals, OneThread, SockNext
  PROVE  OneThread'
<1>a. Running
  BY DEF SockNext
<1>1. ASSUME NEW k \in Conn, Thread(k)
      PROVE  OneThread'
  <2>1. k = cur /\ main = "joining"
    BY <1>1, <1>a, ThreadIsCur
  <2>2. /\ \A j \in Conn \ {k} : worker'[j] = worker[j]
        /\ Live(k) /\ UNCHANGED <<cur, served>> /\ main' \in {"joining", "killed"}
    BY <1>1, <2>1, ThreadEffect
  <2>3. QED
    BY <2>1, <2>2 DEF OneThread, Live
<1>2. CASE Accept /\ UNCHANGED worker
  <2>1. backlog \in Seq(Conn) /\ backlog # <<>> /\ served \in Seq(Conn)
    BY <1>2 DEF Accept, SockTypeOK
  <2>2. 1 \in DOMAIN backlog /\ Head(backlog) = backlog[1] /\ backlog[1] \in Conn
    BY <2>1, HeadTailProperties, EmptySeq, LenProperties, ElementOfSeq
  <2>3. /\ main = "accepting" /\ main' = "create" /\ cur' = backlog[1]
        /\ served' = Append(served, cur')
    BY <1>2, <2>2 DEF Accept
  <2>4. \A i \in DOMAIN served : i \in DOMAIN served' /\ served'[i] = served[i]
    BY <2>1, <2>2, <2>3, AppendProperties, LenProperties
  <2>5. \A k \in Conn : ~Live(k)
    BY <2>3 DEF OneThread
  <2>6. \A i \in DOMAIN served : served[i] # cur'
    BY <2>2, <2>3 DEF Arrivals
  <2>7. QED
    BY <1>2, <2>2, <2>3, <2>4, <2>5, <2>6 DEF OneThread, Live
<1>3. CASE main = "create" /\ main' = "joining" /\ UNCHANGED <<cur, served>>
           /\ cur \in Conn /\ Reaches(cur, "start")
  <2>1. \E i \in DOMAIN served : served[i] = cur
    BY <1>3, CurAccepted
  <2>2. QED
    BY <1>3, <2>1 DEF OneThread, Live, Reaches, Moves
<1>4. CASE main = "create" /\ main' = "check" /\ UNCHANGED <<cur, served>> /\ cur \in Conn
           /\ Moves(cur, worker[cur].pc, "err", worker[cur].out, worker[cur].did)
  BY <1>4 DEF OneThread, Live, Moves
<1>5. CASE UNCHANGED <<main, cur, served>>
           /\ \E k \in Conn : worker[k].pc = "read" /\ FailsTo(k, "close_tmp")
  <2>1. PICK k \in Conn : worker[k].pc = "read" /\ FailsTo(k, "close_tmp")
    BY <1>5
  <2>2. k = cur /\ main = "joining"
    BY <2>1, <1>a DEF OneThread, Live, Running
  <2>3. QED
    BY <1>5, <2>1, <2>2 DEF OneThread, Live, FailsTo, Moves
<1>6. CASE main = "joining" /\ Joinable(cur) /\ UNCHANGED <<worker, cur, served>>
           /\ main' \in {"check", "killed"}
  BY <1>6 DEF OneThread, Live, Joinable
<1>7. CASE UNCHANGED <<worker, cur, served>>
           /\ \/ main' = main
              \/ main = "closing" /\ main' = "exited"
              \/ main \in {"check", "calling", "accepting"}
                 /\ main' \in {"calling", "accepting", "closing"}
  BY <1>7 DEF OneThread, Live
<1>8. QED
  BY <1>1, <1>2, <1>3, <1>4, <1>5, <1>6, <1>7, OtherMoves

-----------------------------------------------------------------------------
(* The device, its lock and the answers *)

\* What a thread's step does to what it shares with others.
LEMMA ThreadShares ==
  ASSUME worker \in [Conn -> WorkerType], NEW k \in Conn, Thread(k)
  PROVE  /\ \/ UNCHANGED answered
            \/ worker[k].pc = "send" /\ answered' = answered \cup {k}
         /\ \/ UNCHANGED device
            \/ /\ worker[k].pc = "write"
               /\ Moves(k, "unlock", worker[k].err, worker[k].out, "written")
               /\ device' = Append(device, [conn |-> k, from |-> worker[k].from,
                                            to |-> worker[k].to])
         /\ \/ UNCHANGED mutex
            \/ worker[k].pc = "lock" /\ mutex = Nobody /\ mutex' = k
            \/ worker[k].pc = "unlock" /\ mutex' = Nobody
<1> USE DEF histories
<1>1. CASE WriteDevice(k)
  BY <1>1, UpdateMoves DEF WriteDevice
<1>2. CASE StartThread(k) \/ OpenTmp(k) \/ ReadClient(k) \/ SpoolPiece(k) \/ CloseTmp(k)
           \/ OpenOut(k) \/ Lock(k) \/ Reopen(k)
  BY <1>2 DEF StartThread, OpenTmp, ReadClient, SpoolPiece, CloseTmp, OpenOut, Lock, MutexFree,
              Reopen
<1>3. CASE CopyPacket(k) \/ Unlock(k) \/ ReadBack(k) \/ SendBack(k) \/ FinishThread(k)
  BY <1>3 DEF CopyPacket, Unlock, ReadBack, SendBack, FinishThread
<1>4. QED
  BY <1>1, <1>2, <1>3 DEF Thread

\* Where a step can bring a connection's thread, for any step of the system.
LEMMA StepMoves ==
  ASSUME SockTypeOK, Arrivals, OneThread, SockNext, NEW j \in Conn
  PROVE  /\ \/ worker'[j].pc = worker[j].pc
            \/ <<worker[j].pc, worker'[j].pc>> \in
                 {<<"none", "start">>, <<"start", "open_tmp">>, <<"start", "done">>,
                  <<"open_tmp", "read">>, <<"open_tmp", "done">>, <<"read", "spool">>,
                  <<"read", "close_tmp">>, <<"spool", "close_tmp">>, <<"close_tmp", "open_out">>,
                  <<"close_tmp", "done">>, <<"open_out", "lock">>, <<"lock", "reopen">>,
                  <<"reopen", "copy">>, <<"reopen", "done">>, <<"copy", "write">>,
                  <<"copy", "done">>, <<"write", "unlock">>, <<"unlock", "done">>,
                  <<"unlock", "read_back">>, <<"read_back", "send">>, <<"read_back", "finish">>,
                  <<"send", "read_back">>, <<"send", "finish">>, <<"finish", "done">>}
         /\ worker[j].did # "none" => worker'[j].did # "none"
<1>a. worker \in [Conn -> WorkerType] /\ Running
  BY DEF SockTypeOK, SockNext
<1>1. ASSUME NEW k \in Conn, Thread(k), k # j
      PROVE  worker'[j] = worker[j]
  BY <1>1, ThreadEffect
<1>2. CASE StartThread(j) \/ OpenTmp(j) \/ ReadClient(j) \/ SpoolPiece(j) \/ CloseTmp(j)
  BY <1>2, <1>a, SpoolingMoves DEF Reaches, FailsTo, Moves
<1>3. CASE OpenOut(j) \/ Lock(j) \/ Reopen(j) \/ CopyPacket(j) \/ WriteDevice(j) \/ Unlock(j)
  BY <1>3, <1>a, DeviceMoves DEF Reaches, FailsTo, Moves
<1>4. CASE ReadBack(j) \/ SendBack(j) \/ FinishThread(j)
  BY <1>4, <1>a, AnswerMoves DEF Reaches, FailsTo, Moves
<1>5. CASE \A k \in Conn : ~Thread(k)
  <2>1. \/ UNCHANGED worker
        \/ \E k \in Conn : worker[k].pc = "read" /\ FailsTo(k, "close_tmp")
        \/ /\ main = "create" /\ cur \in Conn
           /\ \/ Reaches(cur, "start")
              \/ Moves(cur, worker[cur].pc, "err", worker[cur].out, worker[cur].did)
    BY <1>5, OtherMoves
  <2>2. main = "create" => worker[cur].pc = "none"
    BY DEF OneThread
  <2>3. QED
    BY <2>1, <2>2 DEF Reaches, FailsTo, Moves
<1>6. QED
  BY <1>1, <1>2, <1>3, <1>4, <1>5 DEF Thread

\* The connections of the packets on the device.
LEMMA DeviceConns ==
  ASSUME SockTypeOK, NEW i \in DOMAIN device
  PROVE  device[i].conn \in Conn
<1> DEFINE Packets == [conn : Conn, from : Nat, to : Nat]
<1>1. device \in Seq(Packets)
  BY DEF SockTypeOK
<1> HIDE DEF Packets
<1>2. device[i] \in Packets
  BY <1>1, ElementOfSeq
<1>3. QED
  BY <1>2 DEF Packets

\* A packet goes to the end of the device.
LEMMA NewPacket ==
  ASSUME SockTypeOK, NEW stored \in [conn : Conn, from : Nat, to : Nat],
         device' = Append(device, stored)
  PROVE  /\ DOMAIN device = 1..Len(device) /\ Len(device) \in Nat
         /\ DOMAIN device' = 1..(Len(device) + 1)
         /\ device'[Len(device) + 1] = stored
         /\ \A i \in DOMAIN device : device'[i] = device[i]
<1> DEFINE Packets == [conn : Conn, from : Nat, to : Nat]
<1>1. device \in Seq(Packets) /\ stored \in Packets
  BY DEF SockTypeOK
<1> HIDE DEF Packets
<1>2. QED
  BY <1>1, AppendProperties, LenProperties

LEMMA WrittenOnceNext ==
  ASSUME SockTypeOK, Arrivals, OneThread, WrittenOnce, SockNext
  PROVE  WrittenOnce'
<1> DEFINE After == {"unlock", "read_back", "send", "finish", "done"}
<1>1. \A j \in Conn : worker[j].pc \in After => worker'[j].pc \in After
  BY StepMoves
<1>2. \A i \in DOMAIN device : device[i].conn \in Conn /\ worker'[device[i].conn].pc \in After
  BY <1>1, DeviceConns DEF WrittenOnce
<1>3. CASE UNCHANGED device
  BY <1>2, <1>3 DEF WrittenOnce
<1>4. ASSUME NEW k \in Conn, Thread(k), device' # device
      PROVE  WrittenOnce'
  <2> DEFINE stored == [conn |-> k, from |-> worker[k].from, to |-> worker[k].to]
  <2>1. worker'[k].pc = "unlock" /\ device' = Append(device, stored)
    BY <1>4, ThreadShares DEF SockTypeOK, Moves
  <2>2. stored.conn = k /\ stored \in [conn : Conn, from : Nat, to : Nat]
    BY DEF SockTypeOK, WorkerType
  <2> HIDE DEF stored
  <2>3. \A i \in DOMAIN device' : \/ i \in DOMAIN device /\ device'[i] = device[i]
                                  \/ device'[i] = stored
    BY <2>1, <2>2, NewPacket
  <2>4. QED
    BY <1>2, <2>1, <2>2, <2>3 DEF WrittenOnce
<1>5. QED
  BY <1>3, <1>4, OtherMoves

LEMMA ServedGrows ==
  ASSUME SockTypeOK, Arrivals, SockNext
  PROVE  /\ DOMAIN served = 1..Len(served) /\ Len(served) \in Nat
         /\ \/ UNCHANGED served
            \/ /\ main = "accepting" /\ served' # <<>>
               /\ DOMAIN served' = 1..(Len(served) + 1)
               /\ \A i \in DOMAIN served : served'[i] = served[i]
<1>1. served \in Seq(Conn)
  BY DEF SockTypeOK
<1>2. CASE Accept
  <2>1. Head(backlog) \in Conn
    BY <1>2, HeadTailProperties DEF Accept, SockTypeOK
  <2>2. main = "accepting" /\ served' = Append(served, Head(backlog))
    BY <1>2 DEF Accept
  <2>3. QED
    BY <1>1, <2>1, <2>2, AppendProperties, LenProperties
<1>3. ASSUME NEW k \in Conn, Thread(k)
      PROVE  UNCHANGED served
  BY <1>3, ThreadEffect
<1>4. QED
  BY <1>1, <1>2, <1>3, OtherMoves, LenProperties

LEMMA DeviceOrderNext ==
  ASSUME SockTypeOK, Arrivals, OneThread, WrittenOnce, DeviceOrder, SockNext
  PROVE  DeviceOrder'
<1>1. \A i \in DOMAIN device : \E a \in DOMAIN served : device[i].conn = served[a]
  BY DeviceConns DEF WrittenOnce, OneThread
<1>2. \A a, b \in DOMAIN served' : served'[a] = served'[b] => a = b
  BY ArrivalsNext DEF Arrivals
<1>3. CASE UNCHANGED device
  <2>1. \A i \in DOMAIN device, a \in DOMAIN served' :
          served'[a] = device[i].conn => a \in DOMAIN served /\ served'[a] = served[a]
    BY <1>1, <1>2, ServedGrows
  <2>2. QED
    BY <1>3, <2>1 DEF DeviceOrder
<1>4. ASSUME NEW k \in Conn, Thread(k), device' # device
      PROVE  DeviceOrder'
  <2> DEFINE stored == [conn |-> k, from |-> worker[k].from, to |-> worker[k].to]
  <2>1. worker[k].pc = "write" /\ device' = Append(device, stored)
    BY <1>4, ThreadShares DEF SockTypeOK
  <2>2. stored.conn = k /\ stored \in [conn : Conn, from : Nat, to : Nat]
    BY DEF SockTypeOK, WorkerType
  <2> HIDE DEF stored
  <2>3. k = cur /\ main = "joining" /\ UNCHANGED served
    BY <1>4, ThreadIsCur, ThreadEffect DEF SockNext
  <2>4. Len(served) \in DOMAIN served /\ served[Len(served)] = k
    BY <2>3, CurAccepted
  <2>5. \A a \in DOMAIN served : served[a] = k => a = Len(served)
    BY <2>4 DEF Arrivals
  <2>6. \A i \in DOMAIN device : device[i].conn # k
    BY <2>1, DeviceConns DEF WrittenOnce
  <2>7. \A i \in DOMAIN device, a \in DOMAIN served : served[a] = device[i].conn => a < Len(served)
    BY <2>4, <2>6, ServedGrows
  <2>8. /\ DOMAIN device = 1..Len(device) /\ Len(device) \in Nat
        /\ DOMAIN device' = 1..(Len(device) + 1)
        /\ device'[Len(device) + 1] = stored
        /\ \A i \in DOMAIN device : device'[i] = device[i]
    BY <2>1, <2>2, NewPacket
  <2>9. QED
    BY <2>2, <2>3, <2>5, <2>7, <2>8 DEF DeviceOrder
<1>5. QED
  BY <1>3, <1>4, OtherMoves

\* The turn of a connection is its place among the accepted ones.
LEMMA TurnIs ==
  ASSUME Arrivals, NEW a \in DOMAIN served, NEW c, served[a] = c
  PROVE  Turn(c) = a
BY DEF Arrivals, Turn

LEMMA DeviceOrderIsAcceptOrder ==
  ASSUME SockTypeOK, Arrivals, OneThread, WrittenOnce, DeviceOrder
  PROVE  DeviceInAcceptOrder
<1>1. \A i \in DOMAIN device : \E a \in DOMAIN served : served[a] = device[i].conn
  BY DeviceConns DEF WrittenOnce, OneThread
<1>2. SUFFICES ASSUME NEW i \in DOMAIN device, NEW j \in DOMAIN device, i < j
               PROVE  Turn(device[i].conn) < Turn(device[j].conn)
  BY DEF DeviceInAcceptOrder
<1>3. PICK a \in DOMAIN served : served[a] = device[i].conn
  BY <1>1
<1>4. PICK b \in DOMAIN served : served[b] = device[j].conn
  BY <1>1
<1>5. a < b
  BY <1>2, <1>3, <1>4 DEF DeviceOrder
<1>6. Turn(device[i].conn) = a /\ Turn(device[j].conn) = b
  BY <1>3, <1>4, TurnIs
<1>7. QED
  BY <1>5, <1>6

-----------------------------------------------------------------------------
(* Answers, the lock and the descriptors *)

LEMMA AnsweredNext ==
  ASSUME SockTypeOK, Arrivals, OneThread, DidBeforeAnswer, AnswerFollowsPacket, SockNext
  PROVE  DidBeforeAnswer' /\ AnswerFollowsPacket'
<1>a. worker \in [Conn -> WorkerType] /\ answered \subseteq Conn
  BY DEF SockTypeOK
<1>1. ASSUME NEW k \in Conn, Thread(k)
      PROVE  DidBeforeAnswer'
  <2>1. \A j \in Conn \ {k} : worker'[j] = worker[j]
    BY <1>1, ThreadEffect
  <2>2. CASE StartThread(k) \/ OpenTmp(k) \/ ReadClient(k) \/ SpoolPiece(k) \/ CloseTmp(k)
    BY <1>a, <2>1, <2>2, SpoolingMoves DEF Reaches, FailsTo, Moves, DidBeforeAnswer
  <2>3. CASE OpenOut(k) \/ Lock(k) \/ Reopen(k) \/ CopyPacket(k) \/ WriteDevice(k) \/ Unlock(k)
    BY <1>a, <2>1, <2>3, DeviceMoves DEF Reaches, FailsTo, Moves, DidBeforeAnswer
  <2>4. CASE ReadBack(k) \/ SendBack(k) \/ FinishThread(k)
    BY <1>a, <2>1, <2>4, AnswerMoves DEF Reaches, FailsTo, Moves, DidBeforeAnswer
  <2>5. QED
    BY <1>1, <2>2, <2>3, <2>4 DEF Thread
<1>2. ASSUME \A k \in Conn : ~Thread(k)
      PROVE  DidBeforeAnswer'
  BY <1>2, OtherMoves DEF Reaches, FailsTo, Moves, DidBeforeAnswer
<1>3. AnswerFollowsPacket'
  <2>1. \A k \in Conn : worker[k].did # "none" => worker'[k].did # "none"
    BY StepMoves
  <2>2. UNCHANGED answered \/ \E k \in Conn : worker[k].pc = "send" /\ answered' = answered \cup {k}
    BY <1>a, ThreadShares, OtherMoves
  <2>3. QED
    BY <1>a, <2>1, <2>2 DEF AnswerFollowsPacket, DidBeforeAnswer
<1>4. QED
  BY <1>1, <1>2, <1>3

LEMMA LockHeldNext ==
  ASSUME SockTypeOK, Arrivals, OneThread, LockHeld, SockNext
  PROVE  LockHeld'
<1>a. worker \in [Conn -> WorkerType] /\ Running
  BY DEF SockTypeOK, SockNext
<1>1. ASSUME NEW k \in Conn, Thread(k)
      PROVE  LockHeld'
  <2>1. \A j \in Conn \ {k} : worker'[j] = worker[j] /\ ~Live(j)
    BY <1>a, <1>1, ThreadEffect, ThreadIsCur DEF OneThread
  <2>2. worker'[k].pc \in {"reopen", "copy", "write", "unlock"} => mutex' = k
    <3>1. CASE Lock(k)
      BY <3>1 DEF Lock
    <3>2. CASE Unlock(k)
      BY <1>a, <3>2, DeviceMoves DEF Reaches, FailsTo, Moves
    <3>3. CASE ~Lock(k) /\ ~Unlock(k)
      <4>1. worker'[k].pc \in {"reopen", "copy", "write", "unlock"} =>
              worker[k].pc \in {"reopen", "copy", "write"}
        BY <1>a, <1>1, <3>3, SpoolingMoves, DeviceMoves, AnswerMoves
           DEF Reaches, FailsTo, Moves, Thread
      <4>2. QED
        BY <1>a, <1>1, <4>1, ThreadShares DEF LockHeld
    <3>4. QED
      BY <3>1, <3>2, <3>3
  <2>3. QED
    BY <2>1, <2>2 DEF LockHeld, Live
<1>2. CASE \A k \in Conn : ~Thread(k)
  BY <1>2, OtherMoves DEF LockHeld, Reaches, FailsTo, Moves
<1>3. QED
  BY <1>1, <1>2

\* A descriptor is opened or closed for k alone.
LEMMA FdsChange ==
  ASSUME SockTypeOK, NEW k \in Conn, NEW what
  PROVE  /\ OpenFor(k, what) => /\ fds'[k] = fds[k] \cup {what}
                                /\ \A j \in Conn \ {k} : fds'[j] = fds[j]
         /\ CloseFor(k, what) => /\ fds'[k] = fds[k] \ what
                                 /\ \A j \in Conn \ {k} : fds'[j] = fds[j]
BY DEF SockTypeOK, OpenFor, CloseFor

LEMMA FdsOfThread ==
  ASSUME SockTypeOK, NEW k \in Conn, Thread(k), FdsOf(k), main' # "killed"
  PROVE  FdsOf(k)' /\ \A j \in Conn \ {k} : fds'[j] = fds[j]
<1>a. worker \in [Conn -> WorkerType]
  BY DEF SockTypeOK
<1> USE FdsChange DEF FdsOf, Reaches, FailsTo, Moves
<1>1. CASE StartThread(k)
  BY <1>1, <1>a, SpoolingMoves DEF StartThread
<1>2. CASE OpenTmp(k)
  BY <1>2, <1>a, SpoolingMoves
<1>3. CASE ReadClient(k)
  BY <1>3, <1>a, SpoolingMoves DEF ReadClient
<1>4. CASE SpoolPiece(k)
  BY <1>4, <1>a, SpoolingMoves DEF SpoolPiece
<1>5. CASE CloseTmp(k)
  BY <1>5, <1>a, SpoolingMoves DEF CloseTmp
<1>6. CASE OpenOut(k)
  <2>1. fds[k] = {"sock"}
    BY <1>6, <1>a, DeviceMoves
  <2>2. \A j \in Conn \ {k} : fds'[j] = fds[j]
    BY <1>6, <1>a, DeviceMoves
  <2>3. /\ worker'[k].pc = "lock"
        /\ \/ worker'[k].out = "fd" /\ fds'[k] = {"sock", "out"}
           \/ worker'[k].out = "failed" /\ fds'[k] = {"sock"}
    BY <1>6, <1>a, <2>1, DeviceMoves
  <2>4. QED
    BY <2>2, <2>3
<1>7. CASE Lock(k)
  BY <1>7, <1>a, DeviceMoves DEF Lock
<1>8. CASE Reopen(k)
  <2>1. fds[k] = IF worker[k].out = "fd" THEN {"sock", "out"} ELSE {"sock"}
    BY <1>8, <1>a, DeviceMoves
  <2>2. \A j \in Conn \ {k} : fds'[j] = fds[j]
    BY <1>8, <1>a, DeviceMoves
  <2>3. \/ /\ worker'[k].pc = "copy" /\ worker'[k].out = worker[k].out
           /\ fds'[k] = IF worker[k].out = "fd" THEN {"sock", "out"} ELSE {"sock", "lent"}
        \/ worker'[k].pc = "done" /\ worker'[k].err = "err" /\ fds'[k] = {"sock"}
    <3>1. CASE Reaches(k, "copy") /\ worker[k].out = "fd" /\ UNCHANGED fds
      BY <3>1, <2>1
    <3>2. CASE Reaches(k, "copy") /\ worker[k].out # "fd" /\ OpenFor(k, "lent")
      BY <3>2, <2>1
    <3>3. CASE FailsTo(k, "done") /\ worker[k].out # "fd" /\ UNCHANGED fds
      BY <3>3, <2>1
    <3>4. QED
      BY <1>8, <1>a, <3>1, <3>2, <3>3, DeviceMoves
  <2>4. QED
    BY <2>2, <2>3
<1>9. CASE CopyPacket(k)
  BY <1>9, <1>a, DeviceMoves DEF CopyPacket
<1>10. CASE WriteDevice(k)
  BY <1>10, <1>a, DeviceMoves DEF WriteDevice
<1>11. CASE Unlock(k)
  BY <1>11, <1>a, DeviceMoves DEF Unlock
<1>12. CASE ReadBack(k)
  BY <1>12, <1>a, AnswerMoves DEF ReadBack
<1>13. CASE SendBack(k)
  BY <1>13, <1>a, AnswerMoves
<1>14. CASE FinishThread(k)
  BY <1>14, <1>a, AnswerMoves DEF FinishThread, ClosedAtEnd
<1>15. QED
  BY <1>1, <1>2, <1>3, <1>4, <1>5, <1>6, <1>7, <1>8, <1>9, <1>10, <1>11, <1>12,
     <1>13, <1>14 DEF Thread

LEMMA FdsNext ==
  ASSUME SockTypeOK, Arrivals, OneThread, FdsByPlace, SockNext
  PROVE  FdsByPlace'
<1>a. Running /\ main # "killed"
  BY DEF SockNext, Running
<1>b. \A k \in Conn : FdsOf(k)
  BY <1>a DEF FdsByPlace
<1>1. ASSUME NEW k \in Conn, Thread(k)
      PROVE  FdsByPlace'
  <2>1. main = "joining" /\ main' \in {main, "killed"}
    BY <1>1, <1>a, ThreadEffect, ThreadIsCur
  <2>2. CASE main' # "killed"
    <3>1. FdsOf(k)' /\ \A j \in Conn \ {k} : fds'[j] = fds[j] /\ worker'[j] = worker[j]
      BY <1>1, <1>b, <2>2, FdsOfThread, ThreadEffect
    <3>2. \A j \in Conn \ {k} : FdsOf(j)'
      BY <1>b, <3>1 DEF FdsOf
    <3>3. QED
      BY <2>1, <2>2, <3>1, <3>2 DEF FdsByPlace
  <2>3. QED
    BY <2>2 DEF FdsByPlace, Running
<1>2. CASE Accept /\ UNCHANGED worker
  <2>1. backlog \in Seq(Conn) /\ backlog # <<>>
    BY <1>2 DEF Accept, SockTypeOK
  <2>2. 1 \in DOMAIN backlog /\ Head(backlog) = backlog[1] /\ backlog[1] \in Conn
    BY <2>1, HeadTailProperties, EmptySeq, LenProperties, ElementOfSeq
  <2>3. main = "accepting" /\ cur' = backlog[1] /\ OpenFor(cur', "sock")
    BY <1>2, <2>2 DEF Accept
  <2>4. worker[cur'].pc = "none" /\ cur' \in Conn
    BY <2>2, <2>3 DEF Arrivals, OneThread
  <2>5. fds'[cur'] = {"sock"} /\ \A j \in Conn \ {cur'} : fds'[j] = fds[j]
    BY <1>b, <2>3, <2>4, FdsChange DEF FdsOf
  <2>6. FdsOf(cur')
    BY <1>b, <2>4
  <2>7. \A k \in Conn : FdsOf(k)'
    BY <1>2, <1>b, <2>4, <2>5 DEF FdsOf
  <2>8. QED
    BY <2>5, <2>7 DEF FdsByPlace
<1>3. CASE main = "create" /\ UNCHANGED <<cur, fds>> /\ main' # "create" /\ cur \in Conn
           /\ \/ Reaches(cur, "start")
              \/ Moves(cur, worker[cur].pc, "err", worker[cur].out, worker[cur].did)
  <2>1. fds[cur] = {"sock"} /\ worker[cur].pc = "none"
    BY <1>a, <1>3 DEF FdsByPlace, OneThread
  <2>2. \A k \in Conn : FdsOf(k)'
    BY <1>b, <1>3, <2>1 DEF FdsOf, Reaches, Moves
  <2>3. QED
    BY <1>3, <2>2 DEF FdsByPlace
<1>4. ASSUME UNCHANGED <<main, cur, fds>>,
             NEW k \in Conn, worker[k].pc = "read", FailsTo(k, "close_tmp")
      PROVE  FdsByPlace'
  <2>1. \A j \in Conn : FdsOf(j)'
    BY <1>b, <1>4 DEF FdsOf, FailsTo, Moves
  <2>2. QED
    BY <1>a, <1>4, <2>1 DEF FdsByPlace
<1>5. CASE UNCHANGED <<worker, cur, fds>> /\ (main' = main \/ main' # "create")
  <2>1. \A j \in Conn : FdsOf(j)'
    BY <1>b, <1>5 DEF FdsOf
  <2>2. QED
    BY <1>a, <1>5, <2>1 DEF FdsByPlace
<1>6. CASE main' \in {"exited", "killed"}
  BY <1>6 DEF FdsByPlace, Running
<1>7. QED
  BY <1>1, <1>2, <1>3, <1>4, <1>5, <1>6, OtherMoves

-----------------------------------------------------------------------------
(* Theorems *)

LEMMA SockInvInit ==
  ASSUME SockInit
  PROVE  SockInv
<1>1. SockTypeOK
  BY TypeInit
<1>2. Arrivals
  BY DEF SockInit, Arrivals
<1>3. OneThread /\ WrittenOnce /\ DeviceOrder
  BY DEF SockInit, OneThread, Live, NoWorker, WrittenOnce, DeviceOrder
<1>4. DidBeforeAnswer /\ AnswerFollowsPacket /\ LockHeld
  BY DEF SockInit, NoWorker, DidBeforeAnswer, AnswerFollowsPacket, LockHeld
<1>5. FdsByPlace
  BY DEF SockInit, NoWorker, FdsByPlace, FdsOf
<1>6. QED
  BY <1>1, <1>2, <1>3, <1>4, <1>5 DEF SockInv

LEMMA SockInvNext ==
  ASSUME SockInv, [SockNext]_sockVars
  PROVE  SockInv'
<1>1. CASE SockNext
  <2>1. SockTypeOK'
    BY <1>1, TypeMain, TypeThread, TypeSignalMain, TypeOthers DEF SockInv, SockNext
  <2>2. Arrivals' /\ OneThread'
    BY <1>1, ArrivalsNext, OneThreadNext DEF SockInv
  <2>3. WrittenOnce' /\ DeviceOrder'
    BY <1>1, WrittenOnceNext, DeviceOrderNext DEF SockInv
  <2>4. DidBeforeAnswer' /\ AnswerFollowsPacket' /\ LockHeld' /\ FdsByPlace'
    BY <1>1, AnsweredNext, LockHeldNext, FdsNext DEF SockInv
  <2>5. QED
    BY <2>1, <2>2, <2>3, <2>4 DEF SockInv
<1>2. CASE UNCHANGED sockVars
  <2> USE DEF SockInv, sockVars
  <2>1. SockTypeOK' /\ Arrivals' /\ OneThread'
    BY <1>2 DEF SockTypeOK, Arrivals, OneThread, Live
  <2>2. WrittenOnce' /\ DeviceOrder' /\ DidBeforeAnswer' /\ AnswerFollowsPacket' /\ LockHeld'
    BY <1>2 DEF WrittenOnce, DeviceOrder, DidBeforeAnswer, AnswerFollowsPacket, LockHeld
  <2>3. FdsByPlace'
    BY <1>2 DEF FdsByPlace, FdsOf, Running
  <2>4. QED
    BY <2>1, <2>2, <2>3
<1>3. QED
  BY <1>1, <1>2

\* The inductive invariant of the server holds in every reachable state.
THEOREM SockInvariant == SockSpec => []SockInv
<1>1. SockInit => SockInv
  BY SockInvInit
<1>2. SockInv /\ [SockNext]_sockVars => SockInv'
  BY SockInvNext
<1>3. QED
  BY <1>1, <1>2, PTL DEF SockSpec

\* Every variable of the server stays in its range.
THEOREM SockTypeCorrect == SockSpec => []SockTypeOK
<1>1. SockInv => SockTypeOK
  BY DEF SockInv
<1>2. QED
  BY <1>1, SockInvariant, PTL

\* Accept and join in one thread put the packets on the device in the order of
\* the connections, at most one each.
THEOREM DeviceOrderCorrect == SockSpec => []DeviceInAcceptOrder
<1>1. SockInv => DeviceInAcceptOrder
  BY DeviceOrderIsAcceptOrder DEF SockInv
<1>2. QED
  BY <1>1, SockInvariant, PTL

\* proc_new_connection sends nothing back before the packet was carried out.
THEOREM AnswersCorrect == SockSpec => []AnswerFollowsPacket
<1>1. SockInv => AnswerFollowsPacket
  BY DEF SockInv
<1>2. QED
  BY <1>1, SockInvariant, PTL

LEMMA TwoAtMost ==
  ASSUME NEW a, NEW b, NEW S \in SUBSET {a, b}
  PROVE  Cardinality(S) <= 2
<1>1. IsFiniteSet({a}) /\ Cardinality({a}) = 1
  BY FS_Singleton
<1>2. {a, b} = {a} \cup {b}
  OBVIOUS
<1>3. IsFiniteSet({a, b}) /\ Cardinality({a, b}) \in {1, 2}
  BY <1>1, <1>2, FS_AddElement
<1>4. Cardinality(S) \in Nat /\ Cardinality(S) <= Cardinality({a, b})
  BY <1>3, FS_Subset, FS_CardinalityType
<1>5. QED
  BY <1>3, <1>4

\* The early returns leak descriptors only after a failure, two at most for a
\* connection, and never the temporary file.
THEOREM LeaksCorrect == SockSpec => []OnlyFailuresLeak
<1>1. SockInv => OnlyFailuresLeak
  <2>1. SUFFICES ASSUME SockInv, Running, NEW k \in Conn, worker[k].pc = "done"
                 PROVE  /\ worker[k].err = "ok" => fds[k] = {}
                        /\ "tmp" \notin fds[k]
                        /\ Cardinality(fds[k]) <= 2
    BY DEF OnlyFailuresLeak
  <2>2. /\ worker[k].err = "ok" => fds[k] = {}
        /\ fds[k] \subseteq {"sock", "out"} \/ fds[k] \subseteq {"sock", "lent"}
    BY <2>1 DEF SockInv, FdsByPlace, FdsOf
  <2>3. Cardinality(fds[k]) <= 2
    BY <2>2, TwoAtMost
  <2>4. QED
    BY <2>2, <2>3
<1>2. QED
  BY <1>1, SockInvariant, PTL

\* After write_to_out_file returned with the mutex held, the mutex is never
\* released and the device never written again.
THEOREM LeakedLockCorrect == SockSpec => LeakedLockStopsDevice
<1>1. SockInv /\ [SockNext]_sockVars =>
        [LockLeaked => mutex' = mutex /\ UNCHANGED device]_sockVars
  <2>1. SUFFICES ASSUME SockInv, SockNext, LockLeaked
                 PROVE  UNCHANGED <<mutex, device>>
    OBVIOUS
  <2>2. worker \in [Conn -> WorkerType] /\ mutex # Nobody /\ worker[mutex].pc = "done"
    BY <2>1 DEF SockInv, SockTypeOK, LockLeaked
  <2>3. ASSUME NEW k \in Conn, Thread(k)
        PROVE  UNCHANGED <<mutex, device>>
    BY <2>1, <2>2, <2>3, ThreadShares DEF SockInv, LockHeld
  <2>4. QED
    BY <2>1, <2>3, OtherMoves DEF SockInv
<1>2. QED
  BY <1>1, SockInvariant, PTL DEF SockSpec, LeakedLockStopsDevice
-----------------------------------------------------------------------------
(* The server that stops without being asked *)

\* What a run without a failure of the environment has done to connection k: its
\* thread has its memory, its device is open unless no descriptor is left, and
\* once it ends it leaves at most its socket open.
FaultlessConn(k) ==
  LET w == worker[k]
  IN  /\ w.err # "null"
      /\ w.pc = "none" => fds[k] = {} \/ (main = "create" /\ k = cur)
      /\ w.pc \in {"open_out", "lock", "reopen", "copy", "write", "unlock"} => w.err = "ok"
      /\ w.pc \in {"lock", "reopen"} => w.out = "fd" \/ ~FdAvailable
      /\ w.pc \in {"copy", "write", "unlock", "read_back", "send", "finish"} => w.out = "fd"
      /\ w.pc = "done" => fds[k] \subseteq {"sock"}

\* Without such a failure accept gives up unasked only for want of a descriptor.
Faultless ==
  faults = 0 /\ Running =>
    /\ \A k \in Conn : FaultlessConn(k)
    /\ main = "closing" /\ quit_sig = 0 => ~FdAvailable

\* The first failure counts; a call that fails before any lacked a descriptor.
LEMMA NoFaultYet ==
  ASSUME faults = 0, faults' = 0
  PROVE  ~Fault /\ (OpenFails => ~FdAvailable)
BY DEF Fault, OpenFails

LEMMA SameFds ==
  ASSUME UNCHANGED fds
  PROVE  FdAvailable' = FdAvailable
BY DEF FdAvailable, OpenFds

LEMMA FaultlessThread ==
  ASSUME SockTypeOK, NEW k \in Conn, Thread(k), FdsOf(k), FaultlessConn(k),
         faults = 0, faults' = 0, main' # "killed"
  PROVE  FaultlessConn(k)'
<1>a. worker \in [Conn -> WorkerType]
  BY DEF SockTypeOK
<1>b. ~Fault /\ (OpenFails => ~FdAvailable)
  BY NoFaultYet
<1>c. UNCHANGED fds => FdAvailable' = FdAvailable
  BY SameFds
<1> USE DEF FaultlessConn, Reaches, FailsTo, Moves
<1>1. CASE StartThread(k)
  <2>1. Reaches(k, "open_tmp")
    BY <1>1, <1>a, <1>b, GoMoves DEF StartThread
  <2>2. QED
    BY <2>1
<1>2. CASE OpenTmp(k)
  <2>1. fds[k] = {"sock"}
    BY <1>2 DEF OpenTmp, FdsOf
  <2>2. QED
    BY <1>2, <1>a, <2>1, SpoolingMoves
<1>3. CASE ReadClient(k) \/ SpoolPiece(k)
  BY <1>3, <1>a, SpoolingMoves
<1>4. CASE CloseTmp(k)
  <2>1. fds'[k] = {"sock"}
    BY <1>4, FdsChange DEF CloseTmp, FdsOf
  <2>2. QED
    BY <1>4, <1>a, <2>1, SpoolingMoves
<1>5. CASE OpenOut(k)
  <2>1. /\ worker'[k].pc = "lock" /\ worker'[k].err = worker[k].err /\ worker[k].err = "ok"
        /\ worker'[k].out = "fd" \/ UNCHANGED fds
    BY <1>5, <1>a, DeviceMoves
  <2>2. worker'[k].out = "fd" \/ ~FdAvailable
    <3>1. CASE worker' = [worker EXCEPT ![k].pc = "lock", ![k].out = "fd"]
      BY <3>1, <1>a, UpdateMoves
    <3>2. QED
      BY <1>5, <1>b, <3>1 DEF OpenOut
  <2>3. QED
    BY <1>c, <2>1, <2>2
<1>6. CASE Lock(k)
  <2>1. UNCHANGED fds /\ worker[k].pc = "lock" /\ Reaches(k, "reopen")
    BY <1>6, <1>a, DeviceMoves DEF Lock
  <2>2. QED
    BY <1>c, <2>1
<1>7. CASE Reopen(k)
  <2>1. CASE worker[k].out = "fd"
    BY <1>7, <1>a, <2>1, DeviceMoves
  <2>2. CASE worker[k].out # "fd"
    <3>1. ~FdAvailable /\ fds[k] = {"sock"}
      BY <1>7, <2>2 DEF Reopen, FdsOf
    <3>2. Fail(k, "done") /\ UNCHANGED fds
      BY <1>7, <2>2, <3>1 DEF Reopen
    <3>3. worker[k].err = "ok" /\ FailsTo(k, "done")
      BY <1>7, <1>a, <3>2, GoMoves DEF Reopen
    <3>4. QED
      BY <3>1, <3>2, <3>3
  <2>3. QED
    BY <2>1, <2>2
<1>8. CASE CopyPacket(k)
  <2>1. worker[k].pc = "copy" /\ Reaches(k, "write")
    BY <1>8, <1>a, <1>b, GoMoves DEF CopyPacket
  <2>2. QED
    BY <2>1
<1>9. CASE WriteDevice(k)
  <2>1. /\ worker[k].pc = "write" /\ worker'[k].pc = "unlock"
        /\ worker'[k].err = worker[k].err /\ worker'[k].out = worker[k].out
    <3>1. worker[k].pc = "write"
          /\ \/ worker' = [worker EXCEPT ![k].pc = "unlock", ![k].did = "sought"]
             \/ worker' = [worker EXCEPT ![k].pc = "unlock", ![k].did = "written"]
      BY <1>9, <1>b DEF WriteDevice
    <3>2. QED
      BY <1>a, <3>1, UpdateMoves
  <2>2. QED
    BY <2>1
<1>10. CASE Unlock(k)
  BY <1>10, <1>a, DeviceMoves
<1>11. CASE ReadBack(k) \/ SendBack(k)
  BY <1>11, <1>a, AnswerMoves
<1>12. CASE FinishThread(k)
  <2>1. worker'[k].pc = "done" /\ worker'[k].err = worker[k].err /\ worker[k].pc = "finish"
    BY <1>12, <1>a, AnswerMoves
  <2>2. fds'[k] \subseteq {"sock"}
    BY <1>12, <2>1, FdsChange DEF FinishThread, ClosedAtEnd, FdsOf
  <2>3. QED
    BY <2>1, <2>2
<1>13. QED
  BY <1>1, <1>2, <1>3, <1>4, <1>5, <1>6, <1>7, <1>8, <1>9, <1>10, <1>11, <1>12 DEF Thread

LEMMA FaultlessNext ==
  ASSUME SockInv, Faultless, SockNext
  PROVE  Faultless'
<1>1. SUFFICES ASSUME faults' = 0, Running'
               PROVE  /\ \A k \in Conn : FaultlessConn(k)'
                      /\ main' = "closing" /\ quit_sig' = 0 => ~FdAvailable'
  BY DEF Faultless
<1>a. /\ worker \in [Conn -> WorkerType] /\ faults \in 0..MaxFaults /\ Running
      /\ SockTypeOK /\ Arrivals /\ OneThread /\ main' \notin {"killed", "exited"}
  BY <1>1 DEF SockInv, SockTypeOK, SockNext, Running
<1>b. faults = 0
  <2>1. faults' = faults \/ faults' = faults + 1
    BY DEF SockNext, Main, CheckQuit, EnterAccept, Accept, AcceptFails, CreateThread,
           CreateThreadFails, JoinThread, CloseSock, SignalMain, Thread, StartThread, OpenTmp,
           ReadClient, SpoolPiece, CloseTmp, OpenOut, Lock, Reopen, CopyPacket, WriteDevice,
           Unlock, ReadBack, SendBack, FinishThread, SignalThread, Connect, SendPiece, HangUp,
           Fault, OpenFails, NoFault
  <2>2. faults \in Nat
    BY <1>a, SocketAssumption
  <2>3. QED
    BY <1>1, <2>1, <2>2
<1>c. /\ \A k \in Conn : FaultlessConn(k) /\ FdsOf(k)
      /\ main = "closing" /\ quit_sig = 0 => ~FdAvailable
  BY <1>a, <1>b DEF Faultless, SockInv, FdsByPlace
<1>d. ~Fault /\ (OpenFails => ~FdAvailable)
  BY <1>1, <1>b, NoFaultYet
<1>e. UNCHANGED fds => FdAvailable' = FdAvailable
  BY SameFds
<1>f. ASSUME NEW k \in Conn, ~Live(k), main # "create" \/ k # cur, worker'[k] = worker[k],
             fds'[k] = fds[k]
      PROVE  FaultlessConn(k)'
  <2>1. worker[k].pc \in {"none", "done"}
    BY <1>f DEF Live
  <2>2. FaultlessConn(k)
    BY <1>c
  <2>3. QED
    BY <1>f, <2>1, <2>2 DEF FaultlessConn
<1>g. ASSUME UNCHANGED <<worker, fds, cur>>, main' = main \/ main # "create"
      PROVE  \A k \in Conn : FaultlessConn(k)'
  BY <1>c, <1>e, <1>g DEF FaultlessConn
<1>2. ASSUME NEW k \in Conn, Thread(k)
      PROVE  (\A j \in Conn : FaultlessConn(j)') /\ main' = "joining"
  <2>1. k = cur /\ main = "joining" /\ main' = "joining"
    BY <1>2, <1>a, ThreadEffect, ThreadIsCur
  <2>2. FaultlessConn(k)'
    BY <1>1, <1>2, <1>a, <1>b, <1>c, FaultlessThread
  <2>3. \A j \in Conn \ {k} : worker'[j] = worker[j] /\ fds'[j] = fds[j] /\ ~Live(j)
    BY <1>2, <1>a, <1>c, <2>1, ThreadEffect, FdsOfThread DEF OneThread
  <2>4. QED
    BY <1>f, <2>1, <2>2, <2>3
<1>3. CASE CheckQuit \/ EnterAccept \/ AcceptFails \/ JoinThread \/ SignalMain
  <2>1. UNCHANGED <<worker, fds, cur>>
    BY <1>3, <1>a DEF CheckQuit, EnterAccept, AcceptFails, JoinThread, DieOfSignal, SignalMain
  <2>2. main' = main \/ main # "create"
    BY <1>3 DEF CheckQuit, EnterAccept, AcceptFails, JoinThread, SignalMain
  <2>3. main' = "closing" /\ quit_sig' = 0 => OpenFails
    BY <1>3 DEF CheckQuit, EnterAccept, AcceptFails, JoinThread, DieOfSignal, SignalMain
  <2>4. QED
    BY <1>d, <1>e, <1>g, <2>1, <2>2, <2>3
<1>4. CASE Accept
  <2> DEFINE k == backlog[1]
  <2>1. backlog \in Seq(Conn) /\ backlog # <<>>
    BY <1>4 DEF Accept, SockInv, SockTypeOK
  <2>2. 1 \in DOMAIN backlog /\ Head(backlog) = k /\ k \in Conn
    BY <2>1, HeadTailProperties, EmptySeq, LenProperties, ElementOfSeq
  <2>3. /\ main = "accepting" /\ main' = "create" /\ cur' = k /\ OpenFor(k, "sock")
        /\ UNCHANGED worker
    BY <1>4, <2>2 DEF Accept
  <2>4. worker[k].pc = "none" /\ \A j \in Conn : ~Live(j)
    BY <1>a, <2>2, <2>3 DEF Arrivals, OneThread
  <2> HIDE DEF k
  <2>5. \A j \in Conn \ {k} : fds'[j] = fds[j]
    BY <1>a, <2>2, <2>3, FdsChange
  <2>6. \A j \in Conn \ {k} : FaultlessConn(j)'
    BY <1>f, <2>3, <2>4, <2>5
  <2>7. \A j \in Conn : j = k => FaultlessConn(j)'
    BY <1>c, <2>2, <2>3, <2>4 DEF FaultlessConn
  <2>8. QED
    BY <2>3, <2>6, <2>7
<1>5. CASE CreateThread
  <2>1. cur \in Conn /\ Reaches(cur, "start") /\ UNCHANGED fds /\ main = "create" /\ main' = "joining"
    BY <1>5, <1>a, CurAccepted, GoMoves DEF CreateThread
  <2>2. \A j \in Conn : j = cur => FaultlessConn(j)'
    BY <1>c, <2>1 DEF FaultlessConn, Reaches, Moves
  <2>3. \A j \in Conn \ {cur} : worker'[j] = worker[j] /\ ~Live(j)
    BY <1>a, <2>1 DEF OneThread, Reaches, Moves
  <2>4. QED
    BY <1>f, <2>1, <2>2, <2>3
<1>6. ASSUME NEW k \in Conn, SignalThread(k)
      PROVE  (\A j \in Conn : FaultlessConn(j)') /\ quit_sig' # 0
  <2>1. UNCHANGED <<main, cur, fds>> /\ quit_sig' = 1
    BY <1>6 DEF SignalThread, mainVars
  <2>2. UNCHANGED worker \/ (worker[k].pc = "read" /\ FailsTo(k, "close_tmp"))
    BY <1>6, <1>a, GoMoves DEF SignalThread
  <2>3. \A j \in Conn : FaultlessConn(j)'
    BY <1>c, <1>e, <2>1, <2>2 DEF FaultlessConn, FailsTo, Moves
  <2>4. QED
    BY <2>1, <2>3
<1>7. ASSUME NEW k \in Conn, Connect(k) \/ SendPiece(k) \/ HangUp(k)
      PROVE  UNCHANGED <<worker, fds, cur, main, quit_sig>>
  BY <1>7 DEF Connect, SendPiece, HangUp, mainVars
<1>8. ~CreateThreadFails /\ ~CloseSock
  BY <1>a, <1>d DEF CreateThreadFails, CloseSock
<1>9. QED
  BY <1>c, <1>e, <1>g, <1>2, <1>3, <1>4, <1>5, <1>6, <1>7, <1>8 DEF SockNext, Main

\* Where accept gave up, each descriptor but the listening socket is one that a
\* failed connection left behind.
LEMMA StoppedByLeaks ==
  ASSUME SockInv, Faultless, main = "closing", quit_sig = 0, faults = 0
  PROVE  Cardinality({k \in Conn : worker[k].err = "err"}) >= MaxFd - 1
<1> DEFINE f == [k \in Conn |-> Cardinality(fds[k])]
           Failed == {k \in Conn : worker[k].err = "err"}
<1>1. Running
  BY DEF Running
<1>2. ASSUME NEW k \in Conn
      PROVE  fds[k] \subseteq {"sock"} /\ (k \notin Failed => fds[k] = {})
  <2>1. worker[k] \in WorkerType /\ ~Live(k)
    BY DEF SockInv, SockTypeOK, OneThread
  <2>2. worker[k].pc \in {"none", "done"} /\ FaultlessConn(k)
    BY <1>1, <2>1 DEF Live, Faultless
  <2>3. worker[k].pc = "done" /\ worker[k].err = "ok" => fds[k] = {}
    BY <1>1 DEF SockInv, FdsByPlace, FdsOf
  <2>4. QED
    BY <2>1, <2>2, <2>3 DEF FaultlessConn, WorkerType
<1>3. \A k \in Conn : Cardinality(fds[k]) \in Int
                      /\ Cardinality(fds[k]) <= IF k \in Failed THEN 1 ELSE 0
  <2>1. Cardinality({}) = 0 /\ Cardinality({"sock"}) = 1
    BY FS_EmptySet, FS_Singleton
  <2>2. \A k \in Conn : fds[k] = {} \/ (fds[k] = {"sock"} /\ k \in Failed)
    BY <1>2
  <2> HIDE DEF Failed
  <2>3. QED
    BY <2>1, <2>2
<1>4. f \in [Conn -> Int] /\ Conn \in SUBSET Conn /\ IsFiniteSet(Conn)
  BY <1>3, SocketAssumption
<1>5. \A k \in Conn : f[k] <= IF k \in Failed THEN 1 ELSE 0
  BY <1>3
<1>6. Conn \cap Failed = Failed /\ Failed \subseteq Conn
  OBVIOUS
<1>7. OpenFds = 1 + SumFunctionOnSet(f, Conn) /\ ~(OpenFds < MaxFd)
  BY <1>1 DEF OpenFds, FdAvailable, Faultless
<1> HIDE DEF f, Failed
<1>8. SumFunctionOnSet(f, Conn) <= Cardinality(Conn \cap Failed)
  BY <1>4, <1>5, SumAtMost
<1>9. SumFunctionOnSet(f, Conn) \in Int /\ Cardinality(Failed) \in Int /\ MaxFd \in Int
  <2>1. IsFiniteSet(Failed)
    BY <1>4, <1>6, FS_Subset
  <2>2. QED
    BY <1>4, <2>1, SumInt, FS_CardinalityType, SocketAssumption
<1>10. Cardinality(Failed) >= MaxFd - 1
  <2> DEFINE sum == SumFunctionOnSet(f, Conn)
             count == Cardinality(Failed)
  <2>1. ~(1 + sum < MaxFd) /\ sum <= count /\ sum \in Int /\ count \in Int
    BY <1>6, <1>7, <1>8, <1>9
  <2> HIDE DEF sum, count
  <2>2. count >= MaxFd - 1
    BY <1>9, <2>1
  <2>3. QED
    BY <2>2 DEF count
<1>11. QED
  BY <1>10 DEF Failed

\* While nothing fails but clients, only what the early returns of
\* proc_new_connection leave open can make accept fail and end main's loop
\* without a signal: after MaxFd - 1 of them.
THEOREM UnaskedStopCorrect == SockSpec => []UnaskedStop
<1>1. SockInit => Faultless
  BY DEF SockInit, NoWorker, Faultless, FaultlessConn
<1>2. SockInv /\ Faultless /\ [SockNext]_sockVars => Faultless'
  <2>1. ASSUME Faultless, UNCHANGED sockVars
        PROVE  Faultless'
    BY <2>1, SameFds DEF sockVars, Faultless, FaultlessConn, Running
  <2>2. QED
    BY <2>1, FaultlessNext
<1>3. SockInv /\ Faultless => UnaskedStop
  BY StoppedByLeaks DEF UnaskedStop
<1>4. QED
  BY <1>1, <1>2, <1>3, SockInvariant, PTL DEF SockSpec

-----------------------------------------------------------------------------
(* The server and the driver *)

\* The buffer's theorems, for the device of the server.  Dev and Drv name the
\* same definitions.
Drv == INSTANCE AesdCircularBufferProofs WITH MaxChunk <- MaxSend, MaxLen <- BufSize

-----------------------------------------------------------------------------
(* The composition is a server *)

\* Every step of the composition is a step of the server.
LEMMA SystemStepIsSockStep ==
  ASSUME [SystemNext]_sysVars
  PROVE  [SockNext]_sockVars
<1>1. CASE SystemNext
  BY <1>1 DEF SystemNext, SockNext, Main, Thread, Elsewhere, EndServer, OpenDevice, UseDevice,
              ReadDevice, CloseDevice, SendReply
<1>2. CASE UNCHANGED sysVars
  BY <1>2 DEF sysVars
<1>3. QED
  BY <1>1, <1>2

\* Computing what the device answers only narrows what the server can meet.
THEOREM SystemImplementsServer == SystemSpec => SockSpec
<1>1. SystemInit => SockInit
  BY DEF SystemInit
<1>2. [SystemNext]_sysVars => [SockNext]_sockVars
  BY SystemStepIsSockStep
<1>3. QED
  BY <1>1, <1>2, PTL DEF SystemSpec, SockSpec

-----------------------------------------------------------------------------
(* What a thread hands to the device *)

\* A thread has read a part of what its client sent.
Parts ==
  \A k \in Conn : /\ taken[k] <= sent[k]
                  /\ worker[k].from <= worker[k].to /\ worker[k].to <= MaxSend

\* Only a read of the socket sets the part.
SamePart(k) == worker'[k].from = worker[k].from /\ worker'[k].to = worker[k].to

LEMMA GoKeepsPart ==
  ASSUME worker \in [Conn -> WorkerType], NEW k, NEW pc, Go(k, pc) \/ Fail(k, pc)
  PROVE  \A j \in Conn : SamePart(j)
BY DEF Go, Fail, SamePart, WorkerType

LEMMA ThreadKeepsPart ==
  ASSUME worker \in [Conn -> WorkerType], NEW k \in Conn, Thread(k), ~ReadClient(k)
  PROVE  \A j \in Conn : SamePart(j)
<1>1. CASE StartThread(k)
  <2>1. CASE worker' = [worker EXCEPT ![k].pc = "done", ![k].err = "null"]
    BY <2>1 DEF SamePart, WorkerType
  <2>2. QED
    BY <1>1, <2>1, GoKeepsPart DEF StartThread
<1>2. CASE OpenTmp(k) \/ SpoolPiece(k) \/ CloseTmp(k) \/ Lock(k) \/ Reopen(k) \/ CopyPacket(k)
  BY <1>2, GoKeepsPart DEF OpenTmp, SpoolPiece, CloseTmp, Lock, Reopen, CopyPacket
<1>3. CASE Unlock(k) \/ FinishThread(k)
  BY <1>3, GoKeepsPart DEF Unlock, FinishThread
<1>4. CASE OpenOut(k)
  BY <1>4 DEF OpenOut, SamePart, WorkerType
<1>5. CASE WriteDevice(k)
  <2>1. \/ \E did : worker' = [worker EXCEPT ![k].pc = "unlock", ![k].did = did]
        \/ Fail(k, "unlock")
    BY <1>5 DEF WriteDevice
  <2>2. CASE \E did : worker' = [worker EXCEPT ![k].pc = "unlock", ![k].did = did]
    BY <2>2 DEF SamePart, WorkerType
  <2>3. QED
    BY <2>1, <2>2, GoKeepsPart
<1>6. CASE ReadBack(k)
  <2>1. \/ worker' = [worker EXCEPT ![k].pc = "send", ![k].rounds = @ + 1]
        \/ Go(k, "finish") \/ Fail(k, "finish")
    BY <1>6 DEF ReadBack
  <2>2. CASE worker' = [worker EXCEPT ![k].pc = "send", ![k].rounds = @ + 1]
    BY <2>2 DEF SamePart, WorkerType
  <2>3. QED
    BY <2>1, <2>2, GoKeepsPart
<1>7. CASE SendBack(k)
  <2>1. CASE UNCHANGED worker
    BY <2>1 DEF SamePart
  <2>2. QED
    BY <1>7, <2>1, GoKeepsPart DEF SendBack
<1>8. QED
  BY <1>1, <1>2, <1>3, <1>4, <1>5, <1>6, <1>7 DEF Thread

LEMMA PartsNext ==
  ASSUME SockTypeOK, Parts, [SockNext]_sockVars
  PROVE  Parts'
<1>a. /\ worker \in [Conn -> WorkerType]
      /\ sent \in [Conn -> 0..MaxSend] /\ taken \in [Conn -> 0..MaxSend] /\ MaxSend \in Nat
  BY SocketAssumption DEF SockTypeOK
<1>1. CASE UNCHANGED sockVars
  BY <1>1 DEF sockVars, Parts
<1>2. ASSUME NEW k \in Conn, ReadClient(k)
      PROVE  Parts'
  <2>1. sent' = sent /\ taken[k] <= sent[k]
    BY <1>2 DEF ReadClient, clientVars, Parts
  <2>2. CASE /\ taken[k] < sent[k]
             /\ taken' = [taken EXCEPT ![k] = sent[k]]
             /\ worker' = [worker EXCEPT ![k].pc = "spool", ![k].from = taken[k], ![k].to = sent[k]]
    BY <1>a, <2>1, <2>2 DEF Parts, WorkerType
  <2>3. CASE /\ taken' = taken
             /\ worker' = [worker EXCEPT ![k].pc = "close_tmp", ![k].from = taken[k],
                                         ![k].to = taken[k]]
    BY <1>a, <2>1, <2>3 DEF Parts, WorkerType
  <2>4. CASE Fail(k, "close_tmp") /\ taken' = taken
    BY <1>a, <2>1, <2>4, GoKeepsPart DEF Parts, SamePart
  <2>5. QED
    BY <1>2, <2>2, <2>3, <2>4 DEF ReadClient
<1>3. ASSUME NEW k \in Conn, Thread(k), ~ReadClient(k)
      PROVE  Parts'
  <2>1. taken' = taken /\ sent' = sent
    BY <1>3 DEF Thread, StartThread, OpenTmp, SpoolPiece, CloseTmp, OpenOut, Lock, Reopen, CopyPacket,
                WriteDevice, Unlock, ReadBack, SendBack, FinishThread, clientVars
  <2>2. QED
    BY <1>a, <1>3, <2>1, ThreadKeepsPart DEF Parts, SamePart
<1>4. CASE Main \/ SignalMain
  <2>1. taken' = taken /\ sent' = sent
    BY <1>4 DEF Main, CheckQuit, EnterAccept, Accept, AcceptFails, CreateThread, CreateThreadFails,
                JoinThread, CloseSock, SignalMain, clientVars
  <2>2. \A j \in Conn : SamePart(j)
    <3>1. CASE CreateThread
      BY <1>a, <3>1, GoKeepsPart DEF CreateThread
    <3>2. CASE CreateThreadFails
      BY <1>a, <3>2 DEF CreateThreadFails, SamePart, WorkerType
    <3>3. QED
      BY <1>4, <3>1, <3>2 DEF Main, CheckQuit, EnterAccept, Accept, AcceptFails, JoinThread,
                              CloseSock, SignalMain, SamePart
  <2>3. QED
    BY <2>1, <2>2 DEF Parts, SamePart
<1>5. ASSUME NEW k \in Conn, SignalThread(k) \/ Connect(k) \/ HangUp(k)
      PROVE  Parts'
  <2>1. taken' = taken /\ sent' = sent
    BY <1>5 DEF SignalThread, Connect, HangUp, clientVars
  <2>2. \A j \in Conn : SamePart(j)
    BY <1>a, <1>5, GoKeepsPart DEF SignalThread, Connect, HangUp, SamePart
  <2>3. QED
    BY <2>1, <2>2 DEF Parts, SamePart
<1>6. ASSUME NEW k \in Conn, SendPiece(k)
      PROVE  Parts'
  BY <1>a, <1>6 DEF SendPiece, Parts
<1>7. QED
  BY <1>1, <1>2, <1>3, <1>4, <1>5, <1>6 DEF SockNext

-----------------------------------------------------------------------------
(* The device under the server *)

\* The two instances of the driver's modules have the same buffer operations.
LEMMA SameAdd ==
  ASSUME NEW n, Dev!aesd_circular_buffer_add_entry(n)
  PROVE  Drv!aesd_circular_buffer_add_entry(n)
BY Zenon DEF Dev!aesd_circular_buffer_add_entry, Drv!aesd_circular_buffer_add_entry,
             Dev!AddPartial, Drv!AddPartial, Dev!AddLine, Drv!AddLine,
             Dev!Extended, Drv!Extended, Dev!Carried, Drv!Carried, Dev!Garbage, Drv!Garbage,
             Dev!Bytes, Drv!Bytes, Dev!TargetSlot, Drv!TargetSlot, Dev!Slot, Drv!Slot,
             Dev!WindowFull, Drv!WindowFull, Dev!EvictedSize, Drv!EvictedSize,
             Dev!Uint32, Drv!Uint32, Dev!WrapOffs, Drv!WrapOffs,
             Dev!aesd_init_entry, Drv!aesd_init_entry, Dev!Committed, Drv!Committed

LEMMA SameRaed ==
  ASSUME NEW pos, NEW len, Dev!aesd_circular_buffer_raed(pos, len)
  PROVE  Drv!aesd_circular_buffer_raed(pos, len)
BY Zenon DEF Dev!aesd_circular_buffer_raed, Drv!aesd_circular_buffer_raed,
             Dev!ReadStart, Drv!ReadStart, Dev!FindIndex, Drv!FindIndex,
             Dev!SearchStop, Drv!SearchStop, Dev!SearchEnds, Drv!SearchEnds,
             Dev!SearchHits, Drv!SearchHits, Dev!PhysicalPrefix, Drv!PhysicalPrefix,
             Dev!Uint32, Drv!Uint32, Dev!Slots, Drv!Slots, Dev!Min, Drv!Min,
             Dev!MapThenSumSet, Drv!MapThenSumSet, Dev!MapThenFoldSet, Drv!MapThenFoldSet,
             Dev!SumFunctionOnSet, Drv!SumFunctionOnSet,
             Dev!FoldFunctionOnSet, Drv!FoldFunctionOnSet,
             Dev!Consumed, Drv!Consumed, Dev!Span, Drv!Span, Dev!Slot, Drv!Slot,
             Dev!ReadFails, Drv!ReadFails, Dev!InWindow, Drv!InWindow,
             Dev!LeavesArray, Drv!LeavesArray, Dev!OutOffsAfter, Drv!OutOffsAfter,
             Dev!WrapOffs, Drv!WrapOffs, Dev!U8, Drv!U8, Dev!Cardinality, Drv!Cardinality

\* The files of the device that the connections have open.
Files == opened \subseteq Conn /\ f_pos \in [Conn -> Positions]

\* What a step does to the device: one operation of the buffer, or nothing, and
\* the file positions stay in their bound.
DeviceSteps == [Drv!Next]_(Drv!vars) /\ Files'

LEMMA CallSteps ==
  ASSUME Files, NEW k \in Conn,
         \/ Dev!aesd_open(k) \/ Dev!aesd_release(k)
         \/ \E n \in 1..MaxSend : Dev!aesd_write(k, n)
         \/ Dev!aesd_read(k, BufSize)
         \/ \E cmd, ofs : Dev!aesd_unlocked_ioctl(k, cmd, ofs)
  PROVE  DeviceSteps
<1>0. BufSize \in 1..BufSize /\ 0 \in Positions
  BY SystemAssumption
<1>1. CASE Dev!aesd_open(k)
  BY <1>0, <1>1 DEF Dev!aesd_open, Dev!vars, Drv!vars, DeviceSteps, Files
<1>2. CASE Dev!aesd_release(k)
  BY <1>0, <1>2 DEF Dev!aesd_release, Dev!vars, Drv!vars, DeviceSteps, Files
<1>3. CASE \E n \in 1..MaxSend : Dev!aesd_write(k, n)
  <2>1. PICK n \in 1..MaxSend : Dev!aesd_write(k, n)
    BY <1>3
  <2>2. Drv!aesd_circular_buffer_add_entry(n)
    BY <2>1, SameAdd DEF Dev!aesd_write
  <2>3. Drv!Next
    BY <2>2 DEF Drv!Next
  <2>4. QED
    BY <2>1, <2>3 DEF Dev!aesd_write, DeviceSteps, Files
<1>4. CASE Dev!aesd_read(k, BufSize)
  <2>1. Drv!aesd_circular_buffer_raed(f_pos[k], BufSize)
    BY <1>4, SameRaed DEF Dev!aesd_read
  <2>2. f_pos[k] \in Positions
    BY DEF Files
  <2>3. Drv!Next
    BY <1>0, <2>1, <2>2 DEF Drv!Next
  <2>4. QED
    BY <1>4, <2>3 DEF Dev!aesd_read, Dev!MoveTo, DeviceSteps, Files
<1>5. CASE \E cmd, ofs : Dev!aesd_unlocked_ioctl(k, cmd, ofs)
  BY <1>5 DEF Dev!aesd_unlocked_ioctl, Dev!MoveTo, Dev!vars, Drv!vars, DeviceSteps, Files
<1>6. QED
  BY <1>1, <1>2, <1>3, <1>4, <1>5

LEMMA QuietSteps ==
  ASSUME Files, DeviceAlone \/ ReleaseAll
  PROVE  DeviceSteps
BY SystemAssumption DEF DeviceAlone, ReleaseAll, bufVars, Drv!vars, DeviceSteps, Files

\* The server uses the device only through the calls of the driver, and hands a
\* write 1 to MaxSend bytes.
LEMMA SystemStepsDevice ==
  ASSUME SockTypeOK, Parts, Files, [SystemNext]_sysVars
  PROVE  DeviceSteps
<1>1. ASSUME NEW k \in Conn, OpenDevice(k)
      PROVE  DeviceSteps
  BY <1>1, CallSteps, QuietSteps DEF OpenDevice
<1>2. ASSUME NEW k \in Conn, UseDevice(k)
      PROVE  DeviceSteps
  <2>1. CASE WriteText(k)
    <3>1. worker[k].from \in Nat /\ worker[k].to \in Nat /\ MaxSend \in Nat
      BY SocketAssumption DEF SockTypeOK, WorkerType
    <3>2. worker[k].from <= worker[k].to /\ worker[k].to <= MaxSend
      BY DEF Parts
    <3>3. worker[k].to - worker[k].from \in {0} \cup 1..MaxSend
      BY <3>1, <3>2
    <3>4. QED
      BY <2>1, <3>3, CallSteps, QuietSteps DEF WriteText
  <2>2. CASE Seek(k)
    BY <2>2, CallSteps DEF Seek
  <2>3. CASE DeviceAlone
    BY <2>3, QuietSteps
  <2>4. QED
    BY <1>2, <2>1, <2>2, <2>3 DEF UseDevice
<1>3. ASSUME NEW k \in Conn, ReadDevice(k)
      PROVE  DeviceSteps
  BY <1>3, CallSteps, QuietSteps DEF ReadDevice
<1>4. ASSUME NEW k \in Conn, CloseDevice(k)
      PROVE  DeviceSteps
  BY <1>4, CallSteps, QuietSteps DEF CloseDevice
<1>5. ASSUME NEW k \in Conn, SendReply(k)
      PROVE  DeviceSteps
  BY <1>5, QuietSteps DEF SendReply
<1>6. CASE Elsewhere \/ EndServer
  BY <1>6, QuietSteps DEF Elsewhere, EndServer
<1>7. CASE UNCHANGED sysVars
  BY <1>7, QuietSteps DEF sysVars, DeviceAlone
<1>8. QED
  BY <1>1, <1>2, <1>3, <1>4, <1>5, <1>6, <1>7 DEF SystemNext

-----------------------------------------------------------------------------
(* The invariant of the composition *)

\* The files of the device that are open are the descriptors of the connections
\* that stand for it.
HoldsDevice(k) == "out" \in fds[k] \/ "lent" \in fds[k]
FilesAreDescriptors == \A k \in Conn : k \in opened <=> HoldsDevice(k)

SystemInv == SockInv /\ Parts /\ Drv!IInv /\ Files /\ FilesAreDescriptors

\* A connection that closes its file has no second one.
LEMMA OneFile ==
  ASSUME FdsByPlace, Running, NEW k \in Conn, worker[k].pc = "finish"
  PROVE  ~("out" \in fds[k] /\ "lent" \in fds[k])
BY DEF FdsByPlace, FdsOf

LEMMA FilesNext ==
  ASSUME SockTypeOK, FdsByPlace, FilesAreDescriptors, [SystemNext]_sysVars
  PROVE  FilesAreDescriptors'
<1>a. fds \in [Conn -> SUBSET {"sock", "tmp", "out", "lent"}]
  BY DEF SockTypeOK
<1>1. ASSUME NEW k \in Conn, OpenDevice(k)
      PROVE  FilesAreDescriptors'
  <2>1. \/ fds' = [fds EXCEPT ![k] = @ \cup {"out"}]
        \/ fds' = [fds EXCEPT ![k] = @ \cup {"lent"}]
        \/ fds' = fds
    BY <1>1 DEF OpenDevice, OpenOut, Reopen, OpenFor
  <2>2. CASE fds' = fds
    BY <1>1, <2>2 DEF OpenDevice, DeviceAlone, FilesAreDescriptors, HoldsDevice
  <2>3. CASE fds' # fds
    <3>1. fds'[k] # fds[k]
      BY <1>a, <2>1, <2>3
    <3>2. opened' = opened \cup {k}
      BY <1>1, <3>1 DEF OpenDevice, Dev!aesd_open
    <3>3. HoldsDevice(k)' /\ \A j \in Conn \ {k} : HoldsDevice(j)' <=> HoldsDevice(j)
      BY <1>a, <2>1, <2>3 DEF HoldsDevice
    <3>4. QED
      BY <3>2, <3>3 DEF FilesAreDescriptors
  <2>4. QED
    BY <2>2, <2>3
<1>2. ASSUME NEW k \in Conn, UseDevice(k) \/ ReadDevice(k)
      PROVE  FilesAreDescriptors'
  <2>1. fds' = fds
    BY <1>2 DEF UseDevice, ReadDevice, WriteDevice, ReadBack
  <2>2. opened' = opened
    <3>1. CASE WriteText(k)
      BY <3>1 DEF WriteText, DeviceAlone, Dev!aesd_write
    <3>2. CASE Seek(k)
      BY <3>2 DEF Seek, Dev!aesd_unlocked_ioctl
    <3>3. CASE DeviceAlone
      BY <3>3 DEF DeviceAlone
    <3>4. CASE ReadDevice(k)
      BY <3>4 DEF ReadDevice, DeviceAlone, Dev!aesd_read
    <3>5. QED
      BY <1>2, <3>1, <3>2, <3>3, <3>4 DEF UseDevice
  <2>3. QED
    BY <2>1, <2>2 DEF FilesAreDescriptors, HoldsDevice
<1>3. ASSUME NEW k \in Conn, Running, CloseDevice(k)
      PROVE  FilesAreDescriptors'
  <2>1. fds' = [fds EXCEPT ![k] = @ \ {"out", "sock"}] /\ worker[k].pc = "finish"
    BY <1>3 DEF CloseDevice, FinishThread, CloseFor, ClosedAtEnd
  <2>2. \A j \in Conn \ {k} : HoldsDevice(j)' <=> HoldsDevice(j)
    BY <1>a, <2>1 DEF HoldsDevice
  <2>3. HoldsDevice(k)' <=> HoldsDevice(k) /\ "out" \notin fds[k]
    BY <1>a, <1>3, <2>1, OneFile DEF HoldsDevice
  <2>4. opened' = IF "out" \in fds[k] THEN opened \ {k} ELSE opened
    BY <1>3 DEF CloseDevice, Dev!aesd_release, DeviceAlone
  <2>5. QED
    BY <2>2, <2>3, <2>4 DEF FilesAreDescriptors, HoldsDevice
<1>4. ASSUME NEW k \in Conn, Running, SendReply(k)
      PROVE  FilesAreDescriptors'
  <2>1. CASE main' = "killed"
    <3>1. fds' = [c \in Conn |-> {}]
      BY <1>4, <2>1 DEF SendReply, SendBack, DieOfSignal, Running
    <3>2. opened' = {}
      BY <1>4, <2>1 DEF SendReply, ReleaseAll
    <3>3. QED
      BY <3>1, <3>2 DEF FilesAreDescriptors, HoldsDevice
  <2>2. CASE main' # "killed"
    <3>1. fds' = fds /\ opened' = opened
      BY <1>4, <2>2 DEF SendReply, SendBack, DieOfSignal, DeviceAlone
    <3>2. QED
      BY <3>1 DEF FilesAreDescriptors, HoldsDevice
  <2>3. QED
    BY <2>1, <2>2
<1>5. CASE EndServer
  <2>1. fds' = [c \in Conn |-> {}] /\ opened' = {}
    BY <1>5 DEF EndServer, CloseSock, JoinThread, DieOfSignal, ReleaseAll
  <2>2. QED
    BY <2>1 DEF FilesAreDescriptors, HoldsDevice
<1>6. CASE Elsewhere
  <2>1. opened' = opened
    BY <1>6 DEF Elsewhere, DeviceAlone
  <2>2. \/ fds' = fds
        \/ \E k \in Conn : \/ fds' = [fds EXCEPT ![k] = @ \cup {"sock"}]
                           \/ fds' = [fds EXCEPT ![k] = @ \cup {"tmp"}]
                           \/ fds' = [fds EXCEPT ![k] = @ \ {"tmp"}]
        \/ fds' = [fds EXCEPT ![cur'] = @ \cup {"sock"}]
    BY <1>6 DEF Elsewhere, CheckQuit, EnterAccept, Accept, AcceptFails, CreateThread,
                CreateThreadFails, JoinThread, DieOfSignal, SignalMain, StartThread, OpenTmp, ReadClient,
                SpoolPiece, CloseTmp, Lock, CopyPacket, Unlock, SignalThread, Connect, SendPiece,
                HangUp, OpenFor, CloseFor
  <2>3. \A j \in Conn : HoldsDevice(j)' <=> HoldsDevice(j)
    BY <1>a, <2>2 DEF HoldsDevice
  <2>4. QED
    BY <2>1, <2>3 DEF FilesAreDescriptors
<1>7. CASE UNCHANGED sysVars
  BY <1>7 DEF sysVars, sockVars, FilesAreDescriptors, HoldsDevice
<1>8. QED
  BY <1>1, <1>2, <1>3, <1>4, <1>5, <1>6, <1>7 DEF SystemNext

LEMMA SystemInvInit ==
  ASSUME SystemInit
  PROVE  SystemInv
<1>1. SockInv
  BY SockInvInit DEF SystemInit
<1>2. Parts
  BY SocketAssumption DEF SystemInit, SockInit, NoWorker, Parts
<1>3. Drv!Init
  BY Zenon DEF SystemInit, Dev!DevInit, Dev!Init, Drv!Init, Dev!Slots, Drv!Slots,
               Dev!aesd_init_entry, Drv!aesd_init_entry, Dev!NullEntry, Drv!NullEntry
<1>4. Drv!IInv
  BY <1>3, SystemAssumption, SocketAssumption, Drv!InvInit
<1>5. Files
  BY SystemAssumption DEF SystemInit, Dev!DevInit, Files
<1>6. FilesAreDescriptors
  BY DEF SystemInit, Dev!DevInit, SockInit, FilesAreDescriptors, HoldsDevice
<1>7. QED
  BY <1>1, <1>2, <1>4, <1>5, <1>6 DEF SystemInv

LEMMA SystemInvNext ==
  ASSUME SystemInv, [SystemNext]_sysVars
  PROVE  SystemInv'
<1>1. SockInv' /\ Parts'
  BY SystemStepIsSockStep, SockInvNext, PartsNext DEF SystemInv, SockInv
<1>2. DeviceSteps
  BY SystemStepsDevice DEF SystemInv, SockInv
<1>3. Drv!IInv'
  BY <1>2, SystemAssumption, SocketAssumption, Drv!InvNext DEF SystemInv, DeviceSteps
<1>4. FilesAreDescriptors'
  BY FilesNext DEF SystemInv, SockInv
<1>5. QED
  BY <1>1, <1>2, <1>3, <1>4 DEF SystemInv, DeviceSteps

THEOREM SystemInvariant == SystemSpec => []SystemInv
<1>1. SystemInit => SystemInv
  BY SystemInvInit
<1>2. SystemInv /\ [SystemNext]_sysVars => SystemInv'
  BY SystemInvNext
<1>3. QED
  BY <1>1, <1>2, PTL DEF SystemSpec

-----------------------------------------------------------------------------
(* Cut packets *)

\* Until its write a thread has done nothing with its packet.
Undone ==
  \A k \in Conn :
    worker[k].pc \notin {"unlock", "read_back", "send", "finish", "done"} => worker[k].did = "none"

LEMMA UndoneNext ==
  ASSUME SockTypeOK, Arrivals, OneThread, Undone, [SockNext]_sockVars
  PROVE  Undone'
<1>a. worker \in [Conn -> WorkerType]
  BY DEF SockTypeOK
<1>1. ASSUME NEW k \in Conn, Thread(k)
      PROVE  Undone'
  <2>1. \A j \in Conn \ {k} : worker'[j] = worker[j]
    BY <1>1, ThreadEffect
  <2>2. CASE StartThread(k) \/ OpenTmp(k) \/ ReadClient(k) \/ SpoolPiece(k) \/ CloseTmp(k)
    BY <1>a, <2>1, <2>2, SpoolingMoves DEF Reaches, FailsTo, Moves, Undone
  <2>3. CASE OpenOut(k) \/ Lock(k) \/ Reopen(k) \/ CopyPacket(k) \/ WriteDevice(k) \/ Unlock(k)
    BY <1>a, <2>1, <2>3, DeviceMoves DEF Reaches, FailsTo, Moves, Undone
  <2>4. CASE ReadBack(k) \/ SendBack(k) \/ FinishThread(k)
    BY <1>a, <2>1, <2>4, AnswerMoves DEF Reaches, FailsTo, Moves, Undone
  <2>5. QED
    BY <1>1, <2>2, <2>3, <2>4 DEF Thread
<1>2. CASE SockNext /\ \A k \in Conn : ~Thread(k)
  BY <1>2, OtherMoves DEF OneThread, Reaches, FailsTo, Moves, Undone
<1>3. CASE UNCHANGED sockVars
  BY <1>3 DEF sockVars, Undone
<1>4. QED
  BY <1>1, <1>2, <1>3

\* A step of the composition that changes the text: a thread writes the part of
\* its packet that it read, which ends a line if it has the newline.
WritesPart(k) ==
  LET n == worker[k].to - worker[k].from
  IN  /\ n > 0
      /\ device' = Append(device, [conn |-> k, from |-> worker[k].from, to |-> worker[k].to])
      /\ accepted' = accepted + n
      /\ \/ worker[k].to # MaxSend /\ log' = log
         \/ worker[k].to = MaxSend /\ \E line : line.to = accepted + n /\ log' = Append(log, line)

LEMMA SystemWrites ==
  ASSUME SockTypeOK, Parts, Undone, Drv!TypeOK, [SystemNext]_sysVars
  PROVE  UNCHANGED <<device, accepted, log>> \/ \E k \in Conn : WritesPart(k)
<1> USE DEF histories, clientVars, mainVars
<1>1. ASSUME NEW k \in Conn, WriteDevice(k), worker'[k].did = "written", WriteText(k)
      PROVE  UNCHANGED <<device, accepted, log>> \/ WritesPart(k)
  <2> DEFINE n == worker[k].to - worker[k].from
             part == [conn |-> k, from |-> worker[k].from, to |-> worker[k].to]
  <2>1. /\ worker[k].from \in Nat /\ worker[k].to \in Nat /\ worker[k].from <= worker[k].to
        /\ worker \in [Conn -> WorkerType]
    BY DEF SockTypeOK, WorkerType, Parts
  <2>2. worker[k].did = "none"
    BY <1>1 DEF WriteDevice, Undone
  <2>3. device' = IF worker[k].from < worker[k].to THEN Append(device, part) ELSE device
    <3>1. CASE worker' = [worker EXCEPT ![k].pc = "unlock", ![k].did = "sought"]
      BY <1>1, <2>1, <3>1 DEF WorkerType
    <3>2. CASE Fail(k, "unlock")
      BY <1>1, <2>1, <2>2, <3>2 DEF Fail, WorkerType
    <3>3. QED
      BY <1>1, <3>1, <3>2 DEF WriteDevice
  <2>4. CASE n = 0
    BY <1>1, <2>1, <2>3, <2>4 DEF WriteText, DeviceAlone, bufVars
  <2>5. CASE n # 0
    <3>1. n > 0 /\ worker[k].from < worker[k].to
      BY <2>1, <2>5
    <3>2. (Dev!AddPartial(n) \/ Dev!AddLine(n)) /\ ((log' # log) <=> (worker[k].to = MaxSend))
      BY <1>1, <2>5 DEF WriteText, Dev!aesd_write, Dev!aesd_circular_buffer_add_entry
    <3>3. device' = Append(device, part)
      BY <2>3, <3>1
    <3> HIDE DEF n, part
    <3>4. CASE Dev!AddPartial(n)
      <4>1. accepted' = accepted + n /\ log' = log
        BY <3>4 DEF Dev!AddPartial
      <4>2. QED
        BY <3>1, <3>2, <3>3, <4>1 DEF WritesPart, n, part
    <3>5. CASE Dev!AddLine(n)
      <4> DEFINE line == [from |-> Dev!Committed, to |-> accepted + n]
      <4>1. accepted' = accepted + n /\ log' = Append(log, line) /\ line.to = accepted + n
        BY <3>5 DEF Dev!AddLine
      <4> HIDE DEF line
      <4>2. log' # log
        <5>1. Len(log') = Len(log) + 1 /\ Len(log) \in Nat
          BY <4>1 DEF Drv!TypeOK
        <5>2. QED
          BY <5>1
      <4>3. QED
        BY <3>1, <3>2, <3>3, <4>1, <4>2 DEF WritesPart, n, part
    <3>6. QED
      BY <3>2, <3>4, <3>5
  <2>6. QED
    BY <2>4, <2>5
<1>2. ASSUME NEW k \in Conn, UseDevice(k), worker'[k].did # "written"
      PROVE  UNCHANGED <<device, accepted, log>>
  <2>1. worker \in [Conn -> WorkerType]
    BY DEF SockTypeOK
  <2>2. device' = device
    <3>1. CASE worker' = [worker EXCEPT ![k].pc = "unlock", ![k].did = "written"]
      BY <1>2, <2>1, <3>1 DEF WorkerType
    <3>2. QED
      BY <1>2, <3>1 DEF UseDevice, WriteDevice
  <2>3. CASE Seek(k)
    BY <2>2, <2>3 DEF Seek, Dev!aesd_unlocked_ioctl, Dev!vars
  <2>4. CASE DeviceAlone
    BY <2>2, <2>4 DEF DeviceAlone, bufVars
  <2>5. QED
    BY <1>2, <2>3, <2>4 DEF UseDevice
<1>3. ASSUME NEW k \in Conn, OpenDevice(k) \/ ReadDevice(k) \/ CloseDevice(k) \/ SendReply(k)
      PROVE  UNCHANGED <<device, accepted, log>>
  <2>1. device' = device
    BY <1>3 DEF OpenDevice, OpenOut, Reopen, ReadDevice, ReadBack, CloseDevice, FinishThread,
                SendReply, SendBack
  <2>2. UNCHANGED <<accepted, log>>
    BY <1>3 DEF OpenDevice, ReadDevice, CloseDevice, SendReply, DeviceAlone, ReleaseAll, bufVars,
                Dev!aesd_open, Dev!aesd_read, Dev!aesd_release, Dev!vars,
                Dev!aesd_circular_buffer_raed
  <2>3. QED
    BY <2>1, <2>2
<1>4. CASE Elsewhere \/ EndServer
  <2>1. UNCHANGED <<accepted, log>>
    BY <1>4 DEF Elsewhere, EndServer, DeviceAlone, ReleaseAll, bufVars
  <2>2. device' = device
    BY <1>4 DEF Elsewhere, EndServer, CheckQuit, EnterAccept, Accept, AcceptFails, CreateThread,
                CreateThreadFails, JoinThread, CloseSock, SignalMain, StartThread, OpenTmp,
                ReadClient, SpoolPiece, CloseTmp, Lock, CopyPacket, Unlock, SignalThread, Connect,
                SendPiece, HangUp
  <2>3. QED
    BY <2>1, <2>2
<1>5. CASE UNCHANGED sysVars
  BY <1>5 DEF sysVars, sockVars, bufVars
<1>6. QED
  BY <1>1, <1>2, <1>3, <1>4, <1>5 DEF SystemNext, UseDevice

\* What the driver has accepted is every packet of the device, what it has
\* committed every packet up to the last one that ended a line.
CutInv ==
  /\ LastEnd \in 0..Len(device)
  /\ accepted = BytesUpTo(Len(device))
  /\ Dev!Committed = BytesUpTo(LastEnd)

\* The sums after a packet more.
LEMMA OnePacketMore ==
  ASSUME SockTypeOK, NEW stored \in [conn : Conn, from : Nat, to : Nat],
         device' = Append(device, stored)
  PROVE  /\ \A j \in 0..Len(device) : BytesUpTo(j)' = BytesUpTo(j)
         /\ BytesUpTo(Len(device))' = BytesUpTo(Len(device)) + (stored.to - stored.from)
         /\ Len(device') = Len(device) + 1 /\ Len(device) \in Nat
         /\ LastEnd' = IF stored.to = MaxSend THEN Len(device) + 1 ELSE LastEnd
<1> DEFINE m == Len(device)
           f == [i \in DOMAIN device |-> device[i].to - device[i].from]
           g == [i \in DOMAIN device' |-> device'[i].to - device'[i].from]
<1>1. /\ DOMAIN device = 1..m /\ m \in Nat /\ DOMAIN device' = 1..(m + 1) /\ Len(device') = m + 1
      /\ device'[m + 1] = stored /\ \A i \in DOMAIN device : device'[i] = device[i]
  <2>1. device' \in Seq([conn : Conn, from : Nat, to : Nat])
    BY AppendProperties DEF SockTypeOK
  <2>2. QED
    BY <2>1, NewPacket, LenProperties
<1> HIDE DEF m
<1>2. \A i \in 1..m : device[i].to \in Nat /\ device[i].from \in Nat
  <2> DEFINE Packets == [conn : Conn, from : Nat, to : Nat]
  <2>1. device \in Seq(Packets)
    BY DEF SockTypeOK
  <2> HIDE DEF Packets
  <2>2. \A i \in 1..m : device[i] \in Packets
    BY <1>1, <2>1, ElementOfSeq
  <2>3. QED
    BY <2>2 DEF Packets
<1>3. f \in [1..m -> Int] /\ g \in [1..(m + 1) -> Int]
  <2>1. f \in [1..m -> Int]
    BY <1>1, <1>2
  <2>2. \A i \in 1..(m + 1) : i \in 1..m \/ i = m + 1
    BY <1>1
  <2>3. \A i \in 1..(m + 1) : device'[i].to \in Nat /\ device'[i].from \in Nat
    BY <1>1, <1>2, <2>2
  <2>4. g \in [1..(m + 1) -> Int]
    BY <1>1, <2>3
  <2>5. QED
    BY <2>1, <2>4
<1>4. (\A i \in 1..m : f[i] = g[i]) /\ g[m + 1] = stored.to - stored.from
  BY <1>1
<1>5. \A j \in Nat : /\ BytesUpTo(j) = SumFunctionOnSet(f, 1..j)
                     /\ BytesUpTo(j)' = SumFunctionOnSet(g, 1..j)
  BY DEF BytesUpTo, PacketSizes
<1> HIDE DEF f, g
<1>6. ASSUME NEW j \in 0..m
      PROVE  SumFunctionOnSet(g, 1..j) = SumFunctionOnSet(f, 1..j)
  <2> DEFINE S == 1..j
  <2>1. S \subseteq 1..m /\ S \subseteq 1..(m + 1) /\ IsFiniteSet(S) /\ \A x \in S : f[x] = g[x]
    <3>1. IsFiniteSet(S)
      BY <1>1, FS_Interval
    <3>2. S \subseteq 1..m /\ S \subseteq 1..(m + 1)
      BY <1>1
    <3>3. QED
      BY <1>4, <3>1, <3>2
  <2> HIDE DEF S
  <2>2. SumFunctionOnSet(f, S) = SumFunctionOnSet(g, S)
    <3> DEFINE D == 1..m
               E == 1..(m + 1)
    <3>1. f \in [D -> Int] /\ g \in [E -> Int]
      BY <1>3
    <3>2. S \subseteq D /\ S \subseteq E /\ IsFiniteSet(S)
      BY <2>1
    <3>3. \A x \in S : f[x] = g[x]
      BY <2>1
    <3> HIDE DEF D, E
    <3>4. ASSUME NEW c \in [D -> Int], NEW h \in [E -> Int], \A x \in S : c[x] = h[x]
          PROVE  SumFunctionOnSet(c, S) = SumFunctionOnSet(h, S)
      BY <3>2, <3>4, SumAgrees
    <3>5. QED
      BY <3>1, <3>3, <3>4
  <2>3. QED
    BY <2>2 DEF S
<1>7. SumFunctionOnSet(g, 1..(m + 1)) = SumFunctionOnSet(g, 1..m) + g[m + 1]
  <2> DEFINE D == 1..(m + 1)
             S == 1..m
             x == m + 1
  <2>1. IsFiniteSet(S)
    BY <1>1, FS_Interval
  <2>2. S \in SUBSET D /\ x \in D /\ x \notin S /\ S \cup {x} = D /\ g \in [D -> Int]
    BY <1>1, <1>3
  <2> HIDE DEF D, S, x
  <2>3. SumFunctionOnSet(g, S \cup {x}) = SumFunctionOnSet(g, S) + g[x]
    BY <2>1, <2>2, SumAdd
  <2>4. SumFunctionOnSet(g, D) = SumFunctionOnSet(g, S) + g[x]
    BY <2>2, <2>3
  <2>5. QED
    BY <2>4 DEF D, S, x
<1>8. LastEnd' = IF stored.to = MaxSend THEN m + 1 ELSE LastEnd
  <2> DEFINE Enders == {i \in DOMAIN device : device[i].to = MaxSend}
             NextEnders == {i \in DOMAIN device' : device'[i].to = MaxSend}
  <2>1. /\ LastEnd = IF Enders # {} THEN Max(Enders) ELSE 0
        /\ LastEnd' = IF NextEnders # {} THEN Max(NextEnders) ELSE 0
    <3>1. LastEnd = IF Enders # {} THEN Max(Enders) ELSE 0
      BY DEF LastEnd, Ends
    <3>2. LastEnd' = IF NextEnders # {} THEN Max(NextEnders) ELSE 0
      BY DEF LastEnd, Ends
    <3>3. QED
      BY <3>1, <3>2
  <2>2. NextEnders = IF stored.to = MaxSend THEN Enders \cup {m + 1} ELSE Enders
    BY <1>1
  <2>3. Enders \subseteq 1..m
    BY <1>1
  <2> HIDE DEF Enders, NextEnders
  <2>4. ASSUME stored.to = MaxSend
        PROVE  Max(NextEnders) = m + 1 /\ NextEnders # {}
    <3>1. m + 1 \in NextEnders /\ \A y \in NextEnders : m + 1 >= y /\ y \in Int
      BY <1>1, <2>2, <2>3, <2>4
    <3>2. \A x \in NextEnders : (\A y \in NextEnders : x >= y) => x = m + 1
      BY <1>1, <3>1
    <3>3. Max(NextEnders) = m + 1
      BY <3>1, <3>2 DEF Max
    <3>4. QED
      BY <3>1, <3>3
  <2>5. QED
    BY <2>1, <2>2, <2>4
<1>9. \A j \in 0..m : BytesUpTo(j)' = BytesUpTo(j)
  <2>1. \A j \in 0..m : j \in Nat
    BY <1>1
  <2>2. QED
    BY <1>5, <1>6, <2>1
<1>10. BytesUpTo(Len(device))' = BytesUpTo(m) + (stored.to - stored.from)
  <2> DEFINE n == stored.to - stored.from
  <2>1. m \in 0..m /\ m \in Nat
    BY <1>1
  <2>2. SumFunctionOnSet(g, 1..(m + 1)) = SumFunctionOnSet(f, 1..m) + n
    BY <1>4, <1>6, <1>7, <2>1
  <2>3. BytesUpTo(m) = SumFunctionOnSet(f, 1..m)
    BY <1>5, <2>1
  <2>4. BytesUpTo(Len(device))' = SumFunctionOnSet(g, 1..Len(device'))
    BY DEF BytesUpTo, PacketSizes, g
  <2> HIDE DEF n
  <2>5. QED
    BY <1>1, <2>2, <2>3, <2>4 DEF n
<1>11. QED
  BY <1>1, <1>8, <1>9, <1>10 DEF m

LEMMA CutNext ==
  ASSUME SockTypeOK, Parts, Undone, Drv!TypeOK, CutInv, [SystemNext]_sysVars
  PROVE  CutInv'
<1>1. CASE UNCHANGED <<device, accepted, log>>
  BY <1>1 DEF CutInv, LastEnd, Ends, BytesUpTo, PacketSizes, Dev!Committed
<1>2. ASSUME NEW k \in Conn, WritesPart(k)
      PROVE  CutInv'
  <2> DEFINE stored == [conn |-> k, from |-> worker[k].from, to |-> worker[k].to]
             n == worker[k].to - worker[k].from
             m == Len(device)
  <2>1. stored \in [conn : Conn, from : Nat, to : Nat] /\ stored.to = worker[k].to
        /\ stored.to - stored.from = n
    BY DEF SockTypeOK, WorkerType
  <2>2. device' = Append(device, stored) /\ accepted' = accepted + n
    BY <1>2 DEF WritesPart
  <2> HIDE DEF stored, n
  <2>3. /\ \A j \in 0..m : BytesUpTo(j)' = BytesUpTo(j)
        /\ BytesUpTo(Len(device))' = BytesUpTo(m) + n
        /\ Len(device') = m + 1 /\ m \in Nat
        /\ LastEnd' = IF worker[k].to = MaxSend THEN m + 1 ELSE LastEnd
    BY <2>1, <2>2, OnePacketMore
  <2>4. LastEnd \in 0..m /\ accepted = BytesUpTo(m) /\ Dev!Committed = BytesUpTo(LastEnd)
    BY DEF CutInv
  <2>5. LastEnd' \in 0..(m + 1)
    BY <2>3, <2>4
  <2>6. accepted' = BytesUpTo(Len(device))'
    BY <2>2, <2>3, <2>4
  <2>8. Dev!Committed' = BytesUpTo(LastEnd)'
    <3>1. CASE worker[k].to # MaxSend
      <4>1. Dev!Committed' = Dev!Committed /\ LastEnd' = LastEnd
        BY <1>2, <2>3, <3>1 DEF WritesPart, Dev!Committed
      <4>2. \A j \in 0..m : j = LastEnd' => BytesUpTo(j)' = Dev!Committed'
        BY <2>3, <2>4, <4>1
      <4>3. QED
        BY <2>4, <4>1, <4>2 DEF BytesUpTo
    <3>2. CASE worker[k].to = MaxSend
      <4>1. LastEnd' = m + 1
        BY <2>3, <3>2
      <4>2. Dev!Committed' = accepted'
        <5>1. PICK line : line.to = accepted' /\ log' = Append(log, line)
          BY <1>2, <2>2, <3>2 DEF WritesPart, n
        <5>2. log \in Seq([from : Nat, to : Nat])
          BY DEF Drv!TypeOK
        <5>3. log' # <<>> /\ log'[Len(log')] = line
          BY <5>1, <5>2
        <5>4. QED
          BY <5>1, <5>3 DEF Dev!Committed
      <4>3. QED
        BY <2>3, <2>6, <4>1, <4>2 DEF BytesUpTo
    <3>3. QED
      BY <3>1, <3>2
  <2>9. QED
    BY <2>3, <2>5, <2>6, <2>8 DEF CutInv
<1>3. QED
  BY <1>1, <1>2, SystemWrites

LEMMA CutInit ==
  ASSUME SystemInit
  PROVE  Undone /\ CutInv
<1>1. Undone
  BY DEF SystemInit, SockInit, NoWorker, Undone
<1>2. device = <<>> /\ Len(device) = 0 /\ DOMAIN device = {}
  BY DEF SystemInit, SockInit
<1>3. LastEnd = 0
  BY <1>2 DEF LastEnd
<1>4. BytesUpTo(0) = 0
  <2>1. 1..0 = {}
    OBVIOUS
  <2>2. QED
    BY <2>1, SumEmpty DEF BytesUpTo
<1>5. accepted = 0 /\ Dev!Committed = 0
  BY DEF SystemInit, Dev!DevInit, Dev!Init, Dev!Committed
<1>6. QED
  BY <1>1, <1>2, <1>3, <1>4, <1>5 DEF CutInv

\* A packet of which the server's one read did not get the newline is not a line
\* of its own: at any time the driver's lines are the packets up to the last one
\* that had its newline, and its accumulator the packets after that.
THEOREM CutPacketsCorrect == SystemSpec => []CutPacketsJoinTheNextLine
<1>1. SystemInit => Undone /\ CutInv
  BY CutInit
<1>2. SystemInv /\ Undone /\ CutInv /\ [SystemNext]_sysVars => Undone' /\ CutInv'
  BY UndoneNext, CutNext, SystemStepIsSockStep DEF SystemInv, SockInv, Drv!IInv
<1>3. SystemInv /\ CutInv => CutPacketsJoinTheNextLine
  <2>1. SystemInv => tmp_entry.size = accepted - Dev!Committed
    BY DEF SystemInv, Drv!IInv, Drv!PendingIntact, Drv!Committed, Dev!Committed
  <2>2. QED
    BY <2>1 DEF CutInv, CutPacketsJoinTheNextLine
<1>4. QED
  BY <1>1, <1>2, <1>3, SystemInvariant, PTL DEF SystemSpec

-----------------------------------------------------------------------------
(* Reading the device *)

\* What the theorems on reads rest on, with the bound of the model.
SystemReads == SystemInv /\ Drv!UnusedEmpty /\ accepted <= MaxBytes

LEMMA SystemReadsInit ==
  ASSUME SystemInit
  PROVE  SystemReads
<1>1. Drv!UnusedEmpty
  <2>1. entry = [i \in 0..(N - 1) |-> <<>>]
    BY DEF SystemInit, Dev!DevInit, Dev!Init, Dev!Slots
  <2>2. QED
    BY <2>1 DEF Drv!Slots, Drv!UnusedEmpty
<1>2. accepted <= MaxBytes
  BY SystemAssumption DEF SystemInit, Dev!DevInit, Dev!Init
<1>3. QED
  BY <1>1, <1>2, SystemInvInit DEF SystemReads

LEMMA SystemReadsNext ==
  ASSUME SystemReads, [SystemNext]_sysVars
  PROVE  SystemReads'
<1>1. SystemInv /\ Drv!UnusedEmpty /\ accepted <= MaxBytes
  BY DEF SystemReads
<1>2. [Drv!Next]_(Drv!vars)
  BY <1>1, SystemStepsDevice DEF SystemInv, SockInv, DeviceSteps
<1>3. Drv!UnusedEmpty'
  BY <1>1, <1>2, SystemAssumption, SocketAssumption, Drv!UnusedNext DEF SystemInv
<1>4. accepted' <= MaxBytes
  BY <1>1, <1>2, SystemAssumption, SocketAssumption, Drv!BytesBound
<1>5. QED
  BY <1>1, <1>3, <1>4, SystemInvNext DEF SystemReads

\* No counter wraps below the bound.
LEMMA SystemCounts ==
  ASSUME SystemReads
  PROVE  /\ Drv!ReadInv /\ w_abs < U32 \div 2
         /\ w_char_abs \in Nat /\ start_char_abs \in Nat /\ start_abs \in Nat
<1>1. /\ Drv!TypeOK /\ Drv!LogPartitions /\ Drv!PendingIntact /\ Drv!IInv
      /\ Drv!UnusedEmpty /\ accepted <= MaxBytes /\ Drv!RingHoldsRecentLines
  BY DEF SystemReads, SystemInv, Drv!IInv
<1>2. /\ U32 \in Nat /\ MaxBytes \in Nat /\ MaxBytes < U32 \div 2 /\ U32 \div 2 \in Nat
      /\ U32 \div 2 <= U32
  BY SystemAssumption
<1>3. /\ accepted \in Nat /\ w_char_abs \in Nat /\ start_char_abs \in Nat /\ start_abs \in Nat
      /\ w_abs \in Nat
  BY <1>1, <1>2 DEF Drv!TypeOK
<1>4. Drv!NoWrap
  BY <1>1, <1>2, <1>3 DEF Drv!NoWrap
<1>5. w_abs = Len(log) /\ Len(log) <= Drv!Committed
  BY <1>1, <1>4 DEF Drv!RingHoldsRecentLines, Drv!LogPartitions
<1>6. Drv!Committed \in Nat /\ Drv!Committed <= accepted
  BY <1>1, SystemAssumption, SocketAssumption, Drv!CommittedBound
<1>7. w_abs < U32 \div 2
  <2> DEFINE half == U32 \div 2
  <2>1. half \in Nat /\ MaxBytes < half
    BY <1>2
  <2> HIDE DEF half
  <2>2. w_abs < half
    BY <1>1, <1>2, <1>3, <1>5, <1>6, <2>1
  <2>3. QED
    BY <2>2 DEF half
<1>8. QED
  BY <1>1, <1>3, <1>4, <1>7 DEF Drv!ReadInv

\* The two instances of the driver's modules read alike.
LEMMA SameData ==
  /\ \A pos, len : Dev!RaedData(pos, len) = Drv!RaedData(pos, len)
  /\ \A pos, len : Dev!RaedResult(pos, len) = Drv!RaedResult(pos, len)
  /\ \A pos : Dev!ReadFails(pos) <=> Drv!ReadFails(pos)
  /\ \A pos : Dev!ReadFails(pos) <=> ~Drv!InWindow(pos)
  /\ \A a, b : Dev!Bytes(a, b) = Drv!Bytes(a, b)
<1>1. ASSUME NEW pos, NEW len
      PROVE  Dev!RaedData(pos, len) = Drv!RaedData(pos, len)
  <2>1. \A f, S : Dev!SumFunctionOnSet(f, S) = Drv!SumFunctionOnSet(f, S)
    BY DEF Dev!SumFunctionOnSet, Drv!SumFunctionOnSet, Dev!FoldFunctionOnSet,
           Drv!FoldFunctionOnSet, Dev!MapThenFoldSet, Drv!MapThenFoldSet
  <2>2. \A j : Dev!PhysicalPrefix(j) = Drv!PhysicalPrefix(j)
    BY <2>1, Zenon DEF Dev!PhysicalPrefix, Drv!PhysicalPrefix, Dev!Slots, Drv!Slots
  <2>3. \A j, off : Dev!SearchHits(j, off) <=> Drv!SearchHits(j, off)
    BY <2>2, Zenon DEF Dev!SearchHits, Drv!SearchHits
  <2>4. \A j, off : Dev!SearchEnds(j, off) <=> Drv!SearchEnds(j, off)
    BY <2>3, Zenon DEF Dev!SearchEnds, Drv!SearchEnds, Dev!Uint32, Drv!Uint32
  <2>5. \A off : Dev!SearchStop(off) = Drv!SearchStop(off)
    <3>1. ASSUME NEW off
          PROVE  {j \in Dev!Slots : Dev!SearchEnds(j, off)}
                   = {j \in Drv!Slots : Drv!SearchEnds(j, off)}
      BY <2>4, Zenon DEF Dev!Slots, Drv!Slots
    <3>2. QED
      BY <3>1, Zenon DEF Dev!SearchStop, Drv!SearchStop, Dev!Min, Drv!Min
  <2>6. \A off : Dev!FindIndex(off) = Drv!FindIndex(off)
    <3>1. TAKE off
    <3>2. Dev!SearchStop(off) = Drv!SearchStop(off)
      BY <2>5
    <3> DEFINE j == Drv!SearchStop(off)
    <3>3. (Dev!SearchHits(j, off) <=> Drv!SearchHits(j, off))
            /\ Dev!PhysicalPrefix(j) = Drv!PhysicalPrefix(j)
      BY <2>2, <2>3
    <3>4. CASE j < N /\ Drv!SearchHits(j, off)
      BY <3>2, <3>3, <3>4, Zenon DEF Dev!FindIndex, Drv!FindIndex, Dev!Uint32, Drv!Uint32
    <3>5. CASE ~(j < N /\ Drv!SearchHits(j, off))
      BY <3>2, <3>3, <3>5, Zenon DEF Dev!FindIndex, Drv!FindIndex, Dev!Uint32, Drv!Uint32
    <3>6. QED
      BY <3>4, <3>5
  <2>7. \A first : Dev!LinesFrom(first) = Drv!LinesFrom(first)
    BY DEF Dev!LinesFrom, Drv!LinesFrom, Dev!Slot, Drv!Slot, Dev!FlattenSeq, Drv!FlattenSeq
  <2>8. \A first, ofs, n : Dev!Copied(first, ofs, n) = Drv!Copied(first, ofs, n)
    <3>1. TAKE first, ofs, n
    <3>2. Dev!LinesFrom(first) = Drv!LinesFrom(first)
      BY <2>7
    <3> DEFINE a == SubSeq(Dev!LinesFrom(first), ofs + 1,
                           Dev!Min({ofs + n, Len(Dev!LinesFrom(first))}))
               b == SubSeq(Drv!LinesFrom(first), ofs + 1,
                           Drv!Min({ofs + n, Len(Drv!LinesFrom(first))}))
    <3>3. a = b
      BY <3>2, Zenon DEF Dev!Min, Drv!Min
    <3> HIDE DEF a, b
    <3>4. Dev!Copied(first, ofs, n)
            = IF ofs > Len(entry[Drv!Slot(first)]) THEN [k \in 1..n |-> Drv!Garbage] ELSE a
      BY DEF Dev!Copied, Dev!Slot, Drv!Slot, Dev!Garbage, Drv!Garbage, a
    <3>5. Drv!Copied(first, ofs, n)
            = IF ofs > Len(entry[Drv!Slot(first)]) THEN [k \in 1..n |-> Drv!Garbage] ELSE b
      BY DEF Drv!Copied, b
    <3>6. QED
      BY <3>3, <3>4, <3>5
  <2>9. Dev!ReadStart(pos) = Drv!ReadStart(pos)
    BY <2>6, Zenon DEF Dev!ReadStart, Drv!ReadStart
  <2>10. QED
    BY <2>8, <2>9, Zenon DEF Dev!RaedData, Drv!RaedData, Dev!ReadsNothing, Drv!ReadsNothing,
             Dev!ReadFails, Drv!ReadFails, Dev!InWindow, Drv!InWindow
<1>2. ASSUME NEW pos
      PROVE  /\ Dev!ReadFails(pos) <=> Drv!ReadFails(pos)
             /\ Dev!ReadFails(pos) <=> ~Drv!InWindow(pos)
  BY DEF Dev!ReadFails, Drv!ReadFails, Dev!InWindow, Drv!InWindow
<1>3. ASSUME NEW pos, NEW len
      PROVE  Dev!RaedResult(pos, len) = Drv!RaedResult(pos, len)
  BY <1>1, <1>2, Zenon DEF Dev!RaedResult, Drv!RaedResult
<1>4. ASSUME NEW a, NEW b
      PROVE  Dev!Bytes(a, b) = Drv!Bytes(a, b)
  BY Zenon DEF Dev!Bytes, Drv!Bytes
<1>5. QED
  BY <1>1, <1>2, <1>3, <1>4

\* What one read of the device returns: bytes; outside the window an error; and
\* until a line is evicted the next characters of the text.
LEMMA DeviceRead ==
  ASSUME SystemReads, NEW pos \in Int
  PROVE  /\ Dev!RaedData(pos, BufSize) \in Seq(0..MaxBytes)
         /\ Dev!ReadFails(pos) => /\ Dev!RaedData(pos, BufSize) = <<>>
                                  /\ Dev!RaedResult(pos, BufSize) = -1
         /\ ~Dev!ReadFails(pos) /\ start_abs = 0 =>
              \E n \in 0..(w_char_abs - pos) :
                /\ Dev!RaedResult(pos, BufSize) = n
                /\ Dev!RaedData(pos, BufSize) = Dev!Bytes(pos, pos + n)
                /\ n = 0 <=> pos = w_char_abs
<1>1. Drv!ReadInv /\ w_abs < U32 \div 2 /\ accepted <= MaxBytes /\ BufSize \in Nat \ {0}
  BY SystemCounts, SystemAssumption DEF SystemReads
<1>2. Drv!RaedData(pos, BufSize) \in Seq(0..MaxBytes)
  BY <1>1, SystemAssumption, SocketAssumption, Drv!ReadBytes
<1>3. ASSUME Dev!ReadFails(pos)
      PROVE  Dev!RaedData(pos, BufSize) = <<>> /\ Dev!RaedResult(pos, BufSize) = -1
  BY <1>3 DEF Dev!RaedData, Dev!RaedResult
<1>4. ASSUME Drv!InWindow(pos), start_abs = 0
      PROVE  \E n \in 0..(w_char_abs - pos) :
               /\ Drv!RaedResult(pos, BufSize) = n
               /\ Drv!RaedData(pos, BufSize) = Drv!Bytes(pos, pos + n)
               /\ n = 0 <=> pos = w_char_abs
  BY <1>1, <1>4, SystemAssumption, SocketAssumption, Drv!ReadFromStart
<1>5. QED
  BY <1>2, <1>3, <1>4, SameData

\* The window: from position 0, until a line is evicted.
LEMMA WindowFromStart ==
  ASSUME SystemReads
  PROVE  /\ Dev!ReadFails(0) <=> start_abs # 0
         /\ start_abs = 0 => \A pos \in Nat : Dev!ReadFails(pos) <=> pos > w_char_abs
<1>1. Drv!IInv /\ Drv!NoWrap /\ w_char_abs \in Nat /\ start_char_abs \in Nat /\ start_abs \in Nat
  BY SystemCounts DEF Drv!ReadInv
<1>2. start_char_abs = 0 <=> start_abs = 0
  BY <1>1, SystemAssumption, SocketAssumption, Drv!StartPositive
<1>3. QED
  BY <1>1, <1>2 DEF Dev!ReadFails, Dev!InWindow

\* The position an AESDCHAR_IOCSEEKTO moves to is not negative.
LEMMA SeekForward ==
  ASSUME SystemReads, NEW cmd \in 0..N, NEW ofs \in Nat
  PROVE  Dev!SeektoPosition(cmd, ofs) \in Nat
<1> DEFINE sought == Drv!PhysicalPrefix(cmd) + ofs
<1>1. /\ Drv!TypeOK /\ U32 \in Nat \ {0} /\ start_char_abs \in Nat
      /\ cmd \in 0..N /\ cmd <= cmd
  BY SystemCounts, SystemAssumption DEF Drv!ReadInv, Drv!IInv
<1>2. Drv!PhysicalPrefix(cmd) \in Nat
  BY <1>1, SystemAssumption, SocketAssumption, Drv!PrefixGrows
<1>3. Dev!PhysicalPrefix(cmd) = Drv!PhysicalPrefix(cmd)
  BY Zenon DEF Dev!PhysicalPrefix, Drv!PhysicalPrefix, Dev!Slots, Drv!Slots,
               Dev!SumFunctionOnSet, Drv!SumFunctionOnSet,
               Dev!FoldFunctionOnSet, Drv!FoldFunctionOnSet,
               Dev!MapThenFoldSet, Drv!MapThenFoldSet
<1>4. Dev!SeektoPosition(cmd, ofs) = ((sought % U32) + start_char_abs) % U32
  BY <1>3 DEF Dev!SeektoPosition, Dev!aesd_circular_buffer_get_bytes_to_ofs, Dev!Uint32
<1>5. sought \in Nat
  BY <1>2
<1> HIDE DEF sought
<1>6. sought % U32 \in Nat
  BY <1>1, <1>5
<1>7. QED
  BY <1>1, <1>4, <1>6

\* The positions and answers of the connections.
Replies == /\ reply \in [Conn -> Seq(0..MaxBytes)]
           /\ target \in [Conn -> Positions \cup {NoSeek}]

LEMMA RepliesNext ==
  ASSUME SystemReads, Replies, [SystemNext]_sysVars
  PROVE  Replies'
<1>1. ASSUME NEW k \in Conn, UseDevice(k)
      PROVE  Replies'
  <2>1. CASE Seek(k)
    <3>1. f_pos' \in [Conn -> Positions]
      BY SystemReadsNext DEF SystemReads, SystemInv, Files
    <3>2. target' = [target EXCEPT ![k] = f_pos'[k]] /\ reply' = reply
      BY <1>1, <2>1 DEF UseDevice, Seek
    <3>3. QED
      BY <3>1, <3>2 DEF Replies
  <2>2. CASE UNCHANGED target
    BY <1>1, <2>2 DEF UseDevice, Replies
  <2>3. QED
    BY <1>1, <2>1, <2>2 DEF UseDevice
<1>2. ASSUME NEW k \in Conn, ReadDevice(k)
      PROVE  Replies'
  <2> DEFINE Text == Seq(0..MaxBytes)
             more == Dev!RaedData(f_pos[k], BufSize)
  <2>1. target' = target /\ (reply' = reply \/ reply' = [reply EXCEPT ![k] = @ \o more])
    BY <1>2 DEF ReadDevice
  <2>2. more \in Text
    <3>1. f_pos[k] \in Int
      BY SystemAssumption DEF SystemReads, SystemInv, Files
    <3>2. QED
      BY <3>1, DeviceRead
  <2>3. reply[k] \in Text
    BY DEF Replies
  <2>4. reply[k] \o more \in Text
    <3> HIDE DEF more
    <3>1. QED
      BY <2>2, <2>3, ConcatProperties
  <2> HIDE DEF Text, more
  <2>5. reply \in [Conn -> Text]
    BY DEF Replies, Text
  <2>6. reply' \in [Conn -> Text]
    BY <2>1, <2>4, <2>5
  <2>7. QED
    BY <2>1, <2>6 DEF Replies, Text
<1>3. ASSUME NEW k \in Conn, CloseDevice(k)
      PROVE  Replies'
  BY <1>3 DEF CloseDevice, Replies
<1>4. CASE RepliesKept
  BY <1>4 DEF RepliesKept, Replies
<1>5. QED
  BY <1>1, <1>2, <1>3, <1>4
     DEF SystemNext, Elsewhere, EndServer, OpenDevice, SendReply, sysVars, RepliesKept

-----------------------------------------------------------------------------
(* The answer *)

\* Where the answer of a connection begins: its seek, or the beginning.
Base(k) == IF worker[k].did = "sought" THEN target[k] ELSE 0

\* Until it reads the device back a thread has no answer, and until it uses its
\* file that stands at the beginning.
NoAnswerYet(k) ==
  /\ worker[k].pc \notin {"read_back", "send", "finish"} => reply[k] = <<>>
  /\ worker[k].pc \in {"lock", "reopen", "copy", "write"} /\ worker[k].out = "fd" => f_pos[k] = 0
  /\ worker[k].pc \in {"read_back", "send"} => worker[k].err = "ok"

\* A thread that has done its packet and not closed its file yet.
Answering(k) ==
  /\ worker[k].out = "fd"
  /\ \/ worker[k].pc = "unlock" /\ worker[k].err = "ok"
     \/ worker[k].pc \in {"read_back", "send", "finish"}

\* Its first read fails; its file stays where it was.
Refusal(k) ==
  /\ reply[k] = <<>> /\ f_pos[k] = Base(k) /\ worker[k].pc # "send"
  /\ worker[k].pc = "finish" => worker[k].err = "err"

\* It has read from the base to where its file stands, in the end everything.
Progress(k) ==
  /\ f_pos[k] \in Base(k)..w_char_abs
  /\ reply[k] = Dev!Bytes(Base(k), f_pos[k])
  /\ worker[k].pc = "finish" /\ client[k] = "connected" =>
       worker[k].err = "ok" /\ f_pos[k] = w_char_abs

ReplyOf(k) ==
  /\ NoAnswerYet(k)
  /\ Answering(k) => /\ Base(k) \in Nat
                     /\ IF Dev!ReadFails(Base(k)) THEN Refusal(k)
                                                  ELSE start_abs = 0 => Progress(k)

\* Nobody is about to close when the server has ended.
NoneFinishing == ~Running => \A k \in Conn : worker[k].pc # "finish"
ReplyInv == Running => \A k \in Conn : ReplyOf(k)

\* A thread that has not come to its file yet, or is done with it.
LEMMA Resting ==
  ASSUME NEW k \in Conn, reply'[k] = <<>>,
         worker'[k].pc \notin {"lock", "reopen", "copy", "write", "unlock", "read_back", "send",
                               "finish"}
  PROVE  ReplyOf(k)'
BY DEF ReplyOf, NoAnswerYet, Answering

\* A step that does nothing to the connection, and nothing to the text while it
\* is answered.
LEMMA Undisturbed ==
  ASSUME NEW k \in Conn, ReplyOf(k),
         worker'[k] = worker[k], reply'[k] = reply[k], target'[k] = target[k],
         f_pos'[k] = f_pos[k],
         Answering(k) => /\ UNCHANGED <<start_abs, w_char_abs, start_char_abs>>
                         /\ client'[k] = "connected" => client[k] = "connected"
  PROVE  ReplyOf(k)'
<1>1. NoAnswerYet(k)' /\ (Answering(k)' <=> Answering(k)) /\ Base(k)' = Base(k)
  BY DEF ReplyOf, NoAnswerYet, Answering, Base
<1>2. ASSUME Answering(k)
      PROVE  /\ Base(k)' \in Nat
             /\ IF Dev!ReadFails(Base(k))' THEN Refusal(k)' ELSE start_abs' = 0 => Progress(k)'
  <2>1. Base(k) \in Nat /\ UNCHANGED <<start_abs, w_char_abs, start_char_abs>>
    BY <1>2 DEF ReplyOf
  <2>2. Dev!ReadFails(Base(k))' <=> Dev!ReadFails(Base(k))
    BY <1>1, <2>1 DEF Dev!ReadFails, Dev!InWindow
  <2>3. CASE Dev!ReadFails(Base(k))
    BY <1>1, <1>2, <2>1, <2>2, <2>3 DEF ReplyOf, Refusal
  <2>4. CASE ~Dev!ReadFails(Base(k)) /\ start_abs = 0
    <3>1. Progress(k)
      BY <1>2, <2>4 DEF ReplyOf
    <3>2. Progress(k)'
      BY <1>1, <1>2, <2>1, <3>1 DEF Progress, Dev!Bytes
    <3>3. QED
      BY <1>1, <2>1, <2>2, <2>4, <3>2
  <2>5. QED
    BY <1>1, <2>1, <2>2, <2>3, <2>4
<1>3. QED
  BY <1>1, <1>2 DEF ReplyOf

\* Nothing is answered to a connection whose thread is not under way.
LEMMA OnlyCurAnswered ==
  ASSUME OneThread, NEW k \in Conn, Answering(k)
  PROVE  k = cur /\ Live(k)
BY DEF OneThread, Answering, Live

\* The steps of the main thread, of a signal or of a client.
LEMMA QuietReply ==
  ASSUME SystemInv, ReplyInv, Running, DeviceAlone, RepliesKept, SockNext,
         \A k \in Conn : ~Thread(k)
  PROVE  \A k \in Conn : ReplyOf(k)'
<1>1. SUFFICES ASSUME NEW k \in Conn
               PROVE  ReplyOf(k)'
  OBVIOUS
<1>2. SockTypeOK /\ Arrivals /\ OneThread /\ ReplyOf(k)
  BY DEF SystemInv, SockInv, ReplyInv
<1>3. /\ reply'[k] = reply[k] /\ target'[k] = target[k] /\ f_pos'[k] = f_pos[k]
      /\ UNCHANGED <<start_abs, w_char_abs, start_char_abs>>
  BY DEF DeviceAlone, RepliesKept, bufVars
<1>4. CASE worker'[k] = worker[k]
  <2>1. Answering(k) => client[k] # "idle"
    <3>1. Answering(k) => worker[k].pc # "none"
      BY DEF Answering
    <3>2. QED
      BY <1>2, <3>1 DEF OneThread, Arrivals
  <2>2. client[k] # "idle" => (client'[k] = "connected" => client[k] = "connected")
    <3>1. client \in [Conn -> {"idle", "connected", "gone"}]
      BY <1>2 DEF SockTypeOK
    <3>2. \/ client' = client
          \/ \E j \in Conn : client[j] = "idle" /\ client' = [client EXCEPT ![j] = "connected"]
          \/ \E j \in Conn : client' = [client EXCEPT ![j] = "gone"]
      BY DEF SockNext, Main, CheckQuit, EnterAccept, Accept, AcceptFails, CreateThread,
             CreateThreadFails, JoinThread, CloseSock, SignalMain, SignalThread, Connect,
             SendPiece, HangUp, clientVars
    <3>3. QED
      BY <3>1, <3>2
  <2>3. QED
    BY <1>2, <1>3, <1>4, <2>1, <2>2, Undisturbed
<1>5. CASE worker'[k] # worker[k]
  <2>1. \/ k = cur /\ main = "create" /\ Reaches(k, "start")
        \/ k = cur /\ main = "create" /\ Moves(k, worker[k].pc, "err", worker[k].out, worker[k].did)
        \/ worker[k].pc = "read" /\ FailsTo(k, "close_tmp")
    <3>1. \/ UNCHANGED worker
          \/ main = "create" /\ cur \in Conn /\ Reaches(cur, "start")
          \/ /\ main = "create" /\ cur \in Conn
             /\ Moves(cur, worker[cur].pc, "err", worker[cur].out, worker[cur].did)
          \/ \E j \in Conn : worker[j].pc = "read" /\ FailsTo(j, "close_tmp")
      BY <1>2, OtherMoves
    <3>2. QED
      BY <1>5, <3>1 DEF Reaches, FailsTo, Moves
  <2>2. worker[k].pc \in {"none", "read"} /\ worker'[k].pc \in {"none", "start", "close_tmp"}
    BY <1>2, <2>1 DEF OneThread, Reaches, FailsTo, Moves
  <2>3. reply[k] = <<>>
    BY <1>2, <2>2 DEF ReplyOf, NoAnswerYet
  <2>4. QED
    BY <1>3, <2>2, <2>3, Resting
<1>6. QED
  BY <1>4, <1>5

\* A step of thread k leaves the others alone, because they are not under way.
LEMMA OthersReply ==
  ASSUME SystemInv, ReplyInv, Running, NEW k \in Conn, Thread(k),
         \A j \in Conn \ {k} : reply'[j] = reply[j]
  PROVE  \A j \in Conn \ {k} : ReplyOf(j)'
<1>1. SUFFICES ASSUME NEW j \in Conn \ {k}
               PROVE  ReplyOf(j)'
  OBVIOUS
<1>2. SockTypeOK /\ OneThread /\ ReplyOf(j)
  BY DEF SystemInv, SockInv, ReplyInv
<1>3. worker'[j] = worker[j] /\ k = cur
  BY <1>2, ThreadEffect, ThreadIsCur
<1>4. worker[j].pc \in {"none", "done"}
  BY <1>2, <1>3 DEF OneThread, Live
<1>5. reply[j] = <<>>
  BY <1>2, <1>4 DEF ReplyOf, NoAnswerYet
<1>6. QED
  BY <1>3, <1>4, <1>5, Resting

\* The thread's steps beside the device.
LEMMA BesideReply ==
  ASSUME SystemInv, ReplyInv, Running, NEW k \in Conn, DeviceAlone, RepliesKept,
         \/ StartThread(k) \/ OpenTmp(k) \/ ReadClient(k) \/ SpoolPiece(k) \/ CloseTmp(k)
         \/ Lock(k) \/ CopyPacket(k) \/ Unlock(k)
  PROVE  \A j \in Conn : ReplyOf(j)'
<1>a. Thread(k) /\ worker \in [Conn -> WorkerType] /\ ReplyOf(k)
  BY DEF Thread, SystemInv, SockInv, SockTypeOK, ReplyInv
<1>b. /\ \A j \in Conn : reply'[j] = reply[j]
      /\ target'[k] = target[k] /\ f_pos'[k] = f_pos[k]
      /\ UNCHANGED <<start_abs, w_char_abs, start_char_abs>>
  BY DEF DeviceAlone, RepliesKept, bufVars
<1>1. CASE StartThread(k) \/ OpenTmp(k) \/ ReadClient(k) \/ SpoolPiece(k) \/ CloseTmp(k)
  <2>1. /\ worker[k].pc \in {"start", "open_tmp", "read", "spool", "close_tmp"}
        /\ worker'[k].pc \in {"open_tmp", "read", "spool", "close_tmp", "open_out", "done"}
    BY <1>1, <1>a, SpoolingMoves DEF Reaches, FailsTo, Moves
  <2>2. reply[k] = <<>>
    BY <1>a, <2>1 DEF ReplyOf, NoAnswerYet
  <2>3. ReplyOf(k)'
    BY <1>b, <2>1, <2>2, Resting
  <2>4. QED
    BY <1>a, <1>b, <2>3, OthersReply
<1>2. CASE Lock(k) \/ CopyPacket(k)
  <2>1. /\ worker[k].pc \in {"lock", "copy"} /\ worker'[k].pc \in {"reopen", "write", "done"}
        /\ worker'[k].out = worker[k].out
    BY <1>2, <1>a, DeviceMoves DEF Reaches, FailsTo, Moves
  <2>2. reply[k] = <<>> /\ (worker[k].out = "fd" => f_pos[k] = 0)
    BY <1>a, <2>1 DEF ReplyOf, NoAnswerYet
  <2>3. ReplyOf(k)'
    BY <1>b, <2>1, <2>2 DEF ReplyOf, NoAnswerYet, Answering
  <2>4. QED
    BY <1>a, <1>b, <2>3, OthersReply
<1>3. CASE Unlock(k)
  <2>1. /\ worker[k].pc = "unlock"
        /\ \/ worker'[k].pc = "done"
           \/ Reaches(k, "read_back") /\ worker[k].err = "ok"
    BY <1>3, <1>a, DeviceMoves DEF Reaches, FailsTo, Moves
  <2>2. reply[k] = <<>>
    BY <1>a, <2>1 DEF ReplyOf, NoAnswerYet
  <2>3. CASE worker'[k].pc = "done"
    <3>1. ReplyOf(k)'
      BY <1>b, <2>2, <2>3, Resting
    <3>2. QED
      BY <1>a, <1>b, <3>1, OthersReply
  <2>4. CASE Reaches(k, "read_back") /\ worker[k].err = "ok"
    <3>1. /\ worker'[k].pc = "read_back" /\ worker'[k].err = "ok"
          /\ worker'[k].out = worker[k].out /\ worker'[k].did = worker[k].did
      BY <2>4 DEF Reaches, Moves
    <3>2. NoAnswerYet(k)' /\ Base(k)' = Base(k) /\ (Answering(k)' => Answering(k))
      BY <1>b, <2>1, <2>4, <3>1 DEF NoAnswerYet, Base, Answering
    <3>3. Dev!ReadFails(Base(k))' <=> Dev!ReadFails(Base(k))
      BY <1>b, <3>2 DEF Dev!ReadFails, Dev!InWindow
    <3>4. Refusal(k) => Refusal(k)'
      BY <1>b, <3>1, <3>2 DEF Refusal
    <3>5. Progress(k) => Progress(k)'
      BY <1>b, <3>1, <3>2 DEF Progress, Dev!Bytes
    <3>6. ReplyOf(k)'
      BY <1>a, <1>b, <3>2, <3>3, <3>4, <3>5 DEF ReplyOf
    <3>7. QED
      BY <1>a, <1>b, <3>6, OthersReply
  <2>5. QED
    BY <2>1, <2>3, <2>4
<1>4. QED
  BY <1>1, <1>2, <1>3

\* aesd_open puts the file to the beginning.
LEMMA OpenReply ==
  ASSUME SystemInv, ReplyInv, Running, NEW k \in Conn, OpenDevice(k)
  PROVE  \A j \in Conn : ReplyOf(j)'
<1>a. /\ Thread(k) /\ worker \in [Conn -> WorkerType] /\ ReplyOf(k) /\ FdsOf(k)
      /\ f_pos \in [Conn -> Positions] /\ fds \in [Conn -> SUBSET {"sock", "tmp", "out", "lent"}]
      /\ \A j \in Conn : reply'[j] = reply[j]
  BY DEF OpenDevice, Thread, SystemInv, SockInv, SockTypeOK, ReplyInv, FdsByPlace, Files, RepliesKept
<1>1. CASE OpenOut(k)
  <2>1. /\ worker[k].pc = "open_out" /\ worker'[k].pc = "lock"
        /\ \/ worker'[k].out = "fd" /\ OpenFor(k, "out")
           \/ worker'[k].out = "failed"
    BY <1>1, <1>a, DeviceMoves DEF Moves
  <2>2. reply[k] = <<>> /\ fds[k] = {"sock"}
    BY <1>a, <2>1 DEF ReplyOf, NoAnswerYet, FdsOf
  <2>3. worker'[k].out = "fd" => f_pos'[k] = 0
    <3>1. SUFFICES ASSUME OpenFor(k, "out")
                   PROVE  f_pos'[k] = 0
      BY <2>1
    <3>2. fds'[k] = {"sock", "out"}
      BY <1>a, <2>2, <3>1 DEF OpenFor
    <3>3. "out" \in fds'[k] /\ "out" \notin fds[k]
      BY <2>2, <3>2
    <3>4. Dev!aesd_open(k)
      BY <3>3 DEF OpenDevice
    <3>5. QED
      BY <1>a, <3>4 DEF Dev!aesd_open
  <2>4. ReplyOf(k)'
    BY <1>a, <2>1, <2>2, <2>3 DEF ReplyOf, NoAnswerYet, Answering
  <2>5. QED
    BY <1>a, <2>4, OthersReply
<1>2. CASE Reopen(k)
  <2>1. /\ worker[k].pc = "reopen" /\ worker'[k].pc \in {"copy", "done"}
        /\ worker'[k].out = worker[k].out
        /\ worker[k].out = "fd" => UNCHANGED fds
    BY <1>2, <1>a, DeviceMoves DEF Reaches, FailsTo, Moves
  <2>2. reply[k] = <<>> /\ (worker[k].out = "fd" => f_pos[k] = 0)
    BY <1>a, <2>1 DEF ReplyOf, NoAnswerYet
  <2>3. worker[k].out = "fd" => f_pos'[k] = f_pos[k]
    BY <2>1 DEF OpenDevice, DeviceAlone
  <2>4. ReplyOf(k)'
    BY <1>a, <2>1, <2>2, <2>3 DEF ReplyOf, NoAnswerYet, Answering
  <2>5. QED
    BY <1>a, <2>4, OthersReply
<1>3. QED
  BY <1>1, <1>2 DEF OpenDevice

\* An answer starts where the file stands.
LEMMA Beginning ==
  ASSUME NEW k \in Conn, NEW base \in Nat, w_char_abs' \in Nat, start_char_abs' \in Nat,
         worker'[k].pc = "unlock", reply'[k] = <<>>,
         Answering(k)' => Base(k)' = base /\ f_pos'[k] = base
  PROVE  ReplyOf(k)'
<1>1. NoAnswerYet(k)'
  BY DEF NoAnswerYet
<1>2. ASSUME Answering(k)', Dev!ReadFails(Base(k))'
      PROVE  Refusal(k)'
  BY <1>2 DEF Refusal
<1>3. ASSUME Answering(k)', ~Dev!ReadFails(Base(k))'
      PROVE  Progress(k)'
  <2>1. base \in base..w_char_abs'
    BY <1>3 DEF Dev!ReadFails, Dev!InWindow
  <2>2. Dev!Bytes(base, base) = <<>>
    BY DEF Dev!Bytes
  <2>3. QED
    BY <1>3, <2>1, <2>2 DEF Progress, Dev!Bytes
<1>4. Answering(k)' => Base(k)' \in Nat
  OBVIOUS
<1>5. QED
  BY <1>1, <1>2, <1>3, <1>4 DEF ReplyOf

\* The write leaves the file at the beginning, the seek takes it to its target.
LEMMA UseReply ==
  ASSUME SystemReads, SystemReads', Replies, ReplyInv, Running, NEW k \in Conn, UseDevice(k)
  PROVE  \A j \in Conn : ReplyOf(j)'
<1>a. /\ SystemInv /\ Thread(k) /\ worker \in [Conn -> WorkerType] /\ ReplyOf(k)
      /\ \A j \in Conn : reply'[j] = reply[j]
  BY DEF UseDevice, Thread, SystemReads, SystemInv, SockInv, SockTypeOK, ReplyInv
<1>b. w_char_abs' \in Nat /\ start_char_abs' \in Nat
  <2>1. Drv!TypeOK'
    BY DEF SystemReads, SystemInv, Drv!IInv
  <2>2. w_char_abs' \in 0..(U32 - 1) /\ start_char_abs' \in 0..(U32 - 1) /\ U32 \in Nat
    BY <2>1, SystemAssumption DEF Drv!TypeOK
  <2>3. QED
    BY <2>2
<1>1. /\ worker[k].pc = "write" /\ worker'[k].pc = "unlock" /\ worker'[k].out = worker[k].out
      /\ \/ worker'[k].did = "sought"
         \/ worker'[k].did = "written"
         \/ worker'[k].err = "err"
  BY <1>a, DeviceMoves DEF UseDevice, FailsTo, Moves
<1>2. reply'[k] = <<>> /\ (worker[k].out = "fd" => f_pos[k] = 0)
  BY <1>a, <1>1 DEF ReplyOf, NoAnswerYet
<1>3. CASE worker'[k].did = "written"
  <2>1. f_pos' = f_pos
    BY <1>3 DEF UseDevice, WriteText, DeviceAlone, Dev!aesd_write
  <2>2. Answering(k)' => Base(k)' = 0 /\ f_pos'[k] = 0
    BY <1>1, <1>2, <1>3, <2>1 DEF Answering, Base
  <2>3. ReplyOf(k)'
    BY <1>b, <1>1, <1>2, <2>2, Beginning
  <2>4. QED
    BY <1>a, <2>3, OthersReply
<1>4. CASE worker'[k].did = "sought"
  <2>1. Seek(k)
    BY <1>4 DEF UseDevice
  <2>2. PICK seek \in Seeks : Dev!aesd_unlocked_ioctl(k, seek[1], seek[2])
    BY <2>1 DEF Seek
  <2> DEFINE base == Dev!SeektoPosition(seek[1], seek[2])
  <2>3. base \in Nat
    <3>1. seek[1] \in 0..N /\ seek[2] \in Nat
      BY SystemAssumption
    <3>2. QED
      BY <3>1, SeekForward
  <2>4. f_pos'[k] = base
    BY <2>2, <1>a DEF Dev!aesd_unlocked_ioctl, Dev!MoveTo, SystemInv, Files
  <2>5. target'[k] = f_pos'[k]
    BY <2>1 DEF Seek, Replies
  <2> HIDE DEF base
  <2>6. Answering(k)' => Base(k)' = base /\ f_pos'[k] = base
    BY <1>4, <2>4, <2>5 DEF Base
  <2>7. ReplyOf(k)'
    BY <1>b, <1>1, <1>2, <2>3, <2>6, Beginning
  <2>8. QED
    BY <1>a, <2>7, OthersReply
<1>5. CASE worker'[k].err = "err"
  <2>1. ReplyOf(k)'
    BY <1>1, <1>2, <1>5 DEF ReplyOf, NoAnswerYet, Answering
  <2>2. QED
    BY <1>a, <2>1, OthersReply
<1>6. QED
  BY <1>1, <1>3, <1>4, <1>5

\* One read of the device: the next characters, the end, or the refusal.
LEMMA ReadReply ==
  ASSUME SystemReads, Replies, ReplyInv, Running, NEW k \in Conn, ReadDevice(k)
  PROVE  \A j \in Conn : ReplyOf(j)'
<1> DEFINE pos == f_pos[k]
           base == Base(k)
           ret == Dev!RaedResult(pos, BufSize)
           more == Dev!RaedData(pos, BufSize)
<1>a. /\ SystemInv /\ Thread(k) /\ worker \in [Conn -> WorkerType] /\ ReplyOf(k)
      /\ f_pos \in [Conn -> Positions] /\ Positions \subseteq Int /\ ReadBack(k)
      /\ reply \in [Conn -> Seq(0..MaxBytes)] /\ w_char_abs \in Nat
  BY SystemCounts, SystemAssumption
     DEF ReadDevice, Thread, SystemReads, SystemInv, SockInv, SockTypeOK, ReplyInv, Files, Replies
<1>b. \A j \in Conn \ {k} : reply'[j] = reply[j]
  BY DEF ReadDevice, Replies
<1>c. SUFFICES ReplyOf(k)'
  BY <1>a, <1>b, OthersReply
<1>1. /\ worker[k].pc = "read_back" /\ worker[k].err = "ok"
      /\ worker'[k].out = worker[k].out /\ worker'[k].did = worker[k].did
      /\ \/ worker'[k].pc = "send" /\ worker'[k].err = "ok" /\ worker[k].out = "fd"
         \/ worker'[k].pc = "finish" /\ worker'[k].err = "ok" /\ worker[k].out = "fd"
         \/ worker'[k].pc = "finish" /\ worker'[k].err = "err"
  BY <1>a, AnswerMoves DEF Reaches, FailsTo, Moves, ReplyOf, NoAnswerYet
<1>2. NoAnswerYet(k)'
  BY <1>1 DEF NoAnswerYet
<1>3. CASE worker[k].out # "fd"
  BY <1>1, <1>2, <1>3 DEF ReplyOf, Answering
<1>4. CASE worker[k].out = "fd"
  <2>1. Answering(k) /\ base \in Nat /\ pos \in Int
    BY <1>a, <1>1, <1>4 DEF ReplyOf, Answering
  <2>2. /\ Dev!aesd_read(k, BufSize)
        /\ ret > 0 <=> worker'[k].pc = "send"
        /\ ret < 0 <=> worker'[k].err = "err"
        /\ reply'[k] = reply[k] \o more
        /\ target' = target
    BY <1>a, <1>4 DEF ReadDevice
  <2>3. UNCHANGED <<start_abs, w_char_abs, start_char_abs>>
    BY <2>2 DEF Dev!aesd_read, Dev!aesd_circular_buffer_raed
  <2>4. f_pos'[k] = IF ret > 0 THEN pos + ret ELSE pos
    BY <1>a, <2>2 DEF Dev!aesd_read, Dev!MoveTo
  <2>5. Base(k)' = base
    BY <1>1, <2>2 DEF Base
  <2>6. Dev!ReadFails(Base(k))' <=> Dev!ReadFails(base)
    BY <2>3, <2>5 DEF Dev!ReadFails, Dev!InWindow
  <2>7. CASE Dev!ReadFails(base)
    <3>1. pos = base /\ reply[k] = <<>>
      BY <1>a, <2>1, <2>7 DEF ReplyOf, Refusal
    <3>2. more = <<>> /\ ret = -1
      BY <2>1, <2>7, <3>1, DeviceRead
    <3> HIDE DEF base, pos, ret, more
    <3>3. /\ worker'[k].pc # "send" /\ worker'[k].err = "err" /\ f_pos'[k] = base
          /\ reply'[k] = <<>>
      BY <2>2, <2>4, <3>1, <3>2
    <3>4. Refusal(k)'
      BY <2>5, <3>3 DEF Refusal
    <3>5. QED
      BY <1>2, <2>1, <2>5, <2>6, <2>7, <3>4 DEF ReplyOf
  <2>8. CASE ~Dev!ReadFails(base) /\ start_abs = 0
    <3>1. /\ pos \in base..w_char_abs /\ reply[k] = Dev!Bytes(base, pos)
      BY <1>a, <2>1, <2>8 DEF ReplyOf, Progress
    <3>2. pos \in Nat /\ base <= pos /\ pos <= w_char_abs
      BY <1>a, <2>1, <3>1
    <3>3. ~Dev!ReadFails(pos)
      <4>1. Dev!ReadFails(pos) <=> pos > w_char_abs
        BY <2>8, <3>2, WindowFromStart
      <4>2. ~(pos > w_char_abs)
        BY <1>a, <3>2
      <4>3. QED
        BY <4>1, <4>2
    <3>4. PICK n \in 0..(w_char_abs - pos) :
               /\ ret = n /\ more = Dev!Bytes(pos, pos + n)
               /\ n = 0 <=> pos = w_char_abs
      BY <2>1, <2>8, <3>3, DeviceRead
    <3> HIDE DEF base, pos, ret, more
    <3>5. /\ n \in Nat /\ pos + n \in Nat /\ pos <= pos + n /\ pos + n <= w_char_abs
          /\ base <= pos + n /\ base \in Nat
      BY <1>a, <2>1, <3>2, <3>4
    <3>6. f_pos'[k] = pos + n
      BY <2>4, <3>2, <3>4, <3>5
    <3>7. reply'[k] = Dev!Bytes(base, pos + n)
      <4>1. Drv!Bytes(base, pos) \o Drv!Bytes(pos, pos + n) = Drv!Bytes(base, pos + n)
        BY <3>2, <3>5, SystemAssumption, SocketAssumption, Drv!BytesConcat
      <4>2. QED
        BY <2>2, <3>1, <3>4, <4>1, SameData
    <3>8. worker'[k].pc = "finish" => worker'[k].err = "ok" /\ pos + n = w_char_abs
      <4>1. SUFFICES ASSUME worker'[k].pc = "finish"
                     PROVE  worker'[k].err = "ok" /\ pos + n = w_char_abs
        OBVIOUS
      <4>2. ~(n > 0) /\ ~(n < 0)
        BY <2>2, <3>4, <3>5, <4>1
      <4>3. worker'[k].err # "err" /\ n = 0
        BY <2>2, <3>4, <3>5, <4>2
      <4>4. worker'[k].err = "ok"
        BY <1>1, <4>3
      <4>5. QED
        BY <3>2, <3>4, <4>3, <4>4
    <3>9. Progress(k)'
      <4>1. f_pos'[k] \in base..w_char_abs'
        BY <1>a, <2>3, <3>5, <3>6
      <4>2. (Dev!Bytes(Base(k), f_pos[k]))' = Dev!Bytes(base, pos + n)
        BY <2>5, <3>6 DEF Dev!Bytes
      <4>3. QED
        BY <2>3, <2>5, <3>6, <3>7, <3>8, <4>1, <4>2 DEF Progress
    <3>10. QED
      BY <1>2, <2>1, <2>5, <2>6, <2>8, <3>9 DEF ReplyOf, base
  <2>9. CASE ~Dev!ReadFails(base) /\ start_abs # 0
    BY <1>2, <2>1, <2>3, <2>5, <2>6, <2>9 DEF ReplyOf
  <2>10. QED
    BY <2>7, <2>8, <2>9
<1>5. QED
  BY <1>3, <1>4

\* Sending to the client leaves the device alone; a client that is gone is owed
\* nothing more.
LEMMA SendReplyKeeps ==
  ASSUME SystemInv, ReplyInv, Running, Running', NEW k \in Conn, SendReply(k)
  PROVE  \A j \in Conn : ReplyOf(j)'
<1>1. /\ Thread(k) /\ worker \in [Conn -> WorkerType] /\ ReplyOf(k) /\ main' # "killed"
      /\ DeviceAlone /\ RepliesKept /\ SendBack(k) /\ client' = client
  BY DEF SendReply, SendBack, clientVars, Thread, SystemInv, SockInv, SockTypeOK, ReplyInv, Running
<1>2. /\ \A j \in Conn : reply'[j] = reply[j]
      /\ target'[k] = target[k] /\ f_pos'[k] = f_pos[k]
      /\ UNCHANGED <<start_abs, w_char_abs, start_char_abs>>
  BY <1>1 DEF DeviceAlone, RepliesKept, bufVars
<1>3. /\ worker[k].pc = "send" /\ worker[k].err = "ok"
      /\ worker'[k].out = worker[k].out /\ worker'[k].did = worker[k].did
      /\ \/ worker'[k].pc = "read_back" /\ worker'[k].err = "ok"
         \/ worker'[k].pc = "finish" /\ client[k] = "gone"
  <2>1. \/ Go(k, "read_back")
        \/ client[k] = "gone" /\ Fail(k, "finish")
    BY <1>1 DEF SendBack, DieOfSignal
  <2>2. worker[k].pc = "send" /\ worker[k].err = "ok"
    BY <1>1, AnswerMoves DEF ReplyOf, NoAnswerYet
  <2>3. QED
    BY <1>1, <2>1, <2>2, GoMoves DEF Reaches, FailsTo, Moves
<1>4. NoAnswerYet(k)' /\ Base(k)' = Base(k) /\ (Answering(k)' => Answering(k))
  BY <1>2, <1>3 DEF NoAnswerYet, Base, Answering
<1>5. Dev!ReadFails(Base(k))' <=> Dev!ReadFails(Base(k))
  BY <1>2, <1>4 DEF Dev!ReadFails, Dev!InWindow
<1>6. ~Refusal(k)
  BY <1>3 DEF Refusal
<1>7. Progress(k) => Progress(k)'
  BY <1>1, <1>2, <1>3, <1>4 DEF Progress, Dev!Bytes
<1>8. ReplyOf(k)'
  BY <1>1, <1>2, <1>4, <1>5, <1>6, <1>7 DEF ReplyOf
<1>9. QED
  BY <1>1, <1>2, <1>8, OthersReply

LEMMA ReplyInvNext ==
  ASSUME SystemReads, SystemReads', Replies, ReplyInv, [SystemNext]_sysVars
  PROVE  ReplyInv'
<1>1. SUFFICES ASSUME Running'
               PROVE  \A k \in Conn : ReplyOf(k)'
  BY DEF ReplyInv
<1>2. CASE SystemNext
  <2>a. Running /\ SystemInv
    BY <1>2 DEF SystemNext, SystemReads
  <2>1. ASSUME NEW k \in Conn, OpenDevice(k) \/ UseDevice(k) \/ ReadDevice(k) \/ SendReply(k)
        PROVE  \A j \in Conn : ReplyOf(j)'
    BY <1>1, <2>a, <2>1, OpenReply, UseReply, ReadReply, SendReplyKeeps
  <2>2. ASSUME NEW k \in Conn, CloseDevice(k)
        PROVE  \A j \in Conn : ReplyOf(j)'
    <3>1. Thread(k) /\ worker'[k].pc = "done"
      BY <2>2, <2>a, AnswerMoves
         DEF CloseDevice, Thread, Reaches, Moves, SystemInv, SockInv, SockTypeOK
    <3>2. reply'[k] = <<>> /\ \A j \in Conn \ {k} : reply'[j] = reply[j]
      BY <2>2 DEF CloseDevice, Replies
    <3>3. ReplyOf(k)'
      BY <3>1, <3>2, Resting
    <3>4. QED
      BY <2>a, <3>1, <3>2, <3>3, OthersReply
  <2>3. ASSUME NEW k \in Conn, Elsewhere, Thread(k)
        PROVE  \A j \in Conn : ReplyOf(j)'
    <3>1. DeviceAlone /\ RepliesKept
      BY <2>3 DEF Elsewhere
    <3> DEFINE Beside(j) == \/ StartThread(j) \/ OpenTmp(j) \/ ReadClient(j) \/ SpoolPiece(j)
                            \/ CloseTmp(j) \/ Lock(j) \/ CopyPacket(j) \/ Unlock(j)
    <3>2. CASE \E j \in Conn : Beside(j)
      BY <2>a, <3>1, <3>2, BesideReply
    <3>3. CASE ~\E j \in Conn : Beside(j)
      <4>a. worker \in [Conn -> WorkerType]
        BY <2>a DEF SystemInv, SockInv, SockTypeOK
      <4>1. main = "joining"
        BY <2>a, <2>3, ThreadIsCur DEF SystemInv, SockInv
      <4>2. worker[k].pc # "read" /\ worker'[k].pc # worker[k].pc
        <5>1. main' # "killed"
          BY <1>1 DEF Running
        <5>2. OpenOut(k) \/ Reopen(k) \/ WriteDevice(k) \/ ReadBack(k) \/ SendBack(k) \/ FinishThread(k)
          BY <2>3, <3>3 DEF Thread
        <5>3. QED
          BY <4>a, <5>1, <5>2, DeviceMoves, AnswerMoves DEF Reaches, FailsTo, Moves
      <4>3. worker' = worker \/ \E j \in Conn : worker[j].pc = "read" /\ FailsTo(j, "close_tmp")
        BY <2>3, <3>3, <4>a, <4>1, GoMoves
           DEF Elsewhere, CheckQuit, EnterAccept, Accept, AcceptFails, CreateThread,
               CreateThreadFails, JoinThread, SignalMain, SignalThread, Connect, SendPiece, HangUp
      <4>4. QED
        BY <4>2, <4>3 DEF FailsTo, Moves
    <3>4. QED
      BY <3>2, <3>3
  <2>4. CASE Elsewhere /\ \A k \in Conn : ~Thread(k)
    <3>1. SockNext /\ DeviceAlone /\ RepliesKept
      BY <1>2, <2>4, SystemStepIsSockStep DEF Elsewhere, SockNext, Main, SystemNext, Thread
    <3>2. QED
      BY <2>a, <2>4, <3>1, QuietReply
  <2>5. CASE EndServer
    BY <1>1, <2>5 DEF EndServer, CloseSock, Running
  <2>6. QED
    BY <1>2, <2>1, <2>2, <2>3, <2>4, <2>5 DEF SystemNext
<1>3. CASE UNCHANGED sysVars
  <2>1. /\ UNCHANGED <<main, worker, client, reply, target, f_pos>>
        /\ UNCHANGED <<start_abs, w_char_abs, start_char_abs>>
    BY <1>3 DEF sysVars, sockVars, bufVars
  <2>2. Running
    BY <1>1, <2>1 DEF Running
  <2>3. QED
    BY <2>1, <2>2, Undisturbed DEF ReplyInv
<1>4. QED
  BY <1>2, <1>3

LEMMA NoneFinishingNext ==
  ASSUME SockTypeOK, Arrivals, OneThread, NoneFinishing, [SockNext]_sockVars
  PROVE  NoneFinishing'
<1>a. worker \in [Conn -> WorkerType]
  BY DEF SockTypeOK
<1>1. CASE UNCHANGED sockVars
  BY <1>1 DEF sockVars, NoneFinishing, Running
<1>2. ASSUME SockNext, ~Running', NEW k \in Conn, Thread(k)
      PROVE  \A j \in Conn : worker'[j].pc # "finish"
  <2>1. Running /\ main = "joining" /\ k = cur
    BY <1>2, ThreadIsCur DEF SockNext
  <2>2. main' # main
    BY <1>2, <2>1 DEF Running
  <2>3. SendBack(k)
    BY <1>2, <2>2 DEF Thread, StartThread, OpenTmp, ReadClient, SpoolPiece, CloseTmp, OpenOut, Lock,
                      Reopen, CopyPacket, WriteDevice, Unlock, ReadBack, FinishThread, mainVars
  <2>4. UNCHANGED worker /\ worker[k].pc = "send"
    BY <1>a, <2>2, <2>3, AnswerMoves
  <2>5. \A j \in Conn \ {k} : worker[j].pc \in {"none", "done"}
    BY <2>1 DEF OneThread, Live
  <2>6. QED
    BY <2>4, <2>5
<1>3. ASSUME SockNext, ~Running', \A k \in Conn : ~Thread(k)
      PROVE  \A j \in Conn : worker'[j].pc # "finish"
  <2>1. Running
    BY <1>3 DEF SockNext
  <2>2. \/ main = "joining" /\ Joinable(cur) /\ UNCHANGED worker
        \/ main = "closing" /\ UNCHANGED worker
    BY <1>3, <2>1, OtherMoves DEF Running, Accept
  <2>3. \A j \in Conn : Live(j) => j = cur /\ main = "joining"
    BY <2>1 DEF OneThread, Running
  <2>4. QED
    BY <2>2, <2>3 DEF Live, Joinable
<1>4. QED
  BY <1>1, <1>2, <1>3 DEF NoneFinishing

LEMMA ReplyInit ==
  ASSUME SystemInit
  PROVE  Replies /\ ReplyInv /\ NoneFinishing
<1>1. /\ \A k \in Conn : reply[k] = <<>> /\ worker[k].pc = "none" /\ worker[k].out = "none"
      /\ Replies
  BY DEF SystemInit, SockInit, NoWorker, Replies
<1>2. QED
  BY <1>1 DEF ReplyInv, ReplyOf, NoAnswerYet, Answering, NoneFinishing

LEMMA SystemAnswers ==
  SystemSpec => [](SystemReads /\ Replies /\ ReplyInv /\ NoneFinishing)
<1> DEFINE AnswerInv == SystemReads /\ Replies /\ ReplyInv /\ NoneFinishing
<1>1. SystemInit => AnswerInv
  BY SystemReadsInit, ReplyInit
<1>2. AnswerInv /\ [SystemNext]_sysVars => AnswerInv'
  <2>1. SUFFICES ASSUME AnswerInv, [SystemNext]_sysVars
                 PROVE  AnswerInv'
    OBVIOUS
  <2>2. SystemReads' /\ Replies'
    BY <2>1, SystemReadsNext, RepliesNext
  <2>3. ReplyInv'
    BY <2>1, <2>2, ReplyInvNext
  <2>4. NoneFinishing'
    BY <2>1, SystemStepIsSockStep, NoneFinishingNext DEF SystemReads, SystemInv, SockInv
  <2>5. QED
    BY <2>2, <2>3, <2>4
<1>3. QED
  BY <1>1, <1>2, PTL DEF SystemSpec

\* The server's state, the driver's under it, the answers and the seeks stay in
\* their types, in all behaviours of aesdsocket.c and main.c together.
THEOREM SystemTypeCorrect == SystemSpec => []SystemTypeOK
<1>1. SystemReads /\ Replies => SystemTypeOK
  <2>1. SUFFICES ASSUME SystemReads, Replies
                 PROVE  SystemTypeOK
    OBVIOUS
  <2>2. SockTypeOK /\ Drv!TypeOK /\ Files
    BY <2>1 DEF SystemReads, SystemInv, SockInv, Drv!IInv
  <2>3. Dev!TypeOK
    BY <2>2, Zenon DEF Dev!TypeOK, Drv!TypeOK, Dev!Slots, Drv!Slots, Dev!U8, Drv!U8
  <2>4. QED
    BY <2>1, <2>2, <2>3 DEF SystemTypeOK, Dev!DevTypeOK, Files, Replies
<1>2. QED
  BY <1>1, SystemAnswers, PTL

\* The answer of a thread that is about to close.
LEMMA AnsweredIs ==
  ASSUME SystemReads, ReplyInv, NoneFinishing, NEW k \in Conn, Answered(k)
  PROVE  /\ Base(k) \in Nat
         /\ IF Dev!ReadFails(Base(k))
              THEN worker[k].err = "err" /\ reply[k] = <<>>
              ELSE start_abs = 0 =>
                     worker[k].err = "ok" /\ reply[k] = Dev!Bytes(Base(k), w_char_abs)
<1>1. Running /\ worker[k].pc = "finish" /\ worker[k].out = "fd" /\ client[k] = "connected"
  BY DEF Answered, NoneFinishing
<1>2. ReplyOf(k) /\ Answering(k)
  BY <1>1 DEF ReplyInv, Answering
<1>3. QED
  BY <1>1, <1>2 DEF ReplyOf, Refusal, Progress

\* A client that sent text and stays gets the lines of all clients so far, every
\* complete one once and in order, however the reads of proc_new_connection
\* divide them, until the first line is evicted; from then on the reads that start at position
\* 0 fail and no text is answered again.
THEOREM TextAnswersCorrect == SystemSpec => []TextIsAnsweredUntilForgotten
<1>1. SystemReads /\ ReplyInv /\ NoneFinishing => TextIsAnsweredUntilForgotten
  <2>1. SUFFICES ASSUME SystemReads, ReplyInv, NoneFinishing, NEW k \in Conn, Answered(k),
                        worker[k].did = "written"
                 PROVE  IF start_abs = 0
                          THEN worker[k].err = "ok" /\ reply[k] = Dev!Bytes(0, w_char_abs)
                          ELSE worker[k].err = "err" /\ reply[k] = <<>>
    BY DEF TextIsAnsweredUntilForgotten
  <2>2. Base(k) = 0
    BY <2>1 DEF Base
  <2>3. Dev!ReadFails(0) <=> start_abs # 0
    BY <2>1, WindowFromStart
  <2>4. QED
    BY <2>1, <2>2, <2>3, AnsweredIs
<1>2. QED
  BY <1>1, SystemAnswers, PTL

\* A client that sent a seek and stays gets the text from where the ioctl put the
\* file, which is the file the same thread reads, or nothing from behind the end.
THEOREM SeekAnswersCorrect == SystemSpec => []SeekIsAnsweredFromTarget
<1>1. SystemReads /\ ReplyInv /\ NoneFinishing => SeekIsAnsweredFromTarget
  <2>1. SUFFICES ASSUME SystemReads, ReplyInv, NoneFinishing, NEW k \in Conn, Answered(k),
                        worker[k].did = "sought", start_abs = 0
                 PROVE  IF target[k] <= w_char_abs
                          THEN worker[k].err = "ok" /\ reply[k] = Dev!Bytes(target[k], w_char_abs)
                          ELSE worker[k].err = "err" /\ reply[k] = <<>>
    BY DEF SeekIsAnsweredFromTarget
  <2>2. Base(k) = target[k] /\ target[k] \in Nat /\ w_char_abs \in Nat
    BY <2>1, AnsweredIs, SystemCounts DEF Base
  <2>3. Dev!ReadFails(target[k]) <=> target[k] > w_char_abs
    BY <2>1, <2>2, WindowFromStart
  <2>4. target[k] > w_char_abs <=> ~(target[k] <= w_char_abs)
    BY <2>2
  <2>5. QED
    BY <2>1, <2>2, <2>3, <2>4, AnsweredIs
<1>2. QED
  BY <1>1, SystemAnswers, PTL

-----------------------------------------------------------------------------
(* Theorems *)

\* Also with the device underneath, only a connection that failed leaves
\* descriptors open: the early returns of proc_new_connection and
\* write_to_out_file.
THEOREM SystemLeaksCorrect == SystemSpec => []OnlyFailuresLeak
BY SystemImplementsServer, LeaksCorrect, PTL

\* Also with the device underneath, accept gives up unasked only for want of
\* descriptors.
THEOREM SystemStopsForDescriptors == SystemSpec => []UnaskedStop
BY SystemImplementsServer, UnaskedStopCorrect, PTL

\* A thread uses the device only through a file it has open: its ioctl or write
\* on the descriptor it locked for, its reads on out_fd, its close at the end.
DeviceOpenWhenUsed ==
  Running => \A k \in Conn :
    /\ worker[k].pc \in {"copy", "write"} => k \in opened
    /\ worker[k].pc \in {"read_back", "send", "finish"} /\ worker[k].out = "fd" => k \in opened

THEOREM SystemUsesOpenFiles == SystemSpec => []DeviceOpenWhenUsed
<1>1. SystemInv => DeviceOpenWhenUsed
  BY DEF SystemInv, SockInv, FilesAreDescriptors, HoldsDevice, FdsByPlace, FdsOf,
         DeviceOpenWhenUsed
<1>2. QED
  BY <1>1, SystemInvariant, PTL

\* Whatever the connections do and however they end, the slots of the device
\* hold the last N lines and its accumulator what was written since the last
\* newline, by whichever client.
THEOREM SystemKeepsRing == SystemSpec => [](Drv!RingHoldsRecentLines /\ Drv!PendingIntact)
<1>1. SystemInv => Drv!RingHoldsRecentLines /\ Drv!PendingIntact
  BY DEF SystemInv, Drv!IInv
<1>2. QED
  BY <1>1, SystemInvariant, PTL

\* Towards its clients the server, with the driver and the circular buffer
\* beneath it, is a history of lines: what each thread writes is appended, a
\* newline ends a line, the N last lines are kept, and nothing else, no seek,
\* read, early return or signal, changes them.
THEOREM SystemImplementsHistory == SystemSpec => Drv!ImplementsHistory
<1> DEFINE InBound == accepted <= MaxBytes
<1>1. MaxBytes < U32
  BY SystemAssumption
<1>2. SystemInit => Drv!History!HistoryInit /\ InBound
  <2>1. SystemInit => Drv!Init
    BY Zenon DEF SystemInit, Dev!DevInit, Dev!Init, Drv!Init, Dev!Slots, Drv!Slots,
                 Dev!aesd_init_entry, Drv!aesd_init_entry, Dev!NullEntry, Drv!NullEntry
  <2>2. Drv!Init => accepted <= MaxBytes
    BY SystemAssumption DEF Drv!Init
  <2>3. Drv!Init => Drv!History!HistoryInit
    BY SystemAssumption, SocketAssumption, Drv!HistoryStart
  <2>4. QED
    BY <2>1, <2>2, <2>3
<1>3. InBound /\ SystemInv /\ [SystemNext]_sysVars => InBound'
  <2>1. SystemInv /\ [SystemNext]_sysVars => [Drv!Next]_(Drv!vars)
    BY SystemStepsDevice DEF SystemInv, SockInv, DeviceSteps
  <2>2. QED
    BY <2>1, SystemAssumption, SocketAssumption, Drv!BytesBound
<1>4. SystemInv /\ InBound' /\ [SystemNext]_sysVars =>
        [Drv!History!HistoryNext]_(Drv!History!historyVars)
  <2>1. SystemInv /\ [SystemNext]_sysVars => [Drv!Next]_(Drv!vars)
    BY SystemStepsDevice DEF SystemInv, SockInv, DeviceSteps
  <2>2. QED
    BY <1>1, <2>1, SystemAssumption, SocketAssumption, Drv!BufferStepMaps DEF SystemInv
<1> HIDE DEF InBound
<1>5. QED
  BY <1>2, <1>3, <1>4, SystemInvariant, PTL
     DEF SystemSpec, Drv!ImplementsHistory, Drv!History!HistorySpec
-----------------------------------------------------------------------------
(* Which packets are taken for a seek (SeekCommand) *)

Bytes == {"AESD", "CHAR", "1", "2", "comma", "nl", "sp"}

\* Both the packet and the memory behind it are read as bytes.
SeekInv == packet \in Seq(Bytes) /\ tail \in Seq(Bytes)

\* trim_crlf cuts behind the last byte that is no line end.
TextEnd(s) == Max({i \in 1..Len(s) : s[i] # "nl"} \cup {0})

LEMMA TrimmedLast ==
  ASSUME NEW s \in Seq(Bytes)
  PROVE  /\ TextEnd(s) \in 0..Len(s)
         /\ TextEnd(s) # 0 => s[TextEnd(s)] # "nl"
         /\ \A i \in 1..Len(s) : i > TextEnd(s) => s[i] = "nl"
         /\ Trimmed(s) = SubSeq(s, 1, TextEnd(s))
         /\ Trimmed(s) \in Seq(Bytes)
         /\ Len(Trimmed(s)) = TextEnd(s)
         /\ \A i \in 1..TextEnd(s) : Trimmed(s)[i] = s[i]
<1> DEFINE S == {i \in 1..Len(s) : s[i] # "nl"} \cup {0}
           D == {Len(s) - i : i \in S}
<1>1. Len(s) \in Nat /\ S \subseteq 0..Len(s) /\ 0 \in S
  OBVIOUS
<1>2. D \in SUBSET Nat /\ D # {}
  <2> HIDE DEF S
  <2>1. \A i \in S : Len(s) - i \in Nat
    BY <1>1
  <2>2. QED
    BY <1>1, <2>1
<1>3. PICK m \in S : \A i \in S : m >= i
  <2> HIDE DEF S
  <2>1. Min(D) \in D /\ \A y \in D : Min(D) <= y
    <3> HIDE DEF D
    <3>1. QED
      BY <1>2, MinNat
  <2>2. PICK m \in S : Min(D) = Len(s) - m
    BY <2>1
  <2>3. ASSUME NEW i \in S
        PROVE  m >= i
    <3>1. Len(s) - m <= Len(s) - i
      BY <2>1, <2>2
    <3>2. QED
      BY <1>1, <3>1
  <2>4. QED
    BY <2>3
<1>4. TextEnd(s) \in S /\ \A i \in S : TextEnd(s) >= i
  <2> HIDE DEF S
  <2>1. TextEnd(s) = Max(S)
    BY DEF TextEnd, S
  <2>2. QED
    BY <1>3, <2>1 DEF Max
<1>5. TextEnd(s) \in 0..Len(s)
  BY <1>1, <1>4
<1>6. TextEnd(s) # 0 => s[TextEnd(s)] # "nl"
  BY <1>4
<1>7. \A i \in 1..Len(s) : i > TextEnd(s) => s[i] = "nl"
  BY <1>4, <1>5
<1>8. Trimmed(s) = SubSeq(s, 1, TextEnd(s))
  BY DEF Trimmed, TextEnd
<1>9. /\ SubSeq(s, 1, TextEnd(s)) \in Seq(Bytes)
      /\ Len(SubSeq(s, 1, TextEnd(s))) = TextEnd(s)
      /\ \A i \in 1..TextEnd(s) : SubSeq(s, 1, TextEnd(s))[i] = s[i]
  BY <1>1, <1>5
<1>10. QED
  BY <1>5, <1>6, <1>7, <1>8, <1>9

\* A number is not empty, has no comma, ends in a digit and has no line end
\* behind a digit.
LEMMA NumberBytes ==
  ASSUME NEW s \in Seq(Bytes), NEW a \in Nat \ {0}, NEW b \in 0..Len(s),
         Number(SubSeq(s, a, b))
  PROVE  /\ a <= b
         /\ \A i \in a..b : s[i] \in Digits \cup {"nl", "sp"}
         /\ \A i, j \in a..b : i < j /\ s[i] \in Digits => s[j] \in Digits
         /\ s[b] \in Digits
<1> DEFINE t == SubSeq(s, a, b)
<1>1. Len(s) \in Nat /\ b \in Nat /\ b <= Len(s)
  OBVIOUS
<1>2. /\ Len(t) = IF a <= b THEN (b + 1) - a ELSE 0
      /\ \A i \in a..b : (i + 1) - a \in 1..Len(t) /\ t[(i + 1) - a] = s[i]
  BY <1>1
<1> HIDE DEF t
<1>3. PICK k \in 0..(Len(t) - 1) : /\ \A i \in 1..k : t[i] \in {"nl", "sp"}
                                  /\ \A i \in (k + 1)..Len(t) : t[i] \in Digits
  BY DEF Number, t
<1>4. a <= b
  BY <1>1, <1>2, <1>3
<1>5. Len(t) = (b + 1) - a
  BY <1>2, <1>4
<1>6. \A i \in a..b : IF (i + 1) - a <= k THEN s[i] \in {"nl", "sp"} ELSE s[i] \in Digits
  <2>1. TAKE i \in a..b
  <2>2. (i + 1) - a \in 1..Len(t) /\ t[(i + 1) - a] = s[i]
    BY <1>2
  <2>3. CASE (i + 1) - a <= k
    <3>1. (i + 1) - a \in 1..k
      BY <2>2, <2>3, <1>3, <1>1
    <3>2. QED
      BY <3>1, <2>2, <2>3, <1>3
  <2>4. CASE ~((i + 1) - a <= k)
    <3>1. (i + 1) - a \in (k + 1)..Len(t)
      BY <2>2, <2>4, <1>3, <1>1, <1>5
    <3>2. QED
      BY <3>1, <2>2, <2>4, <1>3
  <2>5. QED
    BY <2>3, <2>4
<1>7. (b + 1) - a > k /\ b \in a..b
  BY <1>1, <1>3, <1>4, <1>5
<1>8. \A i, j \in a..b : i < j /\ ~((i + 1) - a <= k) => ~((j + 1) - a <= k)
  BY <1>1, <1>3
<1>9. "nl" \notin Digits /\ "sp" \notin Digits
  BY DEF Digits
<1>10. QED
  BY <1>4, <1>6, <1>7, <1>8, <1>9

\* What a match of the whole string says of the bytes.
LEMMA CommaBytes ==
  ASSUME NEW s \in Seq(Bytes), NEW c, c \in Commas(s)
  PROVE  /\ c \in Nat /\ 4 <= c /\ c < Len(s)
         /\ s[1] = "AESD" /\ s[c] = "comma"
         /\ \A i \in 3..Len(s) : s[i] = "comma" => i = c
         /\ \A i, j \in (c + 1)..Len(s) : i < j /\ s[i] \in Digits => s[j] \in Digits
         /\ s[Len(s)] \in Digits
<1>1. PICK d \in 3..Len(s) :
        /\ d = c /\ s[1] = "AESD" /\ s[d] = "comma"
        /\ Number(SubSeq(s, 3, d - 1)) /\ Number(SubSeq(s, d + 1, Len(s)))
  BY DEF Commas
<1>2. Len(s) \in Nat /\ d \in Nat /\ d - 1 \in 0..Len(s) /\ d + 1 \in Nat \ {0}
      /\ Len(s) \in 0..Len(s) /\ 3 \in Nat \ {0}
  <2>1. Len(s) \in Nat
    OBVIOUS
  <2>2. d \in Int /\ 3 <= d /\ d <= Len(s)
    BY <2>1
  <2>3. QED
    BY <2>1, <2>2
<1>3. /\ 3 <= d - 1
      /\ \A i \in 3..(d - 1) : s[i] \in Digits \cup {"nl", "sp"}
  BY <1>1, <1>2, NumberBytes
<1>4. /\ d + 1 <= Len(s)
      /\ \A i \in (d + 1)..Len(s) : s[i] \in Digits \cup {"nl", "sp"}
      /\ \A i, j \in (d + 1)..Len(s) : i < j /\ s[i] \in Digits => s[j] \in Digits
      /\ s[Len(s)] \in Digits
  BY <1>1, <1>2, NumberBytes
<1>5. 4 <= d /\ d < Len(s)
  BY <1>2, <1>3, <1>4
<1>6. ASSUME NEW i \in 3..Len(s), s[i] = "comma", i # d
      PROVE  FALSE
  <2>1. "comma" \notin Digits \cup {"nl", "sp"}
    BY DEF Digits
  <2>2. i \in 3..(d - 1) \/ i \in (d + 1)..Len(s)
    <3>1. i \in Int /\ 3 <= i /\ i <= Len(s) /\ i # d /\ d \in Nat /\ Len(s) \in Nat
      <4>1. i \in Int /\ 3 <= i /\ i <= Len(s)
        BY <1>2
      <4>2. QED
        BY <1>2, <1>6, <4>1
    <3>2. QED
      BY <3>1
  <2>3. QED
    BY <1>3, <1>4, <1>6, <2>1, <2>2
<1>7. QED
  BY <1>1, <1>2, <1>4, <1>5, <1>6

\* A string is a seek exactly when it matches.
LEMMA SeekIsMatch ==
  ASSUME NEW s
  PROVE  parse_seek_command(s) = AsText <=> Commas(Trimmed(s)) = {}
<1> DEFINE t == Trimmed(s)
           c == CHOOSE c \in Commas(t) : TRUE
           a == OnlyDigits(SubSeq(t, 1, c))
           b == OnlyDigits(SubSeq(t, c, Len(t)))
<1>1. parse_seek_command(s) = IF Commas(t) = {} THEN AsText ELSE <<a, b>>
  BY Zenon DEF parse_seek_command
<1> HIDE DEF a, b
<1>2. <<a, b>> # << >>
  <2>1. Len(<<a, b>>) = 2 /\ Len(<< >>) = 0
    OBVIOUS
  <2>2. QED
    BY <2>1
<1>3. QED
  BY <1>1, <1>2 DEF AsText

\* Nothing but line ends.
Blank(s) == \A i \in DOMAIN s : s[i] = "nl"

\* Line ends behind the packet are trimmed with its own.
LEMMA BlankTailIsTrimmed ==
  ASSUME SeekInv, Blank(tail)
  PROVE  Trimmed(packet \o tail) = Trimmed(packet)
<1>1. /\ packet \in Seq(Bytes) /\ tail \in Seq(Bytes) /\ packet \o tail \in Seq(Bytes)
      /\ Len(packet) \in Nat /\ Len(tail) \in Nat
      /\ Len(packet \o tail) = Len(packet) + Len(tail)
      /\ \A i \in 1..Len(packet) : (packet \o tail)[i] = packet[i]
      /\ \A i \in (Len(packet) + 1)..(Len(packet) + Len(tail)) :
           (packet \o tail)[i] = tail[i - Len(packet)]
  BY DEF SeekInv
<1> DEFINE s == packet \o tail
<1>2. s \in Seq(Bytes)
  BY <1>1
<1>3. \A i \in (Len(packet) + 1)..(Len(packet) + Len(tail)) : s[i] = "nl"
  <2>1. TAKE i \in (Len(packet) + 1)..(Len(packet) + Len(tail))
  <2>2. i - Len(packet) \in DOMAIN tail
    BY <1>1
  <2>3. QED
    BY <1>1, <2>2 DEF Blank
<1> HIDE DEF s
<1>4. {i \in 1..Len(s) : s[i] # "nl"} = {i \in 1..Len(packet) : packet[i] # "nl"}
  <2>1. Len(s) = Len(packet) + Len(tail) /\ \A i \in 1..Len(packet) : s[i] = packet[i]
    BY <1>1 DEF s
  <2>2. ASSUME NEW i
        PROVE  i \in 1..Len(s) /\ s[i] # "nl" <=> i \in 1..Len(packet) /\ packet[i] # "nl"
    <3>1. i \in 1..Len(s) <=> \/ i \in 1..Len(packet)
                             \/ i \in (Len(packet) + 1)..(Len(packet) + Len(tail))
      BY <1>1, <2>1
    <3>2. i \in 1..Len(packet) => i \in 1..Len(s)
      BY <3>1
    <3>3. QED
      BY <1>3, <2>1, <3>1, <3>2
  <2>3. QED
    BY <2>2
<1>5. TextEnd(s) = TextEnd(packet)
  BY <1>4, Zenon DEF TextEnd
<1>6. /\ TextEnd(packet) \in 0..Len(packet) /\ Trimmed(s) \in Seq(Bytes)
      /\ Trimmed(packet) \in Seq(Bytes)
      /\ Len(Trimmed(s)) = TextEnd(packet) /\ Len(Trimmed(packet)) = TextEnd(packet)
      /\ \A i \in 1..TextEnd(packet) : Trimmed(s)[i] = s[i]
      /\ \A i \in 1..TextEnd(packet) : Trimmed(packet)[i] = packet[i]
  BY <1>1, <1>2, <1>5, TrimmedLast
<1>7. \A i \in 1..TextEnd(packet) : Trimmed(s)[i] = Trimmed(packet)[i]
  BY <1>1, <1>6 DEF s
<1>8. Trimmed(s) = Trimmed(packet)
  BY <1>6, <1>7, SeqEqual
<1>9. QED
  BY <1>8 DEF s

\* A line end inside the string ends the second number, so a seek command with
\* anything but line ends behind it does not match.
LEMMA TextBehindSpoils ==
  ASSUME SeekInv, Line(packet), Commas(Trimmed(packet)) # {}, ~Blank(tail)
  PROVE  Commas(Trimmed(packet \o tail)) = {}
<1> DEFINE s == packet \o tail
           n == Len(packet)
           p == Trimmed(packet)
           t == Trimmed(s)
<1>1. SUFFICES ASSUME NEW c, c \in Commas(t)
               PROVE  FALSE
  OBVIOUS
<1>2. /\ packet \in Seq(Bytes) /\ tail \in Seq(Bytes) /\ s \in Seq(Bytes)
      /\ n \in Nat /\ Len(tail) \in Nat /\ Len(s) = n + Len(tail)
      /\ \A i \in 1..n : s[i] = packet[i]
      /\ \A i \in 1..Len(tail) : s[n + i] = tail[i]
  BY DEF SeekInv
<1>3. n >= 1 /\ packet[n] = "nl"
  BY <1>2 DEF Line
<1>4. PICK e \in 1..Len(tail) : tail[e] # "nl"
  BY <1>2 DEF Blank
<1>5. PICK c0 : c0 \in Commas(p)
  OBVIOUS
<1> HIDE DEF s, n, p, t
<1>6. /\ TextEnd(packet) \in Nat /\ TextEnd(packet) <= n /\ p \in Seq(Bytes) /\ Len(p) = TextEnd(packet)
      /\ TextEnd(packet) # 0 => packet[TextEnd(packet)] # "nl"
      /\ \A i \in 1..TextEnd(packet) : p[i] = packet[i]
  <2>1. /\ TextEnd(packet) \in 0..Len(packet) /\ p \in Seq(Bytes) /\ Len(p) = TextEnd(packet)
        /\ TextEnd(packet) # 0 => packet[TextEnd(packet)] # "nl"
        /\ \A i \in 1..TextEnd(packet) : p[i] = packet[i]
    BY <1>2, TrimmedLast DEF p
  <2>2. QED
    BY <1>2, <2>1 DEF n
<1>7. /\ TextEnd(s) \in 0..Len(s) /\ t \in Seq(Bytes) /\ Len(t) = TextEnd(s)
      /\ \A i \in 1..Len(s) : i > TextEnd(s) => s[i] = "nl"
      /\ \A i \in 1..TextEnd(s) : t[i] = s[i]
  BY <1>2, TrimmedLast DEF t
<1>8. /\ c0 \in Nat /\ 4 <= c0 /\ c0 < Len(p) /\ Len(p) \in Nat
      /\ p[c0] = "comma" /\ p[Len(p)] \in Digits
  <2>1. Len(p) \in Nat
    BY <1>2, <1>6
  <2>2. QED
    BY <1>5, <1>6, <2>1, CommaBytes
<1>9. /\ c \in Nat /\ 4 <= c /\ c < Len(t) /\ Len(t) \in Nat
      /\ \A i \in 3..Len(t) : t[i] = "comma" => i = c
      /\ \A i, j \in (c + 1)..Len(t) : i < j /\ t[i] \in Digits => t[j] \in Digits
  <2>1. Len(t) \in Nat
    BY <1>7
  <2>2. QED
    BY <1>1, <1>7, <2>1, CommaBytes
\* The string reaches beyond the packet.
<1>10. TextEnd(s) > n
  <2>1. n + e \in 1..Len(s) /\ s[n + e] # "nl"
    BY <1>2, <1>4
  <2>2. n + e <= TextEnd(s)
    BY <1>2, <1>7, <2>1
  <2>3. QED
    BY <1>2, <1>4, <1>7, <2>2
\* The packet's last digit lies before its line end.
<1>11. Len(p) < n
  <2>1. Len(p) # 0
    BY <1>6, <1>8
  <2>2. Len(p) # n
    BY <1>3, <1>6, <2>1
  <2>3. QED
    BY <1>2, <1>6, <2>2
<1>12. \A i \in 1..n : t[i] = packet[i]
  BY <1>2, <1>7, <1>10
\* The packet's comma is the only one.
<1>13. c = c0
  <2>1. c0 \in 1..TextEnd(packet) /\ c0 \in 1..n /\ c0 \in 3..Len(t)
    BY <1>2, <1>6, <1>7, <1>8, <1>10
  <2>2. t[c0] = "comma"
    BY <1>6, <1>8, <1>12, <2>1
  <2>3. QED
    BY <1>9, <2>1, <2>2
\* Behind it a digit and then the line end.
<1>14. Len(p) \in (c + 1)..Len(t) /\ n \in (c + 1)..Len(t)
  BY <1>2, <1>6, <1>7, <1>8, <1>10, <1>11, <1>13
<1>15. t[Len(p)] \in Digits
  <2>1. Len(p) \in 1..n /\ Len(p) \in 1..TextEnd(packet)
    BY <1>2, <1>6, <1>8, <1>11
  <2>2. QED
    BY <1>6, <1>8, <1>12, <2>1
<1>16. t[n] = "nl"
  BY <1>2, <1>3, <1>12
<1>17. t[n] \in Digits
  BY <1>9, <1>11, <1>14, <1>15
<1>18. QED
  BY <1>16, <1>17 DEF Digits

\* What is taken for a seek begins with the command word, so its packet does.
LEMMA SeekBeginsAsOne ==
  ASSUME SeekInv, Commas(Trimmed(packet \o tail)) # {}
  PROVE  packet = << >> \/ packet[1] = "AESD"
<1> DEFINE s == packet \o tail
           t == Trimmed(s)
<1>1. SUFFICES ASSUME packet # << >>
               PROVE  packet[1] = "AESD"
  OBVIOUS
<1>2. s \in Seq(Bytes) /\ s[1] = packet[1]
  BY <1>1 DEF SeekInv
<1>3. PICK c : c \in Commas(t)
  OBVIOUS
<1> HIDE DEF s, t
<1>4. t \in Seq(Bytes) /\ Len(t) = TextEnd(s) /\ \A i \in 1..TextEnd(s) : t[i] = s[i]
  BY <1>2, TrimmedLast DEF t
<1>5. Len(t) \in Nat /\ 1 <= Len(t) /\ t[1] = "AESD"
  <2>1. Len(t) \in Nat
    BY <1>4
  <2>2. c \in Nat /\ 4 <= c /\ c < Len(t) /\ t[1] = "AESD"
    BY <1>3, <1>4, CommaBytes
  <2>3. QED
    BY <2>1, <2>2
<1>6. 1 \in 1..TextEnd(s)
  BY <1>4, <1>5
<1>7. QED
  BY <1>2, <1>4, <1>5, <1>6

LEMMA SeekInvInit == SeekInit => SeekInv
BY DEF SeekInit, SeekInv

LEMMA SeekInvStep == SeekInv /\ [SeekNext]_<<packet, tail>> => SeekInv'
<1>1. SUFFICES ASSUME SeekInv, [SeekNext]_<<packet, tail>>
               PROVE  SeekInv'
  OBVIOUS
<1>a. SeekInv
  BY <1>1
<1>2. ASSUME NEW b \in {"AESD", "CHAR", "1", "comma", "nl", "sp"}, Receive(b)
      PROVE  SeekInv'
  <2>1. b \in Bytes
    BY DEF Bytes
  <2>2. QED
    BY <1>a, <1>2, <2>1 DEF SeekInv, Receive
<1>3. ASSUME NEW b \in {"AESD", "CHAR", "2", "comma", "nl", "sp"}, Behind(b)
      PROVE  SeekInv'
  <2>1. b \in Bytes
    BY DEF Bytes
  <2>2. QED
    BY <1>a, <1>3, <2>1 DEF SeekInv, Behind
<1>4. CASE UNCHANGED <<packet, tail>>
  BY <1>1, <1>4 DEF SeekInv
<1>5. QED
  BY <1>1, <1>2, <1>3, <1>4 DEF SeekNext

LEMMA OperandsFromInv ==
  ASSUME SeekInv
  PROVE  SeekKeepsItsOperands
<1>1. /\ Asked = AsText <=> Commas(Trimmed(packet)) = {}
      /\ Taken = AsText <=> Commas(Trimmed(packet \o tail)) = {}
  BY SeekIsMatch DEF Asked, Taken, Copied
<1>2. ASSUME Asked # AsText, Line(packet)
      PROVE  Taken \in {Asked, AsText}
  <2>1. CASE Blank(tail)
    <3>1. Trimmed(packet \o tail) = Trimmed(packet)
      BY <2>1, BlankTailIsTrimmed
    <3>2. QED
      BY <3>1 DEF Taken, Asked, Copied, parse_seek_command
  <2>2. CASE ~Blank(tail)
    BY <1>1, <1>2, <2>2, TextBehindSpoils
  <2>3. QED
    BY <2>1, <2>2
<1>3. ASSUME Taken # AsText
      PROVE  packet = << >> \/ packet[1] = "AESD"
  BY <1>1, <1>3, SeekBeginsAsOne
<1>4. QED
  BY <1>2, <1>3 DEF SeekKeepsItsOperands

\* write_to_out_file copies a packet without a terminator, and parse_seek_command
\* reads on.  For packets and memory of any length, a seek command sent as a whole
\* line is carried out with its own operands or, with text behind the copy, not as a
\* seek; and no packet that does not begin as a seek command is taken for one.
THEOREM SeeksKeepTheirOperands == SeekSpec => []SeekKeepsItsOperands
<1>1. SeekInit => SeekInv
  BY SeekInvInit
<1>2. SeekInv /\ [SeekNext]_<<packet, tail>> => SeekInv'
  BY SeekInvStep
<1>3. SeekInv => SeekKeepsItsOperands
  BY OperandsFromInv
<1>4. QED
  BY <1>1, <1>2, <1>3, PTL DEF SeekSpec
=============================================================================
