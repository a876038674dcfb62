------------------------------- MODULE AesdSocket -------------------------------
(***************************************************************************)
(* The aesdsocket server (server/aesdsocket.c): the main thread accepts a    *)
(* connection, starts a thread for it and joins that thread before the next  *)
(* accept; the thread reads the client's packet, hands it to the aesdchar     *)
(* device under a mutex, and sends back what the device holds.  SIGINT and    *)
(* SIGTERM set quit_sig.                                                     *)
(*                                                                         *)
(* A step is what a thread does up to its next system call that can block,   *)
(* fail or be seen by others.  Clients, the device, the descriptor table and  *)
(* the outcomes of system calls are the environment: what comes back from a   *)
(* call is chosen from what the code distinguishes.  The timer is not started *)
(* (its call is commented out), so nothing else uses the device.             *)
(***************************************************************************)
EXTENDS Integers, Sequences, FiniteSets, FiniteSetsExt, Functions

CONSTANTS
  Conn,       \* the connections of a behaviour, each made once
  Nobody,     \* the owner of a free mutex
  Backlog,    \* connections the kernel queues (listen(sock, 3))
  MaxFd,      \* descriptors the process may have open, the listening socket included
  MaxSend,    \* bound: pieces a client sends
  MaxRounds,  \* bound: reads that return data in one read-back
  MaxFaults   \* bound: environment failures (no memory, no thread, failed open or write)

ASSUME SocketAssumption ==
  /\ Nobody \notin Conn
  /\ IsFiniteSet(Conn)
  /\ Backlog \in Nat \ {0}
  /\ MaxFd \in Nat /\ MaxFd >= 2
  /\ MaxSend \in Nat \ {0}
  /\ MaxRounds \in Nat
  /\ MaxFaults \in Nat

VARIABLES
  main,       \* where the main thread is
  cur,        \* its new_fd: the connection it accepted last
  quit_sig,
  mutex,      \* owner of the mutex around the device
  worker,     \* connection -> its thread
  fds,        \* connection -> the descriptors open on its behalf
  backlog,    \* connections the kernel holds for accept, oldest first
  client,     \* connection -> its client's end
  sent,       \* connection -> pieces its client sent
  taken,      \* connection -> pieces its thread read
  device,     \* history: what was written to the device, in order
  served,     \* history: the connections in the order they were accepted
  answered,   \* history: the connections something was sent back to
  faults      \* environment failures so far

mainVars   == <<main, cur>>
clientVars == <<backlog, client, sent>>
histories  == <<device, served, answered>>
sockVars   == <<main, cur, quit_sig, mutex, worker, fds, backlog, client, sent,
                taken, device, served, answered, faults>>

Running == main \notin {"exited", "killed"}

\* Descriptors in use: the listening socket and those of the connections.
OpenFds == 1 + SumFunctionOnSet([k \in Conn |-> Cardinality(fds[k])], Conn)
FdAvailable == OpenFds < MaxFd

Fault == faults < MaxFaults /\ faults' = faults + 1
NoFault == UNCHANGED faults

\* A call that needs a descriptor fails for lack of one, or for another reason.
OpenFails == IF FdAvailable THEN Fault ELSE NoFault

NoWorker == [pc |-> "none", err |-> "ok", out |-> "none", from |-> 0, to |-> 0,
             did |-> "none", rounds |-> 0]

Live(k) == worker[k].pc \notin {"none", "done"}

Go(k, pc) == worker' = [worker EXCEPT ![k].pc = pc]
Fail(k, pc) == worker' = [worker EXCEPT ![k].pc = pc, ![k].err = "err"]
OpenFor(k, what) == fds' = [fds EXCEPT ![k] = @ \cup {what}]
CloseFor(k, what) == fds' = [fds EXCEPT ![k] = @ \ what]

-----------------------------------------------------------------------------
(* The main thread *)

\* while (quit_sig == 0)
CheckQuit ==
  /\ main = "check"
  /\ main' = IF quit_sig = 0 THEN "calling" ELSE "closing"
  /\ UNCHANGED <<cur, quit_sig, mutex, worker, fds, taken, faults, clientVars, histories>>

\* Between the test of quit_sig and the moment accept sleeps.
EnterAccept ==
  /\ main = "calling"
  /\ main' = "accepting"
  /\ UNCHANGED <<cur, quit_sig, mutex, worker, fds, taken, faults, clientVars, histories>>

Accept ==
  /\ main = "accepting" /\ backlog # <<>> /\ FdAvailable
  /\ main' = "create"
  /\ cur' = Head(backlog)
  /\ backlog' = Tail(backlog)
  /\ OpenFor(cur', "sock")
  /\ served' = Append(served, cur')
  /\ UNCHANGED <<quit_sig, mutex, worker, client, sent, taken, device, answered, faults>>

\* Any error of accept ends the server.
AcceptFails ==
  /\ main = "accepting" /\ OpenFails
  /\ main' = "closing"
  /\ UNCHANGED <<cur, quit_sig, mutex, worker, fds, taken, clientVars, histories>>

\* create_thread_and_run up to pthread_join.
CreateThread ==
  /\ main = "create"
  /\ main' = "joining"
  /\ Go(cur, "start")
  /\ UNCHANGED <<cur, quit_sig, mutex, fds, taken, faults, clientVars, histories>>

\* malloc or pthread_create fails: the connection stays open, nobody serves it.
CreateThreadFails ==
  /\ main = "create" /\ Fault
  /\ main' = "check"
  /\ worker' = [worker EXCEPT ![cur].err = "err"]
  /\ UNCHANGED <<cur, quit_sig, mutex, fds, taken, clientVars, histories>>

\* The thread is waited for until it succeeds.
Bug_JoinSuccess(k) == worker[k].pc = "done" /\ worker[k].err = "ok"
\* The next connection is accepted without waiting for the thread.
Bug_Joinable(k) == worker[k].pc # "none"
Joinable(k) == worker[k].pc = "done"

\* A signal that is not handled ends the process and closes what it has open.
DieOfSignal == main' = "killed" /\ fds' = [k \in Conn |-> {}]

\* pthread_join, then *(int*)ret, which faults when the thread returned NULL.
JoinThread ==
  /\ main = "joining" /\ Joinable(cur)
  /\ IF worker[cur].err = "null" THEN DieOfSignal ELSE main' = "check" /\ UNCHANGED fds
  /\ UNCHANGED <<cur, quit_sig, mutex, worker, taken, faults, clientVars, histories>>

\* The end of main: exit closes what is still open.
CloseSock ==
  /\ main = "closing"
  /\ main' = "exited"
  /\ fds' = [k \in Conn |-> {}]
  /\ UNCHANGED <<cur, quit_sig, mutex, worker, taken, faults, clientVars, histories>>

Main == \/ CheckQuit \/ EnterAccept \/ Accept \/ AcceptFails \/ CreateThread
        \/ CreateThreadFails \/ JoinThread \/ CloseSock

-----------------------------------------------------------------------------
(* The thread of a connection: proc_new_connection *)

StartThread(k) ==
  /\ worker[k].pc = "start"
  /\ \/ Go(k, "open_tmp") /\ NoFault
     \* no memory for the result: pthread_exit(NULL)
     \/ worker' = [worker EXCEPT ![k].pc = "done", ![k].err = "null"] /\ Fault
  /\ UNCHANGED <<mainVars, quit_sig, mutex, fds, taken, clientVars, histories>>

OpenTmp(k) ==
  /\ worker[k].pc = "open_tmp"
  /\ \/ FdAvailable /\ OpenFor(k, "tmp") /\ Go(k, "read") /\ NoFault
     \/ OpenFails /\ Fail(k, "done") /\ UNCHANGED fds
  /\ UNCHANGED <<mainVars, quit_sig, mutex, taken, clientVars, histories>>

\* read(new_fd, ...) returns what has arrived, 0 after the client closed, or an
\* error when the client reset the connection.
ReadClient(k) ==
  /\ worker[k].pc = "read"
  /\ \/ /\ taken[k] < sent[k]
        /\ taken' = [taken EXCEPT ![k] = sent[k]]
        /\ worker' = [worker EXCEPT ![k].pc = "spool", ![k].from = taken[k],
                                    ![k].to = sent[k]]
     \/ /\ client[k] = "gone" /\ taken[k] = sent[k]
        /\ worker' = [worker EXCEPT ![k].pc = "close_tmp", ![k].from = taken[k],
                                    ![k].to = taken[k]]
        /\ UNCHANGED taken
     \/ client[k] = "gone" /\ Fail(k, "close_tmp") /\ UNCHANGED taken
  /\ UNCHANGED <<mainVars, quit_sig, mutex, fds, faults, clientVars, histories>>

\* "if (err != 0)" tests the pointer err, not *err: the loop always ends here.
LeavesReadLoop(k) == TRUE

\* write_all to the temporary file.
SpoolPiece(k) ==
  /\ worker[k].pc = "spool"
  /\ \/ Go(k, IF LeavesReadLoop(k) THEN "close_tmp" ELSE "read") /\ NoFault
     \/ Fail(k, "close_tmp") /\ Fault
  /\ UNCHANGED <<mainVars, quit_sig, mutex, fds, taken, clientVars, histories>>

\* The temporary file is closed and removed; after an error new_fd stays open.
CloseTmp(k) ==
  /\ worker[k].pc = "close_tmp"
  /\ CloseFor(k, {"tmp"})
  /\ Go(k, IF worker[k].err = "ok" THEN "open_out" ELSE "done")
  /\ UNCHANGED <<mainVars, quit_sig, mutex, taken, faults, clientVars, histories>>

\* The result is not checked here.
OpenOut(k) ==
  /\ worker[k].pc = "open_out"
  /\ \/ /\ FdAvailable /\ OpenFor(k, "out") /\ NoFault
        /\ worker' = [worker EXCEPT ![k].pc = "lock", ![k].out = "fd"]
     \/ /\ OpenFails /\ UNCHANGED fds
        /\ worker' = [worker EXCEPT ![k].pc = "lock", ![k].out = "failed"]
  /\ UNCHANGED <<mainVars, quit_sig, mutex, taken, clientVars, histories>>

\* A mutex that does not exclude.
Bug_MutexFree == TRUE
MutexFree == mutex = Nobody

\* write_to_out_file: pthread_mutex_lock.
Lock(k) ==
  /\ worker[k].pc = "lock" /\ MutexFree
  /\ mutex' = k
  /\ Go(k, "reopen")
  /\ UNCHANGED <<mainVars, quit_sig, fds, taken, faults, clientVars, histories>>

\* A descriptor of -1 is opened again, into a local variable that nobody closes;
\* the second failure returns with the mutex held.
Reopen(k) ==
  /\ worker[k].pc = "reopen"
  /\ \/ worker[k].out = "fd" /\ Go(k, "copy") /\ UNCHANGED fds /\ NoFault
     \/ worker[k].out # "fd" /\ FdAvailable /\ OpenFor(k, "lent") /\ Go(k, "copy") /\ NoFault
     \/ worker[k].out # "fd" /\ OpenFails /\ Fail(k, "done") /\ UNCHANGED fds
  /\ UNCHANGED <<mainVars, quit_sig, mutex, taken, clientVars, histories>>

\* The copy for parse_seek_command; no memory returns with the mutex held.
CopyPacket(k) ==
  /\ worker[k].pc = "copy"
  /\ \/ Go(k, "write") /\ NoFault
     \/ Fail(k, "done") /\ Fault
  /\ UNCHANGED <<mainVars, quit_sig, mutex, fds, taken, clientVars, histories>>

\* A seek command becomes an ioctl whose result is ignored, anything else is
\* written.  The copy has no terminating NUL, so a seek command may also be
\* taken for text.
WriteDevice(k) ==
  LET w == worker[k]
  IN  /\ w.pc = "write"
      /\ \/ /\ worker' = [worker EXCEPT ![k].pc = "unlock", ![k].did = "sought"]
            /\ UNCHANGED device /\ NoFault
         \/ /\ worker' = [worker EXCEPT ![k].pc = "unlock", ![k].did = "written"]
            /\ device' = IF w.from < w.to
                           THEN Append(device, [conn |-> k, from |-> w.from, to |-> w.to])
                           ELSE device
            /\ NoFault
         \/ Fail(k, "unlock") /\ UNCHANGED device /\ Fault
      /\ UNCHANGED <<mainVars, quit_sig, mutex, fds, taken, served, answered, clientVars>>

\* Reading back although the packet was not written.
Bug_Refused(k) == FALSE
Refused(k) == worker[k].err # "ok"

\* pthread_mutex_unlock; a failed write leaves out_fd and new_fd open.
Unlock(k) ==
  /\ worker[k].pc = "unlock"
  /\ mutex' = Nobody
  /\ Go(k, IF Refused(k) THEN "done" ELSE "read_back")
  /\ UNCHANGED <<mainVars, quit_sig, fds, taken, faults, clientVars, histories>>

\* read(out_fd, ...): data, the end, or an error; always an error when out_fd
\* is still -1.
ReadBack(k) ==
  LET w == worker[k]
  IN  /\ w.pc = "read_back"
      /\ \/ /\ w.out = "fd" /\ w.rounds < MaxRounds
            /\ worker' = [worker EXCEPT ![k].pc = "send", ![k].rounds = @ + 1]
         \/ w.out = "fd" /\ Go(k, "finish")
         \/ Fail(k, "finish")
      /\ UNCHANGED <<mainVars, quit_sig, mutex, fds, taken, faults, clientVars, histories>>

\* write_all to the client.  While the client is connected it succeeds, but may
\* never return (see SockFairness).  Once the client has closed, it may fail or
\* raise SIGPIPE, which is not handled and ends the process.
SendBack(k) ==
  /\ worker[k].pc = "send"
  /\ \/ /\ Go(k, "read_back") /\ answered' = answered \cup {k}
        /\ UNCHANGED <<main, fds>>
     \/ /\ client[k] = "gone" /\ Fail(k, "finish")
        /\ UNCHANGED <<main, fds, answered>>
     \/ client[k] = "gone" /\ DieOfSignal /\ UNCHANGED <<worker, answered>>
  /\ UNCHANGED <<cur, quit_sig, mutex, taken, device, served, faults, clientVars>>

\* The socket is forgotten at the end.
Bug_ClosedAtEnd == {"out"}
ClosedAtEnd == {"out", "sock"}

FinishThread(k) ==
  /\ worker[k].pc = "finish"
  /\ CloseFor(k, ClosedAtEnd)
  /\ Go(k, "done")
  /\ UNCHANGED <<mainVars, quit_sig, mutex, taken, faults, clientVars, histories>>

Thread(k) == \/ StartThread(k) \/ OpenTmp(k) \/ ReadClient(k) \/ SpoolPiece(k)
             \/ CloseTmp(k) \/ OpenOut(k) \/ Lock(k) \/ Reopen(k) \/ CopyPacket(k)
             \/ WriteDevice(k) \/ Unlock(k) \/ ReadBack(k) \/ SendBack(k)
             \/ FinishThread(k)

-----------------------------------------------------------------------------
(* Signals and clients *)

\* The main thread takes SIGINT or SIGTERM: an accept that sleeps for want of a
\* connection returns -1, which ends the server; anywhere else only the flag is
\* set.  A signal may come again.
SignalMain ==
  /\ quit_sig' = 1
  /\ main' = IF main = "accepting" /\ backlog = <<>> THEN "closing" ELSE main
  /\ UNCHANGED <<cur, mutex, worker, fds, taken, faults, clientVars, histories>>

\* A connection's thread takes it: a sleeping read of the socket returns -1.
SignalThread(k) ==
  /\ Live(k)
  /\ quit_sig' = 1
  /\ IF worker[k].pc = "read" /\ taken[k] = sent[k] /\ client[k] = "connected"
       THEN Fail(k, "close_tmp")
       ELSE UNCHANGED worker
  /\ UNCHANGED <<mainVars, mutex, fds, taken, faults, clientVars, histories>>

Connect(k) ==
  /\ client[k] = "idle" /\ Len(backlog) < Backlog
  /\ client' = [client EXCEPT ![k] = "connected"]
  /\ backlog' = Append(backlog, k)
  /\ UNCHANGED <<mainVars, quit_sig, mutex, worker, fds, sent, taken, faults, histories>>

SendPiece(k) ==
  /\ client[k] = "connected" /\ sent[k] < MaxSend
  /\ sent' = [sent EXCEPT ![k] = @ + 1]
  /\ UNCHANGED <<mainVars, quit_sig, mutex, worker, fds, backlog, client, taken,
                 faults, histories>>

HangUp(k) ==
  /\ client[k] = "connected"
  /\ client' = [client EXCEPT ![k] = "gone"]
  /\ UNCHANGED <<mainVars, quit_sig, mutex, worker, fds, backlog, sent, taken,
                 faults, histories>>

SockInit ==
  /\ main = "check"
  /\ cur = Nobody
  /\ quit_sig = 0
  /\ mutex = Nobody
  /\ worker = [k \in Conn |-> NoWorker]
  /\ fds = [k \in Conn |-> {}]
  /\ backlog = <<>>
  /\ client = [k \in Conn |-> "idle"]
  /\ sent = [k \in Conn |-> 0]
  /\ taken = [k \in Conn |-> 0]
  /\ device = <<>>
  /\ served = <<>>
  /\ answered = {}
  /\ faults = 0

SockNext ==
  /\ Running
  /\ \/ Main
     \/ SignalMain
     \/ \E k \in Conn : \/ Thread(k) \/ SignalThread(k)
                        \/ Connect(k) \/ SendPiece(k) \/ HangUp(k)

SockSpec == SockInit /\ [][SockNext]_sockVars

\* write to a client that is connected and does not read can sleep for ever
\* once the socket's buffers are full (aesdsocket.c 185).
AwaitsReader(k) == worker[k].pc = "send" /\ client[k] = "connected"

\* What a connected client does: it sends, takes what is sent to it, or closes.
ClientActs(k) == SendPiece(k) \/ HangUp(k) \/ (AwaitsReader(k) /\ SendBack(k))

\* The scheduler runs both threads, except while one waits for its client; and
\* a connected client does not stay idle for ever.
SockFairness ==
  /\ WF_sockVars(Running /\ Main)
  /\ \A k \in Conn : /\ WF_sockVars(Running /\ ~AwaitsReader(k) /\ Thread(k))
                      /\ WF_sockVars(Running /\ ClientActs(k))

FairSockSpec == SockSpec /\ SockFairness
-----------------------------------------------------------------------------
(* Properties *)

MainPlace == {"check", "calling", "accepting", "create", "joining", "closing", "exited", "killed"}
ThreadPlace == {"none", "start", "open_tmp", "read", "spool", "close_tmp", "open_out", "lock",
                "reopen", "copy", "write", "unlock", "read_back", "send", "finish", "done"}
WorkerType == [pc : ThreadPlace, err : {"ok", "err", "null"}, out : {"none", "fd", "failed"},
               from : Nat, to : Nat, did : {"none", "sought", "written"}, rounds : Nat]

SockTypeOK ==
  /\ main \in MainPlace
  /\ cur \in Conn \cup {Nobody}
  /\ quit_sig \in 0..1
  /\ mutex \in Conn \cup {Nobody}
  /\ worker \in [Conn -> WorkerType]
  /\ fds \in [Conn -> SUBSET {"sock", "tmp", "out", "lent"}]
  /\ backlog \in Seq(Conn)
  /\ client \in [Conn -> {"idle", "connected", "gone"}]
  /\ sent \in [Conn -> 0..MaxSend]
  /\ taken \in [Conn -> 0..MaxSend]
  /\ device \in Seq([conn : Conn, from : Nat, to : Nat])
  /\ served \in Seq(Conn)
  /\ answered \subseteq Conn
  /\ faults \in 0..MaxFaults

\* Packets reach the device in the order the connections were accepted, at most
\* one per connection, whatever order the clients send in.
Turn(k) == CHOOSE i \in DOMAIN served : served[i] = k
DeviceInAcceptOrder ==
  \A i, j \in DOMAIN device : i < j => Turn(device[i].conn) < Turn(device[j].conn)

\* Nothing is sent back to a client before its packet was written to the device
\* or carried out as a seek: no failed step before that is lost on the way.
AnswerFollowsPacket == \A k \in answered : worker[k].did # "none"

\* The early returns of proc_new_connection and write_to_out_file leave
\* descriptors open, but only after a failure, never the temporary file, and at
\* most two per connection.
OnlyFailuresLeak ==
  Running => \A k \in Conn :
    worker[k].pc = "done" =>
      /\ worker[k].err = "ok" => fds[k] = {}
      /\ "tmp" \notin fds[k]
      /\ Cardinality(fds[k]) <= 2

\* With no failure but the clients', the accept loop ends unasked only after
\* MaxFd - 1 connections failed: each leaves one descriptor open until accept
\* has none left.
UnaskedStop ==
  main = "closing" /\ quit_sig = 0 /\ faults = 0 =>
    Cardinality({k \in Conn : worker[k].err = "err"}) >= MaxFd - 1

\* write_to_out_file returned with the mutex held (its second open or its
\* malloc failed).
LockLeaked == mutex # Nobody /\ worker[mutex].pc = "done"

\* Once the mutex has leaked it stays taken and nothing reaches the device
\* again, whatever connections follow.
LeakedLockStopsDevice ==
  [][LockLeaked => mutex' = mutex /\ UNCHANGED device]_sockVars

\* Every connection is served to its end, by clients that send, read their reply
\* or close; the one thing that can stop it, short of the end of the server, is
\* a leaked mutex.
ConnectionEnds ==
  \A k \in Conn :
    client[k] # "idle" ~> \/ worker[k].pc = "done" \/ worker[k].err # "ok"
                          \/ ~Running \/ LockLeaked

\* After SIGINT or SIGTERM the server ends, unless the mutex leaked, as soon as
\* the main thread gets to its test of quit_sig again: it was not on its way
\* into accept, or there is a connection to accept.
Awake == main \notin {"calling", "accepting"} \/ backlog # <<>>
TerminatesOnceAwake == (quit_sig = 1 /\ Awake) ~> (~Running \/ LockLeaked)

\* What the stop branch of aesdsocket-start-stop relies on ("terminating
\* aesdsocket"): SIGTERM ends the server.
TerminatesAfterSignal == quit_sig = 1 ~> ~Running
=============================================================================
