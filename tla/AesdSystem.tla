------------------------------- MODULE AesdSystem -------------------------------
(***************************************************************************)
(* The server on top of the driver: the connection threads of AesdSocket      *)
(* open, write, seek and read the device of AesdCharDriver, whose outcomes     *)
(* AesdSocket chooses freely and which are now computed.                      *)
(*                                                                         *)
(* A piece that a client sends is one byte; a packet is MaxSend pieces and     *)
(* its last byte is the newline.  The handle of a connection is the file that  *)
(* its thread opened.  The driver's own bounce buffers are always allocated.   *)
(***************************************************************************)
EXTENDS AesdSocket

CONSTANTS
  N,          \* AESDCHAR_MAX_WRITE_OPERATIONS_SUPPORTED
  U32,        \* 2^32
  MaxBytes,   \* bound: bytes on the device
  BufSize,    \* BUF_SIZE, the length of one read of the device
  Positions,  \* bound: file positions
  Seeks       \* bound: the seeks sent, as pairs of command and offset

\* The driver's assumptions, and seeks that stay inside its array.
ASSUME SystemAssumption ==
  /\ N \in 1..255
  /\ U32 \in Nat /\ U32 > 2 * N + 1
  /\ MaxBytes \in Nat /\ MaxBytes < U32 \div 2
  /\ BufSize \in Nat \ {0}
  /\ Positions \subseteq Int /\ 0 \in Positions
  /\ Seeks \subseteq (0..N) \X Nat

VARIABLES
  entry, in_offs, out_offs, full, w_abs, start_abs, w_char_abs, start_char_abs,
  tmp_entry, accepted, log, opened, f_pos,    \* the driver's, see AesdCharDriver
  reply,      \* connection -> the bytes its thread read from the device
  target      \* connection -> where its ioctl put the file position

Dev == INSTANCE AesdCharDriver
         WITH Handle <- Conn, MaxChunk <- MaxSend, MaxLen <- BufSize, SeekOffs <- {}

bufVars == <<entry, in_offs, out_offs, full, w_abs, start_abs, w_char_abs, start_char_abs,
             tmp_entry, accepted, log>>
sysVars == <<sockVars, bufVars, opened, f_pos, reply, target>>

NoSeek == -1

DeviceAlone == UNCHANGED <<bufVars, opened, f_pos>>
RepliesKept == UNCHANGED <<reply, target>>

\* Every descriptor is closed with the process.
ReleaseAll ==
  /\ opened' = {} /\ f_pos' = [k \in Conn |-> 0]
  /\ UNCHANGED bufVars

OpenDevice(k) ==
  /\ OpenOut(k) \/ Reopen(k)
  /\ IF fds'[k] # fds[k] THEN Dev!aesd_open(k) ELSE DeviceAlone
  /\ RepliesKept

\* write_all of what the one read of the socket got; only the last piece of a
\* packet has the newline.
WriteText(k) ==
  LET n == worker[k].to - worker[k].from
  IN  IF n = 0 THEN DeviceAlone
      ELSE /\ Dev!aesd_write(k, n)
           /\ (log' # log) <=> (worker[k].to = MaxSend)

\* The seek goes to the same file that is read afterwards.
Seek(k) ==
  /\ \E seek \in Seeks : Dev!aesd_unlocked_ioctl(k, seek[1], seek[2])
  /\ target' = [target EXCEPT ![k] = f_pos'[k]]

UseDevice(k) ==
  /\ WriteDevice(k)
  /\ CASE worker'[k].did = "written" -> WriteText(k) /\ UNCHANGED target
       [] worker'[k].did = "sought" -> Seek(k)
       [] OTHER -> DeviceAlone /\ UNCHANGED target
  /\ UNCHANGED reply

\* read(out_fd, ...) is aesd_read: data, 0 at the end, -1 outside the window.
ReadDevice(k) ==
  LET ret == Dev!RaedResult(f_pos[k], BufSize)
  IN  /\ ReadBack(k)
      /\ IF worker[k].out # "fd" THEN DeviceAlone /\ UNCHANGED reply
         ELSE /\ Dev!aesd_read(k, BufSize)
              /\ ret > 0 <=> worker'[k].pc = "send"
              /\ ret < 0 <=> worker'[k].err = "err"
              /\ reply' = [reply EXCEPT ![k] = @ \o Dev!RaedData(f_pos[k], BufSize)]
      /\ UNCHANGED target

CloseDevice(k) ==
  /\ FinishThread(k)
  /\ IF "out" \in fds[k] THEN Dev!aesd_release(k) ELSE DeviceAlone
  /\ reply' = [reply EXCEPT ![k] = <<>>]
  /\ target' = [target EXCEPT ![k] = NoSeek]

SendReply(k) ==
  /\ SendBack(k)
  /\ IF main' = "killed" THEN ReleaseAll ELSE DeviceAlone
  /\ RepliesKept

\* The end of main, or the join that reads through NULL.
EndServer ==
  /\ CloseSock \/ (JoinThread /\ main' = "killed")
  /\ ReleaseAll /\ RepliesKept

\* The steps of the server that leave the device alone.
Elsewhere ==
  /\ \/ CheckQuit \/ EnterAccept \/ Accept \/ AcceptFails \/ CreateThread
     \/ CreateThreadFails \/ (JoinThread /\ main' # "killed") \/ SignalMain
     \/ \E k \in Conn :
          \/ StartThread(k) \/ OpenTmp(k) \/ ReadClient(k) \/ SpoolPiece(k) \/ CloseTmp(k)
          \/ Lock(k) \/ CopyPacket(k) \/ Unlock(k)
          \/ SignalThread(k) \/ Connect(k) \/ SendPiece(k) \/ HangUp(k)
  /\ DeviceAlone /\ RepliesKept

SystemInit ==
  /\ SockInit /\ Dev!DevInit
  /\ reply = [k \in Conn |-> <<>>]
  /\ target = [k \in Conn |-> NoSeek]

SystemNext ==
  /\ Running
  /\ \/ Elsewhere \/ EndServer
     \/ \E k \in Conn : \/ OpenDevice(k) \/ UseDevice(k) \/ ReadDevice(k)
                        \/ CloseDevice(k) \/ SendReply(k)

SystemSpec == SystemInit /\ [][SystemNext]_sysVars
-----------------------------------------------------------------------------
(* Properties *)

SystemTypeOK ==
  /\ SockTypeOK /\ Dev!DevTypeOK
  /\ reply \in [Conn -> Seq(0..MaxBytes)]
  /\ target \in [Conn -> Positions \cup {NoSeek}]

\* The thread of the connection is about to close: its answer is complete.
Answered(k) == worker[k].pc = "finish" /\ worker[k].out = "fd" /\ client[k] = "connected"

\* A client that sent text gets, until the device forgets its first line, the
\* lines of all clients so far: every complete line of the device once, in
\* order, however the reads and lines divide it.  A packet that ended a line is
\* among them; one that the first read cut is not, its bytes wait in the driver
\* for a newline.  From the first line that is forgotten on, no text is ever
\* answered: the file is new, its position 0 lies before the window, and the
\* read fails.  aesdsocket.c 272-290.
TextIsAnsweredUntilForgotten ==
  \A k \in Conn :
    Answered(k) /\ worker[k].did = "written" =>
      IF start_abs = 0
        THEN worker[k].err = "ok" /\ reply[k] = Dev!Bytes(0, w_char_abs)
        ELSE worker[k].err = "err" /\ reply[k] = <<>>

\* A client that sent a seek gets the rest of the text from that position on, if
\* the device has not forgotten a line, and nothing if it lies behind the text.
SeekIsAnsweredFromTarget ==
  \A k \in Conn :
    Answered(k) /\ worker[k].did = "sought" /\ start_abs = 0 =>
      IF target[k] <= w_char_abs
        THEN worker[k].err = "ok" /\ reply[k] = Dev!Bytes(target[k], w_char_abs)
        ELSE worker[k].err = "err" /\ reply[k] = <<>>

\* Every packet on the device, in accept order, as bytes; a packet of which the
\* server read the newline ends a line.
PacketSizes == [i \in DOMAIN device |-> device[i].to - device[i].from]
Ends(i) == device[i].to = MaxSend
LastEnd == IF \E i \in DOMAIN device : Ends(i) THEN Max({i \in DOMAIN device : Ends(i)}) ELSE 0
BytesUpTo(j) == SumFunctionOnSet(PacketSizes, 1..j)

\* A packet that was cut because its newline had not arrived stays in the
\* driver's accumulator and becomes the beginning of the next client's line.
CutPacketsJoinTheNextLine ==
  /\ accepted = BytesUpTo(Len(device))
  /\ Dev!Committed = BytesUpTo(LastEnd)
  /\ tmp_entry.size = BytesUpTo(Len(device)) - BytesUpTo(LastEnd)
=============================================================================
