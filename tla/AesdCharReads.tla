----------------------------- MODULE AesdCharReads -----------------------------
(***************************************************************************)
(* The driver with a history of what each open file was given: the last byte  *)
(* its reads delivered since its position was set by open, llseek or the      *)
(* ioctl.  Nothing of the driver depends on it.                               *)
(***************************************************************************)
EXTENDS AesdCharDriver

VARIABLE delivered    \* file -> that byte, as its number in the stream

readsVars == <<devVars, delivered>>

NothingYet == -1

Delivers(h, byte) == delivered' = [delivered EXCEPT ![h] = byte]

Reads(h, len) ==
  LET data == RaedData(f_pos[h], len)
  IN  /\ aesd_read(h, len)
      /\ IF data = <<>> THEN UNCHANGED delivered ELSE Delivers(h, data[Len(data)])

SetsPosition(h) ==
  \/ aesd_open(h) \/ aesd_release(h)
  \/ \E whence \in Whence, off \in SeekOffs : aesd_llseek(h, whence, off)
  \/ \E cmd \in 0..N, ofs \in 0..MaxChunk : aesd_unlocked_ioctl(h, cmd, ofs)
  \/ aesd_unlocked_ioctl_beyond(h)

ReadsInit == DevInit /\ delivered = [h \in Handle |-> NothingYet]

ReadsNext ==
  \E h \in Handle :
    \/ \E len \in 1..MaxLen : Reads(h, len)
    \/ SetsPosition(h) /\ Delivers(h, NothingYet)
    \/ \E len \in 1..MaxLen : aesd_read_fault(h, len) /\ UNCHANGED delivered
    \/ \E n \in 1..MaxChunk : aesd_write(h, n) /\ UNCHANGED delivered

ReadsSpec == ReadsInit /\ [][ReadsNext]_readsVars
-----------------------------------------------------------------------------
(* Properties *)

\* Until lines of different sizes are evicted, the reads of a file continue one
\* another: its position is where the last byte it was given ends, and the next
\* read begins with the byte behind that one, whatever other files read, seek and
\* write in between, and however often copy_to_user fails on the way.
ReadsContinue ==
  NoWrap /\ w_abs < U32 \div 2
  /\ (start_abs = 0 \/ \A i, j \in DOMAIN log : LineSize(log[i]) = LineSize(log[j]))
  => \A h \in opened :
       delivered[h] # NothingYet =>
         /\ f_pos[h] = delivered[h]
         /\ InWindow(f_pos[h]) =>
              RaedData(f_pos[h], 1) = Bytes(delivered[h], Min({delivered[h] + 1, Committed}))
=============================================================================
