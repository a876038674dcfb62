----------------------------- MODULE AesdCharDriver -----------------------------
(***************************************************************************)
(* The file operations of the aesdchar driver (aesd-char-driver/main.c) over *)
(* the circular buffer: open files with their positions, and read, write,    *)
(* llseek and the AESDCHAR_IOCSEEKTO ioctl.  A system call is one action:     *)
(* the driver as its callers see it while their calls do not overlap.        *)
(*                                                                         *)
(* Calls that fail before they touch the buffer (no memory for the bounce    *)
(* buffer, an unreadable user buffer, an unknown ioctl number or whence)     *)
(* change nothing and are stuttering steps.                                  *)
(***************************************************************************)
EXTENDS AesdCircularBuffer

CONSTANTS
  Handle,     \* struct file objects
  SeekOffs    \* bound: the offsets given to llseek

\* The device is modelled up to 2^31 lines, where line numbers turn negative.
ASSUME DriverAssumption ==
  /\ SeekOffs \subseteq Int
  /\ 0 \in Positions
  /\ MaxBytes < U32 \div 2

VARIABLES
  opened,     \* the open files
  f_pos       \* file -> file position, a loff_t

devVars == <<entry, in_offs, out_offs, full, w_abs, start_abs, w_char_abs,
             start_char_abs, tmp_entry, accepted, log, opened, f_pos>>

\* Every file position stays inside the bound Positions.
MoveTo(h, pos) == pos \in Positions /\ f_pos' = [f_pos EXCEPT ![h] = pos]

aesd_open(h) ==
  /\ h \notin opened
  /\ opened' = opened \cup {h}
  /\ f_pos' = [f_pos EXCEPT ![h] = 0]
  /\ UNCHANGED vars

aesd_release(h) ==
  /\ h \in opened
  /\ opened' = opened \ {h}
  /\ f_pos' = [f_pos EXCEPT ![h] = 0]
  /\ UNCHANGED vars

\* The file position plays no part in a write.
aesd_write(h, n) ==
  /\ h \in opened
  /\ aesd_circular_buffer_add_entry(n)
  /\ UNCHANGED <<opened, f_pos>>

\* The caller's position moves only when the call returns a count.
aesd_read(h, len) ==
  LET ret == RaedResult(f_pos[h], len)
  IN  /\ h \in opened
      /\ aesd_circular_buffer_raed(f_pos[h], len)
      /\ MoveTo(h, IF ret > 0 THEN f_pos[h] + ret ELSE f_pos[h])
      /\ UNCHANGED opened

\* The position moves before copy_to_user is known to have worked.
Bug_aesd_read_fault(h, len) ==
  /\ h \in opened
  /\ RaedResult(f_pos[h], len) > 0
  /\ aesd_circular_buffer_raed(f_pos[h], len)
  /\ MoveTo(h, f_pos[h] + RaedResult(f_pos[h], len))
  /\ UNCHANGED opened

\* copy_to_user fails: the buffer was read, the caller gets an error.
aesd_read_fault(h, len) ==
  /\ h \in opened
  /\ RaedResult(f_pos[h], len) > 0
  /\ aesd_circular_buffer_raed(f_pos[h], len)
  /\ UNCHANGED <<opened, f_pos>>

Whence == {"SEEK_SET", "SEEK_CUR", "SEEK_END"}

SeekBase(h, whence) ==
  CASE whence = "SEEK_SET" -> start_char_abs
    [] whence = "SEEK_CUR" -> f_pos[h]
    [] whence = "SEEK_END" -> w_char_abs

\* No check of the resulting position.
aesd_llseek(h, whence, off) ==
  /\ h \in opened
  /\ MoveTo(h, SeekBase(h, whence) + off)
  /\ UNCHANGED <<vars, opened>>

\* A position counted from the oldest line and not from the start of the stream.
Bug_SeektoPosition(cmd, ofs) == Uint32(aesd_circular_buffer_get_bytes_to_ofs(cmd, ofs))

\* Where AESDCHAR_IOCSEEKTO puts the file position; both operands are 32 bit.
SeektoPosition(cmd, ofs) ==
  Uint32(aesd_circular_buffer_get_bytes_to_ofs(cmd, ofs) + start_char_abs)

\* Neither the command number nor the offset is checked against the buffer.
aesd_unlocked_ioctl(h, cmd, ofs) ==
  /\ h \in opened
  /\ MoveTo(h, SeektoPosition(cmd, ofs))
  /\ UNCHANGED <<vars, opened>>

\* A command number above N: sizes are added up from memory behind the array.
aesd_unlocked_ioctl_beyond(h) ==
  /\ h \in opened
  /\ \E pos \in {p \in Positions : 0 <= p /\ p < U32} : MoveTo(h, pos)
  /\ UNCHANGED <<vars, opened>>

DevInit == Init /\ opened = {} /\ f_pos = [h \in Handle |-> 0]

DevNext ==
  \E h \in Handle :
    \/ aesd_open(h)
    \/ aesd_release(h)
    \/ \E n \in 1..MaxChunk : aesd_write(h, n)
    \/ \E len \in 1..MaxLen : aesd_read(h, len) \/ aesd_read_fault(h, len)
    \/ \E whence \in Whence, off \in SeekOffs : aesd_llseek(h, whence, off)
    \/ \E cmd \in 0..N, ofs \in 0..MaxChunk : aesd_unlocked_ioctl(h, cmd, ofs)
    \/ aesd_unlocked_ioctl_beyond(h)

DevSpec == DevInit /\ [][DevNext]_devVars
-----------------------------------------------------------------------------
(* Properties *)

DevTypeOK ==
  /\ TypeOK
  /\ opened \subseteq Handle
  /\ f_pos \in [Handle -> Positions]

\* A command number that names a retained line, an offset inside that line.
Seekable(cmd, ofs) == cmd < w_abs - start_abs /\ ofs < LineSize(log[start_abs + cmd + 1])

\* The first byte a read returns after AESDCHAR_IOCSEEKTO.
ByteSought(cmd, ofs) == RaedData(SeektoPosition(cmd, ofs), 1)

\* AESDCHAR_IOCSEEKTO and the read after it both count sizes from slot 0, so
\* their errors cancel: even after evictions a seek to a retained command and
\* an offset inside it reads that byte, as long as the offset is also inside
\* array element cmd and the position falls inside the window.
SeektoErrorsCancel ==
  NoWrap /\ w_abs < U32 \div 2 =>
    \A cmd \in 0..(N - 1), ofs \in 0..(MaxChunk - 1) :
      /\ Seekable(cmd, ofs)
      /\ ofs < Len(entry[cmd])
      /\ InWindow(SeektoPosition(cmd, ofs))
      => ByteSought(cmd, ofs) = <<log[start_abs + cmd + 1].from + ofs + 1>>

\* Once a line has been evicted, a file that was just opened cannot be read:
\* its position 0 lies before the window, and every read returns -1.
FreshReadFailsOnceEvicted == NoWrap => (ReadFails(0) <=> start_abs > 0)

\* What struct aesd_seekto says: "the zero referenced write command to seek
\* into" and "the zero referenced offset within the write".
SeektoReachesCommand ==
  NoWrap /\ w_abs < U32 \div 2 =>
    \A cmd \in 0..(N - 1), ofs \in 0..(MaxChunk - 1) :
      Seekable(cmd, ofs) => ByteSought(cmd, ofs) = <<log[start_abs + cmd + 1].from + ofs + 1>>
=============================================================================
