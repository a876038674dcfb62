-------------------------- MODULE AesdCharDriverProofs --------------------------
(***************************************************************************)
(* Proofs about the driver: its system calls are steps of the circular       *)
(* buffer, so the buffer's invariants hold of the device, and what follows    *)
(* from them for a file that was just opened.                                *)
(***************************************************************************)
EXTENDS AesdCharReads, AesdCircularBufferProofs

\* A move of a file position keeps every position in its bound.
LEMMA MoveType ==
  ASSUME f_pos \in [Handle -> Positions], NEW h \in Handle, NEW pos, MoveTo(h, pos)
  PROVE  f_pos' \in [Handle -> Positions]
BY DEF MoveTo

\* A system call is a step of the buffer or leaves it alone.
LEMMA CallIsBufferStep ==
  ASSUME f_pos \in [Handle -> Positions], NEW h \in Handle,
         \/ aesd_open(h)
         \/ aesd_release(h)
         \/ \E n \in 1..MaxChunk : aesd_write(h, n)
         \/ \E len \in 1..MaxLen : aesd_read(h, len) \/ aesd_read_fault(h, len)
         \/ \E whence \in Whence, off \in SeekOffs : aesd_llseek(h, whence, off)
         \/ \E cmd \in 0..N, ofs \in 0..MaxChunk : aesd_unlocked_ioctl(h, cmd, ofs)
         \/ aesd_unlocked_ioctl_beyond(h)
  PROVE  Next \/ UNCHANGED vars
<1>1. CASE aesd_open(h)
  BY <1>1 DEF aesd_open
<1>2. CASE aesd_release(h)
  BY <1>2 DEF aesd_release
<1>3. CASE \E n \in 1..MaxChunk : aesd_write(h, n)
  BY <1>3 DEF aesd_write, Next
<1>4. CASE \E len \in 1..MaxLen : aesd_read(h, len) \/ aesd_read_fault(h, len)
  <2>1. PICK len \in 1..MaxLen : aesd_read(h, len) \/ aesd_read_fault(h, len)
    BY <1>4
  <2>2. aesd_circular_buffer_raed(f_pos[h], len)
    BY <2>1 DEF aesd_read, aesd_read_fault
  <2>3. f_pos[h] \in Positions
    OBVIOUS
  <2>4. QED
    BY <2>2, <2>3 DEF Next
<1>5. CASE \E whence \in Whence, off \in SeekOffs : aesd_llseek(h, whence, off)
  BY <1>5 DEF aesd_llseek
<1>6. CASE \E cmd \in 0..N, ofs \in 0..MaxChunk : aesd_unlocked_ioctl(h, cmd, ofs)
  BY <1>6 DEF aesd_unlocked_ioctl
<1>7. CASE aesd_unlocked_ioctl_beyond(h)
  BY <1>7 DEF aesd_unlocked_ioctl_beyond
<1>8. QED
  BY <1>1, <1>2, <1>3, <1>4, <1>5, <1>6, <1>7

\* A system call keeps the file positions in their bound.
LEMMA CallKeepsPositions ==
  ASSUME f_pos \in [Handle -> Positions], opened \subseteq Handle, NEW h \in Handle,
         \/ aesd_open(h)
         \/ aesd_release(h)
         \/ \E n \in 1..MaxChunk : aesd_write(h, n)
         \/ \E len \in 1..MaxLen : aesd_read(h, len) \/ aesd_read_fault(h, len)
         \/ \E whence \in Whence, off \in SeekOffs : aesd_llseek(h, whence, off)
         \/ \E cmd \in 0..N, ofs \in 0..MaxChunk : aesd_unlocked_ioctl(h, cmd, ofs)
         \/ aesd_unlocked_ioctl_beyond(h)
  PROVE  f_pos' \in [Handle -> Positions] /\ opened' \subseteq Handle
<1>1. CASE aesd_open(h) \/ aesd_release(h)
  BY <1>1, DriverAssumption DEF aesd_open, aesd_release
<1>2. CASE \E n \in 1..MaxChunk : aesd_write(h, n)
  BY <1>2 DEF aesd_write
<1>3. CASE \E len \in 1..MaxLen : aesd_read(h, len) \/ aesd_read_fault(h, len)
  BY <1>3, MoveType DEF aesd_read, aesd_read_fault
<1>4. CASE \E whence \in Whence, off \in SeekOffs : aesd_llseek(h, whence, off)
  BY <1>4, MoveType DEF aesd_llseek, vars
<1>5. CASE \E cmd \in 0..N, ofs \in 0..MaxChunk : aesd_unlocked_ioctl(h, cmd, ofs)
  BY <1>5, MoveType DEF aesd_unlocked_ioctl
<1>6. CASE aesd_unlocked_ioctl_beyond(h)
  BY <1>6, MoveType DEF aesd_unlocked_ioctl_beyond
<1>7. QED
  BY <1>1, <1>2, <1>3, <1>4, <1>5, <1>6

DevInv == IInv /\ opened \subseteq Handle /\ f_pos \in [Handle -> Positions]

\* Every driver step is a buffer step or leaves the buffer alone.
LEMMA StepMaps ==
  ASSUME DevInv, [DevNext]_devVars
  PROVE  [Next]_vars
<1>1. CASE DevNext
  BY <1>1, CallIsBufferStep DEF DevNext, DevInv
<1>2. CASE UNCHANGED devVars
  BY <1>2 DEF devVars, vars
<1>3. QED
  BY <1>1, <1>2

LEMMA DevInvNext ==
  ASSUME DevInv, [DevNext]_devVars
  PROVE  DevInv'
<1>1. IInv'
  BY StepMaps, InvNext DEF DevInv
<1>2. CASE DevNext
  BY <1>1, <1>2, CallKeepsPositions DEF DevNext, DevInv
<1>3. CASE UNCHANGED devVars
  BY <1>1, <1>3 DEF devVars, DevInv
<1>4. QED
  BY <1>2, <1>3

LEMMA DevInvInit ==
  ASSUME DevInit
  PROVE  DevInv
BY InvInit, DriverAssumption DEF DevInit, DevInv

THEOREM DevInvariant == DevSpec => []DevInv
BY DevInvInit, DevInvNext, PTL DEF DevSpec

\* The file operations of main.c keep the types of the device and of the open files.
THEOREM DevTypeCorrect == DevSpec => []DevTypeOK
<1>1. DevInv => DevTypeOK
  BY DEF DevInv, DevTypeOK, IInv
<1>2. QED
  BY <1>1, DevInvariant, PTL

\* The file operations of main.c, called one after the other, use the buffer
\* only through its operations: what is proved of Spec holds of the device.
LEMMA DriverUsesBuffer == DevSpec => Spec
<1>1. DevInit => Init
  BY DEF DevInit
<1>2. DevInv /\ [DevNext]_devVars => [Next]_vars
  BY StepMaps
<1>3. QED
  BY <1>1, <1>2, DevInvariant, PTL DEF DevSpec, Spec

\* A file that was just opened can be read until the first line is evicted,
\* and never after: aesd_open starts at position 0 and aesd_read hands it on as
\* an absolute position.
THEOREM FreshReadFails == DevSpec => []FreshReadFailsOnceEvicted
<1>1. DevInv => FreshReadFailsOnceEvicted
  <2>1. SUFFICES ASSUME DevInv, NoWrap
                 PROVE  ReadFails(0) <=> start_abs > 0
    BY DEF FreshReadFailsOnceEvicted
  <2>2. start_abs \in Nat /\ start_char_abs \in Nat /\ w_char_abs \in Nat
    BY <2>1, BufferAssumption DEF DevInv, IInv, TypeOK
  <2>3. start_char_abs = 0 <=> start_abs = 0
    BY <2>1, StartPositive DEF DevInv
  <2>4. QED
    BY <2>2, <2>3 DEF ReadFails, InWindow
<1>2. QED
  BY <1>1, DevInvariant, PTL

\* What a call promises the writers: one call after the other, the driver keeps
\* the N last lines written and the unfinished one, whichever files they came
\* from and wherever those files stand.
THEOREM DriverImplementsHistory == DevSpec => ImplementsHistory
<1> DEFINE InBound == accepted <= MaxBytes
<1>1. MaxBytes < U32
  BY DriverAssumption, BufferAssumption
<1>2. DevInit => History!HistoryInit /\ InBound
  <2>1. DevInit => Init
    BY DEF DevInit
  <2>2. Init => accepted <= MaxBytes
    BY BufferAssumption DEF Init
  <2>3. QED
    BY <2>1, <2>2, HistoryStart
<1>3. InBound /\ DevInv /\ [DevNext]_devVars => InBound'
  BY StepMaps, BytesBound
<1>4. DevInv /\ InBound' /\ [DevNext]_devVars =>
        [History!HistoryNext]_(History!historyVars)
  BY <1>1, StepMaps, BufferStepMaps DEF DevInv
<1> HIDE DEF InBound
<1>5. QED
  BY <1>2, <1>3, <1>4, DevInvariant, PTL DEF DevSpec, ImplementsHistory, History!HistorySpec

\* Two 32-bit sums put the position the searched offset behind start_char_abs,
\* unless it falls outside the window.
LEMMA SeekInside ==
  ASSUME ReadInv, NEW v \in Nat, v < U32, InWindow(Uint32(v + start_char_abs))
  PROVE  Uint32(v + start_char_abs) = start_char_abs + v
<1>1. U32 \in Nat \ {0} /\ start_char_abs \in 0..(U32 - 1)
  BY BufferAssumption DEF ReadInv, IInv, TypeOK
<1> DEFINE x == v + start_char_abs
<1>2. CASE x < U32
  <2>1. x \in Nat
    BY <1>1
  <2> HIDE DEF x
  <2>2. Uint32(x) = x
    BY <1>1, <1>2, <2>1, ModSmall DEF Uint32
  <2>3. QED
    BY <1>1, <2>2 DEF x
<1>3. CASE ~(x < U32)
  <2>1. x - U32 \in 0..(U32 - 1) /\ x = U32 * 1 + (x - U32) /\ x - U32 < start_char_abs
    BY <1>1, <1>3
  <2> DEFINE r == x - U32
  <2>2. (U32 * 1 + r) % U32 = r
    <3>1. r \in 0..(U32 - 1) /\ 1 \in Int
      BY <2>1
    <3> HIDE DEF r
    <3>2. QED
      BY <1>1, <3>1, ModOf
  <2>3. Uint32(x) = r
    BY <2>1, <2>2 DEF Uint32
  <2>4. start_char_abs <= r
    BY <2>3 DEF InWindow
  <2>5. FALSE
    BY <1>1, <2>1, <2>4
  <2>6. QED
    BY <2>5
<1>4. QED
  BY <1>2, <1>3

\* An offset inside an array element that holds a line is found in it.
LEMMA SearchFindsElement ==
  ASSUME ReadInv, NEW cmd \in 0..(Retained - 1), NEW ofs \in Nat, ofs < Len(entry[cmd])
  PROVE  /\ PhysicalPrefix(cmd) + ofs \in Nat
         /\ PhysicalPrefix(cmd) + ofs < PhysicalPrefix(N)
         /\ FindIndex(PhysicalPrefix(cmd) + ofs) = [idx |-> start_abs + cmd, ofs |-> ofs]
<1> DEFINE P(k) == PhysicalPrefix(k)
           size == Len(entry[cmd])
           off == P(cmd) + ofs
<1>1. Retained \in 0..N /\ N \in Nat \ {0} /\ TypeOK /\ Retained # 0
  BY CutFacts DEF ReadInv, IInv
<1>2. cmd \in Nat /\ cmd \in 0..N /\ cmd + 1 \in 0..N /\ N \in 0..N /\ cmd \in 0..(N - 1)
  BY <1>1
<1>3. size \in Nat \ {0} /\ P(cmd + 1) = P(cmd) + size
  BY <1>1, <1>2, UsedSlot, PrefixStep
<1>4. \A i, j \in 0..N : i <= j => P(i) <= P(j) /\ P(i) \in Nat
  BY <1>1, PrefixGrows
<1> HIDE DEF P, size
<1>5. P(cmd) \in Nat /\ P(cmd + 1) \in Nat /\ P(N) \in Nat /\ P(cmd + 1) <= P(N)
  <2>1. cmd <= cmd /\ cmd + 1 <= cmd + 1 /\ N <= N /\ cmd + 1 <= N
    BY <1>1, <1>2
  <2>2. QED
    BY <1>2, <1>4, <2>1
<1>6. off \in Nat /\ off < P(cmd + 1) /\ off < P(N) /\ P(cmd) <= off
  <2>1. ofs < size
    BY DEF size
  <2>2. QED
    BY <1>3, <1>5, <2>1
<1> HIDE DEF off
<1>7. PICK s \in 0..(Retained - 1) :
           /\ P(s) <= off
           /\ \/ /\ off < P(s + 1)
                 /\ FindIndex(off) = [idx |-> start_abs + s, ofs |-> off - P(s)]
              \/ /\ s = Retained - 1 /\ P(s + 1) <= off
                 /\ FindIndex(off) = [idx |-> w_abs, ofs |-> 0]
  BY <1>1, <1>6, SearchIs DEF P
<1>8. s \in Nat /\ s \in 0..N /\ s + 1 \in 0..N
  BY <1>1
<1>9. ~(s < cmd)
  <2>1. SUFFICES ASSUME s < cmd
                 PROVE  FALSE
    OBVIOUS
  <2>2. s + 1 <= cmd /\ s # Retained - 1
    BY <1>1, <1>2, <1>8, <2>1
  <2>3. P(s + 1) <= P(cmd) /\ P(s + 1) \in Nat
    BY <1>2, <1>4, <1>8, <2>2
  <2>4. off < P(s + 1)
    BY <1>7, <2>2
  <2>5. QED
    BY <1>5, <1>6, <2>3, <2>4
<1>10. ~(cmd < s)
  <2>1. SUFFICES ASSUME cmd < s
                 PROVE  FALSE
    OBVIOUS
  <2>2. cmd + 1 <= s
    BY <1>2, <1>8, <2>1
  <2>3. P(cmd + 1) <= P(s)
    BY <1>2, <1>4, <1>8, <2>2
  <2>4. P(s) \in Nat
    <3>1. s <= s
      BY <1>8
    <3>2. QED
      BY <1>4, <1>8, <3>1
  <2>5. QED
    BY <1>5, <1>6, <1>7, <2>3, <2>4
<1>11. s = cmd
  BY <1>2, <1>8, <1>9, <1>10
<1>12. ~(P(s + 1) <= off)
  BY <1>5, <1>6, <1>11
<1>13. FindIndex(off) = [idx |-> start_abs + cmd, ofs |-> off - P(cmd)]
  BY <1>7, <1>11, <1>12
<1>14. off - P(cmd) = ofs
  BY <1>5 DEF off
<1>15. QED
  BY <1>6, <1>13, <1>14 DEF P, off

\* AESDCHAR_IOCSEEKTO and the read after it, as long as they agree on the line.
LEMMA ErrorsCancel ==
  ASSUME ReadInv, SlotBytesBounded
  PROVE  SeektoErrorsCancel
<1>1. SUFFICES ASSUME w_abs < U32 \div 2, NEW cmd \in 0..(N - 1), NEW ofs \in 0..(MaxChunk - 1),
                      Seekable(cmd, ofs), ofs < Len(entry[cmd]), InWindow(SeektoPosition(cmd, ofs))
               PROVE  ByteSought(cmd, ofs) = <<log[start_abs + cmd + 1].from + ofs + 1>>
  BY DEF SeektoErrorsCancel
<1> DEFINE from == Cut(cmd)
           next == Cut(cmd + 1)
           v == PhysicalPrefix(cmd) + ofs
           pos == SeektoPosition(cmd, ofs)
<1>2. /\ Retained \in 0..N /\ N \in Nat \ {0} /\ Committed \in Nat /\ Committed < U32
      /\ U32 \in Nat \ {0}
  BY CutFacts, BufferAssumption
<1>3. cmd \in 0..(Retained - 1) /\ cmd \in Nat /\ ofs \in Nat /\ cmd + 1 \in 0..Retained
  <2>1. cmd < Retained
    BY <1>1 DEF Seekable, Retained
  <2>2. QED
    BY <1>2, <2>1, BufferAssumption
<1>4. /\ log[start_abs + cmd + 1].from = from /\ from \in Nat /\ next \in Nat
      /\ LineSize(log[start_abs + cmd + 1]) = next - from /\ next <= Committed
  BY <1>3, LineCuts, CutBound DEF LineSize
<1>5. ofs < next - from
  BY <1>1, <1>4 DEF Seekable
<1>6. v \in Nat /\ v < PhysicalPrefix(N) /\ FindIndex(v) = [idx |-> start_abs + cmd, ofs |-> ofs]
  BY <1>1, <1>3, SearchFindsElement
<1>7. v < U32
  <2> DEFINE all == PhysicalPrefix(N)
  <2>1. all \in Nat /\ all <= Committed /\ v < all
    <3>1. N \in 0..N /\ N <= N
      BY <1>2
    <3>2. QED
      BY <1>6, <3>1, PrefixGrows DEF SlotBytesBounded, ReadInv, IInv
  <2> HIDE DEF all, v
  <2>2. QED
    BY <1>2, <1>6, <2>1
<1>8. pos = Uint32(v + start_char_abs)
  <2>1. Uint32(v) = v
    <3> HIDE DEF v
    <3>1. QED
      BY <1>2, <1>6, <1>7, ModSmall DEF Uint32
  <2>2. QED
    BY <2>1 DEF SeektoPosition, aesd_circular_buffer_get_bytes_to_ofs
<1> HIDE DEF v, pos
<1>9. InWindow(pos)
  BY <1>1 DEF pos
<1>10. pos = start_char_abs + v
  BY <1>6, <1>7, <1>8, <1>9, SeekInside
<1>11. pos - start_char_abs = v /\ start_char_abs \in Nat
  BY <1>6, <1>10, BufferAssumption DEF ReadInv, IInv, TypeOK
<1>12. Start(pos, start_abs + cmd, ofs)
  BY <1>6, <1>11 DEF Start
<1>13. from + ofs <= next
  <2> HIDE DEF from, next
  <2>1. QED
    BY <1>3, <1>4, <1>5
<1>14. RaedData(pos, 1) = Bytes(from + ofs, Min({from + ofs + 1, Committed}))
  <2>1. \A len \in Nat : RaedData(pos, len) = Bytes(from + ofs, Min({from + ofs + len, Committed}))
    BY <1>1, <1>3, <1>9, <1>12, <1>13, ReadIs
  <2> HIDE DEF from
  <2>2. QED
    BY <2>1
<1> HIDE DEF from, next
<1>15. Min({from + ofs + 1, Committed}) = from + ofs + 1
  <2>1. from + ofs + 1 \in Nat /\ from + ofs + 1 <= Committed
    BY <1>2, <1>3, <1>4, <1>5
  <2>2. QED
    BY <1>2, <2>1, MinPair
<1>16. Bytes(from + ofs, from + ofs + 1) = <<from + ofs + 1>>
  BY <1>3, <1>4 DEF Bytes
<1>17. ByteSought(cmd, ofs) = <<from + ofs + 1>>
  BY <1>14, <1>15, <1>16 DEF ByteSought, pos
<1>18. QED
  BY <1>4, <1>17

\* AESDCHAR_IOCSEEKTO counts sizes from array element 0 and so does the search
\* of the read after it: whatever was evicted, the read starts at the byte sought
\* in the retained line, while the offset is inside array element cmd as well and
\* the position inside the window.  No 32-bit sum in between can wrap.
THEOREM SeektoErrorsAlwaysCancel == DevSpec => []SeektoErrorsCancel
<1>1. IInv /\ UnusedEmpty /\ SlotBytesBounded => SeektoErrorsCancel
  <2>1. CASE NoWrap
    BY <2>1, ErrorsCancel DEF ReadInv
  <2>2. CASE ~NoWrap
    BY <2>2 DEF SeektoErrorsCancel
  <2>3. QED
    BY <2>1, <2>2
<1>2. QED
  BY <1>1, DriverUsesBuffer, UnusedAlwaysEmpty, SlotBytesAlwaysBounded, PTL
-----------------------------------------------------------------------------
(* Reads that continue one another *)

\* The history plays no part in what the driver does.
LEMMA ReadsAreCalls == ReadsSpec => DevSpec
<1>1. ReadsInit => DevInit
  BY DEF ReadsInit
<1>2. [ReadsNext]_readsVars => [DevNext]_devVars
  <2>1. CASE ReadsNext
    BY <2>1 DEF ReadsNext, DevNext, Reads, SetsPosition
  <2>2. CASE UNCHANGED readsVars
    BY <2>2 DEF readsVars
  <2>3. QED
    BY <2>1, <2>2
<1>3. QED
  BY <1>1, <1>2, PTL DEF ReadsSpec, DevSpec

\* Where the property speaks: no line was evicted, or all have one size.
OneSize == \A i, j \in DOMAIN log : LineSize(log[i]) = LineSize(log[j])
Steady == NoWrap /\ w_abs < U32 \div 2 /\ (start_abs = 0 \/ OneSize)

DeliveredType == \E Byte : delivered \in [Handle -> Byte]
Continues == Steady => \A h \in opened : delivered[h] # NothingYet => f_pos[h] = delivered[h]

\* The positions of the window are then those of the stream.
LEMMA SteadyStart ==
  ASSUME ReadInv, Steady
  PROVE  Aligned /\ RetainedFrom = start_char_abs /\ start_char_abs \in Nat
<1>1. IInv /\ NoWrap /\ start_char_abs \in Nat /\ RetainedFrom = Cut(0) /\ N \in Nat \ {0}
  BY CutFacts, BufferAssumption DEF ReadInv, IInv, TypeOK
<1>2. CASE start_abs = 0
  <2>1. start_char_abs = 0
    BY <1>1, <1>2, StartPositive
  <2>2. RetainedFrom = 0
    BY <1>1, <1>2 DEF RetainedFrom, IInv, LogPartitions
  <2>3. Slot(start_abs) = 0
    BY <1>1, <1>2, ModSmall DEF Slot
  <2>4. QED
    BY <1>1, <2>1, <2>2, <2>3 DEF Aligned
<1>3. CASE start_abs # 0
  <2>1. OneSize /\ Aligned
    BY <1>3 DEF Steady, OneSize, Aligned
  <2>2. Retained # 0 /\ log # <<>>
    BY <1>1, <1>3, CutFacts
  <2>3. /\ start_char_abs = RetainedFrom + LineSize(log[start_abs + 1]) - LineSize(log[1])
        /\ LineSize(log[1]) \in Nat /\ RetainedFrom \in Nat
    <3>1. RetainedFrom \in Nat
      BY <1>1, <2>2, CutNat, CutFacts
    <3>2. QED
      BY <1>1, <2>2, <3>1, WindowStart DEF IInv, StartCharDrift
  <2>4. 1 \in DOMAIN log /\ start_abs + 1 \in DOMAIN log
    <3>1. w_abs = Len(log) /\ start_abs \in Nat /\ w_abs = start_abs + Retained /\ Retained \in Nat
      BY CutFacts
    <3>2. DOMAIN log = 1..Len(log)
      BY <1>1, LenProperties DEF IInv, TypeOK
    <3>3. QED
      BY <2>2, <3>1, <3>2
  <2>5. LineSize(log[start_abs + 1]) = LineSize(log[1])
    BY <2>1, <2>4 DEF OneSize
  <2>6. RetainedFrom = start_char_abs
    BY <2>3, <2>5
  <2>7. QED
    BY <1>1, <2>1, <2>6
<1>4. QED
  BY <1>2, <1>3

\* What a read then returns: the bytes behind its position.
LEMMA SteadyRead ==
  ASSUME ReadInv, Steady, NEW pos \in Int, InWindow(pos), NEW len \in Nat
  PROVE  RaedData(pos, len) = Bytes(pos, Min({pos + len, Committed})) /\ pos \in Nat
<1> DEFINE first == RetainedFrom + pos - start_char_abs
<1>1. RetainedFrom = start_char_abs /\ start_char_abs \in Nat /\ Aligned
  BY SteadyStart
<1>2. first = pos /\ pos \in Nat
  BY <1>1 DEF InWindow
<1>3. RaedData(pos, len) = Bytes(first, Min({first + len, Committed}))
  BY <1>1, AlignedRead, EmptyRead DEF Steady
<1> HIDE DEF first
<1>4. QED
  BY <1>2, <1>3

\* No step takes a committed line back.
LEMMA LogGrows ==
  ASSUME IInv, [Next]_vars
  PROVE  /\ accepted \in Nat /\ accepted' \in Nat /\ accepted <= accepted'
         /\ Len(log) \in Nat /\ Len(log') \in Nat /\ Len(log) <= Len(log')
         /\ DOMAIN log \subseteq DOMAIN log' /\ \A i \in DOMAIN log : log'[i] = log[i]
<1>1. accepted \in Nat /\ log \in Seq([from : Nat, to : Nat]) /\ TypeOK /\ LogPartitions /\ PendingIntact
  BY DEF IInv, TypeOK
<1>2. Len(log) \in Nat /\ DOMAIN log = 1..Len(log)
  BY <1>1, LenProperties
<1>3. CASE UNCHANGED <<accepted, log>>
  BY <1>1, <1>2, <1>3
<1>4. ASSUME NEW n \in 1..MaxChunk, AddPartial(n)
      PROVE  accepted' = accepted + n /\ log' = log
  BY <1>4 DEF AddPartial
<1>5. ASSUME NEW n \in 1..MaxChunk, AddLine(n)
      PROVE  /\ accepted' = accepted + n /\ Len(log') = Len(log) + 1
             /\ DOMAIN log' = 1..(Len(log) + 1) /\ \A i \in 1..Len(log) : log'[i] = log[i]
  <2>1. log' = Append(log, [from |-> Committed, to |-> accepted + n]) /\ accepted' = accepted + n
    BY <1>5 DEF AddLine
  <2>2. n \in Nat \ {0}
    BY BufferAssumption
  <2>3. QED
    BY <1>1, <2>1, <2>2, LogAppend
<1>6. CASE \E n \in 1..MaxChunk : aesd_circular_buffer_add_entry(n)
  <2>1. PICK n \in 1..MaxChunk : AddPartial(n) \/ AddLine(n)
    BY <1>6 DEF aesd_circular_buffer_add_entry
  <2>2. n \in Nat
    BY BufferAssumption
  <2>3. CASE AddPartial(n)
    BY <1>1, <1>2, <1>4, <2>2, <2>3
  <2>4. CASE AddLine(n)
    BY <1>1, <1>2, <1>5, <2>2, <2>4
  <2>5. QED
    BY <2>1, <2>3, <2>4
<1>7. CASE \E pos \in Positions, len \in 1..MaxLen : aesd_circular_buffer_raed(pos, len)
  BY <1>3, <1>7 DEF aesd_circular_buffer_raed
<1>8. CASE UNCHANGED vars
  BY <1>3, <1>8 DEF vars
<1>9. QED
  BY <1>6, <1>7, <1>8 DEF Next

\* Lines of one size now were of one size before.
LEMMA SteadyBefore ==
  ASSUME IInv, IInv', [Next]_vars, Steady'
  PROVE  Steady
<1> DEFINE half == U32 \div 2
<1>1. /\ accepted \in Nat /\ accepted' \in Nat /\ accepted <= accepted'
      /\ Len(log) \in Nat /\ Len(log') \in Nat /\ Len(log) <= Len(log')
      /\ DOMAIN log \subseteq DOMAIN log' /\ \A i \in DOMAIN log : log'[i] = log[i]
  BY LogGrows
<1>2. U32 \in Nat /\ N \in Nat /\ half \in Int
  BY BufferAssumption
<1>3. NoWrap /\ NoWrap' /\ w_abs' < half
  BY <1>1, <1>2 DEF Steady, NoWrap
<1> HIDE DEF half
<1>4. /\ w_abs = Len(log) /\ w_abs - start_abs = Min({N, Len(log)}) /\ start_abs \in Nat
      /\ w_abs' = Len(log') /\ w_abs' - start_abs' = Min({N, Len(log')}) /\ start_abs' \in Nat
  BY <1>3, BufferAssumption DEF IInv, TypeOK, RingHoldsRecentLines
<1>5. w_abs < half
  BY <1>1, <1>2, <1>3, <1>4
<1>6. start_abs' = 0 => start_abs = 0
  <2>1. /\ Min({N, Len(log)}) = IF N <= Len(log) THEN N ELSE Len(log)
        /\ Min({N, Len(log')}) = IF N <= Len(log') THEN N ELSE Len(log')
    BY <1>1, <1>2, MinPair
  <2>2. QED
    BY <1>1, <1>2, <1>4, <2>1
<1>7. OneSize' => OneSize
  BY <1>1 DEF OneSize, LineSize
<1>8. start_abs' = 0 \/ OneSize'
  BY DEF Steady
<1>9. QED
  BY <1>3, <1>5, <1>6, <1>7, <1>8 DEF Steady, half

\* One file's history is changed and no other's.
LEMMA DeliverOne ==
  ASSUME DeliveredType, NEW h \in Handle, NEW byte, Delivers(h, byte)
  PROVE  /\ DeliveredType'
         /\ delivered'[h] = byte
         /\ \A g \in Handle : g # h => delivered'[g] = delivered[g]
<1>1. PICK Byte : delivered \in [Handle -> Byte]
  BY DEF DeliveredType
<1>2. delivered' = [delivered EXCEPT ![h] = byte]
  BY DEF Delivers
<1>3. delivered' \in [Handle -> Byte \cup {byte}]
  BY <1>1, <1>2
<1>4. DeliveredType'
  BY <1>3 DEF DeliveredType
<1>5. QED
  BY <1>1, <1>2, <1>4

\* A read moves the position to the end of what it delivered.
LEMMA ReadContinues ==
  ASSUME ReadInv, DevInv, DeliveredType, Continues, Steady,
         NEW h \in Handle, NEW len \in 1..MaxLen, Reads(h, len)
  PROVE  Continues'
<1> DEFINE pos == f_pos[h]
           data == RaedData(pos, len)
           ret == RaedResult(pos, len)
<1>1. pos \in Int /\ len \in Nat \ {0} /\ f_pos \in [Handle -> Positions] /\ opened \subseteq Handle
  <2>1. f_pos \in [Handle -> Positions] /\ opened \subseteq Handle
    BY DEF DevInv
  <2>2. len \in Nat \ {0}
    BY BufferAssumption
  <2>3. pos \in Positions
    BY <2>1
  <2>4. QED
    BY <2>1, <2>2, <2>3, BufferAssumption
<1>2. aesd_read(h, len) /\ opened' = opened
  BY DEF Reads, aesd_read
<1>3. f_pos' = [f_pos EXCEPT ![h] = IF ret > 0 THEN pos + ret ELSE pos]
  BY <1>2 DEF aesd_read, MoveTo
<1>4. CASE data = <<>>
  <2>1. ret = -1 \/ ret = 0
    BY <1>4, EmptySeq DEF RaedResult
  <2> HIDE DEF ret
  <2>2. f_pos' = f_pos
    BY <1>1, <1>3, <2>1
  <2>3. delivered' = delivered
    BY <1>4 DEF Reads
  <2>4. QED
    BY <1>2, <2>2, <2>3 DEF Continues
<1>5. CASE data # <<>>
  <2> DEFINE end == Min({pos + len, Committed})
  <2>1. InWindow(pos)
    BY <1>5 DEF RaedData, ReadFails
  <2>2. data = Bytes(pos, end) /\ pos \in Nat /\ Committed \in Nat
    BY <1>1, <2>1, SteadyRead, CutFacts
  <2>3. end \in Nat
    BY <1>1, <2>2, MinPair
  <2>4. pos < end
    <3>1. CASE end <= pos
      <4> HIDE DEF end
      <4>1. 1..(end - pos) = {}
        BY <2>2, <2>3, <3>1
      <4>2. Bytes(pos, end) = <<>>
        BY <4>1 DEF Bytes
      <4>3. QED
        BY <1>5, <2>2, <4>2
    <3> HIDE DEF end
    <3>2. QED
      BY <2>2, <2>3, <3>1
  <2> HIDE DEF end
  <2>5. Len(data) = end - pos /\ data[Len(data)] = end
    <3>1. Len(Bytes(pos, end)) = end - pos /\ \A k \in 1..(end - pos) : Bytes(pos, end)[k] = pos + k
      <4> HIDE DEF pos
      <4>1. pos <= end
        BY <2>2, <2>3, <2>4
      <4>2. QED
        BY <2>2, <2>3, <4>1, BytesSeq
    <3>2. end - pos \in 1..(end - pos) /\ pos + (end - pos) = end
      BY <2>2, <2>3, <2>4
    <3>3. QED
      BY <2>2, <3>1, <3>2
  <2>6. ret = end - pos
    BY <2>1, <2>5 DEF RaedResult, ReadFails
  <2>7. Delivers(h, end)
    BY <1>5, <2>5 DEF Reads
  <2> HIDE DEF ret, data
  <2>8. f_pos' = [f_pos EXCEPT ![h] = end]
    <3>1. ret > 0 /\ pos + ret = end
      BY <2>2, <2>3, <2>4, <2>6
    <3>2. QED
      BY <1>3, <3>1
  <2>9. f_pos'[h] = delivered'[h]
    BY <1>1, <2>7, <2>8, DeliverOne
  <2>10. \A g \in Handle : g # h => f_pos'[g] = f_pos[g] /\ delivered'[g] = delivered[g]
    BY <1>1, <2>7, <2>8, DeliverOne
  <2>11. QED
    BY <1>1, <1>2, <2>9, <2>10 DEF Continues
<1>6. QED
  BY <1>4, <1>5

ReadsInv == DevInv /\ DeliveredType /\ Continues

LEMMA ReadsInvNext ==
  ASSUME ReadsInv, DevInv', UnusedEmpty, [ReadsNext]_readsVars
  PROVE  ReadsInv'
<1>1. [DevNext]_devVars
  <2>1. CASE ReadsNext
    BY <2>1 DEF ReadsNext, DevNext, Reads, SetsPosition
  <2>2. CASE UNCHANGED readsVars
    BY <2>2 DEF readsVars
  <2>3. QED
    BY <2>1, <2>2
<1>2. Steady' => Steady
  BY <1>1, StepMaps, SteadyBefore DEF ReadsInv, DevInv
<1>3. Steady => ReadInv
  BY DEF Steady, ReadInv, ReadsInv, DevInv
<1>4. DevInv /\ DeliveredType /\ opened \subseteq Handle
  BY DEF ReadsInv, DevInv
<1>5. CASE UNCHANGED <<opened, f_pos, delivered>>
  BY <1>2, <1>5 DEF ReadsInv, DeliveredType, Continues
<1>6. ASSUME NEW h \in Handle, NEW len \in 1..MaxLen, Reads(h, len)
      PROVE  ReadsInv'
  <2>1. DeliveredType'
    <3>1. UNCHANGED delivered \/ \E byte : Delivers(h, byte)
      BY <1>6 DEF Reads
    <3>2. UNCHANGED delivered => DeliveredType'
      BY <1>4 DEF DeliveredType
    <3>3. QED
      BY <1>4, <3>1, <3>2, DeliverOne
  <2>2. Steady' => Continues'
    BY <1>2, <1>3, <1>6, ReadContinues DEF ReadsInv
  <2>3. QED
    BY <2>1, <2>2 DEF ReadsInv, Continues
<1>7. ASSUME NEW h \in Handle, SetsPosition(h), Delivers(h, NothingYet)
      PROVE  ReadsInv'
  <2>1. DeliveredType' /\ delivered'[h] = NothingYet
    BY <1>4, <1>7, DeliverOne
  <2>2. \A g \in Handle : g # h => f_pos'[g] = f_pos[g] /\ delivered'[g] = delivered[g]
    <3>1. \A g \in Handle : g # h => f_pos'[g] = f_pos[g]
      BY <1>4, <1>7 DEF SetsPosition, aesd_open, aesd_release, aesd_llseek,
         aesd_unlocked_ioctl, aesd_unlocked_ioctl_beyond, MoveTo, DevInv
    <3>2. QED
      BY <1>4, <1>7, <3>1, DeliverOne
  <2>3. opened' \subseteq opened \cup {h}
    BY <1>7 DEF SetsPosition, aesd_open, aesd_release, aesd_llseek,
       aesd_unlocked_ioctl, aesd_unlocked_ioctl_beyond
  <2>4. Steady' => Continues'
    BY <1>2, <1>4, <2>1, <2>2, <2>3 DEF ReadsInv, Continues
  <2>5. QED
    BY <2>1, <2>4 DEF ReadsInv, Continues
<1>8. CASE UNCHANGED readsVars
  BY <1>5, <1>8 DEF readsVars, devVars
<1>9. CASE ReadsNext
  <2>1. PICK h \in Handle :
          \/ \E len \in 1..MaxLen : Reads(h, len)
          \/ SetsPosition(h) /\ Delivers(h, NothingYet)
          \/ \E len \in 1..MaxLen : aesd_read_fault(h, len) /\ UNCHANGED delivered
          \/ \E n \in 1..MaxChunk : aesd_write(h, n) /\ UNCHANGED delivered
    BY <1>9 DEF ReadsNext
  <2>2. CASE \E len \in 1..MaxLen : aesd_read_fault(h, len) /\ UNCHANGED delivered
    BY <1>5, <2>2 DEF aesd_read_fault
  <2>3. CASE \E n \in 1..MaxChunk : aesd_write(h, n) /\ UNCHANGED delivered
    BY <1>5, <2>3 DEF aesd_write
  <2>4. QED
    BY <1>6, <1>7, <2>1, <2>2, <2>3
<1>10. QED
  BY <1>8, <1>9

\* Reads of one file continue one another until lines of different sizes are
\* evicted: nothing but a read that delivers, an open, a seek or the ioctl moves
\* f_pos, not a failed copy_to_user and no other file.
THEOREM ReadsAlwaysContinue == ReadsSpec => []ReadsContinue
<1>1. ReadsInit => ReadsInv
  <2>1. SUFFICES ASSUME ReadsInit
                 PROVE  ReadsInv
    OBVIOUS
  <2>2. DevInv
    BY <2>1, DevInvInit DEF ReadsInit
  <2>3. delivered = [h \in Handle |-> NothingYet] /\ opened = {}
    BY <2>1 DEF ReadsInit, DevInit
  <2>4. delivered \in [Handle -> {NothingYet}]
    BY <2>3
  <2>5. DeliveredType /\ Continues
    BY <2>3, <2>4 DEF DeliveredType, Continues
  <2>6. QED
    BY <2>2, <2>5 DEF ReadsInv
<1>2. ReadsInv /\ DevInv' /\ UnusedEmpty /\ [ReadsNext]_readsVars => ReadsInv'
  BY ReadsInvNext
<1>3. ReadsInv /\ UnusedEmpty => ReadsContinue
  <2>1. SUFFICES ASSUME ReadsInv, UnusedEmpty, Steady, NEW h \in opened,
                        delivered[h] # NothingYet
                 PROVE  /\ f_pos[h] = delivered[h]
                        /\ InWindow(f_pos[h]) =>
                             RaedData(f_pos[h], 1) =
                               Bytes(delivered[h], Min({delivered[h] + 1, Committed}))
    BY DEF ReadsContinue, Steady, OneSize
  <2>2. f_pos[h] = delivered[h]
    BY <2>1 DEF ReadsInv, Continues
  <2>3. ReadInv /\ f_pos[h] \in Int
    BY <2>1, BufferAssumption DEF ReadInv, ReadsInv, DevInv, Steady
  <2>4. QED
    BY <2>1, <2>2, <2>3, SteadyRead
<1>4. ReadsSpec => [](DevInv /\ UnusedEmpty)
  BY ReadsAreCalls, DevInvariant, DriverUsesBuffer, UnusedAlwaysEmpty, PTL
<1>5. QED
  BY <1>1, <1>2, <1>3, <1>4, PTL DEF ReadsSpec
=============================================================================
