-------------------------- MODULE AesdAllocFaultsProofs --------------------------
(***************************************************************************)
(* Proofs, for every buffer size, bound and number of failed allocations, of   *)
(* what a failed allocation can cost and what it leaves in place.              *)
(*                                                                         *)
(* The argument is a comparison.  Beside the buffer with its lost bytes runs   *)
(* the buffer that would have been, with all bytes in place: it has the same    *)
(* counters and the same log, its slots and its accumulator are read off the    *)
(* log, and what the code does to the one it does to the other.  What is proved  *)
(* of the intact buffer then holds of the counters and sizes of the real one.   *)
(***************************************************************************)
EXTENDS AesdAllocFaults, AesdCircularBufferProofs

-----------------------------------------------------------------------------
(* The intact buffer *)

\* The retained lines, by number, that belong in slot i.
Held(i) == {j \in start_abs..(w_abs - 1) : Slot(j) = i}

\* The slots and the accumulator as they would be without a failure.
IntactSlot(i) == IF Held(i) = {} THEN <<>> ELSE LineBytes(log[(CHOOSE j \in Held(i) : TRUE) + 1])
IntactEntry == [i \in Slots |-> IntactSlot(i)]

IntactTmp ==
  IF accepted = Committed
    THEN [mem |-> IF log = <<>> THEN "null" ELSE "freed", bytes |-> <<>>, size |-> 0]
    ELSE [mem |-> "live", bytes |-> Bytes(Committed, accepted), size |-> accepted - Committed]

Intact == INSTANCE AesdCircularBufferProofs WITH entry <- IntactEntry, tmp_entry <- IntactTmp

-----------------------------------------------------------------------------
(* The inductive invariant *)

\* What is left of bytes some of which were in a lost accumulator.
Mark == [x \in Nat |-> IF x \in spoiled THEN Garbage ELSE x]
Marked(s) == [k \in 1..Len(s) |-> Mark[s[k]]]

\* The real buffer has the sizes of the intact one, and its bytes but for those
\* that were lost.
SameButLost ==
  /\ \A i \in Slots : entry[i] = Marked(IntactSlot(i))
  /\ tmp_entry.size = accepted - Committed
  /\ Carried(tmp_entry) = Marked(Bytes(Committed, accepted))

OopsInv ==
  /\ entry \in [Slots -> Seq(Nat)] /\ tmp_entry \in TmpType /\ TmpSized
  /\ spoiled \subseteq 1..accepted /\ lost \subseteq Slots
  /\ accepted <= MaxBytes
  /\ Intact!IInv
  /\ SameButLost
  /\ OnlyOldestLost

-----------------------------------------------------------------------------
(* What is left of a sequence of bytes *)

LEMMA MarkType == Mark \in [Nat -> Nat]
BY DEF Mark, Garbage

LEMMA MarkedSeq ==
  ASSUME NEW s \in Seq(Nat)
  PROVE  /\ Marked(s) \in Seq(Nat) /\ Len(Marked(s)) = Len(s)
         /\ \A k \in 1..Len(s) : Marked(s)[k] = Mark[s[k]]
<1>1. Len(s) \in Nat /\ \A k \in 1..Len(s) : s[k] \in Nat
  BY LenProperties, ElementOfSeq
<1>2. \A k \in 1..Len(s) : Mark[s[k]] \in Nat
  BY <1>1, MarkType
<1>3. QED
  BY <1>1, <1>2 DEF Marked

\* Where the elements of a concatenation are.
LEMMA ConcatAt ==
  ASSUME NEW u \in Seq(Nat), NEW v \in Seq(Nat)
  PROVE  /\ u \o v \in Seq(Nat) /\ Len(u \o v) = Len(u) + Len(v)
         /\ \A k \in 1..(Len(u) + Len(v)) :
              (u \o v)[k] = IF k <= Len(u) THEN u[k] ELSE v[k - Len(u)]
BY ConcatProperties

LEMMA MarkedConcat ==
  ASSUME NEW s \in Seq(Nat), NEW t \in Seq(Nat)
  PROVE  Marked(s \o t) = Marked(s) \o Marked(t)
<1> DEFINE m == Len(s)
           r == Len(t)
           u == Marked(s)
           v == Marked(t)
           w == Marked(s \o t)
           x == s \o t
           y == u \o v
<1>1. m \in Nat /\ r \in Nat
  BY LenProperties
<1>2. /\ x \in Seq(Nat) /\ Len(x) = m + r
      /\ \A k \in 1..(m + r) : x[k] = IF k <= m THEN s[k] ELSE t[k - m]
  BY ConcatAt
<1>3. /\ u \in Seq(Nat) /\ Len(u) = m /\ \A k \in 1..m : u[k] = Mark[s[k]]
      /\ v \in Seq(Nat) /\ Len(v) = r /\ \A k \in 1..r : v[k] = Mark[t[k]]
  BY MarkedSeq
<1>4. w \in Seq(Nat) /\ Len(w) = m + r /\ \A k \in 1..(m + r) : w[k] = Mark[x[k]]
  BY <1>2, MarkedSeq
<1> HIDE DEF m, r, u, v, w, x
<1>5. /\ y \in Seq(Nat) /\ Len(y) = m + r
      /\ \A k \in 1..(m + r) : y[k] = IF k <= m THEN u[k] ELSE v[k - m]
  <2>1. u \in Seq(Nat) /\ v \in Seq(Nat) /\ Len(u) = m /\ Len(v) = r
    BY <1>3
  <2>2. /\ y \in Seq(Nat) /\ Len(y) = Len(u) + Len(v)
        /\ \A k \in 1..(Len(u) + Len(v)) : y[k] = IF k <= Len(u) THEN u[k] ELSE v[k - Len(u)]
    BY <2>1, ConcatAt
  <2> HIDE DEF y
  <2>3. QED
    BY <2>1, <2>2
<1> HIDE DEF y
<1>6. ASSUME NEW k \in 1..(m + r)
      PROVE  w[k] = y[k]
  <2>1. CASE k <= m
    <3>1. k \in 1..m
      BY <1>1, <2>1
    <3>2. x[k] = s[k] /\ y[k] = u[k]
      BY <1>2, <1>5, <2>1
    <3>3. QED
      BY <1>3, <1>4, <3>1, <3>2
  <2>2. CASE ~(k <= m)
    <3>1. k - m \in 1..r
      BY <1>1, <2>2
    <3>2. x[k] = t[k - m] /\ y[k] = v[k - m]
      BY <1>2, <1>5, <2>2
    <3>3. QED
      BY <1>3, <1>4, <3>1, <3>2
  <2>3. QED
    BY <2>1, <2>2
<1>7. w = y
  BY <1>4, <1>5, <1>6, SeqEqual
<1>8. QED
  BY <1>7 DEF u, v, w, x, y

\* Bytes that come after all that were lost are all there.
LEMMA MarkedFresh ==
  ASSUME NEW a \in Nat, NEW b \in Nat, a <= b, spoiled \subseteq 1..a
  PROVE  Marked(Bytes(a, b)) = Bytes(a, b)
<1>1. Bytes(a, b) \in Seq(Nat) /\ Len(Bytes(a, b)) = b - a
      /\ \A k \in 1..(b - a) : Bytes(a, b)[k] = a + k
  BY BytesSeq
<1>2. \A k \in 1..(b - a) : Marked(Bytes(a, b))[k] = a + k
  <2>1. SUFFICES ASSUME NEW k \in 1..(b - a)
                 PROVE  Marked(Bytes(a, b))[k] = a + k
    OBVIOUS
  <2>2. Marked(Bytes(a, b))[k] = Mark[a + k]
    <3> DEFINE u == Bytes(a, b)
    <3>1. u \in Seq(Nat) /\ k \in 1..Len(u) /\ u[k] = a + k
      BY <1>1
    <3> HIDE DEF u
    <3>2. QED
      BY <3>1, MarkedSeq DEF u
  <2>3. a + k \in Nat /\ a + k \notin spoiled
    OBVIOUS
  <2>4. QED
    BY <2>2, <2>3 DEF Mark
<1>3. Marked(Bytes(a, b)) \in Seq(Nat) /\ Len(Marked(Bytes(a, b))) = b - a
  BY <1>1, MarkedSeq
<1>4. QED
  BY <1>1, <1>2, <1>3, SeqEqual

-----------------------------------------------------------------------------
(* Counters and lines *)

LEMMA Bounds ==
  /\ N \in Nat \ {0} /\ N <= 255 /\ U32 \in Nat \ {0} /\ U32 > 2 * N + 1
  /\ MaxBytes \in Nat /\ U32 \div 2 \in Nat /\ MaxBytes < U32 \div 2 /\ U32 \div 2 < U32
<1>1. N \in Nat \ {0} /\ N <= 255 /\ U32 \in Nat \ {0} /\ U32 > 2 * N + 1 /\ MaxBytes \in Nat
  BY BufferAssumption
<1>2. U32 \div 2 \in Nat /\ U32 \div 2 < U32
  BY <1>1
<1>3. MaxBytes < U32 \div 2
  BY OopsAssumption
<1>4. QED
  BY <1>1, <1>2, <1>3

\* The counters as the intact buffer has them.
LEMMA Counters ==
  ASSUME OopsInv
  PROVE  /\ accepted \in Nat /\ accepted < U32
         /\ start_abs \in Nat /\ w_abs \in Nat /\ start_char_abs \in Nat
         /\ log \in Seq([from : Nat, to : Nat]) /\ w_abs = Len(log)
         /\ w_abs - start_abs = IF N <= w_abs THEN N ELSE w_abs
         /\ WindowFull <=> N <= w_abs
         /\ w_char_abs = Committed
         /\ Committed \in Nat /\ Committed <= accepted /\ w_abs <= Committed
<1>1. /\ Intact!TypeOK /\ Intact!LogPartitions /\ Intact!PendingIntact
      /\ Intact!RingHoldsRecentLines
  BY DEF OopsInv, Intact!IInv
<1>2. /\ accepted \in Nat /\ start_abs \in Nat /\ w_abs \in Nat /\ start_char_abs \in Nat
      /\ log \in Seq([from : Nat, to : Nat])
  BY <1>1, Bounds DEF Intact!TypeOK
<1>3. accepted < U32 /\ Intact!NoWrap
  BY <1>2, Bounds DEF OopsInv, Intact!NoWrap
<1>4. /\ w_abs = Len(log) /\ w_abs - start_abs = Min({N, Len(log)})
      /\ w_char_abs = Committed
  BY <1>1, <1>3 DEF Intact!RingHoldsRecentLines, Intact!Committed, Committed, Intact!Min, Min
<1>5. w_abs - start_abs = IF N <= w_abs THEN N ELSE w_abs
  BY <1>2, <1>4, Bounds, MinPair
<1>6. Committed \in Nat /\ Committed <= accepted /\ w_abs <= Committed
  BY <1>1, <1>4, Intact!CommittedBound, BufferAssumption
     DEF Intact!Committed, Committed, Intact!LogPartitions
<1>7. Uint32(w_abs - start_abs) = w_abs - start_abs
  <2>1. w_abs - start_abs \in Nat /\ w_abs - start_abs < U32
    BY <1>2, <1>5, Bounds
  <2>2. QED
    BY <2>1, Bounds, ModSmall DEF Uint32
<1>8. WindowFull <=> N <= w_abs
  BY <1>2, <1>5, <1>7, Bounds DEF WindowFull
<1>9. QED
  BY <1>2, <1>3, <1>4, <1>5, <1>6, <1>8

\* A retained line is alone in its slot.
LEMMA HeldIs ==
  ASSUME OopsInv, NEW j \in start_abs..(w_abs - 1)
  PROVE  Held(Slot(j)) = {j} /\ Slot(j) \in Slots /\ IntactSlot(Slot(j)) = LineBytes(log[j + 1])
<1>1. /\ start_abs \in Nat /\ w_abs \in Nat /\ w_abs - start_abs <= N /\ N \in Nat \ {0}
      /\ j \in Nat
  BY Counters, Bounds
<1>2. \A m \in start_abs..(w_abs - 1) : Slot(m) = Slot(j) => m = j
  <2>1. SUFFICES ASSUME NEW m \in start_abs..(w_abs - 1), Slot(m) = Slot(j)
                 PROVE  m = j
    OBVIOUS
  <2>2. m \in Nat /\ m - j > -N /\ m - j < N
    BY <1>1
  <2>3. QED
    BY <1>1, <2>1, <2>2, SlotInjective DEF Slot
<1>3. Held(Slot(j)) = {j}
  BY <1>2 DEF Held
<1>4. Slot(j) \in Slots
  BY <1>1, DivMod DEF Slot, Slots
<1>5. (CHOOSE m \in {j} : TRUE) = j
  OBVIOUS
<1>6. QED
  BY <1>3, <1>4, <1>5 DEF IntactSlot

\* Until the ring has filled no line is held where the next ones go.
LEMMA HeldBefore ==
  ASSUME OopsInv, NEW i \in Slots, i >= w_abs
  PROVE  Held(i) = {} /\ IntactSlot(i) = <<>>
<1>1. \A j \in start_abs..(w_abs - 1) : Slot(j) # i
  <2>1. SUFFICES ASSUME NEW j \in start_abs..(w_abs - 1)
                 PROVE  Slot(j) # i
    OBVIOUS
  <2>2. j \in Nat /\ i \in Nat /\ j < i /\ j < N
    BY Counters, Bounds DEF Slots
  <2>3. Slot(j) = j
    BY <2>2, Bounds, ModSmall DEF Slot
  <2>4. QED
    BY <2>2, <2>3
<1>2. Held(i) = {}
  BY <1>1 DEF Held
<1>3. QED
  BY <1>2 DEF IntactSlot

\* What is proved of reads holds of the intact buffer.
LEMMA IntactReads ==
  ASSUME OopsInv
  PROVE  Intact!ReadInv
<1>1. Intact!NoWrap
  BY Counters DEF Intact!NoWrap
<1>2. Intact!UnusedEmpty
  BY HeldBefore DEF Intact!UnusedEmpty, Intact!Slots, Slots, IntactEntry
<1>3. QED
  BY <1>1, <1>2 DEF Intact!ReadInv, OopsInv

-----------------------------------------------------------------------------
(* The two buffers *)

\* They differ in their slots and accumulators alone.
LEMMA SameNames ==
  /\ Intact!Committed = Committed /\ Intact!WindowFull = WindowFull
  /\ Intact!Slots = Slots /\ Intact!TargetSlot = TargetSlot
  /\ Intact!TmpType = TmpType /\ Intact!RetainedFrom = RetainedFrom
  /\ \A a, b : Intact!Bytes(a, b) = Bytes(a, b)
  /\ \A a : /\ Intact!Uint32(a) = Uint32(a) /\ Intact!Slot(a) = Slot(a)
            /\ Intact!LineSize(a) = LineSize(a) /\ Intact!LineBytes(a) = LineBytes(a)
            /\ Intact!WrapOffs(a) = WrapOffs(a)
BY DEF Intact!Committed, Committed, Intact!WindowFull, WindowFull, Intact!Slots, Slots,
       Intact!TargetSlot, TargetSlot, Intact!TmpType, TmpType, Intact!RetainedFrom, RetainedFrom,
       Intact!Bytes, Bytes, Intact!Uint32, Uint32, Intact!Slot, Slot, Intact!LineSize, LineSize,
       Intact!LineBytes, LineBytes, Intact!WrapOffs, WrapOffs

\* A slot of the real buffer is as long as the intact one.
LEMMA SlotSizes ==
  ASSUME OopsInv, NEW i \in Slots
  PROVE  /\ IntactSlot(i) \in Seq(Nat) /\ IntactEntry[i] = IntactSlot(i)
         /\ entry[i] = Marked(IntactSlot(i)) /\ entry[i] \in Seq(Nat)
         /\ Len(entry[i]) = Len(IntactSlot(i))
<1>1. IntactEntry[i] = IntactSlot(i)
  BY DEF IntactEntry
<1>2. IntactEntry \in [Slots -> Seq(Nat)]
  BY DEF OopsInv, Intact!IInv, Intact!TypeOK, Intact!Slots, Slots
<1>3. IntactSlot(i) \in Seq(Nat)
  BY <1>1, <1>2
<1>4. entry[i] = Marked(IntactSlot(i))
  BY DEF OopsInv, SameButLost
<1>5. QED
  BY <1>1, <1>3, <1>4, MarkedSeq

\* The code's variables keep their types, lost bytes or not.
LEMMA RealType ==
  ASSUME OopsInv
  PROVE  TypeOK
<1>1. Intact!TypeOK
  BY DEF OopsInv, Intact!IInv
<1>2. /\ in_offs \in Slots /\ out_offs \in 0..(U8 - 1) /\ full \in BOOLEAN
      /\ w_abs \in 0..(U32 - 1) /\ start_abs \in 0..(U32 - 1)
      /\ w_char_abs \in 0..(U32 - 1) /\ start_char_abs \in 0..(U32 - 1)
      /\ accepted \in Nat /\ log \in Seq([from : Nat, to : Nat])
  BY <1>1 DEF Intact!TypeOK, Intact!Slots, Slots, Intact!U8, U8
<1>3. entry \in [Slots -> Seq(Nat)] /\ tmp_entry \in TmpType
  BY DEF OopsInv
<1>4. QED
  BY <1>2, <1>3 DEF TypeOK, TmpType

\* After a chunk the accumulator holds the line so far, less what was lost.
LEMMA RealDone ==
  ASSUME OopsInv, NEW n \in Nat
  PROVE  LET d == Extended(tmp_entry, Bytes(accepted, accepted + n))
         IN  /\ d \in TmpType /\ d.mem = "live" /\ d.size = accepted + n - Committed
             /\ d.bytes = Marked(Bytes(Committed, accepted + n)) /\ Len(d.bytes) = d.size
             /\ SubSeq(d.bytes, 1, d.size) = d.bytes
<1> DEFINE ch == Bytes(accepted, accepted + n)
           old == Bytes(Committed, accepted)
           d == Extended(tmp_entry, ch)
<1>1. /\ accepted \in Nat /\ accepted + n \in Nat /\ accepted <= accepted + n
      /\ Committed \in Nat /\ Committed <= accepted
  BY Counters
<1>2. /\ tmp_entry \in TmpType /\ TmpSized /\ tmp_entry.size = accepted - Committed
      /\ Carried(tmp_entry) = Marked(old) /\ spoiled \subseteq 1..accepted
  BY DEF OopsInv, SameButLost
<1>3. ch \in Seq(Nat) /\ Len(ch) = n /\ old \in Seq(Nat)
  <2>1. ch \in Seq(Nat) /\ Len(ch) = (accepted + n) - accepted
    BY <1>1, BytesSeq
  <2>2. old \in Seq(Nat)
    BY <1>1, BytesSeq
  <2>3. (accepted + n) - accepted = n
    BY <1>1
  <2>4. QED
    BY <2>1, <2>2, <2>3
<1>4. Marked(ch) = ch
  BY <1>1, <1>2, MarkedFresh
<1>5. old \o ch = Bytes(Committed, accepted + n)
  BY <1>1, BytesConcat
<1> HIDE DEF ch, old
<1>6. /\ d \in TmpType /\ d.mem = "live" /\ d.size = tmp_entry.size + Len(ch)
      /\ d.bytes = Carried(tmp_entry) \o ch /\ Len(d.bytes) = d.size
      /\ SubSeq(d.bytes, 1, d.size) = d.bytes
  BY <1>2, <1>3, ExtendedSeq DEF TmpSized
<1>7. Marked(old \o ch) = Marked(old) \o Marked(ch)
  BY <1>3, MarkedConcat
<1> HIDE DEF d
<1>8. d.bytes = Marked(Bytes(Committed, accepted + n))
  BY <1>2, <1>4, <1>5, <1>6, <1>7
<1>9. d.size = accepted + n - Committed
  BY <1>1, <1>2, <1>3, <1>6
<1>10. QED
  BY <1>6, <1>8, <1>9 DEF d, ch

LEMMA IntactDone ==
  ASSUME OopsInv, NEW n \in Nat
  PROVE  Intact!Extended(IntactTmp, Intact!Bytes(accepted, accepted + n))
           = [mem |-> "live", bytes |-> Bytes(Committed, accepted + n),
              size |-> accepted + n - Committed]
<1> DEFINE d == Intact!Extended(IntactTmp, Intact!Bytes(accepted, accepted + n))
<1>1. Intact!TypeOK /\ Intact!TmpSized /\ Intact!LogPartitions /\ Intact!PendingIntact
  BY DEF OopsInv, Intact!IInv
<1>2. /\ d.mem = "live" /\ d.size = accepted + n - Intact!Committed
      /\ d.bytes = Intact!Bytes(Intact!Committed, accepted + n)
      /\ d \in Intact!TmpType
  <2>1. /\ d.mem = "live" /\ d.size = accepted + n - Intact!Committed
        /\ d.bytes = Intact!Bytes(Intact!Committed, accepted + n)
        /\ d \in Intact!TmpType
    BY <1>1, Intact!DonePending, BufferAssumption
  <2>2. QED
    BY <2>1
<1>3. d \in TmpType /\ d.size = accepted + n - Committed /\ d.bytes = Bytes(Committed, accepted + n)
  BY <1>2, SameNames
<1> HIDE DEF d
<1>4. d = [mem |-> d.mem, bytes |-> d.bytes, size |-> d.size]
  BY <1>3 DEF TmpType
<1>5. QED
  BY <1>2, <1>3, <1>4 DEF d

-----------------------------------------------------------------------------
(* A finished line *)

\* The log and the counters after one more line.
LEMMA LineCounts ==
  ASSUME OopsInv, NEW n \in 1..MaxChunk, AddLine(n)
  PROVE  /\ w_abs' = w_abs + 1
         /\ start_abs' = IF N <= w_abs THEN start_abs + 1 ELSE start_abs
         /\ log' # <<>> /\ Committed' = accepted + n /\ accepted' = accepted + n
         /\ \A i \in 1..w_abs : log'[i] = log[i]
         /\ log'[w_abs + 1].from = Committed /\ log'[w_abs + 1].to = accepted + n
<1>1. /\ accepted + n <= MaxBytes /\ w_abs' = Uint32(w_abs + 1)
      /\ start_abs' = IF WindowFull THEN Uint32(start_abs + 1) ELSE start_abs
      /\ log' = Append(log, [from |-> Committed, to |-> accepted + n])
      /\ accepted' = accepted + n
  BY DEF AddLine
<1>2. n \in Nat \ {0}
  BY BufferAssumption
<1>3. /\ accepted \in Nat /\ start_abs \in Nat /\ w_abs \in Nat /\ w_abs = Len(log)
      /\ (WindowFull <=> N <= w_abs)
      /\ w_abs - start_abs = (IF N <= w_abs THEN N ELSE w_abs)
      /\ Committed <= accepted /\ w_abs <= Committed /\ Committed \in Nat
  BY Counters
<1>4. /\ w_abs + 1 \in Nat /\ w_abs + 1 < U32 /\ start_abs + 1 \in Nat /\ start_abs + 1 < U32
      /\ U32 \in Nat \ {0}
  BY <1>1, <1>2, <1>3, Bounds
<1>5. Uint32(w_abs + 1) = w_abs + 1 /\ Uint32(start_abs + 1) = start_abs + 1
  BY <1>4, ModSmall DEF Uint32
<1>6. /\ Intact!TypeOK /\ Intact!LogPartitions /\ Intact!PendingIntact
      /\ log' = Append(log, [from |-> Intact!Committed, to |-> accepted + n])
  BY <1>1, SameNames DEF OopsInv, Intact!IInv
<1>7. /\ Len(log') = Len(log) + 1
      /\ \A i \in 1..Len(log) : log'[i] = log[i]
      /\ log'[Len(log) + 1].from = Intact!Committed /\ log'[Len(log) + 1].to = accepted + n
  BY <1>2, <1>6, Intact!LogAppend, BufferAssumption
<1>8. Len(log') # 0
  BY <1>3, <1>7
<1>9. log' # <<>>
  BY <1>8
<1>10. Committed' = accepted + n
  BY <1>7, <1>9 DEF Committed
<1>11. QED
  BY <1>1, <1>3, <1>5, <1>7, <1>9, <1>10, SameNames

\* It takes the place of the line that leaves the window.
LEMMA IntactLine ==
  ASSUME OopsInv, NEW n \in 1..MaxChunk, AddLine(n)
  PROVE  /\ IntactEntry' = [IntactEntry EXCEPT ![TargetSlot] = Bytes(Committed, accepted + n)]
         /\ TargetSlot \in Slots
<1> DEFINE line == Bytes(Committed, accepted + n)
<1>1. /\ w_abs' = w_abs + 1
      /\ start_abs' = (IF N <= w_abs THEN start_abs + 1 ELSE start_abs)
      /\ \A i \in 1..w_abs : log'[i] = log[i]
      /\ log'[w_abs + 1].from = Committed /\ log'[w_abs + 1].to = accepted + n
  BY LineCounts
<1>2. /\ start_abs \in Nat /\ w_abs \in Nat /\ N \in Nat \ {0}
      /\ w_abs - start_abs = (IF N <= w_abs THEN N ELSE w_abs)
  BY Counters, Bounds
<1>3. TargetSlot \in Slots /\ TargetSlot = Slot(w_abs)
  BY <1>2, DivMod DEF TargetSlot, Slot, Slots
<1>4. \A j \in start_abs'..(w_abs - 1) : Slot(j) # Slot(w_abs)
  <2>1. SUFFICES ASSUME NEW j \in start_abs'..(w_abs - 1), Slot(j) = Slot(w_abs)
                 PROVE  FALSE
    OBVIOUS
  <2>2. j \in Nat /\ j - w_abs > -N /\ j - w_abs < N /\ j # w_abs
    BY <1>1, <1>2
  <2>3. QED
    BY <1>2, <2>1, <2>2, SlotInjective DEF Slot
<1>5. N <= w_abs => Slot(start_abs) = Slot(w_abs)
  <2>1. SUFFICES ASSUME N <= w_abs PROVE Slot(start_abs) = Slot(w_abs)
    OBVIOUS
  <2>2. w_abs = start_abs + N
    BY <1>2, <2>1
  <2> DEFINE k == 1
  <2>3. w_abs = start_abs + N * k /\ k \in Int /\ w_abs \in Int /\ start_abs \in Int
    BY <1>2, <2>2
  <2> HIDE DEF k
  <2>4. w_abs % N = start_abs % N
    BY <1>2, <2>3, ModShift
  <2>5. QED
    BY <2>4 DEF Slot
<1>6. ASSUME NEW i \in Slots
      PROVE  IntactEntry'[i] = [IntactEntry EXCEPT ![TargetSlot] = line][i]
  <2>1. /\ IntactEntry[i] = IntactSlot(i) /\ IntactEntry'[i] = IntactSlot(i)'
        /\ DOMAIN IntactEntry = Slots
    BY DEF IntactEntry, Slots
  <2>2. CASE i = TargetSlot
    <3>1. Held(i)' = {w_abs}
      BY <1>1, <1>2, <1>3, <1>4, <2>2 DEF Held, Slot
    <3>2. (CHOOSE j \in {w_abs} : TRUE) = w_abs
      OBVIOUS
    <3>3. IntactSlot(i)' = LineBytes(log'[w_abs + 1])
      BY <3>1, <3>2 DEF IntactSlot, LineBytes, Bytes
    <3>4. IntactSlot(i)' = line
      BY <1>1, <3>3 DEF LineBytes
    <3>5. QED
      BY <1>3, <2>1, <2>2, <3>4
  <2>3. CASE i # TargetSlot
    <3>1. Held(i)' = Held(i)
      BY <1>1, <1>2, <1>3, <1>5, <2>3 DEF Held, Slot
    <3>2. ASSUME Held(i) # {}
          PROVE  (CHOOSE j \in Held(i) : TRUE) + 1 \in 1..w_abs
      <4>1. (CHOOSE j \in Held(i) : TRUE) \in Held(i)
        BY <3>2
      <4>2. QED
        BY <1>2, <4>1 DEF Held
    <3>3. IntactSlot(i)' = IntactSlot(i)
      BY <1>1, <3>1, <3>2 DEF IntactSlot, LineBytes, Bytes
    <3>4. QED
      BY <2>1, <2>3, <3>3
  <2>4. QED
    BY <2>2, <2>3
<1>7. QED
  <2>1. /\ IntactEntry' = [i \in Slots |-> IntactEntry'[i]]
        /\ DOMAIN [IntactEntry EXCEPT ![TargetSlot] = line] = Slots
    BY DEF IntactEntry, Slots
  <2>2. QED
    BY <1>3, <1>6, <2>1

-----------------------------------------------------------------------------
(* What the code does to the real buffer it does to the intact one *)

LEMMA PartialKeeps ==
  ASSUME OopsInv, NEW n \in 1..MaxChunk, AddPartial(n), UNCHANGED spoiled
  PROVE  /\ Intact!IInv' /\ SameButLost'
         /\ tmp_entry' \in TmpType /\ TmpSized' /\ spoiled' \subseteq 1..accepted'
         /\ accepted' <= MaxBytes
<1> DEFINE d == Extended(tmp_entry, Bytes(accepted, accepted + n))
<1>1. n \in Nat \ {0} /\ n \in Nat
  BY BufferAssumption
<1>2. /\ accepted + n <= MaxBytes /\ tmp_entry' = d /\ accepted' = accepted + n
      /\ UNCHANGED <<entry, in_offs, out_offs, full, w_abs, start_abs, w_char_abs,
                     start_char_abs, log, spoiled>>
  BY DEF AddPartial
<1>3. /\ d \in TmpType /\ d.mem = "live" /\ d.size = accepted + n - Committed
      /\ d.bytes = Marked(Bytes(Committed, accepted + n)) /\ Len(d.bytes) = d.size
      /\ SubSeq(d.bytes, 1, d.size) = d.bytes
  BY <1>1, RealDone
<1> HIDE DEF d
<1>4. accepted \in Nat /\ Committed \in Nat /\ Committed <= accepted
  BY Counters
<1>5. Committed' = Committed /\ accepted' # Committed'
  BY <1>1, <1>2, <1>4 DEF Committed
<1>6. UNCHANGED IntactEntry
  BY <1>2 DEF IntactEntry, IntactSlot, Held, Slot, LineBytes, Bytes, Slots
<1>7. IntactTmp' = [mem |-> "live", bytes |-> Bytes(Committed, accepted + n),
                    size |-> accepted + n - Committed]
  BY <1>1, <1>2, <1>4, <1>5 DEF IntactTmp, Bytes
<1>8. Intact!AddPartial(n)
  BY <1>1, <1>2, <1>6, <1>7, IntactDone DEF Intact!AddPartial
<1>9. Intact!IInv'
  BY <1>8, Intact!InvPartial, BufferAssumption DEF OopsInv
<1>10. Mark' = Mark
  BY <1>2 DEF Mark
<1>11. SameButLost'
  <2>1. \A i \in Slots : entry'[i] = Marked(IntactSlot(i))'
    <3>1. ASSUME NEW i \in Slots
          PROVE  entry'[i] = Marked(IntactSlot(i))'
      <4>1. IntactSlot(i)' = IntactSlot(i)
        BY <1>2 DEF IntactSlot, Held, Slot, LineBytes, Bytes
      <4>2. entry[i] = Marked(IntactSlot(i))
        BY SlotSizes
      <4>3. QED
        BY <1>2, <1>10, <4>1, <4>2 DEF Marked
    <3>2. QED
      BY <3>1
  <2>2. tmp_entry'.size = accepted' - Committed'
    BY <1>1, <1>2, <1>3, <1>4, <1>5
  <2>3. Carried(tmp_entry)' = Marked(Bytes(Committed, accepted))'
    <3>1. Carried(tmp_entry)' = d.bytes
      BY <1>2, <1>3 DEF Carried
    <3>2. Bytes(Committed, accepted)' = Bytes(Committed, accepted + n)
      BY <1>2, <1>5 DEF Bytes
    <3>3. QED
      BY <1>3, <1>10, <3>1, <3>2 DEF Marked
  <2>4. Slots' = Slots
    BY DEF Slots
  <2>5. QED
    BY <2>1, <2>2, <2>3, <2>4 DEF SameButLost
<1>12. spoiled' \subseteq 1..accepted'
  <2>1. spoiled \subseteq 1..accepted
    BY DEF OopsInv
  <2>2. QED
    BY <1>1, <1>2, <1>4, <2>1
<1>13. TmpSized'
  BY <1>2, <1>3 DEF TmpSized
<1>14. QED
  BY <1>2, <1>3, <1>9, <1>11, <1>12, <1>13

LEMMA LineKeeps ==
  ASSUME OopsInv, NEW n \in 1..MaxChunk, AddLine(n), UNCHANGED spoiled
  PROVE  /\ Intact!IInv' /\ SameButLost' /\ entry' \in [Slots -> Seq(Nat)]
         /\ tmp_entry' \in TmpType /\ TmpSized' /\ spoiled' \subseteq 1..accepted'
         /\ accepted' <= MaxBytes
<1> DEFINE d == Extended(tmp_entry, Bytes(accepted, accepted + n))
           line == Bytes(Committed, accepted + n)
<1>1. n \in Nat \ {0} /\ n \in Nat
  BY BufferAssumption
<1>2. /\ accepted + n <= MaxBytes /\ accepted' = accepted + n /\ UNCHANGED <<spoiled, out_offs>>
      /\ entry' = [entry EXCEPT ![TargetSlot] = SubSeq(d.bytes, 1, d.size)]
      /\ start_abs' = IF WindowFull THEN Uint32(start_abs + 1) ELSE start_abs
      /\ start_char_abs' = IF WindowFull
                             THEN Uint32(start_char_abs + EvictedSize(entry', start_abs'))
                             ELSE start_char_abs
      /\ w_abs' = Uint32(w_abs + 1)
      /\ w_char_abs' = Uint32(w_char_abs + d.size)
      /\ in_offs' = WrapOffs(in_offs + 1)
      /\ full' = (full \/ in_offs' = out_offs)
      /\ tmp_entry' = aesd_init_entry(d)
      /\ log' = Append(log, [from |-> Committed, to |-> accepted + n])
  BY DEF AddLine
<1>3. /\ d \in TmpType /\ d.mem = "live" /\ d.size = accepted + n - Committed
      /\ d.bytes = Marked(line)
      /\ SubSeq(d.bytes, 1, d.size) = d.bytes
  BY <1>1, RealDone
<1> HIDE DEF d
<1>4. accepted \in Nat /\ Committed \in Nat /\ Committed <= accepted /\ start_abs \in Nat
  BY Counters
<1>5. /\ w_abs' = w_abs + 1 /\ log' # <<>> /\ Committed' = accepted + n
      /\ start_abs' = IF N <= w_abs THEN start_abs + 1 ELSE start_abs
  BY LineCounts
<1>6. IntactEntry' = [IntactEntry EXCEPT ![TargetSlot] = line] /\ TargetSlot \in Slots
  BY IntactLine
<1>7. line \in Seq(Nat) /\ Len(line) = accepted + n - Committed
  <2> DEFINE a == Committed
             b == accepted + n
  <2>1. a \in Nat /\ b \in Nat /\ a <= b
    BY <1>1, <1>4
  <2> HIDE DEF a, b
  <2>2. Bytes(a, b) \in Seq(Nat) /\ Len(Bytes(a, b)) = b - a
    BY <2>1, BytesSeq
  <2>3. line = Bytes(a, b)
    BY DEF a, b
  <2>4. b - a = accepted + n - Committed
    BY <1>1, <1>4 DEF a, b
  <2> HIDE DEF line
  <2>5. QED
    BY <2>2, <2>3, <2>4
<1> HIDE DEF line
<1>8. entry' = [entry EXCEPT ![TargetSlot] = Marked(line)] /\ Marked(line) \in Seq(Nat)
  BY <1>2, <1>3, <1>7, MarkedSeq
<1>9. entry' \in [Slots -> Seq(Nat)] /\ DOMAIN entry = Slots
  BY <1>8 DEF OopsInv
<1>10. ASSUME NEW i \in Slots
       PROVE  /\ entry'[i] = Marked(IntactEntry'[i]) /\ Len(entry'[i]) = Len(IntactEntry'[i])
              /\ IntactEntry'[i] = IntactSlot(i)'
  <2>1. IntactEntry'[i] = IntactSlot(i)' /\ DOMAIN IntactEntry = Slots
    BY DEF IntactEntry, Slots
  <2>2. CASE i = TargetSlot
    <3>1. IntactEntry'[i] = line /\ entry'[i] = Marked(line)
      BY <1>6, <1>8, <1>9, <2>1, <2>2
    <3>2. QED
      BY <1>7, <2>1, <3>1, MarkedSeq
  <2>3. CASE i # TargetSlot
    <3>1. IntactEntry'[i] = IntactSlot(i) /\ entry'[i] = Marked(IntactSlot(i))
          /\ IntactSlot(i) \in Seq(Nat)
      BY <1>6, <1>8, <1>9, <2>1, <2>3, SlotSizes
    <3>2. QED
      BY <2>1, <3>1, MarkedSeq
  <2>4. QED
    BY <2>2, <2>3
<1>11. aesd_init_entry(d) = [mem |-> "freed", bytes |-> <<>>, size |-> 0]
  BY <1>3 DEF aesd_init_entry
<1>12. IntactTmp' = [mem |-> "freed", bytes |-> <<>>, size |-> 0]
  BY <1>2, <1>5 DEF IntactTmp
<1>13. Slot(start_abs') \in Slots
  <2>1. start_abs' \in Nat
    BY <1>4, <1>5
  <2>2. start_abs' % N \in 0..(N - 1)
    <3> DEFINE x == start_abs'
    <3>1. x \in Int
      BY <2>1
    <3> HIDE DEF x
    <3>2. x % N \in 0..(N - 1)
      BY <3>1, Bounds, DivMod
    <3>3. QED
      BY <3>2 DEF x
  <2>3. QED
    BY <2>2 DEF Slot, Slots
<1>14. EvictedSize(entry', start_abs') = Intact!EvictedSize(IntactEntry', start_abs')
  BY <1>10, <1>13, SameNames DEF EvictedSize, Intact!EvictedSize
<1>15. Intact!AddLine(n)
  <2> DEFINE done == Intact!Extended(IntactTmp, Intact!Bytes(accepted, accepted + n))
  <2>1. done = [mem |-> "live", bytes |-> line, size |-> accepted + n - Committed]
    BY <1>1, IntactDone DEF line
  <2>2. done.bytes = line /\ done.size = Len(line) /\ done.mem = "live" /\ done.size = d.size
    BY <1>3, <1>7, <2>1
  <2>3. SubSeq(done.bytes, 1, done.size) = line
    BY <1>7, <2>2, SubSeqFull
  <2>4. Intact!aesd_init_entry(done) = [mem |-> "freed", bytes |-> <<>>, size |-> 0]
    BY <2>2 DEF Intact!aesd_init_entry
  <2>5. IntactEntry' = [IntactEntry EXCEPT ![Intact!TargetSlot] = SubSeq(done.bytes, 1, done.size)]
    BY <1>6, <2>3, SameNames
  <2>6. start_abs' = IF Intact!WindowFull THEN Intact!Uint32(start_abs + 1) ELSE start_abs
    BY <1>2, SameNames
  <2>7. start_char_abs' = IF Intact!WindowFull
                            THEN Intact!Uint32(start_char_abs + Intact!EvictedSize(IntactEntry', start_abs'))
                            ELSE start_char_abs
    BY <1>2, <1>14, SameNames
  <2>8. /\ w_abs' = Intact!Uint32(w_abs + 1) /\ w_char_abs' = Intact!Uint32(w_char_abs + done.size)
        /\ in_offs' = Intact!WrapOffs(in_offs + 1) /\ full' = (full \/ in_offs' = out_offs)
        /\ log' = Append(log, [from |-> Intact!Committed, to |-> accepted + n])
    BY <1>2, <2>2, SameNames
  <2>9. IntactTmp' = Intact!aesd_init_entry(done)
    BY <1>12, <2>4
  <2> HIDE DEF done
  <2>10. QED
    BY <1>2, <2>5, <2>6, <2>7, <2>8, <2>9, Zenon DEF Intact!AddLine, done
<1>16. Intact!IInv'
  BY <1>15, Intact!InvLine, BufferAssumption DEF OopsInv
<1>17. Mark' = Mark
  BY <1>2 DEF Mark
<1>18. SameButLost'
  <2>1. \A i \in Slots : entry'[i] = Marked(IntactSlot(i))'
    BY <1>10, <1>17 DEF Marked
  <2>2. tmp_entry'.size = accepted' - Committed'
    BY <1>1, <1>2, <1>4, <1>5, <1>11
  <2>3. Carried(tmp_entry)' = Marked(Bytes(Committed, accepted))'
    <3>1. Carried(tmp_entry)' = [k \in 1..0 |-> Garbage]
      BY <1>2, <1>11 DEF Carried, Garbage
    <3>2. accepted' - Committed' = 0
      BY <1>1, <1>2, <1>4, <1>5
    <3>3. Bytes(Committed, accepted)' = [k \in 1..0 |-> Committed' + k]
      BY <3>2 DEF Bytes
    <3>4. Bytes(Committed, accepted)' = <<>>
      BY <3>3
    <3>5. QED
      BY <3>1, <3>4 DEF Marked
  <2>4. Slots' = Slots
    BY DEF Slots
  <2>5. QED
    BY <2>1, <2>2, <2>3, <2>4 DEF SameButLost
<1>19. spoiled' \subseteq 1..accepted'
  <2>1. spoiled \subseteq 1..accepted
    BY DEF OopsInv
  <2>2. QED
    BY <1>1, <1>2, <1>4, <2>1
<1>20. tmp_entry' \in TmpType /\ TmpSized'
  BY <1>2, <1>11 DEF TmpType, TmpSized
<1>21. QED
  BY <1>2, <1>9, <1>16, <1>18, <1>19, <1>20

\* A step that leaves the lines, the counters and the accumulator alone.
LEMMA ReadKeeps ==
  ASSUME OopsInv, out_offs' \in 0..(U8 - 1), full' \in BOOLEAN,
         UNCHANGED <<entry, in_offs, w_abs, start_abs, w_char_abs, start_char_abs,
                     tmp_entry, accepted, log, lost, spoiled>>
  PROVE  OopsInv'
<1>1. UNCHANGED <<IntactEntry, IntactTmp>>
  BY DEF IntactEntry, IntactTmp, IntactSlot, Held, Slot, LineBytes, Bytes, Slots, Committed
<1>2. Intact!IInv'
  BY <1>1, Intact!InvSame, BufferAssumption DEF OopsInv, U8, Intact!U8
<1>3. SameButLost'
  <2>1. SameButLost
    BY DEF OopsInv
  <2>2. \A i \in Slots : Marked(IntactSlot(i))' = Marked(IntactSlot(i))
    BY DEF Marked, Mark, IntactSlot, Held, Slot, LineBytes, Bytes
  <2>3. Marked(Bytes(Committed, accepted))' = Marked(Bytes(Committed, accepted))
    BY DEF Marked, Mark, Bytes, Committed
  <2>4. Committed' = Committed /\ Carried(tmp_entry)' = Carried(tmp_entry) /\ Slots' = Slots
    BY DEF Committed, Carried, Slots
  <2>5. QED
    BY <2>1, <2>2, <2>3, <2>4 DEF SameButLost
<1>4. OnlyOldestLost'
  BY DEF OopsInv, OnlyOldestLost, WindowFull, Uint32, Slot
<1>5. TmpSized'
  BY DEF OopsInv, TmpSized
<1>6. QED
  BY <1>2, <1>3, <1>4, <1>5 DEF OopsInv

-----------------------------------------------------------------------------
(* A lost accumulator *)

\* A retained byte is a committed one.
LEMMA RetainedBelow ==
  ASSUME OopsInv, NEW i \in Slots, NEW k \in 1..Len(IntactSlot(i))
  PROVE  IntactSlot(i)[k] \in 1..Committed
<1>1. CASE Held(i) = {}
  BY <1>1 DEF IntactSlot
<1>2. CASE Held(i) # {}
  <2> DEFINE j == CHOOSE j \in Held(i) : TRUE
             h == j - start_abs
  <2>1. j \in Held(i)
    BY <1>2
  <2>2. j \in start_abs..(w_abs - 1) /\ IntactSlot(i) = LineBytes(log[j + 1])
    BY <1>2, <2>1 DEF IntactSlot, Held
  <2> HIDE DEF j
  <2>3. start_abs \in Nat /\ w_abs \in Nat /\ Committed \in Nat
    BY Counters
  <2>4. Intact!Retained = w_abs - start_abs
    BY DEF Intact!Retained
  <2>5. h \in 0..(Intact!Retained - 1) /\ start_abs + h + 1 = j + 1 /\ h + 1 \in 0..Intact!Retained
    BY <2>2, <2>3, <2>4
  <2> HIDE DEF h
  <2>6. Intact!ReadInv
    BY IntactReads
  <2>7. /\ log[start_abs + h + 1].from = Intact!Cut(h)
        /\ log[start_abs + h + 1].to = Intact!Cut(h + 1)
        /\ Intact!Cut(h) \in Nat /\ Intact!Cut(h + 1) \in Nat /\ Intact!Cut(h) < Intact!Cut(h + 1)
    BY <2>5, <2>6, Intact!LineCuts, BufferAssumption
  <2>8. Intact!Cut(h + 1) <= Intact!Committed
    BY <2>5, <2>6, Intact!CutBound, BufferAssumption
  <2> DEFINE a == log[j + 1].from
             b == log[j + 1].to
  <2>9. a \in Nat /\ b \in Nat /\ a < b /\ b <= Committed
    BY <2>5, <2>7, <2>8, SameNames
  <2>10. IntactSlot(i) = Bytes(a, b)
    BY <2>2 DEF LineBytes
  <2> HIDE DEF a, b
  <2>11. IntactSlot(i) = [x \in 1..(b - a) |-> a + x]
    BY <2>10 DEF Bytes
  <2>12. k \in 1..(b - a) /\ IntactSlot(i)[k] = a + k
    BY <2>9, <2>11
  <2>13. QED
    BY <2>3, <2>9, <2>12
<1>3. QED
  BY <1>1, <1>2

LEMMA GrowKeeps ==
  ASSUME OopsInv, GrowFails
  PROVE  OopsInv'
<1>1. /\ tmp_entry' = Unbacked(tmp_entry)
      /\ spoiled' = spoiled \cup (Committed + 1)..accepted
      /\ UNCHANGED <<entry, in_offs, out_offs, full, w_abs, start_abs, w_char_abs,
                     start_char_abs, accepted, log, lost>>
  BY DEF GrowFails
<1>2. UNCHANGED <<IntactEntry, IntactTmp, Committed>>
  BY <1>1 DEF IntactEntry, IntactTmp, IntactSlot, Held, Slot, LineBytes, Bytes, Slots, Committed
<1>3. Intact!IInv'
  <2>1. out_offs \in 0..(Intact!U8 - 1) /\ full \in BOOLEAN
    BY DEF OopsInv, Intact!IInv, Intact!TypeOK
  <2>2. QED
    BY <1>1, <1>2, <2>1, Intact!InvSame, BufferAssumption DEF OopsInv
<1>4. accepted \in Nat /\ Committed \in Nat /\ Committed <= accepted
  BY Counters
<1>5. /\ tmp_entry \in TmpType /\ tmp_entry.size = accepted - Committed
      /\ spoiled \subseteq 1..accepted /\ accepted <= MaxBytes
  BY DEF OopsInv, SameButLost
<1>6. tmp_entry' = [mem |-> "null", bytes |-> <<>>, size |-> tmp_entry.size]
  BY <1>1 DEF Unbacked, NullEntry
<1>7. tmp_entry' \in TmpType /\ TmpSized'
  BY <1>5, <1>6 DEF TmpType, TmpSized
<1>8. spoiled' \subseteq 1..accepted'
  BY <1>1, <1>4, <1>5
<1>9. \A x \in 1..Committed : Mark'[x] = Mark[x]
  BY <1>1, <1>4 DEF Mark
<1>10. \A x \in (Committed + 1)..accepted : Mark'[x] = Garbage
  BY <1>1, <1>4 DEF Mark
<1>11. SameButLost'
  <2>1. ASSUME NEW i \in Slots
        PROVE  entry'[i] = Marked(IntactSlot(i))'
    <3>1. IntactSlot(i)' = IntactSlot(i)
      BY <1>1 DEF IntactSlot, Held, Slot, LineBytes, Bytes
    <3>2. entry[i] = Marked(IntactSlot(i))
      BY SlotSizes
    <3>3. \A k \in 1..Len(IntactSlot(i)) : Mark'[IntactSlot(i)[k]] = Mark[IntactSlot(i)[k]]
      BY <1>9, RetainedBelow
    <3>4. QED
      BY <1>1, <3>1, <3>2, <3>3 DEF Marked
  <2>2. tmp_entry'.size = accepted' - Committed'
    BY <1>1, <1>2, <1>5, <1>6
  <2>3. Carried(tmp_entry)' = Marked(Bytes(Committed, accepted))'
    <3> DEFINE n == accepted - Committed
               s == Bytes(Committed, accepted)
    <3>1. n \in Nat /\ s = [k \in 1..n |-> Committed + k] /\ Len(s) = n
      BY <1>4 DEF Bytes
    <3>2. Carried(tmp_entry)' = [k \in 1..n |-> Garbage]
      BY <1>5, <1>6 DEF Carried, Garbage
    <3>3. Bytes(Committed, accepted)' = s
      BY <1>1, <1>2 DEF Bytes
    <3> HIDE DEF s
    <3>4. \A k \in 1..n : Mark'[s[k]] = Garbage
      BY <1>4, <1>10, <3>1
    <3>5. Marked(Bytes(Committed, accepted))' = [k \in 1..n |-> Mark'[s[k]]]
      BY <3>1, <3>3 DEF Marked
    <3>6. QED
      BY <3>2, <3>4, <3>5
  <2>4. Slots' = Slots
    BY DEF Slots
  <2>5. QED
    BY <2>1, <2>2, <2>3, <2>4 DEF SameButLost
<1>12. OnlyOldestLost'
  BY <1>1 DEF OopsInv, OnlyOldestLost, WindowFull, Uint32, Slot
<1>13. QED
  BY <1>1, <1>3, <1>5, <1>7, <1>8, <1>11, <1>12 DEF OopsInv

-----------------------------------------------------------------------------
(* A lost slot *)

\* Until the ring has filled the slot of the next line has no block to lose.
LEMMA OnlyFullLoses ==
  ASSUME OopsInv, ~WindowFull
  PROVE  entry[TargetSlot] = <<>>
<1>1. w_abs \in Nat /\ w_abs < N /\ N \in Nat \ {0}
  BY Counters, Bounds
<1>2. TargetSlot = w_abs /\ TargetSlot \in Slots
  BY <1>1, ModSmall DEF TargetSlot, Slot, Slots
<1>3. IntactSlot(TargetSlot) = <<>>
  BY <1>1, <1>2, HeldBefore
<1>4. entry[TargetSlot] = Marked(<<>>)
  BY <1>2, <1>3, SlotSizes
<1>5. QED
  BY <1>4 DEF Marked

\* In a full ring it is the oldest line's.
LEMMA FullTakesOldest ==
  ASSUME OopsInv, WindowFull
  PROVE  TargetSlot = Slot(start_abs) /\ TargetSlot \in Slots
<1> DEFINE k == 1
<1>1. start_abs \in Nat /\ w_abs \in Nat /\ N \in Nat \ {0} /\ w_abs = start_abs + N
  BY Counters, Bounds
<1>2. w_abs = start_abs + N * k /\ k \in Int /\ w_abs \in Int /\ start_abs \in Int
  BY <1>1
<1> HIDE DEF k
<1>3. w_abs % N = start_abs % N
  BY <1>1, <1>2, ModShift
<1>4. w_abs % N \in 0..(N - 1)
  BY <1>1, DivMod
<1>5. QED
  BY <1>3, <1>4 DEF TargetSlot, Slot, Slots

LEMMA StoreKeeps ==
  ASSUME OopsInv, NEW n \in 1..MaxChunk, StoreFails(n)
  PROVE  OopsInv'
<1>1. /\ AddPartial(n) /\ UNCHANGED spoiled
      /\ lost' = IF entry[TargetSlot] = <<>> THEN lost ELSE lost \cup {TargetSlot}
  BY DEF StoreFails
<1>2. UNCHANGED <<entry, w_abs, start_abs>>
  BY <1>1 DEF AddPartial
<1>3. WindowFull' = WindowFull /\ Slot(start_abs)' = Slot(start_abs) /\ Slots' = Slots
  BY <1>2 DEF WindowFull, Uint32, Slot, Slots
<1>4. /\ Intact!IInv' /\ SameButLost' /\ tmp_entry' \in TmpType /\ TmpSized'
      /\ spoiled' \subseteq 1..accepted' /\ accepted' <= MaxBytes
  BY <1>1, PartialKeeps
<1>5. OnlyOldestLost /\ lost \subseteq Slots /\ entry \in [Slots -> Seq(Nat)]
  BY DEF OopsInv
<1>6. CASE lost' = lost
  BY <1>2, <1>3, <1>4, <1>5, <1>6 DEF OopsInv, OnlyOldestLost
<1>7. CASE lost' # lost
  <2>1. WindowFull /\ lost' = lost \cup {TargetSlot}
    BY <1>1, <1>7, OnlyFullLoses
  <2>2. TargetSlot = Slot(start_abs) /\ TargetSlot \in Slots
    BY <2>1, FullTakesOldest
  <2>3. lost' = {Slot(start_abs)} /\ lost' \subseteq Slots
    BY <1>5, <2>1, <2>2 DEF OnlyOldestLost
  <2>4. QED
    BY <1>2, <1>3, <1>4, <1>5, <2>1, <2>3 DEF OopsInv, OnlyOldestLost
<1>8. QED
  BY <1>6, <1>7

LEMMA AddKeeps ==
  ASSUME OopsInv, NEW n \in 1..MaxChunk, AddEntry(n)
  PROVE  OopsInv'
<1>1. /\ AddPartial(n) \/ AddLine(n)
      /\ lost' = (IF w_abs' # w_abs THEN Refilled ELSE lost)
      /\ UNCHANGED spoiled
  BY DEF AddEntry, aesd_circular_buffer_add_entry
<1>2. OnlyOldestLost /\ lost \subseteq Slots /\ entry \in [Slots -> Seq(Nat)]
  BY DEF OopsInv
<1>3. CASE AddPartial(n)
  <2>1. UNCHANGED <<entry, w_abs, start_abs, lost>>
    BY <1>1, <1>3 DEF AddPartial
  <2>2. WindowFull' = WindowFull /\ Slot(start_abs)' = Slot(start_abs) /\ Slots' = Slots
    BY <2>1 DEF WindowFull, Uint32, Slot, Slots
  <2>3. /\ Intact!IInv' /\ SameButLost' /\ tmp_entry' \in TmpType /\ TmpSized'
        /\ spoiled' \subseteq 1..accepted' /\ accepted' <= MaxBytes
    BY <1>1, <1>3, PartialKeeps
  <2>4. QED
    BY <1>2, <2>1, <2>2, <2>3 DEF OopsInv, OnlyOldestLost
<1>4. CASE AddLine(n)
  <2>1. w_abs' # w_abs
    <3>1. w_abs' = w_abs + 1 /\ w_abs \in Nat
      BY <1>4, LineCounts, Counters
    <3>2. QED
      BY <3>1
  <2>2. lost' = {}
    <3>1. CASE lost = {}
      BY <1>1, <2>1, <3>1 DEF Refilled
    <3>2. CASE lost # {}
      <4>1. WindowFull /\ lost = {Slot(start_abs)}
        BY <1>2, <3>2 DEF OnlyOldestLost
      <4>2. TargetSlot = Slot(start_abs)
        BY <4>1, FullTakesOldest
      <4>3. QED
        BY <1>1, <2>1, <4>1, <4>2 DEF Refilled
    <3>3. QED
      BY <3>1, <3>2
  <2>3. /\ Intact!IInv' /\ SameButLost' /\ entry' \in [Slots -> Seq(Nat)]
        /\ tmp_entry' \in TmpType /\ TmpSized' /\ spoiled' \subseteq 1..accepted'
        /\ accepted' <= MaxBytes
    BY <1>1, <1>4, LineKeeps
  <2>4. Slots' = Slots
    BY DEF Slots
  <2>5. QED
    BY <2>2, <2>3, <2>4 DEF OopsInv, OnlyOldestLost
<1>5. QED
  BY <1>1, <1>3, <1>4

-----------------------------------------------------------------------------
(* The invariant *)

LEMMA OopsStart ==
  ASSUME OopsInit
  PROVE  OopsInv
<1> USE DEF OopsInit, Init
<1>1. Intact!Init /\ (\A i \in Slots : IntactSlot(i) = <<>>)
  <2>1. \A i \in Slots : Held(i) = {} /\ IntactSlot(i) = <<>>
    BY DEF Held, IntactSlot
  <2>2. IntactEntry = [i \in Slots |-> <<>>]
    BY <2>1 DEF IntactEntry
  <2>3. Committed = 0 /\ IntactTmp = [mem |-> "null", bytes |-> <<>>, size |-> 0]
    BY DEF Committed, IntactTmp
  <2>4. Intact!aesd_init_entry(Intact!NullEntry) = [mem |-> "null", bytes |-> <<>>, size |-> 0]
    BY DEF Intact!aesd_init_entry, Intact!NullEntry
  <2>5. QED
    BY <2>1, <2>2, <2>3, <2>4 DEF Intact!Init, Intact!Slots, Slots
<1>2. Intact!IInv
  BY <1>1, Intact!InvInit, BufferAssumption
<1>3. tmp_entry = [mem |-> "null", bytes |-> <<>>, size |-> 0]
  BY DEF aesd_init_entry, NullEntry
<1>4. tmp_entry \in TmpType /\ TmpSized
  BY <1>3 DEF TmpType, TmpSized
<1>5. SameButLost
  <2>1. Marked(<<>>) = <<>>
    BY DEF Marked
  <2>2. Committed = 0 /\ Bytes(Committed, accepted) = <<>>
    BY DEF Committed, Bytes
  <2>3. Carried(tmp_entry) = <<>>
    BY <1>3 DEF Carried, Garbage
  <2>4. QED
    BY <1>1, <1>3, <2>1, <2>2, <2>3 DEF SameButLost
<1>6. entry \in [Slots -> Seq(Nat)] /\ accepted <= MaxBytes /\ spoiled \subseteq 1..accepted
  BY Bounds
<1>7. QED
  BY <1>2, <1>4, <1>5, <1>6 DEF OopsInv, OnlyOldestLost

\* The invariant is inductive: one case per action.
LEMMA OopsStep ==
  ASSUME OopsInv, [OopsNext]_oopsVars
  PROVE  OopsInv'
<1>1. ASSUME NEW n \in 1..MaxChunk, AddEntry(n)
      PROVE  OopsInv'
  BY <1>1, AddKeeps
<1>2. ASSUME NEW n \in 1..MaxChunk, StoreFails(n)
      PROVE  OopsInv'
  BY <1>2, StoreKeeps
<1>3. CASE GrowFails
  BY <1>3, GrowKeeps
<1>4. ASSUME NEW pos \in Positions, ReadLost(pos)
      PROVE  OopsInv'
  <2>1. TypeOK
    BY RealType
  <2>2. pos - start_char_abs \in Int
    BY <2>1, BufferAssumption DEF TypeOK
  <2>3. ReadStart(pos).idx \in Nat
    BY <2>1, <2>2, FindIndexType DEF ReadStart
  <2>4. ReadStart(pos).idx % U8 \in 0..(U8 - 1)
    BY <2>3, ByteType
  <2>5. out_offs' \in 0..(U8 - 1) /\ full' \in BOOLEAN
    BY <1>4, <2>1, <2>4 DEF ReadLost, TypeOK
  <2>6. UNCHANGED <<entry, in_offs, w_abs, start_abs, w_char_abs, start_char_abs,
                    tmp_entry, accepted, log, lost, spoiled>>
    BY <1>4 DEF ReadLost
  <2>7. QED
    BY <2>5, <2>6, ReadKeeps
<1>5. ASSUME NEW pos \in Positions, NEW len \in 1..MaxLen, ReadOn(pos, len)
      PROVE  OopsInv'
  <2>1. TypeOK /\ pos \in Int /\ len \in Nat
    BY RealType, BufferAssumption
  <2>2. aesd_circular_buffer_raed(pos, len) /\ UNCHANGED <<lost, spoiled>>
    BY <1>5 DEF ReadOn
  <2>3. out_offs' \in 0..(U8 - 1) /\ full' \in BOOLEAN
    BY <2>1, <2>2, RaedType
  <2>4. UNCHANGED <<entry, in_offs, w_abs, start_abs, w_char_abs, start_char_abs,
                    tmp_entry, accepted, log, lost, spoiled>>
    BY <2>2 DEF aesd_circular_buffer_raed
  <2>5. QED
    BY <2>3, <2>4, ReadKeeps
<1>6. CASE UNCHANGED oopsVars
  <2>1. out_offs' \in 0..(U8 - 1) /\ full' \in BOOLEAN
    BY <1>6, RealType DEF oopsVars, TypeOK
  <2>2. QED
    BY <1>6, <2>1, ReadKeeps DEF oopsVars
<1>7. QED
  BY <1>1, <1>2, <1>3, <1>4, <1>5, <1>6 DEF OopsNext

\* Whatever allocations of add_entry fail, the buffer has the counters and the
\* sizes it would have had, and the bytes but for those that were lost.
THEOREM OopsInvariant == OopsSpec => []OopsInv
<1>1. OopsInit => OopsInv
  BY OopsStart
<1>2. OopsInv /\ [OopsNext]_oopsVars => OopsInv'
  BY OopsStep
<1>3. QED
  BY <1>1, <1>2, PTL DEF OopsSpec

\* Only the oldest line of a full ring can be without a block, because add_entry
\* frees the slot it is about to fill.
THEOREM OnlyOldestIsLost == OopsSpec => []OnlyOldestLost
<1>1. OopsInv => OnlyOldestLost
  BY DEF OopsInv
<1>2. QED
  BY <1>1, OopsInvariant, PTL

-----------------------------------------------------------------------------
(* What a reader finds *)

\* A retained line is in its slot, zero where its bytes were lost.
LEMMA StoredIs ==
  ASSUME OopsInv, NEW j \in start_abs..(w_abs - 1)
  PROVE  /\ log[j + 1].from \in Nat /\ log[j + 1].to \in Nat /\ log[j + 1].from < log[j + 1].to
         /\ entry[Slot(j)] = Stored(log[j + 1])
         /\ Stored(log[j + 1]) = Stretch(Mark, log[j + 1].from, log[j + 1].to)
         /\ log[j + 1].from = Intact!Cut(j - start_abs)
         /\ log[j + 1].to = Intact!Cut((j - start_abs) + 1)
<1> DEFINE line == log[j + 1]
           a == line.from
           b == line.to
           h == j - start_abs
<1>1. start_abs \in Nat /\ w_abs \in Nat /\ j \in Nat
  BY Counters
<1>2. h \in 0..(Intact!Retained - 1) /\ start_abs + h + 1 = j + 1
  BY <1>1 DEF Intact!Retained
<1>3. /\ log[start_abs + h + 1].from = Intact!Cut(h)
      /\ log[start_abs + h + 1].to = Intact!Cut(h + 1)
      /\ Intact!Cut(h) \in Nat /\ Intact!Cut(h + 1) \in Nat /\ Intact!Cut(h) < Intact!Cut(h + 1)
  <2> HIDE DEF h
  <2>1. QED
    BY <1>2, IntactReads, Intact!LineCuts, BufferAssumption
<1>4. a = Intact!Cut(h) /\ b = Intact!Cut(h + 1) /\ a \in Nat /\ b \in Nat /\ a < b
  <2> HIDE DEF h
  <2>1. QED
    BY <1>2, <1>3
<1>5. IntactSlot(Slot(j)) = LineBytes(line) /\ Slot(j) \in Slots
  BY HeldIs
<1>6. entry[Slot(j)] = Marked(LineBytes(line))
  BY <1>5, SlotSizes
<1>7. LineBytes(line) = Bytes(a, b) /\ LineSize(line) = b - a
  BY DEF LineBytes, LineSize
<1>8. Stored(line) = [k \in 1..(b - a) |-> IF a + k \in spoiled THEN Garbage ELSE a + k]
  BY <1>7 DEF Stored
<1> HIDE DEF a, b, h, line
<1>9. Len(Bytes(a, b)) = b - a /\ \A k \in 1..(b - a) : Bytes(a, b)[k] = a + k
  <2>1. a \in Nat /\ b \in Nat /\ a <= b
    BY <1>4
  <2>2. QED
    BY <2>1, BytesSeq
<1>10. \A k \in 1..(b - a) : Mark[a + k] = IF a + k \in spoiled THEN Garbage ELSE a + k
  BY <1>4 DEF Mark
<1>11. Marked(Bytes(a, b)) = [k \in 1..(b - a) |-> Mark[a + k]]
  BY <1>9 DEF Marked
<1>12. Stretch(Mark, a, b) = [k \in 1..(b - a) |-> Mark[a + k]]
  BY DEF Stretch
<1>13. Stored(line) = Stretch(Mark, a, b) /\ entry[Slot(j)] = Stored(line)
  BY <1>6, <1>7, <1>8, <1>10, <1>11, <1>12
<1>14. QED
  BY <1>4, <1>13 DEF a, b, h, line

\* A read from the window's start finds the oldest line.
LEMMA StartsAtOldest ==
  ASSUME OopsInv, Committed > 0
  PROVE  /\ InWindow(start_char_abs) /\ start_abs \in start_abs..(w_abs - 1)
         /\ ReadStart(start_char_abs) = [idx |-> start_abs, ofs |-> 0]
<1>1. /\ start_abs \in Nat /\ w_abs \in Nat /\ start_char_abs \in Nat /\ w_abs = Len(log)
      /\ w_char_abs = Committed /\ w_abs <= Committed /\ Committed \in Nat
      /\ w_abs - start_abs = (IF N <= w_abs THEN N ELSE w_abs) /\ Committed <= accepted
      /\ accepted < U32 /\ N \in Nat \ {0} /\ U32 \in Nat \ {0}
  BY Counters, Bounds
<1>2. Intact!ReadInv /\ TypeOK
  BY IntactReads, RealType
<1>3. w_abs # 0
  BY <1>1 DEF Committed
<1>4. Intact!Retained = w_abs - start_abs /\ Intact!Retained # 0 /\ 0 \in 0..(Intact!Retained - 1)
  BY <1>1, <1>3 DEF Intact!Retained
<1>5. start_char_abs < Committed
  BY <1>2, <1>4, Intact!WindowStart, BufferAssumption, SameNames
<1>6. Len(IntactEntry[0]) \in Nat \ {0}
  BY <1>2, <1>4, Intact!UsedSlot, BufferAssumption
<1>7. 0 \in Slots
  BY <1>1 DEF Slots
<1>8. Len(entry[0]) \in Nat \ {0}
  BY <1>6, <1>7, SlotSizes
<1>9. PhysicalPrefix(0) = 0
  BY <1>2, PrefixZero
<1>10. SearchHits(0, 0)
  BY <1>8, <1>9 DEF SearchHits
<1>11. SearchStop(0) = 0
  BY <1>7, <1>10, SearchStopsAt DEF SearchEnds
<1>12. Uint32(start_abs + 0) = start_abs
  <2>1. start_abs + 0 = start_abs /\ start_abs < U32
    <3>1. start_abs \in 0..(U32 - 1)
      BY <1>2 DEF TypeOK
    <3>2. QED
      BY <1>1, <3>1
  <2>2. start_abs % U32 = start_abs
    BY <1>1, <2>1, ModSmall
  <2>3. QED
    BY <2>1, <2>2 DEF Uint32
<1>13. FindIndex(0) = [idx |-> start_abs, ofs |-> 0]
  BY <1>1, <1>9, <1>10, <1>11, <1>12 DEF FindIndex
<1>14. InWindow(start_char_abs) /\ start_char_abs - start_char_abs = 0
  BY <1>1, <1>5 DEF InWindow
<1>15. start_abs \in start_abs..(w_abs - 1)
  BY <1>1, <1>3
<1>16. QED
  BY <1>13, <1>14, <1>15 DEF ReadStart

\* All retained lines together are no more than was committed.
LEMMA LinesTogether ==
  ASSUME OopsInv, Committed > 0
  PROVE  LET lines == FlattenSeq([k \in 1..(w_abs - start_abs) |-> Stored(log[start_abs + k])])
         IN  /\ LinesFrom(start_abs) = lines
             /\ lines \in Seq(Nat) /\ Len(lines) <= Committed
<1> DEFINE n == w_abs - start_abs
           cuts == [k \in 0..n |-> Intact!Cut(k)]
           stored == [k \in 1..n |-> Stored(log[start_abs + k])]
<1>1. start_abs \in Nat /\ w_abs \in Nat /\ Committed \in Nat
  BY Counters
<1>2. n \in Nat \ {0} /\ n = Intact!Retained
  BY <1>1, StartsAtOldest DEF Intact!Retained
<1>3. ASSUME NEW k \in 1..n
      PROVE  /\ Stored(log[start_abs + k]) = Stretch(Mark, cuts[k - 1], cuts[k])
             /\ cuts[k - 1] <= cuts[k]
             /\ entry[Slot(start_abs + k - 1)] = Stored(log[start_abs + k])
  <2> DEFINE j == start_abs + k - 1
             line == log[j + 1]
  <2>1. /\ j \in start_abs..(w_abs - 1) /\ j + 1 = start_abs + k /\ j - start_abs = k - 1
        /\ (k - 1) + 1 = k /\ k - 1 \in 0..n /\ k \in 0..n
    BY <1>1, <1>2
  <2> HIDE DEF j
  <2>2. /\ line.from \in Nat /\ line.to \in Nat /\ line.from < line.to
        /\ entry[Slot(j)] = Stored(line) /\ Stored(line) = Stretch(Mark, line.from, line.to)
        /\ line.from = Intact!Cut(k - 1) /\ line.to = Intact!Cut(k)
    BY <2>1, StoredIs
  <2>3. cuts[k - 1] = line.from /\ cuts[k] = line.to
    BY <2>1, <2>2
  <2>4. cuts[k - 1] <= cuts[k]
    <3> DEFINE a == line.from
               b == line.to
    <3>1. a \in Nat /\ b \in Nat /\ a < b
      BY <2>2
    <3> HIDE DEF a, b
    <3>2. a <= b
      BY <3>1
    <3>3. QED
      BY <2>3, <3>2 DEF a, b
  <2> HIDE DEF cuts
  <2>5. line = log[start_abs + k] /\ Slot(j) = Slot(start_abs + k - 1)
    BY <2>1 DEF j
  <2> HIDE DEF line
  <2>6. QED
    BY <2>2, <2>3, <2>4, <2>5
<1>4. cuts \in [0..n -> Nat]
  <2>1. \A k \in 0..n : Intact!Cut(k) \in Nat
    <3>1. Intact!ReadInv
      BY IntactReads
    <3>2. QED
      BY <1>2, <3>1, Intact!CutNat, BufferAssumption
  <2>2. QED
    BY <2>1
<1>5. cuts[n] = Committed
  <2>1. Intact!Cut(n) = Committed
    BY <1>2, SameNames DEF Intact!Cut
  <2>2. QED
    BY <1>2, <2>1
<1> HIDE DEF n, cuts
<1>6. stored = [k \in 1..n |-> Stretch(Mark, cuts[k - 1], cuts[k])]
  BY <1>3
<1>7. /\ FlattenSeq([k \in 1..n |-> Stretch(Mark, cuts[k - 1], cuts[k])])
           = Stretch(Mark, cuts[0], cuts[n])
      /\ cuts[0] <= cuts[n]
  <2>1. \A k \in 1..n : cuts[k - 1] <= cuts[k]
    BY <1>3
  <2>2. QED
    BY <1>2, <1>4, <2>1, MarkType, FlattenStretches
<1>8. [k \in 1..n |-> entry[Slot(start_abs + k - 1)]] = stored
  BY <1>3
<1>9. LinesFrom(start_abs) = FlattenSeq(stored)
  BY <1>8 DEF LinesFrom, n
<1> HIDE DEF stored
<1>10. FlattenSeq(stored) = Stretch(Mark, cuts[0], Committed) /\ cuts[0] \in Nat /\ cuts[0] <= Committed
  <2>1. 0 \in 0..n
    BY <1>2
  <2>2. QED
    BY <1>4, <1>5, <1>6, <1>7, <2>1
<1> DEFINE a == cuts[0]
<1>11. a \in Nat /\ a <= Committed /\ FlattenSeq(stored) = [k \in 1..(Committed - a) |-> Mark[a + k]]
  BY <1>10 DEF Stretch
<1> HIDE DEF a
<1>12. \A k \in 1..(Committed - a) : Mark[a + k] \in Nat
  BY <1>1, <1>11, MarkType
<1>13. FlattenSeq(stored) \in Seq(Nat) /\ Len(FlattenSeq(stored)) = Committed - a
  BY <1>1, <1>11, <1>12
<1>14. Len(FlattenSeq(stored)) <= Committed
  BY <1>1, <1>11, <1>13
<1>15. QED
  BY <1>9, <1>13, <1>14 DEF stored, n

\* No byte of a later write moves when an allocation of add_entry fails: sizes and
\* counters still add up, and the slots hold the last lines.
THEOREM LaterBytesStayInPlace == OopsSpec => []LaterBytesInPlace
<1>1. OopsInv => LaterBytesInPlace
  <2>1. SUFFICES ASSUME OopsInv PROVE LaterBytesInPlace
    OBVIOUS
  <2>2. tmp_entry.size = accepted - Committed
    BY <2>1 DEF OopsInv, SameButLost
  <2>3. w_abs = Len(log) /\ w_char_abs = Committed
    BY <2>1, Counters
  <2>4. \A i \in start_abs..(w_abs - 1) : entry[Slot(i)] = Stored(log[i + 1])
    BY <2>1, StoredIs
  <2>5. QED
    BY <2>2, <2>3, <2>4 DEF LaterBytesInPlace
<1>2. QED
  BY <1>1, OopsInvariant, PTL

\* While the oldest line has no block aesd_circular_buffer_raed ends there, and
\* otherwise gives every retained line from the window's start.
THEOREM LostLineHides == OopsSpec => []LostLineHidesTheRest
<1>1. OopsInv => LostLineHidesTheRest
  <2> DEFINE lines == FlattenSeq([k \in 1..(w_abs - start_abs) |-> Stored(log[start_abs + k])])
  <2>1. SUFFICES ASSUME OopsInv, Committed > 0
                 PROVE  /\ RaedData(start_char_abs, Committed) = lines
                        /\ StopsAt(ReadStart(start_char_abs).idx) <=> lost # {}
    BY DEF LostLineHidesTheRest
  <2>2. /\ InWindow(start_char_abs) /\ start_abs \in start_abs..(w_abs - 1)
        /\ ReadStart(start_char_abs) = [idx |-> start_abs, ofs |-> 0]
    BY <2>1, StartsAtOldest
  <2>3. LinesFrom(start_abs) = lines /\ lines \in Seq(Nat) /\ Len(lines) <= Committed
    BY <2>1, LinesTogether
  <2> HIDE DEF lines
  <2>4. start_abs \in Nat /\ w_abs \in Nat /\ w_abs <= Committed /\ Committed <= accepted
        /\ Committed \in Nat /\ accepted <= MaxBytes /\ accepted \in Nat
    BY <2>1, Counters DEF OopsInv
  <2>5. ~ReadsNothing(start_abs) /\ ~ReadFails(start_char_abs)
    <3>1. start_abs < w_abs
      BY <2>2, <2>4
    <3>2. start_abs < U32 \div 2
      <4> DEFINE half == U32 \div 2
      <4>1. half \in Nat /\ MaxBytes < half /\ MaxBytes \in Nat
        BY Bounds
      <4> HIDE DEF half
      <4>2. start_abs < half
        BY <2>4, <3>1, <4>1
      <4>3. QED
        BY <4>2 DEF half
    <3> DEFINE half == U32 \div 2
    <3>3. start_abs < half /\ half \in Nat
      BY <3>2, Bounds
    <3> HIDE DEF half
    <3>4. ~(start_abs >= half \/ start_abs = w_abs)
      BY <2>4, <3>1, <3>3
    <3>5. QED
      BY <2>2, <3>4 DEF ReadsNothing, ReadFails, half
  <2>6. Copied(start_abs, 0, Committed) = lines
    <3>1. Slot(start_abs) \in Slots
      BY <2>1, <2>2, HeldIs
    <3>2. Len(entry[Slot(start_abs)]) \in Nat
      BY <2>1, <3>1, SlotSizes, LenProperties
    <3>3. Copied(start_abs, 0, Committed) = SubSeq(lines, 0 + 1, Min({0 + Committed, Len(lines)}))
      <4>1. ~(0 > Len(entry[Slot(start_abs)]))
        BY <3>2
      <4>2. QED
        BY <2>3, <4>1, Zenon DEF Copied
    <3>4. Len(lines) \in Nat /\ 0 + Committed = Committed /\ 0 + 1 = 1
      BY <2>3, <2>4, LenProperties
    <3>5. Min({Committed, Len(lines)}) = Len(lines)
      <4>1. Min({Committed, Len(lines)}) = IF Committed <= Len(lines) THEN Committed ELSE Len(lines)
        BY <2>4, <3>4, MinPair
      <4>2. QED
        BY <2>3, <2>4, <3>4, <4>1
    <3>6. QED
      BY <2>3, <3>3, <3>4, <3>5, SubSeqFull
  <2>7. RaedData(start_char_abs, Committed) = lines
    BY <2>2, <2>5, <2>6 DEF RaedData
  <2>8. StopsAt(start_abs) <=> lost # {}
    BY <2>1 DEF OopsInv, OnlyOldestLost, StopsAt
  <2>9. QED
    BY <2>2, <2>7, <2>8
<1>2. QED
  BY <1>1, OopsInvariant, PTL
=============================================================================
