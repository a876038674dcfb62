------------------------ MODULE AesdCircularBufferProofs ------------------------
(***************************************************************************)
(* Proofs, for every buffer size, counter width and bound, of the            *)
(* invariants of AesdCircularBuffer.                                         *)
(***************************************************************************)
EXTENDS AesdCircularBuffer, SharedLemmas

-----------------------------------------------------------------------------
(* Arithmetic of slots and counters *)

\* The slot after a line's slot, as in_offs steps.
LEMMA NextSlot ==
  ASSUME NEW m \in Nat \ {0}, NEW a \in Nat
  PROVE  (a + 1) % m = IF (a % m) + 1 >= m THEN 0 ELSE (a % m) + 1
<1> DEFINE q == a \div m
           r == a % m
           p == (a + 1) \div m
           s == (a + 1) % m
<1>1. a = m * q + r /\ r \in 0..(m - 1) /\ q \in Int
  BY DivMod
<1>2. a + 1 = m * p + s /\ s \in 0..(m - 1) /\ p \in Int
  BY DivMod
<1> HIDE DEF q, r, p, s
<1>3. m * (p - q) = r + 1 - s
  BY <1>1, <1>2
<1>4. CASE r + 1 < m
  <2>1. p - q = 0
    BY <1>1, <1>2, <1>3, <1>4, SmallMultiple
  <2>2. s = r + 1
    BY <1>1, <1>2, <1>3, <2>1
  <2>3. QED
    BY <1>4, <1>1, <2>2 DEF r, s
<1>5. CASE r + 1 >= m
  <2>1. r + 1 = m
    BY <1>1, <1>5
  <2>2. m * (p - q - 1) = -s
    BY <1>1, <1>2, <1>3, <2>1
  <2>3. p - q - 1 = 0
    BY <1>1, <1>2, <2>2, SmallMultiple
  <2>4. s = 0
    BY <1>1, <1>2, <2>2, <2>3
  <2>5. QED
    BY <1>5, <2>4 DEF r, s
<1>6. QED
  BY <1>1, <1>4, <1>5

-----------------------------------------------------------------------------
(* The accumulator and the read *)

TmpType == [mem : {"null", "live", "freed"}, bytes : Seq(Nat), size : Nat]

\* A live accumulator is as long as its size says.
TmpSized == tmp_entry.mem = "live" => Len(tmp_entry.bytes) = tmp_entry.size

LEMMA BytesSeq ==
  ASSUME NEW a \in Nat, NEW b \in Nat, a <= b
  PROVE  /\ Bytes(a, b) \in Seq(Nat)
         /\ Len(Bytes(a, b)) = b - a
         /\ \A k \in 1..(b - a) : Bytes(a, b)[k] = a + k
BY DEF Bytes

\* What is carried over into the new block has the old size.
LEMMA CarriedSeq ==
  ASSUME NEW e \in TmpType, e.mem = "live" => Len(e.bytes) = e.size
  PROVE  /\ Carried(e) \in Seq(Nat)
         /\ Len(Carried(e)) = e.size
         /\ e.mem = "live" => Carried(e) = e.bytes
<1>1. CASE e.mem = "live"
  <2>1. e.bytes \in Seq(Nat) /\ Len(e.bytes) = e.size
    BY <1>1 DEF TmpType
  <2>2. SubSeq(e.bytes, 1, Len(e.bytes)) = e.bytes
    BY <2>1, SubSeqFull
  <2>3. QED
    BY <1>1, <2>1, <2>2 DEF Carried
<1>2. CASE e.mem # "live"
  BY <1>2 DEF Carried, Garbage, TmpType
<1>3. QED
  BY <1>1, <1>2

\* The accumulator after a chunk of n bytes is n bytes longer.
LEMMA ExtendedSeq ==
  ASSUME NEW e \in TmpType, e.mem = "live" => Len(e.bytes) = e.size,
         NEW chunk \in Seq(Nat)
  PROVE  LET d == Extended(e, chunk)
         IN  /\ d \in TmpType /\ d.mem = "live"
             /\ d.size = e.size + Len(chunk)
             /\ d.bytes = Carried(e) \o chunk
             /\ Len(d.bytes) = d.size
             /\ SubSeq(d.bytes, 1, d.size) = d.bytes
<1> DEFINE d == Extended(e, chunk)
           c == Carried(e)
<1>1. c \in Seq(Nat) /\ Len(c) = e.size
  BY CarriedSeq
<1>2. /\ d.mem = "live" /\ d.bytes = c \o chunk /\ d.size = e.size + Len(chunk)
      /\ d = [mem |-> "live", bytes |-> c \o chunk, size |-> e.size + Len(chunk)]
  BY DEF Extended
<1> HIDE DEF d, c
<1>3. c \o chunk \in Seq(Nat) /\ Len(c \o chunk) = e.size + Len(chunk)
  BY <1>1, ConcatProperties, SMTT(30)
<1>4. e.size + Len(chunk) \in Nat
  BY DEF TmpType
<1>5. d \in TmpType
  BY <1>2, <1>3, <1>4 DEF TmpType
<1>6. SubSeq(d.bytes, 1, Len(d.bytes)) = d.bytes
  BY <1>2, <1>3, SubSeqFull
<1>7. QED
  BY <1>2, <1>3, <1>5, <1>6 DEF d, c

\* The search returns a 32 bit line number.
LEMMA FindIndexType ==
  ASSUME TypeOK, NEW off \in Int
  PROVE  FindIndex(off).idx \in 0..(U32 - 1)
<1> DEFINE ends == {j \in Slots : SearchEnds(j, off)} \cup {N}
           j == SearchStop(off)
<1>1. ends \in SUBSET Nat /\ ends # {}
  BY BufferAssumption DEF Slots
<1>2. j \in Nat
  BY <1>1, MinNat DEF SearchStop
<1>3. start_abs + j \in Int /\ start_abs + j + 1 \in Int
  BY <1>2 DEF TypeOK
<1>4. U32 \in Nat \ {0}
  BY BufferAssumption
<1>5. Uint32(start_abs + j) \in 0..(U32 - 1) /\ Uint32(start_abs + j + 1) \in 0..(U32 - 1)
  BY <1>3, <1>4, DivMod DEF Uint32
<1> HIDE DEF j
<1>6. QED
  BY <1>5 DEF FindIndex, j

\* A number stored in a uint8_t.
LEMMA ByteType ==
  ASSUME NEW a \in Nat
  PROVE  a % U8 \in 0..(U8 - 1)
BY DivMod DEF U8

\* A read leaves out_offs a uint8_t.
LEMMA OutOffsType ==
  ASSUME NEW first \in Nat, NEW c \in Nat
  PROVE  OutOffsAfter(first, c) \in 0..(U8 - 1)
<1>1. first % U8 \in 0..(U8 - 1)
  BY ByteType
<1>2. CASE c = 0
  BY <1>1, <1>2 DEF OutOffsAfter
<1>3. CASE c # 0
  <2> DEFINE o == (first % U8) + 1
             x == WrapOffs(o) + c - 1
  <2>1. x \in Int /\ N \in Nat \ {0}
    BY <1>1, BufferAssumption DEF U8, WrapOffs
  <2>3. OutOffsAfter(first, c) = x % N
    BY <1>3 DEF OutOffsAfter
  <2> HIDE DEF x
  <2>2. x % N \in 0..(N - 1)
    BY <2>1, DivMod
  <2>4. QED
    BY <2>2, <2>3, BufferAssumption DEF U8
<1>4. QED
  BY <1>2, <1>3

LEMMA ConsumedType ==
  ASSUME TypeOK, NEW first \in Int, NEW ofs, NEW len
  PROVE  Consumed(first, ofs, len) \in Nat
<1> DEFINE S == {i \in first..(w_abs - 1) : Span(first, i) - ofs <= len}
<1>1. IsFiniteSet(first..(w_abs - 1))
  BY FS_Interval DEF TypeOK
<1>2. IsFiniteSet(S)
  BY <1>1, FS_Subset
<1>3. Cardinality(S) \in Nat
  BY <1>2, FS_CardinalityType
<1>4. QED
  BY <1>3 DEF Consumed
-----------------------------------------------------------------------------
(* The inductive invariant *)

\* The log cuts the stream into non-empty lines that follow one another, and
\* no line ends after the bytes handed over so far.
LogPartitions ==
  /\ \A i \in DOMAIN log : log[i].from < log[i].to /\ log[i].to <= accepted
  /\ \A i \in DOMAIN log : i > 1 => log[i].from = log[i - 1].to
  /\ \A i \in DOMAIN log : i > 1 => log[i].from >= log[1].to
  /\ log # <<>> => log[1].from = 0
  /\ Len(log) <= Committed

\* Nothing is skipped before the first line.
StartAtZero == log = <<>> => start_char_abs = 0

IInv ==
  /\ TypeOK
  /\ TmpSized
  /\ LogPartitions
  /\ PendingIntact
  /\ RingHoldsRecentLines
  /\ StartAtZero
  /\ StartCharDrift

\* Committed is a natural number no larger than accepted.
LEMMA CommittedBound ==
  ASSUME TypeOK, LogPartitions, PendingIntact
  PROVE  Committed \in Nat /\ Committed <= accepted /\ tmp_entry.size = accepted - Committed
<1>1. CASE log = <<>>
  BY <1>1 DEF TypeOK, PendingIntact, Committed
<1>2. CASE log # <<>>
  <2>1. Len(log) \in DOMAIN log /\ log[Len(log)] \in [from : Nat, to : Nat]
    <3> DEFINE Line == [from : Nat, to : Nat]
    <3>1. log \in Seq(Line)
      BY DEF TypeOK
    <3> HIDE DEF Line
    <3>2. Len(log) \in Nat \ {0} /\ DOMAIN log = 1..Len(log)
      BY <1>2, <3>1, EmptySeq, LenProperties
    <3>3. log[Len(log)] \in Line
      BY <3>1, <3>2, ElementOfSeq
    <3>4. QED
      BY <3>2, <3>3 DEF Line
  <2>2. QED
    BY <1>2, <2>1 DEF TypeOK, LogPartitions, PendingIntact, Committed
<1>3. QED
  BY <1>1, <1>2

\* Two neighbouring ranges of the stream make one.
LEMMA BytesConcat ==
  ASSUME NEW a \in Nat, NEW b \in Nat, NEW c \in Nat, a <= b, b <= c
  PROVE  Bytes(a, b) \o Bytes(b, c) = Bytes(a, c)
BY RunsMeet DEF Bytes, Run

\* After a chunk of n bytes the accumulator holds the bytes since the last
\* newline, those of the chunk included.
LEMMA DonePending ==
  ASSUME TypeOK, TmpSized, LogPartitions, PendingIntact, NEW n \in Nat
  PROVE  LET d == Extended(tmp_entry, Bytes(accepted, accepted + n))
         IN  /\ d \in TmpType /\ d.mem = "live"
             /\ d.size = accepted + n - Committed
             /\ d.bytes = Bytes(Committed, accepted + n)
             /\ Len(d.bytes) = d.size
             /\ SubSeq(d.bytes, 1, d.size) = d.bytes
<1> DEFINE ch == Bytes(accepted, accepted + n)
           d == Extended(tmp_entry, ch)
<1>1. accepted \in Nat /\ accepted + n \in Nat /\ tmp_entry \in TmpType
  BY DEF TypeOK, TmpType
<1>2. Committed \in Nat /\ Committed <= accepted /\ tmp_entry.size = accepted - Committed
  BY CommittedBound
<1>3. ch \in Seq(Nat) /\ Len(ch) = n
  BY <1>1, BytesSeq
<1> HIDE DEF ch
<1>4. /\ d \in TmpType /\ d.mem = "live"
      /\ d.size = tmp_entry.size + Len(ch)
      /\ d.bytes = Carried(tmp_entry) \o ch
      /\ Len(d.bytes) = d.size
      /\ SubSeq(d.bytes, 1, d.size) = d.bytes
  BY <1>1, <1>3, ExtendedSeq DEF TmpSized
<1>5. Carried(tmp_entry) = Bytes(Committed, accepted)
  <2>1. CASE tmp_entry.size > 0
    BY <1>1, <2>1, CarriedSeq DEF PendingIntact, TmpSized
  <2>2. CASE tmp_entry.size = 0
    <3>1. Carried(tmp_entry) \in Seq(Nat) /\ Len(Carried(tmp_entry)) = 0
      BY <1>1, <2>2, CarriedSeq DEF TmpSized
    <3>2. Bytes(Committed, accepted) \in Seq(Nat) /\ Len(Bytes(Committed, accepted)) = 0
      BY <1>1, <1>2, <2>2, BytesSeq
    <3>3. QED
      BY <3>1, <3>2, EmptySeq
  <2>3. QED
    BY <1>1, <2>1, <2>2 DEF TmpType
<1> HIDE DEF d
<1>6. d.bytes = Bytes(Committed, accepted + n)
  <2>1. accepted <= accepted + n
    BY <1>1
  <2>2. Bytes(Committed, accepted) \o Bytes(accepted, accepted + n)
          = Bytes(Committed, accepted + n)
    BY <1>1, <1>2, <2>1, BytesConcat
  <2>3. QED
    BY <1>4, <1>5, <2>2 DEF ch
<1>7. d.size = accepted + n - Committed
  BY <1>1, <1>2, <1>3, <1>4
<1>8. QED
  BY <1>4, <1>6, <1>7 DEF d, ch
-----------------------------------------------------------------------------
(* Every step preserves the invariant *)

\* A step that leaves the lines, the counters and the accumulator alone.
LEMMA InvSame ==
  ASSUME IInv, out_offs' \in 0..(U8 - 1), full' \in BOOLEAN,
         UNCHANGED <<entry, in_offs, w_abs, start_abs, w_char_abs,
                     start_char_abs, tmp_entry, accepted, log>>
  PROVE  IInv'
<1>1. TypeOK' /\ TmpSized' /\ LogPartitions' /\ PendingIntact'
  BY DEF IInv, TypeOK, TmpSized, LogPartitions, PendingIntact, Committed
<1>2. RingHoldsRecentLines'
  BY DEF IInv, RingHoldsRecentLines, NoWrap, Committed
<1>3. StartAtZero' /\ StartCharDrift'
  BY DEF IInv, StartAtZero, StartCharDrift, NoWrap, RetainedFrom
<1>4. QED
  BY <1>1, <1>2, <1>3 DEF IInv

\* A read leaves out_offs and full in their types.
LEMMA RaedType ==
  ASSUME TypeOK, NEW pos \in Int, NEW len \in Nat, aesd_circular_buffer_raed(pos, len)
  PROVE  out_offs' \in 0..(U8 - 1) /\ full' \in BOOLEAN
<1> DEFINE s == ReadStart(pos)
           c == Consumed(s.idx, s.ofs, len)
<1>2. pos - start_char_abs \in Int
  BY DEF TypeOK
<1>3. s.idx \in Nat
  BY <1>2, FindIndexType DEF ReadStart
<1>4. c \in Nat
  BY <1>3, ConsumedType
<1>5. OutOffsAfter(s.idx, c) \in 0..(U8 - 1)
  BY <1>3, <1>4, OutOffsType
<1> HIDE DEF s, c
<1>6. s.idx % U8 \in 0..(U8 - 1)
  BY <1>3, ByteType
<1>7. Slots \subseteq 0..(U8 - 1)
  BY BufferAssumption DEF Slots, U8
<1>8. out_offs \in 0..(U8 - 1) /\ full \in BOOLEAN
  BY DEF TypeOK
<1>9. out_offs' \in 0..(U8 - 1)
  BY <1>5, <1>6, <1>7, <1>8 DEF aesd_circular_buffer_raed, s, c
<1>10. full' \in BOOLEAN
  <2> DEFINE P == c = 0 \/ (c = 1 /\ s.idx + 1 = w_abs)
  <2>1. full' = full \/ full' = FALSE \/ full' = (full /\ P)
    BY DEF aesd_circular_buffer_raed, s, c
  <2> HIDE DEF P
  <2>2. (full /\ P) \in BOOLEAN
    OBVIOUS
  <2>3. QED
    BY <1>8, <2>1, <2>2
<1>11. QED
  BY <1>9, <1>10

LEMMA InvRaed ==
  ASSUME IInv, NEW pos \in Int, NEW len \in Nat, aesd_circular_buffer_raed(pos, len)
  PROVE  IInv'
<1>1. out_offs' \in 0..(U8 - 1) /\ full' \in BOOLEAN
  BY RaedType DEF IInv
<1>2. UNCHANGED <<entry, in_offs, w_abs, start_abs, w_char_abs,
                  start_char_abs, tmp_entry, accepted, log>>
  BY DEF aesd_circular_buffer_raed
<1>3. QED
  BY <1>1, <1>2, InvSame

LEMMA InvPartial ==
  ASSUME IInv, NEW n \in 1..MaxChunk, AddPartial(n)
  PROVE  IInv'
<1> DEFINE d == Extended(tmp_entry, Bytes(accepted, accepted + n))
<1>1. n \in Nat /\ accepted \in Nat /\ TypeOK
  BY BufferAssumption DEF IInv, TypeOK
<1>2. /\ d \in TmpType /\ d.mem = "live"
      /\ d.size = accepted + n - Committed
      /\ d.bytes = Bytes(Committed, accepted + n)
      /\ Len(d.bytes) = d.size
  BY <1>1, DonePending DEF IInv
<1>3. /\ tmp_entry' = d /\ accepted' = accepted + n
      /\ UNCHANGED <<entry, in_offs, out_offs, full, w_abs, start_abs, w_char_abs,
                     start_char_abs, log>>
  BY DEF AddPartial
<1> HIDE DEF d
<1>4. Committed' = Committed
  BY <1>3 DEF Committed
<1>5. TypeOK'
  BY <1>1, <1>2, <1>3 DEF TypeOK, TmpType
<1>6. TmpSized'
  BY <1>2, <1>3 DEF TmpSized
<1>7. LogPartitions'
  <2>1. \A i \in DOMAIN log : log[i].to \in Nat
    <3> DEFINE Line == [from : Nat, to : Nat]
    <3>1. log \in Seq(Line)
      BY <1>1 DEF TypeOK
    <3> HIDE DEF Line
    <3>2. \A i \in DOMAIN log : log[i] \in Line
      BY <3>1, LenProperties, ElementOfSeq
    <3>3. QED
      BY <3>2 DEF Line
  <2>2. QED
    BY <1>1, <1>3, <1>4, <2>1 DEF IInv, LogPartitions
<1>8. PendingIntact'
  <2>1. (Bytes(Committed, accepted))' = Bytes(Committed, accepted + n)
    BY <1>3, <1>4 DEF Bytes
  <2>2. tmp_entry'.size = accepted' - Committed'
    <3>1. tmp_entry'.size = accepted + n - Committed
      BY <1>2, <1>3
    <3>2. Committed \in Nat
      BY CommittedBound DEF IInv
    <3>3. QED
      BY <1>1, <1>3, <1>4, <3>1, <3>2
  <2>3. tmp_entry'.mem = "live" /\ tmp_entry'.bytes = Bytes(Committed, accepted + n)
    BY <1>2, <1>3
  <2>4. QED
    BY <2>1, <2>2, <2>3 DEF PendingIntact
<1>9. NoWrap' => NoWrap
  <2>1. U32 \in Nat
    BY BufferAssumption
  <2>2. QED
    BY <1>1, <1>3, <2>1 DEF NoWrap
<1>10. RingHoldsRecentLines'
  BY <1>3, <1>4, <1>9 DEF IInv, RingHoldsRecentLines
<1>11. StartAtZero' /\ StartCharDrift'
  BY <1>3, <1>9 DEF IInv, StartAtZero, StartCharDrift, RetainedFrom
<1>12. QED
  BY <1>5, <1>6, <1>7, <1>8, <1>10, <1>11 DEF IInv

\* The log after one more line.
LEMMA LogAppend ==
  ASSUME TypeOK, LogPartitions, PendingIntact, NEW n \in Nat \ {0},
         log' = Append(log, [from |-> Committed, to |-> accepted + n])
  PROVE  /\ log' \in Seq([from : Nat, to : Nat])
         /\ Len(log) \in Nat
         /\ Len(log') = Len(log) + 1
         /\ DOMAIN log = 1..Len(log) /\ DOMAIN log' = 1..(Len(log) + 1)
         /\ \A i \in 1..Len(log) : log'[i] = log[i] /\ log[i].from \in Nat /\ log[i].to \in Nat
         /\ log'[Len(log) + 1].from = Committed
         /\ log'[Len(log) + 1].to = accepted + n
         /\ log # <<>> => Committed = log[Len(log)].to
         /\ log = <<>> => Committed = 0 /\ Len(log) = 0
         /\ log # <<>> => Len(log) >= 1
         /\ log' # <<>>
         /\ Committed' = accepted + n
<1> DEFINE Line == [from : Nat, to : Nat]
           r == [from |-> Committed, to |-> accepted + n]
<1>1. log \in Seq(Line) /\ accepted \in Nat
  BY DEF TypeOK
<1>2. Committed \in Nat
  BY CommittedBound
<1>3. r \in Line /\ r.from = Committed /\ r.to = accepted + n
  BY <1>1, <1>2
<1>4. log' = Append(log, r)
  OBVIOUS
<1> HIDE DEF Line, r
<1>5. /\ log' \in Seq(Line) /\ log' # <<>>
      /\ Len(log') = Len(log) + 1
      /\ \A i \in 1..Len(log) : log'[i] = log[i]
      /\ log'[Len(log) + 1] = r
  BY <1>1, <1>3, <1>4, AppendProperties
<1>6. Len(log) \in Nat /\ DOMAIN log = 1..Len(log)
  BY <1>1, LenProperties
<1>7. DOMAIN log' = 1..(Len(log) + 1)
  BY <1>5, LenProperties
<1>8. \A i \in 1..Len(log) : log[i] \in Line
  BY <1>1, ElementOfSeq
<1>9. \A i \in 1..Len(log) : log[i].from \in Nat /\ log[i].to \in Nat
  BY <1>8 DEF Line
<1>10. log # <<>> => Len(log) \in Nat \ {0}
  BY <1>1, EmptySeq
<1>11. log = <<>> => Len(log) = 0
  BY EmptySeq
<1>12. /\ log # <<>> => Committed = log[Len(log)].to
       /\ log = <<>> => Committed = 0
  BY DEF Committed
<1>13. Committed' = accepted + n
  BY <1>3, <1>5 DEF Committed
<1>14. QED
  BY <1>3, <1>5, <1>6, <1>7, <1>9, <1>10, <1>11, <1>12, <1>13 DEF Line

LEMMA LinePartitions ==
  ASSUME TypeOK, LogPartitions, PendingIntact, NEW n \in Nat \ {0},
         accepted' = accepted + n,
         log' = Append(log, [from |-> Committed, to |-> accepted + n])
  PROVE  LogPartitions'
<1> DEFINE len == Len(log)
<1>1. /\ len \in Nat /\ Len(log') = len + 1
      /\ DOMAIN log = 1..len /\ DOMAIN log' = 1..(len + 1)
      /\ \A i \in 1..len : log'[i] = log[i] /\ log[i].from \in Nat /\ log[i].to \in Nat
      /\ log'[len + 1].from = Committed /\ log'[len + 1].to = accepted + n
      /\ log # <<>> => Committed = log[len].to
      /\ log = <<>> => Committed = 0 /\ len = 0
      /\ log # <<>> => len >= 1
      /\ Committed' = accepted + n
  BY LogAppend
<1>2. accepted \in Nat /\ Committed \in Nat /\ Committed <= accepted
  BY CommittedBound DEF TypeOK
<1>3. /\ \A i \in 1..len : log[i].from < log[i].to /\ log[i].to <= accepted
      /\ \A i \in 1..len : i > 1 => log[i].from = log[i - 1].to
      /\ \A i \in 1..len : i > 1 => log[i].from >= log[1].to
      /\ log # <<>> => log[1].from = 0
      /\ len <= Committed
  BY <1>1 DEF LogPartitions
<1> HIDE DEF len
<1>4. ASSUME NEW i \in 1..(len + 1)
      PROVE  log'[i].from < log'[i].to /\ log'[i].to <= accepted + n
  <2>1. CASE i = len + 1
    BY <1>1, <1>2, <2>1
  <2>2. CASE i # len + 1
    <3>1. i \in 1..len
      BY <1>1, <2>2
    <3>2. log'[i] = log[i] /\ log[i].to \in Nat
      BY <1>1, <3>1
    <3>3. log[i].from < log[i].to /\ log[i].to <= accepted
      BY <1>3, <3>1
    <3>4. log[i].to <= accepted + n
      BY <1>2, <3>2, <3>3
    <3>5. QED
      BY <3>2, <3>3, <3>4
  <2>3. QED
    BY <2>1, <2>2
<1>5. ASSUME NEW i \in 1..(len + 1), i > 1
      PROVE  log'[i].from = log'[i - 1].to
  <2>1. i - 1 \in 1..len /\ log # <<>>
    BY <1>1, <1>5
  <2>2. CASE i = len + 1
    BY <1>1, <2>1, <2>2
  <2>3. CASE i # len + 1
    <3>1. i \in 1..len
      BY <1>1, <2>3
    <3>2. QED
      BY <1>1, <1>3, <1>5, <2>1, <3>1
  <2>4. QED
    BY <2>2, <2>3
<1>6. log'[1].from = 0
  <2>1. CASE log = <<>>
    BY <1>1, <2>1
  <2>2. CASE log # <<>>
    BY <1>1, <1>3, <2>2
  <2>3. QED
    BY <2>1, <2>2
<1>7. Len(log') <= Committed'
  BY <1>1, <1>2, <1>3
<1>8. ASSUME NEW i \in 1..(len + 1), i > 1
      PROVE  log'[i].from >= log'[1].to
  <2>1. len >= 1 /\ log # <<>> /\ log'[1] = log[1] /\ 1 \in 1..len /\ len \in 1..len
    BY <1>1, <1>8
  <2>2. CASE i = len + 1
    <3>1. log'[i].from = log[len].to
      BY <1>1, <2>1, <2>2
    <3>2. CASE len = 1
      BY <1>1, <2>1, <3>1, <3>2
    <3>3. CASE len # 1
      <4>1. len > 1 /\ log[len].from >= log[1].to /\ log[len].from < log[len].to
        BY <1>3, <2>1, <3>3
      <4>2. log[len].from \in Nat /\ log[len].to \in Nat /\ log[1].to \in Nat
        BY <1>1, <2>1
      <4>3. log[len].to >= log[1].to
        BY <4>1, <4>2
      <4>4. QED
        BY <2>1, <3>1, <4>3
    <3>4. QED
      BY <3>2, <3>3
  <2>3. CASE i # len + 1
    <3>1. i \in 1..len
      BY <1>1, <2>3
    <3>2. QED
      BY <1>1, <1>3, <1>8, <2>1, <3>1
  <2>4. QED
    BY <2>2, <2>3
<1>9. QED
  BY <1>1, <1>4, <1>5, <1>6, <1>7, <1>8 DEF LogPartitions

\* What a finished line does to the slots and to the accumulator.
LEMMA LineEffect ==
  ASSUME TypeOK, TmpSized, LogPartitions, PendingIntact,
         NEW n \in Nat \ {0}, AddLine(n)
  PROVE  /\ entry' = [entry EXCEPT ![TargetSlot] = Bytes(Committed, accepted + n)]
         /\ w_char_abs' = Uint32(w_char_abs + (accepted + n - Committed))
         /\ tmp_entry' = [mem |-> "freed", bytes |-> <<>>, size |-> 0]
         /\ accepted' = accepted + n
         /\ log' = Append(log, [from |-> Committed, to |-> accepted + n])
         /\ out_offs' = out_offs
<1> DEFINE d == Extended(tmp_entry, Bytes(accepted, accepted + n))
<1>1. n \in Nat
  OBVIOUS
<1>2. /\ d.mem = "live" /\ d.size = accepted + n - Committed
      /\ d.bytes = Bytes(Committed, accepted + n)
      /\ SubSeq(d.bytes, 1, d.size) = d.bytes
  BY <1>1, DonePending
<1>3. /\ entry' = [entry EXCEPT ![TargetSlot] = SubSeq(d.bytes, 1, d.size)]
      /\ w_char_abs' = Uint32(w_char_abs + d.size)
      /\ tmp_entry' = aesd_init_entry(d)
      /\ accepted' = accepted + n
      /\ log' = Append(log, [from |-> Committed, to |-> accepted + n])
      /\ out_offs' = out_offs
  BY DEF AddLine
<1> HIDE DEF d
<1>4. aesd_init_entry(d) = [mem |-> "freed", bytes |-> <<>>, size |-> 0]
  BY <1>2 DEF aesd_init_entry
<1>5. QED
  BY <1>2, <1>3, <1>4

LEMMA LineRing ==
  ASSUME IInv, NEW n \in Nat \ {0}, AddLine(n), NoWrap'
  PROVE  /\ RingHoldsRecentLines'
         /\ NoWrap
         /\ WindowFull <=> N <= Len(log)
         /\ start_abs' = IF N <= Len(log) THEN start_abs + 1 ELSE start_abs
         /\ start_abs' \in 0..Len(log)
<1> DEFINE len == Len(log)
           end == accepted + n
<1> USE DEF Slot
<1>a. TypeOK /\ TmpSized /\ LogPartitions /\ PendingIntact
  BY DEF IInv
<1>b. /\ entry' = [entry EXCEPT ![TargetSlot] = Bytes(Committed, accepted + n)]
      /\ w_char_abs' = Uint32(w_char_abs + (accepted + n - Committed))
      /\ accepted' = accepted + n
  BY <1>a, LineEffect
<1>1. /\ len \in Nat /\ Len(log') = len + 1
      /\ \A i \in 1..len : log'[i] = log[i]
      /\ log'[len + 1].from = Committed /\ log'[len + 1].to = end
      /\ Committed' = end
  BY LineEffect, LogAppend DEF IInv
<1>2. accepted \in Nat /\ Committed \in Nat /\ Committed <= accepted /\ len <= Committed
  BY CommittedBound DEF IInv, TypeOK, LogPartitions
<1>3. U32 \in Nat \ {0} /\ N \in Nat \ {0} /\ N < U32
  BY BufferAssumption
<1>4. end \in Nat /\ end < U32 /\ accepted < end
  <2>1. end \in Nat /\ accepted < end
    BY <1>2
  <2>2. end < U32
    BY <1>b DEF NoWrap
  <2>3. QED
    BY <2>1, <2>2
<1>5. NoWrap
  BY <1>2, <1>3, <1>4 DEF NoWrap
<1>6. /\ w_abs = len
      /\ w_abs - start_abs = Min({N, len})
      /\ in_offs = w_abs % N
      /\ w_char_abs = Committed
      /\ \A i \in start_abs..(w_abs - 1) : entry[i % N] = LineBytes(log[i + 1])
  BY <1>5 DEF IInv, RingHoldsRecentLines
<1>7. /\ entry' = [entry EXCEPT ![w_abs % N] = Bytes(Committed, end)]
      /\ w_char_abs' = Uint32(w_char_abs + (end - Committed))
  <2>1. TargetSlot = w_abs % N
    BY DEF TargetSlot
  <2>2. entry' = [entry EXCEPT ![w_abs % N] = Bytes(Committed, end)]
    BY <1>b, <2>1
  <2>3. w_char_abs' = Uint32(w_char_abs + (end - Committed))
    <3>1. accepted + n - Committed = end - Committed
      BY <1>2
    <3>2. QED
      BY <1>b, <3>1
  <2>4. QED
    BY <2>2, <2>3
<1>8. /\ start_abs' = IF WindowFull THEN Uint32(start_abs + 1) ELSE start_abs
      /\ w_abs' = Uint32(w_abs + 1)
      /\ in_offs' = IF in_offs + 1 >= N THEN 0 ELSE in_offs + 1
  BY DEF AddLine, WrapOffs
<1>9. start_abs \in Nat /\ entry \in [Slots -> Seq(Nat)]
  BY <1>3 DEF IInv, TypeOK
<1> HIDE DEF len, end
<1>10. w_abs - start_abs = IF N <= len THEN N ELSE len
  BY <1>1, <1>3, <1>6, MinPair
<1>11. WindowFull <=> N <= len
  <2>1. w_abs - start_abs \in Nat /\ w_abs - start_abs < U32
    BY <1>1, <1>3, <1>10
  <2>2. Uint32(w_abs - start_abs) = w_abs - start_abs
    BY <1>3, <2>1, ModSmall DEF Uint32
  <2>3. QED
    BY <1>1, <1>3, <1>10, <2>2 DEF WindowFull
<1>12. w_abs' = len + 1
  <2>1. len + 1 \in Nat /\ len + 1 < U32
    BY <1>1, <1>2, <1>4, <1>3
  <2>2. QED
    BY <1>3, <1>6, <1>8, <2>1, ModSmall DEF Uint32
<1>13. start_abs' = IF N <= len THEN start_abs + 1 ELSE start_abs
  <2>1. CASE N <= len
    <3>1. start_abs + 1 \in Nat /\ start_abs + 1 < U32
      BY <1>1, <1>2, <1>3, <1>4, <1>6, <1>9, <1>10, <2>1
    <3>2. QED
      BY <1>3, <1>8, <1>11, <2>1, <3>1, ModSmall DEF Uint32
  <2>2. CASE ~(N <= len)
    BY <1>8, <1>11, <2>2
  <2>3. QED
    BY <2>1, <2>2
<1>14. start_abs' \in 0..len
  BY <1>1, <1>3, <1>6, <1>9, <1>10, <1>13
<1>15. w_abs' - start_abs' = Min({N, len + 1})
  <2>1. Min({N, len + 1}) = IF N <= len + 1 THEN N ELSE len + 1
    BY <1>1, <1>3, MinPair
  <2>2. QED
    BY <1>1, <1>3, <1>6, <1>9, <1>10, <1>12, <1>13, <2>1
<1>16. in_offs' = w_abs' % N
  BY <1>1, <1>3, <1>6, <1>8, <1>12, NextSlot
<1>17. w_char_abs' = end
  <2>1. w_char_abs + (end - Committed) = end
    BY <1>2, <1>4, <1>6
  <2>2. QED
    BY <1>3, <1>4, <1>7, <2>1, ModSmall DEF Uint32
<1>18. ASSUME NEW i \in start_abs'..(w_abs' - 1)
       PROVE  entry'[i % N] = LineBytes(log'[i + 1])
  <2>1. i \in Nat /\ i <= len /\ len - i < N
    <3>1. i \in Int /\ start_abs' <= i /\ i <= len
      BY <1>1, <1>12, <1>14
    <3>2. CASE N <= len
      BY <1>1, <1>3, <1>6, <1>9, <1>10, <1>13, <3>1, <3>2
    <3>3. CASE ~(N <= len)
      BY <1>1, <1>3, <1>6, <1>9, <1>10, <1>13, <3>1, <3>3
    <3>4. QED
      BY <3>2, <3>3
  <2>2. i % N \in Slots /\ w_abs % N \in Slots
    <3>1. i % N \in 0..(N - 1)
      BY <1>3, <2>1, DivMod
    <3>2. w_abs % N \in 0..(N - 1)
      BY <1>1, <1>3, <1>6, DivMod
    <3>3. QED
      BY <3>1, <3>2 DEF Slots
  <2>3. CASE i = len
    <3>1. entry'[i % N] = Bytes(Committed, end)
      BY <1>6, <1>7, <1>9, <2>2, <2>3
    <3>2. LineBytes(log'[i + 1]) = Bytes(Committed, end)
      BY <1>1, <2>3 DEF LineBytes
    <3>3. QED
      BY <3>1, <3>2
  <2>4. CASE i # len
    <3>1. i % N # w_abs % N
      <4>1. i - len > -N /\ i - len < N
        BY <1>1, <1>3, <2>1
      <4>2. i % N = len % N => i = len
        BY <1>1, <1>3, <2>1, <4>1, SlotInjective
      <4>3. QED
        BY <1>6, <2>4, <4>2
    <3>2. entry'[i % N] = entry[i % N]
      BY <1>7, <1>9, <2>2, <3>1
    <3>3. i \in start_abs..(w_abs - 1) /\ i + 1 \in 1..len
      BY <1>1, <1>3, <1>6, <1>9, <1>13, <2>1, <2>4
    <3>4. QED
      BY <1>1, <1>6, <3>2, <3>3
  <2>5. QED
    BY <2>3, <2>4
<1>19. RingHoldsRecentLines'
  <2>1. w_abs' = Len(log') /\ w_char_abs' = Committed'
    BY <1>1, <1>12, <1>17
  <2>2. w_abs' - start_abs' = Min({N, Len(log')})
    BY <1>1, <1>15
  <2>3. QED
    BY <1>16, <1>18, <2>1, <2>2 DEF RingHoldsRecentLines
<1>20. QED
  BY <1>5, <1>11, <1>13, <1>14, <1>19 DEF len

\* The drift of start_char_abs stays the size of the oldest retained line less
\* the size of the very first one.
LEMMA LineDrift ==
  ASSUME IInv, NEW n \in Nat \ {0}, AddLine(n), NoWrap'
  PROVE  StartCharDrift'
<1> DEFINE len == Len(log)
           end == accepted + n
           old == start_abs + 1
           new == start_abs' + 1
<1>a. TypeOK /\ TmpSized /\ LogPartitions /\ PendingIntact /\ StartAtZero /\ StartCharDrift
  BY DEF IInv
<1>1. /\ len \in Nat /\ Len(log') = len + 1
      /\ DOMAIN log = 1..len /\ DOMAIN log' = 1..(len + 1)
      /\ \A i \in 1..len : log'[i] = log[i] /\ log[i].from \in Nat /\ log[i].to \in Nat
      /\ log'[len + 1].from = Committed /\ log'[len + 1].to = end
      /\ log = <<>> => Committed = 0 /\ len = 0
      /\ log # <<>> => len >= 1
      /\ log' # <<>>
  <2>1. log' = Append(log, [from |-> Committed, to |-> end])
    BY <1>a, LineEffect
  <2>2. QED
    BY <1>a, <2>1, LogAppend
<1>2. accepted \in Nat /\ Committed \in Nat /\ Committed <= accepted
  BY <1>a, CommittedBound DEF TypeOK
<1>3. /\ \A i \in 1..(len + 1) : log'[i].from < log'[i].to /\ log'[i].to <= end
      /\ \A i \in 1..(len + 1) : i > 1 => log'[i].from = log'[i - 1].to
  <2>1. LogPartitions' /\ accepted' = end
    BY <1>a, LineEffect, LinePartitions
  <2>2. QED
    BY <1>1, <2>1 DEF LogPartitions
<1>4. /\ RingHoldsRecentLines' /\ NoWrap
      /\ WindowFull <=> N <= len
      /\ start_abs' = IF N <= len THEN start_abs + 1 ELSE start_abs
      /\ start_abs' \in 0..len
  BY LineRing
<1>5. start_abs \in Nat /\ start_char_abs \in Nat /\ U32 \in Nat \ {0} /\ N \in Nat \ {0}
  BY <1>a, BufferAssumption DEF TypeOK
<1>6. end < U32
  BY <1>a, LineEffect DEF NoWrap
<1>7. start_char_abs' = IF WindowFull
                          THEN Uint32(start_char_abs + Len(entry'[Slot(start_abs')]))
                          ELSE start_char_abs
  BY DEF AddLine, EvictedSize
<1>8. RetainedFrom' = log'[new].from
  BY <1>1 DEF RetainedFrom
<1>9. \A i \in 1..(len + 1) : log'[i].from \in Nat /\ log'[i].to \in Nat
  <2>1. ASSUME NEW i \in 1..(len + 1)
        PROVE  log'[i].from \in Nat /\ log'[i].to \in Nat
    <3>1. CASE i = len + 1
      BY <1>1, <1>2, <3>1
    <3>2. CASE i # len + 1
      BY <1>1, <3>2
    <3>3. QED
      BY <3>1, <3>2
  <2>2. QED
    BY <2>1
<1>10. log # <<>> => start_char_abs = log[old].from + (log[old].to - log[old].from)
                                        - (log[1].to - log[1].from)
  BY <1>a, <1>4 DEF StartCharDrift, RetainedFrom, LineSize
<1> HIDE DEF len, end, old, new
<1>11. CASE log = <<>>
  <2>1. start_char_abs = 0 /\ len = 0
    BY <1>1, <1>a, <1>11 DEF StartAtZero
  <2>2. ~WindowFull /\ start_abs' = 0
    BY <1>4, <1>5, <2>1
  <2>3. start_char_abs' = 0
    BY <1>7, <2>1, <2>2
  <2>4. new = 1 /\ log'[1].from = 0 /\ log'[1].to \in Nat
    BY <1>1, <1>9, <1>11, <2>1, <2>2 DEF new
  <2>5. QED
    BY <1>8, <2>3, <2>4 DEF StartCharDrift, LineSize, new
<1>12. CASE log # <<>>
  <2>1. len >= 1 /\ log'[1] = log[1]
    BY <1>1, <1>12
  <2>2. CASE ~(N <= len)
    <3>1. start_abs' = start_abs /\ start_char_abs' = start_char_abs /\ new = old
      BY <1>4, <1>7, <2>2 DEF new, old
    <3>2. w_abs = len /\ w_abs - start_abs = Min({N, len})
      BY <1>4 DEF IInv, RingHoldsRecentLines, len
    <3>3. start_abs = 0
      BY <1>1, <1>5, <2>2, <3>2, MinPair
    <3>4. log'[new] = log[old]
      BY <1>1, <2>1, <3>1, <3>3 DEF old
    <3>5. QED
      BY <1>8, <1>10, <1>12, <2>1, <3>1, <3>4 DEF StartCharDrift, LineSize, new
  <2>3. CASE N <= len
    <3>1. start_abs' = old /\ new = old + 1 /\ old \in 1..len /\ new \in 1..(len + 1) /\ WindowFull
      BY <1>1, <1>4, <1>5, <2>3 DEF new, old
    <3>2. log'[new].from = log'[old].to /\ log'[old] = log[old]
      BY <1>1, <1>3, <1>5, <3>1 DEF new, old
    <3>3. entry'[Slot(start_abs')] = LineBytes(log'[new])
      <4>1. NoWrap'
        OBVIOUS
      <4>2. w_abs' = len + 1 /\ \A i \in start_abs'..(w_abs' - 1) : entry'[Slot(i)] = LineBytes(log'[i + 1])
        BY <1>1, <1>4, <4>1 DEF RingHoldsRecentLines, Slot, LineBytes, Bytes
      <4>3. start_abs' \in start_abs'..(w_abs' - 1)
        BY <1>1, <1>4, <4>2
      <4>4. QED
        BY <4>2, <4>3 DEF new
    <3>4. Len(entry'[Slot(start_abs')]) = log'[new].to - log'[new].from
      <4>1. log'[new].from \in Nat /\ log'[new].to \in Nat /\ log'[new].from <= log'[new].to
        BY <1>3, <1>9, <3>1
      <4>2. QED
        BY <3>3, <4>1, BytesSeq DEF LineBytes
    <3>5. /\ log[old].from \in Nat /\ log[old].to \in Nat
          /\ log[1].from \in Nat /\ log[1].to \in Nat /\ log[1].from < log[1].to
          /\ log'[new].from \in Nat /\ log'[new].to \in Nat /\ log'[new].to <= end
          /\ log'[new].from = log[old].to /\ log'[new].from < log'[new].to
      <4>1. 1 \in 1..len /\ 1 \in 1..(len + 1)
        BY <1>1, <2>1
      <4>2. QED
        BY <1>1, <1>3, <1>9, <2>1, <3>1, <3>2, <4>1
    <3> DEFINE sum == start_char_abs + (log'[new].to - log'[new].from)
    <3>6. sum = log'[new].to - (log[1].to - log[1].from)
      <4>1. start_char_abs = log[old].to - (log[1].to - log[1].from)
        BY <1>10, <1>12, <3>5
      <4>2. QED
        BY <3>5, <4>1
    <3>7. sum \in Nat /\ sum < U32
      <4>1. end \in Nat
        BY <1>2 DEF end
      <4>2. QED
        BY <1>5, <1>6, <3>5, <3>6, <4>1
    <3>8. start_char_abs' = sum
      BY <1>5, <1>7, <3>1, <3>4, <3>7, ModSmall DEF Uint32
    <3> HIDE DEF sum
    <3>9. QED
      BY <1>8, <2>1, <3>5, <3>6, <3>8 DEF StartCharDrift, LineSize, new
  <2>4. QED
    BY <2>2, <2>3
<1>13. QED
  BY <1>11, <1>12

LEMMA InvLine ==
  ASSUME IInv, NEW n \in 1..MaxChunk, AddLine(n)
  PROVE  IInv'
<1>1. n \in Nat \ {0}
  BY BufferAssumption
<1>2. TypeOK /\ TmpSized /\ LogPartitions /\ PendingIntact
  BY DEF IInv
<1>3. /\ entry' = [entry EXCEPT ![TargetSlot] = Bytes(Committed, accepted + n)]
      /\ w_char_abs' = Uint32(w_char_abs + (accepted + n - Committed))
      /\ tmp_entry' = [mem |-> "freed", bytes |-> <<>>, size |-> 0]
      /\ accepted' = accepted + n
      /\ log' = Append(log, [from |-> Committed, to |-> accepted + n])
      /\ out_offs' = out_offs
  BY <1>1, <1>2, LineEffect
<1>4. log' \in Seq([from : Nat, to : Nat]) /\ log' # <<>> /\ Committed' = accepted + n
  BY <1>1, <1>2, <1>3, LogAppend
<1>5. accepted \in Nat /\ Committed \in Nat /\ Committed <= accepted
  BY <1>2, CommittedBound DEF TypeOK
<1>6. TypeOK'
  <2>1. \A x \in Int : Uint32(x) \in 0..(U32 - 1)
    <3>1. U32 \in Nat \ {0}
      BY BufferAssumption
    <3>2. QED
      BY <3>1, DivMod DEF Uint32
  <2>2. Bytes(Committed, accepted + n) \in Seq(Nat)
    BY <1>1, <1>5, BytesSeq
  <2>3. entry' \in [Slots -> Seq(Nat)]
    BY <1>2, <1>3, <2>2 DEF TypeOK
  <2>4. in_offs' \in Slots
    <3>1. in_offs \in 0..(N - 1) /\ N \in Nat \ {0}
      BY <1>2, BufferAssumption DEF TypeOK, Slots
    <3>2. in_offs' = IF in_offs + 1 >= N THEN 0 ELSE in_offs + 1
      BY DEF AddLine, WrapOffs
    <3>3. QED
      BY <3>1, <3>2 DEF Slots
  <2>5. full' \in BOOLEAN
    <3> DEFINE meets == in_offs' = out_offs
    <3>1. full' = (full \/ meets)
      BY DEF AddLine
    <3>2. (full \/ meets) \in BOOLEAN
      OBVIOUS
    <3> HIDE DEF meets
    <3>3. QED
      BY <3>1, <3>2
  <2>6. w_abs' \in 0..(U32 - 1)
    <3>1. w_abs' = Uint32(w_abs + 1) /\ w_abs + 1 \in Int
      BY <1>2 DEF AddLine, TypeOK
    <3>2. QED
      BY <2>1, <3>1
  <2>7. start_abs' \in 0..(U32 - 1)
    <3>1. start_abs' = IF WindowFull THEN Uint32(start_abs + 1) ELSE start_abs
      BY DEF AddLine
    <3>2. start_abs + 1 \in Int /\ start_abs \in 0..(U32 - 1)
      BY <1>2 DEF TypeOK
    <3>3. QED
      BY <2>1, <3>1, <3>2
  <2>8. w_char_abs' \in 0..(U32 - 1)
    <3>1. w_char_abs + (accepted + n - Committed) \in Int
      BY <1>1, <1>2, <1>5 DEF TypeOK
    <3>2. QED
      BY <1>3, <2>1, <3>1
  <2>9. start_char_abs' \in 0..(U32 - 1)
    <3> DEFINE evicted == entry'[Slot(start_abs')]
    <3>1. start_char_abs' = IF WindowFull THEN Uint32(start_char_abs + Len(evicted))
                                          ELSE start_char_abs
      BY DEF AddLine, EvictedSize
    <3>2. Slot(start_abs') \in Slots
      <4>1. start_abs' \in Int /\ N \in Nat \ {0}
        BY <2>7, BufferAssumption
      <4>2. QED
        BY <4>1, DivMod DEF Slot, Slots
    <3>3. evicted \in Seq(Nat)
      BY <2>3, <3>2
    <3> HIDE DEF evicted
    <3>4. start_char_abs + Len(evicted) \in Int /\ start_char_abs \in 0..(U32 - 1)
      BY <1>2, <3>3, LenProperties DEF TypeOK
    <3>5. QED
      BY <2>1, <3>1, <3>4
  <2>10. tmp_entry' \in TmpType /\ accepted' \in Nat /\ out_offs' \in 0..(U8 - 1)
    <3>1. tmp_entry' \in TmpType
      <4>1. <<>> \in Seq(Nat)
        OBVIOUS
      <4>2. QED
        BY <1>3, <4>1 DEF TmpType
    <3>2. accepted' \in Nat
      BY <1>1, <1>3, <1>5
    <3>3. out_offs' \in 0..(U8 - 1)
      <4>1. out_offs \in 0..(U8 - 1)
        BY <1>2 DEF TypeOK
      <4>2. QED
        BY <1>3, <4>1
    <3>4. QED
      BY <3>1, <3>2, <3>3
  <2>11. QED
    BY <1>4, <2>3, <2>4, <2>5, <2>6, <2>7, <2>8, <2>9, <2>10 DEF TypeOK, TmpType
<1>7. TmpSized'
  BY <1>3 DEF TmpSized
<1>8. LogPartitions'
  BY <1>1, <1>2, <1>3, LinePartitions
<1>9. PendingIntact'
  <2>1. tmp_entry'.size = 0 /\ accepted' - Committed' = 0
    BY <1>1, <1>3, <1>4, <1>5
  <2>2. QED
    BY <2>1 DEF PendingIntact
<1>10. RingHoldsRecentLines'
  <2>1. CASE NoWrap'
    BY <1>1, <2>1, LineRing
  <2>2. CASE ~NoWrap'
    BY <2>2 DEF RingHoldsRecentLines
  <2>3. QED
    BY <2>1, <2>2
<1>11. StartCharDrift'
  <2>1. CASE NoWrap'
    BY <1>1, <2>1, LineDrift
  <2>2. CASE ~NoWrap'
    BY <2>2 DEF StartCharDrift
  <2>3. QED
    BY <2>1, <2>2
<1>12. StartAtZero'
  BY <1>4 DEF StartAtZero
<1>13. QED
  BY <1>6, <1>7, <1>8, <1>9, <1>10, <1>11, <1>12 DEF IInv

LEMMA InvInit ==
  ASSUME Init
  PROVE  IInv
<1> USE DEF Init
<1>1. N \in Nat \ {0} /\ U32 \in Nat \ {0}
  BY BufferAssumption
<1>2. Len(log) = 0 /\ Committed = 0 /\ DOMAIN log = {}
  BY EmptySeq DEF Committed
<1>3. tmp_entry = [mem |-> "null", bytes |-> <<>>, size |-> 0]
  BY DEF aesd_init_entry, NullEntry
<1>4. TypeOK
  BY <1>1, <1>3 DEF TypeOK, Slots, U8
<1>5. TmpSized
  BY <1>3 DEF TmpSized
<1>6. LogPartitions
  BY <1>2 DEF LogPartitions
<1>7. PendingIntact
  BY <1>2, <1>3 DEF PendingIntact
<1>8. RingHoldsRecentLines
  <2>1. Min({N, Len(log)}) = 0
    BY <1>1, <1>2, MinPair
  <2>2. Slot(w_abs) = 0
    BY <1>1, ModSmall DEF Slot
  <2>3. \A i \in start_abs..(w_abs - 1) : FALSE
    OBVIOUS
  <2>4. QED
    BY <1>2, <2>1, <2>2, <2>3 DEF RingHoldsRecentLines
<1>9. StartAtZero /\ StartCharDrift
  BY DEF StartAtZero, StartCharDrift
<1>10. QED
  BY <1>4, <1>5, <1>6, <1>7, <1>8, <1>9 DEF IInv

\* The invariant is inductive: one case per action.
LEMMA InvNext ==
  ASSUME IInv, [Next]_vars
  PROVE  IInv'
<1>1. ASSUME NEW n \in 1..MaxChunk, AddPartial(n)
      PROVE  IInv'
  BY <1>1, InvPartial
<1>2. ASSUME NEW n \in 1..MaxChunk, AddLine(n)
      PROVE  IInv'
  BY <1>2, InvLine
<1>3. ASSUME NEW pos \in Positions, NEW len \in 1..MaxLen,
             aesd_circular_buffer_raed(pos, len)
      PROVE  IInv'
  <2>1. pos \in Int /\ len \in Nat
    BY BufferAssumption
  <2>2. QED
    BY <1>3, <2>1, InvRaed
<1>4. CASE UNCHANGED vars
  <2>1. out_offs' \in 0..(U8 - 1) /\ full' \in BOOLEAN
    BY <1>4 DEF vars, IInv, TypeOK
  <2>2. QED
    BY <1>4, <2>1, InvSame DEF vars
<1>5. QED
  BY <1>1, <1>2, <1>3, <1>4 DEF Next, aesd_circular_buffer_add_entry

\* In every behaviour, whatever the number of slots, the counter width and the
\* chunks, the inductive invariant holds.
THEOREM Invariant == Spec => []IInv
<1>1. Init => IInv
  BY InvInit
<1>2. IInv /\ [Next]_vars => IInv'
  BY InvNext
<1>3. QED
  BY <1>1, <1>2, PTL DEF Spec

\* The fields of struct aesd_circular_buffer and tmp_entry keep their types.
THEOREM TypeCorrect == Spec => []TypeOK
<1>1. IInv => TypeOK
  BY DEF IInv
<1>2. QED
  BY <1>1, Invariant, PTL

\* aesd_circular_buffer_add_entry gathers the chunks of an unfinished line
\* without losing, repeating or reordering a byte, and never reads the block
\* aesd_init_entry freed.
THEOREM PendingAlwaysIntact == Spec => []PendingIntact
<1>1. IInv => PendingIntact
  BY DEF IInv
<1>2. QED
  BY <1>1, Invariant, PTL

\* Until 2^32 bytes are written the slots of aesd_circular_buffer_add_entry hold
\* exactly the last N lines, each in the slot of its number.
THEOREM RingAlwaysHoldsRecentLines == Spec => []RingHoldsRecentLines
<1>1. IInv => RingHoldsRecentLines
  BY DEF IInv
<1>2. QED
  BY <1>1, Invariant, PTL

\* The error of start_char_abs in aesd_circular_buffer_add_entry does not grow:
\* it is always the size of the oldest line less that of the first.
THEOREM StartCharDriftExact == Spec => []StartCharDrift
<1>1. IInv => StartCharDrift
  BY DEF IInv
<1>2. QED
  BY <1>1, Invariant, PTL
-----------------------------------------------------------------------------
(* The promise to the writers *)

\* The retained lines are the last ones of the log.
LEMMA RetainedAre ==
  ASSUME IInv, NoWrap
  PROVE  /\ RetainedLines \in Seq(Seq(Nat)) /\ DOMAIN RetainedLines = 1..(w_abs - start_abs)
         /\ Len(RetainedLines) = w_abs - start_abs /\ w_abs - start_abs \in 0..N
         /\ N <= Len(log) => w_abs - start_abs = N
         /\ ~(N <= Len(log)) => start_abs = 0
         /\ w_abs = Len(log) /\ start_abs \in Nat /\ w_abs \in Nat
         /\ \A k \in 1..(w_abs - start_abs) : RetainedLines[k] = LineBytes(log[start_abs + k])
<1> DEFINE m == w_abs - start_abs
<1>1. /\ w_abs \in Nat /\ start_abs \in Nat /\ N \in Nat \ {0} /\ entry \in [Slots -> Seq(Nat)]
      /\ w_abs = Len(log) /\ m = Min({N, Len(log)})
      /\ \A i \in start_abs..(w_abs - 1) : entry[Slot(i)] = LineBytes(log[i + 1])
  BY BufferAssumption DEF IInv, TypeOK, RingHoldsRecentLines
<1>2. m = IF N <= Len(log) THEN N ELSE Len(log)
  BY <1>1, MinPair
<1>3. m \in 0..N /\ (N <= Len(log) => m = N) /\ (~(N <= Len(log)) => start_abs = 0)
  BY <1>1, <1>2
<1>4. \A k \in 1..m : /\ start_abs + k - 1 \in start_abs..(w_abs - 1)
                      /\ (start_abs + k - 1) + 1 = start_abs + k
                      /\ start_abs + k - 1 \in Nat
  BY <1>1
<1>5. ASSUME NEW k \in 1..m
      PROVE  /\ entry[Slot(start_abs + k - 1)] \in Seq(Nat)
             /\ entry[Slot(start_abs + k - 1)] = LineBytes(log[start_abs + k])
  <2> DEFINE i == start_abs + k - 1
  <2>1. i \in Int
    BY <1>4
  <2> HIDE DEF i
  <2>2. Slot(i) \in Slots
    BY <1>1, <2>1, DivMod DEF Slot, Slots
  <2>3. QED
    BY <1>1, <1>4, <2>2 DEF i
<1>6. RetainedLines = [k \in 1..m |-> entry[Slot(start_abs + k - 1)]]
  BY DEF RetainedLines
<1> HIDE DEF m
<1>7. RetainedLines \in Seq(Seq(Nat)) /\ DOMAIN RetainedLines = 1..m /\ Len(RetainedLines) = m
  <2>1. RetainedLines \in [1..m -> Seq(Nat)]
    BY <1>5, <1>6
  <2> HIDE DEF RetainedLines
  <2>2. RetainedLines \in Seq(Seq(Nat))
    BY <1>3, <2>1, SeqDef
  <2>3. QED
    BY <1>3, <2>1, <2>2, LenProperties
<1>8. \A k \in 1..m : RetainedLines[k] = LineBytes(log[start_abs + k])
  BY <1>5, <1>6
<1>9. QED
  BY <1>1, <1>3, <1>7, <1>8 DEF m

\* The chunk that LineHistory adds is the one handed to add_entry.
LEMMA ChunkIs ==
  ASSUME NEW n \in Nat, accepted \in Nat
  PROVE  History!Chunk(n) = Bytes(accepted, accepted + n)
<1>1. (accepted + n) - accepted = n
  OBVIOUS
<1>2. QED
  BY <1>1 DEF History!Chunk, Bytes

LEMMA PartialIs ==
  ASSUME IInv
  PROVE  PartialLine = Bytes(Committed, accepted)
<1>1. accepted \in Nat /\ Committed \in Nat /\ tmp_entry \in TmpType
      /\ Committed <= accepted /\ tmp_entry.size = accepted - Committed
  BY CommittedBound DEF IInv, TypeOK, TmpType
<1>2. CASE tmp_entry.size > 0
  <2>1. tmp_entry.bytes = Bytes(Committed, accepted)
    BY <1>2 DEF IInv, PendingIntact
  <2>2. tmp_entry.bytes \in Seq(Nat) /\ Len(tmp_entry.bytes) = tmp_entry.size
    BY <1>1, <2>1, BytesSeq
  <2>3. QED
    BY <2>1, <2>2, SubSeqFull DEF PartialLine
<1>3. CASE tmp_entry.size = 0
  <2>1. PartialLine = <<>>
    BY <1>3, SubSeqEmpty DEF PartialLine
  <2>2. Bytes(Committed, accepted) \in Seq(Nat) /\ Len(Bytes(Committed, accepted)) = 0
    BY <1>1, <1>3, BytesSeq
  <2>3. QED
    BY <2>1, <2>2, EmptySeq
<1>4. QED
  BY <1>1, <1>2, <1>3 DEF TmpType

\* The accumulated line grows by the chunk.
LEMMA PartialGrows ==
  ASSUME IInv, NEW n \in 1..MaxChunk
  PROVE  PartialLine \o History!Chunk(n) = Bytes(Committed, accepted + n)
<1>1. accepted \in Nat /\ Committed \in Nat /\ Committed <= accepted /\ n \in Nat
  BY CommittedBound, BufferAssumption DEF IInv, TypeOK
<1>2. accepted <= accepted + n /\ accepted + n \in Nat
  BY <1>1
<1>3. PartialLine = Bytes(Committed, accepted) /\ History!Chunk(n) = Bytes(accepted, accepted + n)
  BY <1>1, PartialIs, ChunkIs
<1>4. Bytes(Committed, accepted) \o Bytes(accepted, accepted + n) = Bytes(Committed, accepted + n)
  BY <1>1, <1>2, BytesConcat
<1>5. QED
  BY <1>3, <1>4

\* A chunk without newline is a step of LineHistory.
LEMMA PartialMaps ==
  ASSUME IInv, NEW n \in 1..MaxChunk, AddPartial(n)
  PROVE  History!Grow(n)
<1>1. accepted + n <= MaxBytes /\ accepted' = accepted + n
      /\ UNCHANGED <<entry, w_abs, start_abs, log>>
  BY DEF AddPartial
<1>2. IInv'
  BY InvPartial
<1>3. PartialLine' = Bytes(Committed, accepted + n)
  <2>1. (IInv => PartialLine = Bytes(Committed, accepted))'
    BY PartialIs, PTL
  <2>2. PartialLine' = (Bytes(Committed, accepted))'
    BY <1>2, <2>1
  <2>3. QED
    BY <1>1, <2>2 DEF Bytes, Committed
<1>4. RetainedLines' = RetainedLines
  BY <1>1 DEF RetainedLines, Slot
<1>5. QED
  BY <1>1, <1>3, <1>4, PartialGrows DEF History!Grow

\* A chunk that ends a line is a step of LineHistory: the last N lines, the new
\* one among them, are in the slots.
LEMMA LineMaps ==
  ASSUME IInv, NEW n \in 1..MaxChunk, AddLine(n), NoWrap'
  PROVE  History!Finish(n)
<1> DEFINE line == Bytes(Committed, accepted + n)
           len == Len(log)
           m == w_abs - start_abs
           grown == Append(RetainedLines, line)
           top == m + 1
           first == IF top > N THEN top - N + 1 ELSE 1
           last == History!LastN(grown)
<1>b. TypeOK /\ TmpSized /\ LogPartitions /\ PendingIntact
  BY DEF IInv
<1>a. /\ n \in Nat \ {0} /\ N \in Nat \ {0}
      /\ accepted \in Nat /\ Committed \in Nat /\ Committed <= accepted
  <2>1. accepted \in Nat /\ Committed \in Nat /\ Committed <= accepted
    BY <1>b, CommittedBound DEF TypeOK
  <2>2. QED
    BY <2>1, BufferAssumption
<1>1. /\ NoWrap /\ IInv'
      /\ start_abs' = IF N <= len THEN start_abs + 1 ELSE start_abs
  BY <1>a, LineRing, InvLine
<1>2. /\ tmp_entry' = [mem |-> "freed", bytes |-> <<>>, size |-> 0]
      /\ accepted' = accepted + n
      /\ log' = Append(log, [from |-> Committed, to |-> accepted + n])
  BY <1>a, <1>b, LineEffect
<1>3. /\ len \in Nat /\ Len(log') = len + 1
      /\ \A i \in 1..len : log'[i] = log[i]
      /\ LineBytes(log'[len + 1]) = line
  BY <1>a, <1>b, <1>2, LogAppend DEF LineBytes
<1>4. /\ RetainedLines \in Seq(Seq(Nat)) /\ Len(RetainedLines) = m
      /\ m \in 0..N /\ (N <= len => m = N) /\ (~(N <= len) => start_abs = 0)
      /\ start_abs \in Nat /\ start_abs + m = len
      /\ \A k \in 1..m : RetainedLines[k] = LineBytes(log[start_abs + k])
  BY <1>1, RetainedAre
<1>5. /\ RetainedLines' \in Seq(Seq(Nat)) /\ Len(RetainedLines') = w_abs' - start_abs'
      /\ w_abs' = len + 1
      /\ \A k \in 1..(w_abs' - start_abs') : RetainedLines'[k] = LineBytes(log'[start_abs' + k])
  <2>1. (IInv /\ NoWrap =>
           /\ RetainedLines \in Seq(Seq(Nat)) /\ Len(RetainedLines) = w_abs - start_abs
           /\ w_abs = Len(log)
           /\ \A k \in 1..(w_abs - start_abs) :
                RetainedLines[k] = LineBytes(log[start_abs + k]))'
    BY RetainedAre, PTL
  <2>2. QED
    BY <1>1, <1>3, <2>1 DEF LineBytes, Bytes
<1>6. line \in Seq(Nat)
  BY <1>a, BytesSeq
<1> HIDE DEF line, len
<1>7. /\ grown \in Seq(Seq(Nat)) /\ Len(grown) = top
      /\ \A k \in 1..m : grown[k] = RetainedLines[k]
      /\ grown[top] = line
  BY <1>4, <1>6, AppendProperties
<1>t. top = m + 1 /\ m \in Nat /\ start_abs \in Nat /\ start_abs + m = len
  BY <1>4
<1> HIDE DEF m, grown
<1>8. /\ first \in 1..top /\ w_abs' - start_abs' = top - first + 1
      /\ start_abs' = start_abs + first - 1
  <2>1. CASE N <= len
    <3>1. first = 2 /\ start_abs' = start_abs + 1
      BY <1>a, <1>1, <1>4, <2>1
    <3>2. QED
      BY <1>a, <1>4, <1>5, <2>1, <3>1
  <2>2. CASE ~(N <= len)
    <3>1. first = 1 /\ start_abs' = start_abs /\ m = len
      BY <1>a, <1>1, <1>3, <1>4, <2>2
    <3>2. QED
      BY <1>4, <1>5, <3>1
  <2>3. QED
    BY <2>1, <2>2
<1>9. /\ last \in Seq(Seq(Nat)) /\ Len(last) = top - first + 1
      /\ \A k \in 1..(top - first + 1) : last[k] = grown[first + k - 1]
  <2>1. first = IF top > N THEN top - N + 1 ELSE 1
    BY DEF first
  <2>2. top \in Nat \ {0} /\ first \in 1..top
    BY <1>t, <1>8
  <2>3. grown \in Seq(Seq(Nat)) /\ Len(grown) = top
    BY <1>7
  <2> DEFINE Line == Seq(Nat)
  <2>4. grown \in Seq(Line)
    BY <2>3
  <2> HIDE DEF top, first, last, Line
  <2>5. History!LastN(grown) = SubSeq(grown, first, top)
    BY <2>1, <2>3 DEF History!LastN
  <2>6. \A i \in first..top : grown[i] \in Line
    <3>1. \A i \in first..top : i \in 1..Len(grown)
      BY <2>2, <2>3
    <3>2. QED
      BY <2>4, <3>1, ElementOfSeq
  <2>7. /\ SubSeq(grown, first, top) \in Seq(Line)
        /\ Len(SubSeq(grown, first, top)) = top - first + 1
        /\ \A k \in 1..(top - first + 1) : SubSeq(grown, first, top)[k] = grown[first + k - 1]
    BY <2>2, <2>6, SubSeqProperties
  <2>8. QED
    BY <2>5, <2>7 DEF last, Line
<1> HIDE DEF top, first, last
<1>10. ASSUME NEW k \in 1..(top - first + 1)
       PROVE  RetainedLines'[k] = last[k]
  <2>1. RetainedLines'[k] = LineBytes(log'[start_abs' + k]) /\ last[k] = grown[first + k - 1]
    BY <1>5, <1>8, <1>9
  <2>2. start_abs' + k = start_abs + (first + k - 1) /\ first + k - 1 \in 1..top
    BY <1>t, <1>8
  <2>3. CASE first + k - 1 = top
    <3>1. start_abs' + k = len + 1
      BY <1>t, <2>2, <2>3
    <3>2. QED
      BY <1>3, <1>7, <2>1, <2>3, <3>1
  <2>4. CASE first + k - 1 # top
    <3>1. first + k - 1 \in 1..m /\ start_abs + (first + k - 1) \in 1..len
      BY <1>t, <2>2, <2>4
    <3>2. QED
      BY <1>3, <1>4, <1>7, <2>1, <2>2, <3>1
  <2>5. QED
    BY <2>3, <2>4
<1>11. RetainedLines' = last
  BY <1>5, <1>8, <1>9, <1>10, SeqEqual
<1>12. PartialLine \o History!Chunk(n) = line
  BY PartialGrows DEF line
<1>13. last = History!LastN(Append(RetainedLines, PartialLine \o History!Chunk(n)))
  <2>1. Append(RetainedLines, PartialLine \o History!Chunk(n)) = grown
    BY <1>12 DEF grown
  <2>2. QED
    BY <2>1 DEF last
<1>14. PartialLine' = <<>>
  BY <1>2, SubSeqEmpty DEF PartialLine
<1>15. accepted + n <= MaxBytes
  BY DEF AddLine
<1>16. QED
  BY <1>2, <1>11, <1>13, <1>14, <1>15 DEF History!Finish

\* A read is no step of LineHistory.
LEMMA ReadMaps ==
  ASSUME UNCHANGED <<entry, w_abs, start_abs, tmp_entry, accepted>>
  PROVE  UNCHANGED History!historyVars
BY DEF History!historyVars, RetainedLines, PartialLine, Slot

\* While no counter can wrap, every step of the buffer is one of LineHistory.
LEMMA BufferStepMaps ==
  ASSUME IInv, accepted' <= MaxBytes, MaxBytes < U32, [Next]_vars
  PROVE  [History!HistoryNext]_(History!historyVars)
<1>1. NoWrap'
  <2>1. accepted' \in Nat
    BY InvNext DEF IInv, TypeOK
  <2>2. QED
    BY <2>1, BufferAssumption DEF NoWrap
<1>2. ASSUME NEW n \in 1..MaxChunk, aesd_circular_buffer_add_entry(n)
      PROVE  History!HistoryNext
  BY <1>1, <1>2, PartialMaps, LineMaps DEF aesd_circular_buffer_add_entry, History!HistoryNext
<1>3. CASE UNCHANGED vars \/ \E pos \in Positions, len \in 1..MaxLen :
                               aesd_circular_buffer_raed(pos, len)
  <2>1. UNCHANGED <<entry, w_abs, start_abs, tmp_entry, accepted>>
    BY <1>3 DEF vars, aesd_circular_buffer_raed
  <2>2. QED
    BY <2>1, ReadMaps
<1>4. QED
  BY <1>2, <1>3 DEF Next

\* The bound on what is written.
LEMMA BytesBound ==
  ASSUME accepted <= MaxBytes, [Next]_vars
  PROVE  accepted' <= MaxBytes
BY DEF Next, vars, aesd_circular_buffer_add_entry, AddPartial, AddLine, aesd_circular_buffer_raed

LEMMA HistoryStart ==
  ASSUME Init
  PROVE  History!HistoryInit
<1>1. RetainedLines = <<>>
  <2>1. accepted = 0 /\ w_abs - start_abs = 0
    BY DEF Init
  <2>2. IInv /\ NoWrap
    BY <2>1, InvInit, BufferAssumption DEF NoWrap
  <2>3. RetainedLines \in Seq(Seq(Nat)) /\ Len(RetainedLines) = 0
    BY <2>1, <2>2, RetainedAre
  <2>4. QED
    BY <2>3, EmptySeq
<1>2. PartialLine = <<>>
  BY SubSeqEmpty DEF Init, PartialLine, aesd_init_entry, NullEntry
<1>3. QED
  BY <1>1, <1>2 DEF Init, History!HistoryInit

\* aesd_circular_buffer_add_entry keeps what LineHistory promises, as long as
\* fewer than 2^32 bytes are written.
THEOREM BufferImplementsHistory ==
  ASSUME MaxBytes < U32
  PROVE  Spec => ImplementsHistory
<1> DEFINE InBound == accepted <= MaxBytes
<1>1. Init => History!HistoryInit /\ IInv /\ InBound
  <2>1. Init => accepted <= MaxBytes
    BY BufferAssumption DEF Init
  <2>2. QED
    BY <2>1, HistoryStart, InvInit
<1>2. IInv /\ InBound /\ [Next]_vars => IInv' /\ InBound'
  BY InvNext, BytesBound
<1>3. IInv /\ InBound' /\ [Next]_vars =>
        [History!HistoryNext]_(History!historyVars)
  BY BufferStepMaps
<1> HIDE DEF InBound
<1>4. QED
  BY <1>1, <1>2, <1>3, PTL DEF Spec, ImplementsHistory, History!HistorySpec
-----------------------------------------------------------------------------
(* The search of a read *)

\* Numbers a multiple of m apart have one remainder.
LEMMA ModShift ==
  ASSUME NEW m \in Nat \ {0}, NEW a \in Int, NEW b \in Int, NEW k \in Int, a = b + m * k
  PROVE  a % m = b % m
<1> DEFINE qa == a \div m
           qb == b \div m
           ra == a % m
           rb == b % m
<1>1. a = m * qa + ra /\ ra \in 0..(m - 1) /\ qa \in Int
  BY DivMod
<1>2. b = m * qb + rb /\ rb \in 0..(m - 1) /\ qb \in Int
  BY DivMod
<1> HIDE DEF qa, qb, ra, rb
<1>3. m * (qa - qb - k) = rb - ra
  BY <1>1, <1>2
<1>4. qa - qb - k = 0
  BY <1>1, <1>2, <1>3, SmallMultiple
<1>5. ra = rb
  BY <1>1, <1>2, <1>3, <1>4
<1>6. QED
  BY <1>5 DEF ra, rb

\* A counter that wraps before something is added to it.
LEMMA ModAdd ==
  ASSUME NEW m \in Nat \ {0}, NEW a \in Int, NEW b \in Int
  PROVE  ((a % m) + b) % m = (a + b) % m
<1> DEFINE q == a \div m
           r == a % m
           x == r + b
           y == a + b
           k == -q
<1>1. a = m * q + r /\ q \in Int /\ r \in Int
  BY DivMod
<1> HIDE DEF q, r
<1>2. x = y + m * k
  BY <1>1
<1>3. x \in Int /\ y \in Int /\ k \in Int
  BY <1>1
<1> HIDE DEF x, y, k
<1>4. x % m = y % m
  BY <1>2, <1>3, ModShift
<1>5. QED
  BY <1>4 DEF x, y, r

\* Across every wrap of the two counters, w_abs is at most N lines ahead of
\* start_abs, and at least one once a line was written.
WindowOf(d) == w_abs = Uint32(start_abs + d) /\ (d = 0 => start_abs = 0)
WindowWidth == \E d \in 0..N : WindowOf(d)

\* The difference of the two counters is that width.
LEMMA WidthIs ==
  ASSUME TypeOK, NEW d \in 0..N, WindowOf(d)
  PROVE  Uint32(w_abs - start_abs) = d
<1> DEFINE q == (start_abs + d) \div U32
           x == w_abs - start_abs
           k == -q
<1>1. start_abs \in Int /\ start_abs + d \in Int /\ U32 \in Nat \ {0} /\ d \in Nat /\ d < U32
  BY BufferAssumption DEF TypeOK
<1>2. start_abs + d = U32 * q + w_abs /\ q \in Int /\ w_abs \in Int
  BY <1>1, DivMod DEF WindowOf, Uint32
<1> HIDE DEF q
<1>3. x = d + U32 * k /\ x \in Int /\ k \in Int /\ d \in Int
  BY <1>1, <1>2
<1> HIDE DEF x, k
<1>4. x % U32 = d % U32
  BY <1>1, <1>3, ModShift
<1>5. d % U32 = d
  BY <1>1, ModSmall
<1>6. QED
  BY <1>4, <1>5 DEF Uint32, x

LEMMA WidthNext ==
  ASSUME TypeOK, WindowWidth, [Next]_vars
  PROVE  WindowWidth'
<1>1. CASE UNCHANGED <<w_abs, start_abs>>
  BY <1>1 DEF WindowWidth, WindowOf
<1>2. ASSUME NEW n \in 1..MaxChunk, AddLine(n)
      PROVE  WindowWidth'
  <2>1. PICK d \in 0..N : WindowOf(d)
    BY DEF WindowWidth
  <2>2. /\ start_abs \in Int /\ w_abs \in Int /\ N \in Nat \ {0} /\ U32 \in Nat \ {0}
        /\ start_abs + d \in Int /\ start_abs + 1 \in Int
    BY BufferAssumption DEF TypeOK
  <2>3. /\ start_abs' = IF WindowFull THEN Uint32(start_abs + 1) ELSE start_abs
        /\ w_abs' = Uint32(w_abs + 1)
    BY <1>2 DEF AddLine
  <2>4. WindowFull <=> d = N
    BY <2>1, <2>2, WidthIs DEF WindowFull
  <2>5. w_abs' = Uint32(start_abs + d + 1)
    <3> DEFINE a == start_abs + d
    <3>1. a \in Int /\ 1 \in Int
      BY <2>2
    <3>2. w_abs' = ((a % U32) + 1) % U32
      BY <2>1, <2>3 DEF WindowOf, Uint32
    <3> HIDE DEF a
    <3>3. ((a % U32) + 1) % U32 = (a + 1) % U32
      BY <2>2, <3>1, ModAdd
    <3>4. QED
      BY <3>2, <3>3 DEF a, Uint32
  <2>6. CASE d = N
    <3>1. (((start_abs + 1) % U32) + N) % U32 = ((start_abs + 1) + N) % U32
      <4> DEFINE a == start_abs + 1
      <4>1. a \in Int /\ N \in Int
        BY <2>2
      <4> HIDE DEF a
      <4>2. ((a % U32) + N) % U32 = (a + N) % U32
        BY <2>2, <4>1, ModAdd
      <4>3. QED
        BY <4>2 DEF a
    <3>2. (start_abs + 1) + N = start_abs + d + 1
      BY <2>2, <2>6
    <3>3. w_abs' = Uint32(start_abs' + N)
      BY <2>3, <2>4, <2>5, <2>6, <3>1, <3>2 DEF Uint32
    <3>4. QED
      BY <2>2, <3>3 DEF WindowWidth, WindowOf
  <2>7. CASE d # N
    <3>1. d + 1 \in 0..N /\ d + 1 # 0 /\ start_abs + d + 1 = start_abs + (d + 1)
      BY <2>2, <2>7
    <3>2. w_abs' = Uint32(start_abs' + (d + 1))
      BY <2>3, <2>4, <2>5, <2>7, <3>1
    <3>3. QED
      BY <3>1, <3>2 DEF WindowWidth, WindowOf
  <2>8. QED
    BY <2>6, <2>7
<1>3. QED
  BY <1>1, <1>2 DEF Next, vars, aesd_circular_buffer_add_entry, AddPartial,
                    aesd_circular_buffer_raed

\* The search ends at the element of the last line at the latest, whatever the
\* character it looks for.
LEMMA SearchEndsInside ==
  ASSUME TypeOK, WindowWidth, NEW off
  PROVE  SearchStop(off) < N
<1> DEFINE ends == {j \in Slots : SearchEnds(j, off)} \cup {N}
<1>1. N \in Nat \ {0} /\ U32 \in Nat \ {0} /\ U32 > N /\ start_abs \in Nat
  BY BufferAssumption DEF TypeOK
<1>2. ends \in SUBSET Nat /\ ends # {}
  BY <1>1 DEF Slots
<1>3. \E j \in Slots : SearchEnds(j, off)
  <2>1. PICK d \in 0..N : WindowOf(d)
    BY DEF WindowWidth
  <2>2. CASE d = 0
    <3>1. start_abs = 0 /\ Uint32(0) = 0
      BY <1>1, <2>1, <2>2, ModSmall DEF WindowOf, Uint32
    <3>2. w_abs = 0
      BY <2>1, <2>2, <3>1 DEF WindowOf
    <3>3. Uint32(start_abs + 0 + 1) \in Nat
      BY <1>1, DivMod DEF Uint32
    <3>4. SearchEnds(0, off) /\ 0 \in Slots
      BY <1>1, <3>2, <3>3 DEF SearchEnds, Slots
    <3>5. QED
      BY <3>4
  <2>3. CASE d # 0
    <3>1. d - 1 \in Slots /\ start_abs + (d - 1) + 1 = start_abs + d
      BY <1>1, <2>3 DEF Slots
    <3>2. Uint32(start_abs + (d - 1) + 1) >= w_abs
      BY <2>1, <3>1 DEF WindowOf, TypeOK
    <3>3. QED
      BY <3>1, <3>2 DEF SearchEnds
  <2>4. QED
    BY <2>2, <2>3
<1>4. PICK j \in Slots : SearchEnds(j, off)
  BY <1>3
<1>5. j \in ends /\ j < N /\ j \in Nat
  BY <1>1, <1>4 DEF Slots
<1>6. Min(ends) \in ends /\ \A y \in ends : Min(ends) <= y
  BY <1>2, MinNat
<1>7. SearchStop(off) = Min(ends)
  BY DEF SearchStop
<1> HIDE DEF ends
<1> DEFINE least == Min(ends)
<1>8. least \in Nat /\ least <= j
  BY <1>2, <1>5, <1>6
<1> HIDE DEF least
<1>9. QED
  BY <1>1, <1>5, <1>7, <1>8 DEF least

\* The loop of aesd_circular_buffer_find_entry_offset_and_index_for_fpos, which
\* has no bound of its own, never gets behind the last array element: also not
\* after the 32 bit counters wrap, at any number of lines written.
THEOREM SearchAlwaysInArray == Spec => []SearchStaysInArray
<1>1. Init => WindowWidth
  <2>1. ASSUME Init
        PROVE  WindowOf(0) /\ 0 \in 0..N
    <3>1. w_abs = 0 /\ start_abs = 0 /\ U32 \in Nat \ {0} /\ N \in Nat
      BY <2>1, BufferAssumption DEF Init
    <3>2. Uint32(start_abs + 0) = 0
      BY <3>1, ModSmall DEF Uint32
    <3>3. QED
      BY <3>1, <3>2 DEF WindowOf
  <2>2. QED
    BY <2>1 DEF WindowWidth
<1>2. TypeOK /\ WindowWidth /\ [Next]_vars => WindowWidth'
  BY WidthNext
<1>3. TypeOK /\ WindowWidth => SearchStaysInArray
  BY SearchEndsInside DEF SearchStaysInArray
<1>4. QED
  BY <1>1, <1>2, <1>3, TypeCorrect, PTL DEF Spec

-----------------------------------------------------------------------------
(* What a read returns *)

\* A slot is empty until its first line is stored.
UnusedEmpty == NoWrap => \A i \in Slots : i >= w_abs => entry[i] = <<>>

LEMMA UnusedNext ==
  ASSUME IInv, UnusedEmpty, [Next]_vars
  PROVE  UnusedEmpty'
<1>1. CASE UNCHANGED <<entry, w_abs, accepted>>
  BY <1>1 DEF UnusedEmpty, NoWrap, Slots
<1>2. ASSUME NEW n \in 1..MaxChunk, AddPartial(n)
      PROVE  UnusedEmpty'
  <2>1. NoWrap' => NoWrap
    BY <1>2, BufferAssumption DEF AddPartial, NoWrap, IInv, TypeOK
  <2>2. QED
    BY <1>2, <2>1 DEF AddPartial, UnusedEmpty, Slots
<1>3. ASSUME NEW n \in 1..MaxChunk, AddLine(n), NoWrap'
      PROVE  \A i \in Slots : i >= w_abs' => entry'[i] = <<>>
  <2>1. n \in Nat \ {0} /\ N \in Nat \ {0}
    BY BufferAssumption
  <2>2. NoWrap /\ RingHoldsRecentLines' /\ RingHoldsRecentLines
    BY <1>3, <2>1, LineRing DEF IInv
  <2>3. /\ entry' = [entry EXCEPT ![TargetSlot] = Bytes(Committed, accepted + n)]
        /\ log' = Append(log, [from |-> Committed, to |-> accepted + n])
    BY <1>3, <2>1, LineEffect DEF IInv
  <2>4. w_abs = Len(log) /\ w_abs' = Len(log') /\ Len(log) \in Nat
    BY <1>3, <2>2, LenProperties DEF RingHoldsRecentLines, IInv, TypeOK
  <2>5. Len(log') = Len(log) + 1
    <3> DEFINE Line == [from : Nat, to : Nat]
    <3>1. log \in Seq(Line)
      BY DEF IInv, TypeOK
    <3> HIDE DEF Line
    <3>2. QED
      BY <2>3, <3>1, AppendProperties
  <2>6. SUFFICES ASSUME NEW i \in Slots, i >= w_abs'
                 PROVE  entry'[i] = <<>>
    OBVIOUS
  <2>7. w_abs \in Nat /\ i \in Nat /\ w_abs < i /\ i < N
    BY <2>1, <2>4, <2>5, <2>6 DEF Slots
  <2>8. TargetSlot # i
    BY <2>1, <2>7, ModSmall DEF TargetSlot, Slot
  <2>9. entry'[i] = entry[i]
    BY <2>3, <2>8 DEF IInv, TypeOK
  <2>10. QED
    BY <2>2, <2>7, <2>9 DEF UnusedEmpty
<1>4. QED
  BY <1>1, <1>2, <1>3 DEF Next, vars, aesd_circular_buffer_add_entry, UnusedEmpty,
                          aesd_circular_buffer_raed, Slots

\* The invariant while no counter has wrapped.
ReadInv == IInv /\ UnusedEmpty /\ NoWrap

\* How many lines are retained, and where the one after the first j of them begins.
Retained == w_abs - start_abs
Cut(j) == IF j = Retained THEN Committed ELSE log[start_abs + j + 1].from

LEMMA CutFacts ==
  ASSUME ReadInv
  PROVE  /\ Retained \in 0..N /\ N \in Nat \ {0} /\ U32 \in Nat
         /\ start_abs \in Nat /\ w_abs \in Nat /\ w_abs = start_abs + Retained
         /\ w_abs = Len(log) /\ w_abs < U32 /\ Committed \in Nat /\ Committed < U32
         /\ w_char_abs = Committed
         /\ Retained < N => start_abs = 0
         /\ Retained = 0 <=> log = <<>>
         /\ Cut(0) = RetainedFrom /\ Cut(Retained) = Committed
<1>1. /\ TypeOK /\ LogPartitions /\ PendingIntact /\ RingHoldsRecentLines /\ NoWrap
      /\ N \in Nat \ {0} /\ U32 \in Nat
  BY BufferAssumption DEF ReadInv, IInv
<1>2. /\ start_abs \in Nat /\ w_abs \in Nat /\ w_abs < U32 /\ w_abs = Len(log)
      /\ w_abs - start_abs = Min({N, Len(log)}) /\ w_char_abs = Committed
  BY <1>1 DEF TypeOK, RingHoldsRecentLines
<1>3. w_abs - start_abs = IF N <= w_abs THEN N ELSE w_abs
  BY <1>1, <1>2, MinPair
<1>4. Committed \in Nat /\ Committed <= accepted /\ accepted < U32 /\ accepted \in Nat
  BY <1>1, CommittedBound DEF NoWrap, TypeOK
<1>5. Retained \in 0..N /\ w_abs = start_abs + Retained /\ (Retained < N => start_abs = 0)
  BY <1>1, <1>2, <1>3 DEF Retained
<1>6. Retained = 0 <=> w_abs = 0
  BY <1>1, <1>2, <1>3 DEF Retained
<1>7. w_abs = 0 <=> log = <<>>
  BY <1>1, <1>2, EmptySeq DEF TypeOK
<1>8. Cut(Retained) = Committed
  BY DEF Cut
<1>9. Cut(0) = RetainedFrom
  BY <1>2, <1>6, <1>7 DEF Cut, RetainedFrom, Committed
<1>10. QED
  BY <1>1, <1>2, <1>4, <1>5, <1>6, <1>7, <1>8, <1>9

\* Retained line j is the stream between its cut and the next one.
LEMMA LineCuts ==
  ASSUME ReadInv, NEW j \in 0..(Retained - 1)
  PROVE  /\ log[start_abs + j + 1].from = Cut(j) /\ log[start_abs + j + 1].to = Cut(j + 1)
         /\ Cut(j) \in Nat /\ Cut(j + 1) \in Nat /\ Cut(j) < Cut(j + 1)
         /\ entry[Slot(start_abs + j)] = Bytes(Cut(j), Cut(j + 1))
<1>1. /\ Retained \in Nat /\ start_abs \in Nat /\ w_abs = start_abs + Retained /\ w_abs = Len(log)
      /\ TypeOK /\ LogPartitions /\ RingHoldsRecentLines /\ NoWrap
  BY CutFacts DEF ReadInv, IInv
<1> DEFINE i == start_abs + j + 1
           Line == [from : Nat, to : Nat]
<1>2. log \in Seq(Line) /\ Len(log) \in Nat /\ DOMAIN log = 1..Len(log)
  <2>1. log \in Seq(Line)
    BY <1>1 DEF TypeOK
  <2> HIDE DEF Line
  <2>2. QED
    BY <2>1, LenProperties
<1>3. i \in 1..Len(log) /\ i \in Nat /\ j \in Nat
  BY <1>1
<1>4. log[i] \in Line
  BY <1>2, <1>3, ElementOfSeq
<1>5. log[i].from \in Nat /\ log[i].to \in Nat /\ log[i].from < log[i].to
  BY <1>1, <1>2, <1>3, <1>4 DEF LogPartitions
<1>6. Cut(j) = log[i].from
  BY <1>1, <1>3 DEF Cut
<1>7. Cut(j + 1) = log[i].to
  <2>1. CASE j + 1 = Retained
    <3>1. i = Len(log) /\ log # <<>>
      BY <1>1, <1>2, <1>3, <2>1, EmptySeq
    <3>2. Committed = log[i].to
      BY <3>1 DEF Committed
    <3>3. QED
      BY <2>1, <3>2 DEF Cut
  <2>2. CASE j + 1 # Retained
    <3>1. i + 1 \in DOMAIN log /\ i + 1 > 1 /\ (i + 1) - 1 = i /\ start_abs + (j + 1) + 1 = i + 1
      BY <1>1, <1>2, <1>3, <2>2
    <3>2. log[i + 1].from = log[i].to
      BY <1>1, <3>1 DEF LogPartitions
    <3>3. QED
      BY <2>2, <3>1, <3>2 DEF Cut
  <2>3. QED
    BY <2>1, <2>2
<1>8. entry[Slot(start_abs + j)] = LineBytes(log[i])
  <2>1. start_abs + j \in start_abs..(w_abs - 1) /\ (start_abs + j) + 1 = i
    BY <1>1, <1>3
  <2>2. entry[Slot(start_abs + j)] = LineBytes(log[(start_abs + j) + 1])
    BY <1>1, <2>1 DEF RingHoldsRecentLines
  <2>3. QED
    BY <2>1, <2>2
<1>9. QED
  BY <1>5, <1>6, <1>7, <1>8 DEF LineBytes

LEMMA CutNat ==
  ASSUME ReadInv, NEW j \in 0..Retained
  PROVE  Cut(j) \in Nat
<1>1. CASE j = Retained
  BY <1>1, CutFacts
<1>2. CASE j # Retained
  <2>1. j \in 0..(Retained - 1)
    BY <1>2, CutFacts
  <2>2. QED
    BY <2>1, LineCuts
<1>3. QED
  BY <1>1, <1>2

\* The cuts grow.
LEMMA CutsGrow ==
  ASSUME ReadInv, NEW i \in 0..Retained, NEW j \in 0..Retained, i < j
  PROVE  Cut(i) < Cut(j)
<1> DEFINE T == {n \in Nat : i + n + 1 <= Retained => Cut(i) < Cut(i + n + 1)}
<1>1. Retained \in Nat /\ i \in Nat /\ j \in Nat
  BY CutFacts
<1>2. 0 \in T
  <2>1. i \in 0..(Retained - 1) /\ i + 0 + 1 = i + 1
    BY <1>1
  <2>2. QED
    BY <2>1, LineCuts
<1>3. ASSUME NEW n \in T
      PROVE  n + 1 \in T
  <2>1. n \in Nat /\ n + 1 \in Nat
    OBVIOUS
  <2>2. SUFFICES ASSUME i + (n + 1) + 1 <= Retained
                 PROVE  Cut(i) < Cut(i + (n + 1) + 1)
    BY <2>1
  <2>3. Cut(i) < Cut(i + n + 1)
    BY <1>1, <2>1, <2>2
  <2>4. i + n + 1 \in 0..(Retained - 1) /\ (i + n + 1) + 1 = i + (n + 1) + 1 /\ i \in 0..Retained
    BY <1>1, <2>1, <2>2
  <2>5. /\ Cut(i + n + 1) < Cut((i + n + 1) + 1) /\ Cut(i + n + 1) \in Nat
        /\ Cut((i + n + 1) + 1) \in Nat /\ Cut(i) \in Nat
    BY <2>4, LineCuts, CutNat
  <2>6. QED
    BY <2>3, <2>4, <2>5
<1>4. T = Nat
  <2>1. T \subseteq Nat
    OBVIOUS
  <2> HIDE DEF T
  <2>2. QED
    BY <1>2, <1>3, <2>1, NatSetInduction
<1>5. j - i - 1 \in T /\ i + (j - i - 1) + 1 = j
  <2>1. j - i - 1 \in Nat /\ i + (j - i - 1) + 1 = j
    BY <1>1
  <2>2. QED
    BY <1>4, <2>1
<1>6. QED
  BY <1>1, <1>5

\* The copy loop puts the lines from retained line a on together again.
LEMMA LinesFromCut ==
  ASSUME ReadInv, NEW a \in 0..(Retained - 1)
  PROVE  LinesFrom(start_abs + a) = Bytes(Cut(a), Committed)
<1> DEFINE n == Retained - a
           cuts == [k \in 0..n |-> Cut(a + k)]
<1>1. /\ start_abs \in Nat /\ Retained \in Nat /\ a \in Nat
      /\ w_abs = start_abs + Retained /\ n \in Nat \ {0}
  BY CutFacts
<1>2. \A k \in 0..n : a + k \in 0..Retained
  BY <1>1
<1>3. cuts \in [0..n -> Nat]
  BY <1>2, CutNat
<1>4. \A k \in 1..n : /\ cuts[k - 1] <= cuts[k]
                      /\ entry[Slot(start_abs + a + k - 1)] = Run(cuts[k - 1], cuts[k])
  <2>1. SUFFICES ASSUME NEW k \in 1..n
                 PROVE  /\ cuts[k - 1] <= cuts[k]
                        /\ entry[Slot(start_abs + a + k - 1)] = Run(cuts[k - 1], cuts[k])
    OBVIOUS
  <2>2. /\ a + k - 1 \in 0..(Retained - 1) /\ (a + k - 1) + 1 = a + k
        /\ a + (k - 1) = a + k - 1 /\ k - 1 \in 0..n /\ k \in 0..n
        /\ start_abs + (a + k - 1) = start_abs + a + k - 1
    BY <1>1
  <2>3. cuts[k - 1] = Cut(a + k - 1) /\ cuts[k] = Cut(a + k)
    BY <2>2
  <2>4. /\ Cut(a + k - 1) < Cut(a + k) /\ Cut(a + k - 1) \in Nat /\ Cut(a + k) \in Nat
        /\ entry[Slot(start_abs + a + k - 1)] = Bytes(Cut(a + k - 1), Cut(a + k))
    BY <2>2, LineCuts
  <2> HIDE DEF cuts
  <2>5. QED
    BY <2>3, <2>4 DEF Run, Bytes
<1>5. w_abs - (start_abs + a) = n
  BY <1>1
<1>6. LinesFrom(start_abs + a) = FlattenSeq([k \in 1..n |-> Run(cuts[k - 1], cuts[k])])
  <2> HIDE DEF n, cuts
  <2>1. [k \in 1..n |-> entry[Slot(start_abs + a + k - 1)]]
          = [k \in 1..n |-> Run(cuts[k - 1], cuts[k])]
    BY <1>4
  <2>2. QED
    BY <1>5, <2>1 DEF LinesFrom
<1>7. FlattenSeq([k \in 1..n |-> Run(cuts[k - 1], cuts[k])]) = Run(cuts[0], cuts[n])
  <2> HIDE DEF n, cuts
  <2>1. QED
    BY <1>1, <1>3, <1>4, FlattenRuns
<1>8. cuts[0] = Cut(a) /\ cuts[n] = Committed
  BY <1>1, CutFacts
<1>9. QED
  BY <1>6, <1>7, <1>8 DEF Run, Bytes

\* At most len elements of s, after the first o.
Part(s, o, len) == SubSeq(s, o + 1, Min({o + len, Len(s)}))

LEMMA BytesPart ==
  ASSUME NEW a \in Nat, NEW b \in Nat, NEW o \in Nat, NEW len \in Nat, a <= b, o <= b - a
  PROVE  Part(Bytes(a, b), o, len) = Bytes(a + o, Min({a + o + len, b}))
<1> DEFINE s == Bytes(a, b)
           e == IF o + len <= b - a THEN o + len ELSE b - a
<1>1. s \in Seq(Nat) /\ Len(s) = b - a /\ \A k \in 1..(b - a) : s[k] = a + k
  BY BytesSeq
<1>2. Min({o + len, b - a}) = e
  <2>1. o + len \in Nat /\ b - a \in Nat
    OBVIOUS
  <2>2. QED
    BY <2>1, MinPair
<1>3. Min({a + o + len, b}) = a + e
  <2>1. a + o + len \in Nat
    OBVIOUS
  <2>2. Min({a + o + len, b}) = IF a + o + len <= b THEN a + o + len ELSE b
    BY <2>1, MinPair
  <2>3. QED
    BY <2>2
<1>4. e \in Nat /\ o <= e /\ e <= b - a
  OBVIOUS
<1> HIDE DEF s, e
<1>5. SubSeq(s, o + 1, e) = [k \in 1..(e - o) |-> s[o + k]]
  <2>1. SubSeq(s, o + 1, e) = [k \in 1..(e - (o + 1) + 1) |-> s[(o + 1) + k - 1]]
    BY <1>1, <1>4
  <2>2. \A k \in 1..(e - o) : (o + 1) + k - 1 = o + k
    BY <1>4
  <2>3. e - (o + 1) + 1 = e - o
    BY <1>4
  <2>4. QED
    BY <2>1, <2>2, <2>3
<1>6. \A k \in 1..(e - o) : s[o + k] = (a + o) + k
  BY <1>1, <1>4
<1>7. (a + e) - (a + o) = e - o
  BY <1>4
<1>8. Bytes(a + o, a + e) = [k \in 1..(e - o) |-> (a + o) + k]
  BY <1>7 DEF Bytes
<1>9. SubSeq(s, o + 1, e) = Bytes(a + o, a + e)
  BY <1>5, <1>6, <1>8
<1>10. QED
  BY <1>1, <1>2, <1>3, <1>9 DEF s, Part

\* What the copy returns from an offset inside retained line a.
LEMMA CopiedIs ==
  ASSUME ReadInv, NEW a \in 0..(Retained - 1), NEW o \in Nat, NEW len \in Nat,
         Cut(a) + o <= Cut(a + 1)
  PROVE  Copied(start_abs + a, o, len) = Bytes(Cut(a) + o, Min({Cut(a) + o + len, Committed}))
<1>1. /\ Cut(a) \in Nat /\ Cut(a + 1) \in Nat /\ Committed \in Nat /\ Cut(a) < Cut(a + 1)
      /\ entry[Slot(start_abs + a)] = Bytes(Cut(a), Cut(a + 1))
  BY LineCuts, CutFacts
<1>2. Cut(a + 1) <= Committed
  <2>1. Retained \in Nat /\ Cut(Retained) = Committed /\ a + 1 \in 0..Retained
    BY CutFacts
  <2>2. CASE a + 1 = Retained
    BY <1>1, <2>1, <2>2
  <2>3. CASE a + 1 # Retained
    <3>1. a + 1 < Retained /\ Retained \in 0..Retained
      BY <2>1, <2>3
    <3>2. Cut(a + 1) < Cut(Retained)
      BY <2>1, <3>1, CutsGrow
    <3>3. QED
      BY <1>1, <2>1, <3>2
  <2>4. QED
    BY <2>2, <2>3
<1> DEFINE from == Cut(a)
           next == Cut(a + 1)
           line == entry[Slot(start_abs + a)]
<1>3. /\ from \in Nat /\ next \in Nat /\ from <= next /\ from <= Committed
      /\ o <= next - from /\ o <= Committed - from /\ Committed \in Nat
      /\ line = Bytes(from, next)
  BY <1>1, <1>2
<1>4. LinesFrom(start_abs + a) = Bytes(from, Committed)
  BY LinesFromCut
<1>5. Copied(start_abs + a, o, len) =
        IF o > Len(line) THEN [k \in 1..len |-> Garbage] ELSE Part(Bytes(from, Committed), o, len)
  BY <1>4, Zenon DEF Copied, Part
<1> HIDE DEF from, next, line
<1>6. Len(line) = next - from
  BY <1>3, BytesSeq
<1>7. Part(Bytes(from, Committed), o, len) = Bytes(from + o, Min({from + o + len, Committed}))
  BY <1>3, BytesPart
<1>8. Copied(start_abs + a, o, len) = Bytes(from + o, Min({from + o + len, Committed}))
  BY <1>3, <1>5, <1>6, <1>7
<1>9. QED
  BY <1>8 DEF from

\* The bytes in the first array elements, one element further.
LEMMA PrefixStep ==
  ASSUME TypeOK, NEW j \in 0..(N - 1)
  PROVE  /\ PhysicalPrefix(j + 1) = PhysicalPrefix(j) + Len(entry[j])
         /\ PhysicalPrefix(j) \in Int
<1> DEFINE f == [i \in Slots |-> Len(entry[i])]
<1>1. f \in [Slots -> Int] /\ f[j] = Len(entry[j]) /\ j \in Int /\ 0 <= j
  BY BufferAssumption DEF TypeOK, Slots
<1>2. 0..j \subseteq Slots /\ (j + 1) - 1 = j
  BY BufferAssumption DEF Slots
<1>3. PhysicalPrefix(j + 1) = SumFunctionOnSet(f, 0..j)
  BY <1>2 DEF PhysicalPrefix
<1>4. PhysicalPrefix(j) = SumFunctionOnSet(f, 0..(j - 1))
  BY DEF PhysicalPrefix
<1> HIDE DEF f
<1>5. /\ SumFunctionOnSet(f, 0..j) = SumFunctionOnSet(f, 0..(j - 1)) + f[j]
      /\ SumFunctionOnSet(f, 0..(j - 1)) \in Int
  BY <1>1, <1>2, SumStep
<1>6. QED
  BY <1>1, <1>3, <1>4, <1>5

LEMMA PrefixZero == PhysicalPrefix(0) = 0
<1>1. 0..(0 - 1) = {}
  OBVIOUS
<1>2. QED
  BY <1>1, SumEmpty DEF PhysicalPrefix

\* The bytes before an array element are no more than those before a later one.
LEMMA PrefixGrows ==
  ASSUME TypeOK, NEW i \in 0..N, NEW j \in 0..N, i <= j
  PROVE  PhysicalPrefix(i) <= PhysicalPrefix(j) /\ PhysicalPrefix(i) \in Nat
<1> DEFINE P(k) == PhysicalPrefix(k)
           T == {n \in Nat : n <= N => P(n) \in Nat /\ \A k \in 0..n : P(k) <= P(n)}
<1>1. N \in Nat /\ P(0) = 0
  BY BufferAssumption, PrefixZero
<1>2. \A k \in 0..(N - 1) : Len(entry[k]) \in Nat
  BY LenProperties DEF TypeOK, Slots
<1>3. \A k \in 0..(N - 1) : P(k + 1) = P(k) + Len(entry[k])
  BY PrefixStep
<1> HIDE DEF P
<1>4. 0 \in T
  BY <1>1
<1>5. ASSUME NEW n \in T
      PROVE  n + 1 \in T
  <2>1. n \in Nat /\ (n <= N => P(n) \in Nat /\ \A k \in 0..n : P(k) <= P(n))
    OBVIOUS
  <2>2. SUFFICES ASSUME n + 1 <= N
                 PROVE  P(n + 1) \in Nat /\ \A k \in 0..(n + 1) : P(k) <= P(n + 1)
    BY <2>1
  <2> HIDE DEF T
  <2>3. n \in 0..(N - 1) /\ n <= N
    BY <1>1, <2>1, <2>2
  <2> DEFINE more == Len(entry[n])
  <2>4. P(n) \in Nat /\ P(n + 1) = P(n) + more /\ more \in Nat
    BY <1>2, <1>3, <2>1, <2>3
  <2> HIDE DEF more
  <2>5. P(n + 1) \in Nat /\ P(n) <= P(n + 1)
    BY <2>4
  <2>6. ASSUME NEW k \in 0..(n + 1)
        PROVE  P(k) <= P(n + 1)
    <3>1. CASE k = n + 1
      BY <2>5, <3>1
    <3>2. CASE k # n + 1
      <4>1. k \in 0..n
        BY <2>1, <3>2
      <4>2. n \in 0..n
        BY <2>1
      <4> DEFINE x == P(k)
                 y == P(n)
                 z == P(n + 1)
      <4>3. x <= y
        BY <2>1, <2>3, <4>1
      <4>4. x \in Int
        <5>1. CASE k = 0
          BY <1>1, <5>1
        <5>2. CASE k # 0
          <6>1. k - 1 \in 0..(N - 1) /\ k \in 0..(N - 1)
            BY <1>1, <2>1, <2>2, <4>1, <5>2
          <6>2. QED
            BY <6>1, PrefixStep DEF P
        <5>3. QED
          BY <5>1, <5>2
      <4>5. y \in Nat /\ z \in Nat /\ y <= z
        BY <2>4, <2>5
      <4> HIDE DEF x, y, z
      <4>6. x <= z
        BY <4>3, <4>4, <4>5
      <4>7. QED
        BY <4>6 DEF x, z
    <3>3. QED
      BY <3>1, <3>2
  <2>7. QED
    BY <2>5, <2>6
<1>6. T = Nat
  <2>1. T \subseteq Nat
    OBVIOUS
  <2> HIDE DEF T
  <2>2. QED
    BY <1>4, <1>5, <2>1, NatSetInduction
<1>7. i \in T /\ j \in T /\ i \in 0..j /\ i \in 0..i
  BY <1>1, <1>6
<1>8. QED
  BY <1>1, <1>7 DEF P

\* The search ends at the first element that ends it.
LEMMA SearchStopsAt ==
  ASSUME NEW off, NEW j \in Slots, SearchEnds(j, off), \A i \in 0..(j - 1) : ~SearchEnds(i, off)
  PROVE  SearchStop(off) = j
<1> DEFINE ends == {i \in Slots : SearchEnds(i, off)} \cup {N}
           least == Min(ends)
<1>1. N \in Nat /\ j \in Nat /\ j < N /\ Slots \subseteq Nat
  BY BufferAssumption DEF Slots
<1>2. ends \in SUBSET Nat /\ j \in ends
  BY <1>1
<1>3. least \in ends /\ \A y \in ends : least <= y
  <2> HIDE DEF ends
  <2>1. QED
    BY <1>2, MinNat
<1>4. least <= j /\ least \in Nat
  BY <1>1, <1>2, <1>3
<1>5. SearchStop(off) = least
  BY DEF SearchStop
<1> HIDE DEF least
<1>6. least \notin 0..(j - 1)
  BY <1>1, <1>3, <1>4
<1>7. QED
  BY <1>1, <1>4, <1>5, <1>6

\* A number is the remainder of the multiple it lies behind.
LEMMA ModOf ==
  ASSUME NEW m \in Nat \ {0}, NEW q \in Int, NEW r \in 0..(m - 1)
  PROVE  (m * q + r) % m = r
<1> DEFINE x == m * q + r
           p == x \div m
           s == x % m
<1>1. x \in Int /\ x = m * q + r
  OBVIOUS
<1>2. x = m * p + s /\ s \in 0..(m - 1) /\ p \in Int
  <2> HIDE DEF x
  <2>1. QED
    BY <1>1, DivMod
<1> HIDE DEF x, p, s
<1> DEFINE d == p - q
<1>3. m * d = r - s /\ d \in Int
  <2>1. m * (p - q) = m * p - m * q
    BY <1>2
  <2>2. QED
    BY <1>1, <1>2, <2>1
<1>4. m * d > -m /\ m * d < m
  BY <1>2, <1>3
<1> HIDE DEF d
<1>5. d = 0
  BY <1>3, <1>4, SmallMultiple
<1>6. m * d = 0
  BY <1>5
<1>7. s = r
  BY <1>2, <1>3, <1>6
<1>8. QED
  BY <1>7 DEF s, x

\* m successive line numbers use every slot.
LEMMA EverySlot ==
  ASSUME NEW m \in Nat \ {0}, NEW s \in Nat, NEW i \in 0..(m - 1)
  PROVE  \E a \in 0..(m - 1) : (s + a) % m = i
<1> DEFINE r == s % m
           q == s \div m
<1>1. s = m * q + r /\ r \in 0..(m - 1) /\ q \in Int
  BY DivMod
<1> HIDE DEF r, q
<1>2. CASE r <= i
  <2>1. i - r \in 0..(m - 1) /\ s + (i - r) = m * q + i
    BY <1>1, <1>2
  <2>2. (m * q + i) % m = i
    BY <1>1, ModOf
  <2>3. QED
    BY <2>1, <2>2
<1>3. CASE ~(r <= i)
  <2>1. i - r + m \in 0..(m - 1)
    BY <1>1, <1>3
  <2>2. q + 1 \in Int /\ m * (q + 1) = m * q + m
    BY <1>1
  <2>3. s + (i - r + m) = m * (q + 1) + i
    BY <1>1, <2>2
  <2>4. (m * (q + 1) + i) % m = i
    BY <2>2, ModOf
  <2>5. QED
    BY <2>1, <2>3, <2>4
<1>4. QED
  BY <1>2, <1>3

\* The first Retained slots hold the retained lines.
LEMMA UsedSlot ==
  ASSUME ReadInv, NEW i \in 0..(Retained - 1)
  PROVE  /\ i \in Slots
         /\ Len(entry[i]) \in Nat \ {0}
         /\ \E a \in 0..(Retained - 1) :
              Slot(start_abs + a) = i /\ Len(entry[i]) = Cut(a + 1) - Cut(a)
<1>1. Retained \in 0..N /\ N \in Nat \ {0} /\ start_abs \in Nat /\ (Retained < N => start_abs = 0)
  BY CutFacts
<1>2. i \in 0..(N - 1) /\ i \in Nat
  BY <1>1
<1>3. \E a \in 0..(Retained - 1) : Slot(start_abs + a) = i
  <2>1. CASE Retained = N
    <3>1. \E a \in 0..(N - 1) : (start_abs + a) % N = i
      BY <1>1, <1>2, EverySlot
    <3>2. QED
      BY <2>1, <3>1 DEF Slot
  <2>2. CASE Retained # N
    <3>1. start_abs + i = i /\ i < N
      BY <1>1, <1>2, <2>2
    <3>2. i % N = i
      BY <1>1, <1>2, <3>1, ModSmall
    <3>3. QED
      BY <3>1, <3>2 DEF Slot
  <2>3. QED
    BY <2>1, <2>2
<1>4. PICK a \in 0..(Retained - 1) : Slot(start_abs + a) = i
  BY <1>3
<1>5. /\ Cut(a) \in Nat /\ Cut(a + 1) \in Nat /\ Cut(a) < Cut(a + 1)
      /\ entry[i] = Bytes(Cut(a), Cut(a + 1))
  BY <1>4, LineCuts
<1> DEFINE x == Cut(a)
           y == Cut(a + 1)
<1>6. Len(entry[i]) = y - x /\ y - x \in Nat \ {0}
  <2>1. x \in Nat /\ y \in Nat /\ x < y /\ entry[i] = Bytes(x, y)
    BY <1>5
  <2>2. y - x \in Nat \ {0}
    BY <1>5
  <2> HIDE DEF x, y
  <2>3. Len(Bytes(x, y)) = y - x
    BY <2>1, BytesSeq
  <2>4. QED
    BY <2>1, <2>2, <2>3
<1>7. QED
  BY <1>2, <1>4, <1>6 DEF Slots

\* The next line number stays below 2^32, and the last element's ends the search.
LEMMA LastEnds ==
  ASSUME ReadInv, NEW j \in 0..(Retained - 1)
  PROVE  /\ Uint32(start_abs + j) = start_abs + j
         /\ Uint32(start_abs + j + 1) = start_abs + j + 1
         /\ Uint32(start_abs + j + 1) >= w_abs <=> j = Retained - 1
<1>1. /\ Retained \in Nat /\ start_abs \in Nat /\ U32 \in Nat /\ w_abs = start_abs + Retained
      /\ w_abs < U32
  BY CutFacts
<1>2. /\ start_abs + j \in Nat /\ start_abs + j < U32 /\ U32 \in Nat \ {0}
      /\ start_abs + j + 1 \in Nat /\ start_abs + j + 1 < U32
  BY <1>1
<1>3. Uint32(start_abs + j) = start_abs + j /\ Uint32(start_abs + j + 1) = start_abs + j + 1
  BY <1>2, ModSmall DEF Uint32
<1>4. QED
  BY <1>1, <1>3

\* Where the search for a character ends, and whether it found it.
LEMMA SearchIs ==
  ASSUME ReadInv, Retained # 0, NEW off \in Nat
  PROVE  \E s \in 0..(Retained - 1) :
           /\ PhysicalPrefix(s) <= off
           /\ \/ /\ off < PhysicalPrefix(s + 1)
                 /\ FindIndex(off) = [idx |-> start_abs + s, ofs |-> off - PhysicalPrefix(s)]
              \/ /\ s = Retained - 1 /\ PhysicalPrefix(s + 1) <= off
                 /\ FindIndex(off) = [idx |-> w_abs, ofs |-> 0]
<1> DEFINE ends == {i \in Slots : SearchEnds(i, off)} \cup {N}
           s == Min(ends)
           last == Retained - 1
<1>1. /\ N \in Nat \ {0} /\ Retained \in 0..N /\ start_abs \in Nat /\ w_abs = start_abs + Retained
      /\ TypeOK
  BY CutFacts DEF ReadInv, IInv
<1>2. last \in 0..(Retained - 1) /\ last \in Slots /\ last \in Nat /\ last < N
  BY <1>1 DEF Slots
<1>3. last \in ends
  BY <1>2, LastEnds DEF SearchEnds
<1>4. ends \in SUBSET Nat
  BY <1>1 DEF Slots
<1>5. s \in ends /\ \A y \in ends : s <= y
  <2> HIDE DEF ends
  <2>1. QED
    BY <1>3, <1>4, MinNat
<1>6. SearchStop(off) = s
  BY DEF SearchStop
<1>7. s \in Nat /\ s <= last
  BY <1>3, <1>4, <1>5
<1>8. s \in Slots /\ SearchEnds(s, off) /\ s # N
  BY <1>1, <1>2, <1>5, <1>7
<1>9. \A i \in Slots : i < s => ~SearchEnds(i, off)
  BY <1>1, <1>5, <1>7 DEF Slots
<1> HIDE DEF ends, s, last
<1>10. s \in 0..(Retained - 1) /\ s < N
  BY <1>1, <1>7 DEF last
<1> DEFINE P(i) == PhysicalPrefix(i)
           size(i) == Len(entry[i])
<1>11. \A i \in 0..(Retained - 1) : /\ P(i + 1) = P(i) + size(i) /\ P(i) \in Int
                                    /\ size(i) \in Nat \ {0} /\ i \in Slots
  <2>1. ASSUME NEW i \in 0..(Retained - 1)
        PROVE  /\ P(i + 1) = P(i) + size(i) /\ P(i) \in Int
               /\ size(i) \in Nat \ {0} /\ i \in Slots
    <3>1. i \in 0..(N - 1)
      BY <1>1
    <3>2. QED
      BY <1>1, <3>1, PrefixStep, UsedSlot
  <2>2. QED
    BY <2>1
<1>12. \A i \in 0..(Retained - 1) : SearchHits(i, off) <=> off < P(i + 1)
  <2>1. ASSUME NEW i \in 0..(Retained - 1)
        PROVE  SearchHits(i, off) <=> off < P(i + 1)
    <3>1. SearchHits(i, off) <=> P(i) + size(i) > off \/ size(i) = 0
      BY DEF SearchHits
    <3> HIDE DEF P, size
    <3>2. QED
      BY <1>11, <3>1
  <2>2. QED
    BY <2>1
<1>13. P(s) <= off
  <2>1. CASE s = 0
    BY <2>1, PrefixZero
  <2>2. CASE s # 0
    <3>1. s - 1 \in 0..(Retained - 1) /\ (s - 1) + 1 = s /\ s - 1 < s
      BY <1>1, <1>10, <2>2
    <3>2. ~SearchEnds(s - 1, off)
      BY <1>9, <1>11, <3>1
    <3>3. ~(off < P(s))
      BY <1>12, <3>1, <3>2 DEF SearchEnds
    <3>4. P(s) \in Int
      BY <1>10, <1>11
    <3> HIDE DEF P
    <3>5. QED
      BY <3>3, <3>4
  <2>3. QED
    BY <2>1, <2>2
<1>14. CASE SearchHits(s, off)
  <2>1. off < P(s + 1)
    BY <1>10, <1>12, <1>14
  <2>2. FindIndex(off) = [idx |-> Uint32(start_abs + s), ofs |-> off - P(s)]
    BY <1>6, <1>10, <1>14 DEF FindIndex
  <2>3. QED
    BY <1>10, <1>13, <2>1, <2>2, LastEnds
<1>15. CASE ~SearchHits(s, off)
  <2>1. P(s + 1) <= off
    <3>1. ~(off < P(s + 1)) /\ P(s + 1) \in Int
      BY <1>10, <1>11, <1>12, <1>15
    <3> HIDE DEF P
    <3>2. QED
      BY <3>1
  <2>2. Uint32(start_abs + s + 1) >= w_abs
    BY <1>8, <1>15 DEF SearchEnds
  <2>3. s = Retained - 1 /\ Uint32(start_abs + s + 1) = start_abs + s + 1
    BY <1>10, <2>2, LastEnds
  <2>4. start_abs + s + 1 = w_abs
    BY <1>1, <2>3
  <2>5. FindIndex(off) = [idx |-> w_abs, ofs |-> 0]
    BY <1>6, <1>15, <2>3, <2>4 DEF FindIndex
  <2>6. QED
    BY <1>10, <1>13, <2>1, <2>3, <2>5
<1>16. QED
  BY <1>14, <1>15

\* The search of a read ends in line number first, o bytes into it.
Start(pos, first, o) == FindIndex(pos - start_char_abs) = [idx |-> first, ofs |-> o]

\* A read whose search ends in retained line a.
LEMMA ReadIs ==
  ASSUME ReadInv, w_abs < U32 \div 2, NEW pos, InWindow(pos), NEW len \in Nat,
         NEW a \in 0..(Retained - 1), NEW o \in Nat, Cut(a) + o <= Cut(a + 1),
         Start(pos, start_abs + a, o)
  PROVE  RaedData(pos, len) = Bytes(Cut(a) + o, Min({Cut(a) + o + len, Committed}))
<1> DEFINE first == start_abs + a
           half == U32 \div 2
<1>1. first < w_abs /\ first \in Nat /\ w_abs \in Nat
  BY CutFacts
<1>2. half \in Int /\ w_abs < half
  BY CutFacts, BufferAssumption
<1>3. Copied(first, o, len) = Bytes(Cut(a) + o, Min({Cut(a) + o + len, Committed}))
  BY CopiedIs
<1>4. ReadStart(pos) = [idx |-> first, ofs |-> o]
  BY DEF ReadStart, Start
<1> HIDE DEF first, half
<1>5. ~(first >= half \/ first = w_abs)
  BY <1>1, <1>2
<1>6. ~ReadsNothing(first) /\ ~ReadFails(pos)
  BY <1>5 DEF ReadsNothing, ReadFails, half
<1>7. RaedData(pos, len) = Copied(first, o, len)
  BY <1>4, <1>6 DEF RaedData
<1>8. QED
  BY <1>3, <1>7

\* Where start_char_abs is, in cuts.
LEMMA WindowStart ==
  ASSUME ReadInv, Retained # 0
  PROVE  /\ start_char_abs = Cut(1) - LineSize(log[1]) /\ start_char_abs \in Nat
         /\ start_char_abs < Committed
         /\ LineSize(log[start_abs + 1]) = Cut(1) - Cut(0)
         /\ RetainedFrom = Cut(0) /\ LineSize(log[1]) \in Nat \ {0}
<1>1. /\ Retained \in Nat \ {0} /\ start_abs \in Nat /\ w_abs = Len(log) /\ log # <<>>
      /\ w_abs = start_abs + Retained /\ RetainedFrom = Cut(0) /\ N \in Nat \ {0}
      /\ TypeOK /\ LogPartitions /\ StartCharDrift /\ NoWrap /\ Committed \in Nat
      /\ Cut(Retained) = Committed
  BY CutFacts DEF ReadInv, IInv
<1> DEFINE x == Cut(0)
           y == Cut(1)
           d == LineSize(log[1])
<1>2. 0 \in 0..(Retained - 1) /\ 0 + 1 = 1 /\ start_abs + 0 + 1 = start_abs + 1
  BY <1>1
<1>3. x \in Nat /\ y \in Nat /\ x < y /\ LineSize(log[start_abs + 1]) = y - x
  BY <1>2, LineCuts DEF LineSize
<1>4. d \in Nat \ {0}
  <2> DEFINE Line == [from : Nat, to : Nat]
  <2>1. log \in Seq(Line) /\ Len(log) \in Nat /\ 1 \in 1..Len(log)
    BY <1>1 DEF TypeOK
  <2>2. log[1] \in Line /\ DOMAIN log = 1..Len(log)
    <3> HIDE DEF Line
    <3>1. QED
      BY <2>1, ElementOfSeq, LenProperties
  <2>3. log[1].from \in Nat /\ log[1].to \in Nat /\ log[1].from < log[1].to
    BY <1>1, <2>1, <2>2 DEF LogPartitions
  <2>4. QED
    BY <2>3 DEF LineSize
<1>5. start_char_abs = x + (y - x) - d
  BY <1>1, <1>3 DEF StartCharDrift
<1>6. start_char_abs \in Nat
  BY <1>1, BufferAssumption DEF TypeOK
<1>7. y <= Committed
  <2>1. CASE Retained = 1
    BY <1>1, <1>3, <2>1
  <2>2. CASE Retained # 1
    <3>1. 1 \in 0..Retained /\ Retained \in 0..Retained /\ 1 < Retained
      BY <1>1, <2>2
    <3>2. Cut(1) < Cut(Retained)
      BY <3>1, CutsGrow
    <3> DEFINE z == Cut(Retained)
    <3>3. y < z /\ z = Committed
      BY <1>1, <3>2
    <3> HIDE DEF y, z
    <3>4. QED
      BY <1>1, <1>3, <3>3
  <2>3. QED
    BY <2>1, <2>2
<1> HIDE DEF x, y, d
<1>8. start_char_abs = y - d /\ start_char_abs < Committed
  BY <1>1, <1>3, <1>4, <1>5, <1>7
<1>9. QED
  BY <1>1, <1>3, <1>4, <1>6, <1>8 DEF x, y, d

\* A read of everything from the window's start returns every retained line.
LEMMA WholeRead ==
  ASSUME ReadInv
  PROVE  WholeReadExact
<1>1. SUFFICES ASSUME w_abs < U32 \div 2, Committed > 0
               PROVE  RaedData(start_char_abs, Committed) = Bytes(RetainedFrom, Committed)
  BY DEF WholeReadExact
<1>2. /\ Retained \in Nat /\ Retained # 0 /\ Committed \in Nat /\ Cut(0) = RetainedFrom
      /\ w_char_abs = Committed /\ start_abs \in Nat
  BY <1>1, CutFacts DEF Committed
<1>3. start_char_abs \in Nat /\ start_char_abs < Committed
  BY <1>2, WindowStart
<1>4. InWindow(start_char_abs) /\ start_char_abs - start_char_abs = 0
  BY <1>2, <1>3 DEF InWindow
<1>5. 0 \in 0..(Retained - 1) /\ 0 \in Slots /\ Len(entry[0]) \in Nat \ {0}
  BY <1>2, UsedSlot
<1>6. PhysicalPrefix(0) = 0
  BY PrefixZero
<1>7. SearchHits(0, 0)
  BY <1>5, <1>6 DEF SearchHits
<1>8. SearchStop(0) = 0
  BY <1>5, <1>7, SearchStopsAt DEF SearchEnds
<1>9. FindIndex(0) = [idx |-> start_abs + 0, ofs |-> 0]
  <2>1. Uint32(start_abs + 0) = start_abs + 0 /\ 0 < N
    BY <1>5, LastEnds, BufferAssumption
  <2>2. QED
    BY <1>6, <1>7, <1>8, <2>1 DEF FindIndex
<1>10. Cut(0) \in Nat /\ Cut(0 + 1) \in Nat /\ Cut(0) < Cut(0 + 1)
  BY <1>5, LineCuts
<1> DEFINE x == Cut(0)
           y == Cut(0 + 1)
<1>11. x + 0 <= y /\ x + 0 = x /\ x \in Nat
  BY <1>10
<1>12. RaedData(start_char_abs, Committed) = Bytes(x + 0, Min({x + 0 + Committed, Committed}))
  <2> DEFINE z == 0
  <2>1. /\ Start(start_char_abs, start_abs + z, z) /\ Cut(z) + z <= Cut(z + 1)
        /\ z \in Nat /\ z \in 0..(Retained - 1)
    BY <1>4, <1>5, <1>9, <1>11 DEF Start
  <2> HIDE DEF z
  <2>2. RaedData(start_char_abs, Committed) = Bytes(Cut(z) + z, Min({Cut(z) + z + Committed, Committed}))
    <3>1. w_abs < U32 \div 2 /\ Committed \in Nat /\ InWindow(start_char_abs) /\ ReadInv
      BY <1>1, <1>2, <1>4
    <3>2. \A o \in Nat, a \in 0..(Retained - 1) :
            Start(start_char_abs, start_abs + a, o) /\ Cut(a) + o <= Cut(a + 1) =>
              RaedData(start_char_abs, Committed)
                = Bytes(Cut(a) + o, Min({Cut(a) + o + Committed, Committed}))
      BY <3>1, ReadIs
    <3>3. QED
      BY <2>1, <3>2
  <2>3. QED
    BY <2>2 DEF z
<1>13. Min({x + Committed, Committed}) = Committed
  <2> HIDE DEF x, y
  <2>1. x + Committed \in Nat
    BY <1>2, <1>11
  <2>2. Min({x + Committed, Committed}) = IF x + Committed <= Committed THEN x + Committed ELSE Committed
    BY <1>2, <2>1, MinPair
  <2>3. QED
    BY <1>2, <1>11, <2>2
<1> HIDE DEF x, y
<1>14. RaedData(start_char_abs, Committed) = Bytes(x, Committed)
  BY <1>11, <1>12, <1>13
<1>15. QED
  BY <1>2, <1>14 DEF x

\* The search's order of the array elements is the order of the lines.
Aligned == \/ Slot(start_abs) = 0
           \/ \A i, j \in DOMAIN log : LineSize(log[i]) = LineSize(log[j])

\* Each array element is then as long as the retained line of that number.
LEMMA AlignedSizes ==
  ASSUME ReadInv, Aligned, NEW j \in 0..(Retained - 1)
  PROVE  Len(entry[j]) = Cut(j + 1) - Cut(j)
<1>1. /\ Retained \in 0..N /\ N \in Nat \ {0} /\ start_abs \in Nat /\ j \in 0..(N - 1)
      /\ w_abs = start_abs + Retained /\ w_abs = Len(log) /\ TypeOK
  BY CutFacts DEF ReadInv, IInv
<1>2. DOMAIN log = 1..Len(log)
  <2> DEFINE Line == [from : Nat, to : Nat]
  <2>1. log \in Seq(Line)
    BY <1>1 DEF TypeOK
  <2> HIDE DEF Line
  <2>2. QED
    BY <2>1, LenProperties
<1>3. CASE Slot(start_abs) = 0
  <2> DEFINE q == start_abs \div N
             x == Cut(j)
             y == Cut(j + 1)
  <2>1. start_abs = (N * q) + (start_abs % N) /\ q \in Int
    BY <1>1, DivMod
  <2>2. start_abs + j = N * q + j
    <3> HIDE DEF q
    <3>1. QED
      BY <1>1, <1>3, <2>1 DEF Slot
  <2>3. (N * q + j) % N = j
    <3> HIDE DEF q
    <3>1. QED
      BY <1>1, <2>1, ModOf
  <2>4. Slot(start_abs + j) = j
    BY <2>2, <2>3 DEF Slot
  <2>5. entry[j] = Bytes(x, y) /\ x \in Nat /\ y \in Nat /\ x <= y
    BY <2>4, LineCuts
  <2> HIDE DEF x, y, q
  <2>6. Len(Bytes(x, y)) = y - x
    BY <2>5, BytesSeq
  <2>7. QED
    BY <2>5, <2>6 DEF x, y
<1>4. CASE \A i, k \in DOMAIN log : LineSize(log[i]) = LineSize(log[k])
  <2>1. PICK a \in 0..(Retained - 1) : Len(entry[j]) = Cut(a + 1) - Cut(a)
    BY UsedSlot
  <2>2. \A k \in 0..(Retained - 1) :
          start_abs + k + 1 \in DOMAIN log /\ LineSize(log[start_abs + k + 1]) = Cut(k + 1) - Cut(k)
    <3>1. ASSUME NEW k \in 0..(Retained - 1)
          PROVE  start_abs + k + 1 \in DOMAIN log /\ LineSize(log[start_abs + k + 1]) = Cut(k + 1) - Cut(k)
      <4>1. start_abs + k + 1 \in 1..Len(log)
        BY <1>1
      <4>2. QED
        BY <1>2, <4>1, LineCuts DEF LineSize
    <3>2. QED
      BY <3>1
  <2>3. QED
    BY <1>4, <2>1, <2>2
<1>5. QED
  BY <1>3, <1>4 DEF Aligned

LEMMA AlignedPrefix ==
  ASSUME ReadInv, Aligned, NEW j \in 0..Retained
  PROVE  PhysicalPrefix(j) = Cut(j) - Cut(0)
<1> DEFINE P(k) == PhysicalPrefix(k)
           C(k) == Cut(k)
           T == {n \in Nat : n <= Retained => P(n) = C(n) - C(0)}
<1>1. Retained \in 0..N /\ N \in Nat /\ P(0) = 0 /\ TypeOK
  BY CutFacts, PrefixZero DEF ReadInv, IInv
<1>2. \A k \in 0..(Retained - 1) : P(k + 1) = P(k) + (C(k + 1) - C(k))
  <2>1. ASSUME NEW k \in 0..(Retained - 1)
        PROVE  P(k + 1) = P(k) + (C(k + 1) - C(k))
    <3>1. k \in 0..(N - 1)
      BY <1>1
    <3>2. QED
      BY <1>1, <3>1, PrefixStep, AlignedSizes
  <2>2. QED
    BY <2>1
<1>3. \A k \in 0..Retained : C(k) \in Nat
  BY CutNat
<1> HIDE DEF P, C
<1>4. 0 \in T
  BY <1>1, <1>3
<1>5. ASSUME NEW n \in T
      PROVE  n + 1 \in T
  <2>1. n \in Nat /\ (n <= Retained => P(n) = C(n) - C(0))
    OBVIOUS
  <2>2. SUFFICES ASSUME n + 1 <= Retained
                 PROVE  P(n + 1) = C(n + 1) - C(0)
    BY <2>1
  <2> HIDE DEF T
  <2>3. n \in 0..(Retained - 1) /\ n <= Retained /\ n \in 0..Retained /\ n + 1 \in 0..Retained /\ 0 \in 0..Retained
    BY <1>1, <2>1, <2>2
  <2>4. /\ P(n + 1) = P(n) + (C(n + 1) - C(n)) /\ P(n) = C(n) - C(0)
        /\ C(n) \in Nat /\ C(n + 1) \in Nat /\ C(0) \in Nat
    BY <1>2, <1>3, <2>1, <2>3
  <2>5. QED
    BY <2>4
<1>6. T = Nat
  <2>1. T \subseteq Nat
    OBVIOUS
  <2> HIDE DEF T
  <2>2. QED
    BY <1>4, <1>5, <2>1, NatSetInduction
<1>7. j \in T
  BY <1>1, <1>6
<1>8. QED
  BY <1>1, <1>7 DEF P, C

\* A read that the window lets through, while the array order is the line order.
LEMMA AlignedRead ==
  ASSUME ReadInv, Aligned, w_abs < U32 \div 2, Retained # 0,
         NEW pos \in Int, InWindow(pos), NEW len \in Nat
  PROVE  LET first == RetainedFrom + pos - start_char_abs
         IN  RaedData(pos, len) = Bytes(first, Min({first + len, Committed}))
<1> DEFINE off == pos - start_char_abs
           x == Cut(0)
           first == RetainedFrom + pos - start_char_abs
<1>1. /\ Retained \in Nat \ {0} /\ start_char_abs \in Nat /\ RetainedFrom = x /\ x \in Nat
      /\ Cut(Retained) = Committed /\ Committed \in Nat /\ w_abs \in Nat
  BY CutFacts, WindowStart, CutNat
<1>2. off \in Nat /\ first = x + off
  BY <1>1 DEF InWindow
<1>3. PICK s \in 0..(Retained - 1) :
           /\ PhysicalPrefix(s) <= off
           /\ \/ /\ off < PhysicalPrefix(s + 1)
                 /\ FindIndex(off) = [idx |-> start_abs + s, ofs |-> off - PhysicalPrefix(s)]
              \/ /\ s = Retained - 1 /\ PhysicalPrefix(s + 1) <= off
                 /\ FindIndex(off) = [idx |-> w_abs, ofs |-> 0]
  <2> HIDE DEF off
  <2>1. QED
    BY <1>1, <1>2, SearchIs
<1> DEFINE a == Cut(s)
           b == Cut(s + 1)
<1>4. /\ PhysicalPrefix(s) = a - x /\ PhysicalPrefix(s + 1) = b - x
      /\ a \in Nat /\ b \in Nat /\ a < b
  <2>1. s \in 0..Retained /\ s + 1 \in 0..Retained
    BY <1>1
  <2>2. QED
    BY <2>1, AlignedPrefix, LineCuts
<1>5. CASE off < PhysicalPrefix(s + 1) /\ FindIndex(off) = [idx |-> start_abs + s, ofs |-> off - PhysicalPrefix(s)]
  <2> DEFINE o == off - PhysicalPrefix(s)
  <2>1. o \in Nat /\ a + o = first /\ a + o <= b
    <3> HIDE DEF off, first, a, b, x
    <3>1. QED
      BY <1>1, <1>2, <1>3, <1>4, <1>5
  <2>2. Start(pos, start_abs + s, o)
    BY <1>5 DEF Start
  <2> HIDE DEF o, off, first, x
  <2>3. \A ofs \in Nat, k \in 0..(Retained - 1) :
          Start(pos, start_abs + k, ofs) /\ Cut(k) + ofs <= Cut(k + 1) =>
            RaedData(pos, len) = Bytes(Cut(k) + ofs, Min({Cut(k) + ofs + len, Committed}))
    BY ReadIs
  <2>4. RaedData(pos, len) = Bytes(a + o, Min({a + o + len, Committed}))
    BY <2>1, <2>2, <2>3
  <2>5. QED
    BY <2>1, <2>4 DEF first
<1>6. CASE s = Retained - 1 /\ PhysicalPrefix(s + 1) <= off /\ FindIndex(off) = [idx |-> w_abs, ofs |-> 0]
  <2>1. ReadStart(pos) = [idx |-> w_abs, ofs |-> 0]
    BY <1>6 DEF ReadStart
  <2>2. ReadsNothing(w_abs)
    BY DEF ReadsNothing
  <2>3. RaedData(pos, len) = <<>>
    BY <2>1, <2>2 DEF RaedData
  <2>4. b = Committed
    BY <1>1, <1>6
  <2>5. first \in Nat /\ first >= Committed
    <3> HIDE DEF off, first, a, b, x
    <3>1. QED
      BY <1>1, <1>2, <1>4, <1>6, <2>4
  <2> HIDE DEF first
  <2>6. Min({first + len, Committed}) = Committed
    <3>1. first + len \in Nat /\ (first + len <= Committed => first + len = Committed)
      BY <1>1, <2>5
    <3>2. Min({first + len, Committed}) = IF first + len <= Committed THEN first + len ELSE Committed
      BY <1>1, <3>1, MinPair
    <3>3. QED
      BY <3>1, <3>2
  <2>7. Bytes(first, Committed) = <<>>
    BY <1>1, <2>5 DEF Bytes
  <2>8. QED
    BY <2>3, <2>6, <2>7 DEF first
<1>7. QED
  BY <1>3, <1>5, <1>6

\* A read of a buffer no line was committed to.
LEMMA EmptyRead ==
  ASSUME ReadInv, Retained = 0, NEW pos \in Int, InWindow(pos), NEW len \in Nat
  PROVE  LET first == RetainedFrom + pos - start_char_abs
         IN  RaedData(pos, len) = Bytes(first, Min({first + len, Committed}))
<1>1. /\ log = <<>> /\ Committed = 0 /\ RetainedFrom = 0 /\ w_char_abs = 0 /\ N \in Nat \ {0}
      /\ start_abs = 0 /\ w_abs = 0 /\ TypeOK /\ UnusedEmpty /\ NoWrap /\ U32 \in Nat \ {0}
  BY CutFacts, BufferAssumption DEF ReadInv, IInv, Committed, RetainedFrom
<1>2. pos = 0 /\ start_char_abs = 0
  BY <1>1, BufferAssumption DEF InWindow, TypeOK
<1>3. 0 \in Slots /\ entry[0] = <<>> /\ 0 < N
  BY <1>1 DEF UnusedEmpty, Slots
<1>4. SearchHits(0, 0)
  BY <1>3 DEF SearchHits
<1>5. SearchStop(0) = 0
  BY <1>3, <1>4, SearchStopsAt DEF SearchEnds
<1>6. Uint32(start_abs + 0) = w_abs
  <2>1. start_abs + 0 = 0
    BY <1>1
  <2>2. QED
    BY <1>1, <2>1, ModSmall DEF Uint32
<1>7. FindIndex(0).idx = w_abs
  BY <1>3, <1>4, <1>5, <1>6 DEF FindIndex
<1>8. ReadStart(pos).idx = w_abs
  BY <1>2, <1>7 DEF ReadStart
<1>9. RaedData(pos, len) = <<>>
  BY <1>8 DEF RaedData, ReadsNothing
<1>10. Min({0 + len, 0}) = 0
  <2>1. Min({len, 0}) = IF len <= 0 THEN len ELSE 0
    BY MinPair
  <2>2. QED
    BY <2>1
<1>11. Bytes(0, 0) = <<>>
  BY DEF Bytes
<1>12. QED
  BY <1>1, <1>2, <1>9, <1>10, <1>11

LEMMA AlignedReads ==
  ASSUME ReadInv
  PROVE  ReadExactWhenAligned
<1>1. SUFFICES ASSUME w_abs < U32 \div 2, Aligned, NEW pos \in Positions, NEW len \in 1..MaxLen,
                      InWindow(pos)
               PROVE  LET first == RetainedFrom + pos - start_char_abs
                      IN  RaedData(pos, len) = Bytes(first, Min({first + len, Committed}))
  BY DEF ReadExactWhenAligned, Aligned
<1>2. pos \in Int /\ len \in Nat
  BY BufferAssumption
<1>3. QED
  BY <1>1, <1>2, AlignedRead, EmptyRead

\* What a read returns are bytes of the stream, or garbage.
LEMMA ReadBytes ==
  ASSUME ReadInv, accepted <= MaxBytes, NEW pos \in Int, NEW len \in Nat
  PROVE  RaedData(pos, len) \in Seq(0..MaxBytes)
<1> DEFINE Known == 0..MaxBytes
<1>1. /\ Committed \in Nat /\ Committed <= MaxBytes /\ MaxBytes \in Nat /\ TypeOK
      /\ Retained \in Nat /\ start_char_abs \in Nat
  <2>1. /\ TypeOK /\ Committed \in Nat /\ Committed <= accepted /\ Retained \in 0..N
        /\ N \in Nat /\ U32 \in Nat /\ MaxBytes \in Nat
    BY CutFacts, CommittedBound, BufferAssumption DEF ReadInv, IInv
  <2>2. accepted \in Nat /\ start_char_abs \in 0..(U32 - 1)
    BY <2>1 DEF TypeOK
  <2>3. QED
    BY <2>1, <2>2
<1>2. <<>> \in Seq(Known)
  OBVIOUS
<1>3. ASSUME NEW a \in Nat, NEW b \in Nat, b <= Committed
      PROVE  Bytes(a, b) \in Seq(Known)
  <2>1. CASE a <= b
    <3>1. \A k \in 1..(b - a) : a + k \in Known
      BY <1>1, <1>3
    <3>2. QED
      BY <2>1, <3>1 DEF Bytes
  <2>2. CASE ~(a <= b)
    BY <2>2 DEF Bytes
  <2>3. QED
    BY <2>1, <2>2
<1>4. CASE ReadFails(pos)
  BY <1>2, <1>4 DEF RaedData
<1>5. CASE ~ReadFails(pos) /\ Retained = 0
  <2> DEFINE first == RetainedFrom + pos - start_char_abs
             end == IF first + len <= Committed THEN first + len ELSE Committed
  <2>1. RaedData(pos, len) = Bytes(first, Min({first + len, Committed}))
    BY <1>5, EmptyRead DEF ReadFails
  <2>2. first \in Nat
    BY <1>1, <1>5, CutFacts DEF ReadFails, InWindow, RetainedFrom
  <2> HIDE DEF first
  <2>3. Min({first + len, Committed}) = end /\ end \in Nat /\ end <= Committed
    <3>1. first + len \in Nat
      BY <2>2
    <3>2. QED
      BY <1>1, <3>1, MinPair
  <2>4. QED
    BY <1>3, <2>1, <2>2, <2>3
<1>6. CASE ~ReadFails(pos) /\ Retained # 0
  <2> DEFINE off == pos - start_char_abs
  <2>1. off \in Nat
    BY <1>1, <1>6 DEF ReadFails, InWindow
  <2> HIDE DEF off
  <2>2. PICK s \in 0..(Retained - 1) :
           /\ PhysicalPrefix(s) <= off
           /\ \/ /\ off < PhysicalPrefix(s + 1)
                 /\ FindIndex(off) = [idx |-> start_abs + s, ofs |-> off - PhysicalPrefix(s)]
              \/ /\ s = Retained - 1 /\ PhysicalPrefix(s + 1) <= off
                 /\ FindIndex(off) = [idx |-> w_abs, ofs |-> 0]
    BY <1>6, <2>1, SearchIs
  <2>3. ReadStart(pos) = FindIndex(off)
    BY DEF ReadStart, off
  <2>4. CASE FindIndex(off) = [idx |-> w_abs, ofs |-> 0]
    BY <1>2, <2>3, <2>4 DEF RaedData, ReadsNothing
  <2>5. CASE FindIndex(off) = [idx |-> start_abs + s, ofs |-> off - PhysicalPrefix(s)]
    <3> DEFINE first == start_abs + s
               o == off - PhysicalPrefix(s)
               rest == LinesFrom(first)
               e == IF o + len <= Len(rest) THEN o + len ELSE Len(rest)
    <3>1. rest \in Seq(Known)
      <4>1. Cut(s) \in Nat
        <5>1. s \in 0..Retained
          BY <1>1
        <5>2. QED
          BY <5>1, CutNat
      <4>2. rest = Bytes(Cut(s), Committed)
        BY LinesFromCut
      <4>3. Committed <= Committed
        BY <1>1
      <4> HIDE DEF rest
      <4>4. QED
        BY <1>1, <1>3, <4>1, <4>2, <4>3
    <3>2. o \in Nat
      <4>1. PhysicalPrefix(s) \in Nat
        <5>1. s \in 0..N /\ s <= s
          BY CutFacts
        <5>2. QED
          BY <1>1, <5>1, PrefixGrows
      <4>2. QED
        BY <2>1, <2>2, <4>1
    <3>3. RaedData(pos, len) = <<>> \/ RaedData(pos, len) = Copied(first, o, len)
      BY <2>3, <2>5 DEF RaedData
    <3> HIDE DEF first, o, rest
    <3>4. [k \in 1..len |-> Garbage] \in Seq(Known)
      BY <1>1 DEF Garbage
    <3>5. Len(rest) \in Nat /\ e \in Nat /\ e <= Len(rest) /\ Min({o + len, Len(rest)}) = e
      <4>1. Len(rest) \in Nat /\ o + len \in Nat
        BY <3>1, <3>2, LenProperties
      <4>2. QED
        BY <4>1, MinPair
    <3> HIDE DEF e
    <3>6. SubSeq(rest, o + 1, e) \in Seq(Known)
      <4> HIDE DEF Known
      <4>1. QED
        BY <3>1, <3>2, <3>5
    <3>7. Copied(first, o, len) \in Seq(Known)
      BY <3>4, <3>5, <3>6 DEF Copied, rest
    <3>8. QED
      BY <1>2, <3>3, <3>7
  <2>6. QED
    BY <2>2, <2>4, <2>5
<1>7. QED
  BY <1>4, <1>5, <1>6

LEMMA IntervalIs ==
  ASSUME NEW a \in Nat, NEW b \in Nat, a <= b
  PROVE  /\ Interval(a, b) \in Seq(Int) /\ Len(Interval(a, b)) = b - a
         /\ DOMAIN Interval(a, b) = 1..(b - a)
         /\ \A k \in 1..(b - a) : Interval(a, b)[k] = a + k - 1
BY DEF Interval

LEMMA ConcatIs ==
  ASSUME NEW one \in Seq(Int), NEW two \in Seq(Int), NEW m \in Nat, NEW r \in Nat,
         Len(one) = m, Len(two) = r
  PROVE  /\ DOMAIN (one \o two) = 1..(m + r)
         /\ \A k \in 1..(m + r) : (one \o two)[k] = IF k <= m THEN one[k] ELSE two[k - m]
<1>1. /\ one \o two \in Seq(Int) /\ Len(one \o two) = Len(one) + Len(two)
      /\ \A k \in 1..(Len(one) + Len(two)) :
           (one \o two)[k] = IF k <= Len(one) THEN one[k] ELSE two[k - Len(one)]
  BY ConcatProperties
<1>2. DOMAIN (one \o two) = 1..(m + r)
  BY <1>1, LenProperties
<1>3. QED
  BY <1>1, <1>2

\* The scan from the oldest line's slot visits every retained line's, in order
\* (all of them in an empty buffer).
LEMMA ScanFromOldest ==
  ASSUME ReadInv, out_offs = Slot(start_abs)
  PROVE  LET n == IF Retained = 0 THEN N ELSE Retained
         IN  DOMAIN ScanOrder = 1..n /\ \A k \in 1..n : ScanOrder[k] = Slot(start_abs + k - 1)
<1> DEFINE r == Slot(start_abs)
<1>1. /\ Retained \in 0..N /\ N \in Nat \ {0} /\ start_abs \in Nat /\ w_abs = start_abs + Retained
      /\ (Retained < N => start_abs = 0) /\ in_offs = Slot(w_abs)
  BY CutFacts DEF ReadInv, IInv, RingHoldsRecentLines
<1>2. CASE Retained = N
  <2> DEFINE q == start_abs \div N
             one == Interval(r, N)
             two == Interval(0, r)
  <2>1. start_abs = (N * q) + r /\ r \in 0..(N - 1) /\ q \in Int
    BY <1>1, DivMod DEF Slot
  <2>2. \A k \in 0..(N - 1) : Slot(start_abs + k) = IF r + k < N THEN r + k ELSE r + k - N
    <3> HIDE DEF q, r
    <3>1. SUFFICES ASSUME NEW k \in 0..(N - 1)
                   PROVE  Slot(start_abs + k) = IF r + k < N THEN r + k ELSE r + k - N
      OBVIOUS
    <3>2. CASE r + k < N
      <4>1. r + k \in 0..(N - 1) /\ start_abs + k = N * q + (r + k)
        BY <1>1, <2>1, <3>2
      <4>2. (N * q + (r + k)) % N = r + k
        BY <1>1, <2>1, <4>1, ModOf
      <4>3. QED
        BY <3>2, <4>1, <4>2 DEF Slot
    <3>3. CASE ~(r + k < N)
      <4>1. r + k - N \in 0..(N - 1) /\ N * (q + 1) = N * q + N /\ q + 1 \in Int
        BY <1>1, <2>1, <3>3
      <4>2. start_abs + k = N * (q + 1) + (r + k - N)
        BY <1>1, <2>1, <4>1
      <4>3. (N * (q + 1) + (r + k - N)) % N = r + k - N
        BY <1>1, <4>1, ModOf
      <4>4. QED
        BY <3>3, <4>2, <4>3 DEF Slot
    <3>4. QED
      BY <3>2, <3>3
  <2>3. in_offs = r
    <3>1. w_abs = N * (q + 1) + r /\ q + 1 \in Int
      <4> HIDE DEF q, r
      <4>1. N * (q + 1) = N * q + N
        BY <1>1, <2>1
      <4>2. QED
        BY <1>1, <1>2, <2>1, <4>1
    <3> HIDE DEF q, r
    <3>2. (N * (q + 1) + r) % N = r
      BY <1>1, <2>1, <3>1, ModOf
    <3>3. QED
      BY <1>1, <3>1, <3>2 DEF Slot
  <2>4. ScanOrder = one \o two
    <3> HIDE DEF q
    <3>1. in_offs <= out_offs /\ out_offs = r /\ in_offs = r
      BY <1>1, <2>1, <2>3
    <3> HIDE DEF r
    <3>2. QED
      BY <3>1 DEF ScanOrder
  <2> HIDE DEF r, q
  <2>5. /\ one \in Seq(Int) /\ Len(one) = N - r /\ \A k \in 1..(N - r) : one[k] = r + k - 1
        /\ two \in Seq(Int) /\ Len(two) = r /\ \A k \in 1..r : two[k] = k - 1
    <3>1. r \in Nat /\ N \in Nat /\ 0 \in Nat /\ r <= N /\ 0 <= r /\ r - 0 = r
          /\ \A k \in 1..r : 0 + k - 1 = k - 1
      BY <1>1, <2>1
    <3>2. one \in Seq(Int) /\ Len(one) = N - r /\ \A k \in 1..(N - r) : one[k] = r + k - 1
      BY <3>1, IntervalIs
    <3>3. two \in Seq(Int) /\ Len(two) = r /\ \A k \in 1..r : two[k] = k - 1
      <4> DEFINE z == 0
      <4>1. z \in Nat /\ z <= r /\ r - z = r /\ \A k \in 1..r : z + k - 1 = k - 1
        BY <3>1
      <4> HIDE DEF z
      <4>2. /\ Interval(z, r) \in Seq(Int) /\ Len(Interval(z, r)) = r
            /\ \A k \in 1..r : Interval(z, r)[k] = k - 1
        BY <3>1, <4>1, IntervalIs
      <4>3. QED
        BY <4>2 DEF z
    <3>4. QED
      BY <3>2, <3>3
  <2> HIDE DEF one, two
  <2>6. /\ DOMAIN (one \o two) = 1..N
        /\ \A k \in 1..N : (one \o two)[k] = IF k <= N - r THEN one[k] ELSE two[k - (N - r)]
    <3>1. N - r \in Nat /\ r \in Nat /\ (N - r) + r = N
      BY <1>1, <2>1
    <3>2. QED
      <4> DEFINE m == N - r
      <4>1. m \in Nat /\ r \in Nat /\ m + r = N /\ Len(one) = m /\ Len(two) = r
        BY <2>5, <3>1
      <4> HIDE DEF m
      <4>2. /\ DOMAIN (one \o two) = 1..(m + r)
            /\ \A k \in 1..(m + r) : (one \o two)[k] = IF k <= m THEN one[k] ELSE two[k - m]
        BY <2>5, <4>1, ConcatIs
      <4>3. QED
        BY <4>1, <4>2 DEF m
  <2>7. ASSUME NEW k \in 1..N
        PROVE  (one \o two)[k] = Slot(start_abs + k - 1)
    <3>1. k - 1 \in 0..(N - 1) /\ start_abs + (k - 1) = start_abs + k - 1
      BY <1>1
    <3>2. Slot(start_abs + k - 1) = IF r + (k - 1) < N THEN r + (k - 1) ELSE r + (k - 1) - N
      BY <2>2, <3>1
    <3>3. CASE k <= N - r
      <4>1. k \in 1..(N - r) /\ r + (k - 1) < N
        BY <1>1, <2>1, <3>3
      <4>2. QED
        BY <1>1, <2>1, <2>5, <2>6, <3>2, <3>3, <4>1
    <3>4. CASE ~(k <= N - r)
      <4>1. k - (N - r) \in 1..r /\ ~(r + (k - 1) < N)
        BY <1>1, <2>1, <3>4
      <4>2. two[k - (N - r)] = (k - (N - r)) - 1
        BY <2>5, <4>1
      <4>3. (k - (N - r)) - 1 = r + (k - 1) - N
        BY <1>1, <2>1
      <4>4. QED
        BY <2>6, <3>2, <3>4, <4>1, <4>2, <4>3
    <3>5. QED
      BY <3>3, <3>4
  <2>8. QED
    BY <1>1, <1>2, <2>4, <2>6, <2>7
<1>3. CASE Retained # N
  <2>1. start_abs = 0 /\ w_abs = Retained /\ Retained < N
    BY <1>1, <1>3
  <2>2. r = 0 /\ in_offs = Retained
    BY <1>1, <2>1, ModSmall DEF Slot
  <2>3. \A k \in 1..N : Slot(start_abs + k - 1) = k - 1
    <3>1. ASSUME NEW k \in 1..N
          PROVE  Slot(start_abs + k - 1) = k - 1
      <4>1. start_abs + k - 1 = k - 1 /\ k - 1 \in Nat /\ k - 1 < N
        BY <1>1, <2>1
      <4>2. QED
        BY <1>1, <4>1, ModSmall DEF Slot
    <3>2. QED
      BY <3>1
  <2> HIDE DEF r
  <2> DEFINE m == IF Retained = 0 THEN N ELSE Retained
  <2>4. m \in 0..N /\ m \in Nat
    BY <1>1
  <2>5. ScanOrder = Interval(0, m)
    <3>1. CASE Retained = 0
      <4>1. ScanOrder = Interval(0, N) \o Interval(0, 0)
        BY <2>2, <3>1 DEF ScanOrder, r
      <4>2. Interval(0, 0) = <<>> /\ Interval(0, N) \in Seq(Int)
        BY <1>1, IntervalIs DEF Interval
      <4>3. QED
        BY <3>1, <4>1, <4>2
    <3>2. CASE Retained # 0
      BY <1>1, <2>2, <3>2 DEF ScanOrder, r
    <3>3. QED
      BY <3>1, <3>2
  <2> HIDE DEF m
  <2>6. DOMAIN ScanOrder = 1..m /\ \A k \in 1..m : ScanOrder[k] = k - 1
    BY <2>4, <2>5 DEF Interval
  <2>7. \A k \in 1..m : ScanOrder[k] = Slot(start_abs + k - 1)
    BY <1>1, <2>3, <2>4, <2>6
  <2>8. QED
    BY <2>6, <2>7 DEF m
<1>4. QED
  BY <1>2, <1>3

\* The unit-test search sees the retained lines end to end.
LEMMA ScannedFromOldest ==
  ASSUME ReadInv, out_offs = Slot(start_abs)
  PROVE  FlattenSeq([k \in DOMAIN ScanOrder |-> entry[ScanOrder[k]]]) = Bytes(RetainedFrom, Committed)
<1> DEFINE n == IF Retained = 0 THEN N ELSE Retained
           upto(k) == IF k <= Retained THEN k ELSE Retained
           cuts == [k \in 0..n |-> Cut(upto(k))]
<1>1. /\ Retained \in 0..N /\ N \in Nat \ {0} /\ start_abs \in Nat /\ n \in Nat \ {0}
      /\ Retained <= n /\ w_abs = start_abs + Retained /\ (Retained < N => start_abs = 0)
      /\ Cut(0) = RetainedFrom /\ Cut(Retained) = Committed /\ UnusedEmpty /\ NoWrap
  BY CutFacts DEF ReadInv
<1>2. \A k \in 0..n : upto(k) \in 0..Retained
  BY <1>1
<1>3. cuts \in [0..n -> Nat]
  BY <1>2, CutNat
<1>4. ASSUME NEW k \in 1..n
      PROVE  cuts[k - 1] <= cuts[k] /\ entry[Slot(start_abs + k - 1)] = Run(cuts[k - 1], cuts[k])
  <2>0. k - 1 \in 0..n /\ k \in 0..n /\ k \in Nat
    BY <1>1
  <2>1. CASE k <= Retained
    <3>1. /\ k - 1 \in 0..(Retained - 1) /\ (k - 1) + 1 = k /\ start_abs + (k - 1) = start_abs + k - 1
          /\ upto(k) = k /\ upto(k - 1) = k - 1
      BY <1>1, <2>0, <2>1
    <3>2. /\ Cut(k - 1) \in Nat /\ Cut(k) \in Nat /\ Cut(k - 1) < Cut(k)
          /\ entry[Slot(start_abs + k - 1)] = Bytes(Cut(k - 1), Cut(k))
      BY <3>1, LineCuts
    <3>3. cuts[k - 1] = Cut(k - 1) /\ cuts[k] = Cut(k)
      BY <2>0, <3>1
    <3> HIDE DEF cuts
    <3>4. QED
      BY <3>2, <3>3 DEF Run, Bytes
  <2>2. CASE ~(k <= Retained)
    <3>1. Retained = 0 /\ n = N /\ start_abs = 0 /\ w_abs = 0
      BY <1>1, <2>0, <2>2
    <3>2. upto(k) = 0 /\ upto(k - 1) = 0
      BY <2>0, <2>2, <3>1
    <3>3. cuts[k - 1] = Cut(0) /\ cuts[k] = Cut(0) /\ Cut(0) \in Nat
      BY <1>1, <2>0, <3>1, <3>2, CutNat
    <3>4. k - 1 \in Slots /\ start_abs + k - 1 = k - 1 /\ k - 1 >= w_abs /\ k - 1 \in Nat /\ k - 1 < N
      BY <1>1, <2>0, <3>1 DEF Slots
    <3>5. Slot(start_abs + k - 1) = k - 1
      BY <1>1, <3>4, ModSmall DEF Slot
    <3>6. entry[Slot(start_abs + k - 1)] = <<>>
      BY <1>1, <3>4, <3>5 DEF UnusedEmpty
    <3> HIDE DEF cuts
    <3>7. QED
      BY <3>3, <3>6 DEF Run
  <2>3. QED
    BY <2>1, <2>2
<1>5. cuts[0] = Cut(0) /\ cuts[n] = Cut(Retained)
  BY <1>1
<1>6. DOMAIN ScanOrder = 1..n /\ \A k \in 1..n : ScanOrder[k] = Slot(start_abs + k - 1)
  BY ScanFromOldest
<1> HIDE DEF n, cuts
<1>7. [k \in DOMAIN ScanOrder |-> entry[ScanOrder[k]]] = [k \in 1..n |-> Run(cuts[k - 1], cuts[k])]
  BY <1>4, <1>6
<1>8. FlattenSeq([k \in 1..n |-> Run(cuts[k - 1], cuts[k])]) = Run(cuts[0], cuts[n])
  BY <1>1, <1>3, <1>4, FlattenRuns
<1>9. QED
  BY <1>1, <1>5, <1>7, <1>8 DEF Run, Bytes

LEMMA FindExact ==
  ASSUME ReadInv
  PROVE  FindEntryExactFromOldest
<1>1. SUFFICES ASSUME out_offs = Slot(start_abs)
               PROVE  /\ \A off \in 0..(Committed - RetainedFrom - 1) :
                           FindEntry(off) = RetainedFrom + off + 1
                      /\ FindEntry(Committed - RetainedFrom) = Null
  BY DEF FindEntryExactFromOldest
<1> DEFINE scanned == FlattenSeq([k \in DOMAIN ScanOrder |-> entry[ScanOrder[k]]])
           a == RetainedFrom
           b == Committed
<1>2. scanned = Bytes(a, b)
  BY <1>1, ScannedFromOldest
<1>3. a \in Nat /\ b \in Nat /\ a <= b
  <2>1. /\ Retained \in Nat /\ Cut(0) = RetainedFrom /\ Cut(Retained) = Committed
        /\ 0 \in 0..Retained /\ Retained \in 0..Retained
    BY CutFacts
  <2>2. Cut(0) \in Nat /\ Cut(Retained) \in Nat
    BY <2>1, CutNat
  <2>3. CASE Retained = 0
    BY <2>1, <2>2, <2>3
  <2>4. CASE Retained # 0
    <3>1. 0 < Retained
      BY <2>1, <2>4
    <3>2. Cut(0) < Cut(Retained)
      BY <2>1, <3>1, CutsGrow
    <3> DEFINE x == Cut(0)
               y == Cut(Retained)
    <3>3. x < y /\ x \in Nat /\ y \in Nat /\ a = x /\ b = y
      BY <2>1, <2>2, <3>2
    <3> HIDE DEF x, y, a, b
    <3>4. QED
      BY <3>3
  <2>5. QED
    BY <2>3, <2>4
<1>4. \A off : FindEntry(off) = IF off < Len(scanned) THEN scanned[off + 1] ELSE Null
  BY DEF FindEntry
<1> HIDE DEF scanned, a, b
<1>5. Len(scanned) = b - a /\ \A k \in 1..(b - a) : scanned[k] = a + k
  BY <1>2, <1>3, BytesSeq
<1>6. ASSUME NEW off \in 0..(b - a - 1)
      PROVE  FindEntry(off) = a + off + 1
  <2>1. off < Len(scanned) /\ off + 1 \in 1..(b - a)
    BY <1>3, <1>5
  <2>2. scanned[off + 1] = a + (off + 1)
    BY <1>5, <2>1
  <2>3. a + (off + 1) = a + off + 1
    BY <1>3
  <2>4. QED
    BY <1>4, <2>1, <2>2, <2>3
<1>7. FindEntry(b - a) = Null
  <2>1. ~(b - a < Len(scanned))
    BY <1>3, <1>5
  <2>2. QED
    BY <1>4, <2>1
<1>8. QED
  BY <1>6, <1>7 DEF a, b

\* What the three theorems on reads rest on: a slot no line reached is empty.
LEMMA UnusedAlwaysEmpty == Spec => [](IInv /\ UnusedEmpty)
<1>1. Init => IInv /\ UnusedEmpty
  BY InvInit DEF Init, UnusedEmpty
<1>2. IInv /\ UnusedEmpty /\ [Next]_vars => (IInv /\ UnusedEmpty)'
  BY InvNext, UnusedNext
<1>3. QED
  BY <1>1, <1>2, PTL DEF Spec

\* A read of everything from start_char_abs returns every retained line, oldest
\* first, for every number of evictions: aesd_circular_buffer_raed starts in
\* array element 0's place, which is the oldest line's, and copies to the end.
THEOREM WholeReadAlwaysExact == Spec => []WholeReadExact
<1>1. IInv /\ UnusedEmpty => WholeReadExact
  <2>1. CASE NoWrap
    BY <2>1, WholeRead DEF ReadInv
  <2>2. CASE ~NoWrap
    BY <2>2 DEF WholeReadExact
  <2>3. QED
    BY <2>1, <2>2
<1>2. QED
  BY <1>1, UnusedAlwaysEmpty, PTL

\* While the array order is the line order a read at any position in the window
\* returns the characters at that position, across the line boundaries of
\* aesd_circular_buffer_raed's copy loop.
THEOREM ReadsExactWhenAligned == Spec => []ReadExactWhenAligned
<1>1. IInv /\ UnusedEmpty => ReadExactWhenAligned
  <2>1. CASE NoWrap
    BY <2>1, AlignedReads DEF ReadInv
  <2>2. CASE ~NoWrap
    BY <2>2 DEF ReadExactWhenAligned
  <2>3. QED
    BY <2>1, <2>2
<1>2. QED
  BY <1>1, UnusedAlwaysEmpty, PTL

\* aesd_circular_buffer_find_entry_offset_for_fpos finds every retained
\* character while out_offs is the oldest line's slot, and NULL after the last.
THEOREM FindAlwaysExactFromOldest == Spec => []FindEntryExactFromOldest
<1>1. IInv /\ UnusedEmpty => FindEntryExactFromOldest
  <2>1. CASE NoWrap
    BY <2>1, FindExact DEF ReadInv
  <2>2. CASE ~NoWrap
    BY <2>2 DEF FindEntryExactFromOldest
  <2>3. QED
    BY <2>1, <2>2
<1>2. QED
  BY <1>1, UnusedAlwaysEmpty, PTL

-----------------------------------------------------------------------------
(* How much the slots hold *)

\* No more bytes than were committed: a line takes the place of an older one.
SlotBytesBounded == PhysicalPrefix(N) <= Committed

LEMMA SlotBytesNext ==
  ASSUME IInv, SlotBytesBounded, [Next]_vars
  PROVE  SlotBytesBounded'
<1>1. CASE UNCHANGED <<entry, log>>
  BY <1>1 DEF SlotBytesBounded, PhysicalPrefix, Committed
<1>2. ASSUME NEW n \in 1..MaxChunk, AddLine(n)
      PROVE  SlotBytesBounded'
  <2> DEFINE f == [i \in Slots |-> Len(entry[i])]
             g == [i \in Slots |-> Len(entry'[i])]
             S == 0..(N - 1)
             x == TargetSlot
             line == Bytes(Committed, accepted + n)
             v == accepted + n - Committed
  <2>1. /\ n \in Nat /\ N \in Nat \ {0} /\ w_abs \in Nat /\ accepted \in Nat
        /\ Committed \in Nat /\ Committed <= accepted
    <3>1. TypeOK /\ LogPartitions /\ PendingIntact
      BY DEF IInv
    <3>2. Committed \in Nat /\ Committed <= accepted
      BY <3>1, CommittedBound
    <3>3. QED
      BY <3>1, <3>2, BufferAssumption DEF TypeOK
  <2>2. entry' = [entry EXCEPT ![x] = line] /\ log' = Append(log, [from |-> Committed, to |-> accepted + n])
    BY <1>2, <2>1, LineEffect DEF IInv
  <2>3. x \in Slots
    BY <2>1, DivMod DEF TargetSlot, Slot, Slots
  <2>4. Len(line) = v /\ v \in Nat
    <3> DEFINE a == Committed
               b == accepted + n
    <3>1. a \in Nat /\ b \in Nat /\ a <= b /\ v = b - a
      BY <2>1
    <3> HIDE DEF a, b
    <3>2. Len(Bytes(a, b)) = b - a
      BY <3>1, BytesSeq
    <3>3. QED
      BY <3>1, <3>2 DEF a, b
  <2>5. f \in [Slots -> Nat] /\ entry \in [Slots -> Seq(Nat)]
    <3>1. \A i \in Slots : Len(entry[i]) \in Nat
      BY LenProperties DEF IInv, TypeOK
    <3>2. QED
      BY <3>1 DEF IInv, TypeOK
  <2>6. g = [f EXCEPT ![x] = v]
    <3> HIDE DEF line, v, x
    <3>1. QED
      BY <2>2, <2>3, <2>4, <2>5
  <2>7. S = Slots /\ IsFiniteSet(S)
    BY <2>1, FS_Interval DEF Slots
  <2>8. PhysicalPrefix(N) = SumFunctionOnSet(f, S) /\ PhysicalPrefix(N)' = SumFunctionOnSet(g, S)
    BY DEF PhysicalPrefix
  <2>9. Committed' = accepted + n
    <3> DEFINE Line == [from : Nat, to : Nat]
               last == [from |-> Committed, to |-> accepted + n]
    <3>1. log \in Seq(Line) /\ last \in Line
      BY <2>1 DEF IInv, TypeOK
    <3>2. last.to = accepted + n
      OBVIOUS
    <3> HIDE DEF Line, last
    <3>3. log' = Append(log, last)
      BY <2>2 DEF last
    <3>4. log' # <<>> /\ log'[Len(log')] = last
      BY <3>1, <3>3, AppendProperties
    <3>5. QED
      BY <3>2, <3>4 DEF Committed
  <2> HIDE DEF f, g, S, line, x, v
  <2>10. SumFunctionOnSet(g, S) = SumFunctionOnSet(f, S) - f[x] + v
    <3>1. f \in [Slots -> Int] /\ S \in SUBSET Slots /\ x \in S /\ v \in Int
      BY <2>3, <2>4, <2>5, <2>7
    <3>2. g \in [Slots -> Int] /\ g[x] = v /\ \A y \in S \ {x} : f[y] = g[y]
      BY <2>6, <2>7, <3>1
    <3>3. SumFunctionOnSet(g, S) = SumFunctionOnSet(f, S) - f[x] + g[x]
      BY <2>7, <3>1, <3>2, SumChanges
    <3>4. QED
      BY <3>2, <3>3
  <2>11. SumFunctionOnSet(f, S) \in Int
    <3>1. f \in [Slots -> Int] /\ S \in SUBSET Slots
      BY <2>5, <2>7
    <3>2. QED
      BY <2>7, <3>1, SumInt
  <2>12. f[x] \in Nat
    BY <2>3, <2>5
  <2> DEFINE old == SumFunctionOnSet(f, S)
             new == SumFunctionOnSet(g, S)
  <2>13. old \in Int /\ new = old - f[x] + v /\ old <= Committed
    BY <2>8, <2>10, <2>11 DEF SlotBytesBounded
  <2> HIDE DEF old, new
  <2>14. new <= accepted + n
    BY <2>1, <2>4, <2>12, <2>13 DEF v
  <2>15. QED
    BY <2>8, <2>9, <2>14 DEF SlotBytesBounded, new
<1>3. ASSUME NEW n \in 1..MaxChunk, AddPartial(n)
      PROVE  SlotBytesBounded'
  BY <1>1, <1>3 DEF AddPartial
<1>4. QED
  BY <1>1, <1>2, <1>3 DEF Next, vars, aesd_circular_buffer_add_entry,
                          aesd_circular_buffer_raed

LEMMA SlotBytesInit ==
  ASSUME Init
  PROVE  SlotBytesBounded
<1> DEFINE f == [i \in Slots |-> Len(entry[i])]
           T == {n \in Nat : n <= N => PhysicalPrefix(n) = 0}
<1>1. TypeOK /\ IInv
  BY InvInit DEF IInv
<1>2. \A i \in Slots : Len(entry[i]) = 0
  BY DEF Init
<1>3. 0 \in T
  BY PrefixZero
<1>4. ASSUME NEW n \in T
      PROVE  n + 1 \in T
  <2>1. n \in Nat /\ (n <= N => PhysicalPrefix(n) = 0)
    OBVIOUS
  <2>2. SUFFICES ASSUME n + 1 <= N
                 PROVE  PhysicalPrefix(n + 1) = 0
    BY <2>1
  <2> HIDE DEF T
  <2>3. n \in 0..(N - 1) /\ n \in Slots /\ n <= N
    BY <2>1, <2>2, BufferAssumption DEF Slots
  <2>4. PhysicalPrefix(n + 1) = PhysicalPrefix(n) + Len(entry[n])
    BY <1>1, <2>3, PrefixStep
  <2>5. QED
    BY <1>2, <2>1, <2>3, <2>4
<1>5. T = Nat
  <2>1. T \subseteq Nat
    OBVIOUS
  <2> HIDE DEF T
  <2>2. QED
    BY <1>3, <1>4, <2>1, NatSetInduction
<1>6. N \in T /\ N \in Nat
  BY <1>5, BufferAssumption
<1>7. Committed = 0
  BY DEF Init, Committed
<1>8. QED
  BY <1>6, <1>7 DEF SlotBytesBounded

LEMMA SlotBytesAlwaysBounded == Spec => []SlotBytesBounded
BY SlotBytesInit, SlotBytesNext, Invariant, PTL DEF Spec

\* Every line ends before what is committed.
LEMMA CutBound ==
  ASSUME ReadInv, NEW j \in 0..Retained
  PROVE  Cut(j) <= Committed
<1>1. Retained \in Nat /\ Cut(Retained) = Committed /\ Committed \in Nat
  BY CutFacts
<1>2. CASE j = Retained
  BY <1>1, <1>2
<1>3. CASE j # Retained
  <2>1. j < Retained /\ Retained \in 0..Retained
    BY <1>1, <1>3
  <2>2. Cut(j) < Cut(Retained) /\ Cut(j) \in Nat
    BY <2>1, CutsGrow, CutNat
  <2> DEFINE x == Cut(j)
  <2>3. x < Committed /\ x \in Nat
    BY <1>1, <2>2
  <2> HIDE DEF x
  <2>4. x <= Committed
    BY <1>1, <2>3
  <2>5. QED
    BY <2>4 DEF x
<1>4. QED
  BY <1>2, <1>3

\* The window starts past position 0 exactly when a line has been evicted.
LEMMA StartPositive ==
  ASSUME IInv, NoWrap
  PROVE  start_char_abs = 0 <=> start_abs = 0
<1> DEFINE old == log[start_abs + 1]
<1>1. /\ TypeOK /\ LogPartitions /\ StartAtZero
      /\ log # <<>> => start_char_abs = old.from + (old.to - old.from) - (log[1].to - log[1].from)
      /\ w_abs = Len(log) /\ w_abs - start_abs = Min({N, Len(log)})
  BY DEF IInv, StartCharDrift, RingHoldsRecentLines, RetainedFrom, LineSize
<1>2. start_abs \in Nat /\ start_char_abs \in Nat /\ N \in Nat \ {0} /\ Len(log) \in Nat
  BY <1>1, BufferAssumption, LenProperties DEF TypeOK
<1>3. w_abs - start_abs = IF N <= Len(log) THEN N ELSE Len(log)
  BY <1>1, <1>2, MinPair
<1>4. CASE log = <<>>
  <2>1. Len(log) = 0
    BY <1>4, EmptySeq
  <2>2. start_abs = 0
    BY <1>1, <1>2, <1>3, <2>1
  <2>3. QED
    BY <1>1, <1>4, <2>2 DEF StartAtZero
<1>5. CASE log # <<>>
  <2> DEFINE Line == [from : Nat, to : Nat]
  <2>1. log \in Seq(Line)
    BY <1>1 DEF TypeOK
  <2> HIDE DEF Line
  <2>2. Len(log) \in Nat \ {0} /\ DOMAIN log = 1..Len(log)
    BY <1>5, <2>1, EmptySeq, LenProperties
  <2>3. 1 \in DOMAIN log /\ start_abs + 1 \in DOMAIN log
    BY <1>1, <1>2, <1>3, <2>2
  <2>4. log[1] \in Line /\ old \in Line
    BY <2>1, <2>2, <2>3, ElementOfSeq
  <2>5. log[1].from \in Nat /\ log[1].to \in Nat /\ old.from \in Nat /\ old.to \in Nat
    BY <2>4 DEF Line
  <2>6. log[1].from = 0 /\ old.from < old.to /\ (start_abs > 0 => old.from >= log[1].to)
    <3>1. start_abs > 0 => start_abs + 1 > 1
      BY <1>2
    <3>2. QED
      BY <1>1, <1>5, <2>3, <3>1 DEF LogPartitions
  <2>7. CASE start_abs = 0
    <3>1. old = log[1]
      BY <2>7
    <3> HIDE DEF old
    <3>2. start_char_abs = old.from + (old.to - old.from) - (log[1].to - log[1].from)
      BY <1>1, <1>5
    <3>3. old.to - old.from = log[1].to - log[1].from /\ old.from = 0
      BY <2>6, <3>1
    <3>4. start_char_abs = 0
      BY <2>5, <3>2, <3>3
    <3>5. QED
      BY <2>7, <3>4
  <2>8. CASE start_abs # 0
    <3>1. old.from >= log[1].to
      BY <1>2, <2>6, <2>8
    <3> HIDE DEF old
    <3>2. start_char_abs = old.to - log[1].to
      BY <1>1, <1>5, <2>5, <2>6
    <3>3. old.to > log[1].to
      BY <2>5, <2>6, <3>1
    <3>4. start_char_abs # 0
      BY <2>5, <3>2, <3>3
    <3>5. QED
      BY <2>8, <3>4
  <2>9. QED
    BY <2>7, <2>8
<1>6. QED
  BY <1>4, <1>5

\* Until a line is evicted, a read in the window returns the next characters of
\* everything committed, and only at the end none.
LEMMA ReadFromStart ==
  ASSUME ReadInv, w_abs < U32 \div 2, start_abs = 0,
         NEW pos \in Int, InWindow(pos), NEW len \in Nat \ {0}
  PROVE  \E n \in 0..(w_char_abs - pos) :
           /\ RaedResult(pos, len) = n
           /\ RaedData(pos, len) = Bytes(pos, pos + n)
           /\ n = 0 <=> pos = w_char_abs
<1>1. /\ N \in Nat \ {0} /\ w_char_abs = Committed /\ Committed \in Nat /\ RetainedFrom = Cut(0)
      /\ IInv /\ NoWrap /\ Retained \in Nat
  BY CutFacts DEF ReadInv
<1>2. start_char_abs = 0
  BY <1>1, StartPositive
<1>3. RetainedFrom = 0
  BY <1>1 DEF RetainedFrom, IInv, LogPartitions
<1>4. Aligned
  <2>1. Slot(0) = 0
    BY <1>1, ModSmall DEF Slot
  <2>2. QED
    BY <2>1 DEF Aligned
<1> DEFINE end == Committed
           upTo == IF pos + len <= end THEN pos + len ELSE end
<1>5. pos \in Nat /\ pos <= end
  BY <1>1, <1>2 DEF InWindow
<1>6. RaedData(pos, len) = Bytes(pos, Min({pos + len, end}))
  <2> DEFINE first == RetainedFrom + pos - start_char_abs
  <2>1. first = pos
    BY <1>2, <1>3
  <2>2. RaedData(pos, len) = Bytes(first, Min({first + len, end}))
    BY <1>1, <1>4, AlignedRead, EmptyRead
  <2> HIDE DEF first, end
  <2>3. QED
    BY <2>1, <2>2
<1> HIDE DEF end
<1>7. Min({pos + len, end}) = upTo
  <2>1. pos + len \in Nat /\ end \in Nat
    BY <1>1, <1>5 DEF end
  <2>2. QED
    BY <2>1, MinPair
<1> DEFINE n == upTo - pos
<1>8. /\ n \in 0..(end - pos) /\ upTo \in Nat /\ pos <= upTo /\ pos + n = upTo
      /\ n = 0 <=> pos = end
  BY <1>1, <1>5 DEF end
<1>9. RaedData(pos, len) = Bytes(pos, upTo)
  BY <1>6, <1>7
<1> HIDE DEF upTo
<1>10. Len(Bytes(pos, upTo)) = n
  BY <1>5, <1>8, BytesSeq
<1>11. RaedResult(pos, len) = n
  BY <1>9, <1>10 DEF RaedResult, ReadFails
<1> HIDE DEF n
<1>12. RaedData(pos, len) = Bytes(pos, pos + n)
  BY <1>8, <1>9
<1>13. n \in 0..(w_char_abs - pos) /\ (n = 0 <=> pos = w_char_abs)
  BY <1>1, <1>8 DEF end
<1>14. QED
  BY <1>11, <1>12, <1>13
=============================================================================
