--------------------------- MODULE AesdCharRaceProofs ---------------------------
(***************************************************************************)
(* Proofs, for every buffer size, any number of readers and one writer, that  *)
(* readers without a lock never harm the writer, and of what a reader gets     *)
(* beside it until a slot is used again.                                      *)
(***************************************************************************)
EXTENDS AesdCharRace, SharedLemmas

-----------------------------------------------------------------------------
(* The inductive invariant *)

\* The places of add_entry: where the unfinished line is still without the chunk
\* of the call, where it is complete, has a slot, is stored in it, has had the
\* start moved for it, is counted.
Growing == {"grow", "alloc", "clear", "carry", "append", "grown"}
Counted == {"chars", "free"}
Moved == Counted \cup {"evicted", "count"}
Stored == Moved \cup {"evict"}
Taking == Stored \cup {"store", "fill", "size"}
Whole == Taking \cup {"target"}
WritePlaces == Growing \cup Whole \cup {"idle"}
ReadPlaces == {"idle", "search", "probe", "past", "take", "load", "copy", "next", "done"}

HeapBlock == [bytes : Seq(Nat), live : BOOLEAN]
WriteCall == [pc : WritePlaces, first : Nat, n : Nat, last : BOOLEAN, old : Nat, size : Nat,
              slot : Nat]
ReadCall == [pc : ReadPlaces, pos : Nat, len : Nat, text : Nat, off : Int, base : Int, i : Int,
             total : Int, ofs : Int, ptr : Nat, size : Nat, data : Seq(Nat)]

RaceTypes ==
  /\ buf \in [w_abs : Nat, start_abs : Nat, w_char_abs : Nat, start_char_abs : Nat]
  /\ entry \in [Slots -> [ptr : Nat, size : Nat]]
  /\ tmp_entry \in [ptr : Nat, size : Nat]
  /\ heap \in Seq(HeapBlock)
  /\ write \in [Writer -> WriteCall]
  /\ accepted \in Nat
  /\ log \in Seq([from : Nat, to : Nat])

\* Where line number i ends in the stream and the next one begins; the line under
\* way ends with the last byte accepted.
LineEnd(i) == IF i = 0 THEN 0 ELSE IF i <= Len(log) THEN log[i].to ELSE accepted

\* The first line kept of n.
Oldest(n) == IF n <= N THEN 0 ELSE n - N

Plus(w, places) == IF write[w].pc \in places THEN 1 ELSE 0
LinesTaken(w) == Len(log) + Plus(w, Taking)
LinesStored(w) == Len(log) + Plus(w, Stored)

\* No slot has been taken a second time.
FirstRound(w) == LinesTaken(w) <= N

\* The committed lines cut the stream; the call under way adds to its end.
Cuts(w) ==
  /\ \A i \in 1..Len(log) : log[i].from = LineEnd(i - 1) /\ LineEnd(i - 1) < LineEnd(i)
  /\ LineEnd(Len(log)) <= accepted
  /\ write[w].pc # "idle" => /\ write[w].n > 0 /\ write[w].first + write[w].n = accepted
                             /\ LineEnd(Len(log)) <= write[w].first

\* How far each counter is.
Counters(w) ==
  /\ buf.w_abs = Len(log) + Plus(w, Counted)
  /\ buf.start_abs = Oldest(Len(log) + Plus(w, Moved))
  /\ buf.w_char_abs = LineEnd(Len(log) + Plus(w, {"free"}))
  /\ write[w].pc = "evicted" => Len(log) >= N
  /\ FirstRound(w) => buf.start_char_abs = 0

Block(ptr, bytes) == ptr \in 1..Len(heap) /\ heap[ptr] = [bytes |-> bytes, live |-> TRUE]
Roomy(ptr, n) == ptr \in 1..Len(heap) /\ Live(ptr) /\ Room(ptr) = n

\* Line number i is complete in its slot.
LineIn(i) ==
  /\ entry[Slot(i)].size = LineEnd(i + 1) - LineEnd(i)
  /\ Block(entry[Slot(i)].ptr, Bytes(LineEnd(i), LineEnd(i + 1)))

\* The slots hold the last lines, but for the one whose slot has been taken.
Ring(w) ==
  /\ \A i \in Oldest(LinesTaken(w))..(LinesStored(w) - 1) : LineIn(i)
  /\ \A s \in Slots : s >= LinesTaken(w) => entry[s] = NoBlock
  /\ write[w].pc \in Taking => write[w].slot = Slot(Len(log))
  /\ write[w].pc = "fill" => Roomy(entry[write[w].slot].ptr, tmp_entry.size)
  /\ write[w].pc = "size" => Block(entry[write[w].slot].ptr, Bytes(LineEnd(Len(log)), accepted))

\* The accumulator, and its old block while the new one is being filled.
Accumulator(w) ==
  LET c == write[w]
      begin == LineEnd(Len(log))
      end == IF c.pc \in Growing THEN c.first ELSE accepted
  IN  /\ tmp_entry.size = end - begin
      /\ c.pc \in {"idle", "grow", "alloc"} /\ begin < end => Block(tmp_entry.ptr, Bytes(begin, end))
      /\ c.pc = "alloc" => c.old = tmp_entry.ptr
      /\ c.pc \in Growing \ {"grow"} => c.size = accepted - begin
      /\ c.pc \in {"clear", "carry"} /\ begin < end => Block(c.old, Bytes(begin, end))
      /\ c.pc = "clear" => c.old # tmp_entry.ptr
      /\ c.pc \in {"clear", "carry", "append"} => Roomy(tmp_entry.ptr, c.size)
      /\ c.pc = "append" =>
           \A k \in 1..tmp_entry.size : heap[tmp_entry.ptr].bytes[k] = begin + k
      /\ c.pc \in Whole \cup {"grown"} => Block(tmp_entry.ptr, Bytes(begin, accepted))

\* No block has two owners, dangling pointers included.
Owners ==
  /\ tmp_entry.ptr <= Len(heap)
  /\ \A s \in Slots :
       /\ entry[s].ptr <= Len(heap)
       /\ entry[s].ptr # 0 => /\ entry[s].ptr # tmp_entry.ptr
                              /\ \A t \in Slots \ {s} : entry[s].ptr # entry[t].ptr

\* A read up to its first byte: i lines are behind it.
Searching(c) ==
  /\ c.pc \in {"search", "probe", "past"} => c.data = <<>> /\ c.ofs = -1
  /\ c.pc = "search" => c.total = 0
  /\ c.pc = "probe" => c.i = 0 \/ c.i \in 1..(buf.w_abs - 1)
  /\ c.pc = "past" => c.i \in 1..buf.w_abs
  /\ c.pc \in {"probe", "past"} => /\ c.base = 0 /\ c.off = c.pos
                                   /\ c.total = LineEnd(c.i) /\ c.total <= c.pos

\* The search has ended, with the offset set or, at the end of the text only, not.
Found(c) ==
  c.pc = "take" =>
    /\ c.i \in 0..buf.w_abs /\ c.data = <<>>
    /\ \/ c.ofs = -1 /\ c.text <= c.pos
       \/ /\ c.ofs \in Nat /\ c.pos = LineEnd(c.i) + c.ofs
          /\ IF c.i = buf.w_abs THEN c.ofs = 0 ELSE c.pos < LineEnd(c.i + 1)

\* The bytes copied so far, up to an offset in line i.
Copying(c) ==
  /\ c.pc \in {"load", "copy", "next"} =>
       /\ c.data = Bytes(c.pos, c.pos + Len(c.data))
       /\ c.ofs \in Nat /\ c.pos + Len(c.data) = LineEnd(c.i) + c.ofs
  /\ c.pc \in {"load", "copy"} =>
       /\ c.i \in 0..(buf.w_abs - 1) /\ LineEnd(c.i) + c.ofs < LineEnd(c.i + 1)
       /\ Len(c.data) < c.len
  /\ c.pc = "copy" => c.ptr = entry[c.i].ptr /\ c.size = entry[c.i].size
  /\ c.pc = "next" => c.i \in 1..buf.w_abs /\ c.ofs = 0

ReadCorrect(c) ==
  /\ c \in ReadCall
  /\ c.pc \notin {"idle", "done"} => c.pos <= c.text /\ c.text <= buf.w_char_abs /\ c.len > 0
  /\ Searching(c) /\ Found(c) /\ Copying(c)
  /\ c.pc = "done" /\ c.pos < c.text =>
       c.data = Bytes(c.pos, c.pos + Len(c.data)) /\ Len(c.data) >= Min({c.len, c.text - c.pos})

\* What goes wrong, if anything, is a reader's doing.
ReaderFaults == {"stray index", "unset offset", "freed block", "past the block"}
Faults(w) ==
  /\ broken \in ReaderFaults \cup {"no"}
  /\ FirstRound(w) /\ broken # "no" =>
       broken = "unset offset" /\ \E r \in Reader : read[r].pc = "take" /\ read[r].pos >= read[r].text

RingInv(w) == RaceTypes /\ Cuts(w) /\ Counters(w) /\ Ring(w) /\ Accumulator(w) /\ Owners
Readers(w) == DOMAIN read = Reader /\ (FirstRound(w) => \A r \in Reader : ReadCorrect(read[r]))
RaceInv(w) == RingInv(w) /\ Readers(w) /\ Faults(w)

-----------------------------------------------------------------------------
(* Blocks *)

LEMMA SeqElements ==
  ASSUME NEW S, NEW s \in Seq(S)
  PROVE  Len(s) \in Nat /\ \A k \in 1..Len(s) : s[k] \in S
OBVIOUS

\* One element of a sequence changes.
LEMMA SeqUpdate ==
  ASSUME NEW S, NEW s \in Seq(S), NEW i \in 1..Len(s), NEW v \in S
  PROVE  /\ [s EXCEPT ![i] = v] \in Seq(S) /\ Len([s EXCEPT ![i] = v]) = Len(s)
         /\ [s EXCEPT ![i] = v][i] = v
         /\ \A j \in 1..Len(s) : j # i => [s EXCEPT ![i] = v][j] = s[j]
OBVIOUS

\* A new block; the others stay.
LEMMA AllocateFacts ==
  ASSUME heap \in Seq(HeapBlock), NEW n \in Nat, Allocate(n)
  PROVE  /\ heap' \in Seq(HeapBlock) /\ Len(heap') = Len(heap) + 1
         /\ \A p \in 1..Len(heap) : heap'[p] = heap[p]
         /\ Fresh \in 1..Len(heap') /\ Len(heap) < Fresh
         /\ heap'[Fresh].live /\ Len(heap'[Fresh].bytes) = n
<1> DEFINE b == [bytes |-> [k \in 1..n |-> Garbage], live |-> TRUE]
<1>1. [k \in 1..n |-> Garbage] \in Seq(Nat) /\ Len([k \in 1..n |-> Garbage]) = n
  BY DEF Garbage
<1>2. b \in HeapBlock /\ b.live /\ Len(b.bytes) = n
  BY <1>1 DEF HeapBlock
<1>3. heap' = Append(heap, b)
  BY DEF Allocate
<1> HIDE DEF b
<1>4. QED
  BY <1>2, <1>3 DEF Fresh

\* A block is given back; the others stay.
LEMMA FreeFacts ==
  ASSUME heap \in Seq(HeapBlock), NEW ptr \in 1..Len(heap), Free(ptr)
  PROVE  /\ heap' \in Seq(HeapBlock) /\ Len(heap') = Len(heap)
         /\ \A p \in 1..Len(heap) : p # ptr => heap'[p] = heap[p]
<1>1. heap' = [heap EXCEPT ![ptr] = [heap[ptr] EXCEPT !.live = FALSE]]
  BY DEF Free
<1>2. heap[ptr] \in HeapBlock
  OBVIOUS
<1>3. [heap[ptr] EXCEPT !.live = FALSE] \in HeapBlock
  BY <1>2 DEF HeapBlock
<1>4. QED
  BY <1>1, <1>3, SeqUpdate

\* A block is written, as a memcpy inside it; the others stay.
LEMMA FillFacts ==
  ASSUME heap \in Seq(HeapBlock), NEW ptr \in 1..Len(heap), Live(ptr),
         NEW at \in Nat, NEW s \in Seq(Nat), Fill(ptr, at, s), at + Len(s) <= Room(ptr)
  PROVE  /\ heap' \in Seq(HeapBlock) /\ Len(heap') = Len(heap)
         /\ \A p \in 1..Len(heap) : p # ptr => heap'[p] = heap[p]
         /\ heap'[ptr].live /\ heap'[ptr].bytes \in Seq(Nat)
         /\ Len(heap'[ptr].bytes) = Room(ptr)
         /\ \A k \in 1..Room(ptr) :
              heap'[ptr].bytes[k] = IF k > at /\ k <= at + Len(s) THEN s[k - at]
                                    ELSE heap[ptr].bytes[k]
<1> DEFINE old == heap[ptr].bytes
           new == [k \in DOMAIN old |-> IF k > at /\ k <= at + Len(s) THEN s[k - at] ELSE old[k]]
<1>1. heap[ptr] \in HeapBlock
  OBVIOUS
<1>2. old \in Seq(Nat) /\ heap[ptr].live
  BY <1>1 DEF HeapBlock, Live
<1>3. Room(ptr) = Len(old) /\ Len(old) \in Nat /\ DOMAIN old = 1..Len(old)
  BY <1>2 DEF Room
<1>4. heap' = [heap EXCEPT ![ptr] = [heap[ptr] EXCEPT !.bytes = new]]
  BY DEF Fill
<1>5. \A k \in 1..Len(old) : k > at /\ k <= at + Len(s) => k - at \in 1..Len(s)
  OBVIOUS
<1>6. new \in [1..Len(old) -> Nat]
  <2> HIDE DEF old
  <2>1. \A k \in 1..Len(old) : old[k] \in Nat
    BY <1>2
  <2>2. \A k \in 1..Len(s) : s[k] \in Nat
    OBVIOUS
  <2>3. QED
    BY <1>3, <1>5, <2>1, <2>2
<1>7. new \in Seq(Nat) /\ Len(new) = Len(old)
  <2> HIDE DEF new, old
  <2>1. QED
    BY <1>3, <1>6
<1>8. \A k \in 1..Len(old) : new[k] = IF k > at /\ k <= at + Len(s) THEN s[k - at] ELSE old[k]
  BY <1>3
<1> DEFINE b == [heap[ptr] EXCEPT !.bytes = new]
<1>9. b \in HeapBlock /\ b.live /\ b.bytes = new
  <2> HIDE DEF new
  <2>1. QED
    BY <1>1, <1>2, <1>7 DEF HeapBlock
<1> HIDE DEF b, new
<1>10. heap' \in Seq(HeapBlock) /\ Len(heap') = Len(heap) /\ heap'[ptr] = b
       /\ \A p \in 1..Len(heap) : p # ptr => heap'[p] = heap[p]
  <2>1. heap' = [heap EXCEPT ![ptr] = b]
    BY <1>4 DEF b
  <2>2. QED
    BY <1>9, <2>1, SeqUpdate
<1>11. QED
  BY <1>3, <1>7, <1>8, <1>9, <1>10

\* The bytes of a block that holds the whole of a range.
LEMMA BytesFacts ==
  ASSUME NEW a \in Nat, NEW b \in Nat, a <= b
  PROVE  /\ Bytes(a, b) \in Seq(Nat) /\ Len(Bytes(a, b)) = b - a
         /\ \A k \in 1..(b - a) : Bytes(a, b)[k] = a + k
BY DEF Bytes

LEMMA ChunkFacts ==
  ASSUME NEW a \in Nat, NEW n \in Nat
  PROVE  /\ Bytes(a, a + n) \in Seq(Nat) /\ Len(Bytes(a, a + n)) = n
         /\ \A k \in 1..n : Bytes(a, a + n)[k] = a + k
<1>1. a + n \in Nat /\ a <= a + n /\ (a + n) - a = n
  OBVIOUS
<1>2. \A b \in Nat : a <= b => /\ Bytes(a, b) \in Seq(Nat) /\ Len(Bytes(a, b)) = b - a
                               /\ \A k \in 1..(b - a) : Bytes(a, b)[k] = a + k
  BY BytesFacts
<1> DEFINE b == a + n
<1> HIDE DEF b
<1>3. b \in Nat /\ a <= b /\ b - a = n
  BY <1>1 DEF b
<1>4. Bytes(a, b) \in Seq(Nat) /\ Len(Bytes(a, b)) = n /\ \A k \in 1..n : Bytes(a, b)[k] = a + k
  BY <1>2, <1>3
<1>5. QED
  BY <1>4 DEF b

\* A sequence that has the bytes of a range in their places is that range.
LEMMA IsBytes ==
  ASSUME NEW a \in Nat, NEW b \in Nat, a <= b, NEW s \in Seq(Nat), Len(s) = b - a,
         \A k \in 1..(b - a) : s[k] = a + k
  PROVE  s = Bytes(a, b)
<1>1. Bytes(a, b) \in Seq(Nat) /\ Len(Bytes(a, b)) = b - a
      /\ \A k \in 1..(b - a) : Bytes(a, b)[k] = a + k
  BY BytesFacts
<1>2. QED
  BY <1>1

\* Reading a block that holds a range.
LEMMA BlockFacts ==
  ASSUME NEW ptr, NEW a \in Nat, NEW b \in Nat, a <= b, Block(ptr, Bytes(a, b))
  PROVE  /\ ptr \in 1..Len(heap) /\ Live(ptr) /\ Room(ptr) = b - a
         /\ \A k \in 1..(b - a) : heap[ptr].bytes[k] = a + k
<1> DEFINE s == Bytes(a, b)
<1>1. Len(s) = b - a /\ \A k \in 1..(b - a) : s[k] = a + k
  BY BytesFacts
<1> HIDE DEF s
<1>2. ptr \in 1..Len(heap) /\ heap[ptr].live /\ heap[ptr].bytes = s
  BY DEF Block, s
<1>3. QED
  BY <1>1, <1>2 DEF Live, Room

-----------------------------------------------------------------------------
(* Lines and slots *)

LEMMA LogTypes ==
  ASSUME RaceTypes
  PROVE  Len(log) \in Nat /\ \A k \in 1..Len(log) : log[k].from \in Nat /\ log[k].to \in Nat
<1>1. log \in Seq([from : Nat, to : Nat])
  BY DEF RaceTypes
<1>2. Len(log) \in Nat /\ \A k \in 1..Len(log) : log[k] \in [from : Nat, to : Nat]
  BY <1>1, SeqElements
<1>3. QED
  BY <1>2

LEMMA LineEndNat ==
  ASSUME RaceTypes, NEW i \in Nat
  PROVE  LineEnd(i) \in Nat
<1>1. Len(log) \in Nat /\ accepted \in Nat
  BY LogTypes DEF RaceTypes
<1>2. \A k \in 1..Len(log) : log[k].to \in Nat
  BY LogTypes
<1>3. CASE i = 0
  BY <1>3 DEF LineEnd
<1>4. CASE i # 0 /\ i <= Len(log)
  <2>1. i \in 1..Len(log)
    BY <1>1, <1>4
  <2>2. LineEnd(i) = log[i].to
    BY <1>4 DEF LineEnd
  <2>3. QED
    BY <1>2, <2>1, <2>2
<1>5. CASE i # 0 /\ ~(i <= Len(log))
  BY <1>1, <1>5 DEF LineEnd
<1>6. QED
  BY <1>3, <1>4, <1>5

\* A line is not empty, nor is the one under way once a chunk of it is accepted.
LEMMA LinesGrow ==
  ASSUME RaceTypes, NEW w \in Writer, Cuts(w)
  PROVE  /\ \A i \in 0..(Len(log) - 1) : LineEnd(i) < LineEnd(i + 1)
         /\ LineEnd(Len(log)) <= accepted
         /\ write[w].pc # "idle" => LineEnd(Len(log)) < accepted
         /\ LineEnd(Len(log) + 1) = accepted
<1>1. Len(log) \in Nat
  BY DEF RaceTypes
<1>2. \A i \in 1..Len(log) : LineEnd(i - 1) < LineEnd(i)
  BY DEF Cuts
<1>3. \A i \in 0..(Len(log) - 1) : LineEnd(i) < LineEnd(i + 1)
  <2>1. SUFFICES ASSUME NEW i \in 0..(Len(log) - 1)
                 PROVE  LineEnd(i) < LineEnd(i + 1)
    OBVIOUS
  <2>2. i + 1 \in 1..Len(log) /\ (i + 1) - 1 = i
    BY <1>1
  <2>3. LineEnd((i + 1) - 1) < LineEnd(i + 1)
    BY <1>2, <2>2
  <2>4. QED
    BY <2>2, <2>3
<1>4. write[w].first \in Nat /\ write[w].n \in Nat /\ LineEnd(Len(log)) \in Nat
  BY <1>1, LineEndNat DEF RaceTypes, WriteCall
<1>5. write[w].pc # "idle" => LineEnd(Len(log)) < accepted
  BY <1>4 DEF Cuts
<1>6. LineEnd(Len(log) + 1) = accepted
  BY <1>1 DEF LineEnd
<1>7. QED
  BY <1>3, <1>5, <1>6 DEF Cuts

LEMMA SlotFacts ==
  /\ \A i \in Int : Slot(i) \in Slots
  /\ \A i \in 0..(N - 1) : Slot(i) = i
  /\ \A i \in Nat : i >= N => Slot(i - N) = Slot(i)
  /\ \A i, j \in Nat : Slot(i) = Slot(j) /\ i - j > -N /\ i - j < N => i = j
<1>1. N \in Nat \ {0} /\ Slots = 0..(N - 1)
  BY RaceAssumption DEF Slots
<1>2. \A i \in Int : Slot(i) \in Slots
  BY <1>1, DivMod DEF Slot
<1>3. \A i \in 0..(N - 1) : Slot(i) = i
  BY <1>1, ModSmall DEF Slot
<1>4. \A i, j \in Nat : Slot(i) = Slot(j) /\ i - j > -N /\ i - j < N => i = j
  BY <1>1, SlotInjective DEF Slot
<1>5. ASSUME NEW i \in Nat, i >= N
      PROVE  Slot(i - N) = Slot(i)
  <2> DEFINE qa == i \div N
             ra == i % N
             qb == (i - N) \div N
             rb == (i - N) % N
  <2>1. /\ i = N * qa + ra /\ ra \in 0..(N - 1) /\ qa \in Int
        /\ i - N = N * qb + rb /\ rb \in 0..(N - 1) /\ qb \in Int
    <3>1. i \in Int /\ i - N \in Int
      BY <1>1
    <3>2. i = N * qa + ra /\ ra \in 0..(N - 1) /\ qa \in Int
      BY <1>1, <3>1, DivMod
    <3>3. i - N = N * qb + rb /\ rb \in 0..(N - 1) /\ qb \in Int
      BY <1>1, <3>1, DivMod
    <3>4. QED
      BY <3>2, <3>3
  <2> HIDE DEF qa, ra, qb, rb
  <2>2. N * (qa - qb - 1) = rb - ra /\ qa - qb - 1 \in Int
    BY <1>1, <2>1
  <2>3. N * (qa - qb - 1) > -N /\ N * (qa - qb - 1) < N
    BY <1>1, <2>1, <2>2
  <2>4. qa - qb - 1 = 0
    BY <1>1, <2>2, <2>3, SmallMultiple
  <2>5. ra = rb
    BY <1>1, <2>1, <2>2, <2>4
  <2>6. QED
    BY <2>5 DEF Slot, ra, rb
<1>6. QED
  BY <1>2, <1>3, <1>4, <1>5

\* The call has moved on to its next place.
LEMMA GoFacts ==
  ASSUME RaceTypes, NEW w \in Writer, NEW p \in WritePlaces, WriteGo(w, p)
  PROVE  /\ write' \in [Writer -> WriteCall]
         /\ write'[w].pc = p /\ write'[w].first = write[w].first /\ write'[w].n = write[w].n
         /\ write'[w].old = write[w].old /\ write'[w].size = write[w].size
         /\ write'[w].slot = write[w].slot
<1>1. write[w] \in WriteCall
  BY DEF RaceTypes
<1>2. [write[w] EXCEPT !.pc = p] \in WriteCall
  BY <1>1 DEF WriteCall
<1>3. write' = [write EXCEPT ![w] = [write[w] EXCEPT !.pc = p]]
  BY DEF WriteGo
<1>4. write' \in [Writer -> WriteCall] /\ write'[w] = [write[w] EXCEPT !.pc = p]
  BY <1>2, <1>3 DEF RaceTypes
<1>5. QED
  BY <1>1, <1>4 DEF WriteCall

\* What the types say of the fields.
LEMMA FieldTypes ==
  ASSUME RaceTypes, NEW w \in Writer
  PROVE  /\ buf.w_abs \in Nat /\ buf.start_abs \in Nat
         /\ buf.w_char_abs \in Nat /\ buf.start_char_abs \in Nat
         /\ tmp_entry.ptr \in Nat /\ tmp_entry.size \in Nat
         /\ \A s \in Slots : entry[s].ptr \in Nat /\ entry[s].size \in Nat
         /\ Len(heap) \in Nat
         /\ \A p \in 1..Len(heap) : heap[p] \in HeapBlock /\ heap[p].bytes \in Seq(Nat)
         /\ write[w].first \in Nat /\ write[w].n \in Nat /\ write[w].old \in Nat
         /\ write[w].size \in Nat /\ write[w].slot \in Nat
<1>1. \A s \in Slots : entry[s] \in [ptr : Nat, size : Nat]
  BY DEF RaceTypes
<1>2. heap \in Seq(HeapBlock)
  BY DEF RaceTypes
<1>3. Len(heap) \in Nat /\ \A p \in 1..Len(heap) : heap[p] \in HeapBlock
  BY <1>2, SeqElements
<1>4. \A p \in 1..Len(heap) : heap[p].bytes \in Seq(Nat)
  BY <1>3 DEF HeapBlock
<1>5. write[w] \in WriteCall
  BY DEF RaceTypes
<1>6. /\ buf.w_abs \in Nat /\ buf.start_abs \in Nat
      /\ buf.w_char_abs \in Nat /\ buf.start_char_abs \in Nat
      /\ tmp_entry.ptr \in Nat /\ tmp_entry.size \in Nat
  BY DEF RaceTypes
<1>7. QED
  BY <1>1, <1>3, <1>4, <1>5, <1>6 DEF WriteCall

-----------------------------------------------------------------------------
(* What a step of the writer leaves alone *)

\* The text that readers go by only grows.
Forward ==
  /\ buf.w_abs <= buf'.w_abs /\ buf.w_char_abs <= buf'.w_char_abs
  /\ \A i \in 0..buf.w_abs : LineEnd(i)' = LineEnd(i)
  /\ \A i \in 0..(buf.w_abs - 1) : entry'[i] = entry[i]
  /\ buf'.w_abs # buf.w_abs =>
       /\ buf'.w_abs = buf.w_abs + 1
       /\ \A i : i = buf.w_abs => LineEnd(i)' < LineEnd(i + 1)'

LEMMA LinesKept ==
  ASSUME log' = log, accepted' = accepted
  PROVE  \A i : LineEnd(i)' = LineEnd(i)
BY DEF LineEnd

\* A call goes on and adds nothing to the stream.
LEMMA CutsKept ==
  ASSUME NEW w \in Writer, Cuts(w), write[w].pc # "idle", log' = log, accepted' = accepted,
         write'[w].n = write[w].n, write'[w].first = write[w].first
  PROVE  Cuts(w)'
BY LinesKept DEF Cuts

\* No block changes hands.
LEMMA OwnersKept ==
  ASSUME RaceTypes, Owners, tmp_entry'.ptr = tmp_entry.ptr, entry' = entry,
         Len(heap') \in Nat, Len(heap) <= Len(heap')
  PROVE  Owners'
<1>1. tmp_entry.ptr \in Nat /\ Len(heap) \in Nat /\ \A s \in Slots : entry[s].ptr \in Nat
  <2>1. \A s \in Slots : entry[s] \in [ptr : Nat, size : Nat]
    BY DEF RaceTypes
  <2>2. heap \in Seq(HeapBlock)
    BY DEF RaceTypes
  <2>3. QED
    BY <2>1, <2>2, SeqElements DEF RaceTypes
<1>2. QED
  BY <1>1 DEF Owners

\* A line whose slot and block are not touched.
LEMMA LineKept ==
  ASSUME NEW i, LineIn(i), entry'[Slot(i)] = entry[Slot(i)],
         Len(heap) \in Nat, Len(heap') \in Nat, Len(heap) <= Len(heap'),
         heap'[entry[Slot(i)].ptr] = heap[entry[Slot(i)].ptr],
         LineEnd(i)' = LineEnd(i), LineEnd(i + 1)' = LineEnd(i + 1)
  PROVE  LineIn(i)'
<1>1. entry[Slot(i)].ptr \in 1..Len(heap')
  BY DEF LineIn, Block
<1>2. Bytes(LineEnd(i), LineEnd(i + 1))' = Bytes(LineEnd(i), LineEnd(i + 1))
  BY DEF Bytes
<1>3. QED
  BY <1>1, <1>2 DEF LineIn, Block

\* The line under way is still being put together, or is complete and has no slot.
LEMMA GrowingFrame ==
  ASSUME NEW w \in Writer, RingInv(w), write[w].pc \in Growing,
         buf' = buf, entry' = entry, log' = log, accepted' = accepted,
         write' \in [Writer -> WriteCall], write'[w].pc \in Growing \cup {"target", "idle"},
         write'[w].n = write[w].n, write'[w].first = write[w].first,
         tmp_entry' \in [ptr : Nat, size : Nat],
         heap' \in Seq(HeapBlock), Len(heap) <= Len(heap'),
         \A p \in 1..Len(heap) : p # tmp_entry.ptr => heap'[p] = heap[p],
         \/ tmp_entry'.ptr = tmp_entry.ptr
         \/ Len(heap) < tmp_entry'.ptr /\ tmp_entry'.ptr <= Len(heap')
  PROVE  /\ RaceTypes' /\ Cuts(w)' /\ Counters(w)' /\ Ring(w)' /\ Owners'
         /\ FirstRound(w)' => FirstRound(w) /\ Forward
         /\ \A i : LineEnd(i)' = LineEnd(i)
<1>1. RaceTypes /\ Cuts(w) /\ Counters(w) /\ Ring(w) /\ Owners
  BY DEF RingInv
<1>2. RaceTypes'
  BY <1>1 DEF RaceTypes
<1>3. \A i : LineEnd(i)' = LineEnd(i)
  BY LinesKept
<1>4. /\ \A P \in {Taking, Stored, Counted, Moved, {"free"}} : Plus(w, P) = 0 /\ Plus(w, P)' = 0
      /\ write[w].pc # "idle" /\ write[w].pc \notin Taking /\ write'[w].pc \notin Taking
      /\ write'[w].pc # "evicted" /\ write'[w].pc # "fill" /\ write'[w].pc # "size"
  BY DEF Plus, Taking, Stored, Counted, Moved, Growing
<1>5. Cuts(w)'
  BY <1>1, <1>4, CutsKept
<1>6. LinesTaken(w)' = LinesTaken(w) /\ LinesStored(w)' = LinesStored(w)
  BY <1>4 DEF LinesTaken, LinesStored
<1>7. Counters(w)'
  BY <1>1, <1>3, <1>4, <1>6 DEF Counters, FirstRound
<1>8. Len(heap) \in Nat /\ Len(heap') \in Nat /\ \A s \in Slots : entry[s].ptr \in Nat
  BY <1>1, <1>2, FieldTypes
<1>9. Owners'
  BY <1>1, <1>2, <1>8, FieldTypes DEF Owners
<1>10. Ring(w)'
  <2>1. ASSUME NEW i \in Oldest(LinesTaken(w))..(LinesStored(w) - 1)
        PROVE  LineIn(i)'
    <3>1. LineIn(i)
      BY <1>1 DEF Ring
    <3>2. Slot(i) \in Slots
      BY SlotFacts, RaceAssumption DEF Slots, Slot
    <3>3. entry[Slot(i)].ptr # tmp_entry.ptr
      BY <1>1, <3>1, <3>2 DEF LineIn, Block, Owners
    <3>4. LineEnd(i)' = LineEnd(i) /\ LineEnd(i + 1)' = LineEnd(i + 1)
      BY <1>3
    <3>5. entry[Slot(i)].ptr \in 1..Len(heap)
      BY <3>1 DEF LineIn, Block
    <3>6. heap'[entry[Slot(i)].ptr] = heap[entry[Slot(i)].ptr] /\ entry'[Slot(i)] = entry[Slot(i)]
      BY <3>3, <3>5
    <3>7. QED
      BY <1>8, <3>1, <3>4, <3>6, LineKept
  <2>2. QED
    BY <1>1, <1>4, <1>6, <2>1 DEF Ring, Oldest
<1>11. FirstRound(w)' => FirstRound(w) /\ Forward
  <2>1. buf.w_abs \in Nat /\ buf.w_char_abs \in Nat
    BY <1>1, FieldTypes
  <2>2. QED
    BY <1>3, <1>6, <2>1 DEF Forward, FirstRound
<1>12. QED
  BY <1>2, <1>3, <1>5, <1>7, <1>9, <1>10, <1>11

\* What every step of the writer preserves: it never touches memory that is not
\* its own, and readers see the text grow.
WriterStep(w) ==
  /\ RingInv(w)'
  /\ FirstRound(w)' => FirstRound(w) /\ Forward
  /\ read' = read /\ broken' = broken

-----------------------------------------------------------------------------
(* The line under way *)

LEMMA StartWriteKeeps ==
  ASSUME NEW w \in Writer, RingInv(w), NEW n \in 1..MaxChunk, NEW last \in BOOLEAN,
         StartWrite(w, n, last)
  PROVE  WriterStep(w)
<1>1. RaceTypes /\ Cuts(w) /\ Counters(w) /\ Ring(w) /\ Accumulator(w) /\ Owners
  BY DEF RingInv
<1>2. /\ UNCHANGED <<buf, entry, tmp_entry, heap, read, log, broken>>
      /\ accepted' = accepted + n /\ write[w].pc = "idle" /\ n \in Nat \ {0}
  BY RaceAssumption DEF StartWrite, WriteAt
<1>3. /\ write' \in [Writer -> WriteCall]
      /\ write'[w].pc = "grow" /\ write'[w].first = accepted /\ write'[w].n = n
  <2>1. accepted \in Nat /\ n \in Nat
    BY <1>1, <1>2 DEF RaceTypes
  <2> DEFINE c == [IdleWrite EXCEPT !.pc = "grow", !.first = accepted, !.n = n, !.last = last]
  <2>2. c \in WriteCall /\ c.pc = "grow" /\ c.first = accepted /\ c.n = n
    BY <2>1 DEF IdleWrite, WriteCall, WritePlaces, Growing
  <2>3. write' = [write EXCEPT ![w] = c]
    BY DEF StartWrite
  <2> HIDE DEF c
  <2>4. QED
    BY <1>1, <2>2, <2>3 DEF RaceTypes
<1>4. RaceTypes'
  BY <1>1, <1>2, <1>3 DEF RaceTypes
<1>5. Len(log) \in Nat /\ accepted \in Nat /\ LineEnd(Len(log)) \in Nat
  BY <1>1, LogTypes, LineEndNat DEF RaceTypes
<1>6. \A i \in 0..Len(log) : LineEnd(i)' = LineEnd(i)
  BY <1>2, <1>5 DEF LineEnd
<1>7. /\ \A P \in {Taking, Stored, Counted, Moved, {"free"}} : Plus(w, P) = 0 /\ Plus(w, P)' = 0
      /\ write'[w].pc \notin Taking /\ write'[w].pc \notin Whole
  BY <1>2, <1>3 DEF Plus, Whole, Taking, Stored, Counted, Moved
<1>8. LinesTaken(w)' = Len(log) /\ LinesStored(w)' = Len(log)
      /\ LinesTaken(w) = Len(log) /\ LinesStored(w) = Len(log)
  BY <1>2, <1>5, <1>7 DEF LinesTaken, LinesStored
<1>9. Cuts(w)'
  <2>1. ASSUME NEW i \in 1..Len(log)
        PROVE  log[i].from = LineEnd(i - 1)' /\ LineEnd(i - 1)' < LineEnd(i)'
    <3>1. i \in 0..Len(log) /\ i - 1 \in 0..Len(log)
      BY <1>5
    <3>2. QED
      BY <1>1, <1>6, <3>1 DEF Cuts
  <2>2. LineEnd(Len(log))' = LineEnd(Len(log)) /\ LineEnd(Len(log)) <= accepted
    BY <1>1, <1>2, <1>5, <1>6 DEF Cuts
  <2>3. Len(log') = Len(log)
    BY <1>2
  <2>4. QED
    BY <1>2, <1>3, <1>5, <2>1, <2>2, <2>3 DEF Cuts
<1>10. Counters(w)'
  <2>1. LineEnd(Len(log) + 0)' = LineEnd(Len(log) + 0)
    BY <1>2, <1>5, <1>6
  <2>2. QED
    BY <1>1, <1>2, <1>3, <1>5, <1>7, <1>8, <2>1 DEF Counters, FirstRound
<1>11. Len(heap) \in Nat
  BY <1>1, FieldTypes
<1>12. Owners'
  BY <1>1, <1>2, <1>11, OwnersKept
<1>13. Ring(w)'
  <2>1. ASSUME NEW i \in Oldest(Len(log))..(Len(log) - 1)
        PROVE  LineIn(i)'
    <3>1. LineIn(i)
      BY <1>1, <1>8 DEF Ring
    <3>2. i \in 0..Len(log) /\ i + 1 \in 0..Len(log)
      BY <1>5, RaceAssumption DEF Oldest
    <3>3. QED
      BY <1>2, <1>6, <1>11, <3>1, <3>2, LineKept
  <2>2. Oldest(Len(log))' = Oldest(Len(log))
    BY <1>2 DEF Oldest
  <2>3. QED
    BY <1>1, <1>2, <1>3, <1>7, <1>8, <2>1, <2>2 DEF Ring, Taking, Stored, Moved, Counted, Oldest
<1>14. Accumulator(w)'
  <2>1. LineEnd(Len(log))' = LineEnd(Len(log))
    BY <1>2, <1>5, <1>6
  <2>2. tmp_entry.size = accepted - LineEnd(Len(log))
        /\ (LineEnd(Len(log)) < accepted => Block(tmp_entry.ptr, Bytes(LineEnd(Len(log)), accepted)))
    BY <1>1, <1>2 DEF Accumulator, Growing
  <2>3. Bytes(LineEnd(Len(log)), accepted)' = Bytes(LineEnd(Len(log)), accepted')
    BY <1>2, <2>1 DEF Bytes
  <2>4. QED
    BY <1>2, <1>3, <1>7, <2>1, <2>2 DEF Accumulator, Growing, Block, Bytes
<1>15. FirstRound(w)' => FirstRound(w) /\ Forward
  <2>1. buf.w_abs \in Nat /\ buf.w_char_abs \in Nat /\ buf.w_abs = Len(log)
    BY <1>1, <1>5, <1>7, FieldTypes DEF Counters
  <2>2. QED
    BY <1>2, <1>6, <1>8, <2>1 DEF Forward, FirstRound
<1>16. QED
  BY <1>2, <1>4, <1>9, <1>10, <1>12, <1>13, <1>14, <1>15 DEF WriterStep, RingInv

LEMMA GrowKeeps ==
  ASSUME NEW w \in Writer, RingInv(w), Grow(w)
  PROVE  WriterStep(w)
<1>1. RaceTypes /\ Cuts(w) /\ Accumulator(w)
  BY DEF RingInv
<1>2. /\ UNCHANGED <<buf, entry, tmp_entry, heap, read, accepted, log, broken>>
      /\ write[w].pc = "grow"
  BY DEF Grow, WriteAt
<1>3. /\ write' \in [Writer -> WriteCall] /\ write'[w].pc = "alloc"
      /\ write'[w].first = write[w].first /\ write'[w].n = write[w].n
      /\ write'[w].old = tmp_entry.ptr /\ write'[w].size = tmp_entry.size + write[w].n
  <2>1. tmp_entry.ptr \in Nat /\ tmp_entry.size \in Nat /\ write[w].n \in Nat
    BY <1>1, FieldTypes
  <2> DEFINE c == [write[w] EXCEPT !.pc = "alloc", !.old = tmp_entry.ptr,
                                   !.size = tmp_entry.size + write[w].n]
  <2>2. write[w] \in WriteCall
    BY <1>1 DEF RaceTypes
  <2>3. /\ c \in WriteCall /\ c.pc = "alloc" /\ c.first = write[w].first /\ c.n = write[w].n
        /\ c.old = tmp_entry.ptr /\ c.size = tmp_entry.size + write[w].n
    <3>1. "alloc" \in WritePlaces
      BY DEF WritePlaces, Growing
    <3>2. tmp_entry.size + write[w].n \in Nat
      BY <2>1
    <3>3. QED
      BY <2>1, <2>2, <3>1, <3>2 DEF WriteCall
  <2>4. write' = [write EXCEPT ![w] = c]
    BY DEF Grow
  <2> HIDE DEF c
  <2>5. QED
    BY <1>1, <2>3, <2>4 DEF RaceTypes
<1>4. /\ RaceTypes' /\ Cuts(w)' /\ Counters(w)' /\ Ring(w)' /\ Owners'
      /\ FirstRound(w)' => FirstRound(w) /\ Forward
      /\ \A i : LineEnd(i)' = LineEnd(i)
  BY <1>1, <1>2, <1>3, FieldTypes, GrowingFrame DEF Growing, RaceTypes
<1>5. Accumulator(w)'
  <2> DEFINE begin == LineEnd(Len(log))
             c == write[w]
  <2>1. begin' = begin
    BY <1>2, <1>4
  <2>2. tmp_entry.size = c.first - begin
        /\ (begin < c.first => Block(tmp_entry.ptr, Bytes(begin, c.first)))
    BY <1>1, <1>2 DEF Accumulator, Growing
  <2>3. c.first \in Nat /\ c.n \in Nat /\ c.first + c.n = accepted /\ begin \in Nat
    BY <1>1, <1>2, FieldTypes, LogTypes, LineEndNat DEF Cuts
  <2>4. tmp_entry.size + c.n = accepted - begin
    <3> HIDE DEF begin, c
    <3>1. QED
      BY <2>2, <2>3
  <2>5. write'[w].first = c.first /\ write'[w].pc = "alloc"
        /\ write'[w].old = tmp_entry.ptr /\ write'[w].size = accepted - begin
    BY <1>3, <2>4
  <2>6. Bytes(begin, c.first)' = Bytes(begin, c.first)
    BY <1>3, <2>1 DEF Bytes
  <2>7. QED
    BY <1>2, <2>1, <2>2, <2>5 DEF Accumulator, Growing, Whole, Taking, Stored, Moved, Counted, Block, Bytes
<1>6. QED
  BY <1>2, <1>4, <1>5 DEF WriterStep, RingInv

LEMMA AllocTmpKeeps ==
  ASSUME NEW w \in Writer, RingInv(w), AllocTmp(w)
  PROVE  WriterStep(w)
<1>1. RaceTypes /\ Cuts(w) /\ Accumulator(w) /\ write[w].size \in Nat /\ heap \in Seq(HeapBlock)
  BY FieldTypes DEF RingInv, RaceTypes
<1>2. /\ UNCHANGED <<buf, entry, read, accepted, log, broken>>
      /\ Allocate(write[w].size) /\ tmp_entry' = [tmp_entry EXCEPT !.ptr = Fresh]
      /\ write[w].pc = "alloc" /\ WriteGo(w, "clear")
  BY DEF AllocTmp, WriteAt
<1>3. /\ write' \in [Writer -> WriteCall] /\ write'[w].pc = "clear"
      /\ write'[w].first = write[w].first /\ write'[w].n = write[w].n
      /\ write'[w].old = write[w].old /\ write'[w].size = write[w].size
  BY <1>1, <1>2, GoFacts DEF WritePlaces, Growing
<1>4. /\ heap' \in Seq(HeapBlock) /\ Len(heap') = Len(heap) + 1
      /\ \A p \in 1..Len(heap) : heap'[p] = heap[p]
      /\ Fresh \in 1..Len(heap') /\ Len(heap) < Fresh
      /\ heap'[Fresh].live /\ Len(heap'[Fresh].bytes) = write[w].size
  BY <1>1, <1>2, AllocateFacts
<1>5. Len(heap) \in Nat /\ Len(heap') \in Nat
  BY <1>1, <1>4, FieldTypes
<1>6. /\ tmp_entry' \in [ptr : Nat, size : Nat]
      /\ tmp_entry'.ptr = Fresh /\ tmp_entry'.size = tmp_entry.size
  BY <1>1, <1>2, <1>5 DEF RaceTypes, Fresh
<1>7. /\ RaceTypes' /\ Cuts(w)' /\ Counters(w)' /\ Ring(w)' /\ Owners'
      /\ FirstRound(w)' => FirstRound(w) /\ Forward
      /\ \A i : LineEnd(i)' = LineEnd(i)
  BY <1>2, <1>3, <1>4, <1>5, <1>6, GrowingFrame DEF Growing
<1>8. Accumulator(w)'
  <2> DEFINE begin == LineEnd(Len(log))
             c == write[w]
  <2>1. begin' = begin
    BY <1>2, <1>7
  <2>2. /\ tmp_entry.size = c.first - begin /\ c.old = tmp_entry.ptr /\ c.size = accepted - begin
        /\ begin < c.first => Block(c.old, Bytes(begin, c.first))
    BY <1>1, <1>2 DEF Accumulator, Growing
  <2>3. begin < c.first => /\ c.old \in 1..Len(heap')
                           /\ heap'[c.old] = [bytes |-> Bytes(begin, c.first), live |-> TRUE]
    BY <1>4, <1>5, <2>2 DEF Block
  <2>4. Bytes(begin, c.first)' = Bytes(begin, c.first)
    BY <1>3, <2>1 DEF Bytes
  <2>5. Roomy(tmp_entry.ptr, c.size)'
    BY <1>3, <1>4, <1>6 DEF Roomy, Live, Room
  <2>6. c.old # tmp_entry'.ptr
    <3>1. tmp_entry.ptr <= Len(heap) /\ tmp_entry.ptr \in Nat
      BY <1>1, FieldTypes DEF RingInv, Owners
    <3>2. QED
      BY <1>4, <1>5, <1>6, <2>2, <3>1 DEF Fresh
  <2> HIDE DEF begin
  <2>7. QED
    BY <1>2, <1>3, <1>6, <2>1, <2>2, <2>3, <2>4, <2>5, <2>6 DEF Accumulator, begin,
                                                          Growing, Whole, Taking, Stored, Moved, Counted, Block, Bytes
<1>9. QED
  BY <1>2, <1>7, <1>8 DEF WriterStep, RingInv

LEMMA ClearTmpKeeps ==
  ASSUME NEW w \in Writer, RingInv(w), ClearTmp(w)
  PROVE  WriterStep(w)
<1> DEFINE begin == LineEnd(Len(log))
           c == write[w]
           to == tmp_entry.ptr
           z == [k \in 1..c.size |-> Garbage]
<1>1. RaceTypes /\ Cuts(w) /\ Accumulator(w) /\ heap \in Seq(HeapBlock)
  BY DEF RingInv, RaceTypes
<1>2. /\ UNCHANGED <<buf, entry, tmp_entry, read, accepted, log>>
      /\ c.pc = "clear" /\ WriteGo(w, "carry")
  BY DEF ClearTmp, WriteAt
<1>3. /\ write' \in [Writer -> WriteCall] /\ write'[w].pc = "carry"
      /\ write'[w].first = c.first /\ write'[w].n = c.n /\ write'[w].size = c.size
      /\ write'[w].old = c.old
  BY <1>1, <1>2, GoFacts DEF WritePlaces, Growing
<1>4. /\ tmp_entry.size = c.first - begin /\ c.size = accepted - begin /\ Roomy(to, c.size)
      /\ begin < c.first => Block(c.old, Bytes(begin, c.first))
      /\ c.old # to
  BY <1>1, <1>2 DEF Accumulator, Growing
<1>5. c.size \in Nat /\ z \in Seq(Nat) /\ Len(z) = c.size
  <2>1. c.size \in Nat
    BY <1>1, FieldTypes
  <2> HIDE DEF c
  <2>2. QED
    BY <2>1 DEF Garbage
<1> HIDE DEF begin, c, to, z
<1>6. to \in 1..Len(heap) /\ Live(to) /\ Room(to) = c.size
  BY <1>4 DEF Roomy
<1>7. Fill(to, 0, z) /\ broken' = broken
  <2>1. ~(c.size > Room(to))
    BY <1>5, <1>6
  <2>2. QED
    BY <1>6, <2>1 DEF ClearTmp, c, to, z
<1>8. /\ heap' \in Seq(HeapBlock) /\ Len(heap') = Len(heap)
      /\ \A p \in 1..Len(heap) : p # to => heap'[p] = heap[p]
      /\ heap'[to].live /\ Len(heap'[to].bytes) = Room(to)
  <2>1. 0 + Len(z) <= Room(to) /\ 0 \in Nat
    BY <1>5, <1>6
  <2>2. QED
    BY <1>1, <1>5, <1>6, <1>7, <2>1, FillFacts
<1>9. /\ RaceTypes' /\ Cuts(w)' /\ Counters(w)' /\ Ring(w)' /\ Owners'
      /\ FirstRound(w)' => FirstRound(w) /\ Forward
      /\ \A i : LineEnd(i)' = LineEnd(i)
  BY <1>1, <1>2, <1>3, <1>8, FieldTypes, GrowingFrame DEF Growing, RaceTypes, c, to
<1>10. Accumulator(w)'
  <2>1. begin' = begin
    BY <1>2, <1>9 DEF begin
  <2>2. Roomy(to, c.size)' /\ to' = to
    BY <1>2, <1>3, <1>6, <1>8 DEF Roomy, Live, Room, to, c
  <2>3. begin < c.first => /\ c.old \in 1..Len(heap')
                           /\ heap'[c.old] = [bytes |-> Bytes(begin, c.first), live |-> TRUE]
    BY <1>4, <1>8 DEF Block
  <2>4. QED
    BY <1>2, <1>3, <1>4, <2>1, <2>2, <2>3 DEF Accumulator, begin, to, c, Block, Bytes,
                                              Growing, Whole, Taking, Stored, Moved, Counted
<1>11. QED
  BY <1>2, <1>7, <1>9, <1>10 DEF WriterStep, RingInv

\* The part of a sequence up to k.
LEMMA FrontFacts ==
  ASSUME NEW s \in Seq(Nat), NEW k \in Nat, k <= Len(s)
  PROVE  /\ SubSeq(s, 1, k) \in Seq(Nat) /\ Len(SubSeq(s, 1, k)) = k
         /\ \A j \in 1..k : SubSeq(s, 1, k)[j] = s[j]
OBVIOUS

LEMMA CarryKeeps ==
  ASSUME NEW w \in Writer, RingInv(w), Carry(w)
  PROVE  WriterStep(w)
<1> DEFINE begin == LineEnd(Len(log))
           c == write[w]
           to == tmp_entry.ptr
           k == tmp_entry.size
<1>1. RaceTypes /\ Cuts(w) /\ Accumulator(w) /\ heap \in Seq(HeapBlock)
  BY DEF RingInv, RaceTypes
<1>2. /\ UNCHANGED <<buf, entry, tmp_entry, read, accepted, log>>
      /\ c.pc = "carry" /\ WriteGo(w, "append")
  BY DEF Carry, WriteAt
<1>3. /\ write' \in [Writer -> WriteCall] /\ write'[w].pc = "append"
      /\ write'[w].first = c.first /\ write'[w].n = c.n /\ write'[w].size = c.size
  BY <1>1, <1>2, GoFacts DEF WritePlaces, Growing
<1>4. /\ k = c.first - begin /\ c.size = accepted - begin /\ Roomy(to, c.size)
      /\ begin < c.first => Block(c.old, Bytes(begin, c.first))
  BY <1>1, <1>2 DEF Accumulator, Growing
<1>5. /\ begin \in Nat /\ c.first \in Nat /\ begin <= c.first /\ k \in Nat /\ c.size \in Nat
      /\ k <= c.size
  <2>1. /\ begin \in Nat /\ c.first \in Nat /\ c.n \in Nat /\ c.size \in Nat /\ k \in Nat
    BY <1>1, FieldTypes, LogTypes, LineEndNat
  <2>2. begin <= c.first /\ c.first + c.n = accepted
    BY <1>1, <1>2 DEF Cuts
  <2> HIDE DEF begin, c, k
  <2>3. QED
    BY <1>4, <2>1, <2>2
<1> HIDE DEF begin, c, to, k
<1>6. to \in 1..Len(heap) /\ Live(to) /\ Room(to) = c.size
  BY <1>4 DEF Roomy
<1>7. /\ heap' \in Seq(HeapBlock) /\ Len(heap') = Len(heap) /\ broken' = broken
      /\ \A p \in 1..Len(heap) : p # to => heap'[p] = heap[p]
      /\ heap'[to].live /\ Len(heap'[to].bytes) = c.size
      /\ \A j \in 1..k : heap'[to].bytes[j] = begin + j
  <2>1. CASE k = 0
    <3>1. heap' = heap /\ broken' = broken
      BY <2>1 DEF Carry, k
    <3>2. QED
      BY <1>1, <1>6, <2>1, <3>1 DEF Live, Room
  <2>2. CASE k # 0
    <3>1. begin < c.first /\ Block(c.old, Bytes(begin, c.first))
      BY <1>4, <1>5, <2>2
    <3>2. /\ c.old \in 1..Len(heap) /\ Live(c.old) /\ Room(c.old) = k
          /\ \A j \in 1..k : heap[c.old].bytes[j] = begin + j
      BY <1>4, <1>5, <3>1, BlockFacts
    <3> DEFINE s == SubSeq(heap[c.old].bytes, 1, k)
    <3>3. Fill(to, 0, s) /\ broken' = broken
      <4>1. c.old # 0 /\ ~(k > Room(c.old)) /\ ~(k > Room(to))
        BY <1>1, <1>5, <1>6, <3>2, FieldTypes
      <4>2. QED
        BY <1>6, <2>2, <3>2, <4>1 DEF Carry, c, k, to
    <3>4. heap[c.old].bytes \in Seq(Nat) /\ Len(heap[c.old].bytes) = k
      BY <1>1, <3>2, FieldTypes DEF Room
    <3>5. s \in Seq(Nat) /\ Len(s) = k /\ \A j \in 1..k : s[j] = begin + j
      BY <1>5, <3>2, <3>4, FrontFacts
    <3> HIDE DEF s
    <3>6. /\ heap' \in Seq(HeapBlock) /\ Len(heap') = Len(heap)
          /\ \A p \in 1..Len(heap) : p # to => heap'[p] = heap[p]
          /\ heap'[to].live /\ Len(heap'[to].bytes) = c.size
          /\ \A j \in 1..c.size : heap'[to].bytes[j] = IF j > 0 /\ j <= 0 + k THEN s[j - 0]
                                                        ELSE heap[to].bytes[j]
      <4>1. 0 + Len(s) <= Room(to) /\ 0 \in Nat
        BY <1>5, <1>6, <3>5
      <4>2. \A j \in 1..Room(to) :
              heap'[to].bytes[j] = IF j > 0 /\ j <= 0 + Len(s) THEN s[j - 0] ELSE heap[to].bytes[j]
        BY <1>1, <1>6, <3>3, <3>5, <4>1, FillFacts
      <4>3. /\ heap' \in Seq(HeapBlock) /\ Len(heap') = Len(heap)
            /\ \A p \in 1..Len(heap) : p # to => heap'[p] = heap[p]
            /\ heap'[to].live /\ Len(heap'[to].bytes) = Room(to)
        BY <1>1, <1>6, <3>3, <3>5, <4>1, FillFacts
      <4>4. QED
        BY <1>6, <3>5, <4>2, <4>3
    <3>7. \A j \in 1..k : heap'[to].bytes[j] = begin + j
      <4>1. \A j \in 1..k : j \in 1..c.size /\ j > 0 /\ j <= 0 + k /\ j - 0 = j
        BY <1>5
      <4>2. QED
        BY <3>5, <3>6, <4>1
    <3>8. QED
      BY <3>3, <3>6, <3>7
  <2>3. QED
    BY <2>1, <2>2
<1>8. /\ RaceTypes' /\ Cuts(w)' /\ Counters(w)' /\ Ring(w)' /\ Owners'
      /\ FirstRound(w)' => FirstRound(w) /\ Forward
      /\ \A i : LineEnd(i)' = LineEnd(i)
  BY <1>1, <1>2, <1>3, <1>7, FieldTypes, GrowingFrame DEF Growing, RaceTypes, c, to
<1>9. Accumulator(w)'
  <2>1. begin' = begin
    BY <1>2, <1>8 DEF begin
  <2>2. Roomy(to, c.size)' /\ to' = to /\ k' = k
    BY <1>2, <1>3, <1>6, <1>7 DEF Roomy, Live, Room, to, c, k
  <2>3. QED
    BY <1>2, <1>3, <1>4, <1>7, <2>1, <2>2 DEF Accumulator, begin, k, to, c,
                                              Growing, Whole, Taking, Stored, Moved, Counted
<1>10. QED
  BY <1>2, <1>7, <1>8, <1>9 DEF WriterStep, RingInv

LEMMA AppendChunkKeeps ==
  ASSUME NEW w \in Writer, RingInv(w), AppendChunk(w)
  PROVE  WriterStep(w)
<1> DEFINE begin == LineEnd(Len(log))
           c == write[w]
           to == tmp_entry.ptr
           k == tmp_entry.size
           s == Bytes(c.first, c.first + c.n)
<1>1. RaceTypes /\ Cuts(w) /\ Accumulator(w) /\ heap \in Seq(HeapBlock)
  BY DEF RingInv, RaceTypes
<1>2. /\ UNCHANGED <<buf, entry, tmp_entry, read, accepted, log>>
      /\ c.pc = "append" /\ WriteGo(w, "grown")
  BY DEF AppendChunk, WriteAt
<1>3. /\ write' \in [Writer -> WriteCall] /\ write'[w].pc = "grown"
      /\ write'[w].first = c.first /\ write'[w].n = c.n /\ write'[w].size = c.size
  BY <1>1, <1>2, GoFacts DEF WritePlaces, Growing
<1>4. /\ k = c.first - begin /\ c.size = accepted - begin /\ Roomy(to, c.size)
      /\ \A j \in 1..k : heap[to].bytes[j] = begin + j
  BY <1>1, <1>2 DEF Accumulator, Growing
<1>5. /\ begin \in Nat /\ c.first \in Nat /\ c.n \in Nat /\ k \in Nat /\ c.size \in Nat
      /\ accepted \in Nat
  BY <1>1, FieldTypes, LogTypes, LineEndNat DEF RaceTypes
<1>6. begin <= c.first /\ c.first + c.n = accepted
  BY <1>1, <1>2 DEF Cuts
<1>7. s \in Seq(Nat) /\ Len(s) = c.n /\ \A j \in 1..c.n : s[j] = c.first + j
  BY <1>5, ChunkFacts
<1> HIDE DEF begin, c, to, k, s
<1>8. to \in 1..Len(heap) /\ Live(to) /\ Room(to) = c.size
  BY <1>4 DEF Roomy
<1>9. k + Len(s) <= Room(to) /\ k + c.n = c.size
  <2>1. k = c.first - begin /\ c.size = accepted - begin
    BY <1>4
  <2>2. k + c.n = c.size
    <3>1. (c.first - begin) + c.n = (c.first + c.n) - begin
      BY <1>5
    <3>2. QED
      BY <1>6, <2>1, <3>1
  <2>3. QED
    BY <1>5, <1>7, <1>8, <2>2
<1>10. Fill(to, k, s) /\ broken' = broken
  <2>1. ~(k + c.n > Room(to))
    BY <1>5, <1>8, <1>9
  <2>2. QED
    BY <1>8, <2>1 DEF AppendChunk, c, k, to, s
<1>11. /\ heap' \in Seq(HeapBlock) /\ Len(heap') = Len(heap)
       /\ \A p \in 1..Len(heap) : p # to => heap'[p] = heap[p]
       /\ heap'[to].live /\ heap'[to].bytes \in Seq(Nat) /\ Len(heap'[to].bytes) = Room(to)
  BY <1>1, <1>5, <1>7, <1>8, <1>9, <1>10, FillFacts
<1>12. \A j \in 1..Room(to) : heap'[to].bytes[j] = IF j > k /\ j <= k + Len(s) THEN s[j - k]
                                                    ELSE heap[to].bytes[j]
  BY <1>1, <1>5, <1>7, <1>8, <1>9, <1>10, FillFacts
<1>13. ASSUME NEW j \in 1..(accepted - begin)
       PROVE  heap'[to].bytes[j] = begin + j
  <2>1. j \in 1..Room(to)
    BY <1>4, <1>8
  <2>2. CASE j <= k
    <3>1. j \in 1..k /\ ~(j > k)
      BY <1>5, <2>2
    <3>2. QED
      BY <1>4, <1>12, <2>1, <3>1
  <2>3. CASE ~(j <= k)
    <3>1. j - k \in 1..c.n /\ j > k /\ j <= k + Len(s) /\ c.first + (j - k) = begin + j
      <4>1. k = c.first - begin /\ c.size = accepted - begin /\ Len(s) = c.n
        BY <1>4, <1>7
      <4>2. j \in Nat /\ j <= accepted - begin /\ k < j
        BY <1>5, <2>3
      <4>3. QED
        BY <1>5, <1>9, <4>1, <4>2
    <3>2. QED
      BY <1>7, <1>12, <2>1, <3>1
  <2>4. QED
    BY <2>2, <2>3
<1>14. Block(to, Bytes(begin, accepted))'
  <2>1. heap'[to].bytes = Bytes(begin, accepted)
    <3>1. begin <= accepted /\ Len(heap'[to].bytes) = accepted - begin
      BY <1>4, <1>5, <1>6, <1>8, <1>11
    <3>2. QED
      BY <1>5, <1>11, <1>13, <3>1, IsBytes
  <2>2. heap'[to] \in HeapBlock
    BY <1>8, <1>11, SeqElements
  <2>3. heap'[to] = [bytes |-> Bytes(begin, accepted), live |-> TRUE]
    BY <1>11, <2>1, <2>2 DEF HeapBlock
  <2>4. Bytes(begin, accepted)' = Bytes(begin, accepted) /\ to' = to
    BY <1>2, LinesKept DEF Bytes, begin, to
  <2>5. QED
    BY <1>8, <1>11, <2>3, <2>4 DEF Block
<1>15. /\ RaceTypes' /\ Cuts(w)' /\ Counters(w)' /\ Ring(w)' /\ Owners'
       /\ FirstRound(w)' => FirstRound(w) /\ Forward
       /\ \A i : LineEnd(i)' = LineEnd(i)
  BY <1>1, <1>2, <1>3, <1>11, FieldTypes, GrowingFrame DEF Growing, RaceTypes, c, to
<1>16. Accumulator(w)'
  <2>1. begin' = begin /\ to' = to /\ k' = k
    BY <1>2, <1>15 DEF begin, to, k
  <2>2. QED
    BY <1>2, <1>3, <1>4, <1>14, <2>1 DEF Accumulator, begin, k, to, c,
                                         Growing, Whole, Taking, Stored, Moved, Counted
<1>17. QED
  BY <1>2, <1>10, <1>15, <1>16 DEF WriterStep, RingInv

LEMMA AfterPlaces ==
  /\ After("grown") = "target" /\ After("target") = "store" /\ After("store") = "fill"
  /\ After("fill") = "size" /\ After("size") = "evict" /\ After("evict") = "evicted"
  /\ After("evicted") = "count" /\ After("count") = "chars" /\ After("chars") = "free"
BY DEF After

LEMMA GrownKeeps ==
  ASSUME NEW w \in Writer, RingInv(w), Grown(w)
  PROVE  WriterStep(w)
<1>1. RaceTypes /\ Cuts(w) /\ Accumulator(w) /\ heap \in Seq(HeapBlock) /\ write[w].size \in Nat
  BY FieldTypes DEF RingInv, RaceTypes
<1>2. /\ UNCHANGED <<buf, entry, heap, read, accepted, log, broken>>
      /\ write[w].pc = "grown" /\ tmp_entry' = [tmp_entry EXCEPT !.size = write[w].size]
      /\ WriteGo(w, "target") \/ WriteGo(w, "idle")
  BY AfterPlaces DEF Grown, WriteAt, WriteNext
<1>3. /\ write' \in [Writer -> WriteCall] /\ write'[w].pc \in {"target", "idle"}
      /\ write'[w].first = write[w].first /\ write'[w].n = write[w].n
  <2>1. {"target", "idle"} \subseteq WritePlaces
    BY DEF WritePlaces, Whole
  <2>2. QED
    BY <1>1, <1>2, <2>1, GoFacts
<1>4. /\ tmp_entry' \in [ptr : Nat, size : Nat]
      /\ tmp_entry'.ptr = tmp_entry.ptr /\ tmp_entry'.size = write[w].size
  BY <1>1, <1>2 DEF RaceTypes
<1>5. Len(heap) \in Nat
  BY <1>1, FieldTypes
<1>6. /\ RaceTypes' /\ Cuts(w)' /\ Counters(w)' /\ Ring(w)' /\ Owners'
      /\ FirstRound(w)' => FirstRound(w) /\ Forward
      /\ \A i : LineEnd(i)' = LineEnd(i)
  BY <1>1, <1>2, <1>3, <1>4, <1>5, GrowingFrame DEF Growing
<1>7. Accumulator(w)'
  <2>1. LineEnd(Len(log))' = LineEnd(Len(log))
    BY <1>2, <1>6
  <2>2. Block(tmp_entry.ptr, Bytes(LineEnd(Len(log)), accepted))
        /\ write[w].size = accepted - LineEnd(Len(log))
    BY <1>1, <1>2 DEF Accumulator, Growing
  <2>3. Block(tmp_entry.ptr, Bytes(LineEnd(Len(log)), accepted))'
    BY <1>2, <1>4, <2>1, <2>2 DEF Block, Bytes
  <2>4. QED
    BY <1>2, <1>3, <1>4, <2>1, <2>2, <2>3 DEF Accumulator, Growing
<1>8. QED
  BY <1>2, <1>6, <1>7 DEF WriterStep, RingInv

-----------------------------------------------------------------------------
(* Storing the line *)

\* The line is complete in the accumulator, which is read only.
LEMMA WholeFrame ==
  ASSUME NEW w \in Writer, RingInv(w), write[w].pc \in Whole,
         tmp_entry' = tmp_entry, log' = log, accepted' = accepted,
         write'[w].pc \in Whole, write'[w].n = write[w].n, write'[w].first = write[w].first,
         heap' \in Seq(HeapBlock), Len(heap) <= Len(heap'),
         heap'[tmp_entry.ptr] = heap[tmp_entry.ptr]
  PROVE  /\ Cuts(w)' /\ Accumulator(w)'
         /\ \A i : LineEnd(i)' = LineEnd(i)
<1>1. RaceTypes /\ Cuts(w) /\ Accumulator(w)
  BY DEF RingInv
<1>2. \A i : LineEnd(i)' = LineEnd(i)
  BY LinesKept
<1>3. /\ write[w].pc \notin Growing \cup {"idle"} /\ write'[w].pc \notin Growing \cup {"idle"}
  BY DEF Whole, Taking, Stored, Moved, Counted, Growing
<1>4. Cuts(w)'
  BY <1>1, <1>3, CutsKept
<1>5. LineEnd(Len(log))' = LineEnd(Len(log)) /\ Len(heap) \in Nat /\ Len(heap') \in Nat
  BY <1>1, <1>2, FieldTypes, SeqElements
<1>6. /\ tmp_entry.size = accepted - LineEnd(Len(log))
      /\ Block(tmp_entry.ptr, Bytes(LineEnd(Len(log)), accepted))
  BY <1>1, <1>3 DEF Accumulator
<1>7. Block(tmp_entry.ptr, Bytes(LineEnd(Len(log)), accepted))'
  BY <1>5, <1>6 DEF Block, Bytes
<1>8. Accumulator(w)'
  BY <1>3, <1>5, <1>6, <1>7 DEF Accumulator, Growing
<1>9. QED
  BY <1>2, <1>4, <1>8

\* The whole line, as the accumulator and the counts have it.
LEMMA WholeFacts ==
  ASSUME NEW w \in Writer, RingInv(w), write[w].pc \in Whole
  PROVE  /\ Len(log) \in Nat /\ LineEnd(Len(log)) \in Nat /\ accepted \in Nat
         /\ LineEnd(Len(log)) < accepted /\ LineEnd(Len(log) + 1) = accepted
         /\ tmp_entry.size = accepted - LineEnd(Len(log))
         /\ Block(tmp_entry.ptr, Bytes(LineEnd(Len(log)), accepted))
         /\ tmp_entry.ptr \in 1..Len(heap) /\ Live(tmp_entry.ptr)
         /\ Room(tmp_entry.ptr) = tmp_entry.size
         /\ \A k \in 1..tmp_entry.size : heap[tmp_entry.ptr].bytes[k] = LineEnd(Len(log)) + k
<1>1. RaceTypes /\ Cuts(w) /\ Accumulator(w)
  BY DEF RingInv
<1>2. write[w].pc \notin Growing \cup {"idle"}
  BY DEF Whole, Taking, Stored, Moved, Counted, Growing
<1>3. Len(log) \in Nat /\ LineEnd(Len(log)) \in Nat /\ accepted \in Nat
  BY <1>1, LogTypes, LineEndNat DEF RaceTypes
<1>4. LineEnd(Len(log)) < accepted /\ LineEnd(Len(log) + 1) = accepted
  BY <1>1, <1>2, LinesGrow
<1>5. /\ tmp_entry.size = accepted - LineEnd(Len(log))
      /\ Block(tmp_entry.ptr, Bytes(LineEnd(Len(log)), accepted))
  BY <1>1, <1>2 DEF Accumulator
<1>6. QED
  BY <1>3, <1>4, <1>5, BlockFacts

\* A line that is kept shares no slot with the one that comes.
LEMMA OtherSlot ==
  ASSUME NEW n \in Nat, NEW i \in Oldest(n + 1)..(n - 1)
  PROVE  Slot(i) \in Slots /\ Slot(n) \in Slots /\ Slot(i) # Slot(n)
<1>1. N \in Nat \ {0} /\ i \in Nat /\ i - n > -N /\ i - n < N /\ i # n
  BY RaceAssumption DEF Oldest
<1>2. QED
  BY <1>1, SlotFacts

\* A step that takes or fills the slot of the line: the kept lines stay because
\* their slots and their blocks are others.
LEMMA KeptLines ==
  ASSUME NEW w \in Writer, RingInv(w), log' = log, accepted' = accepted,
         heap' \in Seq(HeapBlock), Len(heap) <= Len(heap'),
         \A s \in Slots : s # Slot(Len(log)) => entry'[s] = entry[s],
         \A p \in 1..Len(heap) : p # entry[Slot(Len(log))].ptr => heap'[p] = heap[p]
  PROVE  \A i \in Oldest(Len(log) + 1)..(Len(log) - 1) : LineIn(i)'
<1>1. SUFFICES ASSUME NEW i \in Oldest(Len(log) + 1)..(Len(log) - 1)
               PROVE  LineIn(i)'
  OBVIOUS
<1>2. RaceTypes /\ Ring(w) /\ Owners
  BY DEF RingInv
<1>3. Len(log) \in Nat /\ Len(heap) \in Nat /\ Len(heap') \in Nat
  BY <1>2, LogTypes, FieldTypes, SeqElements
<1>4. LineIn(i)
  <2>1. i \in Oldest(LinesTaken(w))..(LinesStored(w) - 1)
    <3>1. Plus(w, Taking) \in 0..1 /\ Plus(w, Stored) \in 0..1
      BY DEF Plus
    <3> DEFINE a == Plus(w, Taking)
               b == Plus(w, Stored)
               n == Len(log)
    <3>2. a \in 0..1 /\ b \in 0..1 /\ n \in Nat /\ N \in Nat /\ i \in Oldest(n + 1)..(n - 1)
      BY <1>3, <3>1, RaceAssumption
    <3> HIDE DEF a, b, n
    <3>3. /\ Oldest(n + 1) = IF n + 1 <= N THEN 0 ELSE (n + 1) - N
          /\ Oldest(n + a) = IF n + a <= N THEN 0 ELSE (n + a) - N
      BY DEF Oldest
    <3>4. Oldest(n + a) \in Nat /\ Oldest(n + 1) \in Nat /\ Oldest(n + a) <= Oldest(n + 1)
      BY <3>2, <3>3
    <3>5. i \in Oldest(n + a)..((n + b) - 1)
      BY <3>2, <3>4
    <3>6. QED
      BY <3>5 DEF LinesTaken, LinesStored, a, b, n
  <2>2. QED
    BY <1>2, <2>1 DEF Ring
<1>5. Slot(i) \in Slots /\ Slot(Len(log)) \in Slots /\ Slot(i) # Slot(Len(log))
  BY <1>3, OtherSlot
<1>6. entry[Slot(i)].ptr \in 1..Len(heap)
  BY <1>4 DEF LineIn, Block
<1>7. entry[Slot(i)].ptr # entry[Slot(Len(log))].ptr
  BY <1>2, <1>3, <1>5, <1>6 DEF Owners
<1>8. heap'[entry[Slot(i)].ptr] = heap[entry[Slot(i)].ptr] /\ entry'[Slot(i)] = entry[Slot(i)]
  BY <1>5, <1>6, <1>7
<1>9. LineEnd(i)' = LineEnd(i) /\ LineEnd(i + 1)' = LineEnd(i + 1)
  BY LinesKept
<1>10. QED
  BY <1>3, <1>4, <1>8, <1>9, LineKept

LEMMA TargetKeeps ==
  ASSUME NEW w \in Writer, RingInv(w), Target(w)
  PROVE  WriterStep(w)
<1> DEFINE len == Len(log)
           s == Slot(len)
<1>1. RaceTypes /\ Counters(w) /\ Ring(w) /\ Owners /\ heap \in Seq(HeapBlock)
  BY DEF RingInv, RaceTypes
<1>2. /\ UNCHANGED <<buf, entry, tmp_entry, read, accepted, log>>
      /\ write[w].pc = "target"
  BY DEF Target, WriteAt
<1>3. /\ \A P \in {Taking, Stored, Counted, Moved, {"free"}} : Plus(w, P) = 0
      /\ write[w].pc \in Whole /\ write[w].pc # "idle"
  BY <1>2 DEF Plus, Whole, Taking, Stored, Counted, Moved
<1>4. /\ len \in Nat /\ tmp_entry.ptr \in 1..Len(heap) /\ s \in Slots /\ Len(heap) \in Nat
      /\ entry[s].ptr \in Nat
  BY <1>1, <1>3, WholeFacts, SlotFacts, FieldTypes
<1>5. buf.w_abs = len
  BY <1>1, <1>3, <1>4 DEF Counters
<1>6. LinesTaken(w) = len /\ LinesStored(w) = len
  BY <1>3, <1>4 DEF LinesTaken, LinesStored
<1>7. /\ write' \in [Writer -> WriteCall] /\ write'[w].pc = "store" /\ write'[w].slot = s
      /\ write'[w].first = write[w].first /\ write'[w].n = write[w].n
  <2> DEFINE c == [write[w] EXCEPT !.pc = "store", !.slot = s]
  <2>1. "store" \in WritePlaces /\ s \in Nat
    BY <1>4, RaceAssumption DEF WritePlaces, Whole, Taking, Slots
  <2>2. write[w] \in WriteCall
    BY <1>1 DEF RaceTypes
  <2>3. /\ c \in WriteCall /\ c.pc = "store" /\ c.slot = s
        /\ c.first = write[w].first /\ c.n = write[w].n
    BY <2>1, <2>2 DEF WriteCall
  <2>4. write' = [write EXCEPT ![w] = c]
    BY <1>5, AfterPlaces DEF Target
  <2> HIDE DEF c
  <2>5. QED
    BY <1>1, <2>3, <2>4 DEF RaceTypes
<1>8. /\ \A P \in {Stored, Counted, Moved, {"free"}} : Plus(w, P)' = 0
      /\ Plus(w, Taking)' = 1
      /\ write'[w].pc \in Whole
  BY <1>7 DEF Plus, Whole, Taking, Stored, Counted, Moved
<1>9. LinesTaken(w)' = len + 1 /\ LinesStored(w)' = len
  BY <1>2, <1>4, <1>8 DEF LinesTaken, LinesStored
<1> HIDE DEF len, s
\* A slot with a block holds the oldest line of a full ring.
<1>10. entry[s].ptr # 0 => entry[s].ptr \in 1..Len(heap) /\ Live(entry[s].ptr)
  <2>1. SUFFICES ASSUME entry[s].ptr # 0
                 PROVE  entry[s].ptr \in 1..Len(heap) /\ Live(entry[s].ptr)
    OBVIOUS
  <2>2. len >= N
    <3>1. SUFFICES ASSUME ~(len >= N)
                   PROVE  FALSE
      OBVIOUS
    <3>2. len \in 0..(N - 1) /\ Slot(len) = s
      <4>1. len \in Nat /\ N \in Nat
        BY <1>4, RaceAssumption
      <4>2. len \in 0..(N - 1)
        BY <3>1, <4>1
      <4>3. QED
        BY <4>2 DEF s
    <3>3. s = len
      BY <3>2, SlotFacts
    <3>4. s \in Slots /\ s >= LinesTaken(w)
      BY <1>4, <1>6, <3>3 DEF len
    <3>5. entry[s] = NoBlock
      BY <1>1, <3>4 DEF Ring
    <3>6. QED
      BY <2>1, <3>5 DEF NoBlock
  <2>3. len - N \in Oldest(len)..(len - 1)
    BY <1>4, <2>2, RaceAssumption DEF Oldest
  <2>4. LineIn(len - N)
    BY <1>1, <1>6, <2>3 DEF Ring
  <2>5. Slot(len - N) = s
    BY <1>4, <2>2, SlotFacts DEF s, len
  <2>6. QED
    BY <2>4, <2>5 DEF LineIn, Block, Live
<1>11. /\ heap' \in Seq(HeapBlock) /\ Len(heap') = Len(heap) /\ broken' = broken
       /\ \A p \in 1..Len(heap) : p # entry[s].ptr => heap'[p] = heap[p]
  <2>1. CASE entry[s].ptr = 0
    BY <1>1, <1>5, <2>1 DEF Target, s, len
  <2>2. CASE entry[s].ptr # 0
    <3>1. Free(entry[s].ptr) /\ broken' = broken
      BY <1>5, <1>10, <2>2 DEF Target, s, len
    <3>2. QED
      BY <1>1, <1>10, <2>2, <3>1, FreeFacts
  <2>3. QED
    BY <2>1, <2>2
<1>12. heap'[tmp_entry.ptr] = heap[tmp_entry.ptr]
  <2>1. entry[s].ptr # tmp_entry.ptr
    BY <1>1, <1>4 DEF Owners
  <2>2. QED
    BY <1>4, <1>11, <2>1
<1>13. Cuts(w)' /\ Accumulator(w)' /\ \A i : LineEnd(i)' = LineEnd(i)
  BY <1>2, <1>3, <1>4, <1>7, <1>8, <1>11, <1>12, WholeFrame
<1>14. RaceTypes'
  BY <1>1, <1>2, <1>7, <1>11 DEF RaceTypes
<1>15. Owners'
  BY <1>1, <1>2, <1>4, <1>11, OwnersKept
<1>16. Ring(w)'
  <2>1. \A i \in Oldest(len + 1)..(len - 1) : LineIn(i)'
    BY <1>2, <1>4, <1>11, KeptLines DEF s, len
  <2>2. \A i : Oldest(i)' = Oldest(i)
    BY DEF Oldest
  <2>3. \A t \in Slots : t >= LinesTaken(w)' => entry'[t] = NoBlock
    BY <1>1, <1>2, <1>4, <1>6, <1>9, RaceAssumption DEF Ring, Slots
  <2>4. (\A i \in Oldest(LinesTaken(w))..(LinesStored(w) - 1) : LineIn(i))'
    BY <1>9, <2>1, <2>2
  <2>5. write'[w].slot = Slot(Len(log'))
    BY <1>2, <1>7 DEF s, len
  <2>6. QED
    BY <1>7, <2>3, <2>4, <2>5 DEF Ring, Slot, Slots
<1>17. Counters(w)'
  <2>1. LineEnd(len + 0)' = LineEnd(len + 0)
    BY <1>2, <1>13 DEF len
  <2>2. FirstRound(w)' => FirstRound(w)
    BY <1>4, <1>6, <1>9, RaceAssumption DEF FirstRound
  <2>3. QED
    BY <1>1, <1>2, <1>3, <1>4, <1>7, <1>8, <2>1, <2>2 DEF Counters, Oldest, len
<1>18. FirstRound(w)' => FirstRound(w) /\ Forward
  <2>1. FirstRound(w)' => FirstRound(w)
    BY <1>4, <1>6, <1>9, RaceAssumption DEF FirstRound
  <2>2. buf.w_abs \in Nat /\ buf.w_char_abs \in Nat
    BY <1>1, FieldTypes
  <2>3. QED
    BY <1>2, <1>13, <2>1, <2>2 DEF Forward
<1>19. QED
  BY <1>2, <1>11, <1>13, <1>14, <1>15, <1>16, <1>17, <1>18 DEF WriterStep, RingInv

\* The place of a call that has its slot.
LEMMA TakenFacts ==
  ASSUME NEW w \in Writer, RingInv(w), write[w].pc \in Taking
  PROVE  /\ write[w].pc \in Whole /\ write[w].pc # "idle"
         /\ Slot(Len(log)) \in Slots /\ write[w].slot = Slot(Len(log))
         /\ LinesTaken(w) = Len(log) + 1 /\ Len(log) \in Nat /\ Len(heap) \in Nat
         /\ FirstRound(w) => Len(log) \in 0..(N - 1) /\ Slot(Len(log)) = Len(log)
<1>1. write[w].pc \in Whole /\ write[w].pc # "idle" /\ Plus(w, Taking) = 1
  BY DEF Plus, Whole, Taking, Stored, Moved, Counted
<1>2. Len(log) \in Nat /\ Len(heap) \in Nat
  BY LogTypes, FieldTypes DEF RingInv
<1>3. Slot(Len(log)) \in Slots /\ write[w].slot = Slot(Len(log))
  BY <1>2, SlotFacts DEF RingInv, Ring
<1>4. LinesTaken(w) = Len(log) + 1
  BY <1>1, <1>2 DEF LinesTaken
<1>5. FirstRound(w) => Len(log) \in 0..(N - 1)
  BY <1>2, <1>4, RaceAssumption DEF FirstRound
<1>6. QED
  BY <1>1, <1>2, <1>3, <1>4, <1>5, SlotFacts

\* A slot of the first round that is not taken yet is not the one of the line.
LEMMA LaterSlot ==
  ASSUME NEW n \in Nat, NEW t \in Slots, t >= n + 1
  PROVE  t # Slot(n)
<1>1. n \in 0..(N - 1) /\ t # n
  BY RaceAssumption DEF Slots
<1>2. QED
  BY <1>1, SlotFacts

LEMMA StoreBlockKeeps ==
  ASSUME NEW w \in Writer, RingInv(w), StoreBlock(w)
  PROVE  WriterStep(w)
<1> DEFINE len == Len(log)
           s == Slot(len)
<1>1. RaceTypes /\ Counters(w) /\ Ring(w) /\ Owners /\ heap \in Seq(HeapBlock)
  BY DEF RingInv, RaceTypes
<1>2. /\ UNCHANGED <<buf, tmp_entry, read, accepted, log, broken>>
      /\ write[w].pc = "store" /\ Allocate(tmp_entry.size) /\ WriteGo(w, "fill")
      /\ entry' = [entry EXCEPT ![write[w].slot].ptr = Fresh]
  BY AfterPlaces DEF StoreBlock, WriteAt, WriteNext
<1>3. write[w].pc \in Taking /\ write[w].pc \notin Stored /\ "fill" \in WritePlaces
  BY <1>2 DEF WritePlaces, Whole, Taking, Stored, Moved, Counted
<1>4. /\ write[w].pc \in Whole /\ s \in Slots /\ write[w].slot = s
      /\ LinesTaken(w) = len + 1 /\ len \in Nat /\ Len(heap) \in Nat
      /\ FirstRound(w) => len \in 0..(N - 1) /\ s = len
  BY <1>3, TakenFacts
<1>5. /\ write' \in [Writer -> WriteCall] /\ write'[w].pc = "fill" /\ write'[w].slot = s
      /\ write'[w].first = write[w].first /\ write'[w].n = write[w].n
  BY <1>1, <1>2, <1>3, <1>4, GoFacts
<1>6. /\ \A P \in {Stored, Counted, Moved, {"free"}} : Plus(w, P) = 0 /\ Plus(w, P)' = 0
      /\ Plus(w, Taking)' = 1 /\ write'[w].pc \in Whole
  BY <1>2, <1>5 DEF Plus, Whole, Taking, Stored, Counted, Moved
<1>7. LinesTaken(w)' = len + 1 /\ LinesStored(w)' = len /\ LinesStored(w) = len
  BY <1>2, <1>4, <1>6 DEF LinesTaken, LinesStored
<1>8. /\ tmp_entry.ptr \in 1..Len(heap) /\ tmp_entry.size \in Nat
      /\ \A t \in Slots : entry[t].ptr \in Nat
  BY <1>1, <1>4, WholeFacts, FieldTypes
<1> HIDE DEF len, s
<1>9. /\ heap' \in Seq(HeapBlock) /\ Len(heap') = Len(heap) + 1
      /\ \A p \in 1..Len(heap) : heap'[p] = heap[p]
      /\ Fresh \in 1..Len(heap') /\ Len(heap) < Fresh
      /\ heap'[Fresh].live /\ Len(heap'[Fresh].bytes) = tmp_entry.size
  BY <1>1, <1>2, <1>8, AllocateFacts
<1>10. /\ entry' \in [Slots -> [ptr : Nat, size : Nat]] /\ entry'[s].ptr = Fresh
       /\ \A t \in Slots : t # s => entry'[t] = entry[t]
  <2>1. entry' = [entry EXCEPT ![s] = [entry[s] EXCEPT !.ptr = Fresh]]
    BY <1>2, <1>4
  <2>2. entry \in [Slots -> [ptr : Nat, size : Nat]] /\ Fresh \in Nat
    BY <1>1, <1>4 DEF RaceTypes, Fresh
  <2>3. [entry[s] EXCEPT !.ptr = Fresh] \in [ptr : Nat, size : Nat]
        /\ [entry[s] EXCEPT !.ptr = Fresh].ptr = Fresh
    BY <1>4, <2>2
  <2>4. QED
    BY <1>4, <2>1, <2>2, <2>3
<1>11. Cuts(w)' /\ Accumulator(w)' /\ \A i : LineEnd(i)' = LineEnd(i)
  BY <1>2, <1>4, <1>5, <1>6, <1>8, <1>9, WholeFrame
<1>12. RaceTypes'
  BY <1>1, <1>2, <1>5, <1>9, <1>10 DEF RaceTypes
<1>13. Owners'
  <2>1. tmp_entry'.ptr = tmp_entry.ptr /\ tmp_entry.ptr <= Len(heap) /\ tmp_entry.ptr \in Nat
        /\ Len(heap') \in Nat /\ Len(heap) < Len(heap') /\ Fresh <= Len(heap')
    BY <1>2, <1>4, <1>8, <1>9
  <2>2. ASSUME NEW t \in Slots
        PROVE  /\ entry'[t].ptr <= Len(heap')
               /\ entry'[t].ptr # 0 => entry'[t].ptr # tmp_entry'.ptr
    <3>1. CASE t = s
      BY <1>4, <1>9, <1>10, <2>1, <3>1
    <3>2. CASE t # s
      BY <1>1, <1>4, <1>8, <1>10, <2>1, <3>2 DEF Owners
    <3>3. QED
      BY <3>1, <3>2
  <2>3. ASSUME NEW t \in Slots, NEW u \in Slots \ {t}, entry'[t].ptr # 0
        PROVE  entry'[t].ptr # entry'[u].ptr
    <3>1. entry[t].ptr <= Len(heap) /\ entry[u].ptr <= Len(heap)
          /\ (entry[t].ptr # 0 => entry[t].ptr # entry[u].ptr)
      BY <1>1 DEF Owners
    <3>2. QED
      BY <1>4, <1>8, <1>9, <1>10, <2>3, <3>1
  <2>4. QED
    BY <2>1, <2>2, <2>3 DEF Owners, Slots
<1>14. Ring(w)'
  <2>1. \A i \in Oldest(len + 1)..(len - 1) : LineIn(i)'
    BY <1>2, <1>4, <1>9, <1>10, KeptLines DEF s, len
  <2>2. (\A i \in Oldest(LinesTaken(w))..(LinesStored(w) - 1) : LineIn(i))'
    BY <1>7, <2>1 DEF Oldest
  <2>3. \A t \in Slots : t >= LinesTaken(w)' => entry'[t] = NoBlock
    BY <1>1, <1>4, <1>7, <1>10, LaterSlot DEF Ring, s
  <2>4. write'[w].slot = Slot(Len(log'))
    BY <1>2, <1>5 DEF s, len
  <2>5. Roomy(entry[s].ptr, tmp_entry.size)' /\ s' = s
    BY <1>2, <1>9, <1>10 DEF Roomy, Live, Room, s, len, Slot
  <2>6. QED
    BY <1>5, <2>2, <2>3, <2>4, <2>5 DEF Ring, Slot, Slots
<1>15. FirstRound(w)' => FirstRound(w)
  BY <1>4, <1>7 DEF FirstRound
<1>16. Counters(w)'
  <2>1. LineEnd(len + 0)' = LineEnd(len + 0)
    BY <1>2, <1>11 DEF len
  <2>2. QED
    BY <1>1, <1>2, <1>4, <1>5, <1>6, <1>15, <2>1 DEF Counters, Oldest, len
<1>17. FirstRound(w)' => Forward
  <2>1. buf.w_abs \in Nat /\ buf.w_char_abs \in Nat /\ buf.w_abs = len
    BY <1>1, <1>4, <1>6, FieldTypes DEF Counters, len
  <2>2. ASSUME FirstRound(w)', NEW i \in 0..(buf.w_abs - 1)
        PROVE  entry'[i] = entry[i]
    <3>1. len \in 0..(N - 1) /\ s = len /\ i \in 0..(len - 1)
      BY <1>4, <1>15, <2>1, <2>2
    <3>2. i \in Slots /\ i # s
      BY <3>1, RaceAssumption DEF Slots
    <3>3. QED
      BY <1>10, <3>2
  <2>3. QED
    BY <1>2, <1>11, <2>1, <2>2 DEF Forward
<1>18. QED
  BY <1>2, <1>11, <1>12, <1>13, <1>14, <1>15, <1>16, <1>17 DEF WriterStep, RingInv

LEMMA FillBlockKeeps ==
  ASSUME NEW w \in Writer, RingInv(w), FillBlock(w)
  PROVE  WriterStep(w)
<1> DEFINE len == Len(log)
           s == Slot(len)
           to == entry[s].ptr
           from == tmp_entry.ptr
           k == tmp_entry.size
           begin == LineEnd(len)
           bytes == SubSeq(heap[from].bytes, 1, k)
<1>1. RaceTypes /\ Counters(w) /\ Ring(w) /\ Owners /\ heap \in Seq(HeapBlock)
  BY DEF RingInv, RaceTypes
<1>2. /\ UNCHANGED <<buf, entry, tmp_entry, read, accepted, log>>
      /\ write[w].pc = "fill" /\ WriteGo(w, "size")
  BY AfterPlaces DEF FillBlock, WriteAt, WriteNext
<1>3. write[w].pc \in Taking /\ write[w].pc \notin Stored /\ "size" \in WritePlaces
  BY <1>2 DEF WritePlaces, Whole, Taking, Stored, Moved, Counted
<1>4. /\ write[w].pc \in Whole /\ s \in Slots /\ write[w].slot = s
      /\ LinesTaken(w) = len + 1 /\ len \in Nat /\ Len(heap) \in Nat
      /\ FirstRound(w) => len \in 0..(N - 1) /\ s = len
  BY <1>3, TakenFacts
<1>5. /\ write' \in [Writer -> WriteCall] /\ write'[w].pc = "size" /\ write'[w].slot = s
      /\ write'[w].first = write[w].first /\ write'[w].n = write[w].n
  BY <1>1, <1>2, <1>3, <1>4, GoFacts
<1>6. /\ \A P \in {Stored, Counted, Moved, {"free"}} : Plus(w, P) = 0 /\ Plus(w, P)' = 0
      /\ Plus(w, Taking)' = 1 /\ write'[w].pc \in Whole
  BY <1>2, <1>5 DEF Plus, Whole, Taking, Stored, Counted, Moved
<1>7. LinesTaken(w)' = len + 1 /\ LinesStored(w)' = len /\ LinesStored(w) = len
  BY <1>2, <1>4, <1>6 DEF LinesTaken, LinesStored
<1>8. /\ from \in 1..Len(heap) /\ k \in Nat /\ begin \in Nat /\ accepted \in Nat
      /\ begin < accepted /\ k = accepted - begin /\ Live(from) /\ Room(from) = k
      /\ \A j \in 1..k : heap[from].bytes[j] = begin + j
  BY <1>1, <1>4, WholeFacts, FieldTypes
<1>9. heap[from].bytes \in Seq(Nat) /\ to \in 1..Len(heap) /\ Live(to) /\ Room(to) = k
  BY <1>1, <1>2, <1>4, <1>8, FieldTypes DEF Ring, Roomy
<1>10. to # from
  BY <1>1, <1>4, <1>9 DEF Owners
<1>11. bytes \in Seq(Nat) /\ Len(bytes) = k /\ \A j \in 1..k : bytes[j] = begin + j
  <2>1. Len(heap[from].bytes) = k
    BY <1>8 DEF Room
  <2>2. QED
    BY <1>8, <1>9, <2>1, FrontFacts
<1> HIDE DEF len, s, to, from, k, begin, bytes
<1>12. Fill(to, 0, bytes) /\ broken' = broken
  <2>1. ~(k > Room(to)) /\ ~(k > Room(from))
    BY <1>8, <1>9
  <2>2. QED
    BY <1>4, <1>8, <1>9, <2>1 DEF FillBlock, to, from, k, bytes
<1>13. 0 \in Nat /\ 0 + Len(bytes) <= Room(to)
  BY <1>8, <1>9, <1>11
<1>14. /\ heap' \in Seq(HeapBlock) /\ Len(heap') = Len(heap)
       /\ \A p \in 1..Len(heap) : p # to => heap'[p] = heap[p]
       /\ heap'[to].live /\ heap'[to].bytes \in Seq(Nat) /\ Len(heap'[to].bytes) = k
  BY <1>1, <1>9, <1>11, <1>12, <1>13, FillFacts
<1>15. \A j \in 1..k : heap'[to].bytes[j] = begin + j
  <2>1. \A j \in 1..k : heap'[to].bytes[j] = IF j > 0 /\ j <= 0 + Len(bytes) THEN bytes[j - 0]
                                            ELSE heap[to].bytes[j]
    BY <1>1, <1>9, <1>11, <1>12, <1>13, FillFacts
  <2>2. \A j \in 1..k : j > 0 /\ j <= 0 + Len(bytes) /\ j - 0 = j
    BY <1>8, <1>11
  <2>3. QED
    BY <1>11, <2>1, <2>2
<1>16. Block(to, Bytes(begin, accepted))'
  <2>1. heap'[to].bytes = Bytes(begin, accepted)
    BY <1>8, <1>14, <1>15, IsBytes
  <2>2. heap'[to] \in HeapBlock
    BY <1>9, <1>14, SeqElements
  <2>3. heap'[to] = [bytes |-> Bytes(begin, accepted), live |-> TRUE]
    BY <1>14, <2>1, <2>2 DEF HeapBlock
  <2>4. Bytes(begin, accepted)' = Bytes(begin, accepted) /\ to' = to
    BY <1>2, LinesKept DEF Bytes, begin, to, s, len, Slot
  <2>5. QED
    BY <1>9, <1>14, <2>3, <2>4 DEF Block
<1>17. Cuts(w)' /\ Accumulator(w)' /\ \A i : LineEnd(i)' = LineEnd(i)
  <2>1. heap'[from] = heap[from]
    BY <1>8, <1>10, <1>14
  <2>2. QED
    BY <1>2, <1>4, <1>5, <1>6, <1>14, <2>1, WholeFrame DEF from
<1>18. RaceTypes'
  BY <1>1, <1>2, <1>5, <1>14 DEF RaceTypes
<1>19. Owners'
  BY <1>1, <1>2, <1>4, <1>14, OwnersKept
<1>20. Ring(w)'
  <2>1. \A i \in Oldest(len + 1)..(len - 1) : LineIn(i)'
    BY <1>2, <1>4, <1>14, KeptLines DEF s, len, to
  <2>2. (\A i \in Oldest(LinesTaken(w))..(LinesStored(w) - 1) : LineIn(i))'
    BY <1>7, <2>1 DEF Oldest
  <2>3. \A t \in Slots : t >= LinesTaken(w)' => entry'[t] = NoBlock
    BY <1>1, <1>2, <1>4, <1>7 DEF Ring
  <2>4. write'[w].slot = Slot(Len(log'))
    BY <1>2, <1>5 DEF s, len
  <2>5. s' = s /\ to' = to /\ begin' = begin
    BY <1>2, LinesKept DEF s, to, begin, len, Slot
  <2>6. write'[w].pc = "size" => Block(entry[write[w].slot].ptr, Bytes(LineEnd(Len(log)), accepted))'
    BY <1>5, <1>16, <2>5 DEF to, begin, len
  <2>7. QED
    BY <1>5, <2>2, <2>3, <2>4, <2>6 DEF Ring, Slot, Slots
<1>21. FirstRound(w)' => FirstRound(w)
  BY <1>4, <1>7 DEF FirstRound
<1>22. Counters(w)'
  <2>1. LineEnd(len + 0)' = LineEnd(len + 0)
    BY <1>2, <1>17 DEF len
  <2>2. QED
    BY <1>1, <1>2, <1>4, <1>5, <1>6, <1>21, <2>1 DEF Counters, Oldest, len
<1>23. FirstRound(w)' => Forward
  <2>1. buf.w_abs \in Nat /\ buf.w_char_abs \in Nat
    BY <1>1, FieldTypes
  <2>2. QED
    BY <1>2, <1>17, <2>1 DEF Forward
<1>24. QED
  BY <1>2, <1>12, <1>17, <1>18, <1>19, <1>20, <1>21, <1>22, <1>23 DEF WriterStep, RingInv

\* The line is in its slot from here on: the ring holds it too.
LEMMA StoreSizeKeeps ==
  ASSUME NEW w \in Writer, RingInv(w), StoreSize(w)
  PROVE  WriterStep(w)
<1> DEFINE len == Len(log)
           s == Slot(len)
           to == entry[s].ptr
           begin == LineEnd(len)
<1>1. RaceTypes /\ Counters(w) /\ Ring(w) /\ Owners /\ heap \in Seq(HeapBlock)
  BY DEF RingInv, RaceTypes
<1>2. /\ UNCHANGED <<buf, tmp_entry, heap, read, accepted, log, broken>>
      /\ write[w].pc = "size" /\ WriteGo(w, "evict")
      /\ entry' = [entry EXCEPT ![write[w].slot].size = tmp_entry.size]
  BY AfterPlaces DEF StoreSize, WriteAt, WriteNext
<1>3. /\ write[w].pc \in Taking /\ write[w].pc \notin Stored
      /\ "evict" \in WritePlaces /\ "evict" \in Stored
  BY <1>2 DEF WritePlaces, Whole, Taking, Stored, Moved, Counted
<1>4. /\ write[w].pc \in Whole /\ s \in Slots /\ write[w].slot = s
      /\ LinesTaken(w) = len + 1 /\ len \in Nat /\ Len(heap) \in Nat
      /\ FirstRound(w) => len \in 0..(N - 1) /\ s = len
  BY <1>3, TakenFacts
<1>5. /\ write' \in [Writer -> WriteCall] /\ write'[w].pc = "evict" /\ write'[w].slot = s
      /\ write'[w].first = write[w].first /\ write'[w].n = write[w].n
  BY <1>1, <1>2, <1>3, <1>4, GoFacts
<1>6. /\ \A P \in {Counted, Moved, {"free"}} : Plus(w, P) = 0 /\ Plus(w, P)' = 0
      /\ Plus(w, Taking)' = 1 /\ Plus(w, Stored)' = 1 /\ Plus(w, Stored) = 0
      /\ write'[w].pc \in Whole
  BY <1>2, <1>5 DEF Plus, Whole, Taking, Stored, Counted, Moved
<1>7. LinesTaken(w)' = len + 1 /\ LinesStored(w)' = len + 1 /\ LinesStored(w) = len
  BY <1>2, <1>4, <1>6 DEF LinesTaken, LinesStored
<1>8. /\ begin \in Nat /\ accepted \in Nat /\ tmp_entry.size \in Nat
      /\ LineEnd(len + 1) = accepted /\ tmp_entry.size = accepted - begin
      /\ tmp_entry.ptr \in 1..Len(heap)
  BY <1>1, <1>4, WholeFacts, FieldTypes
<1> HIDE DEF len, s, to, begin
<1>9. /\ entry' \in [Slots -> [ptr : Nat, size : Nat]]
      /\ entry'[s].size = tmp_entry.size /\ entry'[s].ptr = to
      /\ \A t \in Slots : entry'[t].ptr = entry[t].ptr /\ (t # s => entry'[t] = entry[t])
  <2>1. entry' = [entry EXCEPT ![s] = [entry[s] EXCEPT !.size = tmp_entry.size]]
    BY <1>2, <1>4
  <2>2. entry \in [Slots -> [ptr : Nat, size : Nat]]
    BY <1>1 DEF RaceTypes
  <2>3. /\ [entry[s] EXCEPT !.size = tmp_entry.size] \in [ptr : Nat, size : Nat]
        /\ [entry[s] EXCEPT !.size = tmp_entry.size].size = tmp_entry.size
        /\ [entry[s] EXCEPT !.size = tmp_entry.size].ptr = to
    BY <1>4, <1>8, <2>2 DEF to
  <2>4. QED
    BY <1>4, <2>1, <2>2, <2>3 DEF to
<1>10. Cuts(w)' /\ Accumulator(w)' /\ \A i : LineEnd(i)' = LineEnd(i)
  BY <1>1, <1>2, <1>4, <1>5, <1>6, WholeFrame
<1>11. RaceTypes'
  BY <1>1, <1>2, <1>5, <1>9 DEF RaceTypes
<1>12. Owners'
  BY <1>1, <1>2, <1>9 DEF Owners
<1>13. LineIn(len)'
  <2>1. Block(to, Bytes(begin, accepted))
    BY <1>1, <1>2, <1>4 DEF Ring, to, begin, len
  <2>2. (LineEnd(len) = begin /\ LineEnd(len + 1) = accepted /\ len = Len(log))'
    BY <1>2, <1>8, <1>10 DEF begin, len
  <2>3. Block(to, Bytes(begin, accepted))' /\ begin' = begin /\ len' = len
    BY <1>2, <1>9, <1>10, <2>1 DEF Block, Bytes, to, begin, s, len, Slot
  <2>4. entry'[Slot(len)].ptr = to /\ entry'[Slot(len)].size = accepted - begin
    BY <1>8, <1>9 DEF s
  <2>5. Block(entry'[Slot(len)].ptr, Bytes(begin, accepted)) /\ entry'[Slot(len)].size = accepted - begin
    BY <1>9, <2>1, <2>4
  <2>6. QED
    BY <1>2, <2>2, <2>3, <2>5 DEF LineIn, Block, Bytes, Slot
<1>14. Ring(w)'
  <2>1. \A i \in Oldest(len + 1)..(len - 1) : LineIn(i)'
    BY <1>1, <1>2, <1>4, <1>9, KeptLines DEF s, len
  <2>2. \A i \in Oldest(len + 1)..len : LineIn(i)'
    <3>1. ASSUME NEW i \in Oldest(len + 1)..len
          PROVE  i = len \/ i \in Oldest(len + 1)..(len - 1)
      <4>1. i \in Int /\ Oldest(len + 1) <= i /\ i <= len /\ Oldest(len + 1) \in Int
        BY <1>4, <3>1, RaceAssumption DEF Oldest
      <4>2. QED
        BY <1>4, <4>1
    <3>2. \A i : i = len => LineIn(i)'
      BY <1>2, <1>13 DEF LineIn, Block, LineEnd, Bytes, Slot, len
    <3>3. QED
      BY <2>1, <3>1, <3>2
  <2>3. (\A i \in Oldest(LinesTaken(w))..(LinesStored(w) - 1) : LineIn(i))'
    <3>1. (len + 1) - 1 = len
      BY <1>4
    <3>2. QED
      BY <1>7, <2>2, <3>1 DEF Oldest
  <2>4. \A t \in Slots : t >= LinesTaken(w)' => entry'[t] = NoBlock
    BY <1>1, <1>4, <1>7, <1>9, LaterSlot DEF Ring, s
  <2>5. write'[w].slot = Slot(Len(log'))
    BY <1>2, <1>5 DEF s, len
  <2>6. QED
    BY <1>5, <2>3, <2>4, <2>5 DEF Ring, Slot, Slots
<1>15. FirstRound(w)' => FirstRound(w)
  BY <1>4, <1>7 DEF FirstRound
<1>16. Counters(w)'
  <2>1. LineEnd(len + 0)' = LineEnd(len + 0)
    BY <1>2, <1>10 DEF len
  <2>2. QED
    BY <1>1, <1>2, <1>4, <1>5, <1>6, <1>15, <2>1 DEF Counters, Oldest, len
<1>17. FirstRound(w)' => Forward
  <2>1. buf.w_abs \in Nat /\ buf.w_char_abs \in Nat /\ buf.w_abs = len
    BY <1>1, <1>4, <1>6, FieldTypes DEF Counters, len
  <2>2. ASSUME FirstRound(w)', NEW i \in 0..(buf.w_abs - 1)
        PROVE  entry'[i] = entry[i]
    <3>1. len \in 0..(N - 1) /\ s = len /\ i \in 0..(len - 1)
      BY <1>4, <1>15, <2>1, <2>2
    <3>2. i \in Slots /\ i # s
      BY <3>1, RaceAssumption DEF Slots
    <3>3. QED
      BY <1>9, <3>2
  <2>3. QED
    BY <1>2, <1>10, <2>1, <2>2 DEF Forward
<1>18. QED
  BY <1>2, <1>10, <1>11, <1>12, <1>14, <1>15, <1>16, <1>17 DEF WriterStep, RingInv

-----------------------------------------------------------------------------
(* Counting the line *)

\* The line is in its slot; only the counters move.
LEMMA StoredFrame ==
  ASSUME NEW w \in Writer, RingInv(w), write[w].pc \in Stored, NEW p \in Stored, WriteGo(w, p),
         UNCHANGED <<entry, tmp_entry, heap, accepted, log>>,
         buf' \in [w_abs : Nat, start_abs : Nat, w_char_abs : Nat, start_char_abs : Nat]
  PROVE  /\ RaceTypes' /\ Cuts(w)' /\ Ring(w)' /\ Accumulator(w)' /\ Owners'
         /\ FirstRound(w)' <=> FirstRound(w)
         /\ \A i : LineEnd(i)' = LineEnd(i)
         /\ write'[w].pc = p
<1>1. RaceTypes /\ Ring(w) /\ Owners /\ heap \in Seq(HeapBlock)
  BY DEF RingInv, RaceTypes
<1>2. /\ write[w].pc \in Taking /\ write[w].pc \in Whole
      /\ p \in WritePlaces /\ p \in Taking /\ p \in Whole /\ p # "fill" /\ p # "size"
  BY DEF WritePlaces, Whole, Taking, Stored, Moved, Counted
<1>3. /\ write' \in [Writer -> WriteCall] /\ write'[w].pc = p /\ write'[w].slot = write[w].slot
      /\ write'[w].first = write[w].first /\ write'[w].n = write[w].n
  BY <1>1, <1>2, GoFacts
<1>4. /\ Plus(w, Taking) = 1 /\ Plus(w, Taking)' = 1
      /\ Plus(w, Stored) = 1 /\ Plus(w, Stored)' = 1
  BY <1>2, <1>3 DEF Plus
<1>5. LinesTaken(w)' = LinesTaken(w) /\ LinesStored(w)' = LinesStored(w)
  BY <1>4 DEF LinesTaken, LinesStored
<1>6. RaceTypes'
  BY <1>1, <1>3 DEF RaceTypes
<1>7. Len(heap) \in Nat
  BY <1>1, FieldTypes
<1>8. Cuts(w)' /\ Accumulator(w)' /\ \A i : LineEnd(i)' = LineEnd(i)
  BY <1>1, <1>2, <1>3, <1>7, WholeFrame
<1>9. Owners'
  BY <1>1, <1>7, OwnersKept
<1>10. Ring(w)'
  <2>1. ASSUME NEW i \in Oldest(LinesTaken(w))..(LinesStored(w) - 1)
        PROVE  LineIn(i)'
    <3>1. LineIn(i)
      BY <1>1 DEF Ring
    <3>2. QED
      BY <1>7, <1>8, <3>1, LineKept
  <2>2. (\A i \in Oldest(LinesTaken(w))..(LinesStored(w) - 1) : LineIn(i))'
    BY <1>5, <2>1 DEF Oldest
  <2>3. \A t \in Slots : t >= LinesTaken(w)' => entry'[t] = NoBlock
    BY <1>1, <1>5 DEF Ring
  <2>4. write'[w].slot = Slot(Len(log'))
    BY <1>1, <1>2, <1>3 DEF Ring
  <2>5. QED
    BY <1>2, <1>3, <2>2, <2>3, <2>4 DEF Ring, Slot, Slots
<1>11. FirstRound(w)' <=> FirstRound(w)
  BY <1>5 DEF FirstRound
<1>12. QED
  BY <1>3, <1>6, <1>8, <1>9, <1>10, <1>11

\* Where the counters stand before and after.
LEMMA StoredCounts ==
  ASSUME NEW w \in Writer, RingInv(w), write[w].pc \in Stored
  PROVE  /\ Len(log) \in Nat /\ LineEnd(Len(log)) \in Nat /\ accepted \in Nat
         /\ LineEnd(Len(log)) < accepted /\ LineEnd(Len(log) + 1) = accepted
         /\ tmp_entry.size = accepted - LineEnd(Len(log))
         /\ buf.w_abs \in Nat /\ buf.start_abs \in Nat
         /\ buf.w_char_abs \in Nat /\ buf.start_char_abs \in Nat
         /\ buf.w_abs = Len(log) + Plus(w, Counted)
         /\ buf.start_abs = Oldest(Len(log) + Plus(w, Moved))
         /\ buf.w_char_abs = LineEnd(Len(log) + Plus(w, {"free"}))
         /\ FirstRound(w) => Len(log) < N
<1>1. write[w].pc \in Whole /\ write[w].pc \in Taking
  BY DEF Whole, Taking
<1>2. RaceTypes /\ Counters(w)
  BY DEF RingInv
<1>3. FirstRound(w) => Len(log) < N
  <2>1. FirstRound(w) => Len(log) \in 0..(N - 1)
    BY <1>1, TakenFacts
  <2>2. QED
    BY <2>1, RaceAssumption
<1>4. QED
  BY <1>1, <1>2, <1>3, WholeFacts, FieldTypes DEF Counters

\* The start moves exactly when the line is one too many.
LEMMA EvictKeeps ==
  ASSUME NEW w \in Writer, RingInv(w), Evict(w)
  PROVE  WriterStep(w)
<1> DEFINE len == Len(log)
<1>1. /\ UNCHANGED <<entry, tmp_entry, heap, read, accepted, log, broken>>
      /\ write[w].pc = "evict"
      /\ IF buf.w_abs - buf.start_abs >= N
           THEN buf' = [buf EXCEPT !.start_abs = @ + 1] /\ WriteGo(w, "evicted")
           ELSE buf' = buf /\ WriteGo(w, "count")
  BY AfterPlaces DEF Evict, WriteAt, WriteNext
<1>2. /\ write[w].pc \in Stored /\ "evicted" \in Stored /\ "count" \in Stored
      /\ \A P \in {Counted, Moved, {"free"}} : Plus(w, P) = 0
  BY <1>1 DEF Plus, Stored, Moved, Counted
<1>3. /\ len \in Nat /\ buf.w_abs = len /\ buf.start_abs = Oldest(len)
      /\ buf.w_char_abs = LineEnd(len) /\ (FirstRound(w) => len < N)
      /\ buf.w_abs \in Nat /\ buf.w_char_abs \in Nat /\ buf.start_abs \in Nat
  <2>1. len \in Nat /\ len + 0 = len
    BY <1>2, StoredCounts
  <2>2. QED
    BY <1>2, <2>1, StoredCounts
<1>4. buf \in [w_abs : Nat, start_abs : Nat, w_char_abs : Nat, start_char_abs : Nat]
  BY DEF RingInv, RaceTypes
<1>5. N \in Nat \ {0}
  BY RaceAssumption
<1>6. Oldest(len) = (IF len <= N THEN 0 ELSE len - N)
      /\ Oldest(len + 1) = (IF len + 1 <= N THEN 0 ELSE (len + 1) - N)
  BY DEF Oldest
<1> HIDE DEF len
<1>7. /\ buf.w_abs - buf.start_abs >= N <=> len >= N
      /\ len >= N => Oldest(len) + 1 = Oldest(len + 1)
      /\ ~(len >= N) => Oldest(len) = Oldest(len + 1)
  BY <1>3, <1>5, <1>6
<1>8. /\ buf' \in [w_abs : Nat, start_abs : Nat, w_char_abs : Nat, start_char_abs : Nat]
      /\ buf'.w_abs = buf.w_abs /\ buf'.w_char_abs = buf.w_char_abs
      /\ buf'.start_char_abs = buf.start_char_abs /\ buf'.start_abs = Oldest(len + 1)
      /\ \/ WriteGo(w, "evicted") /\ len >= N
         \/ WriteGo(w, "count")
  <2>1. CASE len >= N
    <3>1. buf' = [buf EXCEPT !.start_abs = @ + 1] /\ WriteGo(w, "evicted")
      BY <1>1, <1>7, <2>1
    <3>2. QED
      BY <1>3, <1>4, <1>7, <2>1, <3>1
  <2>2. CASE ~(len >= N)
    BY <1>1, <1>3, <1>4, <1>7, <2>2
  <2>3. QED
    BY <2>1, <2>2
<1>9. \E p \in Stored : WriteGo(w, p) /\ p \in {"evicted", "count"} /\ (p = "evicted" => len >= N)
  BY <1>2, <1>8
<1>10. PICK p \in Stored : WriteGo(w, p) /\ p \in {"evicted", "count"} /\ (p = "evicted" => len >= N)
  BY <1>9
<1>11. /\ RaceTypes' /\ Cuts(w)' /\ Ring(w)' /\ Accumulator(w)' /\ Owners'
       /\ FirstRound(w)' <=> FirstRound(w)
       /\ \A i : LineEnd(i)' = LineEnd(i)
       /\ write'[w].pc = p
  BY <1>1, <1>2, <1>8, <1>10, StoredFrame
<1>12. Counters(w)'
  <2>1. Plus(w, Counted)' = 0 /\ Plus(w, Moved)' = 1 /\ Plus(w, {"free"})' = 0
    BY <1>10, <1>11 DEF Plus, Counted, Moved
  <2>2. Len(log') = len /\ len + 0 = len /\ LineEnd(len + 0)' = LineEnd(len)
    BY <1>1, <1>3, <1>11 DEF len
  <2>3. FirstRound(w) => buf.start_char_abs = 0
    BY DEF RingInv, Counters
  <2>4. (buf.start_abs = Oldest(Len(log) + 1))' /\ (buf.w_char_abs = LineEnd(Len(log) + 0))'
    BY <1>3, <1>8, <2>2 DEF Oldest, len
  <2>5. write'[w].pc = "evicted" => len >= N
    BY <1>10, <1>11
  <2>6. QED
    BY <1>3, <1>8, <1>11, <2>1, <2>2, <2>3, <2>4, <2>5 DEF Counters
<1>13. Forward
  BY <1>1, <1>3, <1>8, <1>11 DEF Forward
<1>14. QED
  BY <1>1, <1>11, <1>12, <1>13 DEF WriterStep, RingInv

\* The text of the line that goes is taken off only when no slot is fresh any more.
LEMMA EvictCharsKeeps ==
  ASSUME NEW w \in Writer, RingInv(w), EvictChars(w)
  PROVE  WriterStep(w)
<1> DEFINE len == Len(log)
           gone == entry[Slot(buf.start_abs)].size
<1>1. /\ UNCHANGED <<entry, tmp_entry, heap, read, accepted, log, broken>>
      /\ write[w].pc = "evicted" /\ WriteGo(w, "count")
      /\ buf' = [buf EXCEPT !.start_char_abs = @ + gone]
  BY AfterPlaces DEF EvictChars, WriteAt, WriteNext
<1>2. /\ write[w].pc \in Stored /\ "count" \in Stored
      /\ Plus(w, Counted) = 0 /\ Plus(w, {"free"}) = 0 /\ Plus(w, Moved) = 1
  BY <1>1 DEF Plus, Stored, Moved, Counted
<1>3. /\ len \in Nat /\ buf.w_abs = len /\ buf.start_abs = Oldest(len + 1)
      /\ buf.w_char_abs = LineEnd(len) /\ (FirstRound(w) => len < N)
      /\ buf.w_abs \in Nat /\ buf.w_char_abs \in Nat /\ buf.start_abs \in Nat
      /\ buf.start_char_abs \in Nat
  <2>1. len \in Nat /\ len + 0 = len
    BY <1>2, StoredCounts
  <2>2. QED
    BY <1>2, <2>1, StoredCounts
<1>4. buf \in [w_abs : Nat, start_abs : Nat, w_char_abs : Nat, start_char_abs : Nat]
  BY DEF RingInv, RaceTypes
<1>5. gone \in Nat
  <2>1. Slot(buf.start_abs) \in Slots
    BY <1>3, SlotFacts
  <2>2. QED
    BY <2>1, FieldTypes DEF RingInv
<1>6. len >= N
  BY <1>1 DEF RingInv, Counters
<1> HIDE DEF len, gone
<1>7. ~FirstRound(w)
  BY <1>3, <1>6, RaceAssumption
<1>8. /\ buf' \in [w_abs : Nat, start_abs : Nat, w_char_abs : Nat, start_char_abs : Nat]
      /\ buf'.w_abs = buf.w_abs /\ buf'.w_char_abs = buf.w_char_abs
      /\ buf'.start_abs = buf.start_abs
  <2>1. buf.start_char_abs + gone \in Nat
    BY <1>3, <1>5
  <2>2. QED
    BY <1>1, <1>4, <2>1
<1>9. /\ RaceTypes' /\ Cuts(w)' /\ Ring(w)' /\ Accumulator(w)' /\ Owners'
      /\ FirstRound(w)' <=> FirstRound(w)
      /\ \A i : LineEnd(i)' = LineEnd(i)
      /\ write'[w].pc = "count"
  BY <1>1, <1>2, <1>8, StoredFrame
<1>10. Counters(w)'
  <2>1. Plus(w, Counted)' = 0 /\ Plus(w, Moved)' = 1 /\ Plus(w, {"free"})' = 0
    BY <1>9 DEF Plus, Counted, Moved
  <2>2. Len(log') = len /\ len + 0 = len /\ LineEnd(len + 0)' = LineEnd(len)
    BY <1>1, <1>3, <1>9 DEF len
  <2>3. (buf.start_abs = Oldest(Len(log) + 1))' /\ (buf.w_char_abs = LineEnd(Len(log) + 0))'
    BY <1>3, <1>8, <2>2 DEF Oldest, len
  <2>4. QED
    BY <1>3, <1>7, <1>8, <1>9, <2>1, <2>2, <2>3 DEF Counters
<1>11. QED
  BY <1>1, <1>7, <1>9, <1>10 DEF WriterStep, RingInv

\* Readers see one line more.
LEMMA CountLineKeeps ==
  ASSUME NEW w \in Writer, RingInv(w), CountLine(w)
  PROVE  WriterStep(w)
<1> DEFINE len == Len(log)
<1>1. /\ UNCHANGED <<entry, tmp_entry, heap, read, accepted, log, broken>>
      /\ write[w].pc = "count" /\ WriteGo(w, "chars")
      /\ buf' = [buf EXCEPT !.w_abs = @ + 1]
  BY AfterPlaces DEF CountLine, WriteAt, WriteNext
<1>2. /\ write[w].pc \in Stored /\ "chars" \in Stored
      /\ Plus(w, Counted) = 0 /\ Plus(w, {"free"}) = 0 /\ Plus(w, Moved) = 1
  BY <1>1 DEF Plus, Stored, Moved, Counted
<1>3. /\ len \in Nat /\ buf.w_abs = len /\ buf.start_abs = Oldest(len + 1)
      /\ buf.w_char_abs = LineEnd(len)
      /\ buf.w_abs \in Nat /\ buf.w_char_abs \in Nat /\ buf.start_abs \in Nat
      /\ LineEnd(len) < LineEnd(len + 1)
  <2>1. len \in Nat /\ len + 0 = len
    BY <1>2, StoredCounts
  <2>2. QED
    BY <1>2, <2>1, StoredCounts
<1>4. buf \in [w_abs : Nat, start_abs : Nat, w_char_abs : Nat, start_char_abs : Nat]
  BY DEF RingInv, RaceTypes
<1> HIDE DEF len
<1>5. /\ buf' \in [w_abs : Nat, start_abs : Nat, w_char_abs : Nat, start_char_abs : Nat]
      /\ buf'.w_abs = len + 1 /\ buf'.w_char_abs = buf.w_char_abs
      /\ buf'.start_abs = buf.start_abs /\ buf'.start_char_abs = buf.start_char_abs
  BY <1>1, <1>3, <1>4
<1>6. /\ RaceTypes' /\ Cuts(w)' /\ Ring(w)' /\ Accumulator(w)' /\ Owners'
      /\ FirstRound(w)' <=> FirstRound(w)
      /\ \A i : LineEnd(i)' = LineEnd(i)
      /\ write'[w].pc = "chars"
  BY <1>1, <1>2, <1>5, StoredFrame
<1>7. Counters(w)'
  <2>1. Plus(w, Counted)' = 1 /\ Plus(w, Moved)' = 1 /\ Plus(w, {"free"})' = 0
    BY <1>6 DEF Plus, Counted, Moved
  <2>2. Len(log') = len /\ len + 0 = len /\ LineEnd(len + 0)' = LineEnd(len)
    BY <1>1, <1>3, <1>6 DEF len
  <2>3. (buf.start_abs = Oldest(Len(log) + 1))' /\ (buf.w_char_abs = LineEnd(Len(log) + 0))'
    BY <1>3, <1>5, <2>2 DEF Oldest, len
  <2>4. FirstRound(w) => buf.start_char_abs = 0
    BY DEF RingInv, Counters
  <2>5. QED
    BY <1>3, <1>5, <1>6, <2>1, <2>2, <2>3, <2>4 DEF Counters
<1>8. Forward
  BY <1>1, <1>3, <1>5, <1>6 DEF Forward
<1>9. QED
  BY <1>1, <1>6, <1>7, <1>8 DEF WriterStep, RingInv

LEMMA CountCharsKeeps ==
  ASSUME NEW w \in Writer, RingInv(w), CountChars(w)
  PROVE  WriterStep(w)
<1> DEFINE len == Len(log)
<1>1. /\ UNCHANGED <<entry, tmp_entry, heap, read, accepted, log, broken>>
      /\ write[w].pc = "chars" /\ WriteGo(w, "free")
      /\ buf' = [buf EXCEPT !.w_char_abs = @ + tmp_entry.size]
  BY AfterPlaces DEF CountChars, WriteAt, WriteNext
<1>2. /\ write[w].pc \in Stored /\ "free" \in Stored
      /\ Plus(w, Counted) = 1 /\ Plus(w, {"free"}) = 0 /\ Plus(w, Moved) = 1
  BY <1>1 DEF Plus, Stored, Moved, Counted
<1>3. /\ len \in Nat /\ buf.w_abs = len + 1 /\ buf.start_abs = Oldest(len + 1)
      /\ buf.w_char_abs = LineEnd(len) /\ LineEnd(len + 1) = accepted
      /\ tmp_entry.size = accepted - LineEnd(len) /\ LineEnd(len) < accepted
      /\ buf.w_abs \in Nat /\ buf.w_char_abs \in Nat /\ buf.start_abs \in Nat
      /\ accepted \in Nat
  <2>1. len \in Nat /\ len + 0 = len
    BY <1>2, StoredCounts
  <2>2. QED
    BY <1>2, <2>1, StoredCounts
<1>4. buf \in [w_abs : Nat, start_abs : Nat, w_char_abs : Nat, start_char_abs : Nat]
  BY DEF RingInv, RaceTypes
<1> HIDE DEF len
<1>5. /\ buf' \in [w_abs : Nat, start_abs : Nat, w_char_abs : Nat, start_char_abs : Nat]
      /\ buf'.w_abs = buf.w_abs /\ buf'.w_char_abs = accepted
      /\ buf'.start_abs = buf.start_abs /\ buf'.start_char_abs = buf.start_char_abs
  <2>1. buf.w_char_abs + tmp_entry.size = accepted
    BY <1>3
  <2>2. QED
    BY <1>1, <1>3, <1>4, <2>1
<1>6. /\ RaceTypes' /\ Cuts(w)' /\ Ring(w)' /\ Accumulator(w)' /\ Owners'
      /\ FirstRound(w)' <=> FirstRound(w)
      /\ \A i : LineEnd(i)' = LineEnd(i)
      /\ write'[w].pc = "free"
  BY <1>1, <1>2, <1>5, StoredFrame
<1>7. Counters(w)'
  <2>1. Plus(w, Counted)' = 1 /\ Plus(w, Moved)' = 1 /\ Plus(w, {"free"})' = 1
    BY <1>6 DEF Plus, Counted, Moved
  <2>2. Len(log') = len /\ LineEnd(len + 1)' = LineEnd(len + 1)
    BY <1>1, <1>3, <1>6 DEF len
  <2>3. (buf.start_abs = Oldest(Len(log) + 1))' /\ (buf.w_char_abs = LineEnd(Len(log) + 1))'
    BY <1>3, <1>5, <2>2 DEF Oldest, len
  <2>4. FirstRound(w) => buf.start_char_abs = 0
    BY DEF RingInv, Counters
  <2>5. QED
    BY <1>3, <1>5, <1>6, <2>1, <2>2, <2>3, <2>4 DEF Counters
<1>8. Forward
  BY <1>1, <1>3, <1>5, <1>6 DEF Forward
<1>9. QED
  BY <1>1, <1>6, <1>7, <1>8 DEF WriterStep, RingInv

\* The accumulator is given up and the line is committed: nothing moves in the stream.
LEMMA FreeTmpKeeps ==
  ASSUME NEW w \in Writer, RingInv(w), FreeTmp(w)
  PROVE  WriterStep(w)
<1> DEFINE len == Len(log)
           row == [from |-> LineEnd(len), to |-> accepted]
<1>1. RaceTypes /\ Cuts(w) /\ Counters(w) /\ Ring(w) /\ Owners /\ heap \in Seq(HeapBlock)
  BY DEF RingInv, RaceTypes
<1>2. /\ UNCHANGED <<buf, entry, read, accepted>>
      /\ write[w].pc = "free" /\ WriteGo(w, "idle")
      /\ tmp_entry' = [tmp_entry EXCEPT !.size = 0]
  BY DEF FreeTmp, WriteAt
<1>3. /\ write[w].pc \in Stored /\ write[w].pc \in Taking /\ write[w].pc \in Whole
      /\ "idle" \in WritePlaces
      /\ \A P \in {Taking, Stored, Counted, Moved, {"free"}} : Plus(w, P) = 1
  BY <1>2 DEF Plus, WritePlaces, Whole, Taking, Stored, Moved, Counted
<1>4. /\ len \in Nat /\ Len(heap) \in Nat /\ accepted \in Nat /\ LineEnd(len) \in Nat
      /\ LineEnd(len) < accepted /\ LineEnd(len + 1) = accepted
      /\ tmp_entry.ptr \in 1..Len(heap) /\ Live(tmp_entry.ptr)
  BY <1>1, <1>3, WholeFacts, TakenFacts
<1>5. /\ write' \in [Writer -> WriteCall] /\ write'[w].pc = "idle"
  BY <1>1, <1>2, <1>3, GoFacts
<1>6. /\ \A P \in {Taking, Stored, Counted, Moved, {"free"}} : Plus(w, P)' = 0
      /\ write'[w].pc \notin Taking /\ write'[w].pc \notin Whole \cup Growing
  BY <1>5 DEF Plus, Whole, Taking, Stored, Moved, Counted, Growing
<1>7. /\ tmp_entry' \in [ptr : Nat, size : Nat]
      /\ tmp_entry'.ptr = tmp_entry.ptr /\ tmp_entry'.size = 0
  BY <1>1, <1>2 DEF RaceTypes
<1>8. log' = Append(log, row)
  <2>1. write[w].first + write[w].n = accepted
    BY <1>1, <1>2 DEF Cuts
  <2>2. log \in Seq([from : Nat, to : Nat])
    BY <1>1 DEF RaceTypes
  <2>3. LineEnd(len) = IF log = <<>> THEN 0 ELSE log[Len(log)].to
    BY <1>4, <2>2 DEF LineEnd
  <2>4. QED
    BY <2>1, <2>3 DEF FreeTmp
<1>9. row \in [from : Nat, to : Nat] /\ row.from = LineEnd(len) /\ row.to = accepted
  BY <1>4
<1> HIDE DEF row
<1>10. /\ log' \in Seq([from : Nat, to : Nat]) /\ Len(log') = len + 1
       /\ \A i \in 1..len : log'[i] = log[i]
       /\ log'[len + 1] = row
  <2>1. log \in Seq([from : Nat, to : Nat])
    BY <1>1 DEF RaceTypes
  <2>2. QED
    BY <1>8, <1>9, <2>1
<1> HIDE DEF len
<1>11. \A i \in Nat : LineEnd(i)' = LineEnd(i)
  <2>1. SUFFICES ASSUME NEW i \in Nat
                 PROVE  LineEnd(i)' = LineEnd(i)
    OBVIOUS
  <2>2. LineEnd(i)' = IF i = 0 THEN 0 ELSE IF i <= len + 1 THEN log'[i].to ELSE accepted
    BY <1>2, <1>10 DEF LineEnd
  <2>3. LineEnd(i) = IF i = 0 THEN 0 ELSE IF i <= len THEN log[i].to ELSE accepted
    BY DEF LineEnd, len
  <2>4. CASE i = 0
    BY <2>2, <2>3, <2>4
  <2>5. CASE i \in 1..len
    <3>1. i # 0 /\ i <= len /\ i <= len + 1
      BY <1>4, <2>5
    <3>2. log'[i] = log[i]
      BY <1>10, <2>5
    <3>3. QED
      BY <2>2, <2>3, <3>1, <3>2
  <2>6. CASE i = len + 1
    BY <1>4, <1>9, <1>10, <2>2, <2>3, <2>6
  <2>7. CASE i > len + 1
    BY <1>4, <2>2, <2>3, <2>7
  <2>8. QED
    BY <1>4, <2>4, <2>5, <2>6, <2>7
<1>12. /\ LinesTaken(w) = len + 1 /\ LinesTaken(w)' = len + 1
       /\ LinesStored(w) = len + 1 /\ LinesStored(w)' = len + 1
  BY <1>3, <1>4, <1>6, <1>10 DEF LinesTaken, LinesStored, len
<1>13. /\ heap' \in Seq(HeapBlock) /\ Len(heap') = Len(heap) /\ broken' = broken
       /\ \A p \in 1..Len(heap) : p # tmp_entry.ptr => heap'[p] = heap[p]
  <2>1. Free(tmp_entry.ptr) /\ broken' = broken
    BY <1>4 DEF FreeTmp
  <2>2. QED
    BY <1>1, <1>4, <2>1, FreeFacts
<1>14. RaceTypes'
  BY <1>1, <1>2, <1>5, <1>7, <1>10, <1>13 DEF RaceTypes
<1>15. Owners'
  BY <1>1, <1>2, <1>4, <1>7, <1>13, OwnersKept
<1>16. LineEnd(Len(log))' = accepted
  BY <1>2, <1>4, <1>9, <1>10 DEF LineEnd
<1>17. Cuts(w)'
  <2>1. ASSUME NEW i \in 1..(len + 1)
        PROVE  log'[i].from = LineEnd(i - 1)' /\ LineEnd(i - 1)' < LineEnd(i)'
    <3>1. i \in Nat /\ i - 1 \in Nat /\ (i \in 1..len \/ i = len + 1)
      BY <1>4
    <3>2. LineEnd(i - 1)' = LineEnd(i - 1) /\ LineEnd(i)' = LineEnd(i)
      BY <1>11, <3>1
    <3>3. CASE i \in 1..len
      BY <1>1, <1>10, <3>2, <3>3 DEF Cuts, len
    <3>4. CASE i = len + 1
      <4>1. i - 1 = len
        BY <1>4, <3>4
      <4>2. QED
        BY <1>4, <1>9, <1>10, <3>2, <3>4, <4>1
    <3>5. QED
      BY <3>1, <3>3, <3>4
  <2>2. QED
    BY <1>2, <1>4, <1>5, <1>10, <1>16, <2>1 DEF Cuts
<1>18. Accumulator(w)'
  BY <1>2, <1>4, <1>5, <1>6, <1>7, <1>16 DEF Accumulator, Growing
<1>19. Ring(w)'
  <2>1. ASSUME NEW i \in Oldest(len + 1)..len
        PROVE  LineIn(i)'
    <3>1. i \in Nat /\ i + 1 \in Nat /\ (len + 1) - 1 = len
      BY <1>4, RaceAssumption DEF Oldest
    <3>2. LineIn(i)
      BY <1>1, <1>12, <3>1 DEF Ring
    <3>3. Slot(i) \in Slots
      BY <3>1, SlotFacts
    <3>4. entry[Slot(i)].ptr \in 1..Len(heap)
      BY <3>2 DEF LineIn, Block
    <3>5. entry[Slot(i)].ptr # tmp_entry.ptr
      BY <1>1, <3>3, <3>4 DEF Owners
    <3>6. heap'[entry[Slot(i)].ptr] = heap[entry[Slot(i)].ptr]
      BY <1>13, <3>4, <3>5
    <3>7. LineEnd(i)' = LineEnd(i) /\ LineEnd(i + 1)' = LineEnd(i + 1)
      BY <1>11, <3>1
    <3>8. QED
      BY <1>2, <1>4, <1>13, <3>2, <3>6, <3>7, LineKept
  <2>2. (\A i \in Oldest(LinesTaken(w))..(LinesStored(w) - 1) : LineIn(i))'
    <3>1. (len + 1) - 1 = len
      BY <1>4
    <3>2. QED
      BY <1>12, <2>1, <3>1 DEF Oldest
  <2>3. \A t \in Slots : t >= LinesTaken(w)' => entry'[t] = NoBlock
    BY <1>1, <1>2, <1>12 DEF Ring
  <2>4. write'[w].pc # "fill" /\ write'[w].pc # "size"
    BY <1>5
  <2>5. QED
    BY <1>6, <2>2, <2>3, <2>4 DEF Ring, Slots
<1>20. FirstRound(w)' <=> FirstRound(w)
  BY <1>12 DEF FirstRound
<1>21. Counters(w)'
  <2>1. /\ buf.w_abs = len + 1 /\ buf.start_abs = Oldest(len + 1)
        /\ buf.w_char_abs = LineEnd(len + 1)
        /\ FirstRound(w) => buf.start_char_abs = 0
    BY <1>1, <1>3 DEF Counters, len
  <2>2. /\ Len(log') + Plus(w, Counted)' = len + 1 /\ Len(log') + Plus(w, Moved)' = len + 1
        /\ Len(log') + Plus(w, {"free"})' = len + 1
    BY <1>4, <1>6, <1>10
  <2>3. (buf.start_abs = Oldest(Len(log) + Plus(w, Moved)))'
    BY <1>2, <2>1, <2>2 DEF Oldest
  <2>4. (buf.w_char_abs = LineEnd(Len(log) + Plus(w, {"free"})))'
    <3>1. (Len(log) + Plus(w, {"free"}) = Len(log))'
      BY <1>4, <1>6, <1>10
    <3>2. buf'.w_char_abs = accepted
      BY <1>2, <1>4, <2>1
    <3>3. QED
      BY <1>16, <3>1, <3>2
  <2>5. write'[w].pc # "evicted"
    BY <1>5
  <2>6. QED
    BY <1>2, <1>20, <2>1, <2>2, <2>3, <2>4, <2>5 DEF Counters
<1>22. Forward
  <2>1. buf.w_abs \in Nat /\ buf.w_char_abs \in Nat
    BY <1>1, FieldTypes
  <2>2. \A i \in 0..buf.w_abs : LineEnd(i)' = LineEnd(i)
    BY <1>11, <2>1
  <2>3. QED
    BY <1>2, <2>1, <2>2 DEF Forward
<1>23. QED
  BY <1>2, <1>13, <1>14, <1>15, <1>17, <1>18, <1>19, <1>20, <1>21, <1>22 DEF WriterStep, RingInv

\* A statement of add_entry, whichever it is.
LEMMA WriteKeeps ==
  ASSUME NEW w \in Writer, RingInv(w), Write(w)
  PROVE  WriterStep(w)
<1>1. CASE \E n \in 1..MaxChunk, last \in BOOLEAN : StartWrite(w, n, last)
  BY <1>1, StartWriteKeeps
<1>2. CASE Grow(w) \/ AllocTmp(w) \/ ClearTmp(w) \/ Carry(w) \/ AppendChunk(w) \/ Grown(w)
  BY <1>2, GrowKeeps, AllocTmpKeeps, ClearTmpKeeps, CarryKeeps, AppendChunkKeeps, GrownKeeps
<1>3. CASE Target(w) \/ StoreBlock(w) \/ FillBlock(w) \/ StoreSize(w)
  BY <1>3, TargetKeeps, StoreBlockKeeps, FillBlockKeeps, StoreSizeKeeps
<1>4. CASE Evict(w) \/ EvictChars(w) \/ CountLine(w) \/ CountChars(w) \/ FreeTmp(w)
  BY <1>4, EvictKeeps, EvictCharsKeeps, CountLineKeeps, CountCharsKeeps, FreeTmpKeeps
<1>5. QED
  BY <1>1, <1>2, <1>3, <1>4 DEF Write

-----------------------------------------------------------------------------
(* Readers beside the writer, until a slot is used again *)

\* What a step of the writer does to a read under way: it stays right, because
\* the text it goes by only grows.
LEMMA ReadKept ==
  ASSUME NEW w \in Writer, RaceTypes, RaceTypes', NEW r \in Reader, ReadCorrect(read[r]),
         Forward, read' = read
  PROVE  ReadCorrect(read[r])'
<1> DEFINE c == read[r]
           n == buf.w_abs
<1>1. /\ n \in Nat /\ n' \in Nat /\ n <= n'
      /\ buf.w_char_abs \in Nat /\ buf'.w_char_abs \in Nat /\ buf.w_char_abs <= buf'.w_char_abs
  <2>1. n \in Nat /\ buf.w_char_abs \in Nat
    BY FieldTypes
  <2>2. n' \in Nat /\ buf'.w_char_abs \in Nat
    BY DEF RaceTypes
  <2>3. QED
    BY <2>1, <2>2 DEF Forward
<1>2. /\ \A i \in 0..n : LineEnd(i)' = LineEnd(i)
      /\ \A i \in 0..(n - 1) : entry'[i] = entry[i]
      /\ n' # n => \A i : i = n => LineEnd(i)' < LineEnd(i + 1)'
  BY DEF Forward
<1>3. \A i \in 0..(n - 1) : LineEnd(i + 1)' = LineEnd(i + 1)
  <2>1. \A i \in 0..(n - 1) : i + 1 \in 0..n
    BY <1>1
  <2>2. QED
    BY <1>2, <2>1
<1>4. /\ c \in ReadCall
      /\ c.pc \notin {"idle", "done"} => c.pos <= c.text /\ c.text <= buf.w_char_abs /\ c.len > 0
      /\ c.pc = "done" /\ c.pos < c.text =>
           c.data = Bytes(c.pos, c.pos + Len(c.data)) /\ Len(c.data) >= Min({c.len, c.text - c.pos})
      /\ Searching(c) /\ Found(c) /\ Copying(c)
  BY DEF ReadCorrect
<1>5. c' = c
  OBVIOUS
<1>6. c.text \in Nat /\ c.pos \in Nat /\ c.i \in Int /\ c.ofs \in Int
  BY <1>4 DEF ReadCall
<1> HIDE DEF c, n
<1>7. Searching(c)'
  <2>1. /\ c.pc = "probe" => c.i = 0 \/ c.i \in 1..(n' - 1)
        /\ c.pc = "past" => c.i \in 1..n'
    BY <1>1, <1>4, <1>6 DEF Searching, n
  <2>2. c.pc \in {"probe", "past"} => LineEnd(c.i)' = LineEnd(c.i)
    <3>1. c.pc \in {"probe", "past"} => c.i \in 0..n
      BY <1>1, <1>4, <1>6 DEF Searching, n
    <3>2. QED
      BY <1>2, <1>5, <3>1
  <2>3. QED
    BY <1>4, <1>5, <2>1, <2>2 DEF Searching, n
<1>8. Found(c)'
  <2>1. SUFFICES ASSUME c.pc = "take"
                 PROVE  Found(c)'
    BY <1>5 DEF Found
  <2>2. c.i \in 0..n /\ c.i \in 0..n' /\ c.data = <<>> /\ LineEnd(c.i)' = LineEnd(c.i)
    <3>1. c.i \in 0..n /\ c.data = <<>>
      BY <1>4, <2>1 DEF Found, n
    <3>2. QED
      BY <1>1, <1>2, <1>5, <3>1
  <2>3. CASE c.ofs = -1 /\ c.text <= c.pos
    BY <1>5, <2>2, <2>3 DEF Found, n
  <2>4. CASE /\ c.ofs \in Nat /\ c.pos = LineEnd(c.i) + c.ofs
             /\ IF c.i = n THEN c.ofs = 0 ELSE c.pos < LineEnd(c.i + 1)
    <3>1. c.i # n' => c.pos < LineEnd(c.i + 1)'
      <4>1. CASE c.i = n
        <5>1. SUFFICES ASSUME c.i # n'
                       PROVE  c.pos < LineEnd(c.i + 1)'
          OBVIOUS
        <5>2. LineEnd(c.i)' < LineEnd(c.i + 1)'
          BY <1>2, <1>5, <4>1, <5>1
        <5>3. c.pos = LineEnd(c.i)
          <6>1. LineEnd(c.i) \in Nat /\ c.ofs = 0
            BY <2>2, <2>4, <4>1, LineEndNat
          <6>2. QED
            BY <2>4, <6>1
        <5>4. QED
          BY <2>2, <5>2, <5>3
      <4>2. CASE c.i # n
        <5>1. c.i \in 0..(n - 1)
          BY <1>1, <2>2, <4>2
        <5>2. QED
          BY <1>3, <1>5, <2>4, <4>2, <5>1
      <4>3. QED
        BY <4>1, <4>2
    <3>2. c.i = n' => c.ofs = 0
      BY <1>1, <2>2, <2>4
    <3>3. QED
      BY <1>5, <2>2, <2>4, <3>1, <3>2 DEF Found, n
  <2>5. QED
    BY <1>4, <2>1, <2>3, <2>4 DEF Found, n
<1>9. Copying(c)'
  <2>1. c.pc \in {"load", "copy"} => c.i \in 0..(n - 1) /\ c.i \in 0..(n' - 1)
    BY <1>1, <1>4 DEF Copying, n
  <2>2. c.pc \in {"load", "copy", "next"} => c.i \in 0..n /\ c.i \in 0..n'
    BY <1>1, <1>4 DEF Copying, n
  <2>3. c.pc \in {"load", "copy", "next"} => LineEnd(c.i)' = LineEnd(c.i)
    BY <1>2, <1>5, <2>2
  <2>4. c.pc \in {"load", "copy"} => LineEnd(c.i + 1)' = LineEnd(c.i + 1) /\ entry'[c.i] = entry[c.i]
    BY <1>2, <1>3, <1>5, <2>1
  <2>5. c.pc = "next" => c.i \in 1..n'
    BY <1>1, <1>4 DEF Copying, n
  <2>6. Bytes(c.pos, c.pos + Len(c.data))' = Bytes(c.pos, c.pos + Len(c.data))
    BY <1>5 DEF Bytes
  <2>7. QED
    BY <1>4, <1>5, <2>1, <2>3, <2>4, <2>5, <2>6 DEF Copying, n
<1>10. c.pc \notin {"idle", "done"} => c.text <= buf'.w_char_abs
  BY <1>1, <1>4, <1>6
<1>11. Bytes(c.pos, c.pos + Len(c.data))' = Bytes(c.pos, c.pos + Len(c.data))
  BY <1>5 DEF Bytes
<1>12. ReadCorrect(c)'
  BY <1>4, <1>5, <1>7, <1>8, <1>9, <1>10, <1>11 DEF ReadCorrect
<1>13. QED
  BY <1>12 DEF c

\* What readers find in the first round: line i is in slot i, whole.
LEMMA FirstRoundFacts ==
  ASSUME NEW w \in Writer, RingInv(w), FirstRound(w)
  PROVE  /\ buf.start_abs = 0 /\ buf.start_char_abs = 0
         /\ buf.w_abs \in Nat /\ buf.w_char_abs \in Nat /\ buf.w_abs <= N
         /\ buf.w_char_abs <= LineEnd(buf.w_abs) /\ LineEnd(0) = 0
         /\ \A i \in 0..buf.w_abs : LineEnd(i) \in Nat
         /\ \A i \in 0..(buf.w_abs - 1) :
              /\ i \in Slots /\ Slot(i) = i /\ LineEnd(i) < LineEnd(i + 1)
              /\ entry[i].size = LineEnd(i + 1) - LineEnd(i)
              /\ Block(entry[i].ptr, Bytes(LineEnd(i), LineEnd(i + 1)))
<1> DEFINE n == buf.w_abs
<1>1. RaceTypes /\ Cuts(w) /\ Counters(w) /\ Ring(w)
  BY DEF RingInv
<1>2. /\ Plus(w, Counted) \in 0..1 /\ Plus(w, Moved) \in 0..1 /\ Plus(w, {"free"}) \in 0..1
      /\ Plus(w, Stored) \in 0..1 /\ Plus(w, Taking) \in 0..1
      /\ Plus(w, {"free"}) <= Plus(w, Counted) /\ Plus(w, Counted) <= Plus(w, Moved)
      /\ Plus(w, Moved) <= Plus(w, Stored) /\ Plus(w, Stored) <= Plus(w, Taking)
      /\ Plus(w, {"free"}) = 1 \/ Plus(w, Counted) = 1 => write[w].pc # "idle"
  BY DEF Plus, Counted, Moved, Stored, Taking
<1>3. Len(log) \in Nat /\ N \in Nat \ {0} /\ N \in Int
  BY <1>1, LogTypes, RaceAssumption
<1>4. Len(log) + Plus(w, Taking) <= N
  BY DEF FirstRound, LinesTaken
<1>5. n = Len(log) + Plus(w, Counted) /\ n \in Nat /\ n <= N
  <2>1. n = Len(log) + Plus(w, Counted)
    BY <1>1 DEF Counters
  <2>2. QED
    BY <1>2, <1>3, <1>4, <2>1
<1>6. buf.start_abs = 0 /\ buf.start_char_abs = 0
  <2>1. Len(log) + Plus(w, Moved) <= N
    BY <1>2, <1>3, <1>4
  <2>2. QED
    BY <1>1, <2>1 DEF Counters, Oldest
<1>7. /\ \A i \in 0..(Len(log) - 1) : LineEnd(i) < LineEnd(i + 1)
      /\ LineEnd(Len(log)) <= accepted
      /\ write[w].pc # "idle" => LineEnd(Len(log)) < accepted
      /\ LineEnd(Len(log) + 1) = accepted
  BY <1>1, LinesGrow
<1>8. \A i \in 0..n : LineEnd(i) \in Nat
  BY <1>1, <1>5, LineEndNat
<1>9. \A i \in 0..(n - 1) : LineEnd(i) < LineEnd(i + 1)
  <2>1. SUFFICES ASSUME NEW i \in 0..(n - 1)
                 PROVE  LineEnd(i) < LineEnd(i + 1)
    OBVIOUS
  <2>2. CASE i \in 0..(Len(log) - 1)
    BY <1>7, <2>2
  <2>3. CASE i \notin 0..(Len(log) - 1)
    <3>1. i = Len(log) /\ Plus(w, Counted) = 1
      BY <1>2, <1>3, <1>5, <2>3
    <3>2. QED
      BY <1>2, <1>7, <3>1
  <2>4. QED
    BY <2>2, <2>3
<1>10. buf.w_char_abs \in Nat /\ buf.w_char_abs <= LineEnd(n)
  <2>1. buf.w_char_abs = LineEnd(Len(log) + Plus(w, {"free"})) /\ buf.w_char_abs \in Nat
    BY <1>1, FieldTypes DEF Counters
  <2>2. CASE Plus(w, {"free"}) = Plus(w, Counted)
    BY <1>5, <1>8, <2>1, <2>2
  <2>3. CASE Plus(w, {"free"}) # Plus(w, Counted)
    <3>1. Plus(w, {"free"}) = 0 /\ Plus(w, Counted) = 1
      BY <1>2, <2>3
    <3>2. Len(log) + Plus(w, {"free"}) = Len(log) /\ n = Len(log) + 1
      BY <1>3, <1>5, <3>1
    <3>3. LineEnd(Len(log)) <= LineEnd(n)
      BY <1>7, <3>2
    <3>4. QED
      BY <2>1, <3>2, <3>3
  <2>4. QED
    BY <2>2, <2>3
<1>11. ASSUME NEW i \in 0..(n - 1)
       PROVE  /\ i \in Slots /\ Slot(i) = i
              /\ entry[i].size = LineEnd(i + 1) - LineEnd(i)
              /\ Block(entry[i].ptr, Bytes(LineEnd(i), LineEnd(i + 1)))
  <2>1. i \in 0..(N - 1)
    BY <1>3, <1>5
  <2>2. i \in Slots /\ Slot(i) = i
    BY <2>1, SlotFacts DEF Slots
  <2>3. Oldest(LinesTaken(w)) = 0
    BY DEF FirstRound, Oldest
  <2>4. i \in 0..(LinesStored(w) - 1)
    <3>1. LinesStored(w) = Len(log) + Plus(w, Stored) /\ n <= Len(log) + Plus(w, Stored)
      BY <1>2, <1>3, <1>5 DEF LinesStored
    <3>2. Len(log) + Plus(w, Stored) \in Nat
      BY <1>2, <1>3
    <3>3. QED
      BY <1>5, <3>1, <3>2
  <2>5. LineIn(i)
    BY <1>1, <2>3, <2>4 DEF Ring
  <2>6. QED
    BY <2>2, <2>5 DEF LineIn
<1>12. LineEnd(0) = 0
  BY DEF LineEnd
<1>13. QED
  BY <1>5, <1>6, <1>8, <1>9, <1>10, <1>11, <1>12

\* A step of one reader: the others go on as they were, and a fault of the first
\* round is the unset offset at the end of the text.
ReaderStep(w, r) ==
  /\ UNCHANGED shared
  /\ DOMAIN read' = Reader /\ \A o \in Reader \ {r} : read'[o] = read[o]
  /\ FirstRound(w) => ReadCorrect(read'[r])
  /\ broken' \in ReaderFaults \cup {"no"}
  /\ FirstRound(w) /\ broken' # "no" =>
       /\ broken' = "unset offset" /\ read' = read
       /\ read[r].pc = "take" /\ read[r].pos >= read[r].text

LEMMA SharedKept ==
  ASSUME NEW w \in Writer, RingInv(w), UNCHANGED shared
  PROVE  /\ RingInv(w)' /\ (FirstRound(w)' <=> FirstRound(w))
         /\ \A c : ReadCorrect(c) => ReadCorrect(c)'
<1>1. UNCHANGED <<buf, entry, tmp_entry, heap, write, accepted, log>>
  BY DEF shared
<1>2. /\ RaceTypes /\ Cuts(w) /\ Counters(w) /\ Ring(w) /\ Accumulator(w) /\ Owners
  BY DEF RingInv
<1>3. \A i : LineEnd(i)' = LineEnd(i)
  BY <1>1, LinesKept
<1>4. RaceTypes'
  BY <1>1, <1>2 DEF RaceTypes
<1>5. Cuts(w)'
  BY <1>1, <1>2 DEF Cuts, LineEnd
<1>6. FirstRound(w)' <=> FirstRound(w)
  BY <1>1 DEF FirstRound, LinesTaken, Plus
<1>7. Counters(w)'
  BY <1>1, <1>2, <1>6 DEF Counters, LineEnd, Plus, Oldest
<1>8. Ring(w)'
  BY <1>1, <1>2 DEF Ring, LineIn, LinesTaken, LinesStored, Plus, Oldest, LineEnd, Block, Bytes,
                    Roomy, Live, Room, Slot, Slots
<1>9. Accumulator(w)'
  BY <1>1, <1>2 DEF Accumulator, LineEnd, Block, Bytes, Roomy, Live, Room
<1>10. Owners'
  BY <1>1, <1>2 DEF Owners, Slots
<1>11. \A c : ReadCorrect(c) => ReadCorrect(c)'
  BY <1>1 DEF ReadCorrect, Searching, Found, Copying, LineEnd, Bytes
<1>12. QED
  BY <1>4, <1>5, <1>6, <1>7, <1>8, <1>9, <1>10, <1>11 DEF RingInv

LEMMA ReaderStepKeeps ==
  ASSUME NEW w \in Writer, RaceInv(w), NEW r \in Reader, ReaderStep(w, r)
  PROVE  RaceInv(w)'
<1>1. RingInv(w) /\ Readers(w) /\ UNCHANGED shared
  BY DEF RaceInv, ReaderStep
<1>2. /\ RingInv(w)' /\ (FirstRound(w)' <=> FirstRound(w))
      /\ \A c : ReadCorrect(c) => ReadCorrect(c)'
  BY <1>1, SharedKept
<1>3. Readers(w)'
  <2>1. DOMAIN read' = Reader
    BY DEF ReaderStep
  <2>2. ASSUME FirstRound(w), NEW o \in Reader
        PROVE  ReadCorrect(read'[o])
    <3>1. CASE o = r
      BY <2>2, <3>1 DEF ReaderStep
    <3>2. CASE o # r
      BY <1>1, <2>2, <3>2 DEF ReaderStep, Readers
    <3>3. QED
      BY <3>1, <3>2
  <2>3. ASSUME FirstRound(w), NEW o \in Reader
        PROVE  ReadCorrect(read[o])'
    BY <1>2, <2>2, <2>3
  <2>4. QED
    BY <1>2, <2>1, <2>3 DEF Readers
<1>4. Faults(w)'
  BY <1>2 DEF ReaderStep, Faults, ReaderFaults
<1>5. QED
  BY <1>2, <1>3, <1>4 DEF RaceInv

\* The read goes on as d.
LEMMA ReaderGoes ==
  ASSUME NEW w \in Writer, RaceInv(w), NEW r \in Reader, broken = "no", UNCHANGED <<shared, broken>>,
         NEW d, read' = [read EXCEPT ![r] = d], FirstRound(w) => ReadCorrect(d)
  PROVE  ReaderStep(w, r)
<1>1. DOMAIN read = Reader
  BY DEF RaceInv, Readers
<1>2. DOMAIN read' = Reader /\ read'[r] = d /\ \A o \in Reader \ {r} : read'[o] = read[o]
  BY <1>1
<1>3. QED
  BY <1>2 DEF ReaderStep

\* The read stops for good.
LEMMA ReaderStops ==
  ASSUME NEW w \in Writer, RaceInv(w), NEW r \in Reader, UNCHANGED <<shared, read>>,
         NEW what \in ReaderFaults, Break(what),
         FirstRound(w) => what = "unset offset" /\ read[r].pc = "take" /\ read[r].pos >= read[r].text
  PROVE  ReaderStep(w, r)
BY DEF ReaderStep, RaceInv, Readers, Break

\* What is known of a read that goes on in the first round.
LEMMA ReaderFacts ==
  ASSUME NEW w \in Writer, RaceInv(w), NEW r \in Reader, FirstRound(w)
  PROVE  /\ RingInv(w) /\ ReadCorrect(read[r]) /\ read[r] \in ReadCall
         /\ read[r].pos \in Nat /\ read[r].len \in Nat /\ read[r].text \in Nat
         /\ read[r].i \in Int /\ read[r].total \in Int /\ read[r].ofs \in Int /\ read[r].off \in Int
         /\ read[r].size \in Nat /\ read[r].data \in Seq(Nat) /\ Len(read[r].data) \in Nat
         /\ read[r].pc \notin {"idle", "done"} =>
              read[r].pos <= read[r].text /\ read[r].text <= buf.w_char_abs /\ read[r].len > 0
<1>1. RingInv(w) /\ ReadCorrect(read[r])
  BY DEF RaceInv, Readers
<1>2. read[r] \in ReadCall
  BY <1>1 DEF ReadCorrect
<1>3. /\ read[r].pos \in Nat /\ read[r].len \in Nat /\ read[r].text \in Nat
      /\ read[r].i \in Int /\ read[r].total \in Int /\ read[r].ofs \in Int /\ read[r].off \in Int
      /\ read[r].size \in Nat /\ read[r].data \in Seq(Nat)
  BY <1>2 DEF ReadCall
<1>4. QED
  BY <1>1, <1>2, <1>3 DEF ReadCorrect

LEMMA StartReadKeeps ==
  ASSUME NEW w \in Writer, RaceInv(w), NEW r \in Reader, broken = "no",
         NEW pos \in 0..MaxBytes, NEW len \in 1..MaxLen, StartRead(r, pos, len)
  PROVE  ReaderStep(w, r)
<1> DEFINE in == buf.start_char_abs <= pos /\ pos <= buf.w_char_abs
           d == [IdleRead EXCEPT !.pos = pos, !.len = len, !.text = buf.w_char_abs,
                                 !.pc = IF in THEN "search" ELSE "done"]
<1>1. UNCHANGED <<shared, broken>> /\ read' = [read EXCEPT ![r] = d]
  BY DEF StartRead
<1>2. ASSUME FirstRound(w)
      PROVE  ReadCorrect(d)
  <2>1. RingInv(w)
    BY DEF RaceInv
  <2>2. buf.start_char_abs = 0 /\ buf.w_char_abs \in Nat
    BY <1>2, <2>1, FirstRoundFacts
  <2>3. pos \in Nat /\ len \in Nat /\ len > 0 /\ (in <=> pos <= buf.w_char_abs)
    BY <2>2, RaceAssumption
  <2> DEFINE p == IF in THEN "search" ELSE "done"
  <2>4. /\ IdleRead \in ReadCall /\ IdleRead.data = <<>> /\ IdleRead.ofs = -1 /\ IdleRead.total = 0
        /\ p \in ReadPlaces
    BY DEF IdleRead, ReadCall, ReadPlaces
  <2>5. d = [IdleRead EXCEPT !.pos = pos, !.len = len, !.text = buf.w_char_abs, !.pc = p]
    OBVIOUS
  <2> HIDE DEF d, p
  <2>6. /\ d \in ReadCall /\ d.pos = pos /\ d.len = len /\ d.text = buf.w_char_abs /\ d.pc = p
        /\ d.data = <<>> /\ d.ofs = -1 /\ d.total = 0
    <3>1. buf.w_char_abs \in Nat
      BY <2>2
    <3>2. pos \in Nat /\ len \in Nat
      BY <2>3
    <3>3. QED
      BY <2>4, <2>5, <3>1, <3>2, Zenon DEF ReadCall
  <2>7. d.pc \in {"search", "done"} /\ (d.pc = "done" => ~(d.pos < d.text))
        /\ (d.pc = "search" => d.pos <= d.text)
    BY <2>2, <2>3, <2>6 DEF p
  <2>8. QED
    BY <2>2, <2>3, <2>6, <2>7 DEF ReadCorrect, Searching, Found, Copying
<1> HIDE DEF d
<1>3. QED
  BY <1>1, <1>2, ReaderGoes

LEMMA StartSearchKeeps ==
  ASSUME NEW w \in Writer, RaceInv(w), NEW r \in Reader, broken = "no", StartSearch(r)
  PROVE  ReaderStep(w, r)
<1> DEFINE c == read[r]
           d == [c EXCEPT !.pc = "probe", !.off = c.pos - buf.start_char_abs,
                          !.base = buf.start_abs, !.i = buf.start_abs]
<1>1. UNCHANGED <<shared, broken>> /\ c.pc = "search" /\ read' = [read EXCEPT ![r] = d]
  BY DEF StartSearch, ReadAt
<1>2. ASSUME FirstRound(w)
      PROVE  ReadCorrect(d)
  <2>1. /\ RingInv(w) /\ ReadCorrect(c) /\ c \in ReadCall /\ c.pos \in Nat
        /\ c.pos <= c.text /\ c.text <= buf.w_char_abs /\ c.len > 0
    BY <1>1, <1>2, ReaderFacts
  <2>2. buf.start_abs = 0 /\ buf.start_char_abs = 0 /\ LineEnd(0) = 0
    BY <1>2, <2>1, FirstRoundFacts
  <2>3. c.data = <<>> /\ c.ofs = -1 /\ c.total = 0
    BY <1>1, <2>1 DEF ReadCorrect, Searching
  <2>4. c.pos - buf.start_char_abs = c.pos
    BY <2>1, <2>2
  <2>5. "probe" \in ReadPlaces /\ c.pos \in Int /\ 0 \in Int
    BY <2>1 DEF ReadPlaces
  <2>6. d = [c EXCEPT !.pc = "probe", !.off = c.pos, !.base = 0, !.i = 0]
    BY <2>2, <2>4
  <2> HIDE DEF c, d
  <2>7. /\ d \in ReadCall /\ d.pc = "probe" /\ d.off = c.pos /\ d.base = 0 /\ d.i = 0
        /\ d.pos = c.pos /\ d.len = c.len /\ d.text = c.text
        /\ d.data = c.data /\ d.ofs = c.ofs /\ d.total = c.total
    <3>1. c \in ReadCall
      BY <2>1
    <3>2. QED
      BY <2>5, <2>6, <3>1, Zenon DEF ReadCall
  <2>8. QED
    BY <2>1, <2>2, <2>3, <2>7 DEF ReadCorrect, Searching, Found, Copying
<1> HIDE DEF d
<1>3. QED
  BY <1>1, <1>2, ReaderGoes

\* The loop never leaves the slots, and a slot that is being filled for line 0 is
\* probed only when nothing was there to read.
LEMMA ProbeKeeps ==
  ASSUME NEW w \in Writer, RaceInv(w), NEW r \in Reader, broken = "no", Probe(r)
  PROVE  ReaderStep(w, r)
<1> DEFINE c == read[r]
           j(base) == c.i - base
           hit(base) == \/ c.off >= 0 /\ c.total + entry[j(base)].size > c.off
                        \/ entry[j(base)].size = 0
           found == [c EXCEPT !.pc = "take", !.ofs = c.off - c.total]
           missed(base) == [c EXCEPT !.pc = "past", !.i = c.i + 1,
                                     !.total = c.total + entry[j(base)].size]
<1>1. PICK base \in {c.base, buf.start_abs} :
        IF j(base) \notin Slots THEN Break("stray index") /\ read' = read
        ELSE /\ IF hit(base) THEN read' = [read EXCEPT ![r] = found]
                ELSE read' = [read EXCEPT ![r] = missed(base)]
             /\ broken' = broken
  BY DEF Probe
<1>2. UNCHANGED shared /\ c.pc = "probe"
  BY DEF Probe, ReadAt
<1> DEFINE n == buf.w_abs
           e == entry[c.i]
<1>3. ASSUME FirstRound(w)
      PROVE  /\ j(base) = c.i /\ c.i \in Slots
             /\ hit(base) => ReadCorrect(found)
             /\ ~hit(base) => ReadCorrect(missed(base))
  <2>1. /\ RingInv(w) /\ ReadCorrect(c) /\ c \in ReadCall /\ c.pos \in Nat /\ c.text \in Nat
        /\ c.pos <= c.text /\ c.text <= buf.w_char_abs /\ c.len > 0
    BY <1>2, <1>3, ReaderFacts
  <2>2. /\ buf.start_abs = 0 /\ n \in Nat /\ n <= N /\ buf.w_char_abs \in Nat
        /\ buf.w_char_abs <= LineEnd(n) /\ LineEnd(0) = 0
        /\ \A i \in 0..n : LineEnd(i) \in Nat
        /\ \A i \in 0..(n - 1) : entry[i].size = LineEnd(i + 1) - LineEnd(i)
    BY <1>3, <2>1, FirstRoundFacts
  <2>3. /\ c.data = <<>> /\ c.ofs = -1 /\ c.base = 0 /\ c.off = c.pos
        /\ c.total = LineEnd(c.i) /\ c.total <= c.pos
        /\ c.i = 0 \/ c.i \in 1..(n - 1)
    BY <1>2, <2>1 DEF ReadCorrect, Searching
  <2>4. base = 0
    BY <2>2, <2>3
  <2>5. j(base) = c.i /\ c.i \in Slots /\ c.i \in 0..n /\ c.i \in Nat
    BY <2>2, <2>3, <2>4, RaceAssumption DEF Slots
  <2>6. e.size \in Nat
    BY <2>1, <2>5, FieldTypes DEF RingInv
  <2> DEFINE h == \/ c.off >= 0 /\ c.total + e.size > c.off
                  \/ e.size = 0
             m == [c EXCEPT !.pc = "past", !.i = c.i + 1, !.total = c.total + e.size]
  <2>7. (hit(base) <=> h) /\ missed(base) = m
    BY <2>5
  <2>8. c.total \in Nat
    BY <2>2, <2>3, <2>5
  <2>9. c.i \in 0..(n - 1) \/ (n = 0 /\ c.i = 0 /\ c.pos = 0)
    BY <2>1, <2>2, <2>3
  <2>10. c.i \in 0..(n - 1) => /\ e.size = LineEnd(c.i + 1) - LineEnd(c.i)
                               /\ LineEnd(c.i) < LineEnd(c.i + 1) /\ c.i + 1 \in 1..n
                               /\ LineEnd(c.i + 1) \in Nat
    <3>1. c.i \in 0..(n - 1) => LineEnd(c.i) < LineEnd(c.i + 1)
      BY <1>3, <2>1, FirstRoundFacts
    <3>2. c.i \in 0..(n - 1) => c.i + 1 \in 1..n
      BY <2>2
    <3>3. c.i \in 0..(n - 1) => LineEnd(c.i + 1) \in Nat
      BY <2>2, <3>2
    <3>4. QED
      BY <2>2, <3>1, <3>2, <3>3
  <2> HIDE DEF c, n, e, j, hit, missed, h, m
  <2>11. ASSUME h
         PROVE  ReadCorrect(found)
    <3>1. c.off - c.total \in Nat /\ c.pos = LineEnd(c.i) + (c.off - c.total)
      <4>1. c.off = c.pos /\ c.total = LineEnd(c.i) /\ c.total <= c.pos
        BY <2>3
      <4>2. QED
        BY <2>1, <2>8, <4>1
    <3> DEFINE ofs == c.off - c.total
    <3>2. found = [c EXCEPT !.pc = "take", !.ofs = ofs] /\ "take" \in ReadPlaces /\ ofs \in Int
      BY <3>1 DEF ReadPlaces
    <3> HIDE DEF ofs, found
    <3>3. /\ found \in ReadCall /\ found.pc = "take" /\ found.ofs = ofs
          /\ found.pos = c.pos /\ found.len = c.len /\ found.text = c.text
          /\ found.data = c.data /\ found.i = c.i
      <4>1. c \in ReadCall
        BY <2>1
      <4>2. QED
        BY <3>2, <4>1, Zenon DEF ReadCall
    <3>4. IF c.i = n THEN c.off - c.total = 0 ELSE c.pos < LineEnd(c.i + 1)
      <4>1. CASE c.i \in 0..(n - 1)
        <5>1. e.size > 0
          BY <2>2, <2>3, <2>8, <2>10, <4>1
        <5>2. c.total + e.size > c.off
          BY <2>6, <2>11, <5>1 DEF h
        <5>3. c.pos < LineEnd(c.i + 1)
          BY <2>1, <2>3, <2>8, <2>10, <4>1, <5>2
        <5>4. c.i # n
          BY <2>2, <4>1
        <5>5. QED
          BY <5>3, <5>4
      <4>2. CASE n = 0 /\ c.i = 0 /\ c.pos = 0
        BY <2>2, <2>3, <4>2
      <4>3. QED
        BY <2>9, <4>1, <4>2
    <3>5. QED
      BY <2>1, <2>3, <2>5, <3>1, <3>3, <3>4 DEF ReadCorrect, Searching, Found, Copying, n, ofs
  <2>12. ASSUME ~h
         PROVE  ReadCorrect(m)
    <3>1. c.i \in 0..(n - 1)
      <4>1. ~(n = 0 /\ c.i = 0 /\ c.pos = 0)
        BY <2>3, <2>6, <2>8, <2>12 DEF h
      <4>2. QED
        BY <2>9, <4>1
    <3>2. c.total + e.size = LineEnd(c.i + 1) /\ c.total + e.size <= c.pos
      <4>1. c.total + e.size = LineEnd(c.i + 1)
        BY <2>2, <2>3, <2>8, <2>10, <3>1
      <4>2. c.off >= 0 /\ ~(c.total + e.size > c.off)
        BY <2>1, <2>3, <2>12 DEF h
      <4>3. QED
        BY <2>1, <2>3, <2>6, <2>8, <4>1, <4>2
    <3>3. c.i + 1 \in 1..n /\ c.i + 1 \in Int /\ c.total + e.size \in Int
      BY <2>5, <2>6, <2>8, <2>10, <3>1
    <3>4. /\ m \in ReadCall /\ m.pc = "past" /\ m.i = c.i + 1 /\ m.total = c.total + e.size
          /\ m.pos = c.pos /\ m.len = c.len /\ m.text = c.text /\ m.data = c.data
          /\ m.ofs = c.ofs /\ m.base = c.base /\ m.off = c.off
      <4>1. m = [c EXCEPT !.pc = "past", !.i = c.i + 1, !.total = c.total + e.size]
            /\ "past" \in ReadPlaces
        BY DEF m, ReadPlaces
      <4>2. QED
        <5>1. c \in ReadCall
          BY <2>1
        <5>2. QED
          BY <3>3, <4>1, <5>1, Zenon DEF ReadCall
    <3>5. QED
      BY <2>1, <2>3, <3>2, <3>3, <3>4 DEF ReadCorrect, Searching, Found, Copying, n
  <2>13. QED
    BY <2>5, <2>7, <2>11, <2>12
<1> HIDE DEF j, hit, found, missed
<1>4. CASE j(base) \notin Slots
  BY <1>1, <1>2, <1>3, <1>4, ReaderStops DEF ReaderFaults
<1>5. CASE j(base) \in Slots /\ hit(base)
  BY <1>1, <1>2, <1>3, <1>5, ReaderGoes
<1>6. CASE j(base) \in Slots /\ ~hit(base)
  BY <1>1, <1>2, <1>3, <1>6, ReaderGoes
<1>7. QED
  BY <1>4, <1>5, <1>6

\* Only the place of the call changes.
LEMMA PlaceFacts ==
  ASSUME NEW c \in ReadCall, NEW p \in ReadPlaces
  PROVE  LET d == [c EXCEPT !.pc = p]
         IN  /\ d \in ReadCall /\ d.pc = p /\ d.pos = c.pos /\ d.len = c.len /\ d.text = c.text
             /\ d.off = c.off /\ d.base = c.base /\ d.i = c.i /\ d.total = c.total
             /\ d.ofs = c.ofs /\ d.data = c.data
BY Zenon DEF ReadCall

\* Past the last line the offset is left unset, which is past the text of the read too.
LEMMA PastLastKeeps ==
  ASSUME NEW w \in Writer, RaceInv(w), NEW r \in Reader, broken = "no", PastLast(r)
  PROVE  ReaderStep(w, r)
<1> DEFINE c == read[r]
           n == buf.w_abs
           p == IF c.i >= n THEN "take" ELSE "probe"
           d == [c EXCEPT !.pc = p]
<1>1. UNCHANGED <<shared, broken>> /\ c.pc = "past" /\ read' = [read EXCEPT ![r] = d]
  BY DEF PastLast, ReadAt, ReadGo
<1>2. ASSUME FirstRound(w)
      PROVE  ReadCorrect(d)
  <2>1. /\ RingInv(w) /\ ReadCorrect(c) /\ c \in ReadCall /\ c.pos \in Nat /\ c.text \in Nat
        /\ c.pos <= c.text /\ c.text <= buf.w_char_abs /\ c.len > 0
    BY <1>1, <1>2, ReaderFacts
  <2>2. n \in Nat /\ buf.w_char_abs \in Nat /\ buf.w_char_abs <= LineEnd(n) /\ LineEnd(n) \in Nat
    <3>1. /\ n \in Nat /\ buf.w_char_abs \in Nat /\ buf.w_char_abs <= LineEnd(n)
          /\ \A i \in 0..n : LineEnd(i) \in Nat
      BY <1>2, <2>1, FirstRoundFacts
    <3>2. n \in 0..n
      BY <3>1
    <3>3. QED
      BY <3>1, <3>2
  <2>3. /\ c.data = <<>> /\ c.ofs = -1 /\ c.base = 0 /\ c.off = c.pos
        /\ c.total = LineEnd(c.i) /\ c.total <= c.pos /\ c.i \in 1..n
    BY <1>1, <2>1 DEF ReadCorrect, Searching
  <2>4. p \in ReadPlaces /\ p \in {"take", "probe"}
    BY DEF ReadPlaces
  <2>5. p = "take" => c.i = n /\ c.text <= c.pos
    <3>1. p = "take" => c.i = n
      BY <2>2, <2>3
    <3>2. QED
      BY <2>1, <2>2, <2>3, <3>1
  <2>6. p = "probe" => c.i \in 1..(n - 1)
    BY <2>2, <2>3
  <2> HIDE DEF c, n, p
  <2>7. /\ d \in ReadCall /\ d.pc = p /\ d.pos = c.pos /\ d.len = c.len /\ d.text = c.text
        /\ d.off = c.off /\ d.base = c.base /\ d.i = c.i /\ d.total = c.total
        /\ d.ofs = c.ofs /\ d.data = c.data
    BY <2>1, <2>4, PlaceFacts
  <2> HIDE DEF d
  <2>8. c.i \in 0..n
    BY <2>2, <2>3
  <2>9. QED
    BY <2>1, <2>3, <2>4, <2>5, <2>6, <2>7, <2>8 DEF ReadCorrect, Searching, Found, Copying, n
<1> HIDE DEF d
<1>3. QED
  BY <1>1, <1>2, ReaderGoes

\* The one fault of the first round: the offset was never set, at the end of the text.
LEMMA TakeKeeps ==
  ASSUME NEW w \in Writer, RaceInv(w), NEW r \in Reader, broken = "no", Take(r)
  PROVE  ReaderStep(w, r)
<1> DEFINE c == read[r]
           n == buf.w_abs
           d(p) == [c EXCEPT !.pc = p]
<1>1. /\ UNCHANGED shared /\ c.pc = "take"
      /\ \/ c.i = n /\ read' = [read EXCEPT ![r] = d("done")] /\ broken' = broken
         \/ c.i # n /\ c.ofs < 0 /\ Break("unset offset") /\ read' = read
         \/ c.i # n /\ ~(c.ofs < 0) /\ read' = [read EXCEPT ![r] = d("load")] /\ broken' = broken
  BY DEF Take, ReadAt, ReadGo
<1>2. ASSUME FirstRound(w)
      PROVE  /\ c.i = n => ReadCorrect(d("done"))
             /\ c.i # n /\ c.ofs < 0 => c.pos >= c.text
             /\ c.i # n /\ ~(c.ofs < 0) => ReadCorrect(d("load"))
  <2>1. /\ RingInv(w) /\ ReadCorrect(c) /\ c \in ReadCall /\ c.pos \in Nat /\ c.text \in Nat
        /\ c.pos <= c.text /\ c.text <= buf.w_char_abs /\ c.len > 0 /\ c.ofs \in Int
    BY <1>1, <1>2, ReaderFacts
  <2>2. n \in Nat /\ buf.w_char_abs \in Nat /\ buf.w_char_abs <= LineEnd(n) /\ LineEnd(n) \in Nat
    <3>1. /\ n \in Nat /\ buf.w_char_abs \in Nat /\ buf.w_char_abs <= LineEnd(n)
          /\ \A i \in 0..n : LineEnd(i) \in Nat
      BY <1>2, <2>1, FirstRoundFacts
    <3>2. n \in 0..n
      BY <3>1
    <3>3. QED
      BY <3>1, <3>2
  <2>3. /\ c.i \in 0..n /\ c.data = <<>>
        /\ \/ c.ofs = -1 /\ c.text <= c.pos
           \/ /\ c.ofs \in Nat /\ c.pos = LineEnd(c.i) + c.ofs
              /\ IF c.i = n THEN c.ofs = 0 ELSE c.pos < LineEnd(c.i + 1)
    BY <1>1, <2>1 DEF ReadCorrect, Found
  <2>4. {"done", "load"} \subseteq ReadPlaces
    BY DEF ReadPlaces
  <2> HIDE DEF c, n
  <2>5. ASSUME NEW p \in {"done", "load"}
        PROVE  /\ d(p) \in ReadCall /\ d(p).pc = p /\ d(p).pos = c.pos /\ d(p).len = c.len
               /\ d(p).text = c.text /\ d(p).i = c.i /\ d(p).ofs = c.ofs /\ d(p).data = c.data
    BY <2>1, <2>4, PlaceFacts
  <2> HIDE DEF d
  <2>6. c.i = n => c.text <= c.pos
    <3>1. SUFFICES ASSUME c.i = n, c.ofs \in Nat, c.pos = LineEnd(c.i) + c.ofs, c.ofs = 0
                   PROVE  c.text <= c.pos
      BY <2>3
    <3>2. c.pos = LineEnd(n)
      BY <2>2, <3>1
    <3>3. QED
      BY <2>1, <2>2, <3>2
  <2>7. c.i = n => ReadCorrect(d("done"))
    <3>1. c.i = n => ~(c.pos < c.text)
      BY <2>1, <2>6
    <3>2. QED
      BY <2>1, <2>5, <3>1 DEF ReadCorrect, Searching, Found, Copying
  <2>8. c.i # n /\ c.ofs < 0 => c.pos >= c.text
    BY <2>1, <2>3
  <2>9. c.i # n /\ ~(c.ofs < 0) => ReadCorrect(d("load"))
    <3>1. SUFFICES ASSUME c.i # n, ~(c.ofs < 0)
                   PROVE  ReadCorrect(d("load"))
      OBVIOUS
    <3>2. c.ofs \in Nat /\ c.pos = LineEnd(c.i) + c.ofs /\ c.pos < LineEnd(c.i + 1)
      BY <2>3, <3>1
    <3>3. c.i \in 0..(n - 1)
      BY <2>2, <2>3, <3>1
    <3>4. c.data = Bytes(c.pos, c.pos + Len(c.data)) /\ Len(c.data) = 0 /\ c.pos + Len(c.data) = c.pos
      <4>1. Len(c.data) = 0 /\ c.pos + 0 = c.pos
        BY <2>1, <2>3
      <4>2. c.data = Bytes(c.pos, c.pos)
        <5>1. c.data \in Seq(Nat) /\ Len(c.data) = c.pos - c.pos
              /\ \A k \in 1..(c.pos - c.pos) : c.data[k] = c.pos + k
          BY <2>1, <2>3, <4>1
        <5>2. QED
          BY <2>1, <5>1, IsBytes
      <4>3. QED
        BY <4>1, <4>2
    <3>5. d("load").data = Bytes(d("load").pos, d("load").pos + Len(d("load").data))
      BY <2>5, <3>4
    <3>6. c.len > 0 /\ Len(c.data) < c.len
      BY <2>1, <3>4
    <3>7. c.pos + Len(c.data) = LineEnd(c.i) + c.ofs /\ LineEnd(c.i) + c.ofs < LineEnd(c.i + 1)
      BY <3>2, <3>4
    <3>8. QED
      BY <2>1, <2>5, <3>2, <3>3, <3>5, <3>6, <3>7 DEF ReadCorrect, Searching, Found, Copying, n
  <2>10. QED
    BY <2>7, <2>8, <2>9
<1> HIDE DEF d, n
<1>3. CASE c.i # n /\ c.ofs < 0
  BY <1>1, <1>2, <1>3, ReaderStops DEF ReaderFaults
<1>4. CASE c.i = n
  BY <1>1, <1>2, <1>4, ReaderGoes
<1>5. CASE c.i # n /\ ~(c.ofs < 0)
  BY <1>1, <1>2, <1>5, ReaderGoes
<1>6. QED
  BY <1>3, <1>4, <1>5

\* Where a read that copies is: in line i of the slots, with text before it.
LEMMA CopyFacts ==
  ASSUME NEW w \in Writer, RaceInv(w), NEW r \in Reader, FirstRound(w), read[r].pc \in {"load", "copy"}
  PROVE  LET c == read[r]
             e == entry[c.i]
             a == LineEnd(c.i)
             b == LineEnd(c.i + 1)
         IN  /\ c.i \in 0..(buf.w_abs - 1) /\ Slot(c.i) = c.i /\ buf.w_abs \in Nat
             /\ a \in Nat /\ b \in Nat /\ a < b /\ e.size = b - a
             /\ e.ptr \in 1..Len(heap) /\ e.ptr \in Nat /\ e.size \in Nat
             /\ Live(e.ptr) /\ Room(e.ptr) = b - a
             /\ heap[e.ptr].bytes \in Seq(Nat) /\ Len(heap[e.ptr].bytes) = b - a
             /\ \A k \in 1..(b - a) : heap[e.ptr].bytes[k] = a + k
             /\ c.ofs \in Nat /\ c.pos + Len(c.data) = a + c.ofs /\ a + c.ofs < b
             /\ c.data = Bytes(c.pos, c.pos + Len(c.data)) /\ Len(c.data) < c.len
<1> DEFINE c == read[r]
           e == entry[c.i]
           a == LineEnd(c.i)
           b == LineEnd(c.i + 1)
           n == buf.w_abs
<1>1. RingInv(w) /\ ReadCorrect(c) /\ c \in ReadCall
  BY ReaderFacts
<1>2. /\ c.i \in 0..(n - 1) /\ c.ofs \in Nat /\ c.pos + Len(c.data) = a + c.ofs /\ a + c.ofs < b
      /\ c.data = Bytes(c.pos, c.pos + Len(c.data)) /\ Len(c.data) < c.len
  BY <1>1 DEF ReadCorrect, Copying
<1>3. n \in Nat /\ \A i \in 0..n : LineEnd(i) \in Nat
  BY <1>1, FirstRoundFacts
<1>4. c.i \in 0..n /\ c.i + 1 \in 0..n
  BY <1>2, <1>3
<1>5. /\ Slot(c.i) = c.i /\ c.i \in Slots /\ e.size = b - a /\ a < b
      /\ Block(e.ptr, Bytes(a, b))
  BY <1>1, <1>2, FirstRoundFacts
<1>6. a \in Nat /\ b \in Nat
  BY <1>3, <1>4
<1>7. /\ e.ptr \in 1..Len(heap) /\ Live(e.ptr) /\ Room(e.ptr) = b - a
      /\ \A k \in 1..(b - a) : heap[e.ptr].bytes[k] = a + k
  <2>1. a <= b
    BY <1>5, <1>6
  <2> HIDE DEF a, b, e
  <2>2. QED
    BY <1>5, <1>6, <2>1, BlockFacts
<1>8. e.ptr \in Nat /\ e.size \in Nat /\ heap[e.ptr].bytes \in Seq(Nat)
  BY <1>1, <1>5, <1>7, FieldTypes DEF RingInv
<1>9. Len(heap[e.ptr].bytes) = b - a
  BY <1>7 DEF Room
<1> HIDE DEF c, e, a, b, n
<1>10. QED
  BY <1>2, <1>3, <1>5, <1>6, <1>7, <1>8, <1>9 DEF c, e, a, b, n

LEMMA LoadEntryKeeps ==
  ASSUME NEW w \in Writer, RaceInv(w), NEW r \in Reader, broken = "no", LoadEntry(r)
  PROVE  ReaderStep(w, r)
<1> DEFINE c == read[r]
           e == entry[Slot(c.i)]
           p == IF e.ptr = 0 THEN "done" ELSE "copy"
           d == [c EXCEPT !.pc = p, !.ptr = e.ptr, !.size = e.size]
<1>1. UNCHANGED <<shared, broken>> /\ c.pc = "load" /\ read' = [read EXCEPT ![r] = d]
  BY DEF LoadEntry, ReadAt
<1>2. ASSUME FirstRound(w)
      PROVE  ReadCorrect(d)
  <2>1. /\ c \in ReadCall /\ c.pos \in Nat /\ c.text \in Nat
        /\ c.pos <= c.text /\ c.text <= buf.w_char_abs /\ c.len > 0
    BY <1>1, <1>2, ReaderFacts
  <2>2. /\ c.i \in 0..(buf.w_abs - 1) /\ Slot(c.i) = c.i
        /\ entry[c.i].ptr \in 1..Len(heap) /\ entry[c.i].ptr \in Nat /\ entry[c.i].size \in Nat
        /\ c.ofs \in Nat /\ c.pos + Len(c.data) = LineEnd(c.i) + c.ofs
        /\ LineEnd(c.i) + c.ofs < LineEnd(c.i + 1)
        /\ c.data = Bytes(c.pos, c.pos + Len(c.data)) /\ Len(c.data) < c.len
    BY <1>1, <1>2, CopyFacts
  <2>3. p = "copy" /\ e = entry[c.i] /\ "copy" \in ReadPlaces
    BY <2>2 DEF ReadPlaces
  <2>4. e.ptr \in Nat /\ e.size \in Nat
    BY <2>2, <2>3
  <2>5. d = [c EXCEPT !.pc = "copy", !.ptr = e.ptr, !.size = e.size]
    BY <2>3
  <2> HIDE DEF c, e, p, d
  <2>6. /\ d \in ReadCall /\ d.pc = "copy" /\ d.ptr = e.ptr /\ d.size = e.size
        /\ d.pos = c.pos /\ d.len = c.len /\ d.text = c.text
        /\ d.i = c.i /\ d.ofs = c.ofs /\ d.data = c.data
    <3>1. c \in ReadCall /\ "copy" \in ReadPlaces
      BY <2>1, <2>3
    <3>2. QED
      BY <2>4, <2>5, <3>1, Zenon DEF ReadCall
  <2>7. d.data = Bytes(d.pos, d.pos + Len(d.data))
    BY <2>2, <2>6
  <2>8. QED
    BY <2>1, <2>2, <2>3, <2>6, <2>7 DEF ReadCorrect, Searching, Found, Copying
<1> HIDE DEF d
<1>3. QED
  BY <1>1, <1>2, ReaderGoes

\* A piece of a sequence.
LEMMA PieceFacts ==
  ASSUME NEW s \in Seq(Nat), NEW o \in Nat, NEW n \in Nat, o + n <= Len(s)
  PROVE  /\ SubSeq(s, o + 1, o + n) \in Seq(Nat) /\ Len(SubSeq(s, o + 1, o + n)) = n
         /\ \A j \in 1..n : SubSeq(s, o + 1, o + n)[j] = s[o + j]
OBVIOUS

\* The bytes that follow a range continue it.
LEMMA BytesJoin ==
  ASSUME NEW a \in Nat, NEW s \in Seq(Nat), NEW t \in Seq(Nat), s = Bytes(a, a + Len(s)),
         \A j \in 1..Len(t) : t[j] = (a + Len(s)) + j
  PROVE  /\ s \o t \in Seq(Nat) /\ Len(s \o t) = Len(s) + Len(t)
         /\ s \o t = Bytes(a, a + Len(s \o t))
<1> DEFINE k == Len(s)
           n == Len(t)
           st == s \o t
<1>1. k \in Nat /\ n \in Nat
  OBVIOUS
<1>2. st \in Seq(Nat) /\ Len(st) = k + n
  OBVIOUS
<1>3. \A j \in 1..(k + n) : st[j] = IF j <= k THEN s[j] ELSE t[j - k]
  OBVIOUS
<1>4. \A j \in 1..k : s[j] = a + j
  BY <1>1, ChunkFacts
<1> HIDE DEF k, n, st
<1>5. \A j \in 1..(k + n) : st[j] = a + j
  <2>1. SUFFICES ASSUME NEW j \in 1..(k + n)
                 PROVE  st[j] = a + j
    OBVIOUS
  <2>2. CASE j <= k
    <3>1. j \in 1..k
      BY <1>1, <2>2
    <3>2. QED
      BY <1>3, <1>4, <2>2, <3>1
  <2>3. CASE ~(j <= k)
    <3>1. j - k \in 1..n /\ (a + k) + (j - k) = a + j
      BY <1>1, <2>3
    <3>2. t[j - k] = (a + k) + (j - k)
      BY <3>1 DEF k, n
    <3>3. QED
      BY <1>3, <2>3, <3>1, <3>2
  <2>4. QED
    BY <2>2, <2>3
<1>6. st = Bytes(a, a + (k + n))
  <2>1. a + (k + n) \in Nat /\ a <= a + (k + n) /\ (a + (k + n)) - a = k + n
    BY <1>1
  <2> DEFINE b == a + (k + n)
  <2> HIDE DEF b
  <2>2. b \in Nat /\ a <= b /\ b - a = k + n
    BY <2>1 DEF b
  <2>3. st = Bytes(a, b)
    BY <1>2, <1>5, <2>2, IsBytes
  <2>4. QED
    BY <2>3 DEF b
<1>7. QED
  BY <1>2, <1>6 DEF st, k, n

LEMMA CopyEntryKeeps ==
  ASSUME NEW w \in Writer, RaceInv(w), NEW r \in Reader, broken = "no", CopyEntry(r)
  PROVE  ReaderStep(w, r)
<1> DEFINE c == read[r]
           n == Min({c.size - c.ofs, c.len - Len(c.data)})
           bytes == SubSeq(heap[c.ptr].bytes, c.ofs + 1, c.ofs + n)
           end == n = c.size - c.ofs
           d == [c EXCEPT !.data = c.data \o bytes, !.ofs = 0,
                          !.i = IF end THEN c.i + 1 ELSE c.i,
                          !.pc = IF end THEN "next" ELSE "done"]
<1>1. /\ UNCHANGED shared /\ c.pc = "copy"
      /\ \/ ~Live(c.ptr) /\ Break("freed block") /\ read' = read
         \/ (c.ofs > c.size \/ c.ofs + n > Room(c.ptr)) /\ Break("past the block") /\ read' = read
         \/ read' = [read EXCEPT ![r] = d] /\ broken' = broken
  BY DEF CopyEntry, ReadAt
<1>2. ASSUME FirstRound(w)
      PROVE  /\ Live(c.ptr) /\ ~(c.ofs > c.size \/ c.ofs + n > Room(c.ptr))
             /\ ReadCorrect(d)
  <2> DEFINE a == LineEnd(c.i)
             b == LineEnd(c.i + 1)
             m == buf.w_abs
             k == Len(c.data)
             x == c.size - c.ofs
             y == c.len - k
             all == c.data \o bytes
             p == IF end THEN "next" ELSE "done"
             i == IF end THEN c.i + 1 ELSE c.i
  <2>1. /\ c \in ReadCall /\ c.pos \in Nat /\ c.text \in Nat /\ c.len \in Nat /\ c.ofs \in Int
        /\ c.pos <= c.text /\ c.text <= buf.w_char_abs /\ c.len > 0
        /\ c.data \in Seq(Nat) /\ k \in Nat /\ ReadCorrect(c)
    BY <1>1, <1>2, ReaderFacts
  <2>2. c.ptr = entry[c.i].ptr /\ c.size = entry[c.i].size
    BY <1>1, <2>1 DEF ReadCorrect, Copying
  <2>3. /\ c.i \in 0..(m - 1) /\ m \in Nat /\ a \in Nat /\ b \in Nat /\ a < b /\ c.size = b - a
        /\ Live(c.ptr) /\ Room(c.ptr) = b - a
        /\ heap[c.ptr].bytes \in Seq(Nat) /\ Len(heap[c.ptr].bytes) = b - a
        /\ \A j \in 1..(b - a) : heap[c.ptr].bytes[j] = a + j
        /\ c.ofs \in Nat /\ c.pos + k = a + c.ofs /\ a + c.ofs < b
        /\ c.data = Bytes(c.pos, c.pos + k) /\ k < c.len
    <3> DEFINE e == entry[c.i]
    <3> HIDE DEF n, bytes, d, x, y, all, p, i
    <3>1. /\ c.i \in 0..(m - 1) /\ m \in Nat /\ a \in Nat /\ b \in Nat /\ a < b /\ e.size = b - a
          /\ Live(e.ptr) /\ Room(e.ptr) = b - a
          /\ heap[e.ptr].bytes \in Seq(Nat) /\ Len(heap[e.ptr].bytes) = b - a
          /\ \A j \in 1..(b - a) : heap[e.ptr].bytes[j] = a + j
          /\ c.ofs \in Nat /\ c.pos + k = a + c.ofs /\ a + c.ofs < b
          /\ c.data = Bytes(c.pos, c.pos + k) /\ k < c.len
      BY <1>1, <1>2, CopyFacts
    <3>2. e.ptr = c.ptr /\ e.size = c.size
      BY <2>2
    <3> HIDE DEF a, b, m, k, e, c
    <3>3. QED
      BY <3>1, <3>2
  <2>4. n = Min({x, y})
    OBVIOUS
  <2>5. x \in Nat /\ y \in Nat /\ x > 0 /\ y > 0 /\ c.ofs + x = b - a
    <3> HIDE DEF a, b, c, k
    <3>1. /\ a \in Nat /\ b \in Nat /\ c.size = b - a /\ c.ofs \in Nat /\ a + c.ofs < b
          /\ k \in Nat /\ c.len \in Nat /\ k < c.len
      BY <2>1, <2>3
    <3>2. QED
      BY <3>1
  <2> HIDE DEF x, y
  <2>6. n \in Nat /\ n <= x /\ n <= y /\ (n = x \/ n = y)
    <3> HIDE DEF n
    <3>1. QED
      BY <2>4, <2>5, MinPair
  <2> HIDE DEF n, a, b, m, k
  <2>7. c.ofs + n <= b - a /\ ~(c.ofs > c.size)
    <3>1. a \in Nat /\ b \in Nat /\ c.size = b - a /\ c.ofs \in Nat /\ a + c.ofs < b
      BY <2>3
    <3>2. QED
      BY <2>5, <2>6, <3>1
  <2>8. /\ bytes \in Seq(Nat) /\ Len(bytes) = n
        /\ \A j \in 1..n : bytes[j] = heap[c.ptr].bytes[c.ofs + j]
    BY <2>3, <2>6, <2>7, PieceFacts
  <2>9. \A j \in 1..n : bytes[j] = (c.pos + k) + j
    <3>1. SUFFICES ASSUME NEW j \in 1..n
                   PROVE  bytes[j] = (c.pos + k) + j
      OBVIOUS
    <3>2. c.ofs + j \in 1..(b - a)
      <4>1. a \in Nat /\ b \in Nat /\ c.ofs \in Nat
        BY <2>3
      <4>2. QED
        BY <2>6, <2>7, <4>1
    <3>3. a + (c.ofs + j) = (c.pos + k) + j
      <4>1. (a + c.ofs) + j = (c.pos + k) + j
        BY <2>3
      <4>2. QED
        BY <2>3, <4>1
    <3>4. QED
      BY <2>3, <2>8, <3>2, <3>3
  <2> HIDE DEF bytes
  <2>10. all \in Seq(Nat) /\ Len(all) = k + n /\ all = Bytes(c.pos, c.pos + Len(all))
    BY <2>1, <2>3, <2>8, <2>9, BytesJoin DEF k
  <2>11. /\ p \in ReadPlaces /\ p \in {"next", "done"} /\ (p = "next" <=> end)
         /\ i \in Int /\ (end => i = c.i + 1)
    BY <2>3 DEF ReadPlaces
  <2> HIDE DEF all, c
  <2>12. end => c.pos + Len(all) = LineEnd(i) + 0 /\ i \in 1..m
    <3>1. SUFFICES ASSUME end
                   PROVE  c.pos + Len(all) = LineEnd(i) + 0 /\ i \in 1..m
      OBVIOUS
    <3>2. n = x
      BY <3>1 DEF x
    <3>3. c.pos + (k + n) = b
      <4>1. c.pos + (k + n) = (c.pos + k) + n
        BY <2>1, <2>6
      <4>2. (a + c.ofs) + n = a + (c.ofs + n)
        BY <2>3, <2>6
      <4>3. c.ofs + n = b - a
        BY <2>5, <3>2
      <4>4. QED
        BY <2>3, <4>1, <4>2, <4>3
    <3>4. LineEnd(i) = b
      BY <2>11, <3>1 DEF b
    <3>5. i \in 1..m
      BY <2>3, <2>11, <3>1
    <3>6. QED
      BY <2>3, <2>10, <3>3, <3>4, <3>5
  <2>13. ~end => Len(all) = c.len
    <3>1. ~end => n = y
      BY <2>6 DEF x
    <3>2. k + y = c.len
      BY <2>1 DEF y
    <3>3. QED
      BY <2>10, <3>1, <3>2
  <2>14. d = [c EXCEPT !.data = all, !.ofs = 0, !.i = i, !.pc = p] /\ 0 \in Int
    BY DEF all
  <2> HIDE DEF end, i, p, d
  <2>15. /\ d \in ReadCall /\ d.data = all /\ d.ofs = 0 /\ d.i = i /\ d.pc = p
         /\ d.pos = c.pos /\ d.len = c.len /\ d.text = c.text
    <3>1. c \in ReadCall /\ p \in ReadPlaces /\ i \in Int /\ all \in Seq(Nat)
      BY <2>1, <2>10, <2>11
    <3>2. QED
      BY <2>14, <3>1, Zenon DEF ReadCall
  <2>16. d.data = Bytes(d.pos, d.pos + Len(d.data))
    BY <2>10, <2>15
  <2>17. d.pc = "done" => Len(d.data) >= Min({d.len, d.text - d.pos})
    <3>1. d.text - d.pos \in Nat /\ d.len \in Nat
      BY <2>1, <2>15
    <3>2. Min({d.len, d.text - d.pos}) <= d.len /\ Min({d.len, d.text - d.pos}) \in Nat
      BY <3>1, MinPair
    <3>3. d.pc = "done" => Len(d.data) = d.len
      BY <2>11, <2>13, <2>15
    <3>4. QED
      BY <3>1, <3>2, <3>3
  <2>18. ReadCorrect(d)
    BY <2>1, <2>11, <2>12, <2>15, <2>16, <2>17 DEF ReadCorrect, Searching, Found, Copying, m
  <2>19. ~(c.ofs > c.size \/ c.ofs + n > Room(c.ptr))
    BY <2>3, <2>6, <2>7
  <2>20. QED
    BY <2>3, <2>18, <2>19
<1> HIDE DEF d, n, c
<1>3. CASE read' = [read EXCEPT ![r] = d] /\ broken' = broken
  BY <1>1, <1>2, <1>3, ReaderGoes
<1>4. CASE ~Live(c.ptr) /\ Break("freed block") /\ read' = read
  BY <1>1, <1>2, <1>4, ReaderStops DEF ReaderFaults
<1>5. CASE (c.ofs > c.size \/ c.ofs + n > Room(c.ptr)) /\ Break("past the block") /\ read' = read
  BY <1>1, <1>2, <1>5, ReaderStops DEF ReaderFaults
<1>6. QED
  BY <1>1, <1>3, <1>4, <1>5

LEMMA NextEntryKeeps ==
  ASSUME NEW w \in Writer, RaceInv(w), NEW r \in Reader, broken = "no", NextEntry(r)
  PROVE  ReaderStep(w, r)
<1> DEFINE c == read[r]
           n == buf.w_abs
           k == Len(c.data)
           p == IF c.i = n \/ k >= c.len THEN "done" ELSE "load"
           d == [c EXCEPT !.pc = p]
<1>1. UNCHANGED <<shared, broken>> /\ c.pc = "next" /\ read' = [read EXCEPT ![r] = d]
  BY DEF NextEntry, ReadAt, ReadGo
<1>2. ASSUME FirstRound(w)
      PROVE  ReadCorrect(d)
  <2>1. /\ RingInv(w) /\ ReadCorrect(c) /\ c \in ReadCall /\ c.pos \in Nat /\ c.text \in Nat
        /\ c.pos <= c.text /\ c.text <= buf.w_char_abs /\ c.len > 0 /\ c.len \in Nat /\ k \in Nat
    BY <1>1, <1>2, ReaderFacts
  <2>2. /\ n \in Nat /\ buf.w_char_abs \in Nat /\ buf.w_char_abs <= LineEnd(n)
        /\ \A j \in 0..n : LineEnd(j) \in Nat
        /\ \A j \in 0..(n - 1) : LineEnd(j) < LineEnd(j + 1)
    BY <1>2, <2>1, FirstRoundFacts
  <2>3. /\ c.data = Bytes(c.pos, c.pos + k) /\ c.i \in 1..n /\ c.ofs = 0
        /\ c.pos + k = LineEnd(c.i) + c.ofs
    BY <1>1, <2>1 DEF ReadCorrect, Copying
  <2>4. p \in ReadPlaces /\ p \in {"done", "load"}
    BY DEF ReadPlaces
  <2> HIDE DEF c, n, k
  <2>5. LineEnd(c.i) \in Nat /\ c.pos + k = LineEnd(c.i)
    <3>1. c.i \in 0..n
      BY <2>2, <2>3
    <3>2. LineEnd(c.i) \in Nat
      BY <2>2, <3>1
    <3>3. c.pos + k = LineEnd(c.i) + 0
      BY <2>3
    <3>4. QED
      BY <3>2, <3>3
  <2>6. p = "load" => c.i \in 0..(n - 1) /\ LineEnd(c.i) + c.ofs < LineEnd(c.i + 1) /\ k < c.len
    <3>1. SUFFICES ASSUME p = "load"
                   PROVE  c.i \in 0..(n - 1) /\ LineEnd(c.i) + c.ofs < LineEnd(c.i + 1) /\ k < c.len
      OBVIOUS
    <3>2. c.i # n /\ ~(k >= c.len)
      BY <3>1
    <3>3. c.i \in 0..(n - 1) /\ k < c.len
      BY <2>1, <2>2, <2>3, <3>2
    <3>4. LineEnd(c.i) < LineEnd(c.i + 1)
      BY <2>2, <3>3
    <3>5. LineEnd(c.i) + c.ofs = LineEnd(c.i)
      BY <2>3, <2>5
    <3>6. QED
      BY <3>3, <3>4, <3>5
  <2>7. p = "done" => k >= Min({c.len, c.text - c.pos})
    <3>1. c.text - c.pos \in Nat
      BY <2>1
    <3>2. Min({c.len, c.text - c.pos}) = IF c.len <= c.text - c.pos THEN c.len ELSE c.text - c.pos
      BY <2>1, <3>1, MinPair
    <3>3. Min({c.len, c.text - c.pos}) <= c.len /\ Min({c.len, c.text - c.pos}) <= c.text - c.pos
          /\ Min({c.len, c.text - c.pos}) \in Nat
      BY <2>1, <3>1, <3>2
    <3>4. p = "done" => k >= c.len \/ k >= c.text - c.pos
      <4>1. SUFFICES ASSUME p = "done", c.i = n
                     PROVE  k >= c.text - c.pos
        BY <2>4
      <4>2. c.text <= LineEnd(n)
        BY <2>1, <2>2, <4>1, <2>5
      <4>3. c.pos + k = LineEnd(n)
        BY <2>5, <4>1
      <4>4. QED
        BY <2>1, <2>5, <4>1, <4>2, <4>3
    <3> HIDE DEF p
    <3>5. QED
      BY <2>1, <3>1, <3>3, <3>4
  <2> HIDE DEF p
  <2>8. /\ d \in ReadCall /\ d.pc = p /\ d.pos = c.pos /\ d.len = c.len /\ d.text = c.text
        /\ d.i = c.i /\ d.ofs = c.ofs /\ d.data = c.data
    BY <2>1, <2>4, PlaceFacts
  <2> HIDE DEF d
  <2>9. d.data = Bytes(d.pos, d.pos + Len(d.data)) /\ Len(d.data) = k
    BY <2>3, <2>8 DEF k
  <2>10. QED
    BY <2>1, <2>3, <2>4, <2>6, <2>7, <2>8, <2>9 DEF ReadCorrect, Searching, Found, Copying, n
<1> HIDE DEF d
<1>3. QED
  BY <1>1, <1>2, ReaderGoes

\* A statement of raed or of the search, whichever it is.
LEMMA ReadKeeps ==
  ASSUME NEW w \in Writer, RaceInv(w), NEW r \in Reader, broken = "no", Read(r)
  PROVE  RaceInv(w)'
<1>1. CASE \E pos \in 0..MaxBytes, len \in 1..MaxLen : StartRead(r, pos, len)
  BY <1>1, StartReadKeeps, ReaderStepKeeps
<1>2. CASE StartSearch(r) \/ Probe(r) \/ PastLast(r) \/ Take(r)
  BY <1>2, StartSearchKeeps, ProbeKeeps, PastLastKeeps, TakeKeeps, ReaderStepKeeps
<1>3. CASE LoadEntry(r) \/ CopyEntry(r) \/ NextEntry(r)
  BY <1>3, LoadEntryKeeps, CopyEntryKeeps, NextEntryKeeps, ReaderStepKeeps
<1>4. QED
  BY <1>1, <1>2, <1>3 DEF Read

-----------------------------------------------------------------------------
(* The invariant *)

LEMMA InitRace ==
  ASSUME NEW w \in Writer, RaceInit
  PROVE  RaceInv(w)
<1>1. N \in Nat \ {0} /\ Slots = 0..(N - 1)
  BY RaceAssumption DEF Slots
<1>2. /\ buf = [w_abs |-> 0, start_abs |-> 0, w_char_abs |-> 0, start_char_abs |-> 0]
      /\ entry = [s \in Slots |-> NoBlock] /\ tmp_entry = NoBlock /\ heap = <<>>
      /\ accepted = 0 /\ log = <<>> /\ broken = "no"
      /\ read = [r \in Reader |-> IdleRead]
  BY DEF RaceInit
<1>3. write = [v \in Writer |-> IdleWrite] /\ write[w].pc = "idle"
  BY DEF RaceInit, IdleWrite
<1>4. IdleWrite \in WriteCall
  BY DEF IdleWrite, WriteCall, WritePlaces
<1>5. RaceTypes
  <2>1. heap \in Seq(HeapBlock) /\ log \in Seq([from : Nat, to : Nat])
    BY <1>2
  <2>2. entry \in [Slots -> [ptr : Nat, size : Nat]] /\ tmp_entry \in [ptr : Nat, size : Nat]
    BY <1>2 DEF NoBlock
  <2>3. buf \in [w_abs : Nat, start_abs : Nat, w_char_abs : Nat, start_char_abs : Nat]
    BY <1>2
  <2>4. write \in [Writer -> WriteCall]
    BY <1>3, <1>4
  <2>5. QED
    BY <1>2, <2>1, <2>2, <2>3, <2>4 DEF RaceTypes
<1>6. Len(log) = 0 /\ LineEnd(0) = 0 /\ Len(heap) = 0
  BY <1>2 DEF LineEnd
<1>7. \A P \in {Taking, Stored, Counted, Moved, {"free"}} : Plus(w, P) = 0
  BY <1>3 DEF Plus, Taking, Stored, Counted, Moved
<1>8. LinesTaken(w) = 0 /\ LinesStored(w) = 0
  BY <1>6, <1>7 DEF LinesTaken, LinesStored
<1>9. Cuts(w)
  BY <1>2, <1>3, <1>6 DEF Cuts
<1>10. Counters(w)
  BY <1>1, <1>2, <1>3, <1>6, <1>7 DEF Counters, Oldest
<1>11. Ring(w)
  BY <1>1, <1>2, <1>3, <1>8 DEF Ring, Oldest, Taking, Stored, Moved, Counted
<1>12. Accumulator(w)
  BY <1>2, <1>3, <1>6 DEF Accumulator, Growing, Whole, Taking, Stored, Moved, Counted, NoBlock
<1>13. Owners
  BY <1>2, <1>6 DEF Owners, NoBlock
<1>14. Readers(w)
  <2>1. IdleRead \in ReadCall /\ IdleRead.pc = "idle"
    BY DEF IdleRead, ReadCall, ReadPlaces
  <2>2. ReadCorrect(IdleRead)
    BY <2>1 DEF ReadCorrect, Searching, Found, Copying
  <2>3. QED
    BY <1>2, <2>2 DEF Readers
<1>15. Faults(w)
  BY <1>2 DEF Faults
<1>16. QED
  BY <1>5, <1>9, <1>10, <1>11, <1>12, <1>13, <1>14, <1>15 DEF RaceInv, RingInv

\* A step of the writer leaves every read of the first round right.
LEMMA WriterStepKeeps ==
  ASSUME NEW w \in Writer, RaceInv(w), broken = "no", WriterStep(w)
  PROVE  RaceInv(w)'
<1>1. RingInv(w) /\ RingInv(w)' /\ RaceTypes /\ RaceTypes'
      /\ (FirstRound(w)' => FirstRound(w) /\ Forward) /\ read' = read /\ broken' = "no"
  BY DEF RaceInv, WriterStep, RingInv
<1>2. Readers(w)'
  <2>1. ASSUME FirstRound(w)', NEW r \in Reader
        PROVE  ReadCorrect(read[r])'
    <3>1. ReadCorrect(read[r]) /\ Forward
      BY <1>1, <2>1 DEF RaceInv, Readers
    <3>2. QED
      BY <1>1, <3>1, ReadKept
  <2>2. DOMAIN read' = Reader
    BY <1>1 DEF RaceInv, Readers
  <2>3. QED
    BY <2>1, <2>2 DEF Readers
<1>3. Faults(w)'
  BY <1>1 DEF Faults
<1>4. QED
  BY <1>1, <1>2, <1>3 DEF RaceInv

LEMMA RaceNextKeeps ==
  ASSUME NEW w \in Writer, Writer = {w}, RaceInv(w), [RaceNext]_raceVars
  PROVE  RaceInv(w)'
<1>1. CASE broken = "no" /\ Write(w)
  BY <1>1, WriteKeeps, WriterStepKeeps DEF RaceInv
<1>2. CASE broken = "no" /\ \E r \in Reader : Read(r)
  BY <1>2, ReadKeeps
<1>3. CASE UNCHANGED raceVars
  <2>1. RingInv(w) /\ UNCHANGED shared /\ read' = read /\ broken' = broken
    BY <1>3 DEF RaceInv, raceVars, shared
  <2>2. RingInv(w)' /\ (FirstRound(w)' <=> FirstRound(w)) /\ \A c : ReadCorrect(c) => ReadCorrect(c)'
    BY <2>1, SharedKept
  <2>3. Readers(w)'
    <3>1. ASSUME FirstRound(w), NEW r \in Reader
          PROVE  ReadCorrect(read[r])'
      BY <2>1, <2>2, <3>1 DEF RaceInv, Readers
    <3>2. QED
      BY <2>1, <2>2, <3>1 DEF RaceInv, Readers
  <2>4. Faults(w)'
    BY <2>1, <2>2 DEF RaceInv, Faults
  <2>5. QED
    BY <2>2, <2>3, <2>4 DEF RaceInv
<1>4. QED
  BY <1>1, <1>2, <1>3 DEF RaceNext

\* With one writer, the lines begun are those whose slot has been taken.
LEMMA BegunAreTaken ==
  ASSUME NEW w \in Writer, Writer = {w}, RaceInv(w)
  PROVE  LinesBegun = LinesTaken(w)
<1> DEFINE pc == write[w].pc
           one == IF pc \in Taking \ Counted THEN 1 ELSE 0
<1>1. Storing = IF pc \in Taking \ Counted THEN {w} ELSE {}
  BY DEF Storing, Taking, Stored, Moved, Counted
<1>2. Cardinality(Storing) = one
  <2>1. Cardinality({w}) = 1 /\ Cardinality({}) = 0
    BY FS_Singleton, FS_EmptySet
  <2>2. QED
    BY <1>1, <2>1
<1>3. buf.w_abs = Len(log) + Plus(w, Counted) /\ Len(log) \in Nat
  BY LogTypes DEF RaceInv, RingInv, Counters
<1>4. Plus(w, Counted) \in Nat /\ Plus(w, Counted) + one = Plus(w, Taking)
  BY DEF Plus, Taking, Stored, Moved, Counted
<1>5. one \in Nat
  OBVIOUS
<1> HIDE DEF one
<1>6. buf.w_abs + Cardinality(Storing) = LinesTaken(w)
  <2>1. (Len(log) + Plus(w, Counted)) + one = Len(log) + (Plus(w, Counted) + one)
    BY <1>3, <1>4, <1>5
  <2>2. QED
    BY <1>2, <1>3, <1>4, <2>1 DEF LinesTaken
<1>7. QED
  BY <1>6 DEF LinesBegun

LEMMA FreshIsFirstRound ==
  ASSUME NEW w \in Writer, Writer = {w}, RaceInv(w)
  PROVE  SlotsFresh <=> FirstRound(w)
BY BegunAreTaken DEF SlotsFresh, FirstRound

-----------------------------------------------------------------------------
(* Readers beside the writer, once slots are used again *)

LateCalls(Data) ==
  [pc : ReadPlaces, pos : Nat, len : Nat, text : Nat, off : Int, base : Nat, i : Nat,
   total : Int, ofs : Int, ptr : Nat, size : Nat, data : Data]
LateCall(c) == c \in LateCalls({c.data})

\* A search has not gone past the lines counted, and a read copies from the block
\* its line has, until the writer has come round to the line's slot.
LateRead(w, c) ==
  /\ LateCall(c)
  /\ c.pc \in {"probe", "past"} => c.base <= buf.start_abs /\ c.base <= c.i
  /\ c.pc = "probe" => c.i = c.base \/ c.i < buf.w_abs
  /\ c.pc \in {"search", "probe", "past"} => c.ofs = -1
  /\ c.pc = "take" /\ c.ofs >= 0 => c.i <= buf.w_abs
  /\ c.pc \in {"load", "copy"} => c.i < buf.w_abs
  /\ c.pc = "next" => c.i <= buf.w_abs
  /\ c.pc = "copy" /\ LinesTaken(w) <= c.i + N => c.ptr = entry[Slot(c.i)].ptr

LateInv(w) == \A r \in Reader : LateRead(w, read[r])

\* What the counters say in every round.
LEMMA LateFacts ==
  ASSUME NEW w \in Writer, RingInv(w)
  PROVE  /\ RaceTypes /\ N \in Nat \ {0} /\ LinesTaken(w) \in Nat /\ LinesStored(w) \in Nat
         /\ buf.w_abs \in Nat /\ buf.start_abs \in Nat /\ buf.start_char_abs \in Nat
         /\ buf.start_abs <= buf.w_abs /\ buf.w_abs - buf.start_abs <= N
         /\ buf.w_abs <= LinesStored(w)
<1>1. RaceTypes /\ Counters(w) /\ N \in Nat \ {0} /\ Len(log) \in Nat
  BY LogTypes, RaceAssumption DEF RingInv
<1>2. /\ buf.w_abs \in Nat /\ buf.start_abs \in Nat /\ buf.start_char_abs \in Nat
  BY <1>1, FieldTypes
<1>3. /\ Plus(w, Counted) \in {0, 1} /\ Plus(w, Moved) \in {0, 1} /\ Plus(w, Stored) \in {0, 1}
      /\ Plus(w, Taking) \in {0, 1}
      /\ Plus(w, Counted) <= Plus(w, Moved) /\ Plus(w, Counted) <= Plus(w, Stored)
  BY DEF Plus, Moved, Stored, Counted
<1> DEFINE n == Len(log)
           counted == Plus(w, Counted)
           moved == Plus(w, Moved)
<1>4. buf.w_abs = n + counted /\ buf.start_abs = Oldest(n + moved)
  BY <1>1 DEF Counters
<1> HIDE DEF n, counted, moved
<1>5. buf.start_abs <= buf.w_abs /\ buf.w_abs - buf.start_abs <= N
  <2>1. /\ n \in Nat /\ counted \in {0, 1} /\ moved \in {0, 1} /\ counted <= moved
        /\ buf.start_abs = IF n + moved <= N THEN 0 ELSE n + moved - N
    BY <1>1, <1>3, <1>4 DEF n, counted, moved, Oldest
  <2>2. QED
    BY <1>1, <1>4, <2>1
<1>6. LinesTaken(w) \in Nat /\ LinesStored(w) \in Nat /\ buf.w_abs <= LinesStored(w)
  BY <1>1, <1>3, <1>4 DEF LinesTaken, LinesStored, n, counted
<1>7. QED
  BY <1>1, <1>2, <1>5, <1>6

\* While no other line has its slot, a counted line is in a live block.
LEMMA NotOvertaken ==
  ASSUME NEW w \in Writer, RingInv(w), NEW i \in Nat, i < buf.w_abs, LinesTaken(w) <= i + N
  PROVE  Live(entry[Slot(i)].ptr)
<1>1. /\ N \in Nat \ {0} /\ LinesTaken(w) \in Nat /\ LinesStored(w) \in Nat
      /\ buf.w_abs \in Nat /\ buf.w_abs <= LinesStored(w)
  BY LateFacts
<1>2. i \in Oldest(LinesTaken(w))..(LinesStored(w) - 1)
  BY <1>1 DEF Oldest
<1>3. LineIn(i)
  BY <1>2 DEF RingInv, Ring
<1>4. QED
  BY <1>3 DEF LineIn, Block, Live

\* The writer moves the counters forward only, and gives a slot a new block only
\* once it has taken it.
LEMMA WriterMoves ==
  ASSUME NEW w \in Writer, RingInv(w), Write(w)
  PROVE  /\ buf.w_abs <= buf'.w_abs /\ buf.start_abs <= buf'.start_abs
         /\ LinesTaken(w) <= LinesTaken(w)'
         /\ \A i \in Nat : i < buf.w_abs /\ LinesTaken(w)' <= i + N =>
              entry'[Slot(i)].ptr = entry[Slot(i)].ptr
<1> DEFINE n == Len(log)
<1>1. /\ RaceTypes /\ N \in Nat \ {0} /\ n \in Nat /\ buf.w_abs \in Nat /\ buf.start_abs \in Nat
      /\ \A i \in Nat : Slot(i) \in Slots
  <2>1. RaceTypes
    BY DEF RingInv
  <2>2. \A i \in Nat : Slot(i) \in Slots
    BY SlotFacts
  <2>3. QED
    BY <2>1, <2>2, LogTypes, FieldTypes, RaceAssumption
<1>2. LinesTaken(w) = n + Plus(w, Taking) /\ LinesTaken(w)' = Len(log') + Plus(w, Taking)'
  BY DEF LinesTaken
<1>3. /\ Plus(w, Taking) = IF write[w].pc \in Taking THEN 1 ELSE 0
      /\ Plus(w, Taking)' = IF write'[w].pc \in Taking THEN 1 ELSE 0
  BY DEF Plus
<1>4. CASE \/ \E m \in 1..MaxChunk, last \in BOOLEAN : StartWrite(w, m, last)
           \/ Grow(w) \/ AllocTmp(w) \/ ClearTmp(w) \/ Carry(w) \/ AppendChunk(w) \/ Grown(w)
           \/ Target(w)
  <2>1. buf' = buf /\ entry' = entry /\ log' = log
    BY <1>4 DEF StartWrite, Grow, AllocTmp, ClearTmp, Carry, AppendChunk, Grown, Target
  <2>2. write[w].pc \in {"idle", "grow", "alloc", "clear", "carry", "append", "grown", "target"}
    BY <1>4 DEF StartWrite, Grow, AllocTmp, ClearTmp, Carry, AppendChunk, Grown, Target, WriteAt
  <2>3. write[w].pc \notin Taking
    BY <2>2 DEF Taking, Stored, Moved, Counted
  <2>4. LinesTaken(w) <= LinesTaken(w)'
    BY <1>1, <1>2, <1>3, <2>1, <2>3
  <2>5. QED
    BY <1>1, <2>1, <2>4
<1>5. ASSUME NEW p \in Taking, WriteGo(w, p), log' = log
      PROVE  LinesTaken(w) <= LinesTaken(w)'
  <2>1. write'[w].pc = p
    BY <1>1, <1>5, GoFacts DEF WritePlaces, Whole
  <2>2. QED
    BY <1>1, <1>2, <1>3, <1>5, <2>1
<1>6. CASE StoreBlock(w)
  <2>1. /\ buf' = buf /\ log' = log /\ write[w].pc = "store" /\ WriteGo(w, "fill")
        /\ entry' = [entry EXCEPT ![write[w].slot].ptr = Fresh]
    BY <1>6 DEF StoreBlock, WriteAt, WriteNext, After
  <2>2. LinesTaken(w) <= LinesTaken(w)'
    BY <1>5, <2>1 DEF Taking
  <2>3. write[w].slot = Slot(n) /\ LinesTaken(w) = n + 1 /\ buf.w_abs = n
    <3>1. write[w].pc \in Taking /\ write[w].pc \notin Counted
      BY <2>1 DEF Taking, Stored, Moved, Counted
    <3>2. Plus(w, Counted) = 0
      BY <3>1 DEF Plus
    <3>3. buf.w_abs = n + 0
      BY <3>2 DEF RingInv, Counters
    <3>4. write[w].slot = Slot(n)
      BY <3>1 DEF RingInv, Ring
    <3>5. QED
      BY <1>1, <1>2, <1>3, <3>1, <3>3, <3>4
  <2>4. ASSUME NEW i \in Nat, i < buf.w_abs, LinesTaken(w)' <= i + N
        PROVE  entry'[Slot(i)].ptr = entry[Slot(i)].ptr
    <3>1. LinesTaken(w)' \in Nat /\ n + 1 <= i + N
      <4>1. LinesTaken(w)' \in Nat
        BY <1>1, <1>2, <1>3, <2>1
      <4>2. QED
        BY <1>1, <2>2, <2>3, <2>4, <4>1
    <3>2. i - n > -N /\ i - n < N /\ i # n
      BY <1>1, <2>3, <2>4, <3>1
    <3>3. Slot(i) # Slot(n)
      BY <1>1, <3>2, SlotFacts
    <3>4. QED
      BY <1>1, <2>1, <2>3, <3>3 DEF RaceTypes
  <2>5. QED
    BY <1>1, <2>1, <2>2, <2>4
<1>7. CASE FillBlock(w) \/ StoreSize(w)
  <2>1. /\ buf' = buf /\ log' = log /\ (WriteGo(w, "size") \/ WriteGo(w, "evict"))
        /\ entry' = entry \/ entry' = [entry EXCEPT ![write[w].slot].size = tmp_entry.size]
    BY <1>7 DEF FillBlock, StoreSize, WriteAt, WriteNext, After
  <2>2. LinesTaken(w) <= LinesTaken(w)'
    BY <1>5, <2>1 DEF Taking, Stored
  <2>3. \A s \in Slots : entry'[s].ptr = entry[s].ptr
    <3>1. entry \in [Slots -> [ptr : Nat, size : Nat]]
      BY <1>1 DEF RaceTypes
    <3>2. \A s \in Slots : entry[s] \in [ptr : Nat, size : Nat]
      BY <3>1
    <3>3. QED
      BY <2>1, <3>1, <3>2
  <2>4. QED
    BY <1>1, <2>1, <2>2, <2>3
<1>8. CASE Evict(w) \/ EvictChars(w) \/ CountLine(w) \/ CountChars(w)
  <2>1. entry' = entry /\ log' = log /\ \E p \in Taking : WriteGo(w, p)
    BY <1>8 DEF Evict, EvictChars, CountLine, CountChars, WriteAt, WriteNext, After,
                Taking, Stored, Moved, Counted
  <2>2. \/ buf' = buf
        \/ buf' = [buf EXCEPT !.start_abs = @ + 1]
        \/ buf' = [buf EXCEPT !.start_char_abs = @ + entry[Slot(buf.start_abs)].size]
        \/ buf' = [buf EXCEPT !.w_abs = @ + 1]
        \/ buf' = [buf EXCEPT !.w_char_abs = @ + tmp_entry.size]
    BY <1>8 DEF Evict, EvictChars, CountLine, CountChars
  <2>3. buf.w_abs <= buf'.w_abs /\ buf.start_abs <= buf'.start_abs
    <3>1. buf \in [w_abs : Nat, start_abs : Nat, w_char_abs : Nat, start_char_abs : Nat]
      BY <1>1 DEF RaceTypes
    <3>2. CASE buf' = [buf EXCEPT !.start_abs = @ + 1]
      BY <1>1, <3>1, <3>2
    <3>3. CASE buf' = [buf EXCEPT !.w_abs = @ + 1]
      BY <1>1, <3>1, <3>3
    <3>4. CASE buf'.w_abs = buf.w_abs /\ buf'.start_abs = buf.start_abs
      BY <1>1, <3>4
    <3>5. buf' = [buf EXCEPT !.start_char_abs = @ + entry[Slot(buf.start_abs)].size]
            => buf'.w_abs = buf.w_abs /\ buf'.start_abs = buf.start_abs
      BY <3>1
    <3>6. buf' = [buf EXCEPT !.w_char_abs = @ + tmp_entry.size]
            => buf'.w_abs = buf.w_abs /\ buf'.start_abs = buf.start_abs
      BY <3>1
    <3>7. QED
      BY <2>2, <3>2, <3>3, <3>4, <3>5, <3>6
  <2>4. QED
    BY <1>1, <1>5, <2>1, <2>3
<1>9. CASE FreeTmp(w)
  <2>1. /\ entry' = entry /\ buf' = buf /\ WriteGo(w, "idle") /\ write[w].pc = "free"
        /\ \E line : log' = Append(log, line)
    BY <1>9 DEF FreeTmp, WriteAt
  <2>2. Len(log') = n + 1
    BY <1>1, <2>1 DEF RaceTypes
  <2>3. write'[w].pc = "idle" /\ "idle" \notin Taking
    BY <1>1, <2>1, GoFacts DEF WritePlaces, Taking, Stored, Moved, Counted
  <2>4. LinesTaken(w)' = n + 1 /\ LinesTaken(w) <= n + 1
    BY <1>1, <1>2, <1>3, <2>2, <2>3
  <2>5. QED
    BY <1>1, <2>1, <2>4
<1>10. QED
  BY <1>4, <1>6, <1>7, <1>8, <1>9 DEF Write

LEMMA WriterKeepsLate ==
  ASSUME NEW w \in Writer, RingInv(w), RingInv(w)', Write(w), read' = read, LateInv(w)
  PROVE  LateInv(w)'
<1>1. /\ N \in Nat /\ LinesTaken(w) \in Nat /\ buf.w_abs \in Nat /\ buf.start_abs \in Nat
      /\ LinesTaken(w)' \in Nat /\ buf'.w_abs \in Nat /\ buf'.start_abs \in Nat
  <2>1. RaceTypes'
    BY DEF RingInv
  <2>2. buf'.w_abs \in Nat /\ buf'.start_abs \in Nat /\ Len(log') \in Nat
    BY <2>1 DEF RaceTypes
  <2>3. LinesTaken(w)' \in Nat
    BY <2>2 DEF LinesTaken, Plus
  <2>4. QED
    BY <2>2, <2>3, LateFacts
<1>2. /\ buf.w_abs <= buf'.w_abs /\ buf.start_abs <= buf'.start_abs
      /\ LinesTaken(w) <= LinesTaken(w)'
      /\ \A i \in Nat : i < buf.w_abs /\ LinesTaken(w)' <= i + N =>
           entry'[Slot(i)].ptr = entry[Slot(i)].ptr
  BY WriterMoves
<1>3. ASSUME NEW r \in Reader
      PROVE  LateRead(w, read[r])'
  <2> DEFINE c == read[r]
  <2>1. LateRead(w, c) /\ LateCall(c) /\ c.i \in Nat /\ c.base \in Nat
    BY DEF LateInv, LateRead, LateCall, LateCalls
  <2> DEFINE d == read'[r]
  <2>2. d = c
    OBVIOUS
  <2>3. c.pc = "copy" /\ LinesTaken(w)' <= c.i + N => c.ptr = entry'[Slot(c.i)].ptr
    BY <1>1, <1>2, <2>1 DEF LateRead
  <2> HIDE DEF c, d
  <2>4. QED
    BY <1>1, <1>2, <2>1, <2>2, <2>3 DEF LateRead, LateCall, LateCalls, d, Slot
<1>4. QED
  BY <1>3 DEF LateInv

\* The read goes on as d, or stops for good.
LEMMA LateGoes ==
  ASSUME NEW w \in Writer, LateInv(w), UNCHANGED shared, DOMAIN read = Reader,
         NEW r \in Reader, NEW d, LateRead(w, d), read' = [read EXCEPT ![r] = d]
  PROVE  LateInv(w)'
<1>1. /\ UNCHANGED <<buf, entry, tmp_entry, heap, write, accepted, log>>
      /\ LinesTaken(w)' = LinesTaken(w)
  BY DEF shared, LinesTaken, Plus
<1>2. \A o \in Reader : read'[o] = d \/ read'[o] = read[o]
  OBVIOUS
<1>3. \A o \in Reader : LateRead(w, read'[o])
  BY <1>2 DEF LateInv
<1>4. QED
  BY <1>1, <1>3 DEF LateInv, LateRead, LateCall, LateCalls, Slot

LEMMA LateSame ==
  ASSUME NEW w \in Writer, LateInv(w), UNCHANGED shared, read' = read
  PROVE  LateInv(w)'
<1>1. /\ UNCHANGED <<buf, entry, tmp_entry, heap, write, accepted, log>>
      /\ LinesTaken(w)' = LinesTaken(w)
  BY DEF shared, LinesTaken, Plus
<1>2. QED
  BY <1>1 DEF LateInv, LateRead, LateCall, LateCalls, Slot

\* A new read, and one that starts to search.
LEMMA LateStart ==
  ASSUME NEW w \in Writer, RaceInv(w), LateInv(w), NEW r \in Reader,
         \/ \E pos \in 0..MaxBytes, len \in 1..MaxLen : StartRead(r, pos, len)
         \/ StartSearch(r)
  PROVE  LateInv(w)' /\ broken' = broken
<1>1. /\ RingInv(w) /\ DOMAIN read = Reader /\ buf.w_char_abs \in Nat
      /\ buf.start_abs \in Nat /\ buf.start_char_abs \in Nat
  <2>1. RingInv(w) /\ DOMAIN read = Reader
    BY DEF RaceInv, Readers
  <2>2. buf.w_char_abs \in Nat
    BY <2>1, FieldTypes DEF RingInv
  <2>3. QED
    BY <2>1, <2>2, LateFacts
<1>2. ASSUME NEW pos \in 0..MaxBytes, NEW len \in 1..MaxLen, StartRead(r, pos, len)
      PROVE  LateInv(w)' /\ broken' = broken
  <2> DEFINE p == IF buf.start_char_abs <= pos /\ pos <= buf.w_char_abs THEN "search" ELSE "done"
             d == [IdleRead EXCEPT !.pos = pos, !.len = len, !.text = buf.w_char_abs, !.pc = p]
  <2>1. UNCHANGED shared /\ broken' = broken /\ read' = [read EXCEPT ![r] = d]
    BY <1>2 DEF StartRead
  <2>2. p \in {"search", "done"} /\ pos \in Nat /\ len \in Nat
    BY RaceAssumption
  <2> HIDE DEF p
  <2>3. LateCall(d) /\ d.pc = p /\ d.ofs = -1
    <3> DEFINE x == buf.w_char_abs
    <3>1. p \in ReadPlaces /\ x \in Nat /\ IdleRead.ofs = -1
      BY <1>1, <2>2 DEF ReadPlaces, IdleRead
    <3>2. LateCall(IdleRead)
      BY DEF IdleRead, LateCall, LateCalls, ReadPlaces
    <3> HIDE DEF x
    <3>3. d = [IdleRead EXCEPT !.pos = pos, !.len = len, !.text = x, !.pc = p]
      BY DEF x
    <3> HIDE DEF d
    <3>4. d \in LateCalls({IdleRead.data}) /\ d.pc = p /\ d.ofs = IdleRead.ofs /\ d.data = IdleRead.data
      BY <2>2, <3>1, <3>2, <3>3, Zenon DEF LateCall, LateCalls
    <3>5. QED
      BY <3>1, <3>4 DEF LateCall
  <2> HIDE DEF d
  <2>4. LateRead(w, d)
    BY <2>2, <2>3 DEF LateRead
  <2>5. QED
    BY <1>1, <2>1, <2>4, LateGoes
<1>3. CASE StartSearch(r)
  <2> DEFINE c == read[r]
             d == [c EXCEPT !.pc = "probe", !.off = c.pos - buf.start_char_abs,
                            !.base = buf.start_abs, !.i = buf.start_abs]
  <2>1. UNCHANGED shared /\ broken' = broken /\ read' = [read EXCEPT ![r] = d] /\ c.pc = "search"
    BY <1>3 DEF StartSearch, ReadAt
  <2>2. LateCall(c) /\ c.ofs = -1
    BY <2>1 DEF LateInv, LateRead
  <2> HIDE DEF c
  <2>3. /\ LateCall(d) /\ d.pc = "probe" /\ d.ofs = -1
        /\ d.base = buf.start_abs /\ d.i = buf.start_abs
    <3> DEFINE o == c.pos - buf.start_char_abs
               b == buf.start_abs
    <3>1. o \in Int /\ b \in Nat /\ "probe" \in ReadPlaces
      BY <1>1, <2>2 DEF LateCall, LateCalls, ReadPlaces
    <3> HIDE DEF o, b
    <3>2. d = [c EXCEPT !.pc = "probe", !.off = o, !.base = b, !.i = b]
      BY DEF o, b
    <3> HIDE DEF d
    <3>3. /\ d \in LateCalls({c.data}) /\ d.pc = "probe" /\ d.ofs = c.ofs /\ d.data = c.data
          /\ d.base = b /\ d.i = b
      BY <2>2, <3>1, <3>2, Zenon DEF LateCall, LateCalls
    <3>4. QED
      BY <2>2, <3>3 DEF LateCall, b
  <2> HIDE DEF d
  <2>4. LateRead(w, d)
    BY <1>1, <2>3 DEF LateRead
  <2>5. QED
    BY <1>1, <2>1, <2>4, LateGoes
<1>4. QED
  BY <1>2, <1>3

\* The search stays in the array unless its first line has left the window.
LEMMA LateProbe ==
  ASSUME NEW w \in Writer, RaceInv(w), LateInv(w), NEW r \in Reader, broken = "no", Probe(r)
  PROVE  /\ LateInv(w)'
         /\ broken' # "no" => /\ broken' = "stray index" /\ read' = read /\ buf' = buf
                              /\ read[r].pc = "probe" /\ read[r].base < buf.start_abs
<1> DEFINE c == read[r]
<1>1. /\ DOMAIN read = Reader /\ N \in Nat \ {0} /\ buf.w_abs \in Nat /\ buf.start_abs \in Nat
      /\ buf.start_abs <= buf.w_abs /\ buf.w_abs - buf.start_abs <= N
      /\ \A s \in Slots : entry[s].size \in Nat
  <2>1. RingInv(w) /\ DOMAIN read = Reader
    BY DEF RaceInv, Readers
  <2>2. \A s \in Slots : entry[s].size \in Nat
    BY <2>1, FieldTypes DEF RingInv
  <2>3. QED
    BY <2>1, <2>2, LateFacts
<1>2. UNCHANGED shared /\ buf' = buf /\ c.pc = "probe"
  BY DEF Probe, ReadAt, shared
<1>3. /\ LateCall(c) /\ c.ofs = -1 /\ c.base <= buf.start_abs /\ c.base <= c.i
      /\ c.i = c.base \/ c.i < buf.w_abs
  BY <1>2 DEF LateInv, LateRead
<1>4. /\ c.i \in Nat /\ c.base \in Nat /\ c.total \in Int /\ c.off \in Int
  BY <1>3 DEF LateCall, LateCalls
<1> DEFINE found == [c EXCEPT !.pc = "take", !.ofs = c.off - c.total]
           missed(s) == [c EXCEPT !.pc = "past", !.i = c.i + 1, !.total = c.total + s]
<1>5. PICK base \in {c.base, buf.start_abs} :
        \/ c.i - base \notin Slots /\ Break("stray index") /\ read' = read
        \/ /\ c.i - base \in Slots /\ broken' = broken
           /\ \/ read' = [read EXCEPT ![r] = found]
              \/ read' = [read EXCEPT ![r] = missed(entry[c.i - base].size)]
  BY DEF Probe
<1> HIDE DEF c
<1>6. CASE c.i - base \notin Slots /\ Break("stray index") /\ read' = read
  <2>1. LateInv(w)'
    BY <1>2, <1>6, LateSame
  <2>2. c.base < buf.start_abs
    <3>1. SUFFICES ASSUME ~(c.base < buf.start_abs)
                   PROVE  FALSE
      OBVIOUS
    <3>2. c.base = buf.start_abs /\ base = buf.start_abs
      BY <1>1, <1>3, <1>4, <3>1
    <3>3. c.i - base \in 0..(N - 1)
      BY <1>1, <1>3, <1>4, <3>2
    <3>4. QED
      BY <1>6, <3>3 DEF Slots
  <2>3. QED
    BY <1>2, <1>6, <2>1, <2>2 DEF Break, c
<1>7. CASE broken' = broken /\ read' = [read EXCEPT ![r] = found]
  <2>1. LateCall(found) /\ found.pc = "take" /\ found.i = c.i
    <3> DEFINE o == c.off - c.total
    <3>1. o \in Int /\ "take" \in ReadPlaces
      BY <1>4 DEF ReadPlaces
    <3> HIDE DEF o
    <3>2. found = [c EXCEPT !.pc = "take", !.ofs = o]
      BY DEF o
    <3> HIDE DEF found
    <3>3. found \in LateCalls({c.data}) /\ found.pc = "take" /\ found.i = c.i /\ found.data = c.data
      BY <1>3, <3>1, <3>2, Zenon DEF LateCall, LateCalls
    <3>4. QED
      BY <3>3 DEF LateCall
  <2> HIDE DEF found
  <2>2. LateRead(w, found)
    BY <1>1, <1>3, <1>4, <2>1 DEF LateRead
  <2>3. QED
    BY <1>1, <1>2, <1>7, <2>2, LateGoes
<1>8. CASE /\ c.i - base \in Slots /\ broken' = broken
           /\ read' = [read EXCEPT ![r] = missed(entry[c.i - base].size)]
  <2> DEFINE s == entry[c.i - base].size
             d == missed(s)
  <2>1. s \in Nat
    BY <1>1, <1>8
  <2>2. read' = [read EXCEPT ![r] = d]
    BY <1>8
  <2> HIDE DEF s
  <2>3. LateCall(d) /\ d.pc = "past" /\ d.ofs = -1 /\ d.base = c.base /\ d.i = c.i + 1
    <3> DEFINE k == c.i + 1
               z == c.total + s
    <3>1. k \in Nat /\ z \in Int /\ "past" \in ReadPlaces
      BY <1>4, <2>1 DEF ReadPlaces
    <3> HIDE DEF k, z
    <3>2. d = [c EXCEPT !.pc = "past", !.i = k, !.total = z]
      BY DEF k, z
    <3> HIDE DEF d, missed
    <3>3. /\ d \in LateCalls({c.data}) /\ d.pc = "past" /\ d.ofs = c.ofs /\ d.data = c.data
          /\ d.base = c.base /\ d.i = k
      BY <1>3, <3>1, <3>2, Zenon DEF LateCall, LateCalls
    <3>4. QED
      BY <1>3, <3>3 DEF LateCall, k
  <2> HIDE DEF d, missed
  <2>4. LateRead(w, d)
    BY <1>3, <1>4, <2>3 DEF LateRead
  <2>5. QED
    BY <1>1, <1>2, <1>8, <2>2, <2>4, LateGoes
<1>9. QED
  BY <1>5, <1>6, <1>7, <1>8

\* From the search to the copy.
LEMMA LateSteps ==
  ASSUME NEW w \in Writer, RaceInv(w), LateInv(w), NEW r \in Reader, broken = "no",
         PastLast(r) \/ Take(r) \/ LoadEntry(r) \/ NextEntry(r)
  PROVE  LateInv(w)' /\ broken' \in {"no", "unset offset"}
<1> DEFINE c == read[r]
<1>1. /\ DOMAIN read = Reader /\ buf.w_abs \in Nat
      /\ \A s \in Slots : entry[s].ptr \in Nat /\ entry[s].size \in Nat
      /\ \A i \in Nat : Slot(i) \in Slots
  <2>1. RingInv(w) /\ DOMAIN read = Reader
    BY DEF RaceInv, Readers
  <2>2. \A s \in Slots : entry[s].ptr \in Nat /\ entry[s].size \in Nat
    BY <2>1, FieldTypes DEF RingInv
  <2>3. \A i \in Nat : Slot(i) \in Slots
    BY SlotFacts
  <2>4. QED
    BY <2>1, <2>2, <2>3, LateFacts
<1>2. UNCHANGED shared
  BY DEF PastLast, Take, LoadEntry, NextEntry
<1>3. LateRead(w, c) /\ LateCall(c) /\ c.i \in Nat /\ c.ofs \in Int
  BY DEF LateInv, LateRead, LateCall, LateCalls
<1>4. ASSUME NEW p \in ReadPlaces, ReadGo(r, p), p \in {"take", "probe", "load", "done"},
             p = "take" => c.ofs = -1,
             p = "probe" => c.ofs = -1 /\ c.i < buf.w_abs /\ c.base <= buf.start_abs /\ c.base <= c.i,
             p = "load" => c.i < buf.w_abs
      PROVE  LateInv(w)'
  <2> DEFINE d == [c EXCEPT !.pc = p]
  <2>1. read' = [read EXCEPT ![r] = d]
    BY <1>4 DEF ReadGo
  <2> HIDE DEF c
  <2>2. LateCall(d) /\ d.pc = p /\ d.i = c.i /\ d.ofs = c.ofs /\ d.base = c.base
    BY <1>3 DEF LateCall, LateCalls
  <2> HIDE DEF d
  <2>3. LateRead(w, d)
    BY <1>4, <2>2 DEF LateRead
  <2>4. QED
    BY <1>1, <1>2, <2>1, <2>3, LateGoes
<1>5. CASE Take(r)
  <2>1. c.pc = "take"
    BY <1>5 DEF Take, ReadAt
  <2>2. \/ read' = read /\ broken' = "unset offset"
        \/ ReadGo(r, "done") /\ broken' = broken
        \/ c.i # buf.w_abs /\ ~(c.ofs < 0) /\ ReadGo(r, "load") /\ broken' = broken
    BY <1>5 DEF Take, Break
  <2>3. ~(c.ofs < 0) => c.i <= buf.w_abs
    BY <1>3, <2>1 DEF LateRead
  <2> HIDE DEF c
  <2>4. CASE read' = read /\ broken' = "unset offset"
    BY <1>2, <2>4, LateSame
  <2>5. CASE ReadGo(r, "done") /\ broken' = broken
    BY <1>4, <2>5 DEF ReadPlaces
  <2>6. CASE c.i # buf.w_abs /\ ~(c.ofs < 0) /\ ReadGo(r, "load") /\ broken' = broken
    <3>1. c.i < buf.w_abs
      BY <1>1, <1>3, <2>3, <2>6
    <3>2. QED
      BY <1>4, <2>6, <3>1 DEF ReadPlaces
  <2>7. QED
    BY <2>2, <2>4, <2>5, <2>6
<1>6. CASE LoadEntry(r)
  <2> DEFINE e == entry[Slot(c.i)]
             d == [c EXCEPT !.pc = IF e.ptr = 0 THEN "done" ELSE "copy", !.ptr = e.ptr, !.size = e.size]
  <2>1. read' = [read EXCEPT ![r] = d] /\ broken' = broken /\ c.pc = "load"
    BY <1>6 DEF LoadEntry, ReadAt
  <2>2. c.i < buf.w_abs
    BY <1>3, <2>1 DEF LateRead
  <2> DEFINE p == IF e.ptr = 0 THEN "done" ELSE "copy"
  <2>3. e.ptr \in Nat /\ e.size \in Nat /\ p \in {"done", "copy"}
    BY <1>1, <1>3
  <2> DEFINE f == [c EXCEPT !.pc = p, !.ptr = e.ptr, !.size = e.size]
  <2>4. d = f
    OBVIOUS
  <2> HIDE DEF c, e, p, d
  <2>5. LateCall(f) /\ f.pc = p /\ f.i = c.i /\ f.ptr = e.ptr
    BY <1>3, <2>3 DEF LateCall, LateCalls, ReadPlaces
  <2> HIDE DEF f
  <2>6. LateRead(w, f)
    BY <2>2, <2>3, <2>5 DEF LateRead, e
  <2>7. QED
    BY <1>1, <1>2, <2>1, <2>4, <2>6, LateGoes
<1>7. CASE PastLast(r)
  <2>1. /\ c.pc = "past" /\ broken' = broken
        /\ \/ ReadGo(r, "take")
           \/ ~(c.i >= buf.w_abs) /\ ReadGo(r, "probe")
    BY <1>7 DEF PastLast, ReadAt
  <2>2. c.ofs = -1 /\ c.base <= buf.start_abs /\ c.base <= c.i
    BY <1>3, <2>1 DEF LateRead
  <2>3. ~(c.i >= buf.w_abs) => c.i < buf.w_abs
    BY <1>1, <1>3
  <2>4. QED
    BY <1>4, <2>1, <2>2, <2>3 DEF ReadPlaces
<1>8. CASE NextEntry(r)
  <2>1. /\ c.pc = "next" /\ broken' = broken
        /\ \/ ReadGo(r, "done")
           \/ c.i # buf.w_abs /\ ReadGo(r, "load")
    BY <1>8 DEF NextEntry, ReadAt
  <2>2. c.i <= buf.w_abs
    BY <1>3, <2>1 DEF LateRead
  <2>3. c.i # buf.w_abs => c.i < buf.w_abs
    BY <1>1, <1>3, <2>2
  <2>4. QED
    BY <1>4, <2>1, <2>3 DEF ReadPlaces
<1>9. QED
  BY <1>5, <1>6, <1>7, <1>8

\* A block is freed under the read that copies from it only when the writer has
\* come round to the slot of its line.
LEMMA LateCopy ==
  ASSUME NEW w \in Writer, RaceInv(w), LateInv(w), NEW r \in Reader, broken = "no", CopyEntry(r)
  PROVE  /\ LateInv(w)' /\ broken' \in {"no", "freed block", "past the block"}
         /\ broken' = "freed block" =>
              /\ read' = read /\ heap' = heap /\ read[r].pc = "copy"
              /\ ~Live(read[r].ptr) /\ read[r].i + N < LinesTaken(w)
<1> DEFINE c == read[r]
           n == Min({c.size - c.ofs, c.len - Len(c.data)})
           all == n = c.size - c.ofs
           k == IF all THEN c.i + 1 ELSE c.i
           p == IF all THEN "next" ELSE "done"
           more == c.data \o SubSeq(heap[c.ptr].bytes, c.ofs + 1, c.ofs + n)
           d == [c EXCEPT !.data = more, !.ofs = 0, !.i = k, !.pc = p]
<1>1. /\ RingInv(w) /\ DOMAIN read = Reader /\ buf.w_abs \in Nat
      /\ N \in Nat /\ LinesTaken(w) \in Nat
  BY LateFacts DEF RaceInv, Readers
<1>2. UNCHANGED shared /\ heap' = heap /\ c.pc = "copy"
  BY DEF CopyEntry, ReadAt, shared
<1>3. LateRead(w, c) /\ LateCall(c) /\ c.i \in Nat /\ c.i < buf.w_abs
  BY <1>2 DEF LateInv, LateRead, LateCall, LateCalls
<1>4. LinesTaken(w) <= c.i + N => Live(c.ptr)
  BY <1>1, <1>2, <1>3, NotOvertaken DEF LateRead
<1>5. \/ ~Live(c.ptr) /\ broken' = "freed block" /\ read' = read
      \/ broken' = "past the block" /\ read' = read
      \/ broken' = broken /\ read' = [read EXCEPT ![r] = d]
  BY DEF CopyEntry, Break
<1>6. k \in Nat /\ k <= buf.w_abs /\ p \in {"next", "done"} /\ p \in ReadPlaces
  BY <1>1, <1>3 DEF ReadPlaces
<1> HIDE DEF c, n, k, p, more
<1>7. LateRead(w, d)
  <2>1. d = [c EXCEPT !.data = more, !.ofs = 0, !.i = k, !.pc = p]
    OBVIOUS
  <2> HIDE DEF d
  <2>2. d \in LateCalls({more}) /\ d.pc = p /\ d.i = k /\ d.data = more
    <3>1. 0 \in Int /\ more \in {more}
      OBVIOUS
    <3>2. QED
      BY <1>3, <1>6, <2>1, <3>1, Zenon DEF LateCall, LateCalls
  <2>3. QED
    BY <1>6, <2>2 DEF LateRead, LateCall
<1> HIDE DEF d
<1>8. CASE ~Live(c.ptr) /\ broken' = "freed block" /\ read' = read
  <2> DEFINE t == LinesTaken(w)
             e == c.i
  <2>1. ~(t <= e + N) /\ t \in Nat /\ e \in Nat
    BY <1>1, <1>3, <1>4, <1>8
  <2>2. e + N < t
    <3> HIDE DEF t, e
    <3>1. QED
      BY <1>1, <2>1
  <2>3. c.i + N < LinesTaken(w)
    BY <2>2, Zenon
  <2>4. QED
    BY <1>2, <1>8, <2>3, LateSame DEF c
<1>9. CASE broken' = "past the block" /\ read' = read
  BY <1>2, <1>9, LateSame
<1>10. CASE broken' = broken /\ read' = [read EXCEPT ![r] = d]
  BY <1>1, <1>2, <1>7, <1>10, LateGoes
<1>11. QED
  BY <1>5, <1>8, <1>9, <1>10

\* What the property says, of the slots taken.
LateFaults(w) ==
  /\ broken = "freed block" =>
       \E r \in Reader : read[r].pc = "copy" /\ ~Live(read[r].ptr) /\ read[r].i + N < LinesTaken(w)
  /\ broken = "stray index" =>
       \E r \in Reader : read[r].pc = "probe" /\ read[r].base < buf.start_abs

LEMMA LateNext ==
  ASSUME NEW w \in Writer, Writer = {w}, RaceInv(w), RaceInv(w)', LateInv(w), LateFaults(w),
         [RaceNext]_raceVars
  PROVE  LateInv(w)' /\ LateFaults(w)'
<1>1. CASE broken = "no" /\ Write(w)
  <2>1. RingInv(w) /\ RingInv(w)'
    BY DEF RaceInv
  <2>2. read' = read /\ broken' = broken
    BY <1>1, <2>1, WriteKeeps DEF WriterStep
  <2>3. QED
    BY <1>1, <2>1, <2>2, WriterKeepsLate DEF LateFaults
<1>2. ASSUME broken = "no", NEW r \in Reader, Read(r)
      PROVE  LateInv(w)' /\ LateFaults(w)'
  <2>1. CASE (\E pos \in 0..MaxBytes, len \in 1..MaxLen : StartRead(r, pos, len)) \/ StartSearch(r)
    BY <1>2, <2>1, LateStart DEF LateFaults
  <2>2. CASE Probe(r)
    BY <1>2, <2>2, LateProbe DEF LateFaults
  <2>3. CASE PastLast(r) \/ Take(r) \/ LoadEntry(r) \/ NextEntry(r)
    BY <1>2, <2>3, LateSteps DEF LateFaults
  <2>4. CASE CopyEntry(r)
    <3>1. UNCHANGED shared
      BY <2>4 DEF CopyEntry
    <3>2. LinesTaken(w)' = LinesTaken(w) /\ heap' = heap
      BY <3>1 DEF shared, LinesTaken, Plus
    <3>3. QED
      BY <1>2, <2>4, <3>2, LateCopy DEF LateFaults, Live
  <2>5. QED
    BY <1>2, <2>1, <2>2, <2>3, <2>4 DEF Read
<1>3. CASE UNCHANGED raceVars
  <2>1. UNCHANGED shared /\ UNCHANGED <<buf, entry, tmp_entry, heap, write, accepted, log>>
        /\ read' = read /\ broken' = broken
    BY <1>3 DEF raceVars, shared
  <2>2. QED
    BY <2>1, LateSame DEF LateFaults, Live, LinesTaken, Plus
<1>4. QED
  BY <1>1, <1>2, <1>3 DEF RaceNext

LEMMA LateInit ==
  ASSUME NEW w \in Writer, RaceInit
  PROVE  LateInv(w) /\ LateFaults(w)
<1>1. read = [r \in Reader |-> IdleRead] /\ broken = "no"
  BY DEF RaceInit
<1>2. LateRead(w, IdleRead)
  BY DEF LateRead, LateCall, LateCalls, IdleRead, ReadPlaces
<1>3. QED
  BY <1>1, <1>2 DEF LateInv, LateFaults

-----------------------------------------------------------------------------
(* Theorems *)

\* With one writer and any number of readers, none of which takes the lock: the
\* invariant of every statement of aesd_write and aesd_read.
THEOREM RaceInvariant ==
  ASSUME NEW w \in Writer, Writer = {w}
  PROVE  RaceSpec => []RaceInv(w)
<1>1. RaceInit => RaceInv(w)
  BY InitRace
<1>2. RaceInv(w) /\ [RaceNext]_raceVars => RaceInv(w)'
  BY RaceNextKeeps
<1>3. QED
  BY <1>1, <1>2, PTL DEF RaceSpec

\* add_entry with readers beside it: each time it has returned, the slots hold the
\* last N lines in live blocks of their own and the accumulator the unfinished line.
THEOREM RingAlwaysQuiet ==
  ASSUME NEW w \in Writer, Writer = {w}
  PROVE  RaceSpec => []RingQuiet
<1>1. RaceInv(w) => RingQuiet
  <2>1. SUFFICES ASSUME RaceInv(w), Quiet
                 PROVE  /\ buf.w_abs = Len(log) /\ buf.w_char_abs = Committed
                        /\ buf.w_abs - buf.start_abs = Min({N, Len(log)})
                        /\ \A i \in buf.start_abs..(buf.w_abs - 1) :
                             LET e == entry[Slot(i)]
                             IN  /\ Live(e.ptr)
                                 /\ SubSeq(heap[e.ptr].bytes, 1, e.size)
                                      = Bytes(log[i + 1].from, log[i + 1].to)
                        /\ tmp_entry.size = accepted - Committed
                        /\ tmp_entry.size > 0 =>
                             Live(tmp_entry.ptr) /\ heap[tmp_entry.ptr].bytes = Bytes(Committed, accepted)
    BY DEF RingQuiet
  <2> DEFINE n == Len(log)
  <2>2. /\ RaceTypes /\ Cuts(w) /\ Counters(w) /\ Ring(w) /\ Accumulator(w)
        /\ write[w].pc = "idle" /\ n \in Nat /\ N \in Nat \ {0}
        /\ LineEnd(n) \in Nat /\ accepted \in Nat
    <3>1. RaceTypes /\ Cuts(w) /\ Counters(w) /\ Ring(w) /\ Accumulator(w)
      BY <2>1 DEF RaceInv, RingInv
    <3>2. write[w].pc = "idle"
      BY <2>1 DEF Quiet
    <3>3. n \in Nat /\ N \in Nat \ {0} /\ accepted \in Nat
      BY <3>1, LogTypes, RaceAssumption DEF RaceTypes
    <3>4. QED
      BY <3>1, <3>2, <3>3, LineEndNat
  <2>3. \A P \in {Taking, Stored, Counted, Moved, {"free"}} : Plus(w, P) = 0
    BY <2>2 DEF Plus, Taking, Stored, Counted, Moved
  <2>4. LinesTaken(w) = n /\ LinesStored(w) = n /\ n + 0 = n
    BY <2>2, <2>3 DEF LinesTaken, LinesStored
  <2>5. Committed = LineEnd(n)
    <3>1. log \in Seq([from : Nat, to : Nat])
      BY <2>2 DEF RaceTypes
    <3>2. QED
      BY <2>2, <3>1 DEF Committed, LineEnd
  <2>6. buf.w_abs = n /\ buf.start_abs = Oldest(n) /\ buf.w_char_abs = LineEnd(n)
    BY <2>2, <2>3, <2>4 DEF Counters
  <2>7. n - Oldest(n) = Min({N, n}) /\ Oldest(n) \in Nat
    <3>1. Oldest(n) = (IF n <= N THEN 0 ELSE n - N)
      BY DEF Oldest
    <3>2. Min({N, n}) = IF N <= n THEN N ELSE n
      BY <2>2, MinPair
    <3> HIDE DEF n
    <3>3. QED
      BY <2>2, <3>1, <3>2
  <2>8. ASSUME NEW i \in Oldest(n)..(n - 1)
        PROVE  /\ Live(entry[Slot(i)].ptr)
               /\ SubSeq(heap[entry[Slot(i)].ptr].bytes, 1, entry[Slot(i)].size)
                    = Bytes(log[i + 1].from, log[i + 1].to)
    <3> DEFINE e == entry[Slot(i)]
               a == LineEnd(i)
               b == LineEnd(i + 1)
               s == heap[e.ptr].bytes
    <3>1. i \in Nat /\ i + 1 \in 1..n /\ i + 1 \in Nat /\ (i + 1) - 1 = i
      BY <2>2, <2>7
    <3>2. LineIn(i)
      BY <2>2, <2>4 DEF Ring
    <3>3. a \in Nat /\ b \in Nat /\ a < b
      <4>1. a \in Nat /\ b \in Nat
        BY <2>2, <3>1, LineEndNat
      <4>2. LineEnd((i + 1) - 1) < LineEnd(i + 1)
        BY <2>2, <3>1 DEF Cuts
      <4>3. QED
        BY <3>1, <4>1, <4>2
    <3>4. log[i + 1].from = a /\ log[i + 1].to = b
      <4>1. log[i + 1].from = LineEnd((i + 1) - 1)
        BY <2>2, <3>1 DEF Cuts
      <4>2. log[i + 1].to = LineEnd(i + 1)
        BY <3>1 DEF LineEnd
      <4>3. QED
        BY <3>1, <4>1, <4>2
    <3>5. e.size = b - a /\ Live(e.ptr) /\ s = Bytes(a, b)
      BY <3>2 DEF LineIn, Block, Live
    <3>6. s \in Seq(Nat) /\ Len(s) = b - a /\ b - a \in Nat
      <4>1. a <= b /\ b - a \in Nat
        BY <3>3
      <4>2. Bytes(a, b) \in Seq(Nat) /\ Len(Bytes(a, b)) = b - a
        BY <3>3, <4>1, BytesFacts
      <4>3. QED
        BY <3>5, <4>1, <4>2
    <3> HIDE DEF a, b, s, e
    <3>7. SubSeq(s, 1, b - a) = s
      BY <3>6
    <3>8. QED
      BY <3>4, <3>5, <3>7 DEF s, e
  <2>9. /\ tmp_entry.size = accepted - LineEnd(n)
        /\ LineEnd(n) < accepted => Block(tmp_entry.ptr, Bytes(LineEnd(n), accepted))
    BY <2>2 DEF Accumulator, Growing
  <2>10. tmp_entry.size > 0 =>
           Live(tmp_entry.ptr) /\ heap[tmp_entry.ptr].bytes = Bytes(LineEnd(n), accepted)
    <3>1. tmp_entry.size > 0 => LineEnd(n) < accepted
      BY <2>2, <2>9
    <3>2. QED
      BY <2>9, <3>1 DEF Block, Live
  <2> HIDE DEF n
  <2>11. QED
    BY <2>5, <2>6, <2>7, <2>8, <2>9, <2>10 DEF n
<1>2. QED
  BY <1>1, RaceInvariant, PTL

\* A read that starts before the end of the text is served right beside the writer,
\* as long as no slot is used a second time.
THEOREM ReadsExactBesideWriter ==
  ASSUME NEW w \in Writer, Writer = {w}
  PROVE  RaceSpec => []ReadsBesideWriter
<1>1. RaceInv(w) => ReadsBesideWriter
  <2>1. SUFFICES ASSUME RaceInv(w), NEW r \in Reader, SlotsFresh,
                        read[r].pc = "done", read[r].pos < read[r].text
                 PROVE  /\ read[r].data = Bytes(read[r].pos, read[r].pos + Len(read[r].data))
                        /\ Len(read[r].data) >= Min({read[r].len, read[r].text - read[r].pos})
    BY DEF ReadsBesideWriter
  <2>2. FirstRound(w)
    BY <2>1, FreshIsFirstRound
  <2>3. ReadCorrect(read[r])
    BY <2>1, <2>2 DEF RaceInv, Readers
  <2>4. QED
    BY <2>1, <2>3 DEF ReadCorrect
<1>2. QED
  BY <1>1, RaceInvariant, PTL

\* Until then one thing can go wrong for a reader: a read at the end of the text
\* that goes on with the offset the search never set.
THEOREM FaultsOnlyAtEnd ==
  ASSUME NEW w \in Writer, Writer = {w}
  PROVE  RaceSpec => []EarlyFaultsAtEnd
<1>1. RaceInv(w) => EarlyFaultsAtEnd
  <2>1. RaceInv(w) => Faults(w) /\ (SlotsFresh <=> FirstRound(w))
    BY FreshIsFirstRound DEF RaceInv
  <2>2. QED
    BY <2>1 DEF EarlyFaultsAtEnd, Faults
<1>2. QED
  BY <1>1, RaceInvariant, PTL

\* From then on a reader meets a freed block or leaves the array only where the
\* writer has come round to it: the line it copies is no longer retained, the line
\* its search started from has left the window.
THEOREM LateFaultsAreEvictions ==
  ASSUME NEW w \in Writer, Writer = {w}
  PROVE  RaceSpec => []LateFaultsFromEviction
<1>1. RaceInit => LateInv(w) /\ LateFaults(w)
  BY LateInit
<1>2. RaceInv(w) /\ RaceInv(w)' /\ LateInv(w) /\ LateFaults(w) /\ [RaceNext]_raceVars
        => LateInv(w)' /\ LateFaults(w)'
  BY LateNext
<1>3. RaceInv(w) /\ LateFaults(w) => LateFaultsFromEviction
  BY BegunAreTaken DEF LateFaults, LateFaultsFromEviction
<1>4. QED
  BY <1>1, <1>2, <1>3, RaceInvariant, PTL DEF RaceSpec

\* The property that two writers violate: one writer alone never writes to memory
\* that is not its own and never frees a block twice, whatever its readers do.
THEOREM OneWriterIsSafe ==
  ASSUME NEW w \in Writer, Writer = {w}
  PROVE  RaceSpec => []WritersKeepApart
<1>1. RaceInv(w) => WritersKeepApart
  BY DEF RaceInv, Faults, ReaderFaults, WritersKeepApart
<1>2. QED
  BY <1>1, RaceInvariant, PTL
=============================================================================
