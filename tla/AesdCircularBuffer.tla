--------------------------- MODULE AesdCircularBuffer ---------------------------
(***************************************************************************)
(* The circular buffer of the aesdchar driver                              *)
(* (aesd-char-driver/aesd-circular-buffer.c): N slots, each holding one     *)
(* newline-terminated line, fed by aesd_circular_buffer_add_entry with      *)
(* chunks that need not be whole lines, and read by                         *)
(* aesd_circular_buffer_raed at an absolute character position.             *)
(*                                                                         *)
(* One call of the code is one action here: this is the buffer as one       *)
(* caller at a time sees it.                                                *)
(*                                                                         *)
(* A byte is its number in the stream of all bytes ever handed to           *)
(* add_entry (1, 2, 3, ...), so that a read shows exactly which bytes it    *)
(* returned.  Bytes that no caller wrote (memory past an allocation, a      *)
(* freed or zeroed block) are Garbage.                                      *)
(***************************************************************************)
EXTENDS Integers, Sequences, SequencesExt, FiniteSetsExt

CONSTANTS
  N,          \* AESDCHAR_MAX_WRITE_OPERATIONS_SUPPORTED (10 in the code)
  U32,        \* 2^32, the modulus of the uint32_t counters
  MaxChunk,   \* bound: longest chunk handed to add_entry
  MaxBytes,   \* bound: bytes handed to add_entry in a behaviour
  MaxLen,     \* bound: longest read
  Positions   \* bound: the file positions a caller may read at

ASSUME BufferAssumption ==
  /\ N \in 1..255                        \* in_offs is a uint8_t
  /\ U32 \in Nat /\ U32 > 2 * N + 1
  /\ MaxChunk \in Nat \ {0}
  /\ MaxBytes \in Nat
  /\ MaxLen \in Nat \ {0}
  /\ Positions \subseteq Int

VARIABLES
  entry,            \* slot -> the bytes of its line; <<>> is a NULL buffptr, size 0
  in_offs,          \* next slot to write, kept beside w_abs
  out_offs,         \* "first location to read from", only raed moves it
  full,
  w_abs,            \* lines committed, mod 2^32
  start_abs,        \* number of the oldest retained line, mod 2^32
  w_char_abs,       \* characters committed, mod 2^32
  start_char_abs,   \* character position given to the oldest retained line
  tmp_entry,        \* the file-static accumulator of the unfinished line
  accepted,         \* history: bytes handed to add_entry
  log               \* history: every committed line, as its range of the stream

vars == <<entry, in_offs, out_offs, full, w_abs, start_abs, w_char_abs,
          start_char_abs, tmp_entry, accepted, log>>

U8 == 256
Garbage == 0
Slots == 0..(N - 1)

\* A counter wider than 32 bits.
Bug_Uint32(x) == x
Uint32(x) == x % U32

Slot(i) == i % N

\* A slot number after its increment: back to 0 at N.
Bug_WrapOffs(o) == IF o > N THEN 0 ELSE o
WrapOffs(o) == IF o >= N THEN 0 ELSE o

\* <<a, a+1, ..., b-1>>
Interval(a, b) == [k \in 1..(b - a) |-> a + k - 1]

\* The bytes of the stream after the first a, up to the first b.
Bytes(a, b) == [k \in 1..(b - a) |-> a + k]

LineBytes(line) == Bytes(line.from, line.to)
LineSize(line) == line.to - line.from

\* How many bytes of the stream are in committed lines.
Committed == IF log = <<>> THEN 0 ELSE log[Len(log)].to

-----------------------------------------------------------------------------
(* The accumulator *)

\* memset(buffer, 0, ...) and a static tmp_entry: buffptr NULL, size 0.
NullEntry == [mem |-> "null", bytes |-> <<>>, size |-> 0]

\* A reset that forgets the size.
Bug_KeepSize(e) ==
  [mem |-> IF e.mem = "null" THEN "null" ELSE "freed", bytes |-> <<>>, size |-> e.size]

\* aesd_init_entry frees the block and zeroes the size; buffptr keeps pointing
\* to the freed block.
aesd_init_entry(e) ==
  [mem |-> IF e.mem = "null" THEN "null" ELSE "freed", bytes |-> <<>>, size |-> 0]

\* What lands in the first tmp_entry.size bytes of the new block: the old
\* content when the old block is live, otherwise whatever the memory holds.
Carried(e) ==
  IF e.mem = "live" THEN SubSeq(e.bytes, 1, e.size)
                    ELSE [k \in 1..e.size |-> Garbage]

\* tmp_entry after a chunk is appended to it in a new block.
Extended(e, chunk) ==
  [mem |-> "live", bytes |-> Carried(e) \o chunk, size |-> e.size + Len(chunk)]

-----------------------------------------------------------------------------
(* aesd_circular_buffer_add_entry *)

\* An off-by-one in the test for a full window.
Bug_WindowFull == Uint32(w_abs - start_abs) > N
WindowFull == Uint32(w_abs - start_abs) >= N

\* The increment of start_char_abs when a line is evicted: the code has
\* already advanced start_abs, so it takes the size of the NEW oldest line.
Bug_NothingEvicted(slots, start) == 0
Bug_EvictedSize(slots, start) == Len(slots[Slot(start - 1)])
EvictedSize(slots, start) == Len(slots[Slot(start)])

\* A chunk without final newline only grows the accumulator.
AddPartial(n) ==
  /\ accepted + n <= MaxBytes
  /\ tmp_entry' = Extended(tmp_entry, Bytes(accepted, accepted + n))
  /\ accepted' = accepted + n
  /\ UNCHANGED <<entry, in_offs, out_offs, full, w_abs, start_abs, w_char_abs,
                 start_char_abs, log>>

\* The slot a line is stored in, computed from a counter that is already advanced.
Bug_TargetSlot == Slot(w_abs + 1)
TargetSlot == Slot(w_abs)

\* A chunk that ends in a newline completes the line and commits it.
AddLine(n) ==
  LET done == Extended(tmp_entry, Bytes(accepted, accepted + n))
  IN  /\ accepted + n <= MaxBytes
      /\ entry' = [entry EXCEPT ![TargetSlot] = SubSeq(done.bytes, 1, done.size)]
      /\ start_abs' = IF WindowFull THEN Uint32(start_abs + 1) ELSE start_abs
      /\ start_char_abs' = IF WindowFull
                             THEN Uint32(start_char_abs + EvictedSize(entry', start_abs'))
                             ELSE start_char_abs
      /\ w_abs' = Uint32(w_abs + 1)
      /\ w_char_abs' = Uint32(w_char_abs + done.size)
      /\ in_offs' = WrapOffs(in_offs + 1)
      /\ full' = (full \/ in_offs' = out_offs)
      /\ tmp_entry' = aesd_init_entry(done)
      /\ accepted' = accepted + n
      /\ log' = Append(log, [from |-> Committed, to |-> accepted + n])
      /\ UNCHANGED out_offs

aesd_circular_buffer_add_entry(n) == AddPartial(n) \/ AddLine(n)

-----------------------------------------------------------------------------
(* Searching the buffer *)

\* Bytes in the first j array elements, counted from slot 0 whatever the
\* oldest slot is.
PhysicalPrefix(j) == SumFunctionOnSet([i \in Slots |-> Len(entry[i])], 0..(j - 1))

\* The search at array element j ends: the character is in it, the element is
\* unused, or the next line number is past the last one.
SearchHits(j, off) == PhysicalPrefix(j) + Len(entry[j]) > off \/ Len(entry[j]) = 0
Bug_SearchEnds(j, off) == SearchHits(j, off)
SearchEnds(j, off) == SearchHits(j, off) \/ Uint32(start_abs + j + 1) >= w_abs

\* The element the search ends at; N if it would run off the array.
SearchStop(off) == Min({j \in Slots : SearchEnds(j, off)} \cup {N})

\* aesd_circular_buffer_find_entry_offset_and_index_for_fpos: a line number
\* and an offset in that line; the offset is not set when no line was hit.
FindIndex(off) ==
  LET j == SearchStop(off)
  IN  IF j < N /\ SearchHits(j, off)
        THEN [idx |-> Uint32(start_abs + j), ofs |-> off - PhysicalPrefix(j)]
        ELSE [idx |-> Uint32(start_abs + j + 1), ofs |-> 0]

\* A full ring taken for an empty one.
Bug_ScanOrder ==
  IF in_offs < out_offs THEN Interval(out_offs, N) \o Interval(0, in_offs)
                        ELSE Interval(out_offs, in_offs)

\* The slots aesd_circular_buffer_find_entry_offset_for_fpos visits, in order.
ScanOrder ==
  IF in_offs <= out_offs THEN Interval(out_offs, N) \o Interval(0, in_offs)
                         ELSE Interval(out_offs, in_offs)

\* aesd_circular_buffer_find_entry_offset_for_fpos: the byte at the offset,
\* or NULL when the scan ends first.
Null == -1
FindEntry(off) ==
  LET scanned == FlattenSeq([k \in DOMAIN ScanOrder |-> entry[ScanOrder[k]]])
  IN  IF off < Len(scanned) THEN scanned[off + 1] ELSE Null

\* aesd_circular_buffer_get_bytes_to_ofs, for an index inside the array.
aesd_circular_buffer_get_bytes_to_ofs(elem_ind, ofs_in_elem) ==
  Uint32(PhysicalPrefix(elem_ind) + ofs_in_elem)

-----------------------------------------------------------------------------
(* aesd_circular_buffer_raed *)

\* The copy moves on before it has taken the line it found.
Bug_LinesFrom(first) == FlattenSeq([k \in 1..(w_abs - first) |-> entry[Slot(first + k)]])

\* The bytes of the lines from number first up to the last committed one.
LinesFrom(first) == FlattenSeq([k \in 1..(w_abs - first) |-> entry[Slot(first + k - 1)]])

\* Bytes in the lines first..last.
Span(first, last) == MapThenSumSet(LAMBDA i : Len(entry[Slot(i)]), first..last)

\* What the copy loop returns.  An offset past the end of the first line makes
\* the remaining length negative; compared as size_t it is huge, and the whole
\* request is copied from behind the line.
Copied(first, ofs, len) ==
  IF ofs > Len(entry[Slot(first)])
    THEN [k \in 1..len |-> Garbage]
    ELSE LET rest == LinesFrom(first) IN SubSeq(rest, ofs + 1, Min({ofs + len, Len(rest)}))

\* How many lines the loop consumes to their end.
Consumed(first, ofs, len) ==
  IF ofs > Len(entry[Slot(first)])
    THEN 0
    ELSE Cardinality({i \in first..(w_abs - 1) : Span(first, i) - ofs <= len})

\* out_offs after the loop: set to the line number, then one up per consumed
\* line, back to 0 at N.
OutOffsAfter(first, c) ==
  IF c = 0 THEN first % U8
           ELSE (WrapOffs((first % U8) + 1) + c - 1) % N

\* The copy loop gets to line 2^31: the int line number turns negative, its slot
\* number is outside the array, and what is copied is whatever lies there.
LeavesArray(first, ofs, len) ==
  /\ w_abs > U32 \div 2
  /\ ofs <= Len(entry[Slot(first)])
  /\ Span(first, (U32 \div 2) - 1) - ofs < len

\* A position is served only inside the window of retained characters.
InWindow(pos) == start_char_abs <= pos /\ pos <= w_char_abs
ReadFails(pos) == ~InWindow(pos)

\* The line number comes back as an int: negative from 2^31 on.
ReadStart(pos) == FindIndex(pos - start_char_abs)
ReadsNothing(first) == first >= U32 \div 2 \/ first = w_abs

\* The return value: -1 outside the window, else the number of bytes copied (of
\* a read that stays inside the array).
RaedData(pos, len) ==
  LET s == ReadStart(pos)
  IN  IF ReadFails(pos) \/ ReadsNothing(s.idx) THEN <<>> ELSE Copied(s.idx, s.ofs, len)
RaedResult(pos, len) == IF ReadFails(pos) THEN -1 ELSE Len(RaedData(pos, len))

\* The effect of a read on the buffer itself.
aesd_circular_buffer_raed(pos, len) ==
  LET s == ReadStart(pos)
      c == Consumed(s.idx, s.ofs, len)
  IN  /\ IF ReadFails(pos) \/ s.idx >= U32 \div 2
           THEN UNCHANGED <<out_offs, full>>
         ELSE IF s.idx = w_abs
           THEN out_offs' = s.idx % U8 /\ UNCHANGED full
         ELSE IF LeavesArray(s.idx, s.ofs, len)
           THEN out_offs' \in Slots /\ full' = FALSE
           ELSE /\ out_offs' = OutOffsAfter(s.idx, c)
                /\ full' = (full /\ (c = 0 \/ (c = 1 /\ s.idx + 1 = w_abs)))
      /\ UNCHANGED <<entry, in_offs, w_abs, start_abs, w_char_abs,
                     start_char_abs, tmp_entry, accepted, log>>

-----------------------------------------------------------------------------
(* The specification *)

\* aesd_circular_buffer_init
Init ==
  /\ entry = [i \in Slots |-> <<>>]
  /\ in_offs = 0
  /\ out_offs = 0
  /\ full = FALSE
  /\ w_abs = 0
  /\ start_abs = 0
  /\ w_char_abs = 0
  /\ start_char_abs = 0
  /\ tmp_entry = aesd_init_entry(NullEntry)
  /\ accepted = 0
  /\ log = <<>>

Next ==
  \/ \E n \in 1..MaxChunk : aesd_circular_buffer_add_entry(n)
  \/ \E pos \in Positions, len \in 1..MaxLen : aesd_circular_buffer_raed(pos, len)

Spec == Init /\ [][Next]_vars
-----------------------------------------------------------------------------
(* Properties *)

TypeOK ==
  /\ entry \in [Slots -> Seq(Nat)]
  /\ in_offs \in Slots
  /\ out_offs \in 0..(U8 - 1)
  /\ full \in BOOLEAN
  /\ w_abs \in 0..(U32 - 1)
  /\ start_abs \in 0..(U32 - 1)
  /\ w_char_abs \in 0..(U32 - 1)
  /\ start_char_abs \in 0..(U32 - 1)
  /\ tmp_entry \in [mem : {"null", "live", "freed"}, bytes : Seq(Nat), size : Nat]
  /\ accepted \in Nat
  /\ log \in Seq([from : Nat, to : Nat])

\* No uint32_t counter has wrapped: every line has at least one byte, so the
\* number of bytes bounds the number of lines too.
NoWrap == accepted < U32

\* Where the oldest retained line begins in the stream.
RetainedFrom == IF log = <<>> THEN 0 ELSE log[start_abs + 1].from

\* The slots hold exactly the last N lines: counting in three places (w_abs,
\* start_abs and in_offs) never lets a line be lost early, kept too long or
\* stored over a younger one.  add_entry, "the most recent write operations".
RingHoldsRecentLines ==
  NoWrap =>
    /\ w_abs = Len(log)
    /\ w_abs - start_abs = Min({N, Len(log)})
    /\ in_offs = Slot(w_abs)
    /\ w_char_abs = Committed
    /\ \A i \in start_abs..(w_abs - 1) : entry[Slot(i)] = LineBytes(log[i + 1])

\* The accumulator holds exactly the bytes since the last newline, in order,
\* whatever the chunks were; the pointer aesd_init_entry leaves dangling is
\* never copied from, because its size is 0.
PendingIntact ==
  /\ tmp_entry.size = accepted - Committed
  /\ tmp_entry.size > 0 => /\ tmp_entry.mem = "live"
                           /\ tmp_entry.bytes = Bytes(Committed, accepted)

\* start_char_abs is not where the oldest line begins but is off by exactly
\* the size of that line less the size of the first line ever written:
\* add_entry adds the size of the new oldest line at each eviction.
StartCharDrift ==
  NoWrap /\ log # <<>> =>
    start_char_abs = RetainedFrom + LineSize(log[start_abs + 1]) - LineSize(log[1])

\* The search of find_entry_offset_and_index_for_fpos, whose loop has no bound
\* of its own, ends inside the array for every position a read lets through,
\* also after the counters wrap.
SearchStaysInArray ==
  \A pos \in Positions : InWindow(pos) => SearchStop(pos - start_char_abs) < N

\* Reads are exact while the search's array order is the order of the lines:
\* before the first eviction, each time the oldest line is back in slot 0,
\* and when all lines have one size.  The byte at a position is then the byte
\* that many characters into the retained lines, and a read crosses lines
\* without losing or repeating one.
ReadExactWhenAligned ==
  /\ NoWrap
  /\ w_abs < U32 \div 2
  /\ Slot(start_abs) = 0 \/ \A i, j \in DOMAIN log : LineSize(log[i]) = LineSize(log[j])
  => \A pos \in Positions, len \in 1..MaxLen :
       LET first == RetainedFrom + pos - start_char_abs
       IN  InWindow(pos) =>
             RaedData(pos, len) = Bytes(first, Min({first + len, Committed}))

\* One read from the window's start that asks for everything returns all
\* retained lines, oldest first, after any number of evictions.
WholeReadExact ==
  NoWrap /\ w_abs < U32 \div 2 /\ Committed > 0 =>
    RaedData(start_char_abs, Committed) = Bytes(RetainedFrom, Committed)

\* The retained lines, oldest first, and the unfinished one, as the abstract
\* LineHistory sees them.
RetainedLines == [k \in 1..(w_abs - start_abs) |-> entry[Slot(start_abs + k - 1)]]
PartialLine == SubSeq(tmp_entry.bytes, 1, tmp_entry.size)

History == INSTANCE LineHistory
             WITH retained <- RetainedLines, partial <- PartialLine, total <- accepted

\* Until a counter wraps, writers get what LineHistory promises: the slots,
\* the three counters and the accumulator together behave as a list of the
\* last N lines, and a read never disturbs it.
ImplementsHistory == History!HistorySpec

\* The search of the unit-test interface counts from out_offs, which add_entry
\* leaves where it was and reads move.  While that is the oldest line's slot it
\* finds every retained character, end to end, and NULL behind the last one,
\* also in a ring that is full or that has wrapped.
FindEntryExactFromOldest ==
  NoWrap /\ out_offs = Slot(start_abs) =>
    /\ \A off \in 0..(Committed - RetainedFrom - 1) : FindEntry(off) = RetainedFrom + off + 1
    /\ FindEntry(Committed - RetainedFrom) = Null
=============================================================================
