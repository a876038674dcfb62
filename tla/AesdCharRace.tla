------------------------------ MODULE AesdCharRace ------------------------------
(***************************************************************************)
(* aesd_write and aesd_read as they really run: both leave the lock of the   *)
(* device alone (mutex_lock and mutex_unlock are commented out, main.c 98,   *)
(* 101, 174, 199), so the calls of several processes interleave inside the   *)
(* circular buffer.  One statement that touches the shared buffer is one      *)
(* step.                                                                     *)
(*                                                                         *)
(* in_offs, out_offs and full are left out: they are read only to set each   *)
(* other.  Counters are far from 2^32 here.  What a call does after it        *)
(* touched memory that is not its own is undefined: the behaviour ends there, *)
(* and broken says what happened.                                            *)
(***************************************************************************)
EXTENDS Integers, Sequences, FiniteSetsExt

CONSTANTS
  N,          \* AESDCHAR_MAX_WRITE_OPERATIONS_SUPPORTED
  Writer,     \* processes that write
  Reader,     \* processes that read
  MaxChunk,   \* bound: longest chunk written
  MaxBytes,   \* bound: bytes written in a behaviour
  MaxLen      \* bound: longest read

ASSUME RaceAssumption ==
  /\ N \in 1..255
  /\ Writer \cap Reader = {}
  /\ MaxChunk \in Nat \ {0} /\ MaxBytes \in Nat /\ MaxLen \in Nat \ {0}

\* The counters do not wrap and the int line numbers stay positive.
ASSUME CountersFit == MaxBytes < 2147483647

VARIABLES
  buf,        \* the four counters of struct aesd_circular_buffer
  entry,      \* slot -> block and size; block 0 is NULL
  tmp_entry,  \* block and size of the unfinished line
  heap,       \* block -> its bytes and whether it is allocated
  write,      \* writer -> its call of aesd_circular_buffer_add_entry
  read,       \* reader -> its call of aesd_circular_buffer_raed
  accepted,   \* history: bytes handed to add_entry
  log,        \* history: every committed line, as its range of the stream
  broken      \* what went wrong with memory, or "no"

raceVars == <<buf, entry, tmp_entry, heap, write, read, accepted, log, broken>>

Garbage == 0
Slots == 0..(N - 1)
Slot(i) == i % N
Bytes(a, b) == [k \in 1..(b - a) |-> a + k]

NoBlock == [ptr |-> 0, size |-> 0]
IdleWrite == [pc |-> "idle", first |-> 0, n |-> 0, last |-> FALSE, old |-> 0, size |-> 0, slot |-> 0]
IdleRead == [pc |-> "idle", pos |-> 0, len |-> 0, text |-> 0, off |-> 0, base |-> 0, i |-> 0,
             total |-> 0, ofs |-> -1, ptr |-> 0, size |-> 0, data |-> <<>>]

Live(ptr) == heap[ptr].live
Room(ptr) == Len(heap[ptr].bytes)
Fresh == Len(heap) + 1
Allocate(n) == heap' = Append(heap, [bytes |-> [k \in 1..n |-> Garbage], live |-> TRUE])
Free(ptr) == heap' = [heap EXCEPT ![ptr].live = FALSE]
\* memcpy of bytes to position at of a block.
Fill(ptr, at, bytes) ==
  heap' = [heap EXCEPT ![ptr].bytes =
             [k \in DOMAIN @ |-> IF k > at /\ k <= at + Len(bytes) THEN bytes[k - at] ELSE @[k]]]
Break(what) == broken' = what

-----------------------------------------------------------------------------
(* aesd_circular_buffer_add_entry, statement by statement *)

\* The counters go up before the slot is filled.
Bug_After(pc) ==
  CASE pc = "grown" -> "evict"  [] pc = "evict" -> "evicted"  [] pc = "evicted" -> "count"
    [] pc = "count" -> "chars"  [] pc = "chars" -> "target"   [] pc = "target" -> "store"
    [] pc = "store" -> "fill"   [] pc = "fill" -> "size"      [] pc = "size" -> "free"

\* The statement that follows, once the line is complete.
After(pc) ==
  CASE pc = "grown" -> "target" [] pc = "target" -> "store"   [] pc = "store" -> "fill"
    [] pc = "fill" -> "size"    [] pc = "size" -> "evict"     [] pc = "evict" -> "evicted"
    [] pc = "evicted" -> "count" [] pc = "count" -> "chars"   [] pc = "chars" -> "free"

WriteAt(w, pc) == write[w].pc = pc
WriteGo(w, pc) == write' = [write EXCEPT ![w].pc = pc]
WriteNext(w) == WriteGo(w, After(write[w].pc))

StartWrite(w, n, last) ==
  /\ WriteAt(w, "idle") /\ accepted + n <= MaxBytes
  /\ write' = [write EXCEPT ![w] = [IdleWrite EXCEPT !.pc = "grow", !.first = accepted,
                                                     !.n = n, !.last = last]]
  /\ accepted' = accepted + n
  /\ UNCHANGED <<buf, entry, tmp_entry, heap, read, log, broken>>

\* current_str and new_size are taken from the shared accumulator.
Grow(w) ==
  /\ WriteAt(w, "grow")
  /\ write' = [write EXCEPT ![w].pc = "alloc", ![w].old = tmp_entry.ptr,
                            ![w].size = tmp_entry.size + write[w].n]
  /\ UNCHANGED <<buf, entry, tmp_entry, heap, read, accepted, log, broken>>

AllocTmp(w) ==
  /\ WriteAt(w, "alloc")
  /\ Allocate(write[w].size)
  /\ tmp_entry' = [tmp_entry EXCEPT !.ptr = Fresh]
  /\ WriteGo(w, "clear")
  /\ UNCHANGED <<buf, entry, read, accepted, log, broken>>

\* memset, through the shared pointer: into whatever block it leads to by now.
ClearTmp(w) ==
  LET n == write[w].size
  IN  /\ WriteAt(w, "clear")
      /\ IF ~Live(tmp_entry.ptr) \/ n > Room(tmp_entry.ptr)
           THEN Break("writer") /\ UNCHANGED heap
           ELSE Fill(tmp_entry.ptr, 0, [k \in 1..n |-> Garbage]) /\ UNCHANGED broken
      /\ WriteGo(w, "carry")
      /\ UNCHANGED <<buf, entry, tmp_entry, read, accepted, log>>

\* The old bytes, as many as the accumulator has now, into its block of now.
Carry(w) ==
  LET old == write[w].old
      k == tmp_entry.size
  IN  /\ WriteAt(w, "carry")
      /\ IF old = 0 \/ k = 0
           THEN UNCHANGED <<heap, broken>>
         ELSE IF ~Live(old) \/ ~Live(tmp_entry.ptr) \/ k > Room(old) \/ k > Room(tmp_entry.ptr)
           THEN Break("writer") /\ UNCHANGED heap
           ELSE Fill(tmp_entry.ptr, 0, SubSeq(heap[old].bytes, 1, k)) /\ UNCHANGED broken
      /\ WriteGo(w, "append")
      /\ UNCHANGED <<buf, entry, tmp_entry, read, accepted, log>>

AppendChunk(w) ==
  LET c == write[w]
  IN  /\ WriteAt(w, "append")
      /\ IF ~Live(tmp_entry.ptr) \/ tmp_entry.size + c.n > Room(tmp_entry.ptr)
           THEN Break("writer") /\ UNCHANGED heap
           ELSE /\ Fill(tmp_entry.ptr, tmp_entry.size, Bytes(c.first, c.first + c.n))
                /\ UNCHANGED broken
      /\ WriteGo(w, "grown")
      /\ UNCHANGED <<buf, entry, tmp_entry, read, accepted, log>>

Grown(w) ==
  /\ WriteAt(w, "grown")
  /\ tmp_entry' = [tmp_entry EXCEPT !.size = write[w].size]
  /\ IF write[w].last THEN WriteNext(w) ELSE WriteGo(w, "idle")
  /\ UNCHANGED <<buf, entry, heap, read, accepted, log, broken>>

\* The slot is chosen and its old block freed.
Target(w) ==
  LET s == Slot(buf.w_abs)
  IN  /\ WriteAt(w, "target")
      /\ IF entry[s].ptr = 0 THEN UNCHANGED <<heap, broken>>
         ELSE IF Live(entry[s].ptr) THEN Free(entry[s].ptr) /\ UNCHANGED broken
         ELSE Break("double free") /\ UNCHANGED heap
      /\ write' = [write EXCEPT ![w].pc = After("target"), ![w].slot = s]
      /\ UNCHANGED <<buf, entry, tmp_entry, read, accepted, log>>

StoreBlock(w) ==
  /\ WriteAt(w, "store")
  /\ Allocate(tmp_entry.size)
  /\ entry' = [entry EXCEPT ![write[w].slot].ptr = Fresh]
  /\ WriteNext(w)
  /\ UNCHANGED <<buf, tmp_entry, read, accepted, log, broken>>

FillBlock(w) ==
  LET to == entry[write[w].slot].ptr
  IN  /\ WriteAt(w, "fill")
      /\ IF ~Live(to) \/ ~Live(tmp_entry.ptr) \/ tmp_entry.size > Room(to)
            \/ tmp_entry.size > Room(tmp_entry.ptr)
           THEN Break("writer") /\ UNCHANGED heap
           ELSE /\ Fill(to, 0, SubSeq(heap[tmp_entry.ptr].bytes, 1, tmp_entry.size))
                /\ UNCHANGED broken
      /\ WriteNext(w)
      /\ UNCHANGED <<buf, entry, tmp_entry, read, accepted, log>>

StoreSize(w) ==
  /\ WriteAt(w, "size")
  /\ entry' = [entry EXCEPT ![write[w].slot].size = tmp_entry.size]
  /\ WriteNext(w)
  /\ UNCHANGED <<buf, tmp_entry, heap, read, accepted, log, broken>>

\* The start moves on only when the window is full; both halves of the "if".
Evict(w) ==
  /\ WriteAt(w, "evict")
  /\ IF buf.w_abs - buf.start_abs >= N
       THEN buf' = [buf EXCEPT !.start_abs = @ + 1] /\ WriteNext(w)
       ELSE UNCHANGED buf /\ WriteGo(w, After("evicted"))
  /\ UNCHANGED <<entry, tmp_entry, heap, read, accepted, log, broken>>

EvictChars(w) ==
  /\ WriteAt(w, "evicted")
  /\ buf' = [buf EXCEPT !.start_char_abs = @ + entry[Slot(buf.start_abs)].size]
  /\ WriteNext(w)
  /\ UNCHANGED <<entry, tmp_entry, heap, read, accepted, log, broken>>

CountLine(w) ==
  /\ WriteAt(w, "count")
  /\ buf' = [buf EXCEPT !.w_abs = @ + 1]
  /\ WriteNext(w)
  /\ UNCHANGED <<entry, tmp_entry, heap, read, accepted, log, broken>>

CountChars(w) ==
  /\ WriteAt(w, "chars")
  /\ buf' = [buf EXCEPT !.w_char_abs = @ + tmp_entry.size]
  /\ WriteNext(w)
  /\ UNCHANGED <<entry, tmp_entry, heap, read, accepted, log, broken>>

\* A reset that forgets the size.
Bug_FreeTmp(w) ==
  /\ WriteAt(w, "free")
  /\ Free(tmp_entry.ptr)
  /\ log' = Append(log, [from |-> 0, to |-> write[w].first + write[w].n])
  /\ WriteGo(w, "idle")
  /\ UNCHANGED <<buf, entry, tmp_entry, read, accepted, broken>>

\* aesd_init_entry: the block is freed, the pointer stays.
FreeTmp(w) ==
  /\ WriteAt(w, "free")
  /\ IF Live(tmp_entry.ptr)
       THEN Free(tmp_entry.ptr) /\ UNCHANGED broken
       ELSE Break("double free") /\ UNCHANGED heap
  /\ tmp_entry' = [tmp_entry EXCEPT !.size = 0]
  /\ log' = Append(log, [from |-> IF log = <<>> THEN 0 ELSE log[Len(log)].to,
                         to |-> write[w].first + write[w].n])
  /\ WriteGo(w, "idle")
  /\ UNCHANGED <<buf, entry, read, accepted>>

Write(w) ==
  \/ \E n \in 1..MaxChunk, last \in BOOLEAN : StartWrite(w, n, last)
  \/ Grow(w) \/ AllocTmp(w) \/ ClearTmp(w) \/ Carry(w) \/ AppendChunk(w) \/ Grown(w)
  \/ Target(w) \/ StoreBlock(w) \/ FillBlock(w) \/ StoreSize(w)
  \/ Evict(w) \/ EvictChars(w) \/ CountLine(w) \/ CountChars(w) \/ FreeTmp(w)

-----------------------------------------------------------------------------
(* aesd_circular_buffer_raed and the search it calls, statement by statement *)

shared == <<buf, entry, tmp_entry, heap, write, accepted, log>>

ReadAt(r, pc) == read[r].pc = pc
ReadGo(r, pc) == read' = [read EXCEPT ![r].pc = pc]

\* The test of the window.
StartRead(r, pos, len) ==
  /\ read[r].pc \in {"idle", "done"}
  /\ read' = [read EXCEPT ![r] =
       [IdleRead EXCEPT !.pos = pos, !.len = len, !.text = buf.w_char_abs,
          !.pc = IF buf.start_char_abs <= pos /\ pos <= buf.w_char_abs THEN "search" ELSE "done"]]
  /\ UNCHANGED <<shared, broken>>

\* The start position and the first line number are read again.
StartSearch(r) ==
  /\ ReadAt(r, "search")
  /\ read' = [read EXCEPT ![r].pc = "probe", ![r].off = read[r].pos - buf.start_char_abs,
                          ![r].base = buf.start_abs, ![r].i = buf.start_abs]
  /\ UNCHANGED <<shared, broken>>

\* entry[i - start_abs]: the loop may use the start_abs it began with or load
\* it again.  A negative offset, as a size_t, is past every line.
Probe(r) ==
  /\ ReadAt(r, "probe")
  /\ \E base \in {read[r].base, buf.start_abs} :
       LET c == read[r]
           j == c.i - base
       IN  IF j \notin Slots
             THEN Break("stray index") /\ UNCHANGED read
             ELSE /\ IF (c.off >= 0 /\ c.total + entry[j].size > c.off) \/ entry[j].size = 0
                       THEN read' = [read EXCEPT ![r].pc = "take", ![r].ofs = c.off - c.total]
                       ELSE read' = [read EXCEPT ![r].pc = "past", ![r].i = c.i + 1,
                                                 ![r].total = c.total + entry[j].size]
                  /\ UNCHANGED broken
  /\ UNCHANGED shared

\* The search returns without setting the offset once it is past the last line.
PastLast(r) ==
  /\ ReadAt(r, "past")
  /\ ReadGo(r, IF read[r].i >= buf.w_abs THEN "take" ELSE "probe")
  /\ UNCHANGED <<shared, broken>>

\* Nothing to read, unless a line was added since; the offset was never set then.
Take(r) ==
  /\ ReadAt(r, "take")
  /\ IF read[r].i = buf.w_abs THEN ReadGo(r, "done") /\ UNCHANGED broken
     ELSE IF read[r].ofs < 0 THEN Break("unset offset") /\ UNCHANGED read
     ELSE ReadGo(r, "load") /\ UNCHANGED broken
  /\ UNCHANGED shared

\* next_entry = buffer->entry[ri]
LoadEntry(r) ==
  LET e == entry[Slot(read[r].i)]
  IN  /\ ReadAt(r, "load")
      /\ read' = [read EXCEPT ![r].pc = IF e.ptr = 0 THEN "done" ELSE "copy",
                              ![r].ptr = e.ptr, ![r].size = e.size]
      /\ UNCHANGED <<shared, broken>>

\* A line that is consumed to its end is followed by the next one.
CopyEntry(r) ==
  LET c == read[r]
      n == Min({c.size - c.ofs, c.len - Len(c.data)})
  IN  /\ ReadAt(r, "copy")
      /\ IF ~Live(c.ptr) THEN Break("freed block") /\ UNCHANGED read
         ELSE IF c.ofs > c.size \/ c.ofs + n > Room(c.ptr)
           THEN Break("past the block") /\ UNCHANGED read
           ELSE /\ read' = [read EXCEPT
                     ![r].data = c.data \o SubSeq(heap[c.ptr].bytes, c.ofs + 1, c.ofs + n),
                     ![r].ofs = 0,
                     ![r].i = IF n = c.size - c.ofs THEN c.i + 1 ELSE c.i,
                     ![r].pc = IF n = c.size - c.ofs THEN "next" ELSE "done"]
                /\ UNCHANGED broken
      /\ UNCHANGED shared

NextEntry(r) ==
  /\ ReadAt(r, "next")
  /\ ReadGo(r, IF read[r].i = buf.w_abs \/ Len(read[r].data) >= read[r].len
                 THEN "done" ELSE "load")
  /\ UNCHANGED <<shared, broken>>

Read(r) ==
  \/ \E pos \in 0..MaxBytes, len \in 1..MaxLen : StartRead(r, pos, len)
  \/ StartSearch(r) \/ Probe(r) \/ PastLast(r) \/ Take(r) \/ LoadEntry(r) \/ CopyEntry(r)
  \/ NextEntry(r)

RaceInit ==
  /\ buf = [w_abs |-> 0, start_abs |-> 0, w_char_abs |-> 0, start_char_abs |-> 0]
  /\ entry = [s \in Slots |-> NoBlock]
  /\ tmp_entry = NoBlock
  /\ heap = <<>>
  /\ write = [w \in Writer |-> IdleWrite]
  /\ read = [r \in Reader |-> IdleRead]
  /\ accepted = 0
  /\ log = <<>>
  /\ broken = "no"

RaceNext ==
  /\ broken = "no"
  /\ \/ \E w \in Writer : Write(w)
     \/ \E r \in Reader : Read(r)

RaceSpec == RaceInit /\ [][RaceNext]_raceVars
-----------------------------------------------------------------------------
(* Properties *)

Committed == IF log = <<>> THEN 0 ELSE log[Len(log)].to
Quiet == \A w \in Writer : write[w].pc = "idle"

\* The lines counted, and those being stored; until there are N of them no slot
\* has been used twice.
Storing == {w \in Writer : write[w].pc \in {"store", "fill", "size", "evict", "evicted", "count"}}
LinesBegun == buf.w_abs + Cardinality(Storing)
SlotsFresh == LinesBegun <= N

\* One writer at a time, whatever readers run beside it: each time add_entry
\* has returned the slots hold the last N lines in live blocks of their own,
\* and the accumulator the bytes since the last newline.
RingQuiet ==
  Quiet =>
    /\ buf.w_abs = Len(log) /\ buf.w_char_abs = Committed
    /\ buf.w_abs - buf.start_abs = Min({N, Len(log)})
    /\ \A i \in buf.start_abs..(buf.w_abs - 1) :
         LET e == entry[Slot(i)]
         IN  Live(e.ptr) /\ SubSeq(heap[e.ptr].bytes, 1, e.size) = Bytes(log[i + 1].from, log[i + 1].to)
    /\ tmp_entry.size = accepted - Committed
    /\ tmp_entry.size > 0 =>
         Live(tmp_entry.ptr) /\ heap[tmp_entry.ptr].bytes = Bytes(Committed, accepted)

\* Until a slot is used again, a read that starts before the end of the text is
\* served right beside a writer without any lock: it returns the bytes from its
\* position on, all that were there when it started, as far as it asked.
ReadsBesideWriter ==
  \A r \in Reader :
    LET c == read[r]
        got == Len(c.data)
    IN  c.pc = "done" /\ SlotsFresh /\ c.pos < c.text =>
          c.data = Bytes(c.pos, c.pos + got) /\ got >= Min({c.len, c.text - c.pos})

\* A reader goes wrong beside one writer in two ways only: with the offset that
\* was never set, at the end of the text, or once a slot is being used again.
EarlyFaultsAtEnd ==
  broken # "no" /\ SlotsFresh =>
    broken = "unset offset" /\ \E r \in Reader : read[r].pc = "take" /\ read[r].pos >= read[r].text

\* Later, what a writer takes from under a reader is what is evicted and no more:
\* the block a read copies from is freed only when N lines have begun since, and
\* the search of find_entry_offset_and_index_for_fpos leaves the array only when
\* the line it started from has left the window.
LateFaultsFromEviction ==
  /\ broken = "freed block" =>
       \E r \in Reader :
         read[r].pc = "copy" /\ ~Live(read[r].ptr) /\ read[r].i + N < LinesBegun
  /\ broken = "stray index" =>
       \E r \in Reader : read[r].pc = "probe" /\ read[r].base < buf.start_abs

\* What the comment on add_entry leaves to its caller ("any necessary locking
\* must be handled by the caller"): two writers do not harm each other.
WritersKeepApart == broken \notin {"writer", "double free"}
=============================================================================
