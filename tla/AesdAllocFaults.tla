----------------------------- MODULE AesdAllocFaults -----------------------------
(***************************************************************************)
(* The circular buffer when kmalloc fails inside add_entry.  Neither result  *)
(* is checked (aesd-circular-buffer.c 131 and 156): the kernel kills the      *)
(* calling process at the memset or memcpy through the NULL pointer, and      *)
(* other processes go on with the buffer as that call left it.  (A kernel      *)
(* set to panic on an oops has no state after it.)                            *)
(*                                                                         *)
(* The size of a slot outlives its block, so entry keeps the bytes of a slot   *)
(* that lost it, and lost says that buffptr is NULL.                          *)
(***************************************************************************)
EXTENDS AesdCircularBuffer

CONSTANT MaxOops    \* bound: failed allocations in a behaviour

ASSUME OopsAssumption == MaxOops \in Nat /\ MaxBytes < U32 \div 2

VARIABLES
  lost,       \* slots whose block was freed and not replaced
  spoiled,    \* history: bytes of the stream that were in a lost accumulator
  oopses      \* failed allocations so far

oopsVars == <<entry, in_offs, out_offs, full, w_abs, start_abs, w_char_abs, start_char_abs,
              tmp_entry, accepted, log, lost, spoiled, oopses>>

Oops == oopses < MaxOops /\ oopses' = oopses + 1

\* A slot that stays lost.
Bug_Refilled == lost
\* The slot of the next line gets a block.
Refilled == lost \ {TargetSlot}

AddEntry(n) ==
  /\ aesd_circular_buffer_add_entry(n)
  /\ lost' = IF w_abs' # w_abs THEN Refilled ELSE lost
  /\ UNCHANGED <<spoiled, oopses>>

\* The accumulator forgotten as a whole.
Bug_Unbacked(e) == NullEntry
\* The old block is out of reach and its size still counts.
Unbacked(e) == [NullEntry EXCEPT !.size = e.size]

\* Line 131: the chunk is not taken.
GrowFails ==
  /\ Oops
  /\ tmp_entry' = Unbacked(tmp_entry)
  /\ spoiled' = spoiled \cup (Committed + 1)..accepted
  /\ UNCHANGED <<entry, in_offs, out_offs, full, w_abs, start_abs, w_char_abs, start_char_abs,
                 accepted, log, lost>>

\* Line 156: the line stays in the accumulator, where the next chunk joins it,
\* and the slot's old block is gone.
StoreFails(n) ==
  /\ Oops
  /\ AddPartial(n)
  /\ lost' = IF entry[TargetSlot] = <<>> THEN lost ELSE lost \cup {TargetSlot}
  /\ UNCHANGED spoiled

\* The copy loop ends at a slot without a block.
StopsAt(first) == Slot(first) \in lost

ReadLost(pos) ==
  LET first == ReadStart(pos).idx
  IN  /\ ~ReadFails(pos) /\ ~ReadsNothing(first) /\ StopsAt(first)
      /\ out_offs' = first % U8
      /\ UNCHANGED <<entry, in_offs, full, w_abs, start_abs, w_char_abs, start_char_abs,
                     tmp_entry, accepted, log, lost, spoiled, oopses>>

ReadOn(pos, len) ==
  /\ ReadFails(pos) \/ ReadsNothing(ReadStart(pos).idx) \/ ~StopsAt(ReadStart(pos).idx)
  /\ aesd_circular_buffer_raed(pos, len)
  /\ UNCHANGED <<lost, spoiled, oopses>>

OopsInit == Init /\ lost = {} /\ spoiled = {} /\ oopses = 0

OopsNext ==
  \/ \E n \in 1..MaxChunk : AddEntry(n) \/ StoreFails(n)
  \/ GrowFails
  \/ \E pos \in Positions : ReadLost(pos) \/ \E len \in 1..MaxLen : ReadOn(pos, len)

OopsSpec == OopsInit /\ [][OopsNext]_oopsVars
-----------------------------------------------------------------------------
(* Properties *)

\* A failed allocation costs at most one retained line, the oldest, whose slot
\* the next line takes anyway: the copy loop, which ends at a slot without a
\* block, can meet one only as the first line of a read.
OnlyOldestLost == lost # {} => WindowFull /\ lost = {Slot(start_abs)}

\* The bytes of a line as they were stored: zero where they were lost.
Stored(line) ==
  [k \in 1..LineSize(line) |-> IF line.from + k \in spoiled THEN Garbage ELSE line.from + k]

\* Whatever was lost, no byte of a later write moves: sizes and counters still
\* add up to the bytes taken, and the slots hold the last N lines with zeros in
\* place of the bytes that were in the accumulator when it was lost.
LaterBytesInPlace ==
  /\ tmp_entry.size = accepted - Committed
  /\ w_abs = Len(log) /\ w_char_abs = Committed
  /\ \A i \in start_abs..(w_abs - 1) : entry[Slot(i)] = Stored(log[i + 1])

\* A read from the window's start that asks for everything gives all retained
\* lines or, while the oldest is lost, nothing at all: the N - 1 lines behind it
\* look like the end of the file.
LostLineHidesTheRest ==
  LET whole == RaedData(start_char_abs, Committed)
  IN  Committed > 0 =>
        /\ whole = FlattenSeq([k \in 1..(w_abs - start_abs) |-> Stored(log[start_abs + k])])
        /\ StopsAt(ReadStart(start_char_abs).idx) <=> lost # {}
=============================================================================
