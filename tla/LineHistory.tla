------------------------------ MODULE LineHistory ------------------------------
(***************************************************************************)
(* What the aesdchar device promises its writers, with no slots, indices or  *)
(* counters: bytes gather in an unfinished line until a newline ends it, and *)
(* the N most recent finished lines are kept, oldest first.                  *)
(***************************************************************************)
EXTENDS Integers, Sequences

CONSTANTS N, MaxChunk, MaxBytes

VARIABLES
  retained,   \* the kept lines, oldest first
  partial,    \* the bytes since the last newline
  total       \* bytes written so far; the next byte is number total + 1

historyVars == <<retained, partial, total>>

\* The next n bytes of the stream.
Chunk(n) == [k \in 1..n |-> total + k]

\* The last N elements of a sequence.
LastN(s) == SubSeq(s, IF Len(s) > N THEN Len(s) - N + 1 ELSE 1, Len(s))

Grow(n) ==
  /\ total + n <= MaxBytes
  /\ partial' = partial \o Chunk(n)
  /\ total' = total + n
  /\ UNCHANGED retained

Finish(n) ==
  /\ total + n <= MaxBytes
  /\ retained' = LastN(Append(retained, partial \o Chunk(n)))
  /\ partial' = <<>>
  /\ total' = total + n

HistoryInit == retained = <<>> /\ partial = <<>> /\ total = 0
HistoryNext == \E n \in 1..MaxChunk : Grow(n) \/ Finish(n)
HistorySpec == HistoryInit /\ [][HistoryNext]_historyVars
=============================================================================
