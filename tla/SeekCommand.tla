------------------------------- MODULE SeekCommand -------------------------------
(***************************************************************************)
(* Which packets the server takes for a seek (write_to_out_file and            *)
(* parse_seek_command, server/aesdsocket.c).  The packet is copied to a block  *)
(* of its own size and parsed as a C string: what is parsed is the packet and   *)
(* whatever the memory behind the block holds up to the first NUL.             *)
(*                                                                         *)
(* "AESD" "CHAR" is the text AESDCHAR_IOCSEEKTO:, which a cut can divide, "nl"  *)
(* is CR or LF and "sp" a blank or a tab; a digit of the packet is "1", one of  *)
(* the memory behind it "2".  For any other byte but NUL stands a half of the   *)
(* command word out of its place; signs are left out.                          *)
(***************************************************************************)
EXTENDS Integers, Sequences, FiniteSetsExt, SequencesExt

CONSTANTS
  MaxPacket,   \* bound: bytes of a packet
  MaxTail      \* bound: bytes before the NUL behind the packet

ASSUME SeekAssumption == MaxPacket \in Nat /\ MaxTail \in Nat

VARIABLES packet, tail

Digits == {"1", "2"}

\* Takes out the line ends wherever they are.
Bug_Trimmed(s) == SelectSeq(s, LAMBDA b : b # "nl")
\* trim_crlf
Trimmed(s) == SubSeq(s, 1, Max({i \in 1..Len(s) : s[i] # "nl"} \cup {0}))

\* What %u takes, all of s: white space, then digits.
Number(s) ==
  \E k \in 0..(Len(s) - 1) :
    /\ \A i \in 1..k : s[i] \in {"nl", "sp"}
    /\ \A i \in (k + 1)..Len(s) : s[i] \in Digits

\* sscanf(line, "AESDCHAR_IOCSEEKTO:%u,%u%n", ...) == 2, and nothing is left.
Commas(s) ==
  {c \in 3..Len(s) : /\ s[1] = "AESD" /\ s[2] = "CHAR" /\ s[c] = "comma"
                     /\ Number(SubSeq(s, 3, c - 1)) /\ Number(SubSeq(s, c + 1, Len(s)))}

\* The operands of the ioctl, or AsText when the packet is written as text.
AsText == <<>>
OnlyDigits(s) == SelectSeq(s, LAMBDA b : b \in Digits)
parse_seek_command(line) ==
  LET s == Trimmed(line)
  IN  IF Commas(s) = {} THEN AsText
      ELSE LET c == CHOOSE c \in Commas(s) : TRUE
           IN  <<OnlyDigits(SubSeq(s, 1, c)), OnlyDigits(SubSeq(s, c, Len(s)))>>

\* The copy as the parser sees it.
Copied == packet \o tail

Taken == parse_seek_command(Copied)

\* Packets and memory of every content, one byte after the other.
SeekInit == packet = <<>> /\ tail = <<>>
Receive(b) == tail = <<>> /\ Len(packet) < MaxPacket /\ packet' = Append(packet, b) /\ UNCHANGED tail
Behind(b) == Len(tail) < MaxTail /\ tail' = Append(tail, b) /\ UNCHANGED packet
SeekNext ==
  \/ \E b \in {"AESD", "CHAR", "1", "comma", "nl", "sp"} : Receive(b)
  \/ \E b \in {"AESD", "CHAR", "2", "comma", "nl", "sp"} : Behind(b)
SeekSpec == SeekInit /\ [][SeekNext]_<<packet, tail>>
-----------------------------------------------------------------------------
(* Properties *)

Line(s) == s # <<>> /\ s[Len(s)] = "nl"

\* The packet alone is a seek.
Asked == parse_seek_command(packet)

\* Whatever lies behind the copy, a seek sent as a whole line is carried out with
\* its own operands or not as a seek at all, and a packet that does not begin as a
\* seek is never carried out as one.
SeekKeepsItsOperands ==
  /\ Line(packet) /\ Asked # AsText => Taken \in {Asked, AsText}
  /\ Taken # AsText => packet = <<>> \/ packet[1] = "AESD"

=============================================================================
