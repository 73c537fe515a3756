------------------------------ MODULE Checksum ------------------------------
(***************************************************************************)
(* CRC-32 as the code computes it, eight bytes a step from eight tables    *)
(* (checksum.rs), beside the definition it has to agree with, one bit a    *)
(* step.  A word is the set of its bits that are 1, bit 0 the lowest: the  *)
(* exclusive or of two words is then their symmetric difference, and a     *)
(* shift renames the bits.                                                 *)
(***************************************************************************)
EXTENDS Integers, SequencesExt

CONSTANTS
  Stride,      \* tables, and bytes taken in one step: at least 4
  Alphabet,    \* bytes messages are made of
  Cuts,        \* where a message may be cut: replay cuts a record after 4
  MaxLength    \* bound: the longest message

VARIABLES message, parted  \* the bytes so far, and where they are cut in two

crcVars == <<message, parted>>

Polynomial == {5, 8, 9, 15, 19, 20, 21, 23, 24, 26, 27, 29, 30, 31}
Ones == 0 .. 31

Xor(a, b) == SymDiff(a, b)
Right(w, n) == {b - n : b \in {c \in w : c >= n}}
Left(w, n) == {b + n : b \in w}
LowByte(w) == w \cap 0 .. 7

\* Eight bits of the division, lowest first.
Divided(word) ==
  LET crc[n \in 0 .. 8] ==
        LET last == crc[n - 1]
        IN  IF n = 0 THEN word
            ELSE IF 0 \in last THEN Xor(Right(last, 1), Polynomial)
            ELSE Right(last, 1)
  IN  IF word = {} THEN {} ELSE crc[8]

\* build_tables: table 0 divides one byte, each later table carries the one
\* before it forward by another byte.
Table0(byte) == Divided(byte)
Table(k, byte) ==
  LET entry[n \in 0 .. k] ==
        LET carried == entry[n - 1]
        IN  IF n = 0 THEN Table0(byte)
            ELSE Xor(Right(carried, 8), Table0(LowByte(carried)))
  IN  entry[k]

\* The bytes of the message after the first i, the low byte of a word first.
WordAt(bytes, i) == UNION {Left(bytes[i + 1 + n], 8 * n) : n \in 0 .. 3}

\* Mutant: the checksum so far is not carried into the step.
StrideStepAlone(crc, bytes, i) ==
  LET head == WordAt(bytes, i)
      byte(n) == IF n < 4 THEN LowByte(Right(head, 8 * n)) ELSE bytes[i + 1 + n]
  IN  FoldFunction(Xor, {}, [n \in 0 .. Stride - 1 |-> Table(Stride - 1 - n, byte(n))])

\* One step: the first word carries the checksum so far into its lookups, the
\* rest only contributes its own bytes.
StrideStep(crc, bytes, i) ==
  LET head == Xor(crc, WordAt(bytes, i))
      byte(n) == IF n < 4 THEN LowByte(Right(head, 8 * n)) ELSE bytes[i + 1 + n]
  IN  FoldFunction(Xor, {}, [n \in 0 .. Stride - 1 |-> Table(Stride - 1 - n, byte(n))])

\* update: whole strides, then what is left byte by byte.
Update(start, bytes) ==
  LET from[i \in 0 .. Len(bytes)] ==
        LET crc == from[i - 1]
        IN  IF i = 0 THEN start
            ELSE IF i % Stride = 0 THEN StrideStep(from[i - Stride], bytes, i - Stride)
            ELSE Xor(Right(crc, 8), Table0(LowByte(Xor(crc, bytes[i]))))
  IN  from[Len(bytes)]

Crc32(bytes) == Xor(Ones, Update(Ones, bytes))
Crc32Parts(first, second) == Xor(Ones, Update(Update(Ones, first), second))

ChecksumInit == message = << >> /\ parted = 0

\* The message grows by a byte, and is read back in two parts.
\* Both computations are affine in the bits of the message: two that agree on
\* every message with at most one byte set, bit by bit, agree on all of its
\* length.
ChecksumGrow ==
  /\ Len(message) < MaxLength
  /\ \/ message' = Append(message, {})
     \/ /\ \A i \in DOMAIN message : message[i] = {}
        /\ \E byte \in Alphabet : message' = Append(message, byte)
  /\ parted' \in {cut \in Cuts : cut <= Len(message')}

\* The definition: the message is divided one bit at a time.
Reference(bytes) ==
  Xor(Ones, FoldLeft(LAMBDA crc, byte : Divided(Xor(crc, byte)), Ones, bytes))

\* What the code computes, of a message in one piece or of its two parts, is
\* the checksum of the definition: strides of eight, leftovers and the hand
\* over between the parts agree, so a record checked in two parts on replay
\* matches the checksum it was written with in one.
ChecksumAgrees ==
  LET reference == Reference(message)
  IN  /\ Crc32(message) = reference
      /\ Crc32Parts(SubSeq(message, 1, parted),
                    SubSeq(message, parted + 1, Len(message))) = reference
=============================================================================
