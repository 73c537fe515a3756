------------------------------- MODULE Coding -------------------------------
(***************************************************************************)
(* The framing shared by the files of a store (coding.rs, wal/record.rs,   *)
(* the records of sstable.rs).  A file is a sequence of cells: an integer  *)
(* field is one cell whatever its width, a byte of a key or a value is     *)
(* one cell.  A checksum is one cell too; the sum below, weighted by       *)
(* position, stands for CRC-32: like it, it tells apart any two sequences  *)
(* that differ in one place.  The CRC itself is in the module Checksum.    *)
(***************************************************************************)
EXTENDS Integers, SequencesExt

\* Cells no field of these files holds.
Magic == 900
Version == 901

KindSet == 0
KindDelete == 1

Check(cells) == MapThenSumSet(LAMBDA i : i * (cells[i] + 1), DOMAIN cells)

\* Everything after the first n cells.
Past(cells, n) == SubSeq(cells, n + 1, Len(cells))

\* push_field, and the field at the front of a cursor, if it is whole.
Field(bytes) == <<Len(bytes)>> \o bytes
HasField(cells) == Len(cells) > 0 /\ cells[1] \in 0 .. Len(cells) - 1
FieldOf(cells) == SubSeq(cells, 2, cells[1] + 1)
PastField(cells) == Past(cells, cells[1] + 1)

\* A mutation as a log and a table hold it; a tombstone has no value.
Payload(r) ==
  IF r.deleted THEN <<r.seq, KindDelete>> \o Field(r.key)
  ELSE <<r.seq, KindSet>> \o Field(r.key) \o Field(r.value)

Malformed == [ok |-> FALSE]

\* take_record: the mutation at the front of a cursor and what follows it.
TakeRecord(cells) ==
  LET seq == cells[1]
      kind == cells[2]
      body == Past(cells, 2)
      key == FieldOf(body)
      rest == PastField(body)
  IN  IF Len(cells) < 2 \/ ~HasField(body) THEN Malformed
      ELSE IF kind = KindSet /\ HasField(rest)
           THEN [ok |-> TRUE, rest |-> PastField(rest),
                 record |-> [seq |-> seq, key |-> key, deleted |-> FALSE,
                             value |-> FieldOf(rest)]]
      ELSE IF kind = KindDelete
           THEN [ok |-> TRUE, rest |-> rest,
                 record |-> [seq |-> seq, key |-> key, deleted |-> TRUE,
                             value |-> << >>]]
      ELSE Malformed

\* Keys compare byte by byte.
Less(k, l) ==
  \/ IsStrictPrefix(k, l)
  \/ \E i \in DOMAIN k \cap DOMAIN l :
       /\ SubSeq(k, 1, i - 1) = SubSeq(l, 1, i - 1)
       /\ k[i] < l[i]
=============================================================================
