--------------------------- MODULE ManifestCodec ---------------------------
(***************************************************************************)
(* The manifest as cells (encode and decode of Snapshot in manifest.rs):   *)
(* a header, the two counters, the files one after the other, and one      *)
(* checksum over it all.                                                   *)
(***************************************************************************)
EXTENDS Coding

CONSTANT NoSnapshot  \* decode's None

FileCells(f) ==
  <<f.number, f.level, f.bytes, f.entries>> \o Field(f.minKey) \o Field(f.maxKey)

EncodeSnapshot(s) ==
  LET body == <<Magic, Version, s.lastSeq, s.nextNumber, Len(s.files)>> \o
              FlattenSeq([i \in DOMAIN s.files |-> FileCells(s.files[i])])
  IN  Append(body, Check(body))

\* The file at the front of a cursor, if it is whole, and what follows it.
TakeFile(cells) ==
  LET min == Past(cells, 4)
      max == PastField(min)
  IN  IF Len(cells) < 4 \/ ~HasField(min) THEN Malformed
      ELSE IF ~HasField(max) THEN Malformed
      ELSE [ok |-> TRUE, rest |-> PastField(max),
            file |-> [number |-> cells[1], level |-> cells[2], bytes |-> cells[3],
                      entries |-> cells[4], minKey |-> FieldOf(min),
                      maxKey |-> FieldOf(max)]]

\* Every file the count announces has to be there.
TakeFiles(cells, count) ==
  LET taken[n \in 0 .. count] ==
        LET next == TakeFile(taken[n - 1].rest)
        IN  IF n = 0 THEN [ok |-> TRUE, rest |-> cells, files |-> << >>]
            ELSE IF ~taken[n - 1].ok THEN Malformed
            ELSE IF ~next.ok THEN Malformed
            ELSE [ok |-> TRUE, rest |-> next.rest,
                  files |-> Append(taken[n - 1].files, next.file)]
  IN  taken[count]

DecodeSnapshot(cells) ==
  LET body == Front(cells)
      read == TakeFiles(Past(body, 5), body[5])
  IN  IF cells = << >> THEN NoSnapshot
      ELSE IF Check(body) # Last(cells) THEN NoSnapshot
      ELSE IF Len(body) < 5 THEN NoSnapshot
      ELSE IF body[1] # Magic \/ body[2] # Version THEN NoSnapshot
      ELSE IF ~read.ok THEN NoSnapshot
      ELSE IF read.rest # << >> THEN NoSnapshot
      ELSE [lastSeq |-> body[3], nextNumber |-> body[4], files |-> read.files]
=============================================================================
