----------------------------- MODULE TableFile -----------------------------
(***************************************************************************)
(* One table file, cell by cell (sstable.rs): the writer that cuts sorted  *)
(* entries into checked blocks and closes the file with a filter, an index *)
(* and a footer; opening the file, looking a key up and scanning it.  The  *)
(* device may change one cell of a finished file, or lose its end.         *)
(***************************************************************************)
EXTENDS Coding, Bloom

CONSTANTS
  TableKeys,   \* keys looked up, a superset of those written
  Hashes,      \* pairs of words a key may hash to
  Sources,     \* the entries of a flush or an output: sorted by key
  BlockSize    \* a block is closed once it holds this many cells

VARIABLES
  source,      \* entries not added yet
  hashOf,      \* the hash of each key
  writer,      \* the Writer, file included
  table,       \* the finished file as it is on the device
  held,        \* history: the entries the file is meant to hold
  stage        \* "writing", "finished", "damaged"

tableVars == <<source, hashOf, writer, table, held, stage>>

FooterLen == 8

EmptyWriter ==
  [file |-> << >>, block |-> << >>, blocks |-> << >>, hashes |-> << >>,
   firstKey |-> << >>, minKey |-> << >>, maxKey |-> << >>, entries |-> 0]

Checked(cells) == Append(cells, Check(cells))

\* close_block: nothing happens to an empty block.
Closed(w) ==
  LET cells == Checked(w.block)
  IN  IF w.block = << >> THEN w
      ELSE [w EXCEPT !.file = @ \o cells,
                     !.block = << >>,
                     !.blocks = Append(@, [firstKey |-> w.firstKey,
                                           offset |-> Len(w.file),
                                           len |-> Len(cells)])]

Added(w, e) ==
  LET added == [w EXCEPT !.firstKey = IF w.block = << >> THEN e.key ELSE @,
                         !.minKey = IF w.entries = 0 THEN e.key ELSE @,
                         !.maxKey = e.key,
                         !.hashes = Append(@, hashOf[e.key]),
                         !.entries = @ + 1,
                         !.block = @ \o Payload(e)]
  IN  IF Len(added.block) >= BlockSize THEN Closed(added) ELSE added

\* finish: the last block, the filter, the index and the footer.
Finished(w) ==
  LET c == Closed(w)
      filter == Checked(AsBytes(Build(c.hashes)))
      index == Checked(Field(c.minKey) \o Field(c.maxKey) \o
                       FlattenSeq([i \in DOMAIN c.blocks |->
                         Field(c.blocks[i].firstKey) \o
                         <<c.blocks[i].offset, c.blocks[i].len>>]))
      footer == <<Len(c.file) + Len(filter), Len(index),
                  Len(c.file), Len(filter), c.entries>>
  IN  c.file \o filter \o index \o Checked(footer) \o <<Version, Magic>>

Corrupt == [ok |-> FALSE]

\* read_checked: the cells before the checksum that closes them.
ReadChecked(file, offset, len) ==
  LET cells == SubSeq(file, offset + 1, offset + len)
  IN  IF len < 1 \/ offset + len > Len(file) THEN Corrupt
      ELSE IF Check(Front(cells)) # Last(cells) THEN Corrupt
      ELSE [ok |-> TRUE, cells |-> Front(cells)]

\* parse_index, past the two bounds: the blocks, if every one is whole.
ParseBlocks(cells) ==
  LET from[i \in 0 .. Len(cells)] ==
        LET rest == Past(cells, i)
            after == PastField(rest)
            next == from[Len(cells) - Len(after) + 2]
        IN  IF rest = << >> THEN [ok |-> TRUE, blocks |-> << >>]
            ELSE IF ~HasField(rest) THEN Corrupt
            ELSE IF Len(after) < 2 THEN Corrupt
            ELSE IF ~next.ok THEN Corrupt
            ELSE [ok |-> TRUE,
                  blocks |-> <<[firstKey |-> FieldOf(rest), offset |-> after[1],
                                len |-> after[2]]>> \o next.blocks]
  IN  from[0]

ParseIndex(cells) ==
  LET past == PastField(cells)
      parsed == ParseBlocks(PastField(past))
  IN  IF ~HasField(cells) THEN Corrupt
      ELSE IF ~HasField(past) THEN Corrupt
      ELSE IF ~parsed.ok THEN Corrupt
      ELSE [ok |-> TRUE, minKey |-> FieldOf(cells), maxKey |-> FieldOf(past),
            blocks |-> parsed.blocks]

\* open: the footer, then the index and the filter it points at.
Open(file) ==
  LET trailer == Len(file) - FooterLen
      f == Past(file, trailer)
      index == ReadChecked(file, f[1], f[2])
      parsed == ParseIndex(index.cells)
      filter == ReadChecked(file, f[3], f[4])
  IN  IF trailer < 0 THEN Corrupt
      ELSE IF f[8] # Magic \/ f[7] # Version THEN Corrupt
      ELSE IF Check(SubSeq(f, 1, 5)) # f[6] THEN Corrupt
      ELSE IF f[1] + f[2] > trailer \/ f[3] + f[4] > trailer THEN Corrupt
      ELSE IF ~index.ok THEN Corrupt
      ELSE IF ~parsed.ok THEN Corrupt
      ELSE IF ~filter.ok THEN Corrupt
      ELSE IF ~Describes(filter.cells) THEN Corrupt
      ELSE [ok |-> TRUE, minKey |-> parsed.minKey, maxKey |-> parsed.maxKey,
            blocks |-> parsed.blocks, filter |-> FromBytes(filter.cells),
            entries |-> f[5]]

\* The records of a block, up to the first that is not whole.
Records(cells) ==
  LET from[i \in 0 .. Len(cells)] ==
        LET taken == TakeRecord(Past(cells, i))
            next == from[Len(cells) - Len(taken.rest)]
        IN  IF i = Len(cells) THEN [ok |-> TRUE, records |-> << >>]
            ELSE IF ~taken.ok THEN [ok |-> FALSE, records |-> << >>]
            ELSE [next EXCEPT !.records = <<taken.record>> \o @]
  IN  from[0]

Missing == [ok |-> TRUE, tag |-> "missing"]
Deleted == [ok |-> TRUE, tag |-> "deleted"]
Found(value) == [ok |-> TRUE, tag |-> "found", value |-> value]
AnswerOf(e) == IF e.deleted THEN Deleted ELSE Found(e.value)

\* scan_block: a key past the one wanted ends the walk.
ScanBlock(cells, key) ==
  LET read == Records(cells)
      stop == SelectInSeq(read.records, LAMBDA r : ~Less(r.key, key))
  IN  IF stop # 0
      THEN IF read.records[stop].key = key THEN AnswerOf(read.records[stop])
           ELSE Missing
      ELSE IF read.ok THEN Missing ELSE Corrupt

\* Mutant: a block that starts with the key is passed over.
CandidateBefore(t, key) ==
  Cardinality({i \in DOMAIN t.blocks : Less(t.blocks[i].firstKey, key)})

\* The last block whose first key is not past the one wanted.
Candidate(t, key) ==
  Cardinality({i \in DOMAIN t.blocks : ~Less(key, t.blocks[i].firstKey)})

Lookup(t, file, key) ==
  LET block == t.blocks[Candidate(t, key)]
      read == ReadChecked(file, block.offset, block.len)
  IN  IF Less(key, t.minKey) \/ Less(t.maxKey, key) THEN Missing
      ELSE IF ~MayContain(t.filter, hashOf[key]) THEN Missing
      ELSE IF Candidate(t, key) = 0 THEN Missing
      ELSE IF ~read.ok THEN Corrupt
      ELSE ScanBlock(read.cells, key)

\* Mutant: a block that cannot be read is passed over.
ScanSkips(t, file) ==
  LET from[i \in 1 .. Len(t.blocks) + 1] ==
        LET block == t.blocks[i]
            read == ReadChecked(file, block.offset, block.len)
        IN  IF i > Len(t.blocks) THEN [ok |-> TRUE, records |-> << >>]
            ELSE IF ~read.ok THEN from[i + 1]
            ELSE [from[i + 1] EXCEPT !.records = Records(read.cells).records \o @]
  IN  from[1]

\* scan: the entries handed out, and whether the last thing was an error.
Scan(t, file) ==
  LET from[i \in 1 .. Len(t.blocks) + 1] ==
        LET block == t.blocks[i]
            read == ReadChecked(file, block.offset, block.len)
            inside == Records(read.cells)
        IN  IF i > Len(t.blocks) THEN [ok |-> TRUE, records |-> << >>]
            ELSE IF ~read.ok THEN [ok |-> FALSE, records |-> << >>]
            ELSE IF ~inside.ok THEN inside
            ELSE [from[i + 1] EXCEPT !.records = inside.records \o @]
  IN  from[1]

TableInit ==
  /\ source \in Sources /\ held = source
  /\ hashOf \in [TableKeys -> Hashes]
  /\ writer = EmptyWriter /\ table = << >> /\ stage = "writing"

TableAdd ==
  /\ stage = "writing" /\ source # << >>
  /\ writer' = Added(writer, Head(source))
  /\ source' = Tail(source)
  /\ UNCHANGED <<hashOf, table, held, stage>>

TableFinish ==
  /\ stage = "writing" /\ source = << >>
  /\ table' = Finished(writer)
  /\ stage' = "finished"
  /\ UNCHANGED <<source, hashOf, writer, held>>

\* A cell changes on the device, or the end of the file is lost.
TableDamage ==
  /\ stage = "finished"
  /\ \/ \E i \in DOMAIN table :
          \E v \in {0, table[i] + 1, table[i] - 1} \ {-1, table[i]} :
            table' = [table EXCEPT ![i] = v]
     \/ \E n \in 0 .. Len(table) - 1 : table' = SubSeq(table, 1, n)
  /\ stage' = "damaged"
  /\ UNCHANGED <<source, hashOf, writer, held>>

TableNext == TableAdd \/ TableFinish \/ TableDamage

\* What the entries a file holds answer for a key.
Expected(key) ==
  IF \E i \in DOMAIN held : held[i].key = key
  THEN AnswerOf(held[SelectInSeq(held, LAMBDA e : e.key = key)])
  ELSE Missing

\* A finished table answers every lookup with what was added, whichever block
\* the key fell in and whatever the hashes: the filter, the key range and the
\* index never hide an entry.  A damaged file gives the same answer or an
\* error, never a wrong one and never "missing" for a key it holds.
TableAnswers ==
  stage # "writing" =>
    LET t == Open(table)
    IN  /\ stage = "finished" => t.ok /\ t.entries = Len(held)
        /\ t.ok => \A key \in TableKeys :
             LET answer == Lookup(t, table, key)
             IN  IF answer.ok THEN answer = Expected(key) ELSE stage = "damaged"

\* A scan, which is all a compaction sees of a file, hands out every entry in
\* order, or ends in an error after some of them: a damaged input is never
\* taken for a shorter one.
ScanIsWhole ==
  stage # "writing" =>
    LET t == Open(table)
        scan == Scan(t, table)
    IN  t.ok => IF scan.ok THEN scan.records = held
                ELSE stage = "damaged" /\ IsPrefix(scan.records, held)
=============================================================================
