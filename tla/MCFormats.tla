----------------------------- MODULE MCFormats -----------------------------
(***************************************************************************)
(* The files of a store and the streams over them, each on a small         *)
(* instance.  They share no state: a behaviour is about one subject, and   *)
(* the others stay as they begin.                                          *)
(***************************************************************************)
EXTENDS LogFile, TableFile, Merge, ManifestFile, ManifestCodec, Checksum

VARIABLE subject

vars == <<subject, logVars, tableVars, mergeVars, manifestVars, crcVars>>

Pick(S) == CHOOSE x \in S : TRUE

\* A subject that is not the one of the behaviour stays in one initial state.
Init ==
  /\ subject \in {"log", "table", "merge", "manifest", "checksum"}
  /\ subject # "merge" => given = Pick(Inputs) /\ covered = Pick(Below)
  /\ MergeInit
  /\ subject # "table" =>
       source = Pick(Sources) /\ hashOf = Pick([TableKeys -> Hashes])
  /\ TableInit
  /\ LogInit
  /\ subject # "manifest" => storing = Pick(Snapshots)
  /\ ManifestInit
  /\ ChecksumInit

LogStep ==
  /\ subject = "log" /\ LogNext
  /\ UNCHANGED <<subject, tableVars, mergeVars, manifestVars, crcVars>>

TableStep ==
  /\ subject = "table" /\ TableNext
  /\ UNCHANGED <<subject, logVars, mergeVars, manifestVars, crcVars>>

MergeStep ==
  /\ subject = "merge" /\ MergeNext
  /\ UNCHANGED <<subject, logVars, tableVars, manifestVars, crcVars>>

ManifestStep ==
  /\ subject = "manifest" /\ ManifestNext
  /\ UNCHANGED <<subject, logVars, tableVars, mergeVars, crcVars>>

ChecksumStep ==
  /\ subject = "checksum" /\ ChecksumGrow
  /\ UNCHANGED <<subject, logVars, tableVars, mergeVars, manifestVars>>

Next == LogStep \/ TableStep \/ MergeStep \/ ManifestStep \/ ChecksumStep

Spec == Init /\ [][Next]_vars

-----------------------------------------------------------------------------
MCSet(key, value) == [seq |-> 0, key |-> key, deleted |-> FALSE, value |-> value]
MCDelete(key) == [seq |-> 0, key |-> key, deleted |-> TRUE, value |-> << >>]

\* An empty value, a key that is a prefix of another, a tombstone.
MCLogRecords == {MCSet(<<1>>, << >>), MCSet(<<1, 2>>, <<0>>), MCDelete(<<2>>)}

\* Keys in order, with one below, one above and one between those written.
MCTableKeys == {<<0>>, <<1>>, <<1, 2>>, <<2>>, <<3>>}
MCEntry(i) == CASE i = 1 -> [MCSet(<<1>>, <<7>>) EXCEPT !.seq = 3]
                [] i = 2 -> [MCSet(<<1, 2>>, << >>) EXCEPT !.seq = 1]
                [] i = 3 -> [MCDelete(<<2>>) EXCEPT !.seq = 2]
MCSources == {<<MCEntry(1)>>, <<MCEntry(1), MCEntry(3)>>,
              <<MCEntry(1), MCEntry(2), MCEntry(3)>>}
MCHashes == {<<0, 0>>, <<13, 6>>}

\* Two or three scans over keys 1..3, versions interleaved, one of them failing
\* after its last entry or none.
MCEntries(s, keys, dead, turn) ==
  [i \in 1 .. Cardinality(keys) |->
     LET k == CHOOSE k \in keys : Cardinality({l \in keys : l <= k}) = i
     IN  [key |-> k, seq |-> 3 * k + ((s + k + turn) % 3), deleted |-> <<s, k>> \in dead]]
MCInputs ==
  {[s \in 1 .. 3 |-> [entries |-> MCEntries(s, keys[s], dead, turn),
                      fails |-> s = failing]] :
     keys \in [1 .. 3 -> {{}, {1}, {1, 2}, {2, 3}, {1, 2, 3}}],
     dead \in {{}, {<<1, 1>>, <<2, 2>>}, {<<3, 1>>, <<3, 2>>, <<3, 3>>}},
     turn \in 0 .. 1, failing \in {0, 1, 3}}
MCBelow == {{}, {1}}

MCFile(n, level) == [number |-> n, level |-> level, bytes |-> 5, entries |-> 1,
                     minKey |-> << >>, maxKey |-> <<n, 1>>]
MCSnapshots ==
  {[lastSeq |-> 0, nextNumber |-> 1, files |-> << >>],
   [lastSeq |-> 4, nextNumber |-> 2, files |-> <<MCFile(1, 0)>>],
   [lastSeq |-> 4, nextNumber |-> 4, files |-> <<MCFile(3, 1), MCFile(2, 0)>>]}

\* Every bit of a byte.
MCAlphabet == {{b} : b \in 0 .. 7}
=============================================================================
