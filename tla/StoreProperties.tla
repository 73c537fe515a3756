-------------------------- MODULE StoreProperties ---------------------------
(***************************************************************************)
(* What the storage engine promises: reads, promises kept over crashes,    *)
(* the map it implements (KeyValue), and the files, levels, numbers and    *)
(* logs that make it so.                                                   *)
(***************************************************************************)
EXTENDS Store

\* Every variable has its type (Engine, State, Snapshot).
TypeOK ==
  /\ policy \in Policies /\ phase \in {"down", "opening", "up", "refused"}
  /\ \A n \in DOMAIN logs : n \in Nat /\ logs[n] \subseteq Records
  /\ \A n \in DOMAIN tables : n \in Nat /\ tables[n] \subseteq Records
  /\ unsafe \subseteq Records
  /\ partials \subseteq Nat
  /\ snapshot \in Snapshot /\ manifest \in Snapshot \cup {None}
  /\ durable \in {None, "flusher", "compactor"}
  /\ next_number \in Nat /\ last_seq \in 0 .. MaxSeq
  /\ active \subseteq Records
  /\ {ever, shown, acked, settled} \subseteq SUBSET Records

NewestValue(records, key) ==
  IF \E r \in records : r.key = key
  THEN Value(CHOOSE r \in NewestOf(records) : r.key = key) ELSE None

\* A read answers with the newest write of the key that reached a memtable,
\* wherever rotation, flushes and compactions have moved it and in whatever
\* order they overlap; after a crash the store answers like one that stopped
\* after some write (get, rotate, flush, compact_once, open).
ReadsNewest ==
  phase = "up" /\ ~Excepted =>
    \A key \in Keys : Get(key) = NewestValue(shown, key)

\* Reads answer with this write or with a later one of its key.
Remembered(r) ==
  \E s \in ever : s.key = r.key /\ s.seq >= r.seq /\ Get(r.key) = Value(s)

\* Whatever was promised to survive is never forgotten: writes that returned
\* under Always and Group, and under Interval the writes in front of a sync (doc
\* comment of Engine::sync; "replaying them is harmless", README.md:275).
PromisesKept == phase = "up" => \A r \in acked : Remembered(r)

\* The same but for the two exceptions (write, sync, flush, open).
AckedReadable == ~Excepted => PromisesKept

\* The engine is a map that loses nothing it promised: rotations, flushes and
\* compactions, failed ones included, are invisible, and closing or a crash at
\* any point leaves the writes up to some point, every promised one among them
\* (KeyValue; set, delete, get, sync, open).
Abstract ==
  INSTANCE KeyValue WITH
    up <- phase = "up",
    data <- [key \in Keys |-> IF phase = "up" THEN Get(key) ELSE None],
    issued <- ever, applied <- shown, promised <- acked

ImplementsKeyValue == Abstract!Spec

\* Opening never finds the manifest naming a file that is gone, whenever the
\* crash came (commit, compact_once, open_levels).
ManifestFilesExist ==
  manifest # None => Numbers(manifest.files) \subseteq DOMAIN tables

\* Memory holds exactly the files of the snapshot, level by level; level 0 is
\* newest first, deeper levels never overlap, so a binary search finds the one
\* file that may hold a key (State, commit, write_merged, open_levels).
LevelsInOrder ==
  phase = "up" =>
    /\ Range(l0) = Numbers(AtLevel(snapshot.files, 0))
    /\ below = {f \in snapshot.files : f.level > 0}
    /\ \A i, j \in DOMAIN l0 : i < j => l0[i] > l0[j]
    /\ \A f, g \in below :
         f.level = g.level /\ f # g =>
           MaxKey(f.number) < MinKey(g.number) \/ MaxKey(g.number) < MinKey(f.number)

\* The next number names no file on disk, after any crash (next_number, open).
NumbersFresh ==
  phase = "up" =>
    \A n \in DOMAIN logs \cup DOMAIN tables \cup partials : n < next_number

\* A plan is never overtaken: memory still holds every file a compaction has
\* planned to read, though flushes commit meanwhile (compact_once).
PlanIsCurrent ==
  compactor.at \in {"find", "write", "commit"} =>
    (IF compactor.at = "find" THEN Numbers(compactor.inputs) ELSE compactor.removed)
      \subseteq Held

\* A log goes only when each of its records, or a newer one of its key, is in a
\* table the manifest on disk names, or is a tombstone that may go (flush).
LogsGoLast ==
  [][\A n \in DOMAIN logs \ DOMAIN logs' : \A r \in logs[n] :
       \/ /\ manifest # None
          /\ \E f \in manifest.files : \E s \in tables[f.number] :
               s.key = r.key /\ s.seq >= r.seq
       \/ \E s \in settled : s.key = r.key /\ s.seq >= r.seq /\ s.deleted]_vars

\* A crash leaves a store that opens (doc comment of the module).
OpenSucceeds == phase # "refused"
=============================================================================
