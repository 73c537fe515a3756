------------------------------- MODULE Store -------------------------------
(***************************************************************************)
(* The storage engine of lsmkv (engine.rs, manifest.rs, compaction.rs):    *)
(* writes into a log and a memtable, rotation, the flush of a frozen       *)
(* memtable into a file, the manifest commit, leveled compaction, crashes  *)
(* at any point and opening the store again.                               *)
(*                                                                         *)
(* A record is its sequence number, its key and whether it is a tombstone; *)
(* a value is the number of the write that stored it.  A memtable and a    *)
(* table are sets of records, one per key; a log is a set of records.      *)
(* Sizes are counted in records.  What a file's meta data says (key range, *)
(* bytes) is computed from its records, as meta_of does.                   *)
(*                                                                         *)
(* The log is taken at the level of what Wal promises: a record is safe    *)
(* once its append returned (Always, Group) or once a flush covered it     *)
(* (Interval); a crash keeps any longer prefix.  The queue that wakes the  *)
(* background thread is in FlushQueue: here a flush starts whenever        *)
(* a memtable is frozen, a compaction whenever there is a plan, and the    *)
(* two may overlap since any caller may compact.  Changes of the directory *)
(* survive a crash in order; unlinks a directory flush has not followed    *)
(* may be undone by one.                                                   *)
(***************************************************************************)
EXTENDS Sequences, FiniteSetsExt

CONSTANTS
  Writers,           \* threads calling set, delete, sync and flush
  Keys,              \* a set of numbers, in key order
  Mutations,         \* what writers do: subset of {"set", "delete"}
  None,              \* no manifest, no record
  Policies,          \* SyncPolicy values the store may be opened with
  MemtableBytes,     \* Config.memtable_bytes, in records
  L0Trigger,         \* Config.l0_trigger
  Fanout,            \* Config.fanout
  MaxSeq,            \* bound: records ever written
  MaxRestarts,       \* bound: crashes and closes
  MaxFailures,       \* bound: failed rotations, flushes and compactions
  MaxUnlinkFailures  \* bound: logs that cannot be unlinked

ASSUME KeysAssumption == Keys \subseteq Nat /\ IsFiniteSet(Keys)
ASSUME ConfigAssumption ==
  /\ Mutations \subseteq {"set", "delete"}
  /\ Policies \subseteq {"always", "group", "interval"}
  /\ MemtableBytes \in Nat \ {0} /\ L0Trigger \in Nat /\ Fanout \in Nat \ {0}
  /\ {MaxSeq, MaxRestarts, MaxFailures, MaxUnlinkFailures} \subseteq Nat

\* What the manifest lists, and what it says (FileMeta, Snapshot).
File == [number : Nat, level : Nat]
Snapshot == [files : SUBSET File, last_seq : 0 .. MaxSeq, next_number : Nat]
Records == [seq : 1 .. MaxSeq, key : Keys, deleted : BOOLEAN]

ASSUME NoneAssumption ==
  None \notin Snapshot /\ None \notin Records /\ None \notin {"flusher", "compactor"}

VARIABLES
  policy,       \* Config.sync
  phase,        \* down, opening, up, refused
  logs,         \* log files: number -> records
  unsafe,       \* records of log files that a crash may still take
  unlinked,     \* logs unlinked since the directory was flushed, oldest first
  tables,       \* table files under their final name: number -> records
  partials,     \* numbers of tables still under their temporary name
  manifest,     \* what the MANIFEST file says, or None
  snapshot,     \* Durable.snapshot
  durable,      \* who holds the durable lock across a step
  next_number,  \* Shared.next_number
  last_seq,     \* last sequence number of the current log
  active,       \* State.active
  active_logs,  \* State.active_logs; the last one is the current log
  frozen,       \* State.frozen, newest first
  l0,           \* State.levels[0]: file numbers, newest first
  below,        \* State.levels[1..]: files with their levels
  writer,       \* where each writer stands
  flusher,      \* the flush under way
  compactor,    \* the compaction under way
  faults        \* crashes and failures so far

\* History, never read by the store.
VARIABLES
  ever,         \* records written and not lost in a crash
  shown,        \* those of them that reads answer from
  acked,        \* those promised to survive
  settled       \* records that reached a table named by the manifest

disk == <<logs, unsafe, unlinked, tables, partials, manifest>>
memory == <<active, active_logs, frozen, l0, below>>
numbering == <<next_number, last_seq>>
history == <<ever, shown, acked, settled>>
vars == <<policy, phase, disk, snapshot, durable, numbering, memory, writer,
          flusher, compactor, faults, history>>

\* A directory with one more file, and without one.
With(files, n, content) ==
  [m \in DOMAIN files \cup {n} |-> IF m = n THEN content ELSE files[m]]
Without(files, n) == Restrict(files, DOMAIN files \ {n})

\* The highest and the lowest number of a set, 0 if it has none.
Highest(S) == Max(S \cup {0})
Lowest(S) == IF S = {} THEN 0 ELSE Min(S)

\* The numbers of a set in order.
Rank(S, x) == Cardinality({y \in S : y < x})
Ascending(S) ==
  [i \in 1 .. Cardinality(S) |-> CHOOSE x \in S : Rank(S, x) = i - 1]
Descending(S) ==
  [i \in 1 .. Cardinality(S) |-> CHOOSE x \in S : Rank(S, x) = Cardinality(S) - i]

\* A sequence without some of its elements.
Retained(s, removed) ==
  LET kept == Ascending({i \in DOMAIN s : s[i] \notin removed})
  IN  [i \in DOMAIN kept |-> s[kept[i]]]

SeqsOf(R) == {r.seq : r \in R}

Idle == [at |-> "idle"]
NoSnapshot == [files |-> {}, last_seq |-> 0, next_number |-> 0]

Init ==
  /\ policy \in Policies
  /\ phase = "down"
  /\ logs = << >> /\ unsafe = {} /\ unlinked = << >>
  /\ tables = << >> /\ partials = {}
  /\ manifest = None /\ snapshot = NoSnapshot /\ durable = None
  /\ next_number = 0 /\ last_seq = 0
  /\ active = {} /\ active_logs = << >> /\ frozen = << >>
  /\ l0 = << >> /\ below = {}
  /\ writer = [w \in Writers |-> Idle]
  /\ flusher = Idle /\ compactor = Idle
  /\ faults = [restart |-> 0, task |-> 0, unlink |-> 0, split |-> FALSE]
  /\ ever = {} /\ shown = {} /\ acked = {} /\ settled = {}

----------------------------------------------------------------------------
(* Memtables, files and reads *)

\* Memtable::insert: a record replaces only an older one.
MemtableInsert(table, r) ==
  IF \E o \in table : o.key = r.key /\ o.seq >= r.seq
  THEN table
  ELSE {o \in table : o.key # r.key} \cup {r}

\* The newest record of each key: what a replay of records leaves in a
\* memtable, and what a merge of files keeps.
NewestOf(records) ==
  {r \in records : \A o \in records : o.key = r.key => o.seq <= r.seq}

MinKey(n) == Min({r.key : r \in tables[n]})
MaxKey(n) == Highest({r.key : r \in tables[n]})
Covers(n, key) == MinKey(n) <= key /\ key <= MaxKey(n)

Deepest(files) == Highest({f.level : f \in files})
AtLevel(files, level) == {f \in files : f.level = level}
Numbers(files) == {f.number : f \in files}

\* The file of a deeper level a lookup consults, as what it holds.
Covering(level, key) ==
  LET found == {f \in AtLevel(below, level) : Covers(f.number, key)}
  IN  IF found = {} THEN {} ELSE tables[(CHOOSE f \in found : TRUE).number]

\* What one memtable or file knows of a key.
Lookup(source, key) == {r \in source : r.key = key}

\* The frozen memtables, the files of level 0 and the deeper levels that know a
\* key, by their place in the order of a lookup.
InFrozen(key) == {i \in DOMAIN frozen : Lookup(frozen[i].memtable, key) # {}}
InL0(key) == {i \in DOMAIN l0 : Lookup(tables[l0[i]], key) # {}}
InBelow(key) ==
  {level \in 1 .. Deepest(below) : Lookup(Covering(level, key), key) # {}}

\* get: what the first of them that knows the key has.
Found(key) ==
  IF Lookup(active, key) # {} THEN Lookup(active, key)
  ELSE IF InFrozen(key) # {} THEN Lookup(frozen[Min(InFrozen(key))].memtable, key)
  ELSE IF InL0(key) # {} THEN Lookup(tables[l0[Min(InL0(key))]], key)
  ELSE IF InBelow(key) # {} THEN Lookup(Covering(Min(InBelow(key)), key), key)
  ELSE {}

Value(r) == IF r.deleted THEN None ELSE r.seq

\* A tombstone answers with nothing.
Get(key) ==
  IF Found(key) = {} THEN None ELSE Value(CHOOSE r \in Found(key) : TRUE)

----------------------------------------------------------------------------
(* write, sync and rotate *)

CurrentLog == active_logs[Len(active_logs)]

\* set and delete, first half: under the log's read lock, the record gets its
\* number and goes to the current log.
WriteAppends(w) ==
  /\ phase = "up" /\ writer[w].at = "idle"
  /\ last_seq < MaxSeq
  /\ \E key \in Keys, mutation \in Mutations :
       LET r == [seq |-> last_seq + 1, key |-> key,
                 deleted |-> mutation = "delete"]
       IN  /\ last_seq' = r.seq
           /\ logs' = [logs EXCEPT ![CurrentLog] = @ \cup {r}]
           /\ unsafe' = unsafe \cup {r}
           /\ ever' = ever \cup {r}
           /\ writer' = [writer EXCEPT ![w] = [at |-> "insert", record |-> r]]
  /\ UNCHANGED <<policy, unlinked, phase, tables, partials, manifest, snapshot,
                 durable, next_number, memory, flusher, compactor, faults,
                 shown, acked, settled>>

\* The append has returned, which under Always and Group makes the record and
\* those in front of it safe.  The record becomes visible; a table that has
\* grown past its limit sends the writer on to rotate.
WriteInserts(w) ==
  /\ phase = "up" /\ writer[w].at = "insert"
  /\ LET r == writer[w].record
     IN  /\ active' = MemtableInsert(active, r)
         /\ shown' = shown \cup {r}
         /\ IF policy = "interval"
            THEN UNCHANGED <<unsafe, acked>>
            ELSE /\ unsafe' = {u \in unsafe : u.seq > r.seq}
                 /\ acked' = acked \cup {r}
  /\ writer' = [writer EXCEPT ![w] =
                 IF Cardinality(active') >= MemtableBytes
                 THEN [at |-> "rotate", min |-> MemtableBytes,
                       record |-> writer[w].record]
                 ELSE Idle]
  /\ UNCHANGED <<policy, unlinked, phase, logs, tables, partials, manifest,
                 snapshot, durable, numbering, active_logs, frozen, l0, below,
                 flusher, compactor, faults, ever, settled>>

\* Records whose write has not returned yet.
InCall == {writer[w].record : w \in {v \in Writers : writer[v].at # "idle"}}

\* sync under Interval: the current log goes to the device, and every write
\* that has returned is promised.
Sync ==
  /\ phase = "up" /\ policy = "interval"
  /\ unsafe' = unsafe \ logs[CurrentLog]
  /\ acked' = acked \cup (shown \ InCall)
  /\ UNCHANGED <<policy, unlinked, phase, logs, tables, partials, manifest,
                 snapshot, durable, numbering, memory, writer, flusher,
                 compactor, faults, ever, shown, settled>>

\* flush rotates whatever the active table holds.
FlushCall(w) ==
  /\ phase = "up" /\ writer[w].at = "idle"
  /\ writer' = [writer EXCEPT ![w] = [at |-> "rotate", min |-> 0,
                                         record |-> None]]
  /\ UNCHANGED <<policy, phase, disk, snapshot, durable, numbering, memory,
                 flusher, compactor, faults, history>>

\* Mutant: a write gives the log's read lock back between its two halves.
LogAlwaysFree == TRUE

\* The log's write lock keeps out every writer between its two halves.
LogUnshared == \A v \in Writers : writer[v].at # "insert"

Rotates(w) == active # {} /\ Cardinality(active) >= writer[w].min

\* rotate: a fresh log, and the active table frozen with the logs that fed it.
Rotate(w) ==
  /\ phase = "up" /\ writer[w].at = "rotate"
  /\ LogUnshared
  /\ Rotates(w)
  /\ logs' = With(logs, next_number, {})
  /\ next_number' = next_number + 1
  /\ frozen' = <<[memtable |-> active, logs |-> active_logs]>> \o frozen
  /\ active' = {} /\ active_logs' = <<next_number>>
  /\ writer' = [writer EXCEPT ![w] = [at |-> "drop", log |-> CurrentLog,
                                         record |-> writer[w].record]]
  /\ UNCHANGED <<policy, unlinked, phase, unsafe, tables, partials, manifest,
                 snapshot, durable, last_seq, l0, below, flusher, compactor,
                 faults, history>>

\* Creating the log fails, with or without leaving an empty file: its number is
\* spent, the table stays active, and a write that got this far returns an
\* error though it took effect.
RotateFails(w) ==
  /\ phase = "up" /\ writer[w].at = "rotate"
  /\ LogUnshared
  /\ Rotates(w)
  /\ faults.task < MaxFailures
  /\ logs' \in {logs, With(logs, next_number, {})}
  /\ next_number' = next_number + 1
  /\ writer' = [writer EXCEPT ![w] = Idle]
  /\ faults' = [faults EXCEPT !.task = @ + 1]
  /\ UNCHANGED <<policy, unlinked, phase, unsafe, tables, partials, manifest,
                 snapshot, durable, last_seq, memory, flusher, compactor,
                 history>>

\* Another writer has rotated meanwhile.
RotateSkips(w) ==
  /\ phase = "up" /\ writer[w].at = "rotate"
  /\ LogUnshared
  /\ ~Rotates(w)
  /\ writer' = [writer EXCEPT ![w] = Idle]
  /\ UNCHANGED <<policy, phase, disk, snapshot, durable, numbering, memory,
                 flusher, compactor, faults, history>>

\* Closing the previous log, with no lock held, puts it on the device.
RotateDrops(w) ==
  /\ phase = "up" /\ writer[w].at = "drop"
  /\ LET log == writer[w].log
     IN  unsafe' = IF log \in DOMAIN logs THEN unsafe \ logs[log] ELSE unsafe
  /\ writer' = [writer EXCEPT ![w] = Idle]
  /\ UNCHANGED <<policy, unlinked, phase, logs, tables, partials, manifest,
                 snapshot, durable, numbering, memory, flusher, compactor,
                 faults, history>>

----------------------------------------------------------------------------
(* commit: the manifest on disk first, then memory, under the durable lock *)

\* Mutant: a commit forgets to drop the files it replaces.
CommittedKeepsInputs(added, removed, seq) ==
  [files |-> snapshot.files \cup added,
   last_seq |-> Highest({snapshot.last_seq, seq}),
   next_number |-> next_number]

\* The snapshot a commit stores.  seq was read before the lock was taken.
Committed(added, removed, seq) ==
  [files |-> {f \in snapshot.files : f.number \notin removed} \cup added,
   last_seq |-> Highest({snapshot.last_seq, seq}),
   next_number |-> next_number]

\* Manifest::store: the rename either replaces the whole file or does nothing,
\* and the directory is flushed after it.
ManifestStore(who, added, removed, seq) ==
  /\ durable = None
  /\ durable' = who
  /\ manifest' = Committed(added, removed, seq)
  /\ unlinked' = << >>

----------------------------------------------------------------------------
(* flush: the oldest frozen memtable becomes a file of level 0 *)

FlushStarts ==
  /\ phase = "up" /\ flusher.at = "idle"
  /\ frozen # << >>
  /\ flusher' = [at |-> "write", number |-> next_number,
                 task |-> frozen[Len(frozen)]]
  /\ next_number' = next_number + 1
  /\ partials' = partials \cup {next_number}
  /\ UNCHANGED <<policy, unlinked, phase, logs, unsafe, tables, manifest,
                 snapshot, durable, last_seq, memory, writer, compactor,
                 faults, history>>

\* Mutant: the commit is given the number after the last one.
FlushRenamesNextSeq ==
  /\ phase = "up" /\ flusher.at = "write"
  /\ tables' = With(tables, flusher.number, flusher.task.memtable)
  /\ partials' = partials \ {flusher.number}
  /\ unlinked' = << >>
  /\ flusher' = [at |-> "commit", number |-> flusher.number,
                 task |-> flusher.task, seq |-> last_seq + 1]
  /\ UNCHANGED <<policy, phase, logs, unsafe, manifest, snapshot, durable,
                 numbering, memory, writer, compactor, faults, history>>

\* The table is complete and on the device and takes its final name, and the
\* directory is flushed; commit then reads the last sequence number.
FlushRenames ==
  /\ phase = "up" /\ flusher.at = "write"
  /\ tables' = With(tables, flusher.number, flusher.task.memtable)
  /\ partials' = partials \ {flusher.number}
  /\ unlinked' = << >>
  /\ flusher' = [at |-> "commit", number |-> flusher.number,
                 task |-> flusher.task, seq |-> last_seq]
  /\ UNCHANGED <<policy, phase, logs, unsafe, manifest, snapshot, durable,
                 numbering, memory, writer, compactor, faults, history>>

FlushedFile == [number |-> flusher.number, level |-> 0]

FlushCommits ==
  /\ phase = "up" /\ flusher.at = "commit"
  /\ ManifestStore("flusher", {FlushedFile}, {}, flusher.seq)
  /\ flusher' = [at |-> "publish", number |-> flusher.number,
                 task |-> flusher.task]
  /\ settled' = settled \cup tables[flusher.number]
  /\ UNCHANGED <<policy, phase, logs, unsafe, tables, partials, snapshot,
                 numbering, memory, writer, compactor, faults, ever, shown,
                 acked>>

\* Mutant: a new file goes to the end of level 0.
L0WithLast(n) == l0 \o <<n>>

\* Newer than every file, older than everything still in memory.
L0With(n) == <<n>> \o l0

FlushPublishes ==
  /\ phase = "up" /\ flusher.at = "publish"
  /\ snapshot' = manifest
  /\ durable' = None
  /\ l0' = L0With(flusher.number)
  /\ frozen' = SubSeq(frozen, 1, Len(frozen) - 1)
  /\ flusher' = [at |-> "unlink", logs |-> flusher.task.logs]
  /\ UNCHANGED <<policy, phase, disk, numbering, active, active_logs, below,
                 writer, compactor, faults, history>>

\* Mutant: every log but the current one goes.
LogsCurrentOnly == Restrict(logs, {CurrentLog})

LogsLeft == Without(logs, Head(flusher.logs))

\* The logs go last, oldest first.
FlushUnlinks ==
  /\ phase = "up" /\ flusher.at = "unlink"
  /\ logs' = LogsLeft
  /\ unlinked' = Append(unlinked, [number |-> Head(flusher.logs),
                                   records |-> logs[Head(flusher.logs)]])
  /\ flusher' = IF Len(flusher.logs) = 1 THEN Idle
                ELSE [at |-> "unlink", logs |-> Tail(flusher.logs)]
  /\ UNCHANGED <<policy, phase, unsafe, tables, partials, manifest, snapshot,
                 durable, numbering, memory, writer, compactor, faults,
                 history>>

\* A log that cannot be unlinked ends the flush with an error, and nobody comes
\* back for it.
FlushUnlinkFails ==
  /\ phase = "up" /\ flusher.at = "unlink"
  /\ faults.unlink < MaxUnlinkFailures
  /\ flusher' = Idle
  /\ faults' = [faults EXCEPT !.unlink = @ + 1]
  /\ UNCHANGED <<policy, phase, disk, snapshot, durable, numbering, memory,
                 writer, compactor, history>>

\* Any other failure leaves its file behind and the memtable frozen, to be
\* tried again under a new number.  The manifest may already be renamed when
\* flushing the directory fails.
FlushFails ==
  /\ phase = "up" /\ faults.task < MaxFailures
  /\ \/ flusher.at = "write" /\ UNCHANGED <<manifest, settled>>
     \/ /\ flusher.at = "commit" /\ durable = None
        /\ manifest' \in {manifest, Committed({FlushedFile}, {}, flusher.seq)}
        /\ settled' = IF manifest' = manifest THEN settled
                      ELSE settled \cup tables[flusher.number]
  /\ flusher' = Idle
  /\ faults' = [faults EXCEPT !.task = @ + 1]
  /\ UNCHANGED <<policy, unlinked, phase, logs, unsafe, tables, partials,
                 snapshot, durable, numbering, memory, writer, compactor, ever,
                 shown, acked>>

----------------------------------------------------------------------------
(* compaction: planning *)

BytesAtLevel(files, level) ==
  LET numbers == {f.number : f \in AtLevel(files, level)}
  IN  Cardinality(UNION {{<<n, r>> : r \in tables[n]} : n \in numbers})

\* Byte budget of a level below zero.
Budget(level) == MemtableBytes * Fanout ^ level

\* The score of a level, as a fraction: files against the trigger at level 0,
\* bytes against the budget below.
Score(files, level) ==
  IF level = 0 THEN <<Cardinality(AtLevel(files, 0)), L0Trigger>>
  ELSE <<BytesAtLevel(files, level), Budget(level)>>

Above(s, t) == s[1] * t[2] > t[1] * s[2]

Due(files, level) ==
  IF level = 0 THEN L0Trigger > 0 /\ Cardinality(AtLevel(files, 0)) >= L0Trigger
  ELSE Above(Score(files, level), <<1, 1>>)

\* The level furthest past its limit, the shallowest of equals; none if no
\* level is due.
PlanLevels(files) ==
  LET due == {level \in 0 .. Deepest(files) : Due(files, level)}
  IN  {level \in due : \A other \in due :
         /\ ~Above(Score(files, other), Score(files, level))
         /\ other < level => Above(Score(files, level), Score(files, other))}

Overlaps(n, lo, hi) == MinKey(n) <= hi /\ lo <= MaxKey(n)

\* Every file of level 0, or the oldest of a deeper level, with the files of
\* the level below that their key range touches.
InputsFor(files, level) ==
  LET oldest == Min({f.number : f \in AtLevel(files, level)})
      upper == IF level = 0 THEN AtLevel(files, 0)
               ELSE {f \in AtLevel(files, level) : f.number = oldest}
      lo == Lowest({MinKey(f.number) : f \in upper})
      hi == Highest({MaxKey(f.number) : f \in upper})
  IN  upper \cup {f \in AtLevel(files, level + 1) : Overlaps(f.number, lo, hi)}

TombstoneNeeded(files, output_level, key) ==
  \E f \in files : f.level > output_level /\ Covers(f.number, key)

\* Mutant: the merge keeps the oldest version of each key.
MergedKeepsOldest(files, inputs, output_level) ==
  LET records == UNION {tables[f.number] : f \in inputs}
  IN  {r \in records : \A o \in records : o.key = r.key => r.seq <= o.seq}

\* What the merge writes out: the newest version of each key, without the
\* tombstones that shadow nothing further down.
Merged(files, inputs, output_level) ==
  {r \in NewestOf(UNION {tables[f.number] : f \in inputs}) :
     r.deleted => TombstoneNeeded(files, output_level, r.key)}

\* The merged stream, cut in key order into files of the target size.
Position(records, r) == Rank({o.key : o \in records}, r.key)
Cut(records) ==
  LET count == (Cardinality(records) + MemtableBytes - 1) \div MemtableBytes
  IN  [i \in 1 .. count |->
         {r \in records : Position(records, r) \div MemtableBytes = i - 1}]

----------------------------------------------------------------------------
(* compaction: the steps of compact_once *)

\* Mutant: the plan is made from the manifest file, without the durable lock.
CompactPlansFromDisk ==
  /\ phase = "up" /\ compactor.at = "idle" /\ manifest # None
  /\ \E level \in PlanLevels(manifest.files) :
       compactor' = [at |-> "find", level |-> level + 1,
                     planned |-> manifest.files,
                     inputs |-> InputsFor(manifest.files, level)]
  /\ UNCHANGED <<policy, phase, disk, snapshot, durable, numbering, memory,
                 writer, flusher, faults, history>>

\* The plan is made from the durable snapshot.
CompactPlans ==
  /\ phase = "up" /\ compactor.at = "idle" /\ durable = None
  /\ \E level \in PlanLevels(snapshot.files) :
       compactor' = [at |-> "find", level |-> level + 1,
                     planned |-> snapshot.files,
                     inputs |-> InputsFor(snapshot.files, level)]
  /\ UNCHANGED <<policy, phase, disk, snapshot, durable, numbering, memory,
                 writer, flusher, faults, history>>

Held == Range(l0) \cup Numbers(below)

\* The inputs are looked up in memory, and merged; a plan that names a file
\* memory does not hold is given up.
CompactMerges ==
  /\ phase = "up" /\ compactor.at = "find"
  /\ compactor' =
       IF Numbers(compactor.inputs) \subseteq Held
       THEN [at |-> "write", level |-> compactor.level, added |-> {},
             removed |-> Numbers(compactor.inputs),
             todo |-> Cut(Merged(compactor.planned, compactor.inputs,
                                 compactor.level))]
       ELSE Idle
  /\ UNCHANGED <<policy, phase, disk, snapshot, durable, numbering, memory,
                 writer, flusher, faults, history>>

\* One output file is written and takes its final name.
CompactSeals ==
  /\ phase = "up" /\ compactor.at = "write" /\ compactor.todo # << >>
  /\ tables' = With(tables, next_number, Head(compactor.todo))
  /\ next_number' = next_number + 1
  /\ compactor' =
       [at |-> "write", level |-> compactor.level, removed |-> compactor.removed,
        todo |-> Tail(compactor.todo),
        added |-> compactor.added \cup
                    {[number |-> next_number, level |-> compactor.level]}]
  /\ UNCHANGED <<policy, unlinked, phase, logs, unsafe, partials, manifest,
                 snapshot, durable, last_seq, memory, writer, flusher, faults,
                 history>>

\* The directory is flushed, and commit reads the last sequence number.
CompactReadsSeq ==
  /\ phase = "up" /\ compactor.at = "write" /\ compactor.todo = << >>
  /\ unlinked' = << >>
  /\ compactor' = [at |-> "commit", level |-> compactor.level,
                   added |-> compactor.added, removed |-> compactor.removed,
                   seq |-> last_seq]
  /\ UNCHANGED <<policy, phase, logs, unsafe, tables, partials, manifest,
                 snapshot, durable, numbering, memory, writer, flusher, faults,
                 history>>

CompactCommits ==
  /\ phase = "up" /\ compactor.at = "commit"
  /\ ManifestStore("compactor", compactor.added, compactor.removed, compactor.seq)
  /\ compactor' = [at |-> "publish", level |-> compactor.level,
                   added |-> compactor.added, removed |-> compactor.removed]
  /\ UNCHANGED <<policy, phase, logs, unsafe, tables, partials, snapshot,
                 numbering, memory, writer, flusher, faults, history>>

CompactPublishes ==
  /\ phase = "up" /\ compactor.at = "publish"
  /\ snapshot' = manifest
  /\ durable' = None
  /\ l0' = Retained(l0, compactor.removed)
  /\ below' = {f \in below : f.number \notin compactor.removed}
                \cup compactor.added
  /\ compactor' = [at |-> "unlink", removed |-> compactor.removed]
  /\ UNCHANGED <<policy, phase, disk, numbering, active, active_logs, frozen,
                 writer, flusher, faults, history>>

CompactUnlinks ==
  /\ phase = "up" /\ compactor.at = "unlink"
  /\ \E n \in compactor.removed :
       /\ tables' = Without(tables, n)
       /\ compactor' = IF compactor.removed = {n} THEN Idle
                       ELSE [at |-> "unlink", removed |-> compactor.removed \ {n}]
  /\ UNCHANGED <<policy, unlinked, phase, logs, unsafe, partials, manifest,
                 snapshot, durable, numbering, memory, writer, flusher, faults,
                 history>>

\* A failure leaves what was written behind; as for a flush, the manifest may
\* already be renamed.
CompactFails ==
  /\ phase = "up" /\ faults.task < MaxFailures
  /\ \/ compactor.at \in {"write", "unlink"} /\ UNCHANGED manifest
     \/ /\ compactor.at = "commit" /\ durable = None
        /\ manifest' \in {manifest, Committed(compactor.added,
                                      compactor.removed, compactor.seq)}
  /\ compactor' = Idle
  /\ faults' = [faults EXCEPT !.task = @ + 1]
  /\ UNCHANGED <<policy, unlinked, phase, logs, unsafe, tables, partials,
                 snapshot, durable, numbering, memory, writer, flusher,
                 history>>

----------------------------------------------------------------------------
(* close, crash and open *)

\* Everything in memory is gone.
Forget ==
  /\ phase' = "down"
  /\ snapshot' = NoSnapshot /\ durable' = None
  /\ next_number' = 0 /\ last_seq' = 0
  /\ active' = {} /\ active_logs' = << >> /\ frozen' = << >>
  /\ l0' = << >> /\ below' = {}
  /\ writer' = [w \in Writers |-> Idle]
  /\ flusher' = Idle /\ compactor' = Idle

\* Dropping the engine waits for the background thread and closes the log.
Close ==
  /\ phase = "up" /\ faults.restart < MaxRestarts
  /\ \A w \in Writers : writer[w].at = "idle"
  /\ flusher.at = "idle" /\ compactor.at = "idle"
  /\ unsafe' = {}
  /\ faults' = [faults EXCEPT !.restart = @ + 1]
  /\ Forget
  /\ UNCHANGED <<policy, unlinked, logs, tables, partials, manifest, history>>

\* The log before the current one is not on the device yet.
Splits == \E n \in DOMAIN logs \ {CurrentLog} : logs[n] \cap unsafe # {}

\* The logs on disk when some records are lost and the last unlinks undone.
Restored(lost, kept) ==
  LET back == {unlinked[i] : i \in kept + 1 .. Len(unlinked)}
  IN  [n \in DOMAIN logs \cup {log.number : log \in back} |->
         IF n \in DOMAIN logs THEN logs[n] \ lost
         ELSE UNION {log.records : log \in {b \in back : b.number = n}}]

\* A crash takes the ends of logs that were not safe yet, and may undo unlinks.
Crash ==
  /\ phase \in {"opening", "up"} /\ faults.restart < MaxRestarts
  /\ \E lost \in SUBSET unsafe :
       /\ \A n \in DOMAIN logs : \A r \in logs[n] \cap lost, s \in logs[n] :
            s.seq > r.seq => s \in lost
       /\ \E kept \in 0 .. Len(unlinked) :
            logs' = Restored(lost, kept)
  /\ unsafe' = {} /\ unlinked' = << >>
  /\ faults' = [faults EXCEPT !.restart = @ + 1,
                              !.split = @ \/ (phase = "up" /\ Splits)]
  /\ Forget
  /\ UNCHANGED <<policy, tables, partials, manifest, history>>

\* Mutant: numbering continues at the highest file listed.
ListedNumber == Highest(DOMAIN logs \cup DOMAIN tables)

\* The number after every log and table listed.
ListedNext == Highest(DOMAIN logs \cup DOMAIN tables) + 1

\* Manifest::load, where there is a manifest.
Loaded == IF manifest = None THEN NoSnapshot ELSE manifest

\* open lists the directory, drops half-written tables, and refuses tables
\* without a manifest.  Numbering continues past every file listed.
OpenScans ==
  /\ phase = "down"
  /\ partials' = {}
  /\ next_number' = ListedNext
  /\ IF manifest = None /\ DOMAIN tables # {}
     THEN phase' = "refused" /\ UNCHANGED snapshot
     ELSE phase' = "opening" /\ snapshot' = Loaded
  /\ UNCHANGED <<policy, unlinked, logs, unsafe, tables, manifest, durable,
                 last_seq, memory, writer, flusher, compactor, faults,
                 history>>

Orphans == DOMAIN tables \ Numbers(snapshot.files)

OpenRemovesOrphan ==
  /\ phase = "opening"
  /\ \E n \in Orphans : tables' = Without(tables, n)
  /\ UNCHANGED <<policy, unlinked, phase, logs, unsafe, partials, manifest,
                 snapshot, durable, numbering, memory, writer, flusher,
                 compactor, faults, history>>

\* Mutant: only the newest log is replayed.
ReplayedNewest == IF DOMAIN logs = {} THEN {} ELSE logs[Max(DOMAIN logs)]

Replayed == UNION Range(logs)

\* Mutant: level 0 is left oldest first.
OpenedL0OldestFirst == Ascending(Numbers(AtLevel(snapshot.files, 0)))

\* open_levels: level 0 newest first.
OpenedL0 == Descending(Numbers(AtLevel(snapshot.files, 0)))

\* The files of the manifest are opened, and every log is replayed into one
\* active table; the newest one becomes the current log.
OpenFinishes ==
  /\ phase = "opening" /\ Orphans = {}
  /\ LET number == Highest({next_number, snapshot.next_number})
     IN  IF DOMAIN logs = {}
         THEN /\ logs' = With(logs, number, {})
              /\ active_logs' = <<number>>
              /\ next_number' = number + 1
         ELSE /\ active_logs' = Ascending(DOMAIN logs)
              /\ next_number' = number
              /\ UNCHANGED logs
  /\ last_seq' = Highest({snapshot.last_seq} \cup SeqsOf(Replayed))
  /\ active' = NewestOf(Replayed)
  /\ l0' = OpenedL0
  /\ below' = {f \in snapshot.files : f.level > 0}
  /\ phase' = "up"
  \* What comes back should be the writes up to some point.
  /\ LET end == Highest(SeqsOf(Replayed \cup settled))
     IN  ever' = {r \in ever : r.seq <= end}
  /\ shown' = ever'
  /\ UNCHANGED <<policy, unlinked, unsafe, tables, partials, manifest,
                 snapshot, durable, frozen, writer, flusher, compactor, faults,
                 acked, settled>>

----------------------------------------------------------------------------
Next ==
  \/ \E w \in Writers :
       \/ WriteAppends(w) \/ WriteInserts(w) \/ FlushCall(w)
       \/ Rotate(w) \/ RotateFails(w) \/ RotateSkips(w) \/ RotateDrops(w)
  \/ Sync
  \/ FlushStarts \/ FlushRenames \/ FlushCommits \/ FlushPublishes
  \/ FlushUnlinks \/ FlushUnlinkFails \/ FlushFails
  \/ CompactPlans \/ CompactMerges \/ CompactSeals \/ CompactReadsSeq
  \/ CompactCommits \/ CompactPublishes \/ CompactUnlinks \/ CompactFails
  \/ Close \/ Crash
  \/ OpenScans \/ OpenRemovesOrphan \/ OpenFinishes

Spec == Init /\ [][Next]_vars

\* The two known ways to lose a promise: under Interval, a crash between a
\* rotation and the closing of the old log; and opening a store where a log
\* could not be unlinked.
Excepted == faults.split \/ (faults.unlink > 0 /\ faults.restart > 0)
=============================================================================
