# TLA+ models of lsmkv

Models of lsm-kv-rs, a log-structured key-value store: a library (`crates/lsmkv`) and a
RESP server on top of it (`crates/lsmkv-server`). They cover the write-ahead log, the engine
that moves records from the log to tables and through the levels, the queue that connects
callers and the background thread, the lock-free memtable, the formats of the files, and the
server. Paths below are relative to `crates/lsmkv/src/` or `crates/lsmkv-server/src/`.

## The system

| part | state | operations | talks to |
|---|---|---|---|
| write-ahead log (`wal.rs`) | buffer, `written`, `last_seq` under the append lock; `durable`, `in_progress` under the sync lock; `failed`, `background_error` | append, sync, the syncer's rounds, drop, recover | the engine calls it; a file and a device below it |
| log replay (`wal/reader.rs`, `wal/record.rs`) | a position in a file | read records until one is not whole | recover |
| engine (`engine.rs`) | active and frozen memtables with their logs, levels, the durable snapshot, `next_number` | get, set, delete, sync, flush, compact, rotate, flush of a frozen table, commit, compact_once, drop, open | all other parts |
| flush queue (`engine.rs`) | `pending`, `shape_changed`, `shutdown`, one condition variable, the background error | rotate, next_task, mark_progress, wait_for_flush, compact_all, drop | callers and the background thread |
| manifest (`manifest.rs`) | one file, replaced by a rename | store, load | commit, open |
| compaction (`compaction.rs`) | none | plan, inputs_for, tombstone_needed, merge | compact_once |
| memtable (`memtable.rs`, `memtable/btree.rs`, `memtable/skiplist.rs`) | an ordered map; the skip list is lock free in a fixed arena | insert, get, iterate | engine |
| tables (`sstable.rs`, `bloom.rs`) | an immutable file | write, open, get, iterate | flush, compaction, get |
| checksum (`checksum.rs`), coding, error, lookup | none | pure helpers | all file formats |
| server (`lsmkv-server`: `server.rs`, `resp.rs`, `command.rs`, `main.rs`) | one buffer per connection | take_batch, run_batch, commands, shutdown | engine |

What is hard about it: appends share one flush and find out from a counter whether it covered
them; a write has two halves around which logs and memtables are exchanged; a flush and a
compaction each take several steps on disk and in memory, overlap, can fail at each step and
can be cut off by a crash at each step; recovery has to guess from the files what had
happened; callers and the background thread share one condition variable and two of the
notifications are sent without its lock; inserts into the skip list race with each other and
with searches, without a lock, in an arena that never grows; requests arrive in pieces.
`PROJECT.json` lists these hazards one by one, each at its line.

## Modules

| module | models |
|---|---|
| `Wal` | the write-ahead log: `wal.rs`, and `wal/reader.rs` by what it returns |
| `WalProofs` | the inductive invariant of `Wal`, that every action keeps it, and the theorems |
| `KeyValue` | what the engine promises its callers: a durable map |
| `Store`, `StoreProperties` | the engine, compaction and recovery; what it promises, that it implements `KeyValue` included |
| `StoreInvariant` | the inductive invariant of `Store` |
| `StoreWrites`, `StoreBackground`, `StoreMerges`, `StoreOpening`, `StoreProofs` | that every action keeps it: writers; flushes and most of a compaction; what a merge computes; planning, merging, crashes and open; then the theorems |
| `FlushQueue` | signalling between callers and the background thread |
| `Memtable` | what a memtable promises, which is what `memtable/btree.rs` does under its lock |
| `SkipList`, `SkipListProofs` | `memtable/skiplist.rs` and the engine's use of it; implements `Memtable`; a theorem |
| `Coding` | fields and records as cells: `coding.rs`, and what log and table records share |
| `LogFile` | one log file: `wal/record.rs`, `wal/reader.rs`, `recover` |
| `Bloom`, `TableFile` | `bloom.rs`; one table file: `sstable.rs` |
| `Merge` | the merge of `compaction.rs` and `write_merged` |
| `ManifestFile`, `ManifestCodec` | replacing and loading the manifest; its encoding |
| `QueueManifestProofs` | theorems about `FlushQueue` and about `ManifestFile` |
| `Checksum` | the table-driven CRC-32 of `checksum.rs` |
| `Resp`, `Server` | `resp.rs`; connections, batches, commands and shutdown |
| `MCWal`, `MCStore`, `MCFlushQueue`, `MCSkipList`, `MCServer`, `MCFormats` | the instances for TLC |

**Wal.** A record is its sequence number, so a set of numbers is a buffer or a file. `pc[t]`
says where a thread stands in `append` or `sync_through`; each acquisition of a lock, write
and device flush is a step. `AppendChecks` is the head of `append`, before the lock;
`AppendEncodes` encodes and, if the policy or the buffer's size asks for it, writes;
`SyncDone`, `SyncRefused`, `SyncWaits` and `SyncOwns` are the four ways through the loop of
`sync_through`; `WriteAndFlushDrains` and `WriteAndFlushFlushes` are `write_and_flush`;
`SyncPublishes` and `SyncPublishesError` release the flush. `file` is what replay would read,
`torn` that the file goes on with a piece of a record, `device` what a power failure cannot
take. A failed write lands any prefix; a process crash keeps the file, a power failure any
prefix that contains the device. `visible`, `acked`, `flushed`, `lost` and `replayed` are
history: what callers were told, and what went wrong.

**Store.** A record is a number, a key and whether it is a tombstone; memtables, logs and
tables are sets of records and sizes are counted in records. A write is `WriteAppends` (log
and number) and `WriteInserts` (memtable), with the log's read lock held between them, then
perhaps `Rotate` and `RotateDrops` (closing the old log with no lock held). A flush is
`FlushStarts`, `FlushRenames`, `FlushCommits` (the manifest), `FlushPublishes` (memory, with
the durable lock held since the manifest) and `FlushUnlinks`, log by log. A compaction is
`CompactPlans`, `CompactMerges`, `CompactSeals` per output, `CompactReadsSeq`,
`CompactCommits`, `CompactPublishes`, `CompactUnlinks` per input. `open` is `OpenScans`,
`OpenRemovesOrphan` per orphan, `OpenFinishes`. `Get` is the read path. The log is used at the
level of what `Wal` promises when no write fails: a record is `unsafe` until its append returned
(Always, Group) or a flush covered it (Interval), and a crash may take any end of the unsafe
part of each log. Directory changes survive a crash in order, except that unlinks of logs may be
undone by a power failure (`Restored`), since nothing flushes the directory behind them.
`RotateFails` is `Wal::create` failing after the write it belongs to took effect. Scores are compared as exact fractions, where the code divides floats.

**FlushQueue.** Memtables are counted, since they are flushed oldest first. A thread that
holds the queue lock over two steps is in `queue`; a notification without the lock is a step
of its own (`RotateNotifies`, `FlusherNotifies`, `CallerNotifies`, `ErrorNotifies`,
`DropNotifies`), and wakes exactly those waiting at that moment. `due` counts the compactions
the levels call for: a flush may or may not add one.

**KeyValue and Store.** `KeyValue` has no files: writes are issued in order, applied, and promised
once they (or a sync) returned; the store may stop, and starts again with the writes issued up
to some point, which has all promised ones before it. The mapping (`Abstract` in `StoreProperties`) takes
what `Get` answers as the contents, and the history of writes numbered, inserted and acknowledged
(`ever`, `shown`, `acked`) as the writes issued, applied and promised. `ImplementsKeyValue` therefore says at once that a
flush, a compaction, a failure in one of them or an unlink undone by a crash never changes an
answer, that recovery never shows a later write without an earlier one, and that it loses
nothing promised.

**SkipList.** Each atomic operation is a step: taking a node, taking a tower, raising `top`, every
load of a link in `descend`, every store and every compare-and-swap. `links` is the shared link
arena; `walk[t]` holds the pairs a search found. The height of a node is a free choice, where the
code derives it from the index. The engine is there as far as the table depends on it: the size
check at the end of a write, the rotation that waits for writers, its failure, the flush that
walks the frozen table, and the replay of logs at open. `Linearizable` says the list implements
`Memtable`, with the bottom level's newest versions as the map; an insert takes effect at the
compare-and-swap of the bottom level, a lookup at the load that decides it. Loads and stores are
sequentially consistent: the orderings the code asks for are the subject of its loom tests.

**Formats.** A file is a sequence of cells, one per fixed-size field or byte of a key or value. The
checksum of `Coding` is a sum weighted by position, enough to tell apart the damages a run makes;
`Checksum` has the real algorithm. A crash cuts the cells that were not flushed anywhere, and a run
of them may read as zeros. `LogFile` appends, flushes, crashes and recovers again and again.
`TableFile` writes a table record by record, damages at most one cell, then opens, looks up every key
and scans; the hash of the filter is any function of the keys, so no answer may depend on it.
`Merge` runs over scans of which one may fail. `ManifestFile` takes `store` call by call, and what
the name may stand for after a crash is the set `undone` as well as `named`. Its codec is a
parameter, of which it assumes only that decoding inverts encoding (`CodecAssumption`); TLC
evaluates this for `ManifestCodec`. `Checksum` compares the strides
and the two parts with division bit by bit. Between inputs of equal length a CRC is affine, so
agreement on every input with one bit set and on the one of zeros carries over to all inputs of that length.

**Server.** A word, a number or a line-end character is one cell. A client's whole stream is fixed
at the start and arrives in reads of any size out of `Chunks`. `Read` includes `take_batch`; the
batch then runs one operation of the store at a time, between those of other connections, with
`DEL` looking up and deleting in separate steps. An operation may fail (a failing write may have
been made), a batch may die, a client may hang up, and ctrl-c drops every task that is not waiting
for its batch. The store is an atomic map here.

## Runs

| run | instance | result |
|---|---|---|
| `wal_safety` | 2 callers and the syncer, all policies, 3 records, buffer limit 2, 1 failed write, 1 failed flush, 1 crash | 6 invariants hold, 2.0 M states |
| `wal_liveness` | 2 callers, all policies, 2 records, failures | every call returns, drop ends |
| `store_writers` | 2 writers, 2 keys, Group and Interval, an unlink failure, 1 restart | reads and promises hold outside the two exceptions below |
| `store_crash` | 1 writer, 1 key set and deleted, 1 failure and 1 crash or close anywhere | the store implements `KeyValue`; 4 more properties hold |
| `store_compact` | 3 writes over 2 keys, deletes, compaction down to level 2, flushes in between | 3 invariants hold, 0.4 M states |
| `queue` | 2 callers, 3 calls, 1 failure | 2 invariants and 4 liveness properties hold, 0.2 M states |
| `skiplist` | 2 threads, 2 keys, 4 inserts, a lookup, towers of 1 or 2, a table of 1 entry and a margin of 2, 1 failed rotation | the list implements `Memtable`; 4 invariants and termination hold |
| `server` | 2 connections, 4 scripts each, reads of 1 cell or all, 1 failure | 3 invariants hold |
| `formats` | log: 3 appends, 2 crashes; tables of 1 to 3 records; 3 merge sources over 3 keys; 3 snapshots; inputs up to 17 bytes | 7 properties hold |
| `wal_late_append` | 3 appenders, Group, 1 failed write | `AckedIsDurable` is violated |
| `store_first_flush` | 1 write, 1 crash | `OpenSucceeds` is violated |
| `skiplist_replay` | the records of two tables in the logs at open | `ArenaSuffices` is violated |

Run one with `tlc -workers 2 -config wal_safety.cfg MCWal`.

### What the properties say

- Log: acknowledged records survive every crash unless a failed write dropped one in front of
  them (`AckedSurvives`), a sync covers what was visible (`SyncCovers`), memory is what replay
  would rebuild (`MemoryIsReplayUnlessFailed`), one flush at a time, calls return, drop ends.
- Store: reads answer with the newest write (`ReadsNewest`), promises hold after a restart
  (`AckedReadable`), the manifest names only files that exist, numbers are never handed out
  twice, a log goes only after a table with its records is named on disk (`LogsGoLast`), level
  0 is newest first and deeper levels do not overlap (`LevelsInOrder`), a compaction's plan is
  still true when it is carried out (`PlanIsCurrent`), and all of it implements `KeyValue`.
- Queue: `pending` is exact between tasks, a wait that returns Ok means the tables are on disk,
  no sleeper is forgotten, frozen memtables drain, drop returns.
- Skip list: every level is sorted and part of the one below, and a node whose insert is over
  stands on all of its levels (`LevelsOrdered`), a search never reads outside a tower
  (`WalksInside`), the flush of a frozen table sees
  the newest version of every key (`FlushVisitsNewest`), the arena is never exhausted by writes
  (`ArenaSuffices`), calls return though compare-and-swaps fail.
- Server: the commands taken are those of the stream, however it is cut (`InStep`); a client that
  decodes its replies finds one per command, in order and of the right kind (`AnswersFit`); a `DEL`
  deleted what it says and its count is exact unless another connection wrote its keys
  (`DelHolds`).
- Formats: replay finds every flushed record and no record that was not appended
  (`ReplayFindsLog`); a lookup or scan of a damaged table answers right or fails (`TableAnswers`,
  `ScanIsWhole`); a merge writes the newest version of every key, or fails (`MergeIsComplete`);
  the manifest is whole and no older than the last commit (`LoadIsWhole`, `CommittedSurvives`).

### Where the code and its documentation disagree

Shown by a run of its own:

- **A late append hides a lost record** (`wal.rs:348`). Under Group, `append` checks `failed`
  before it takes the lock. Thread 1 owns the flush and has not drained yet; thread 2's append
  fills the buffer, writes, fails and drops records 1 and 2; thread 3, past the check, encodes
  record 3. Thread 1 writes that, `written` and then `durable` become 3, and the append of
  record 1 returns Ok. `wal.rs:60` promises that an append returns only once its record is
  durable.
- **The first flush** (`engine.rs:224`). A crash between the table's final name and the first
  manifest leaves a table with no manifest, which `open` refuses. `engine.rs:10-12` says
  opening deletes such an orphan.
- **Replay into one arena** (`memtable/skiplist.rs:250`). `open` replays all logs into one memtable
  and checks no size; with a skip list, the logs of several frozen memtables exhaust an arena
  sized for one, and `insert` panics. `skiplist.rs:244-247` calls that unreachable.

Stated in the modules, without a run of their own; to see the counterexample, check the named
invariant in place of a run's properties:

- **sync after recovery** (`wal.rs:226`): `SyncedIsDurable` under `wal_safety.cfg`. A recovered log
  counts what it replayed as durable, though after a process crash it may only be in the page
  cache; `sync` then does nothing. `wal.rs:277` says it pushes everything appended so far.
- **A stale log** (`engine.rs:670`): `PromisesKept` under `store_writers.cfg` with `Policies =
  {"group"}`. A log that could not be unlinked is never removed by this process; a later open
  replays it over newer tables. `README.md:275` calls that harmless, which it is only until the
  key is written again.
- **sync during a rotation** (`engine.rs:585`): `PromisesKept` under `store_writers.cfg` with
  `Policies = {"interval"}` and `MaxUnlinkFailures = 0`. The old log is flushed when it is dropped,
  after the new one is installed. A sync in between covers only the new one, and a crash there
  can keep a later write and lose an earlier one.
- **Progress reported early** (`engine.rs:679`): `WaitMeansLogsGone` under `queue.cfg` with
  `MaxFailures = 0`. A caller's `compact` publishes `pending` between the flusher's publication
  and its unlinks, so a wait returns with the logs still there, against `engine.rs:667`.

`AckedReadable` and `ReadsNewest` are stated outside the cases of the stale log and of the
crash during a rotation under Interval (`Excepted`), `CallsReturn` of the queue outside an
unlink failure: `flush` then returns without `mark_progress`, and `pending` stays up. `SyncCovers`
excepts records recovery read back. `InStep` is about streams without an inline request that is
too big: whether `parse_inline` refuses one depends on how much of it arrived at once.
`AnswersFit` is about command names without a line end, since an unknown name is echoed as it
came.

### Bounds

Two callers are enough for an owner and a waiter, a third is needed for the late append and
is used there. One failure and one crash at every point cover each step being cut off once;
in `store_crash` they combine, so a failed flush or compaction can be followed by a crash. That
run has one key, so that a set and a delete of it meet in every state of the files, and the
Group policy, under which nothing is promised by sync; two keys, two writers and Interval are in
`store_writers`, files that overlap and files that do not in `store_compact`. A memtable of one
record makes every write rotate. With an `L0Trigger` of 2 a compaction meets a flush that adds a
file it did not plan for, and with `Fanout` 1 and two keys a third write drives files to level 2,
where tombstones start to matter. Numbering starts at 1 in `wal_safety`, so a log that
continues another one is covered.

In `skiplist`, two threads and four inserts over two keys let two inserts of one key, or of
neighbours, meet at either level, and fill the table past its pressure point; key 1 is `Light`
(it weighs nothing), so the table also fills by nodes before it fills by bytes. The margin of 2 is
one for each writer past the check and one for a rotation that failed. A third thread
adds no pair of steps that two do not have. `LinksPerNode` equals `MaxHeight`, so no tower is cut.

In `server`, scripts mix both request forms, both cases of a name, a value that holds a line end,
pipelines, empty requests, a QUIT with more behind it and two ways to break the protocol; reads of
one cell cut a request everywhere, the large one takes pipelines whole. In `formats`, records
include an empty value, a key that is a prefix of another and a tombstone; blocks hold one or two
records; keys are looked up below, between and above those held; inputs of the checksum reach past
two strides, and are cut in front of, inside and behind the first.

### Fairness

Weak fairness on the steps of a thread that is inside a call, of the background thread, of
the syncer (its timer fires) and of drop: the operating system runs a runnable thread, and
each of these steps stays enabled until it is taken or another thread changes what it waits
for. Locks are only held for steps that end. Nothing makes callers call, and nothing makes a
write, a flush or a compaction fail; failures are bounded, so retries succeed in the end. In the
skip list too only the steps inside a call are fair; a failed compare-and-swap means another
insert linked its node, and inserts are bounded.

## Proofs

### The log

`WalProofs` proves for any number of callers, any bounds and any set of policies, from the
assumptions named in `Wal` (finitely many callers, distinct from the syncer and from `None`;
bounds that are natural numbers):

- `TypeCorrect`: the type invariant;
- `AcknowledgedSurvive`: `AckedSurvives`;
- `CompletedSyncsCover`: `SyncCovers`;
- `FlushHasOneOwner`: `OneFlushAtATime`;
- `BufferIsTheGap`: `PendingIsTheGap`;
- `DurableWithoutWriteFailures`: if no write fails, `AckedIsDurable` holds without exception.

The first three follow from `IInv`, which is inductive. `AckedSurvives` alone is not: whether
an append may return depends on a counter, `durable`, so the invariant has to say what the
counters mean. `Counters` orders durable, written, the buffer and last_seq; `Present` says an
encoded record is in the file or in the buffer, or behind a record that a failed write
dropped; `Covered` says that what the file holds up to `durable`, and up to the target of a
flush about to be published, is on the device; `Losses` that a dropped record is in front of
everything still in the buffer; `Kept` that a broken promise stays broken for good; `Room`
carries the model's bound on numbers.

The kinds of steps the log takes come first: a thread moves
(`ThreadMoves`), or moves in the loop of `sync_through` (`LoopMoves`), the buffer is written
out with any outcome (`Moved`, `WriteMoves`), the device is flushed (`FlushMoves`); each kind
keeps the invariant. Then there is one lemma per action, most of which
only show of which kind the action is; encoding, publishing, a crash and recovery are argued
on their own. `OneFlushAtATime` and `PendingIsTheGap` are proved inductive relative to `IInv`.

### The manifest

`QueueManifestProofs` proves `ManifestIsWhole` (`LoadIsWhole`) and `ManifestKeepsCommitted`
(`CommittedSurvives`) for any set of snapshots, any number of failures and crashes, and any codec
that satisfies `CodecAssumption`. `LoadIsWhole` speaks of the file now under the name; a crash can
bring back an earlier one, so `ManifestInv` says of every file the name may stand for that it is
flushed and holds the whole of a snapshot committed or attempted, and for each step of a store
what it has already put on the device.

### The flush queue

`QueueManifestProofs` proves `QueueIsExact` (`PendingIsFrozen`) and `WaitsAreHonest`
(`WaitMeansFlushed`) for any number of callers, calls and failures. Neither is inductive.
`QueueInv` adds what a wait relies on: `pending` is never below the number of frozen memtables,
also in the window in which the flusher has published a table and not yet marked it and while a
log that could not be unlinked keeps `pending` up; so a wait that reads zero finds nothing frozen,
whoever wrote the zero. There is one lemma per group of actions; `Waking` isolates what a
notification may change, `CountsAlone` the steps that move threads and touch no count.

### The skip list

`SkipListProofs` proves `SearchesStayInside` (`WalksInside`) for any number of threads, levels,
nodes, links and calls, from the assumptions named in `SkipList` (an arena with room for the
head's tower; `NIL` is no index and `None` no entry). Where a search stands is decided by links
that other threads wrote, so `SkipInv` says what every link may hold: a link on a level leads
nowhere or to a published node that reaches that level (`LinksInside`), and no link belongs to two
towers (`OneOwner`), or writing one would change another level. Both rest on `Towers` (what was
not handed out is untouched) and `Apart` (a node taken and not yet published is one thread's own).
`Local` carries the pairs of an earlier walk, which an insert uses for its upper levels and keeps
when it walks again below a higher `top`. `LinkWritten` covers every store and compare-and-swap,
`WalkMoves` every step of a search. That a table the head does not fit in is never built is an
assumption; that the arena suffices (`ArenaSuffices`) is not used: a thread that panics is a case.

### The store

`StoreProofs` proves for any number of writers, keys, writes, failures, crashes and restarts, any
memtable size, trigger and fanout, from the assumptions named in `Store`:

- `StoreTypes`: the type invariant;
- `NumbersNeverReused`: `NumbersFresh`;
- `ManifestNamesFiles`: `ManifestFilesExist`;
- `LevelsStayInOrder`: `LevelsInOrder`;
- `PlanStaysCurrent`: `PlanIsCurrent`;
- `LogsUnlinkedLast`: the action property `LogsGoLast`.

The first five follow from `Structure`, which holds whatever fails and whatever a crash takes.
None of them is inductive alone. That the manifest names only files that exist, for one, depends
on which files a compaction may still unlink (`ToUnlink`), that on what it planned to read and
what became of the plan while flushes committed (`Plan`, `Written`), that on who holds the durable
lock and how manifest and memory differ meanwhile (`Commits`), and all of it on numbers that are
never handed out twice, across crashes too (`Fresh`). `Levels` and `ToWrite` say that the outputs
of a merge are in disjoint ranges and apart from what the level holds already; `Owners` who will
remove which log; `Numbered` and `Seqs` that sequence numbers are unique and how old what a
snapshot stands for is. `Finite` (there are finitely many files) is a separate conjunct, since
recovery takes the largest number in use, which exists for that reason only.

`LogsGoLast` needs `Backed` on top: a memtable answers for every record of its logs (`Caches`), a
merge leaves out only what has a newer version or what nothing deeper needs (`MergeComplete`), and
what a flush is about to unlink is in a table the manifest names, or below a tombstone that
reached one (`Settles`), which has to survive the compactions that run between the flush's commit
and its unlinks.

There is one lemma per action and invariant. `StoreWrites` starts with the frames: what a step
that leaves some variables alone cannot disturb. `StoreMerges` has what planning and merging
compute: which files overlap, that the newest versions of a set of records are one per key and
complete, and that cutting a sorted run into files keeps the ranges apart.

In the modules that say `USE Zenon` a leaf that names no prover is Zenon's; arithmetic cites `SMT`.

### Only model-checked

- All liveness: fairness and ENABLED are outside the prover's reach.
- `ReadsNewest`, `AckedReadable` and the refinement of `KeyValue`. They need an invariant on top
  of `Structure` and `Backed` that relates what is on disk after any crash to the history of
  writes; it is not proved.
- `MemoryIsReplayUnlessFailed`, the other invariants of `SkipList` and its refinement, and
  everything about `Server`.
- The formats other than the manifest: what their recursive definitions compute for every input
  would need induction over data.

## Not modelled

- The engine's and the tables' statistics and the text of INFO: figures for people.
- Argument parsing in `main.rs`; benches and examples.
- Memory orderings weaker than sequential consistency in the skip list (its loom tests).
- A device flush that succeeds covers everything written before it, also after one that failed;
  a file that was created stays, without a flush of its directory; a crash leaves a prefix of a
  log header that was not flushed, never zeros of its length.
- The log inside `Store` is used by what it promises when no write fails; the failed write is in `Wal`.
- `fanout` 0, which makes every budget 0 and compaction always due.
- Writers that never pause while another thread waits for a flush: the number of calls is bounded.
