--------------------------- MODULE StoreInvariant ---------------------------
(***************************************************************************)
(* The inductive invariant of Store.                                       *)
(***************************************************************************)
EXTENDS Store, TLAPS

----------------------------------------------------------------------------
(* Sets of records and of files *)

OnePerKey(R) == \A r, s \in R : r.key = s.key => r = s
OneSeq(R) == \A r, s \in R : r.seq = s.seq => r = s

\* Every key of one set is smaller than every key of the other.
LeftOf(R, S) == \A r \in R, s \in S : r.key < s.key
Disjoint(R, S) == LeftOf(R, S) \/ LeftOf(S, R)

\* No key has an older version in the first set than in the second.
Newer(R, S) == \A r \in R, s \in S : r.key = s.key => r.seq >= s.seq

Content(files) == UNION {tables[f.number] : f \in files}

\* A version of the record's key at least as new is in the set.
CoveredBy(R, r) == \E s \in R : s.key = r.key /\ s.seq >= r.seq

\* Writes between their two halves.
Pending == {writer[w].record : w \in {v \in Writers : writer[v].at = "insert"}}

FrozenRecords == UNION {frozen[i].memtable : i \in DOMAIN frozen}
UnlinkedRecords == UNION {unlinked[i].records : i \in DOMAIN unlinked}
LogRecords(numbers) == UNION {logs[n] : n \in numbers}
TableRecords == UNION {tables[n] : n \in DOMAIN tables}

----------------------------------------------------------------------------
(* Types *)

DiskTypes ==
  /\ DOMAIN logs \subseteq Nat
  /\ \A n \in DOMAIN logs : logs[n] \subseteq Records
  /\ DOMAIN tables \subseteq Nat
  /\ \A n \in DOMAIN tables :
       tables[n] \subseteq Records /\ tables[n] # {} /\ OnePerKey(tables[n])
  /\ unsafe \subseteq Records
  /\ unlinked \in Seq([number : Nat, records : SUBSET Records])
  /\ partials \subseteq Nat
  /\ manifest \in Snapshot \cup {None}

\* There are finitely many files.
Finite == IsFiniteSet(DOMAIN logs) /\ IsFiniteSet(DOMAIN tables)

MemoryTypes ==
  /\ policy \in Policies /\ phase \in {"down", "opening", "up", "refused"}
  /\ snapshot \in Snapshot
  /\ durable \in {None, "flusher", "compactor"}
  /\ next_number \in Nat /\ last_seq \in 0 .. MaxSeq
  /\ active \subseteq Records /\ OnePerKey(active)
  /\ active_logs \in Seq(Nat)
  /\ frozen \in Seq([memtable : SUBSET Records, logs : Seq(Nat)])
  /\ \A i \in DOMAIN frozen :
       frozen[i].memtable # {} /\ OnePerKey(frozen[i].memtable)
  /\ l0 \in Seq(Nat) /\ below \subseteq File
  /\ DOMAIN writer = Writers
  /\ \A w \in Writers : writer[w].at = "insert" => writer[w].record \in Records
  /\ flusher.at = "commit" => flusher.seq \in 0 .. MaxSeq
  /\ compactor.at = "commit" => compactor.seq \in 0 .. MaxSeq
  /\ faults \in [restart : Nat, task : Nat, unlink : Nat, split : BOOLEAN]
  /\ {ever, shown, acked, settled} \subseteq SUBSET Records

\* A store that is not open has nothing in memory.
Quiet ==
  phase # "up" =>
    /\ durable = None /\ active = {} /\ active_logs = << >> /\ frozen = << >>
    /\ flusher.at = "idle" /\ compactor.at = "idle" /\ unsafe = {}
    /\ \A w \in Writers : writer[w].at = "idle"

----------------------------------------------------------------------------
(* Numbers *)

Fresh ==
  /\ phase \in {"opening", "up"} =>
       \A n \in DOMAIN logs \cup DOMAIN tables : n < next_number
  /\ phase = "up" => \A n \in partials : n < next_number
  /\ phase = "opening" => snapshot = Loaded /\ partials = {}
  /\ phase = "up" /\ manifest = None => snapshot.files = {}

\* Unlinked logs have numbers of their own, which numbering has passed even when
\* it starts again from the files listed.
UnlinkedApart ==
  /\ \A i \in DOMAIN unlinked : unlinked[i].number \notin DOMAIN logs
  /\ \A i, j \in DOMAIN unlinked : unlinked[i].number = unlinked[j].number => i = j
  /\ unlinked # << >> =>
       /\ manifest # None
       /\ \E m \in DOMAIN logs : \A i \in DOMAIN unlinked : unlinked[i].number < m

\* A list of log files, oldest first.
LogList(s) ==
  /\ s \in Seq(Nat) /\ s # << >>
  /\ Range(s) \subseteq DOMAIN logs
  /\ \A i, j \in DOMAIN s : i < j => s[i] < s[j]

AllBefore(s, t) == \A m \in Range(s), n \in Range(t) : m < n

\* Who will remove which log: the flush that is at it, then the frozen
\* memtables, oldest last, then the active one.
Owners ==
  phase = "up" =>
    /\ LogList(active_logs)
    /\ \A i \in DOMAIN frozen :
         LogList(frozen[i].logs) /\ AllBefore(frozen[i].logs, active_logs)
    /\ \A i, j \in DOMAIN frozen :
         i < j => AllBefore(frozen[j].logs, frozen[i].logs)
    /\ flusher.at = "unlink" =>
         /\ LogList(flusher.logs) /\ AllBefore(flusher.logs, active_logs)
         /\ \A i \in DOMAIN frozen : AllBefore(flusher.logs, frozen[i].logs)

----------------------------------------------------------------------------
(* Sequence numbers *)

Everywhere ==
  LogRecords(DOMAIN logs) \cup TableRecords \cup UnlinkedRecords
    \cup active \cup FrozenRecords \cup Pending

UpTo(R, seq) == \A r \in R : r.seq <= seq

\* No two records have the same number, and the next one is larger.
Numbered ==
  /\ OneSeq(Everywhere)
  /\ phase = "up" => UpTo(Everywhere, last_seq)

\* A snapshot has the last number of what it lists, and of the logs that are gone.
Dated(s) == UpTo(Content(s.files), s.last_seq) /\ UpTo(UnlinkedRecords, s.last_seq)

Ages ==
  /\ Dated(Loaded)
  /\ phase = "up" =>
       /\ Dated(snapshot)
       /\ snapshot.last_seq <= Loaded.last_seq /\ Loaded.last_seq <= last_seq
  /\ compactor.at = "commit" => compactor.seq <= last_seq

\* What a flush commits is as new as the logs it removes.
FlushAges ==
  /\ flusher.at = "commit" =>
       /\ flusher.seq <= last_seq
       /\ UpTo(flusher.task.memtable, flusher.seq)
       /\ UpTo(LogRecords(Range(flusher.task.logs)), flusher.seq)
  /\ flusher.at = "publish" =>
       UpTo(LogRecords(Range(flusher.task.logs)), Loaded.last_seq)
  /\ flusher.at = "unlink" =>
       UpTo(LogRecords(Range(flusher.logs)), snapshot.last_seq)

Seqs == Ages /\ FlushAges

----------------------------------------------------------------------------
(* Files *)

\* The files of a manifest exist, have a number each, and do not overlap below
\* level 0.
Layout(files) ==
  /\ Numbers(files) \subseteq DOMAIN tables
  /\ \A f, g \in files : f.number = g.number => f = g
  /\ \A f, g \in files :
       f.level = g.level /\ f.level > 0 /\ f # g =>
         Disjoint(tables[f.number], tables[g.number])

Levels ==
  /\ Layout(Loaded.files)
  /\ phase = "up" =>
       /\ Layout(snapshot.files)
       /\ Range(l0) = Numbers(AtLevel(snapshot.files, 0))
       /\ below = {f \in snapshot.files : f.level > 0}
       /\ \A i, j \in DOMAIN l0 : i < j => l0[i] > l0[j]

\* Between its commit and its publication, a change holds the durable lock and
\* the manifest is the snapshot with that change.
Commits ==
  /\ durable = "flusher" <=> flusher.at = "publish"
  /\ durable = "compactor" <=> compactor.at = "publish"
  /\ flusher.at = "publish" =>
       manifest # None /\ manifest.files = snapshot.files \cup {FlushedFile}
  /\ compactor.at = "publish" =>
       /\ manifest # None
       /\ manifest.files =
            {f \in snapshot.files : f.number \notin compactor.removed}
              \cup compactor.added

\* A flush works on the oldest frozen memtable, and on a file of its own.
Flush ==
  /\ flusher.at \in {"idle", "write", "commit", "publish", "unlink"}
  /\ flusher.at \in {"write", "commit", "publish"} =>
       /\ flusher.number \in Nat /\ flusher.number < next_number
       /\ frozen # << >> /\ flusher.task = frozen[Len(frozen)]
       /\ \A n \in Range(l0) : n < flusher.number
  /\ flusher.at = "write" => flusher.number \notin DOMAIN tables
  /\ flusher.at \in {"commit", "publish"} =>
       /\ flusher.number \in DOMAIN tables
       /\ tables[flusher.number] = flusher.task.memtable
       /\ flusher.number \notin Numbers(snapshot.files)

\* The files a compaction reads.
Inputs ==
  IF compactor.at = "find" THEN compactor.inputs
  ELSE {f \in snapshot.files : f.number \in compactor.removed}

\* What a compaction writes.
Outputs ==
  Content(compactor.added) \cup
    (IF compactor.at = "write" THEN UNION Range(compactor.todo) ELSE {})

Compacting == compactor.at \in {"find", "write", "commit", "publish"}
Merging == compactor.at \in {"write", "commit", "publish"}

\* The inputs are of two levels, a file of the lower one that is not among them
\* is apart from all of them, and one of level 0 is newer.
Plan ==
  /\ compactor.level \in Nat \ {0}
  /\ Inputs \subseteq snapshot.files
  /\ \A f \in Inputs : f.level \in {compactor.level - 1, compactor.level}
  /\ \A g \in snapshot.files \ Inputs :
       g.level = compactor.level => Disjoint(tables[g.number], Content(Inputs))
  /\ \A g \in snapshot.files \ Inputs, f \in Inputs :
       g.level = 0 /\ f.level = 0 => f.number < g.number

\* Files below level 0 were there when the plan was made.
Planned ==
  compactor.at = "find" =>
    /\ compactor.planned \subseteq File
    /\ \A f \in snapshot.files : f.level > 0 => f \in compactor.planned

\* Output files are new, apart from each other, and hold what inputs held.
Written ==
  Merging =>
    /\ compactor.removed \subseteq Numbers(snapshot.files)
    /\ compactor.added \subseteq File
    /\ \A f \in compactor.added :
         /\ f.level = compactor.level /\ f.number \in DOMAIN tables
         /\ f.number \notin Numbers(snapshot.files)
         /\ flusher.at \in {"commit", "publish"} => f.number # flusher.number
    /\ \A f, g \in compactor.added :
         f # g => /\ f.number # g.number
                  /\ Disjoint(tables[f.number], tables[g.number])
    /\ Outputs \subseteq Content(Inputs)

ToWrite ==
  compactor.at = "write" =>
    /\ compactor.todo \in Seq(SUBSET Records)
    /\ \A i \in DOMAIN compactor.todo :
         /\ compactor.todo[i] # {} /\ OnePerKey(compactor.todo[i])
         /\ \A f \in compactor.added :
              Disjoint(tables[f.number], compactor.todo[i])
    /\ \A i, j \in DOMAIN compactor.todo :
         i # j => Disjoint(compactor.todo[i], compactor.todo[j])

\* Files are unlinked when nothing names them any more.
ToUnlink ==
  compactor.at = "unlink" =>
    /\ compactor.removed \subseteq DOMAIN tables
    /\ compactor.removed \cap Numbers(snapshot.files) = {}
    /\ compactor.removed \cap Numbers(Loaded.files) = {}
    /\ flusher.at \in {"commit", "publish"} =>
         flusher.number \notin compactor.removed

Compaction ==
  /\ compactor.at \in {"idle", "find", "write", "commit", "publish", "unlink"}
  /\ Compacting => Plan
  /\ Planned /\ Written /\ ToWrite /\ ToUnlink

\* All of this holds whatever fails, and whatever a crash takes.
Structure ==
  /\ DiskTypes /\ MemoryTypes /\ Quiet /\ Fresh /\ Owners
  /\ Numbered /\ Seqs /\ Levels /\ Commits /\ Flush /\ Compaction

----------------------------------------------------------------------------
(* What a table in memory stands for on disk *)

\* A memtable answers for every record of its logs.
Caches ==
  /\ \A i \in DOMAIN frozen : \A r \in LogRecords(Range(frozen[i].logs)) :
       CoveredBy(frozen[i].memtable, r)
  /\ \A r \in LogRecords(Range(active_logs)) \ Pending : CoveredBy(active, r)

\* A record has a version at least as new in these files, or a tombstone at least
\* as new that reached a table.
Stored(files, r) ==
  \/ CoveredBy(Content(files), r)
  \/ \E t \in settled : t.deleted /\ t.key = r.key /\ t.seq >= r.seq

\* What a merge leaves out has a newer version among its inputs, and is not a
\* tombstone that a deeper file still needs.
MergeComplete ==
  Merging =>
    \A s \in Content(Inputs) : \E d \in Content(Inputs) :
      /\ d.key = s.key /\ d.seq >= s.seq
      /\ \/ d \in Outputs
         \/ /\ d.deleted
            /\ \A f \in snapshot.files : f.level > compactor.level =>
                 \A u \in tables[f.number] : u.key # s.key

\* Logs go only once the manifest makes up for them.
Settles ==
  /\ Content(Loaded.files) \subseteq settled
  /\ phase = "up" => Content(snapshot.files) \subseteq settled
  /\ flusher.at = "unlink" =>
       \A r \in LogRecords(Range(flusher.logs)) :
         Stored(snapshot.files, r) /\ Stored(Loaded.files, r)

Backed == Caches /\ MergeComplete /\ Settles
=============================================================================
