-------------------------- MODULE StoreBackground ---------------------------
(***************************************************************************)
(* The flusher and the compactor of Store keep its invariant: the steps    *)
(* that write, commit, publish and unlink files.                           *)
(***************************************************************************)
EXTENDS StoreWrites

USE Zenon

----------------------------------------------------------------------------
(* Tables that come and go *)

\* A compaction goes on while other threads add files to level 0 (compact_once).
LEMMA CompactionMoves ==
  ASSUME Structure, UNCHANGED <<snapshot, compactor>>,
         compactor.at # "idle" =>
           /\ Numbers(snapshot.files) \subseteq DOMAIN tables'
           /\ \A n \in Numbers(snapshot.files) : tables'[n] = tables[n],
         Merging =>
           /\ Numbers(compactor.added) \subseteq DOMAIN tables'
           /\ \A n \in Numbers(compactor.added) : tables'[n] = tables[n],
         compactor.at = "unlink" =>
           /\ compactor.removed \subseteq DOMAIN tables'
           /\ compactor.removed \cap Numbers(Loaded.files)' = {},
         flusher'.at \in {"commit", "publish"} =>
           /\ Merging => \A f \in compactor.added : f.number # flusher'.number
           /\ compactor.at = "unlink" => flusher'.number \notin compactor.removed
  PROVE  Compaction'
<1>1. Compaction
  BY DEF Structure
<1>2. (Compacting <=> Compacting') /\ (Merging <=> Merging')
  BY DEF Compacting, Merging
<1>3. PICK I : I = Inputs
  OBVIOUS
<1>4. Inputs' = Inputs
  BY DEF Inputs
<1>5. Compacting => /\ I \subseteq snapshot.files /\ compactor.at # "idle"
                    /\ Content(I)' = Content(I)
                    /\ \A g \in snapshot.files : tables'[g.number] = tables[g.number]
  <2>1. SUFFICES ASSUME Compacting
                 PROVE  /\ I \subseteq snapshot.files /\ compactor.at # "idle"
                        /\ Content(I)' = Content(I)
                        /\ \A g \in snapshot.files : tables'[g.number] = tables[g.number]
    OBVIOUS
  <2>2. I \subseteq snapshot.files /\ compactor.at # "idle"
    BY <1>1, <1>3, <2>1 DEF Compaction, Plan, Compacting
  <2>3. Numbers(I) \subseteq Numbers(snapshot.files)
    BY <2>2 DEF Numbers
  <2>4. Numbers(I) \subseteq DOMAIN tables' /\ \A n \in Numbers(I) : tables'[n] = tables[n]
    BY <2>2, <2>3
  <2>5. Content(I)' = Content(I)
    BY <2>4, TablesAgree
  <2> QED
    BY <2>2, <2>5 DEF Numbers
<1>6. Content(Inputs)' = Content(I)'
  BY <1>3, <1>4
<1>7. (Compacting => Plan)'
  <2>1. SUFFICES ASSUME Compacting
                 PROVE  Plan'
    BY <1>2
  <2>2. Plan
    BY <1>1, <2>1 DEF Compaction
  <2>3. Content(Inputs)' = Content(Inputs)
    BY <1>3, <1>5, <1>6, <2>1
  <2>4. \A g \in snapshot.files : tables'[g.number] = tables[g.number]
    BY <1>5, <2>1
  <2> QED
    BY <1>4, <2>2, <2>3, <2>4 DEF Plan
<1>8. Planned'
  BY <1>1 DEF Compaction, Planned
<1>9. Written' /\ ToWrite'
  <2>1. CASE ~Merging
    <3>1. ~Merging' /\ compactor'.at # "write"
      BY <1>2, <2>1 DEF Merging
    <3> QED
      BY <3>1 DEF Written, ToWrite
  <2>2. CASE Merging
    <3>1. Written /\ ToWrite /\ Compacting
      BY <1>1, <2>2 DEF Compaction, Compacting, Merging
    <3>2. PICK A : A = compactor.added
      OBVIOUS
    <3>3. Content(A)' = Content(A) /\ \A f \in A : tables'[f.number] = tables[f.number]
      BY <2>2, <3>2, TablesAgree
    <3>4. Content(compactor.added)' = Content(A)'
      BY <3>2
    <3>5. Outputs' = Outputs
      BY <3>2, <3>3, <3>4 DEF Outputs
    <3>6. Outputs' \subseteq Content(Inputs)'
      BY <1>3, <1>5, <1>6, <2>2, <3>1, <3>5 DEF Written
    <3>7. \A f \in compactor.added : f.number \in DOMAIN tables'
      BY <2>2 DEF Numbers
    <3>8. Written'
      BY <2>2, <3>1, <3>2, <3>3, <3>6, <3>7 DEF Written
    <3>9. ToWrite'
      BY <3>1, <3>2, <3>3 DEF ToWrite
    <3> QED
      BY <3>8, <3>9
  <2> QED
    BY <2>1, <2>2
<1>10. ToUnlink'
  BY <1>1 DEF Compaction, ToUnlink
<1> QED
  BY <1>1, <1>7, <1>8, <1>9, <1>10 DEF Compaction

\* A compaction goes on while other threads leave the snapshot alone (compact_once).
LEMMA CompactionKept ==
  ASSUME Structure, UNCHANGED <<manifest, snapshot, compactor>>,
         compactor.at # "idle" =>
           /\ Numbers(snapshot.files) \subseteq DOMAIN tables'
           /\ \A n \in Numbers(snapshot.files) : tables'[n] = tables[n],
         Merging =>
           /\ Numbers(compactor.added) \subseteq DOMAIN tables'
           /\ \A n \in Numbers(compactor.added) : tables'[n] = tables[n],
         compactor.at = "unlink" => compactor.removed \subseteq DOMAIN tables',
         flusher'.at \in {"commit", "publish"} =>
           /\ Merging => \A f \in compactor.added : f.number # flusher'.number
           /\ compactor.at = "unlink" => flusher'.number \notin compactor.removed
  PROVE  Compaction'
<1>1. compactor.at = "unlink" => compactor.removed \cap Numbers(Loaded.files)' = {}
  BY DEF Structure, Compaction, ToUnlink, Loaded
<1> QED
  BY <1>1, CompactionMoves

----------------------------------------------------------------------------
(* The flusher *)

\* Structure is kept by the start of a flush (flush_oldest).
LEMMA FlushStartsKeeps ==
  ASSUME Structure, FlushStarts
  PROVE  Structure'
<1>1. /\ phase = "up" /\ flusher.at = "idle" /\ frozen # << >>
      /\ DiskTypes /\ MemoryTypes /\ next_number \in Nat
  BY DEF FlushStarts, Structure, MemoryTypes
<1>2. UNCHANGED <<policy, unlinked, phase, logs, unsafe, tables, manifest,
                  snapshot, durable, last_seq, active, active_logs, frozen, l0,
                  below, writer, compactor, faults, ever, shown, acked, settled>>
  BY DEF FlushStarts, memory, history
<1>3. /\ flusher' = [at |-> "write", number |-> next_number, task |-> frozen[Len(frozen)]]
      /\ next_number' = next_number + 1 /\ partials' = partials \cup {next_number}
  BY DEF FlushStarts
<1>4. /\ flusher'.at = "write" /\ flusher'.number = next_number
      /\ flusher'.task = frozen[Len(frozen)]
  BY <1>3
<1>5. DiskTypes' /\ MemoryTypes' /\ Quiet'
  <2>1. DiskTypes'
    BY <1>1, <1>2, <1>3 DEF DiskTypes
  <2>2. MemoryTypes'
    BY <1>1, <1>2, <1>3, <1>4, SMT DEF MemoryTypes
  <2>3. Quiet'
    BY <1>1, <1>2 DEF Quiet
  <2> QED
    BY <2>1, <2>2, <2>3
<1>6. Fresh'
  BY <1>1, <1>2, <1>3, SMT DEF Structure, Fresh, Loaded, DiskTypes
<1>7. Owners'
  BY <1>2, <1>4 DEF Structure, Owners, LogList
<1>8. Numbered'
  <2>1. Everywhere' = Everywhere
    BY <1>2, SMT DEF Everywhere, LogRecords, TableRecords, UnlinkedRecords,
                FrozenRecords, Pending
  <2> QED
    BY <1>2, <2>1, NumberedKept
<1>9. Seqs'
  <2>1. UnlinkedRecords' = UnlinkedRecords
    BY <1>2 DEF UnlinkedRecords
  <2>2. compactor.at = "commit" => compactor.seq <= last_seq
    BY DEF Structure, Seqs, Ages
  <2>3. Ages'
    BY <1>1, <1>2, <2>1, <2>2, AgesKept, NamedFiles
  <2>4. FlushAges'
    BY <1>4 DEF FlushAges
  <2> QED
    BY <2>3, <2>4 DEF Seqs
<1>10. Levels'
  BY <1>2, LevelsKept, NamedFiles
<1>11. Commits'
  BY <1>1, <1>2, <1>4 DEF Structure, Commits
<1>12. Flush'
  <2>1. \A n \in Range(l0) : n < next_number
    BY <1>1, NamedFiles
  <2> QED
    BY <1>1, <1>2, <1>3, <1>4, <2>1, NamedFiles, SMT DEF Flush
<1>13. Compaction'
  <2>1. Merging => Numbers(compactor.added) \subseteq DOMAIN tables
    BY DEF Structure, Compaction, Written, Numbers
  <2>2. compactor.at = "unlink" => compactor.removed \subseteq DOMAIN tables
    BY DEF Structure, Compaction, ToUnlink
  <2> QED
    BY <1>1, <1>2, <1>4, <2>1, <2>2, CompactionKept, NamedFiles
<1> QED
  BY <1>5, <1>6, <1>7, <1>8, <1>9, <1>10, <1>11, <1>12, <1>13 DEF Structure

\* Structure is kept by renaming the finished table (TableWriter::finish).
LEMMA FlushRenamesKeeps ==
  ASSUME Structure, FlushRenames
  PROVE  Structure'
<1>1. /\ phase = "up" /\ flusher.at = "write" /\ DiskTypes /\ MemoryTypes
      /\ Flush /\ Compaction
  BY DEF FlushRenames, Structure
<1>2. UNCHANGED <<policy, phase, logs, unsafe, manifest, snapshot, durable,
                  next_number, last_seq, active, active_logs, frozen, l0, below,
                  writer, compactor, faults, ever, shown, acked, settled>>
  BY DEF FlushRenames, numbering, memory, history
<1>3. /\ tables' = With(tables, flusher.number, flusher.task.memtable)
      /\ partials' = partials \ {flusher.number} /\ unlinked' = << >>
      /\ flusher' = [at |-> "commit", number |-> flusher.number,
                     task |-> flusher.task, seq |-> last_seq]
  BY DEF FlushRenames
<1>4. /\ flusher'.at = "commit" /\ flusher'.number = flusher.number
      /\ flusher'.task = flusher.task /\ flusher'.seq = last_seq
  BY <1>3
<1>5. /\ flusher.number \in Nat /\ flusher.number < next_number /\ frozen # << >>
      /\ flusher.task = frozen[Len(frozen)] /\ \A n \in Range(l0) : n < flusher.number
      /\ flusher.number \notin DOMAIN tables
  BY <1>1 DEF Flush
<1>6. /\ flusher.task.memtable \subseteq Records /\ flusher.task.memtable # {}
      /\ OnePerKey(flusher.task.memtable) /\ flusher.task.memtable \subseteq FrozenRecords
  <2>1. Len(frozen) \in DOMAIN frozen
    BY <1>1, CurrentLogApart
  <2> QED
    BY <1>1, <1>5, <2>1, ListTypes DEF MemoryTypes, FrozenRecords
<1>7. /\ DOMAIN tables' = DOMAIN tables \cup {flusher.number}
      /\ tables'[flusher.number] = flusher.task.memtable
      /\ \A m \in DOMAIN tables : tables'[m] = tables[m]
      /\ DOMAIN tables' \subseteq Nat
      /\ \A m \in DOMAIN tables' :
           tables'[m] \subseteq Records /\ tables'[m] # {} /\ OnePerKey(tables'[m])
      /\ TableRecords' = TableRecords \cup flusher.task.memtable
  BY <1>1, <1>3, <1>5, <1>6, NewTable
<1>8. DOMAIN unlinked' = {} /\ unlinked' \in Seq([number : Nat, records : SUBSET Records])
  BY <1>3, SMT
<1>9. DiskTypes' /\ MemoryTypes' /\ Quiet'
  <2>1. DiskTypes'
    BY <1>1, <1>2, <1>3, <1>7, <1>8 DEF DiskTypes
  <2>2. MemoryTypes'
    BY <1>1, <1>2, <1>4 DEF MemoryTypes
  <2>3. Quiet'
    BY <1>1, <1>2 DEF Quiet
  <2> QED
    BY <2>1, <2>2, <2>3
<1>10. Fresh'
  BY <1>1, <1>2, <1>3, <1>5, <1>7 DEF Structure, Fresh, Loaded
<1>11. Owners'
  BY <1>2, <1>4 DEF Structure, Owners, LogList
<1>12. Numbered'
  <2>1. UnlinkedRecords' = {}
    BY <1>8 DEF UnlinkedRecords
  <2>2. /\ LogRecords(DOMAIN logs)' = LogRecords(DOMAIN logs)
        /\ FrozenRecords' = FrozenRecords /\ Pending' = Pending
    BY <1>2 DEF LogRecords, FrozenRecords, Pending
  <2>3. Everywhere' \subseteq Everywhere
    BY <1>2, <1>6, <1>7, <2>1, <2>2, SMT DEF Everywhere
  <2> QED
    BY <1>2, <2>3, NumberedKept
<1>13. Seqs'
  <2>1. UnlinkedRecords' = {}
    BY <1>8 DEF UnlinkedRecords
  <2>2. compactor.at = "commit" => compactor.seq <= last_seq
    BY DEF Structure, Seqs, Ages
  <2>3. Ages'
    BY <1>1, <1>2, <1>7, <2>1, <2>2, AgesKept, NamedFiles
  <2>4. UpTo(Everywhere, last_seq)
    BY <1>1 DEF Structure, Numbered
  <2>5. UpTo(flusher.task.memtable, last_seq)
    BY <1>6, <2>4 DEF UpTo, Everywhere
  <2>6. LogRecords(Range(flusher.task.logs)) \subseteq LogRecords(DOMAIN logs)
    BY <1>1, CurrentLogApart DEF LogList, LogRecords
  <2>7. UpTo(LogRecords(Range(flusher.task.logs)), last_seq)
    BY <2>4, <2>6 DEF UpTo, Everywhere
  <2>8. LogRecords(Range(flusher.task.logs))' = LogRecords(Range(flusher.task.logs))
    BY <1>2, <1>4 DEF LogRecords
  <2>9. last_seq \in Nat
    BY <1>1, LoadedType, SMT DEF MemoryTypes
  <2>10. FlushAges'
    BY <1>2, <1>4, <2>5, <2>7, <2>8, <2>9, SMT DEF FlushAges
  <2> QED
    BY <2>3, <2>10 DEF Seqs
<1>14. Levels'
  BY <1>2, <1>7, LevelsKept, NamedFiles
<1>15. Commits'
  BY <1>1, <1>2, <1>4 DEF Structure, Commits
<1>16. Flush'
  <2>1. flusher.number \notin Numbers(snapshot.files)
    BY <1>1, <1>5, NamedFiles
  <2> QED
    BY <1>2, <1>4, <1>5, <1>7, <2>1 DEF Flush
<1>17. Compaction'
  <2>1. Merging => Numbers(compactor.added) \subseteq DOMAIN tables
    BY <1>1 DEF Compaction, Written, Numbers
  <2>2. compactor.at = "unlink" => compactor.removed \subseteq DOMAIN tables
    BY <1>1 DEF Compaction, ToUnlink
  <2>3. Merging => \A f \in compactor.added : f.number # flusher.number
    BY <1>5, <2>1 DEF Numbers
  <2> QED
    BY <1>1, <1>2, <1>4, <1>5, <1>7, <2>1, <2>2, <2>3, CompactionKept, NamedFiles
<1> QED
  BY <1>9, <1>10, <1>11, <1>12, <1>13, <1>14, <1>15, <1>16, <1>17 DEF Structure

----------------------------------------------------------------------------
(* commit *)

\* The files after a flush.
LEMMA FlushedLayout ==
  ASSUME Structure, flusher.at = "commit"
  PROVE  /\ phase = "up" /\ {FlushedFile} \subseteq File
         /\ flusher.seq \in 0 .. MaxSeq /\ flusher.seq <= last_seq
         /\ flusher.number \in Nat /\ flusher.number \notin Numbers(snapshot.files)
         /\ FlushedFile.number = flusher.number /\ FlushedFile.level = 0
         /\ LET s == Committed({FlushedFile}, {}, flusher.seq)
            IN  /\ s.files = snapshot.files \cup {FlushedFile}
                /\ Layout(s.files)
                /\ \A r \in Content({FlushedFile}) : r.seq <= s.last_seq
                /\ compactor.at = "unlink" => compactor.removed \cap Numbers(s.files) = {}
<1>1. phase = "up"
  BY AtWork
<1>2. /\ flusher.number \in Nat /\ flusher.number \in DOMAIN tables
      /\ tables[flusher.number] = flusher.task.memtable
      /\ flusher.number \notin Numbers(snapshot.files)
  BY DEF Structure, Flush
<1>3. FlushedFile.number = flusher.number /\ FlushedFile.level = 0 /\ FlushedFile \in File
  BY <1>2 DEF FlushedFile, File
<1>4. flusher.seq \in 0 .. MaxSeq /\ flusher.seq <= last_seq
  BY DEF Structure, MemoryTypes, Seqs, FlushAges
<1>5. PICK s : s = Committed({FlushedFile}, {}, flusher.seq)
  OBVIOUS
<1>6. /\ s.files = {f \in snapshot.files : f.number \notin {}} \cup {FlushedFile}
      /\ s.last_seq \in Nat /\ flusher.seq <= s.last_seq
  BY <1>1, <1>3, <1>4, <1>5, CommittedIs, SMT
<1>7. s.files = snapshot.files \cup {FlushedFile}
  BY <1>6
<1>8. Layout(s.files)
  BY <1>1, <1>2, <1>3, <1>7, SMT DEF Structure, Levels, Layout, Numbers
<1>9. ASSUME NEW r \in Content({FlushedFile})
      PROVE  r.seq <= s.last_seq
  <2>1. r \in flusher.task.memtable
    BY <1>2, <1>3, <1>9 DEF Content
  <2>2. r.seq <= flusher.seq
    BY <2>1 DEF Structure, Seqs, FlushAges, UpTo
  <2>3. r.seq \in Nat /\ flusher.seq \in Nat
    <3>1. r \in Records
      BY <1>2, <2>1 DEF Structure, DiskTypes
    <3> QED
      BY <1>4, <3>1, LoadedType, SMT DEF Records
  <2> QED
    BY <1>6, <2>2, <2>3, SMT
<1>10. compactor.at = "unlink" => compactor.removed \cap Numbers(s.files) = {}
  BY <1>3, <1>7 DEF Structure, Compaction, ToUnlink, Numbers
<1> QED
  BY <1>1, <1>2, <1>3, <1>4, <1>5, <1>7, <1>8, <1>9, <1>10

\* Structure is kept by the commit of a flush (commit).
LEMMA FlushCommitsKeeps ==
  ASSUME Structure, FlushCommits
  PROVE  Structure'
<1>1. /\ phase = "up" /\ flusher.at = "commit" /\ durable = None
      /\ DiskTypes /\ MemoryTypes
  BY DEF FlushCommits, ManifestStore, Structure
<1>2. UNCHANGED <<policy, phase, logs, unsafe, tables, partials, snapshot,
                  next_number, last_seq, active, active_logs, frozen, l0, below,
                  writer, compactor, faults, ever, shown, acked>>
  BY DEF FlushCommits, numbering, memory
<1>3. /\ manifest' = Committed({FlushedFile}, {}, flusher.seq)
      /\ durable' = "flusher" /\ unlinked' = << >>
      /\ flusher' = [at |-> "publish", number |-> flusher.number, task |-> flusher.task]
      /\ settled' = settled \cup tables[flusher.number]
  BY DEF FlushCommits, ManifestStore
<1>4. /\ flusher'.at = "publish" /\ flusher'.number = flusher.number
      /\ flusher'.task = flusher.task
  BY <1>3
<1>5. PICK s : s = Committed({FlushedFile}, {}, flusher.seq)
  OBVIOUS
<1>6. /\ {FlushedFile} \subseteq File
      /\ flusher.seq \in 0 .. MaxSeq /\ flusher.seq <= last_seq
      /\ flusher.number \in Nat /\ flusher.number \notin Numbers(snapshot.files)
      /\ s.files = snapshot.files \cup {FlushedFile} /\ Layout(s.files)
      /\ \A r \in Content({FlushedFile}) : r.seq <= s.last_seq
      /\ compactor.at = "unlink" => compactor.removed \cap Numbers(s.files) = {}
  BY <1>1, <1>5, FlushedLayout
<1>7. /\ DiskTypes' /\ Fresh' /\ Levels' /\ Numbered' /\ Ages'
      /\ Loaded' = s /\ manifest' # None
  BY <1>1, <1>2, <1>3, <1>5, <1>6, StoreKeeps
<1>8. Flush
  BY DEF Structure
<1>9. MemoryTypes' /\ Quiet'
  <2>1. settled' \subseteq Records
    BY <1>1, <1>3, <1>8 DEF MemoryTypes, DiskTypes, Flush
  <2>2. MemoryTypes'
    BY <1>1, <1>2, <1>3, <1>4, <2>1 DEF MemoryTypes
  <2>3. Quiet'
    BY <1>1, <1>2 DEF Quiet
  <2> QED
    BY <2>2, <2>3
<1>10. Owners'
  BY <1>2, <1>4 DEF Structure, Owners, LogList
<1>11. FlushAges'
  <2>1. UpTo(LogRecords(Range(flusher.task.logs)), flusher.seq)
    BY <1>1 DEF Structure, Seqs, FlushAges
  <2>2. LogRecords(Range(flusher.task.logs)) \subseteq Records
    <3>1. LogRecords(Range(flusher.task.logs)) \subseteq LogRecords(DOMAIN logs)
      BY <1>1, CurrentLogApart DEF LogList, LogRecords
    <3> QED
      BY <3>1, EverywhereType DEF Everywhere
  <2>3. s.last_seq \in Nat /\ flusher.seq <= s.last_seq /\ flusher.seq \in Nat
    BY <1>1, <1>5, <1>6, CommittedIs, LoadedType, SMT
  <2>4. UpTo(LogRecords(Range(flusher.task.logs)), s.last_seq)
    BY <2>1, <2>2, <2>3, LoadedType, SMT DEF UpTo, Records
  <2>5. LogRecords(Range(flusher.task.logs))' = LogRecords(Range(flusher.task.logs))
    BY <1>2, <1>4 DEF LogRecords
  <2> QED
    BY <1>4, <1>7, <2>4, <2>5 DEF FlushAges
<1>12. Commits'
  <2>1. FlushedFile' = FlushedFile
    BY <1>4 DEF FlushedFile
  <2>2. compactor.at # "publish"
    BY <1>1, NoneAssumption DEF Structure, Commits
  <2> QED
    BY <1>2, <1>3, <1>4, <1>5, <1>6, <1>7, <2>1, <2>2 DEF Commits
<1>13. Flush'
  BY <1>1, <1>2, <1>4, <1>8 DEF Flush
<1>14. Compaction'
  <2>1. Merging => /\ Numbers(compactor.added) \subseteq DOMAIN tables
                   /\ \A f \in compactor.added : f.number # flusher.number
    BY <1>1 DEF Structure, Compaction, Written, Numbers
  <2>2. compactor.at = "unlink" => /\ compactor.removed \subseteq DOMAIN tables
                                   /\ flusher.number \notin compactor.removed
                                   /\ compactor.removed \cap Numbers(Loaded.files)' = {}
    BY <1>1, <1>6, <1>7 DEF Structure, Compaction, ToUnlink
  <2> QED
    BY <1>1, <1>2, <1>4, <2>1, <2>2, CompactionMoves, NamedFiles
<1> QED
  BY <1>7, <1>9, <1>10, <1>11, <1>12, <1>13, <1>14 DEF Structure, Seqs

\* Structure is kept by a flush that fails, at its commit too (flush_oldest).
LEMMA FlushFailsKeeps ==
  ASSUME Structure, FlushFails
  PROVE  Structure'
<1>1. phase = "up" /\ DiskTypes /\ MemoryTypes /\ flusher.at \in {"write", "commit"}
  BY DEF FlushFails, Structure
<1>2. UNCHANGED <<policy, unlinked, phase, logs, unsafe, tables, partials, snapshot,
                  durable, next_number, last_seq, active, active_logs, frozen, l0,
                  below, writer, compactor, ever, shown, acked>>
  BY DEF FlushFails, numbering, memory
<1>3. flusher'.at = "idle"
  BY DEF FlushFails, Idle
<1>4. settled' \subseteq settled \cup TableRecords
  <2>1. flusher.at = "commit" => flusher.number \in DOMAIN tables
    BY DEF Structure, Flush
  <2> QED
    BY <2>1 DEF FlushFails, TableRecords
<1>5. MemoryTypes' /\ Quiet'
  <2>1. faults' \in [restart : Nat, task : Nat, unlink : Nat, split : BOOLEAN]
    <3>1. faults' = [faults EXCEPT !.task = @ + 1]
      BY DEF FlushFails
    <3>2. faults \in [restart : Nat, task : Nat, unlink : Nat, split : BOOLEAN]
      BY <1>1 DEF MemoryTypes
    <3> QED
      BY <3>1, <3>2, MoreFaults
  <2>2. settled' \subseteq Records
    BY <1>1, <1>4, EverywhereType DEF MemoryTypes, Everywhere
  <2>3. MemoryTypes'
    BY <1>1, <1>2, <1>3, <2>1, <2>2 DEF MemoryTypes
  <2>4. Quiet'
    BY <1>1, <1>2 DEF Quiet
  <2> QED
    BY <2>3, <2>4
<1>6. Owners' /\ FlushAges' /\ Flush'
  <2>1. Owners'
    BY <1>2, <1>3 DEF Structure, Owners, LogList
  <2>2. FlushAges' /\ Flush'
    BY <1>3 DEF FlushAges, Flush
  <2> QED
    BY <2>1, <2>2
<1>7. /\ compactor.at = "commit" => compactor.seq <= last_seq
      /\ Merging => Numbers(compactor.added) \subseteq DOMAIN tables
      /\ compactor.at = "unlink" => compactor.removed \subseteq DOMAIN tables
  BY DEF Structure, Seqs, Ages, Compaction, Written, Numbers, ToUnlink
<1>8. CASE manifest' = manifest
  <2>1. DiskTypes'
    BY <1>1, <1>2, <1>8 DEF DiskTypes
  <2>2. Fresh'
    BY <1>2, <1>8 DEF Structure, Fresh, Loaded
  <2>3. Numbered'
    <3>1. Everywhere' = Everywhere
      BY <1>2, SMT DEF Everywhere, LogRecords, TableRecords, UnlinkedRecords,
                  FrozenRecords, Pending
    <3> QED
      BY <1>2, <3>1, NumberedKept
  <2>4. Ages'
    <3>1. UnlinkedRecords' = UnlinkedRecords
      BY <1>2 DEF UnlinkedRecords
    <3> QED
      BY <1>1, <1>2, <1>7, <1>8, <3>1, AgesKept, NamedFiles
  <2>5. Levels'
    BY <1>2, <1>8, LevelsKept, NamedFiles
  <2>6. Commits'
    BY <1>1, <1>2, <1>3, <1>8 DEF Structure, Commits
  <2>7. Compaction'
    BY <1>1, <1>2, <1>3, <1>7, <1>8, CompactionKept, NamedFiles
  <2> QED
    BY <1>5, <1>6, <2>1, <2>2, <2>3, <2>4, <2>5, <2>6, <2>7 DEF Structure, Seqs
<1>9. CASE manifest' # manifest
  <2>1. flusher.at = "commit" /\ durable = None
    BY <1>9 DEF FlushFails
  <2>2. PICK s : s = Committed({FlushedFile}, {}, flusher.seq)
    OBVIOUS
  <2>3. manifest' = s
    BY <1>9, <2>2 DEF FlushFails
  <2>4. /\ {FlushedFile} \subseteq File
        /\ flusher.seq \in 0 .. MaxSeq /\ flusher.seq <= last_seq
        /\ Layout(s.files)
        /\ \A r \in Content({FlushedFile}) : r.seq <= s.last_seq
        /\ compactor.at = "unlink" => compactor.removed \cap Numbers(s.files) = {}
    BY <2>1, <2>2, FlushedLayout
  <2>5. DiskTypes' /\ Fresh' /\ Levels' /\ Numbered' /\ Ages' /\ Loaded' = s
    BY <1>1, <1>2, <2>2, <2>3, <2>4, StoreKeeps
  <2>6. Commits'
    BY <1>2, <1>3, <2>1, NoneAssumption DEF Structure, Commits
  <2>7. compactor.at = "unlink" => compactor.removed \cap Numbers(Loaded.files)' = {}
    BY <2>4, <2>5
  <2>8. Compaction'
    BY <1>1, <1>2, <1>3, <1>7, <2>7, CompactionMoves, NamedFiles
  <2> QED
    BY <1>5, <1>6, <2>5, <2>6, <2>8 DEF Structure, Seqs
<1> QED
  BY <1>8, <1>9

\* Structure is kept by the switch of a flush to its table in memory (commit).
LEMMA FlushPublishesKeeps ==
  ASSUME Structure, FlushPublishes
  PROVE  Structure'
<1>1. /\ phase = "up" /\ flusher.at = "publish" /\ DiskTypes /\ MemoryTypes
      /\ Owners /\ Flush /\ Levels /\ Commits
  BY DEF FlushPublishes, Structure
<1>2. UNCHANGED <<policy, phase, logs, unsafe, unlinked, tables, partials, manifest,
                  next_number, last_seq, active, active_logs, below, writer,
                  compactor, faults, ever, shown, acked, settled>>
  BY DEF FlushPublishes, disk, numbering, history
<1>3. /\ snapshot' = manifest /\ durable' = None
      /\ l0' = <<flusher.number>> \o l0
      /\ frozen' = SubSeq(frozen, 1, Len(frozen) - 1)
      /\ flusher' = [at |-> "unlink", logs |-> flusher.task.logs]
  BY DEF FlushPublishes, L0With
<1>4. flusher'.at = "unlink" /\ flusher'.logs = flusher.task.logs
  BY <1>3
<1>5. /\ flusher.number \in Nat /\ flusher.number < next_number
      /\ frozen # << >> /\ flusher.task = frozen[Len(frozen)]
      /\ \A n \in Range(l0) : n < flusher.number
      /\ flusher.number \in DOMAIN tables
      /\ flusher.number \notin Numbers(snapshot.files)
  BY <1>1 DEF Flush
<1>6. /\ manifest # None /\ manifest.files = snapshot.files \cup {FlushedFile}
      /\ Loaded = manifest /\ Loaded' = Loaded /\ compactor.at # "publish"
      /\ manifest \in Snapshot
  BY <1>1, <1>2, NoneAssumption DEF Commits, Loaded, DiskTypes
<1>7. /\ FlushedFile.number = flusher.number /\ FlushedFile.level = 0
  BY DEF FlushedFile
<1>8. /\ l0' \in Seq(Nat) /\ Range(l0') = Range(l0) \cup {flusher.number}
      /\ DOMAIN l0' = 1 .. Len(l0) + 1 /\ l0'[1] = flusher.number
      /\ \A i \in 2 .. Len(l0) + 1 : i - 1 \in DOMAIN l0 /\ l0'[i] = l0[i - 1]
      /\ l0 \in Seq(Nat)
  <2>1. l0 \in Seq(Nat)
    BY <1>1 DEF MemoryTypes
  <2> QED
    BY <1>3, <1>5, <2>1, Cons, SMT
<1>9. PICK F : F = [memtable : SUBSET Records, logs : Seq(Nat)]
  OBVIOUS
<1>10. /\ frozen' \in Seq(F) /\ Len(frozen) \in Nat \ {0} /\ DOMAIN frozen = 1 .. Len(frozen)
       /\ DOMAIN frozen' = 1 .. Len(frozen) - 1
       /\ \A i \in 1 .. Len(frozen) - 1 : frozen'[i] = frozen[i]
  <2>1. frozen \in Seq(F)
    BY <1>1, <1>9 DEF MemoryTypes
  <2> QED
    BY <1>3, <1>5, <2>1, Shorter
<1>11. \A i \in DOMAIN frozen' :
         i \in DOMAIN frozen /\ frozen'[i] = frozen[i] /\ i < Len(frozen)
  BY <1>10, SMT
<1>12. Len(frozen) \in DOMAIN frozen
  BY <1>10, SMT
<1>13. DiskTypes' /\ MemoryTypes' /\ Quiet'
  <2>1. DiskTypes'
    BY <1>1, <1>2 DEF DiskTypes
  <2>2. frozen' \in Seq([memtable : SUBSET Records, logs : Seq(Nat)])
    BY <1>9, <1>10
  <2>3. MemoryTypes'
    BY <1>1, <1>2, <1>3, <1>4, <1>6, <1>8, <1>11, <2>2 DEF MemoryTypes
  <2>4. Quiet'
    BY <1>1, <1>2 DEF Quiet
  <2> QED
    BY <2>1, <2>3, <2>4
<1>14. Fresh'
  BY <1>1, <1>2, <1>6 DEF Structure, Fresh, Loaded
<1>15. Owners'
  <2>1. \A s : LogList(s)' <=> LogList(s)
    BY <1>2 DEF LogList
  <2>2. LogList(active_logs)'
    BY <1>1, <1>2, <2>1 DEF Owners, LogList
  <2>3. PICK fs : fs = frozen'
    OBVIOUS
  <2>4. \A i \in DOMAIN fs : LogList(fs[i].logs)' /\ AllBefore(fs[i].logs, active_logs)
    BY <1>1, <1>11, <2>1, <2>3 DEF Owners
  <2>5. \A i, j \in DOMAIN fs : i < j => AllBefore(fs[j].logs, fs[i].logs)
    BY <1>1, <1>11, <2>3 DEF Owners
  <2>6. PICK ls : ls = flusher.task.logs
    OBVIOUS
  <2>7. LogList(ls)' /\ AllBefore(ls, active_logs)
    BY <1>1, <1>5, <1>12, <2>1, <2>6 DEF Owners
  <2>8. \A i \in DOMAIN fs : AllBefore(ls, fs[i].logs)
    BY <1>1, <1>5, <1>11, <1>12, <2>3, <2>6 DEF Owners
  <2>9. LogList(flusher.logs)'
    BY <1>4, <2>6, <2>7
  <2>10. (\A i \in DOMAIN frozen : LogList(frozen[i].logs))'
    BY <2>3, <2>4
  <2> QED
    BY <1>2, <1>4, <2>2, <2>3, <2>4, <2>5, <2>6, <2>7, <2>8, <2>9, <2>10 DEF Owners
<1>16. Numbered'
  <2>1. /\ LogRecords(DOMAIN logs)' = LogRecords(DOMAIN logs) /\ Pending' = Pending
        /\ TableRecords' = TableRecords /\ UnlinkedRecords' = UnlinkedRecords
    BY <1>2 DEF LogRecords, Pending, TableRecords, UnlinkedRecords
  <2>2. FrozenRecords' \subseteq FrozenRecords
    BY <1>11 DEF FrozenRecords
  <2>3. Everywhere' \subseteq Everywhere
    BY <1>2, <2>1, <2>2 DEF Everywhere
  <2> QED
    BY <1>2, <2>3, NumberedKept
<1>17. Seqs'
  <2>1. Ages /\ FlushAges
    BY DEF Structure, Seqs
  <2>2. PICK s : s = manifest
    OBVIOUS
  <2>3. Dated(s)'
    BY <1>2, <1>6, <2>1, <2>2 DEF Ages, Dated, Content, UnlinkedRecords
  <2>4. Dated(Loaded)' /\ Dated(snapshot)'
    BY <1>2, <1>3, <1>6, <2>2, <2>3
  <2>5. Ages'
    BY <1>1, <1>2, <1>3, <1>6, <2>1, <2>4, LoadedType, SMT DEF Ages
  <2>6. UpTo(LogRecords(Range(flusher.task.logs)), Loaded.last_seq)
    BY <1>1, <2>1 DEF FlushAges
  <2>7. LogRecords(Range(flusher.logs))' = LogRecords(Range(flusher.task.logs))
    BY <1>2, <1>4 DEF LogRecords
  <2>8. FlushAges'
    BY <1>3, <1>4, <1>6, <2>6, <2>7 DEF FlushAges
  <2> QED
    BY <2>5, <2>8 DEF Seqs
<1>18. Levels'
  <2>1. Layout(manifest.files)
    BY <1>1, <1>6 DEF Levels
  <2>2. PICK S : S = manifest.files
    OBVIOUS
  <2>3. Layout(S)'
    BY <1>2, <2>1, <2>2 DEF Layout
  <2>4. Range(l0') = Numbers(AtLevel(S, 0))
    BY <1>1, <1>6, <1>7, <1>8, <2>2, SMT DEF Levels, Numbers, AtLevel
  <2>5. below' = {f \in S : f.level > 0}
    BY <1>1, <1>2, <1>6, <1>7, <2>2, SMT DEF Levels
  <2>6. ASSUME NEW i \in DOMAIN l0', NEW j \in DOMAIN l0', i < j
        PROVE  l0'[i] > l0'[j]
    <3>1. Len(l0) \in Nat /\ DOMAIN l0 = 1 .. Len(l0) /\ \A n \in DOMAIN l0 : l0[n] \in Nat
      BY <1>8, SMT
    <3>2. j \in 2 .. Len(l0) + 1 /\ j - 1 \in DOMAIN l0 /\ l0'[j] = l0[j - 1]
      BY <1>8, <2>6, <3>1, SMT
    <3>3. CASE i = 1
      <4>1. PICK k \in DOMAIN l0 : k = j - 1
        BY <3>2
      <4>2. l0[k] < flusher.number
        BY <1>5 DEF Range
      <4> QED
        BY <1>5, <1>8, <3>1, <3>2, <3>3, <4>1, <4>2
    <3>4. CASE i # 1
      <4>0. i \in 1 .. Len(l0) + 1
        BY <1>8, <2>6
      <4>1. i \in 2 .. Len(l0) + 1 /\ i - 1 \in DOMAIN l0 /\ l0'[i] = l0[i - 1]
        <5>1. i \in 2 .. Len(l0) + 1
          BY <3>1, <3>4, <4>0, SMT
        <5> QED
          BY <1>8, <5>1
      <4>2. i - 1 < j - 1
        BY <2>6, <3>1, <3>2, <4>1, SMT
      <4> QED
        BY <1>1, <3>2, <4>1, <4>2 DEF Levels
    <3> QED
      BY <3>3, <3>4
  <2>7. Layout(snapshot.files)' /\ Layout(Loaded.files)'
    BY <1>2, <1>3, <1>6, <2>2, <2>3
  <2> QED
    BY <1>3, <2>2, <2>4, <2>5, <2>6, <2>7 DEF Levels
<1>19. Commits'
  BY <1>2, <1>3, <1>4, <1>6, NoneAssumption DEF Commits
<1>20. Flush'
  BY <1>4 DEF Flush
<1>21. Compaction'
  <2>1. Compaction /\ compactor' = compactor /\ tables' = tables
    BY <1>2 DEF Structure
  <2>2. snapshot'.files = snapshot.files \cup {FlushedFile}
    BY <1>3, <1>6
  <2>3. \A S : Content(S)' = Content(S)
    BY <2>1 DEF Content
  <2>4. Numbers(snapshot'.files) = Numbers(snapshot.files) \cup {flusher.number}
    BY <1>7, <2>2 DEF Numbers
  <2>5. ASSUME Compacting
        PROVE  Inputs' = Inputs /\ Plan' /\ Inputs \subseteq snapshot.files
               /\ Content(Inputs)' = Content(Inputs)
    <3>1. Plan
      BY <2>1, <2>5 DEF Compaction
    <3>2. Inputs' = Inputs
      <4>1. CASE compactor.at = "find"
        BY <2>1, <4>1 DEF Inputs
      <4>2. CASE compactor.at # "find"
        <5>1. compactor.removed \subseteq Numbers(snapshot.files)
          BY <2>1, <2>5, <4>2 DEF Compaction, Written, Merging, Compacting
        <5>2. FlushedFile.number \notin compactor.removed
          BY <1>5, <1>7, <5>1
        <5> QED
          BY <2>1, <2>2, <4>2, <5>2 DEF Inputs
      <4> QED
        BY <4>1, <4>2
    <3>3. PICK I : I = Inputs
      OBVIOUS
    <3>4. Content(Inputs)' = Content(Inputs)
      BY <2>3, <3>2, <3>3
    <3>5. compactor.level \in Nat \ {0} /\ Inputs \subseteq snapshot.files
      BY <3>1 DEF Plan
    <3>6. \A f \in Inputs : f.level = 0 => f.number < flusher.number
      BY <1>1, <1>5, <3>5 DEF Levels, Numbers, AtLevel
    <3>7. Plan'
      BY <1>7, <2>1, <2>2, <3>1, <3>2, <3>4, <3>5, <3>6 DEF Plan
    <3> QED
      BY <3>2, <3>4, <3>5, <3>7
  <2>6. (Compacting => Plan)'
    BY <2>1, <2>5 DEF Compacting
  <2>7. Planned'
    BY <1>7, <2>1, <2>2, SMT DEF Compaction, Planned
  <2>8. Written'
    <3>1. SUFFICES ASSUME Merging
                   PROVE  Written'
      BY <2>1 DEF Written, Merging
    <3>2. Compacting
      BY <3>1 DEF Merging, Compacting
    <3>3. Outputs' = Outputs
      <4>1. PICK A : A = compactor.added
        OBVIOUS
      <4>2. Content(compactor.added)' = Content(compactor.added)
        BY <2>1, <2>3, <4>1
      <4> QED
        BY <2>1, <4>2 DEF Outputs
    <3>4. Outputs' \subseteq Content(Inputs)'
      BY <2>1, <2>5, <3>1, <3>2, <3>3 DEF Compaction, Written
    <3>5. \A f \in compactor.added : f.number # flusher.number
      BY <1>1, <2>1, <3>1 DEF Compaction, Written
    <3> QED
      BY <1>4, <2>1, <2>4, <3>1, <3>4, <3>5 DEF Compaction, Written
  <2>9. ToWrite'
    BY <2>1 DEF Compaction, ToWrite
  <2>10. ToUnlink'
    <3>1. compactor.at = "unlink" => flusher.number \notin compactor.removed
      BY <1>1, <2>1 DEF Compaction, ToUnlink
    <3> QED
      BY <1>4, <1>6, <2>1, <2>4, <3>1 DEF Compaction, ToUnlink
  <2> QED
    BY <2>1, <2>6, <2>7, <2>8, <2>9, <2>10 DEF Compaction
<1> QED
  BY <1>13, <1>14, <1>15, <1>16, <1>17, <1>18, <1>19, <1>20, <1>21 DEF Structure

\* Structure is kept by unlinking a flushed log (flush_oldest).
LEMMA FlushUnlinksKeeps ==
  ASSUME Structure, FlushUnlinks
  PROVE  Structure'
<1>1. /\ phase = "up" /\ flusher.at = "unlink" /\ DiskTypes /\ MemoryTypes
      /\ Owners /\ Seqs
  BY DEF FlushUnlinks, Structure
<1>2. UNCHANGED <<policy, phase, unsafe, tables, partials, manifest, snapshot,
                  durable, next_number, last_seq, active, active_logs, frozen, l0,
                  below, writer, compactor, faults, ever, shown, acked, settled>>
  BY DEF FlushUnlinks, numbering, memory, history
<1>3. PICK h : h = Head(flusher.logs)
  OBVIOUS
<1>4. /\ logs' = Without(logs, h)
      /\ unlinked' = Append(unlinked, [number |-> h, records |-> logs[h]])
      /\ flusher' = IF Len(flusher.logs) = 1 THEN Idle
                    ELSE [at |-> "unlink", logs |-> Tail(flusher.logs)]
  BY <1>3 DEF FlushUnlinks, LogsLeft
<1>5. LogList(flusher.logs) /\ AllBefore(flusher.logs, active_logs)
  BY <1>1 DEF Owners
<1>6. PICK ls : ls = flusher.logs
  OBVIOUS
<1>7. /\ ls \in Seq(Nat) /\ ls # << >> /\ Range(ls) \subseteq DOMAIN logs
      /\ \A i, j \in DOMAIN ls : i < j => ls[i] < ls[j]
  BY <1>5, <1>6 DEF LogList
<1>8. /\ Len(ls) \in Nat \ {0} /\ DOMAIN ls = 1 .. Len(ls)
      /\ Tail(ls) \in Seq(Nat) /\ DOMAIN Tail(ls) = 1 .. Len(ls) - 1
      /\ \A i \in 1 .. Len(ls) - 1 : Tail(ls)[i] = ls[i + 1] /\ i + 1 \in DOMAIN ls
      /\ h = ls[1] /\ 1 \in DOMAIN ls /\ h \in Range(ls)
      /\ Len(Tail(ls)) = Len(ls) - 1 /\ Range(Tail(ls)) \subseteq Range(ls)
  BY <1>3, <1>6, <1>7, Shorter
<1>9. h \in DOMAIN logs /\ h \in Nat /\ logs[h] \subseteq Records
  BY <1>1, <1>7, <1>8 DEF DiskTypes
<1>10. /\ DOMAIN logs' = DOMAIN logs \ {h}
       /\ \A n \in DOMAIN logs' : logs'[n] = logs[n] /\ n \in DOMAIN logs
  BY <1>4 DEF Without, Restrict
<1>11. PICK U : U = [number : Nat, records : SUBSET Records]
  OBVIOUS
<1>12. /\ unlinked' \in Seq(U)
       /\ DOMAIN unlinked' = 1 .. Len(unlinked) + 1 /\ Len(unlinked) \in Nat
       /\ DOMAIN unlinked = 1 .. Len(unlinked)
       /\ \A i \in DOMAIN unlinked : unlinked'[i] = unlinked[i]
       /\ unlinked'[Len(unlinked) + 1] = [number |-> h, records |-> logs[h]]
  <2>1. unlinked \in Seq(U)
    BY <1>1, <1>11 DEF DiskTypes
  <2>2. PICK x \in U : x = [number |-> h, records |-> logs[h]]
    BY <1>9, <1>11
  <2>3. unlinked' = Append(unlinked, x)
    BY <1>4, <2>2
  <2> QED
    BY <2>1, <2>2, <2>3, SMT
<1>13. UnlinkedRecords' = UnlinkedRecords \cup logs[h]
  <2>1. ASSUME NEW r \in UnlinkedRecords'
        PROVE  r \in UnlinkedRecords \cup logs[h]
    <3>1. PICK i \in DOMAIN unlinked' : r \in unlinked'[i].records
      BY <2>1 DEF UnlinkedRecords
    <3>2. i \in DOMAIN unlinked \/ i = Len(unlinked) + 1
      BY <1>12, <3>1, SMT
    <3> QED
      BY <1>12, <3>1, <3>2, SMT DEF UnlinkedRecords
  <2>2. ASSUME NEW r \in UnlinkedRecords \cup logs[h]
        PROVE  r \in UnlinkedRecords'
    <3>1. Len(unlinked) + 1 \in DOMAIN unlinked' /\ \A i \in DOMAIN unlinked : i \in DOMAIN unlinked'
      BY <1>12, SMT
    <3> QED
      BY <1>12, <2>2, <3>1, SMT DEF UnlinkedRecords
  <2> QED
    BY <2>1, <2>2
<1>14. flusher'.at \in {"idle", "unlink"} /\ (flusher'.at = "unlink" => flusher'.logs = Tail(ls) /\ Len(ls) # 1)
  BY <1>4, <1>6 DEF Idle
<1>15. DiskTypes' /\ MemoryTypes' /\ Quiet'
  <2>2. unlinked' \in Seq([number : Nat, records : SUBSET Records])
    BY <1>11, <1>12
  <2>3. DiskTypes'
    BY <1>1, <1>2, <1>10, <2>2 DEF DiskTypes
  <2>4. MemoryTypes'
    BY <1>1, <1>2, <1>14 DEF MemoryTypes
  <2>5. Quiet'
    BY <1>1, <1>2 DEF Quiet
  <2> QED
    BY <2>3, <2>4, <2>5
<1>16. Fresh'
  BY <1>2, <1>10 DEF Structure, Fresh, Loaded
<1>17. Owners'
  <2>1. ASSUME NEW s, LogList(s), h \notin Range(s)
        PROVE  LogList(s)'
    BY <1>10, <2>1 DEF LogList
  <2>2. ASSUME NEW s, LogList(s), AllBefore(ls, s)
        PROVE  LogList(s)'
    BY <1>8, <1>9, <2>1, <2>2, SMT DEF AllBefore
  <2>3. LogList(active_logs)'
    <3>1. PICK al : al = active_logs
      OBVIOUS
    <3>2. LogList(al)'
      BY <1>1, <1>5, <1>6, <2>2, <3>1 DEF Owners
    <3> QED
      BY <1>2, <3>1, <3>2
  <2>4. (\A i \in DOMAIN frozen : LogList(frozen[i].logs))'
    <3>1. PICK fs : fs = frozen
      OBVIOUS
    <3>2. \A i \in DOMAIN fs : LogList(fs[i].logs)'
      BY <1>1, <1>6, <2>2, <3>1 DEF Owners
    <3> QED
      BY <1>2, <3>1, <3>2
  <2>5. ASSUME flusher'.at = "unlink"
        PROVE  (/\ LogList(flusher.logs) /\ AllBefore(flusher.logs, active_logs)
                /\ \A i \in DOMAIN frozen : AllBefore(flusher.logs, frozen[i].logs))'
    <3>1. PICK t : t = Tail(ls)
      OBVIOUS
    <3>2. flusher'.logs = t /\ Len(ls) # 1
      BY <1>14, <2>5, <3>1
    <3>3. t # << >> /\ \A i \in DOMAIN t : t[i] = ls[i + 1] /\ i + 1 \in DOMAIN ls /\ i \in Nat
      <4>1. Len(t) # 0 /\ t \in Seq(Nat)
        BY <1>8, <3>1, <3>2, SMT
      <4>2. t # << >>
        BY <4>1, SMT
      <4>3. \A i \in DOMAIN t : i \in 1 .. Len(ls) - 1 /\ i \in Nat
        BY <1>8, <3>1, SMT
      <4> QED
        BY <1>8, <3>1, <4>2, <4>3
    <3>4. \A i, j \in DOMAIN t : i < j => t[i] < t[j]
      <4> SUFFICES ASSUME NEW i \in DOMAIN t, NEW j \in DOMAIN t, i < j
                   PROVE  t[i] < t[j]
        OBVIOUS
      <4>1. i + 1 < j + 1
        BY <3>3, SMT
      <4> QED
        BY <1>7, <3>3, <4>1
    <3>5. h \notin Range(t)
      <4> SUFFICES ASSUME NEW i \in DOMAIN t, h = t[i]
                   PROVE  FALSE
        BY DEF Range
      <4>1. PICK k \in DOMAIN ls : k = i + 1 /\ t[i] = ls[k]
        BY <3>3
      <4>2. 1 < k
        BY <1>8, <3>1, <4>1, SMT
      <4>3. ls[1] < ls[k]
        BY <1>7, <1>8, <4>2
      <4>4. h = ls[1] /\ h = ls[k] /\ h \in Nat
        BY <1>8, <1>9, <4>1
      <4> QED
        BY <4>3, <4>4, SMT
    <3>6. LogList(t)
      BY <1>7, <1>8, <3>1, <3>3, <3>4 DEF LogList
    <3>7. LogList(t)'
      BY <2>1, <3>5, <3>6
    <3>8. AllBefore(t, active_logs) /\ \A i \in DOMAIN frozen : AllBefore(t, frozen[i].logs)
      BY <1>1, <1>6, <1>8, <3>1 DEF Owners, AllBefore
    <3> QED
      BY <1>2, <3>2, <3>7, <3>8
  <2> QED
    BY <1>1, <1>2, <2>3, <2>4, <2>5 DEF Owners
<1>18. Numbered'
  <2>1. /\ LogRecords(DOMAIN logs)' \subseteq LogRecords(DOMAIN logs) /\ Pending' = Pending
        /\ TableRecords' = TableRecords /\ FrozenRecords' = FrozenRecords
        /\ logs[h] \subseteq LogRecords(DOMAIN logs)
    BY <1>2, <1>9, <1>10 DEF LogRecords, Pending, TableRecords, FrozenRecords
  <2>2. Everywhere' \subseteq Everywhere
    BY <1>2, <1>13, <2>1 DEF Everywhere
  <2> QED
    BY <1>2, <2>2, NumberedKept
<1>19. Seqs'
  <2>1. Ages /\ FlushAges
    BY <1>1 DEF Seqs
  <2>2. \A r \in LogRecords(Range(ls)) : r.seq <= snapshot.last_seq
    BY <1>1, <1>6, <2>1 DEF FlushAges, UpTo
  <2>3. \A r \in logs[h] : r.seq <= snapshot.last_seq
    BY <1>8, <2>2 DEF LogRecords
  <2>4. Ages'
    BY <1>1, <1>2, <1>9, <1>13, <2>1, <2>3, AgesKept, NamedFiles DEF Ages
  <2>5. ASSUME flusher'.at = "unlink"
        PROVE  UpTo(LogRecords(Range(flusher.logs)), snapshot.last_seq)'
    <3>1. PICK t : t = Tail(ls)
      OBVIOUS
    <3>2. flusher'.logs = t /\ LogList(flusher.logs)'
      BY <1>14, <1>17, <2>5, <3>1, <1>1, <1>2 DEF Owners
    <3>3. LogList(t)'
      BY <3>2
    <3>4. \A n \in Range(t) : logs'[n] = logs[n] /\ n \in Range(ls)
      BY <1>8, <1>10, <3>1, <3>3 DEF LogList
    <3>5. LogRecords(Range(t))' \subseteq LogRecords(Range(ls))
      BY <3>4 DEF LogRecords
    <3> QED
      BY <1>2, <2>2, <3>2, <3>5 DEF UpTo
  <2>6. FlushAges'
    BY <1>14, <2>5 DEF FlushAges
  <2> QED
    BY <2>4, <2>6 DEF Seqs
<1>20. Levels'
  BY <1>2, LevelsKept, NamedFiles
<1>21. Commits' /\ Flush'
  BY <1>1, <1>2, <1>14 DEF Structure, Commits, Flush
<1>22. Compaction'
  <2>1. /\ Merging => Numbers(compactor.added) \subseteq DOMAIN tables
        /\ compactor.at = "unlink" => compactor.removed \subseteq DOMAIN tables
    BY DEF Structure, Compaction, Written, Numbers, ToUnlink
  <2> QED
    BY <1>1, <1>2, <1>14, <2>1, CompactionKept, NamedFiles
<1> QED
  BY <1>15, <1>16, <1>17, <1>18, <1>19, <1>20, <1>21, <1>22 DEF Structure

\* Structure is kept by a log that cannot be unlinked (flush_oldest).
LEMMA FlushUnlinkFailsKeeps ==
  ASSUME Structure, FlushUnlinkFails
  PROVE  Structure'
<1>1. phase = "up" /\ DiskTypes /\ MemoryTypes /\ flusher.at = "unlink"
  BY DEF FlushUnlinkFails, Structure
<1>2. UNCHANGED <<policy, unlinked, phase, logs, unsafe, tables, partials, manifest,
                  snapshot, durable, next_number, last_seq, active, active_logs,
                  frozen, l0, below, writer, compactor, ever, shown, acked, settled>>
  BY DEF FlushUnlinkFails, disk, numbering, memory, history
<1>3. flusher'.at = "idle"
  BY DEF FlushUnlinkFails, Idle
<1>4. DiskTypes' /\ MemoryTypes' /\ Quiet'
  <2>1. faults' \in [restart : Nat, task : Nat, unlink : Nat, split : BOOLEAN]
    <3>1. faults' = [faults EXCEPT !.unlink = @ + 1]
      BY DEF FlushUnlinkFails
    <3>2. faults \in [restart : Nat, task : Nat, unlink : Nat, split : BOOLEAN]
      BY <1>1 DEF MemoryTypes
    <3> QED
      BY <3>1, <3>2, MoreFaults
  <2>2. MemoryTypes'
    BY <1>1, <1>2, <1>3, <2>1 DEF MemoryTypes
  <2>3. DiskTypes'
    BY <1>1, <1>2 DEF DiskTypes
  <2>4. Quiet'
    BY <1>1, <1>2 DEF Quiet
  <2> QED
    BY <2>2, <2>3, <2>4
<1>5. Owners' /\ FlushAges' /\ Flush' /\ Fresh'
  <2>1. Owners'
    BY <1>2, <1>3 DEF Structure, Owners, LogList
  <2>2. FlushAges' /\ Flush'
    BY <1>3 DEF FlushAges, Flush
  <2>3. Fresh'
    BY <1>2 DEF Structure, Fresh, Loaded
  <2> QED
    BY <2>1, <2>2, <2>3
<1>6. /\ compactor.at = "commit" => compactor.seq <= last_seq
      /\ Merging => Numbers(compactor.added) \subseteq DOMAIN tables
      /\ compactor.at = "unlink" => compactor.removed \subseteq DOMAIN tables
  BY DEF Structure, Seqs, Ages, Compaction, Written, Numbers, ToUnlink
<1>7. Numbered'
  <2>1. Everywhere' = Everywhere
    BY <1>2, SMT DEF Everywhere, LogRecords, TableRecords, UnlinkedRecords,
                FrozenRecords, Pending
  <2> QED
    BY <1>2, <2>1, NumberedKept
<1>8. Ages'
  <2>1. UnlinkedRecords' = UnlinkedRecords
    BY <1>2 DEF UnlinkedRecords
  <2> QED
    BY <1>1, <1>2, <1>6, <2>1, AgesKept, NamedFiles
<1>9. Levels'
  BY <1>2, LevelsKept, NamedFiles
<1>10. Commits'
  BY <1>1, <1>2, <1>3 DEF Structure, Commits
<1>11. Compaction'
  BY <1>1, <1>2, <1>3, <1>6, CompactionKept, NamedFiles
<1> QED
  BY <1>4, <1>5, <1>7, <1>8, <1>9, <1>10, <1>11 DEF Structure, Seqs

----------------------------------------------------------------------------
(* Logs stay backed *)

\* Nothing is lost by adding records.
LEMMA CoverGrows ==
  ASSUME NEW R, NEW S, R \subseteq S, NEW r, CoveredBy(R, r)
  PROVE  CoveredBy(S, r)
BY DEF CoveredBy

\* Backed is kept by the start of a flush, and a log that cannot be unlinked
\* (flush_oldest).
LEMMA FlushStartsBacked ==
  ASSUME Structure, Backed, FlushStarts \/ FlushUnlinkFails
  PROVE  Backed'
<1>1. UNCHANGED <<phase, logs, tables, active, active_logs, frozen, manifest, snapshot,
                  settled, compactor, writer>>
  BY DEF FlushStarts, FlushUnlinkFails, memory, disk, history
<1>2. flusher'.at # "unlink"
  BY SMT DEF FlushStarts, FlushUnlinkFails, Idle
<1>3. Pending' = Pending
  BY <1>1 DEF Pending
<1> QED
  BY <1>1, <1>2, <1>3, BackedKept

\* Backed is kept by renaming the finished table (TableWriter::finish).
LEMMA FlushRenamesBacked ==
  ASSUME Structure, Backed, FlushRenames
  PROVE  Backed'
<1>1. UNCHANGED <<phase, logs, active, active_logs, frozen, manifest, snapshot, settled,
                  compactor, writer>>
  BY DEF FlushRenames, memory, history
<1>2. flusher'.at # "unlink" /\ tables' = With(tables, flusher.number, flusher.task.memtable)
  BY DEF FlushRenames
<1>3. flusher.number \notin DOMAIN tables
  BY DEF FlushRenames, Structure, Flush
<1>4. \A n \in DOMAIN tables : tables'[n] = tables[n]
  BY <1>2, <1>3 DEF With
<1>5. Pending' = Pending
  BY <1>1 DEF Pending
<1> QED
  BY <1>1, <1>2, <1>4, <1>5, BackedKept

\* Backed is kept by the commit of a flush, failed or not (commit).
LEMMA FlushCommitsBacked ==
  ASSUME Structure, Backed, Structure', FlushCommits \/ FlushFails
  PROVE  Backed'
<1>1. /\ phase = "up"
      /\ UNCHANGED <<phase, logs, tables, active, active_logs, frozen, snapshot, compactor, writer>>
  BY DEF FlushCommits, FlushFails, memory
<1>2. flusher'.at # "unlink" /\ Pending' = Pending
  BY <1>1, SMT DEF FlushCommits, FlushFails, Idle, Pending
<1>3. CASE UNCHANGED <<manifest, settled>>
  BY <1>1, <1>2, <1>3, BackedKept
<1>4. CASE ~UNCHANGED <<manifest, settled>>
  <2>1. PICK s : s = Committed({FlushedFile}, {}, flusher.seq)
    OBVIOUS
  <2>2. /\ flusher.at = "commit" /\ manifest' = s
        /\ settled' = settled \cup tables[flusher.number]
    BY <1>4, <2>1 DEF FlushCommits, FlushFails, ManifestStore
  <2>3. /\ s.files = snapshot.files \cup {FlushedFile} /\ FlushedFile.number = flusher.number
        /\ {FlushedFile} \subseteq File
        /\ flusher.seq \in 0 .. MaxSeq /\ flusher.seq <= last_seq
    BY <2>1, <2>2, FlushedLayout
  <2>4. Loaded' = s
    <3>1. s # None
      BY <1>1, <2>1, <2>3, CommittedIs, SMT
    <3> QED
      BY <2>2, <3>1 DEF Loaded
  <2>5. Content(s.files) \subseteq settled'
    BY <1>1, <2>2, <2>3 DEF Backed, Settles, Content
  <2>6. Settles'
    BY <1>1, <1>2, <2>2, <2>4, <2>5, SettlesCommitted DEF Backed
  <2>7. Caches'
    BY <1>1, <1>2, CachesKept DEF Backed
  <2>8. MergeComplete'
    BY <1>1, MergeKept DEF Backed
  <2> QED
    BY <2>6, <2>7, <2>8 DEF Backed
<1> QED
  BY <1>3, <1>4

\* Backed is kept by the switch of a flush to its table in memory (commit).
LEMMA FlushPublishesBacked ==
  ASSUME Structure, Backed, FlushPublishes
  PROVE  Backed'
<1>1. /\ phase = "up" /\ flusher.at = "publish" /\ MemoryTypes /\ Commits /\ Flush
  BY DEF FlushPublishes, Structure
<1>2. UNCHANGED <<phase, logs, tables, manifest, active, active_logs, compactor, writer, settled>>
  BY DEF FlushPublishes, disk, history
<1>3. /\ snapshot' = manifest /\ frozen' = SubSeq(frozen, 1, Len(frozen) - 1)
      /\ flusher'.at = "unlink" /\ flusher'.logs = flusher.task.logs
  BY DEF FlushPublishes
<1>4. /\ manifest # None /\ manifest.files = snapshot.files \cup {FlushedFile}
      /\ Loaded = manifest /\ Loaded' = manifest
  BY <1>1, <1>2 DEF Commits, Loaded
<1>5. /\ frozen # << >> /\ flusher.task = frozen[Len(frozen)]
      /\ tables[flusher.number] = flusher.task.memtable
      /\ flusher.number \notin Numbers(snapshot.files)
  BY <1>1 DEF Flush
<1>6. FlushedFile.number = flusher.number /\ FlushedFile.level = 0
  BY DEF FlushedFile
<1>7. /\ Len(frozen) \in DOMAIN frozen
      /\ \A i \in DOMAIN frozen' : i \in DOMAIN frozen /\ frozen'[i] = frozen[i]
  <2>1. PICK F : F = [memtable : SUBSET Records, logs : Seq(Nat)]
    OBVIOUS
  <2>2. frozen \in Seq(F)
    BY <1>1, <2>1 DEF MemoryTypes
  <2>3. /\ Len(frozen) \in Nat \ {0} /\ DOMAIN frozen = 1 .. Len(frozen)
        /\ DOMAIN frozen' = 1 .. Len(frozen) - 1
        /\ \A i \in 1 .. Len(frozen) - 1 : frozen'[i] = frozen[i]
    BY <1>3, <1>5, <2>2, Shorter
  <2> QED
    BY <2>3, SMT
<1>8. \A ls : LogRecords(Range(ls))' = LogRecords(Range(ls))
  BY <1>2 DEF LogRecords
<1>9. Caches'
  <2>1. PICK fs : fs = frozen'
    OBVIOUS
  <2>2. \A i \in DOMAIN fs : \A r \in LogRecords(Range(fs[i].logs))' : CoveredBy(fs[i].memtable, r)
    BY <1>7, <1>8, <2>1 DEF Backed, Caches
  <2>3. (\A i \in DOMAIN frozen : \A r \in LogRecords(Range(frozen[i].logs)) : CoveredBy(frozen[i].memtable, r))'
    BY <2>1, <2>2
  <2>4. LogRecords(Range(active_logs))' = LogRecords(Range(active_logs)) /\ Pending' = Pending
    BY <1>2 DEF LogRecords, Pending
  <2> QED
    BY <1>2, <2>3, <2>4 DEF Backed, Caches
<1>10. MergeComplete'
  <2>1. SUFFICES ASSUME Merging
                 PROVE  MergeComplete'
    BY <1>2 DEF MergeComplete, Merging
  <2>2. Plan /\ Written
    BY <2>1 DEF Structure, Compaction, Compacting, Merging
  <2>3. Inputs' = Inputs
    <3>1. FlushedFile.number \notin compactor.removed
      BY <1>5, <1>6, <2>1, <2>2 DEF Written
    <3> QED
      BY <1>2, <1>3, <1>4, <2>1, <3>1 DEF Inputs, Merging
  <2>4. \A S : Content(S)' = Content(S)
    BY <1>2 DEF Content
  <2>5. PICK I : I = Inputs
    OBVIOUS
  <2>6. PICK A : A = compactor.added
    OBVIOUS
  <2>7. Content(Inputs)' = Content(Inputs) /\ Content(compactor.added)' = Content(compactor.added)
    BY <1>2, <2>3, <2>4, <2>5, <2>6
  <2>8. Outputs' = Outputs
    BY <1>2, <2>7 DEF Outputs
  <2>9. compactor.level \in Nat \ {0}
    BY <2>2 DEF Plan
  <2>10. \A f \in snapshot'.files : f.level > compactor.level => f \in snapshot.files
    BY <1>3, <1>4, <1>6, <2>9, SMT
  <2> QED
    BY <1>2, <2>1, <2>7, <2>8, <2>10 DEF Backed, MergeComplete
<1>11. Settles'
  <2>1. PICK S : S = manifest.files
    OBVIOUS
  <2>2. Content(S)' = Content(S)
    BY <1>2 DEF Content
  <2>3. Content(S) \subseteq settled
    BY <1>4, <2>1 DEF Backed, Settles
  <2>4. ASSUME NEW r \in LogRecords(Range(flusher.task.logs))
        PROVE  Stored(S, r)
    <3>1. CoveredBy(flusher.task.memtable, r)
      BY <1>5, <1>7, <2>4 DEF Backed, Caches
    <3>2. flusher.task.memtable \subseteq Content(S)
      BY <1>4, <1>5, <1>6, <2>1 DEF Content
    <3> QED
      BY <3>1, <3>2, CoverGrows DEF Stored
  <2>5. ASSUME NEW r \in LogRecords(Range(flusher.logs))'
        PROVE  Stored(S, r)'
    <3>1. PICK ls : ls = flusher.task.logs
      OBVIOUS
    <3>2. r \in LogRecords(Range(ls))
      BY <1>2, <1>3, <2>5, <3>1 DEF LogRecords
    <3> QED
      BY <1>2, <2>4, <3>1, <3>2, StoredKept
  <2>6. Content(Loaded.files)' \subseteq settled' /\ Content(snapshot.files)' \subseteq settled'
    BY <1>2, <1>3, <1>4, <2>1, <2>2, <2>3
  <2>7. \A r \in LogRecords(Range(flusher.logs))' :
          Stored(snapshot.files, r)' /\ Stored(Loaded.files, r)'
    BY <1>3, <1>4, <2>1, <2>5
  <2> QED
    BY <2>6, <2>7 DEF Settles
<1> QED
  BY <1>9, <1>10, <1>11 DEF Backed

\* Backed is kept by unlinking a flushed log (flush_oldest).
LEMMA FlushUnlinksBacked ==
  ASSUME Structure, Backed, FlushUnlinks
  PROVE  Backed'
<1>1. /\ phase = "up" /\ flusher.at = "unlink" /\ Owners /\ LogList(flusher.logs)
  BY DEF FlushUnlinks, Structure, Owners
<1>2. UNCHANGED <<phase, tables, manifest, snapshot, active, active_logs, frozen, compactor,
                  writer, settled>>
  BY DEF FlushUnlinks, memory, history
<1>3. PICK head : head = Head(flusher.logs)
  OBVIOUS
<1>4. head \in Range(flusher.logs) /\ head \in Nat
  BY <1>1, <1>3, SMT DEF LogList, Range
<1>5. /\ DOMAIN logs' = DOMAIN logs \ {head}
      /\ \A n \in DOMAIN logs' : logs'[n] = logs[n]
  BY <1>3 DEF FlushUnlinks, LogsLeft, Without, Restrict
<1>6. \A i \in DOMAIN frozen : \A n \in Range(frozen[i].logs) : n \in DOMAIN logs'
  BY <1>1, <1>4, <1>5, SMT DEF Owners, LogList, AllBefore
<1>7. \A n \in Range(active_logs) : n \in DOMAIN logs'
  BY <1>1, <1>4, <1>5, SMT DEF Owners, LogList, AllBefore
<1>8. Pending' = Pending
  BY <1>2 DEF Pending
<1>9. Caches'
  BY <1>2, <1>5, <1>6, <1>7, <1>8, CachesKept DEF Backed
<1>10. MergeComplete'
  BY <1>2, MergeKept DEF Backed
<1>11. flusher'.at = "unlink" =>
         LogRecords(Range(flusher.logs))' \subseteq LogRecords(Range(flusher.logs))
  <2>1. SUFFICES ASSUME flusher'.at = "unlink"
                 PROVE  LogRecords(Range(flusher.logs))' \subseteq LogRecords(Range(flusher.logs))
    OBVIOUS
  <2>2. flusher'.logs = Tail(flusher.logs)
    BY <2>1 DEF FlushUnlinks, Idle
  <2>3. PICK ls : ls = flusher.logs
    OBVIOUS
  <2>4. ls \in Seq(Nat) /\ ls # << >> /\ Range(ls) \subseteq DOMAIN logs
        /\ \A i, j \in DOMAIN ls : i < j => ls[i] < ls[j]
    BY <1>1, <2>3 DEF LogList
  <2>5. \A n \in Range(Tail(ls)) : n \in Range(ls) /\ n # head
    <3>1. head = ls[1] /\ 1 \in DOMAIN ls
      BY <1>3, <2>3, <2>4, SMT
    <3>2. \A i \in DOMAIN Tail(ls) : \E k \in DOMAIN ls : k > 1 /\ Tail(ls)[i] = ls[k]
      BY <2>4, SMT
    <3>3. \A k \in DOMAIN ls : k > 1 => ls[k] # head
      BY <2>4, <3>1, SMT
    <3> QED
      BY <3>2, <3>3 DEF Range
  <2>6. \A n \in Range(Tail(ls)) : n \in DOMAIN logs' /\ n \in Range(ls)
    BY <1>5, <2>4, <2>5
  <2> QED
    BY <1>5, <2>2, <2>3, <2>6 DEF LogRecords
<1>12. Settles'
  BY <1>1, <1>2, <1>11, SettlesKept DEF Backed
<1> QED
  BY <1>9, <1>10, <1>12 DEF Backed

----------------------------------------------------------------------------
(* The compactor *)

\* Structure is kept by sealing an output table (write_merged).
LEMMA CompactSealsKeeps ==
  ASSUME Structure, CompactSeals
  PROVE  Structure'
<1>1. /\ phase = "up" /\ compactor.at = "write" /\ compactor.todo # << >>
      /\ DiskTypes /\ MemoryTypes /\ Levels /\ Compaction /\ Flush
  BY DEF CompactSeals, Structure
<1>2. UNCHANGED <<policy, unlinked, phase, logs, unsafe, partials, manifest, snapshot,
                  durable, last_seq, active, active_logs, frozen, l0, below, writer,
                  flusher, faults, ever, shown, acked, settled>>
  BY DEF CompactSeals, memory, history
<1>3. PICK todo : todo = compactor.todo
  OBVIOUS
<1>4. PICK head : head = Head(todo)
  OBVIOUS
<1>5. PICK new : new = [number |-> next_number, level |-> compactor.level]
  OBVIOUS
<1>6. /\ tables' = With(tables, next_number, head)
      /\ next_number' = next_number + 1 /\ compactor'.at = "write"
      /\ compactor'.level = compactor.level /\ compactor'.removed = compactor.removed
      /\ compactor'.todo = Tail(todo) /\ compactor'.added = compactor.added \cup {new}
  BY <1>3, <1>4, <1>5 DEF CompactSeals
<1>7. /\ todo \in Seq(SUBSET Records)
      /\ \A i \in DOMAIN todo :
           /\ todo[i] # {} /\ OnePerKey(todo[i])
           /\ \A f \in compactor.added : Disjoint(tables[f.number], todo[i])
      /\ \A i, j \in DOMAIN todo : i # j => Disjoint(todo[i], todo[j])
  BY <1>1, <1>3 DEF Compaction, ToWrite
<1>8. PICK rest : rest = Tail(todo)
  OBVIOUS
<1>9. /\ 1 \in DOMAIN todo /\ head = todo[1] /\ head \subseteq Records
      /\ rest \in Seq(SUBSET Records)
      /\ \A i \in DOMAIN rest : i + 1 \in DOMAIN todo /\ rest[i] = todo[i + 1] /\ i + 1 # 1
      /\ \A i, j \in DOMAIN rest : i # j => i + 1 # j + 1
  BY <1>1, <1>3, <1>4, <1>7, <1>8, SMT
<1>10. head # {} /\ OnePerKey(head)
  BY <1>7, <1>9
<1>11. next_number \in Nat /\ next_number \notin DOMAIN tables
  BY <1>1, NamedFiles DEF MemoryTypes
<1>12. /\ DOMAIN tables' = DOMAIN tables \cup {next_number} /\ tables'[next_number] = head
       /\ \A m \in DOMAIN tables : tables'[m] = tables[m]
       /\ DOMAIN tables' \subseteq Nat
       /\ \A m \in DOMAIN tables' :
            tables'[m] \subseteq Records /\ tables'[m] # {} /\ OnePerKey(tables'[m])
       /\ TableRecords' = TableRecords \cup head
  BY <1>1, <1>6, <1>9, <1>10, <1>11, NewTable
<1>13. Plan /\ Inputs \subseteq snapshot.files /\ Numbers(Inputs) \subseteq DOMAIN tables
  <2>1. Plan
    BY <1>1 DEF Compaction, Compacting
  <2>2. Inputs \subseteq snapshot.files
    BY <2>1 DEF Plan
  <2> QED
    BY <1>1, <2>1, <2>2, NamedFiles DEF Numbers
<1>14. /\ Outputs \subseteq Content(Inputs) /\ head \subseteq Outputs
       /\ \A i \in DOMAIN rest : rest[i] \subseteq Outputs
       /\ Content(compactor.added) \subseteq Outputs
  <2>1. \A i \in DOMAIN todo : todo[i] \subseteq Outputs
    BY <1>1, <1>3 DEF Outputs, Range
  <2>2. Outputs \subseteq Content(Inputs)
    BY <1>1 DEF Compaction, Written, Merging
  <2>3. Content(compactor.added) \subseteq Outputs
    BY DEF Outputs
  <2> QED
    BY <1>9, <2>1, <2>2, <2>3
<1>15. DiskTypes' /\ MemoryTypes' /\ Quiet' /\ Fresh'
  <2>1. DiskTypes'
    BY <1>1, <1>2, <1>12 DEF DiskTypes
  <2>2. MemoryTypes'
    BY <1>1, <1>2, <1>6, <1>11, SMT DEF MemoryTypes
  <2>3. Quiet'
    BY <1>1, <1>2 DEF Quiet
  <2>4. Fresh'
    <3>1. \A n \in DOMAIN logs \cup DOMAIN tables : n \in Nat /\ n < next_number
      BY <1>1 DEF Structure, Fresh, DiskTypes
    <3>2. \A n \in partials : n \in Nat /\ n < next_number
      BY <1>1 DEF Structure, Fresh, DiskTypes
    <3>3. \A n \in DOMAIN logs' \cup DOMAIN tables' : n < next_number'
      BY <1>2, <1>6, <1>11, <1>12, <3>1, SMT
    <3>4. \A n \in partials' : n < next_number'
      BY <1>2, <1>6, <1>11, <3>2, SMT
    <3> QED
      BY <1>1, <1>2, <3>3, <3>4 DEF Structure, Fresh
  <2> QED
    BY <2>1, <2>2, <2>3, <2>4
<1>16. Owners'
  BY <1>2, MemoryFrame
<1>17. Numbered'
  <2>1. /\ LogRecords(DOMAIN logs)' = LogRecords(DOMAIN logs) /\ Pending' = Pending
        /\ UnlinkedRecords' = UnlinkedRecords /\ FrozenRecords' = FrozenRecords
    BY <1>2 DEF LogRecords, Pending, UnlinkedRecords, FrozenRecords
  <2>2. head \subseteq Everywhere
    BY <1>13, <1>14, ContentType
  <2>3. TableRecords \subseteq Everywhere
    BY DEF Everywhere
  <2>4. TableRecords' \subseteq TableRecords \cup head
    BY <1>12
  <2>5. LogRecords(DOMAIN logs)' \cup UnlinkedRecords' \cup active' \cup FrozenRecords' \cup Pending'
          \subseteq Everywhere
    BY <1>2, <2>1 DEF Everywhere
  <2>6. TableRecords' \subseteq Everywhere
    BY <2>2, <2>3, <2>4
  <2>7. Everywhere' \subseteq Everywhere
    BY <2>5, <2>6 DEF Everywhere
  <2> QED
    BY <1>2, <2>7, NumberedKept
<1>18. Seqs'
  <2>1. UnlinkedRecords' = UnlinkedRecords
    BY <1>2 DEF UnlinkedRecords
  <2>2. Ages'
    BY <1>1, <1>2, <1>6, <1>12, <2>1, AgesKept, NamedFiles
  <2>3. FlushAges'
    BY <1>2 DEF Structure, Seqs, FlushAges, LogRecords, Loaded
  <2> QED
    BY <2>2, <2>3 DEF Seqs
<1>19. Levels'
  BY <1>1, <1>2, <1>12, LevelsKept, NamedFiles
<1>20. Commits'
  BY <1>1, <1>2, <1>6 DEF Structure, Commits, FlushedFile
<1>21. Flush'
  <2>1. flusher.at \in {"write", "commit", "publish"} =>
          flusher.number \in Nat /\ flusher.number < next_number
    BY <1>1 DEF Flush
  <2>2. flusher.at \in {"write", "commit", "publish"} =>
          flusher.number < next_number' /\ flusher.number # next_number
    BY <1>6, <1>11, <2>1, SMT
  <2> QED
    BY <1>1, <1>2, <1>12, <2>1, <2>2 DEF Flush
<1>22. Compaction'
  <2>1. \A f \in compactor.added : f.number \in DOMAIN tables /\ f.number # next_number
    BY <1>1, <1>11 DEF Compaction, Written, Merging
  <2>2. new.number = next_number /\ new.level = compactor.level /\ new \in File
    BY <1>5, <1>11, <1>13 DEF File, Plan
  <2>3. Inputs' = Inputs
    BY <1>1, <1>2, <1>6 DEF Inputs
  <2>4. PICK I : I = Inputs
    OBVIOUS
  <2>5. /\ Content(I)' = Content(I)
        /\ \A f \in snapshot.files : tables'[f.number] = tables[f.number]
    <3>1. \A f \in snapshot.files : tables'[f.number] = tables[f.number]
      BY <1>1, <1>12, NamedFiles DEF Numbers
    <3>2. \A f \in I : tables'[f.number] = tables[f.number]
      BY <1>13, <2>4, <3>1
    <3> QED
      BY <3>1, <3>2 DEF Content
  <2>6. Content(Inputs)' = Content(Inputs)
    BY <2>3, <2>4, <2>5
  <2>7. Plan'
    BY <1>2, <1>6, <1>13, <2>3, <2>5, <2>6 DEF Plan
  <2>8. PICK A : A = compactor.added
    OBVIOUS
  <2>9. Content(A \cup {new})' = Content(A) \cup head
    <3>1. \A f \in A : tables'[f.number] = tables[f.number]
      BY <1>12, <2>1, <2>8
    <3> QED
      BY <1>12, <2>2, <3>1, SMT DEF Content
  <2>10. Content(compactor.added)' = Content(A) \cup head
    BY <1>6, <2>8, <2>9
  <2>11. Outputs' \subseteq Content(Inputs)'
    <3>1. UNION Range(rest) \subseteq Outputs
      BY <1>14 DEF Range
    <3>2. Outputs' = Content(A) \cup head \cup UNION Range(rest)
      BY <1>6, <1>8, <2>10 DEF Outputs
    <3> QED
      BY <1>14, <2>6, <2>8, <3>1, <3>2
  <2>12. \A f \in compactor'.added :
           /\ f.level = compactor.level /\ f.number \in DOMAIN tables'
           /\ f.number \notin Numbers(snapshot.files)
           /\ flusher.at \in {"commit", "publish"} => f.number # flusher.number
    <3>1. next_number \notin Numbers(snapshot.files)
      BY <1>1, <1>11, NamedFiles
    <3>2. flusher.at \in {"commit", "publish"} => flusher.number # next_number
      BY <1>1, <1>11 DEF Flush
    <3> QED
      BY <1>1, <1>6, <1>12, <2>2, <3>1, <3>2 DEF Compaction, Written, Merging
  <2>13. \A f, g \in compactor'.added :
           f # g => f.number # g.number /\ Disjoint(tables'[f.number], tables'[g.number])
    <3>1. \A f \in compactor.added : Disjoint(tables[f.number], head)
      BY <1>7, <1>9
    <3>2. \A f \in compactor.added : Disjoint(head, tables[f.number])
      BY <3>1 DEF Disjoint
    <3>3. \A f, g \in compactor.added :
            f # g => f.number # g.number /\ Disjoint(tables[f.number], tables[g.number])
      BY <1>1 DEF Compaction, Written, Merging
    <3>4. /\ \A f \in compactor.added : tables'[f.number] = tables[f.number]
          /\ tables'[new.number] = head
      BY <1>12, <2>1, <2>2
    <3> QED
      BY <1>6, <2>1, <2>2, <3>1, <3>2, <3>3, <3>4
  <2>14. Written'
    BY <1>1, <1>2, <1>6, <2>2, <2>11, <2>12, <2>13 DEF Compaction, Written, Merging
  <2>15. ToWrite'
    <3>1. \A i \in DOMAIN rest : \A f \in compactor.added : Disjoint(tables'[f.number], rest[i])
      BY <1>7, <1>9, <1>12, <2>1
    <3>2. \A i \in DOMAIN rest : Disjoint(head, rest[i])
      BY <1>7, <1>9
    <3>3. \A i \in DOMAIN rest : \A f \in compactor'.added : Disjoint(tables'[f.number], rest[i])
      BY <1>6, <1>12, <2>2, <3>1, <3>2
    <3>4. \A i, j \in DOMAIN rest : i # j => Disjoint(rest[i], rest[j])
      BY <1>7, <1>9
    <3>5. \A i \in DOMAIN rest : rest[i] # {} /\ OnePerKey(rest[i])
      BY <1>7, <1>9
    <3> QED
      BY <1>6, <1>8, <1>9, <3>3, <3>4, <3>5 DEF ToWrite
  <2> QED
    BY <1>6, <2>7, <2>14, <2>15 DEF Compaction, Planned, ToUnlink
<1> QED
  BY <1>15, <1>16, <1>17, <1>18, <1>19, <1>20, <1>21, <1>22 DEF Structure

\* Structure is kept by reading the last sequence number (compact_once).
LEMMA CompactReadsSeqKeeps ==
  ASSUME Structure, CompactReadsSeq
  PROVE  Structure'
<1>1. /\ phase = "up" /\ compactor.at = "write" /\ MemoryTypes /\ Compaction
  BY DEF CompactReadsSeq, Structure
<1>2. UNCHANGED <<policy, phase, logs, unsafe, tables, partials, manifest,
                  snapshot, durable, next_number, last_seq, active, active_logs,
                  frozen, l0, below, writer, flusher, faults, ever, shown, acked,
                  settled>>
  BY DEF CompactReadsSeq, numbering, memory, history
<1>3. /\ unlinked' = << >> /\ compactor'.at = "commit"
      /\ compactor'.level = compactor.level /\ compactor'.added = compactor.added
      /\ compactor'.removed = compactor.removed /\ compactor'.seq = last_seq
  BY DEF CompactReadsSeq
<1>4. last_seq \in 0 .. MaxSeq /\ last_seq <= last_seq
  BY <1>1, ConfigAssumption, SMT DEF MemoryTypes
<1>5. /\ DiskTypes' /\ MemoryTypes' /\ Quiet' /\ Fresh' /\ Owners' /\ Numbered'
      /\ Seqs' /\ Levels' /\ Flush'
  BY <1>1, <1>2, <1>3, <1>4, CompactorFrame DEF MemoryTypes
<1>6. Commits'
  BY <1>1, <1>2, <1>3 DEF Structure, Commits, FlushedFile
<1>7. Compaction'
  <2>1. Inputs' = Inputs
    BY <1>1, <1>2, <1>3 DEF Inputs
  <2>2. \A S : Content(S)' = Content(S)
    BY <1>2 DEF Content
  <2>3. PICK I : I = Inputs
    OBVIOUS
  <2>4. PICK A : A = compactor.added
    OBVIOUS
  <2>5. Content(Inputs)' = Content(Inputs)
    BY <2>1, <2>2, <2>3
  <2>6. Content(compactor.added)' = Content(compactor.added)
    BY <1>3, <2>2, <2>4
  <2>7. Outputs' \subseteq Outputs
    BY <1>3, <2>6 DEF Outputs
  <2>8. Plan /\ Written
    BY <1>1 DEF Compaction, Compacting
  <2>9. Plan'
    BY <1>2, <1>3, <2>1, <2>5, <2>8 DEF Plan
  <2>10. Written'
    BY <1>1, <1>2, <1>3, <2>5, <2>7, <2>8 DEF Written, Merging
  <2> QED
    BY <1>3, <2>9, <2>10 DEF Compaction, Planned, ToWrite, ToUnlink
<1> QED
  BY <1>5, <1>6, <1>7 DEF Structure

\* What a compaction commits is laid out like a manifest.
LEMMA MergedLayout ==
  ASSUME Structure, compactor.at = "commit"
  PROVE  /\ phase = "up" /\ compactor.added \subseteq File
         /\ compactor.seq \in 0 .. MaxSeq /\ compactor.seq <= last_seq
         /\ LET s == Committed(compactor.added, compactor.removed, compactor.seq)
            IN  /\ s.files = {f \in snapshot.files : f.number \notin compactor.removed}
                               \cup compactor.added
                /\ Layout(s.files)
                /\ \A r \in Content(compactor.added) : r.seq <= s.last_seq
<1>1. phase = "up"
  BY AtWork
<1>2. compactor.seq \in 0 .. MaxSeq /\ compactor.seq <= last_seq
  BY DEF Structure, MemoryTypes, Seqs, Ages
<1>3. PICK A : A = compactor.added
  OBVIOUS
<1>4. PICK K : K = {f \in snapshot.files : f.number \notin compactor.removed}
  OBVIOUS
<1>5. PICK s : s = Committed(compactor.added, compactor.removed, compactor.seq)
  OBVIOUS
<1>6. Plan /\ Written /\ Merging
  BY DEF Structure, Compaction, Compacting, Merging
<1>7. /\ A \subseteq File
      /\ \A f \in A : /\ f.level = compactor.level /\ f.number \in DOMAIN tables
                      /\ f.number \notin Numbers(snapshot.files)
      /\ \A f, g \in A :
           f # g => f.number # g.number /\ Disjoint(tables[f.number], tables[g.number])
      /\ Content(A) \subseteq Content(Inputs)
  BY <1>3, <1>6 DEF Written, Outputs
<1>8. /\ s.files = K \cup A
      /\ s.last_seq \in Nat /\ snapshot.last_seq <= s.last_seq
  BY <1>1, <1>2, <1>3, <1>4, <1>5, <1>7, CommittedIs, SMT
<1>9. \A g \in K : g \in snapshot.files \ Inputs
  BY <1>4 DEF Inputs
<1>10. Layout(snapshot.files)
  BY <1>1 DEF Structure, Levels
<1>11. ASSUME NEW f \in A, NEW g \in K, g.level = f.level
       PROVE  /\ Disjoint(tables[g.number], tables[f.number])
              /\ Disjoint(tables[f.number], tables[g.number])
  <2>1. Disjoint(tables[g.number], Content(Inputs))
    BY <1>6, <1>7, <1>9, <1>11 DEF Plan
  <2>2. tables[f.number] \subseteq Content(Inputs)
    BY <1>7 DEF Content
  <2> QED
    BY <2>1, <2>2 DEF Disjoint, LeftOf
<1>12. Layout(K \cup A)
  <2>1. Numbers(K \cup A) \subseteq DOMAIN tables
    BY <1>4, <1>7, <1>10 DEF Layout, Numbers
  <2>2. \A f \in A, g \in K : f.number # g.number
    BY <1>4, <1>7 DEF Numbers
  <2>3. \A f, g \in K \cup A : f.number = g.number => f = g
    BY <1>4, <1>7, <1>10, <2>2 DEF Layout
  <2>4. ASSUME NEW f \in K \cup A, NEW g \in K \cup A, f.level = g.level, f.level > 0, f # g
        PROVE  Disjoint(tables[f.number], tables[g.number])
    <3>1. CASE f \in K /\ g \in K
      BY <1>4, <1>10, <2>4, <3>1 DEF Layout
    <3>2. CASE f \in A /\ g \in K
      BY <1>11, <2>4, <3>2
    <3>3. CASE f \in K /\ g \in A
      BY <1>11, <2>4, <3>3
    <3>4. CASE f \in A /\ g \in A
      BY <1>7, <2>4, <3>4
    <3> QED
      BY <3>1, <3>2, <3>3, <3>4
  <2> QED
    BY <2>1, <2>3, <2>4 DEF Layout
<1>13. ASSUME NEW r \in Content(A)
       PROVE  r.seq <= s.last_seq
  <2>1. Content(Inputs) \subseteq Content(snapshot.files)
    BY <1>6 DEF Plan, Content
  <2>2. r \in Content(snapshot.files)
    BY <1>7, <1>13, <2>1
  <2>3. r.seq <= snapshot.last_seq
    BY <1>1, <2>2 DEF Structure, Seqs, Ages, Dated, UpTo
  <2>4. r \in Records
    BY <1>1, <2>2, ContentType, NamedFiles
  <2>5. r.seq \in Nat /\ snapshot.last_seq \in Nat
    BY <2>4, LoadedType, SMT DEF Records
  <2> QED
    BY <1>8, <2>3, <2>5, SMT
<1> QED
  BY <1>1, <1>2, <1>3, <1>4, <1>5, <1>7, <1>8, <1>12, <1>13

\* Structure is kept by the commit of a compaction (commit).
LEMMA CompactCommitsKeeps ==
  ASSUME Structure, CompactCommits
  PROVE  Structure'
<1>1. /\ phase = "up" /\ compactor.at = "commit" /\ durable = None
      /\ MemoryTypes /\ Compaction /\ flusher.at # "publish"
  <2>1. /\ phase = "up" /\ compactor.at = "commit" /\ durable = None
    BY DEF CompactCommits, ManifestStore
  <2> QED
    BY <2>1, NoneAssumption DEF Structure, Commits
<1>2. UNCHANGED <<policy, phase, logs, unsafe, tables, partials, snapshot,
                  next_number, last_seq, active, active_logs, frozen, l0, below,
                  writer, flusher, faults, ever, shown, acked, settled>>
  BY DEF CompactCommits, numbering, memory, history
<1>3. PICK s : s = Committed(compactor.added, compactor.removed, compactor.seq)
  OBVIOUS
<1>4. /\ manifest' = s /\ durable' = "compactor" /\ unlinked' = << >>
      /\ compactor'.at = "publish"
      /\ compactor'.level = compactor.level /\ compactor'.added = compactor.added
      /\ compactor'.removed = compactor.removed
  BY <1>3 DEF CompactCommits, ManifestStore
<1>5. /\ compactor.added \subseteq File
      /\ compactor.seq \in 0 .. MaxSeq /\ compactor.seq <= last_seq
      /\ s.files = {f \in snapshot.files : f.number \notin compactor.removed}
                     \cup compactor.added
      /\ Layout(s.files)
      /\ \A r \in Content(compactor.added) : r.seq <= s.last_seq
  BY <1>1, <1>3, MergedLayout
<1>6. /\ DiskTypes' /\ Fresh' /\ Levels' /\ Numbered' /\ Ages'
      /\ Loaded' = s /\ manifest' # None
  BY <1>1, <1>2, <1>3, <1>4, <1>5, StoreKeeps
<1>7. MemoryTypes' /\ Quiet' /\ Owners' /\ FlushAges' /\ Flush'
  <2>1. MemoryTypes'
    BY <1>1, <1>2, <1>4 DEF MemoryTypes
  <2>2. Quiet'
    BY <1>1, <1>2 DEF Quiet
  <2>3. Owners'
    BY <1>2, MemoryFrame
  <2>4. FlushAges'
    BY <1>1, <1>2 DEF Structure, Seqs, FlushAges, LogRecords
  <2>5. Flush'
    BY <1>2 DEF Structure, Flush
  <2> QED
    BY <2>1, <2>2, <2>3, <2>4, <2>5
<1>8. Commits'
  BY <1>1, <1>2, <1>4, <1>5, <1>6, NoneAssumption DEF Commits
<1>9. Compaction'
  <2>1. Inputs' = Inputs
    BY <1>1, <1>2, <1>4 DEF Inputs
  <2>2. \A S : Content(S)' = Content(S)
    BY <1>2 DEF Content
  <2>3. PICK I : I = Inputs
    OBVIOUS
  <2>4. PICK A : A = compactor.added
    OBVIOUS
  <2>5. Content(Inputs)' = Content(Inputs)
    BY <2>1, <2>2, <2>3
  <2>6. Content(compactor.added)' = Content(compactor.added)
    BY <1>4, <2>2, <2>4
  <2>7. Outputs' \subseteq Outputs
    BY <1>4, <2>6 DEF Outputs
  <2>8. Plan /\ Written
    BY <1>1 DEF Compaction, Compacting
  <2>9. Plan'
    BY <1>2, <1>4, <2>1, <2>5, <2>8 DEF Plan
  <2>10. Written'
    BY <1>1, <1>2, <1>4, <2>5, <2>7, <2>8 DEF Written, Merging
  <2> QED
    BY <1>4, <2>9, <2>10 DEF Compaction, Planned, ToWrite, ToUnlink
<1> QED
  BY <1>6, <1>7, <1>8, <1>9 DEF Structure, Seqs

\* Structure is kept by a compaction that fails, at its commit too
\* (compact_once).
LEMMA CompactFailsKeeps ==
  ASSUME Structure, CompactFails
  PROVE  Structure'
<1>1. /\ phase = "up" /\ MemoryTypes /\ compactor.at \in {"write", "commit", "unlink"}
  BY DEF CompactFails, Structure
<1>2. UNCHANGED <<policy, unlinked, phase, logs, unsafe, tables, partials, snapshot,
                  durable, next_number, last_seq, active, active_logs, frozen, l0,
                  below, writer, flusher, ever, shown, acked, settled>>
  BY DEF CompactFails, numbering, memory, history
<1>3. compactor'.at = "idle"
  BY DEF CompactFails, Idle
<1>4. faults' \in [restart : Nat, task : Nat, unlink : Nat, split : BOOLEAN]
  <2>1. faults' = [faults EXCEPT !.task = @ + 1]
    BY DEF CompactFails
  <2>2. faults \in [restart : Nat, task : Nat, unlink : Nat, split : BOOLEAN]
    BY <1>1 DEF MemoryTypes
  <2> QED
    BY <2>1, <2>2, MoreFaults
<1>5. Compaction'
  BY <1>3 DEF Compaction, Compacting, Planned, Written, Merging, ToWrite, ToUnlink
<1>6. CASE manifest' = manifest
  <2>1. /\ DiskTypes' /\ MemoryTypes' /\ Quiet' /\ Fresh' /\ Owners' /\ Numbered'
        /\ Seqs' /\ Levels' /\ Flush'
    BY <1>1, <1>2, <1>3, <1>4, <1>6, CompactorFrame
  <2>2. Commits'
    BY <1>1, <1>2, <1>3, <1>6 DEF Structure, Commits, FlushedFile
  <2> QED
    BY <1>5, <2>1, <2>2 DEF Structure
<1>7. CASE manifest' # manifest
  <2>1. compactor.at = "commit" /\ durable = None
    BY <1>7 DEF CompactFails
  <2>2. PICK s : s = Committed(compactor.added, compactor.removed, compactor.seq)
    OBVIOUS
  <2>3. manifest' = s
    BY <1>7, <2>2 DEF CompactFails
  <2>4. /\ compactor.added \subseteq File
        /\ compactor.seq \in 0 .. MaxSeq /\ compactor.seq <= last_seq
        /\ Layout(s.files)
        /\ \A r \in Content(compactor.added) : r.seq <= s.last_seq
    BY <2>1, <2>2, MergedLayout
  <2>5. DiskTypes' /\ Fresh' /\ Levels' /\ Numbered' /\ Ages'
    BY <1>1, <1>2, <1>3, <2>2, <2>3, <2>4, StoreKeeps
  <2>6. flusher.at # "publish" /\ flusher' = flusher
    BY <1>2, <2>1, NoneAssumption DEF Structure, Commits
  <2>7. MemoryTypes' /\ Quiet' /\ Owners' /\ FlushAges' /\ Flush'
    <3>1. MemoryTypes'
      BY <1>1, <1>2, <1>3, <1>4 DEF MemoryTypes
    <3>2. Quiet'
      BY <1>1, <1>2 DEF Quiet
    <3>3. Owners'
      BY <1>2, MemoryFrame
    <3>4. FlushAges'
      BY <1>2, <2>6 DEF Structure, Seqs, FlushAges, LogRecords
    <3>5. Flush'
      BY <1>2 DEF Structure, Flush
    <3> QED
      BY <3>1, <3>2, <3>3, <3>4, <3>5
  <2>8. Commits'
    BY <1>2, <1>3, <2>1, <2>6, NoneAssumption DEF Structure, Commits
  <2> QED
    BY <1>5, <2>5, <2>7, <2>8 DEF Structure, Seqs
<1> QED
  BY <1>6, <1>7

\* Structure is kept by unlinking an input (compact_once).
LEMMA CompactUnlinksKeeps ==
  ASSUME Structure, CompactUnlinks
  PROVE  Structure'
<1>1. /\ phase = "up" /\ compactor.at = "unlink" /\ DiskTypes /\ MemoryTypes
      /\ Flush /\ Compaction
  BY DEF CompactUnlinks, Structure
<1>2. UNCHANGED <<policy, unlinked, phase, logs, unsafe, partials, manifest, snapshot,
                  durable, next_number, last_seq, active, active_logs, frozen, l0,
                  below, writer, flusher, faults, ever, shown, acked, settled>>
  BY DEF CompactUnlinks, numbering, memory, history
<1>3. PICK n \in compactor.removed :
        /\ tables' = Without(tables, n)
        /\ compactor' = IF compactor.removed = {n} THEN Idle
                        ELSE [at |-> "unlink", removed |-> compactor.removed \ {n}]
  BY DEF CompactUnlinks
<1>4. /\ DOMAIN tables' = DOMAIN tables \ {n}
      /\ \A m \in DOMAIN tables' : tables'[m] = tables[m]
  BY <1>3 DEF Without, Restrict
<1>5. /\ compactor.removed \subseteq DOMAIN tables
      /\ compactor.removed \cap Numbers(snapshot.files) = {}
      /\ compactor.removed \cap Numbers(Loaded.files) = {}
      /\ flusher.at \in {"commit", "publish"} => flusher.number \notin compactor.removed
  BY <1>1 DEF Compaction, ToUnlink
<1>6. /\ n \notin Numbers(snapshot.files) /\ n \notin Numbers(Loaded.files)
      /\ flusher.at \in {"commit", "publish"} => flusher.number # n
  BY <1>3, <1>5
<1>7. \/ compactor'.at = "idle"
      \/ compactor'.at = "unlink" /\ compactor'.removed = compactor.removed \ {n}
  BY <1>3 DEF Idle
<1>8. DiskTypes' /\ MemoryTypes' /\ Quiet' /\ Fresh'
  <2>2. DiskTypes'
    BY <1>1, <1>2, <1>4 DEF DiskTypes
  <2>3. MemoryTypes'
    BY <1>1, <1>2, <1>7 DEF MemoryTypes
  <2>4. Quiet'
    BY <1>1, <1>2 DEF Quiet
  <2>5. Fresh'
    BY <1>1, <1>2, <1>4 DEF Structure, Fresh, Loaded
  <2> QED
    BY <2>2, <2>3, <2>4, <2>5
<1>9. Owners'
  BY <1>2, MemoryFrame
<1>10. Numbered'
  <2>1. /\ LogRecords(DOMAIN logs)' = LogRecords(DOMAIN logs) /\ Pending' = Pending
        /\ UnlinkedRecords' = UnlinkedRecords /\ FrozenRecords' = FrozenRecords
    BY <1>2 DEF LogRecords, Pending, UnlinkedRecords, FrozenRecords
  <2>2. TableRecords' \subseteq TableRecords
    BY <1>4 DEF TableRecords
  <2>3. Everywhere' \subseteq Everywhere
    BY <1>2, <2>1, <2>2, SMT DEF Everywhere
  <2> QED
    BY <1>2, <2>3, NumberedKept
<1>11. /\ \A m \in Numbers(Loaded.files) : m \in DOMAIN tables' /\ tables'[m] = tables[m]
       /\ \A m \in Numbers(snapshot.files) : m \in DOMAIN tables' /\ tables'[m] = tables[m]
  BY <1>1, <1>4, <1>6, NamedFiles
<1>12. Seqs'
  <2>1. UnlinkedRecords' = UnlinkedRecords
    BY <1>2 DEF UnlinkedRecords
  <2>2. Ages'
    BY <1>1, <1>2, <1>7, <1>11, <2>1, AgesKept
  <2>3. FlushAges'
    BY <1>2 DEF Structure, Seqs, FlushAges, LogRecords, Loaded
  <2> QED
    BY <2>2, <2>3 DEF Seqs
<1>13. Levels'
  BY <1>1, <1>2, <1>11, LevelsKept
<1>14. Commits'
  BY <1>1, <1>2, <1>7 DEF Structure, Commits, FlushedFile
<1>15. Flush'
  BY <1>1, <1>2, <1>4, <1>6 DEF Flush
<1>16. Compaction'
  <2>1. ToUnlink'
    <3>1. Loaded' = Loaded
      BY <1>2 DEF Loaded
    <3> QED
      BY <1>2, <1>4, <1>5, <1>7, <3>1 DEF ToUnlink
  <2> QED
    BY <1>7, <2>1 DEF Compaction, Compacting, Planned, Written, Merging, ToWrite
<1> QED
  BY <1>8, <1>9, <1>10, <1>12, <1>13, <1>14, <1>15, <1>16 DEF Structure

----------------------------------------------------------------------------
(* Logs stay backed while files are merged *)

\* Backed is kept by sealing an output table (write_merged).
LEMMA CompactSealsBacked ==
  ASSUME Structure, Backed, CompactSeals
  PROVE  Backed'
<1>1. /\ phase = "up" /\ compactor.at = "write" /\ compactor.todo # << >> /\ Compaction
  BY DEF CompactSeals, Structure
<1>2. UNCHANGED <<manifest, snapshot>>
  BY DEF CompactSeals
<1>3. PICK todo : todo = compactor.todo
  OBVIOUS
<1>4. PICK new : new = [number |-> next_number, level |-> compactor.level]
  OBVIOUS
<1>5. /\ tables' = With(tables, next_number, Head(todo)) /\ compactor'.at = "write"
      /\ compactor'.level = compactor.level /\ compactor'.removed = compactor.removed
      /\ compactor'.todo = Tail(todo) /\ compactor'.added = compactor.added \cup {new}
  BY <1>3, <1>4 DEF CompactSeals
<1>6. next_number \notin DOMAIN tables /\ new.number = next_number
  BY <1>1, <1>4, NamedFiles
<1>7. tables'[next_number] = Head(todo) /\ \A m \in DOMAIN tables : tables'[m] = tables[m]
  BY <1>5, <1>6 DEF With
<1>8. Caches'
  BY CompactCaches
<1>9. Settles'
  BY <1>1, <1>2, <1>7, CompactSettles, NamedFiles
<1>10. \A f \in snapshot.files : tables'[f.number] = tables[f.number]
  BY <1>1, <1>7, NamedFiles DEF Numbers
<1>11. Inputs' = Inputs /\ Inputs \subseteq snapshot.files
  BY <1>1, <1>2, <1>5 DEF Inputs
<1>12. PICK I : I = Inputs
  OBVIOUS
<1>13. Content(I)' = Content(I)
  BY <1>10, <1>11, <1>12 DEF Content
<1>14. Content(Inputs)' = Content(Inputs)
  BY <1>11, <1>12, <1>13
<1>15. Outputs \subseteq Outputs'
  <2>1. PICK A : A = compactor.added
    OBVIOUS
  <2>2. \A f \in A : f.number \in DOMAIN tables
    BY <1>1, <2>1 DEF Compaction, Written, Merging
  <2>3. Content(A) \cup Head(todo) \subseteq Content(A \cup {new})'
    BY <1>6, <1>7, <2>2 DEF Content
  <2>4. Content(A) \cup Head(todo) \subseteq Content(compactor.added)'
    BY <1>5, <2>1, <2>3
  <2>5. UNION Range(todo) \subseteq Head(todo) \cup UNION Range(Tail(todo))
    <3>1. todo \in Seq(SUBSET Records) /\ todo # << >>
      BY <1>1, <1>3 DEF Compaction, ToWrite
    <3>2. \A i \in DOMAIN todo : todo[i] = Head(todo) \/ \E k \in DOMAIN Tail(todo) : todo[i] = Tail(todo)[k]
      <4>1. ASSUME NEW i \in DOMAIN todo, i # 1
            PROVE  \E k \in DOMAIN Tail(todo) : todo[i] = Tail(todo)[k]
        <5>1. PICK k \in DOMAIN Tail(todo) : k = i - 1
          BY <3>1, <4>1, SMT
        <5> QED
          BY <3>1, <4>1, <5>1, SMT
      <4>2. todo[1] = Head(todo)
        BY <3>1, SMT
      <4> QED
        BY <4>1, <4>2
    <3> QED
      BY <3>2 DEF Range
  <2> QED
    BY <1>1, <1>3, <1>5, <2>1, <2>4, <2>5 DEF Outputs
<1>16. MergeComplete'
  BY <1>1, <1>2, <1>5, <1>10, <1>14, <1>15, SMT DEF Backed, MergeComplete, Merging
<1> QED
  BY <1>8, <1>9, <1>16 DEF Backed

\* From the last output on, nothing more is written.
LEMMA CompactMoves ==
  ASSUME Structure, Backed, compactor.at \in {"write", "commit"},
         compactor.at = "write" => compactor.todo = << >>,
         UNCHANGED <<snapshot, tables>>, compactor'.at \in {"commit", "publish"},
         compactor'.level = compactor.level, compactor'.added = compactor.added,
         compactor'.removed = compactor.removed
  PROVE  MergeComplete'
<1>1. Inputs' = Inputs
  BY DEF Inputs
<1>2. PICK I : I = Inputs
  OBVIOUS
<1>3. PICK A : A = compactor.added
  OBVIOUS
<1>4. Content(I)' = Content(I) /\ Content(A)' = Content(A)
  BY DEF Content
<1>5. Content(Inputs)' = Content(Inputs) /\ Content(compactor.added)' = Content(compactor.added)
  BY <1>1, <1>2, <1>3, <1>4
<1>6. Outputs' = Outputs
  <2>1. compactor.at = "write" => UNION Range(compactor.todo) = {}
    BY SMT DEF Range
  <2> QED
    BY <1>5, <2>1 DEF Outputs
<1> QED
  BY <1>5, <1>6, SMT DEF Backed, MergeComplete, Merging

\* Backed is kept by reading the last sequence number (compact_once).
LEMMA CompactReadsSeqBacked ==
  ASSUME Structure, Backed, CompactReadsSeq
  PROVE  Backed'
<1>1. /\ UNCHANGED <<manifest, snapshot, tables>> /\ compactor.at = "write"
      /\ compactor.todo = << >> /\ compactor'.at = "commit"
      /\ compactor'.level = compactor.level /\ compactor'.added = compactor.added
      /\ compactor'.removed = compactor.removed
  BY DEF CompactReadsSeq
<1>2. Caches'
  BY CompactCaches
<1>3. Settles'
  BY <1>1, CompactSettles
<1>4. MergeComplete'
  BY <1>1, CompactMoves
<1> QED
  BY <1>2, <1>3, <1>4 DEF Backed

\* What a compaction replaces stays stored in what it commits.
LEMMA MergedStores ==
  ASSUME Structure, Backed, compactor.at = "commit",
         NEW s, s = Committed(compactor.added, compactor.removed, compactor.seq)
  PROVE  /\ Content(s.files) \subseteq settled
         /\ \A r \in Records : Stored(snapshot.files, r) => Stored(s.files, r)
<1>1. PICK A : A = compactor.added
  OBVIOUS
<1>2. PICK K : K = {f \in snapshot.files : f.number \notin compactor.removed}
  OBVIOUS
<1>3. phase = "up" /\ s.files = K \cup A
  BY <1>1, <1>2, MergedLayout
<1>4. Plan /\ Written /\ Merging
  BY DEF Structure, Compaction, Compacting, Merging
<1>5. Outputs = Content(A) /\ Outputs \subseteq Content(Inputs)
  BY <1>1, <1>4 DEF Outputs, Written
<1>6. Content(Inputs) \subseteq Content(snapshot.files)
  BY <1>4 DEF Plan, Content
<1>7. Content(snapshot.files) \subseteq settled
  BY <1>3 DEF Backed, Settles
<1>8. Content(K \cup A) = Content(K) \cup Content(A) /\ Content(K) \subseteq Content(snapshot.files)
  BY <1>2 DEF Content
<1>9. ASSUME NEW r \in Records, CoveredBy(Content(snapshot.files), r)
      PROVE  Stored(K \cup A, r)
  <2>1. PICK u \in Content(snapshot.files) : u.key = r.key /\ u.seq >= r.seq
    BY <1>9 DEF CoveredBy
  <2>2. PICK f \in snapshot.files : u \in tables[f.number]
    BY <2>1 DEF Content
  <2>3. CASE f \in K
    <3>1. u \in Content(K \cup A)
      BY <2>2, <2>3 DEF Content
    <3> QED
      BY <2>1, <3>1 DEF Stored, CoveredBy
  <2>4. CASE f \notin K
    <3>1. f \in Inputs
      BY <1>2, <2>4 DEF Inputs
    <3>2. u \in Content(Inputs)
      BY <2>2, <3>1 DEF Content
    <3>3. PICK d \in Content(Inputs) :
            d.key = u.key /\ d.seq >= u.seq /\ (d \in Outputs \/ d.deleted)
      BY <1>4, <3>2 DEF Backed, MergeComplete
    <3>4. Content(snapshot.files) \subseteq Records
      BY <1>3, ContentType, NamedFiles
    <3>5. d.seq >= r.seq
      <4>1. d.seq \in Nat /\ u.seq \in Nat /\ r.seq \in Nat
        BY <1>6, <1>9, <2>1, <3>3, <3>4, ConfigAssumption, SMT DEF Records
      <4> QED
        BY <2>1, <3>3, <4>1, SMT
    <3> QED
      BY <1>5, <1>6, <1>7, <1>8, <2>1, <3>3, <3>5 DEF Stored, CoveredBy
  <2> QED
    BY <2>3, <2>4
<1>10. ASSUME NEW r \in Records, Stored(snapshot.files, r)
       PROVE  Stored(s.files, r)
  BY <1>3, <1>9, <1>10 DEF Stored
<1> QED
  BY <1>3, <1>5, <1>6, <1>7, <1>8, <1>10

\* Backed is kept by the commit of a compaction, failed or not (commit).
LEMMA CompactCommitsBacked ==
  ASSUME Structure, Backed, CompactCommits \/ CompactFails
  PROVE  Backed'
<1>1. /\ phase = "up" /\ Caches'
      /\ UNCHANGED <<phase, logs, active, active_logs, frozen, writer, flusher, settled>>
  BY CompactCaches
<1>2. UNCHANGED <<snapshot, tables>>
  BY DEF CompactCommits, CompactFails
<1>3. MergeComplete'
  <2>1. CASE CompactCommits
    <3>1. /\ compactor.at = "commit" /\ compactor'.at = "publish"
          /\ compactor'.level = compactor.level /\ compactor'.added = compactor.added
          /\ compactor'.removed = compactor.removed
      BY <2>1 DEF CompactCommits
    <3> QED
      BY <1>2, <3>1, CompactMoves
  <2>2. CASE CompactFails
    BY <2>2 DEF CompactFails, Idle, MergeComplete, Merging
  <2> QED
    BY <2>1, <2>2
<1>4. CASE manifest' = manifest /\ CompactFails
  <2>1. Settles'
    BY <1>2, <1>4, CompactSettles
  <2> QED
    BY <1>1, <1>3, <2>1 DEF Backed
<1>5. CASE manifest' # manifest \/ CompactCommits
  <2>1. PICK s : s = Committed(compactor.added, compactor.removed, compactor.seq)
    OBVIOUS
  <2>2. compactor.at = "commit" /\ manifest' = s
    BY <1>5, <2>1 DEF CompactCommits, CompactFails, ManifestStore
  <2>3. Loaded' = s
    <3>1. s # None
      BY <2>1, <2>2, MergedLayout, CommittedIs, SMT
    <3> QED
      BY <2>2, <3>1 DEF Loaded
  <2>4. /\ Content(s.files) \subseteq settled
        /\ \A r \in Records : Stored(snapshot.files, r) => Stored(s.files, r)
    BY <2>1, <2>2, MergedStores
  <2>5. flusher.at = "unlink" => \A r \in LogRecords(Range(flusher.logs)) : Stored(s.files, r)
    <3>1. flusher.at = "unlink" => LogRecords(Range(flusher.logs)) \subseteq LogRecords(DOMAIN logs)
      BY <1>1 DEF Structure, Owners, LogList, LogRecords
    <3>2. LogRecords(DOMAIN logs) \subseteq Records
      BY EverywhereType DEF Everywhere
    <3> QED
      BY <2>4, <3>1, <3>2 DEF Backed, Settles
  <2>6. Settles'
    BY <1>1, <1>2, <2>3, <2>4, <2>5, SettlesCommitted DEF Backed
  <2> QED
    BY <1>1, <1>3, <2>6 DEF Backed
<1> QED
  BY <1>4, <1>5

\* Backed is kept by the switch of a compaction to its tables in memory (commit).
LEMMA CompactPublishesBacked ==
  ASSUME Structure, Backed, CompactPublishes
  PROVE  Backed'
<1>1. /\ phase = "up" /\ Caches'
      /\ UNCHANGED <<phase, logs, active, active_logs, frozen, writer, flusher, settled>>
  BY CompactCaches
<1>2. /\ UNCHANGED <<tables, manifest>> /\ snapshot' = manifest /\ compactor'.at = "unlink"
  BY DEF CompactPublishes, disk
<1>3. Loaded = manifest /\ Loaded' = manifest
  BY <1>2 DEF CompactPublishes, Structure, Commits, Loaded
<1>4. MergeComplete'
  BY <1>2 DEF MergeComplete, Merging
<1>5. Settles'
  <2>1. PICK S : S = manifest.files
    OBVIOUS
  <2>2. Content(S)' = Content(S)
    BY <1>2 DEF Content
  <2>3. Content(Loaded.files)' \subseteq settled' /\ Content(snapshot.files)' \subseteq settled'
    BY <1>1, <1>2, <1>3, <2>1, <2>2 DEF Backed, Settles
  <2>4. ASSUME flusher.at = "unlink", NEW r \in LogRecords(Range(flusher.logs))'
        PROVE  Stored(S, r)'
    <3>1. r \in LogRecords(Range(flusher.logs))
      BY <1>1, <2>4 DEF LogRecords
    <3>2. Stored(S, r)
      BY <1>3, <2>1, <2>4, <3>1 DEF Backed, Settles
    <3> QED
      BY <1>1, <1>2, <3>2, StoredKept
  <2>5. flusher'.at = "unlink" => \A r \in LogRecords(Range(flusher.logs))' :
          Stored(snapshot.files, r)' /\ Stored(Loaded.files, r)'
    BY <1>1, <1>2, <1>3, <2>1, <2>4
  <2> QED
    BY <2>3, <2>5 DEF Settles
<1> QED
  BY <1>1, <1>4, <1>5 DEF Backed

\* Backed is kept by unlinking an input (compact_once).
LEMMA CompactUnlinksBacked ==
  ASSUME Structure, Backed, CompactUnlinks
  PROVE  Backed'
<1>1. UNCHANGED <<manifest, snapshot>> /\ compactor'.at \notin {"write", "commit", "publish"}
  BY SMT DEF CompactUnlinks, Idle
<1>2. PICK n \in compactor.removed : tables' = Without(tables, n)
  BY DEF CompactUnlinks
<1>3. n \notin Numbers(snapshot.files) /\ n \notin Numbers(Loaded.files) /\ phase = "up"
  BY <1>2 DEF CompactUnlinks, Structure, Compaction, ToUnlink
<1>4. \A m \in Numbers(Loaded.files) \cup Numbers(snapshot.files) : tables'[m] = tables[m]
  BY <1>2, <1>3, NamedFiles DEF Without, Restrict
<1>5. Caches'
  BY CompactCaches
<1>6. Settles'
  BY <1>1, <1>4, CompactSettles
<1>7. MergeComplete'
  BY <1>1 DEF MergeComplete, Merging
<1> QED
  BY <1>5, <1>6, <1>7 DEF Backed
=============================================================================
