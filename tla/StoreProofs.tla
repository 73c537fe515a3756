---------------------------- MODULE StoreProofs -----------------------------
(***************************************************************************)
(* Every step keeps the invariant of Store; the properties that follow     *)
(* from it, for any number of writers, keys, writes, crashes and failures. *)
(***************************************************************************)
EXTENDS StoreBackground, StoreOpening, StoreProperties

USE Zenon

----------------------------------------------------------------------------
(* The invariant, and what follows from it *)

\* Every step keeps it, one action at a time.
LEMMA NextKeeps ==
  ASSUME Structure, Finite, [Next]_vars
  PROVE  Structure'
<1>1. CASE \E w \in Writers :
             \/ WriteAppends(w) \/ WriteInserts(w) \/ FlushCall(w)
             \/ Rotate(w) \/ RotateFails(w) \/ RotateSkips(w) \/ RotateDrops(w)
  BY <1>1, WriteAppendsKeeps, WriteInsertsKeeps, FlushCallKeeps, RotateKeeps,
     RotateFailsKeeps, RotateSkipsKeeps, RotateDropsKeeps
<1>2. CASE Sync
  BY <1>2, SyncKeeps
<1>3. CASE FlushStarts \/ FlushRenames \/ FlushCommits \/ FlushPublishes
             \/ FlushUnlinks \/ FlushUnlinkFails \/ FlushFails
  BY <1>3, FlushStartsKeeps, FlushRenamesKeeps, FlushCommitsKeeps,
     FlushPublishesKeeps, FlushUnlinksKeeps, FlushUnlinkFailsKeeps, FlushFailsKeeps
<1>4. CASE CompactPlans \/ CompactMerges \/ CompactSeals \/ CompactReadsSeq
             \/ CompactCommits \/ CompactPublishes \/ CompactUnlinks \/ CompactFails
  BY <1>4, CompactPlansKeeps, CompactMergesKeeps, CompactSealsKeeps,
     CompactReadsSeqKeeps, CompactCommitsKeeps, CompactPublishesKeeps,
     CompactUnlinksKeeps, CompactFailsKeeps
<1>5. CASE Close \/ Crash
  BY <1>5, CloseKeeps, CrashKeeps
<1>6. CASE OpenScans \/ OpenRemovesOrphan \/ OpenFinishes
  BY <1>6, OpenScansKeeps, OpenRemovesOrphanKeeps, OpenFinishesKeeps
<1>7. CASE UNCHANGED vars
  BY <1>7, StutterKeeps
<1> QED
  BY <1>1, <1>2, <1>3, <1>4, <1>5, <1>6, <1>7 DEF Next

\* The structure of the store is kept by every write, flush, compaction, failure,
\* crash and open (Engine).
THEOREM StoreKeepsStructure == Spec => [](Structure /\ Finite)
<1>1. Init => Structure /\ Finite
  BY InitKeeps, InitFinite
<1>2. (Structure /\ Finite) /\ [Next]_vars => (Structure /\ Finite)'
  BY NextKeeps, FiniteKept
<1> QED
  BY <1>1, <1>2, PTL DEF Spec

\* Every variable of the store keeps its type (Engine, State, Snapshot).
THEOREM StoreTypes == Spec => []TypeOK
<1>1. Structure => TypeOK
  BY DEF Structure, DiskTypes, MemoryTypes, TypeOK
<1> QED
  BY <1>1, StoreKeepsStructure, PTL

\* The next number names no log, table or half-written table on disk, whatever
\* failed and whenever the crash came (next_number, open).
THEOREM NumbersNeverReused == Spec => []NumbersFresh
<1>1. Structure => NumbersFresh
  BY DEF Structure, Fresh, NumbersFresh
<1> QED
  BY <1>1, StoreKeepsStructure, PTL

\* The manifest on disk never names a table that is gone: the compactor unlinks
\* only what neither it nor memory names, and open only orphans (commit,
\* compact_once, open_levels).
THEOREM ManifestNamesFiles == Spec => []ManifestFilesExist
<1>1. Structure => ManifestFilesExist
  BY DEF Structure, Levels, Layout, Loaded, ManifestFilesExist
<1> QED
  BY <1>1, StoreKeepsStructure, PTL

\* Memory holds the files of the snapshot, level 0 newest first and every deeper
\* level in disjoint key ranges, so that one file per level may hold a key
\* (State, commit, write_merged, open_levels).
THEOREM LevelsStayInOrder == Spec => []LevelsInOrder
<1>1. ASSUME Structure
      PROVE  LevelsInOrder
  <2>1. SUFFICES ASSUME phase = "up"
                 PROVE  LevelsInOrder
    BY DEF LevelsInOrder
  <2>2. Levels /\ Layout(snapshot.files) /\ DiskTypes
    BY <1>1, <2>1 DEF Structure, Levels
  <2>3. ASSUME NEW f \in below, NEW g \in below, f.level = g.level, f # g
        PROVE  MaxKey(f.number) < MinKey(g.number) \/ MaxKey(g.number) < MinKey(f.number)
    <3>1. f \in snapshot.files /\ g \in snapshot.files /\ f.level > 0
      BY <2>1, <2>2, <2>3 DEF Levels
    <3>2. Disjoint(tables[f.number], tables[g.number])
      BY <2>2, <2>3, <3>1 DEF Layout
    <3>3. f.number \in DOMAIN tables /\ g.number \in DOMAIN tables
      BY <2>2, <3>1 DEF Layout, Numbers
    <3>4. /\ tables[f.number] \subseteq Records /\ tables[f.number] # {}
          /\ tables[g.number] \subseteq Records /\ tables[g.number] # {}
      BY <2>2, <3>3 DEF DiskTypes
    <3> QED
      BY <3>2, <3>4, RangesApart DEF Disjoint
  <2> QED
    BY <2>1, <2>2, <2>3 DEF Levels, LevelsInOrder
<1> QED
  BY <1>1, StoreKeepsStructure, PTL

\* A compaction finds every file it planned to read, though flushes commit and
\* publish between its plan and its own commit (compact_once).
THEOREM PlanStaysCurrent == Spec => []PlanIsCurrent
<1>1. ASSUME Structure
      PROVE  PlanIsCurrent
  <2>1. SUFFICES ASSUME compactor.at \in {"find", "write", "commit"}
                 PROVE  PlanIsCurrent
    BY DEF PlanIsCurrent
  <2>2. phase = "up" /\ Levels /\ Compaction
    BY <1>1, <2>1, AtWork DEF Structure
  <2>3. Plan
    BY <2>1, <2>2 DEF Compaction, Compacting
  <2>4. \A f \in snapshot.files : f.level = 0 \/ f.level > 0
    BY <1>1, LoadedType, SMT DEF File
  <2>5. Numbers(snapshot.files) \subseteq Held
    BY <2>2, <2>4 DEF Levels, Held, Numbers, AtLevel
  <2>6. compactor.at = "find" => Numbers(compactor.inputs) \subseteq Held
    BY <2>3, <2>5 DEF Plan, Inputs, Numbers
  <2>7. compactor.at # "find" => compactor.removed \subseteq Held
    BY <2>1, <2>2, <2>5 DEF Compaction, Written, Merging
  <2> QED
    BY <2>6, <2>7 DEF PlanIsCurrent
<1> QED
  BY <1>1, StoreKeepsStructure, PTL

\* Backed is kept by every step of the store.
LEMMA NextBacked ==
  ASSUME Structure, Finite, Backed, [Next]_vars
  PROVE  Backed'
<1>1. Structure'
  BY NextKeeps
<1>2. CASE \E w \in Writers :
             \/ WriteAppends(w) \/ WriteInserts(w) \/ FlushCall(w)
             \/ Rotate(w) \/ RotateFails(w) \/ RotateSkips(w) \/ RotateDrops(w)
  BY <1>2, WriteAppendsBacked, WriteInsertsBacked, CallsBacked, RotateBacked
<1>3. CASE Sync
  BY <1>3, SyncBacked
<1>4. CASE FlushStarts \/ FlushRenames \/ FlushCommits \/ FlushPublishes
             \/ FlushUnlinks \/ FlushUnlinkFails \/ FlushFails
  BY <1>1, <1>4, FlushStartsBacked, FlushRenamesBacked, FlushCommitsBacked,
     FlushPublishesBacked, FlushUnlinksBacked
<1>5. CASE CompactPlans \/ CompactMerges \/ CompactSeals \/ CompactReadsSeq
             \/ CompactCommits \/ CompactPublishes \/ CompactUnlinks \/ CompactFails
  BY <1>5, CompactPlansBacked, CompactMergesBacked, CompactSealsBacked,
     CompactReadsSeqBacked, CompactCommitsBacked, CompactPublishesBacked,
     CompactUnlinksBacked
<1>6. CASE Close \/ Crash \/ OpenScans \/ OpenRemovesOrphan
  BY <1>1, <1>6, DownStepsBacked
<1>7. CASE OpenFinishes
  BY <1>7, OpenFinishesBacked
<1>8. CASE UNCHANGED vars
  BY <1>8, StutterBacked
<1> QED
  BY <1>2, <1>3, <1>4, <1>5, <1>6, <1>7, <1>8 DEF Next

----------------------------------------------------------------------------
(* Logs stay backed *)

\* Every log is backed by the memtable that owns it, and every log about to be
\* unlinked by the files of the manifest, or by a tombstone that outlived them
\* (Engine: write_batch, flush, compact_once, open).
THEOREM StoreKeepsBacked == Spec => [](Structure /\ Backed)
<1>1. Init => Backed
  BY InitBacked
<1>2. (Structure /\ Finite) /\ Backed /\ [Next]_vars => Backed'
  BY NextBacked
<1> QED
  BY <1>1, <1>2, StoreKeepsStructure, PTL DEF Spec

\* Only the flusher unlinks a log, and only the first one on its list.
LEMMA LogsUnlinked ==
  ASSUME Structure, [Next]_vars, NEW n \in DOMAIN logs, n \notin DOMAIN logs'
  PROVE  FlushUnlinks /\ n \in Range(flusher.logs) /\ flusher.at = "unlink"
<1>1. CASE FlushUnlinks
  <2>1. n = Head(flusher.logs) /\ flusher.at = "unlink" /\ phase = "up"
    BY <1>1 DEF FlushUnlinks, LogsLeft, Without, Restrict
  <2>2. flusher.logs \in Seq(Nat) /\ flusher.logs # << >>
    BY <2>1 DEF Structure, Owners, LogList
  <2> QED
    BY <1>1, <2>1, <2>2, SMT DEF Range
<1>2. CASE Crash
  <2>1. PICK lost, kept : logs' = Restored(lost, kept)
    BY <1>2 DEF Crash
  <2>2. DOMAIN logs \subseteq DOMAIN logs'
    BY <2>1 DEF Restored
  <2> QED
    BY <2>2
<1>3. CASE OpenFinishes
  BY <1>3 DEF OpenFinishes, With
<1>4. ASSUME NEW w \in Writers,
             \/ WriteAppends(w) \/ WriteInserts(w) \/ FlushCall(w)
             \/ Rotate(w) \/ RotateFails(w) \/ RotateSkips(w) \/ RotateDrops(w)
      PROVE  DOMAIN logs \subseteq DOMAIN logs'
  BY <1>4 DEF WriteAppends, WriteInserts, FlushCall, Rotate, RotateFails, RotateSkips,
              RotateDrops, With, disk
<1>5. CASE \/ Sync \/ FlushStarts \/ FlushRenames \/ FlushCommits \/ FlushPublishes
           \/ FlushUnlinkFails \/ FlushFails
           \/ CompactPlans \/ CompactMerges \/ CompactSeals \/ CompactReadsSeq
           \/ CompactCommits \/ CompactPublishes \/ CompactUnlinks \/ CompactFails
           \/ Close \/ OpenScans \/ OpenRemovesOrphan \/ UNCHANGED vars
  BY <1>5, LogsUntouched
<1> QED
  BY <1>1, <1>2, <1>3, <1>4, <1>5 DEF Next

\* A log is unlinked only when each of its records has a version at least as new in
\* a table of the manifest on disk, or a newer tombstone that reached one: whenever
\* a crash comes, nothing is lost with the log (flush, Manifest::store).
THEOREM LogsUnlinkedLast == Spec => LogsGoLast
<1>1. ASSUME Structure, Backed, [Next]_vars
      PROVE  \A n \in DOMAIN logs \ DOMAIN logs' : \A r \in logs[n] :
               \/ /\ manifest # None
                  /\ \E f \in manifest.files : \E s \in tables[f.number] :
                       s.key = r.key /\ s.seq >= r.seq
               \/ \E s \in settled : s.key = r.key /\ s.seq >= r.seq /\ s.deleted
  <2>1. TAKE n \in DOMAIN logs \ DOMAIN logs'
  <2>2. TAKE r \in logs[n]
  <2>3. n \in Range(flusher.logs) /\ flusher.at = "unlink"
    BY <1>1, LogsUnlinked
  <2>4. r \in LogRecords(Range(flusher.logs))
    BY <2>3 DEF LogRecords
  <2>5. Stored(Loaded.files, r)
    BY <1>1, <2>3, <2>4 DEF Backed, Settles
  <2>6. CASE CoveredBy(Content(Loaded.files), r)
    <3>1. PICK f \in Loaded.files : \E s \in tables[f.number] : s.key = r.key /\ s.seq >= r.seq
      BY <2>6 DEF CoveredBy, Content
    <3>2. manifest # None /\ Loaded = manifest
      BY <3>1 DEF Loaded, NoSnapshot
    <3> QED
      BY <3>1, <3>2
  <2> QED
    BY <2>5, <2>6 DEF Stored
<1> QED
  BY <1>1, StoreKeepsBacked, PTL DEF Spec, LogsGoLast
=============================================================================
