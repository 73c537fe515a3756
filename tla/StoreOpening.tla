---------------------------- MODULE StoreOpening ----------------------------
(***************************************************************************)
(* The steps of Store that put files or records in order keep its          *)
(* invariant: planning and merging, publishing a merge, and opening after  *)
(* a crash.                                                                *)
(***************************************************************************)
EXTENDS StoreWrites, StoreMerges

USE Zenon

----------------------------------------------------------------------------
(* The compactor *)

\* There are finitely many files, so there is a deepest level.
LEMMA FilesFinite ==
  ASSUME NEW files, files \subseteq File, Layout(files), IsFiniteSet(DOMAIN tables)
  PROVE  IsFiniteSet(files) /\ Deepest(files) \in Nat /\ \A f \in files : f.level <= Deepest(files)
<1>1. PICK D : D = DOMAIN tables
  OBVIOUS
<1>2. PICK g : g = [f \in files |-> f.number]
  OBVIOUS
<1>3. g \in Injection(files, D)
  <2>1. g \in [files -> D]
    BY <1>1, <1>2 DEF Layout, Numbers
  <2>2. \A x, y \in files : g[x] = g[y] => x = y
    BY <1>2 DEF Layout
  <2> QED
    BY <2>1, <2>2 DEF Injection, IsInjective
<1>4. IsFiniteSet(files)
  BY <1>1, <1>3, FS_Injection
<1>5. PICK L : L = {f.level : f \in files}
  OBVIOUS
<1>6. PICK h : h = [f \in files |-> f.level]
  OBVIOUS
<1>7. h \in Surjection(files, L)
  BY <1>5, <1>6 DEF Surjection
<1>8. IsFiniteSet(L)
  BY <1>4, <1>7, FS_Surjection
<1>9. \A x \in L : x \in Nat
  BY <1>5 DEF File
<1>10. L \subseteq Nat
  BY <1>9
<1>11. Highest(L) \in Nat /\ \A x \in L : x <= Highest(L)
  BY <1>8, <1>10, HighestIs
<1> QED
  BY <1>4, <1>5, <1>11 DEF Deepest

\* Structure is kept by planning a compaction (plan).
LEMMA CompactPlansKeeps ==
  ASSUME Structure, Finite, CompactPlans
  PROVE  Structure'
<1>1. phase = "up" /\ compactor.at = "idle" /\ DiskTypes /\ MemoryTypes /\ Levels
  BY DEF CompactPlans, Structure
<1>2. UNCHANGED <<policy, phase, logs, unsafe, unlinked, tables, partials, manifest,
                  snapshot, durable, next_number, last_seq, active, active_logs,
                  frozen, l0, below, writer, flusher, faults, ever, shown, acked,
                  settled>>
  BY DEF CompactPlans, disk, numbering, memory, history
<1>3. PICK level \in PlanLevels(snapshot.files) :
        compactor' = [at |-> "find", level |-> level + 1, planned |-> snapshot.files,
                      inputs |-> InputsFor(snapshot.files, level)]
  BY DEF CompactPlans
<1>4. PICK S : S = snapshot.files
  OBVIOUS
<1>5. S \subseteq File /\ Layout(S) /\ IsFiniteSet(DOMAIN tables)
  BY <1>1, <1>4, LoadedType DEF Levels, Finite
<1>6. level \in Nat
  <2>1. Deepest(S) \in Nat
    BY <1>5, FilesFinite
  <2>2. level \in 0 .. Deepest(S)
    BY <1>3, <1>4 DEF PlanLevels
  <2> QED
    BY <2>1, <2>2, SMT
<1>7. PICK I : I = InputsFor(S, level)
  OBVIOUS
<1>8. /\ I \subseteq S /\ (\A f \in I : f.level \in {level, level + 1})
      /\ level = 0 => AtLevel(S, 0) \subseteq I
      /\ \A g \in S \ I : g.level = level + 1 => Disjoint(tables[g.number], Content(I))
  BY <1>1, <1>5, <1>6, <1>7, InputsApart DEF DiskTypes
<1>9. /\ compactor'.at = "find" /\ compactor'.level = level + 1
      /\ compactor'.planned = S /\ compactor'.inputs = I
  BY <1>3, <1>4, <1>7
<1>10. /\ DiskTypes' /\ MemoryTypes' /\ Quiet' /\ Fresh' /\ Owners' /\ Numbered'
       /\ Seqs' /\ Levels' /\ Flush'
  BY <1>1, <1>2, <1>9, CompactorFrame DEF MemoryTypes
<1>11. Commits'
  BY <1>1, <1>2, <1>9 DEF Structure, Commits, FlushedFile
<1>12. Compaction'
  <2>1. Inputs' = I /\ snapshot'.files = S
    BY <1>2, <1>4, <1>9 DEF Inputs
  <2>2. Content(I)' = Content(I)
    BY <1>2 DEF Content
  <2>3. Content(Inputs)' = Content(I)
    BY <2>1, <2>2
  <2>5. ASSUME NEW g \in S \ I, NEW f \in I, g.level = 0, f.level = 0
        PROVE  f.number < g.number
    BY <1>6, <1>8, <2>5, SMT DEF AtLevel
  <2>6. Plan'
    <3>1. PICK down \in Nat \ {0} : down = level + 1 /\ level = down - 1
      BY <1>6, SMT
    <3>2. \A g \in S \ I : g.level = down => Disjoint(tables[g.number], Content(I))
      BY <1>8, <3>1
    <3>3. \A f \in I : f.level \in {down - 1, down}
      BY <1>8, <3>1
    <3>4. compactor'.level = down /\ tables' = tables
      BY <1>2, <1>9, <3>1
    <3> QED
      BY <1>8, <2>1, <2>3, <2>5, <3>2, <3>3, <3>4 DEF Plan
  <2>7. Planned'
    BY <1>5, <1>9, <2>1 DEF Planned
  <2>8. Written' /\ ToWrite' /\ ToUnlink'
    BY <1>9 DEF Written, Merging, ToWrite, ToUnlink
  <2> QED
    BY <1>9, <2>6, <2>7, <2>8 DEF Compaction
<1> QED
  BY <1>10, <1>11, <1>12 DEF Structure

\* Structure is kept by merging its inputs (compact_once).
LEMMA CompactMergesKeeps ==
  ASSUME Structure, CompactMerges
  PROVE  Structure'
<1>1. /\ phase = "up" /\ compactor.at = "find" /\ DiskTypes /\ MemoryTypes
      /\ Levels /\ Compaction
  BY DEF CompactMerges, Structure
<1>2. UNCHANGED <<policy, phase, logs, unsafe, unlinked, tables, partials, manifest,
                  snapshot, durable, next_number, last_seq, active, active_logs,
                  frozen, l0, below, writer, flusher, faults, ever, shown, acked,
                  settled>>
  BY DEF CompactMerges, disk, numbering, memory, history
<1>3. compactor'.at \in {"idle", "write"}
  BY DEF CompactMerges, Idle
<1>4. /\ DiskTypes' /\ MemoryTypes' /\ Quiet' /\ Fresh' /\ Owners' /\ Numbered'
      /\ Seqs' /\ Levels' /\ Flush'
  BY <1>1, <1>2, <1>3, CompactorFrame DEF MemoryTypes
<1>5. Commits'
  BY <1>1, <1>2, <1>3 DEF Structure, Commits, FlushedFile
<1>6. CASE compactor'.at = "idle"
  <2>1. Compaction'
    BY <1>6 DEF Compaction, Compacting, Planned, Written, Merging, ToWrite, ToUnlink
  <2> QED
    BY <1>4, <1>5, <2>1 DEF Structure
<1>7. CASE compactor'.at = "write"
  <2>1. PICK I : I = compactor.inputs
    OBVIOUS
  <2>2. PICK M : M = Merged(compactor.planned, compactor.inputs, compactor.level)
    OBVIOUS
  <2>3. compactor' = [at |-> "write", level |-> compactor.level, added |-> {},
                      removed |-> Numbers(I), todo |-> Cut(M)]
    BY <1>7, <2>1, <2>2 DEF CompactMerges, Idle
  <2>4. PICK todo : todo = Cut(M)
    OBVIOUS
  <2>5. /\ compactor'.level = compactor.level /\ compactor'.added = {}
        /\ compactor'.removed = Numbers(I) /\ compactor'.todo = todo
    BY <2>3, <2>4
  <2>6. Inputs = I /\ Plan /\ I \subseteq snapshot.files
    BY <1>1, <2>1 DEF Compaction, Compacting, Plan, Inputs
  <2>7. Numbers(I) \subseteq Numbers(snapshot.files) /\ Numbers(I) \subseteq DOMAIN tables
    BY <1>1, <2>6, NamedFiles DEF Numbers
  <2>8. Content(I) \subseteq Records /\ OneSeq(Content(I))
    BY <2>7, ContentType
  <2>9. M \subseteq NewestOf(Content(I))
    BY <2>1, <2>2 DEF Merged, Content
  <2>10. M \subseteq Content(I) /\ M \subseteq Records /\ OnePerKey(M)
    BY <2>8, <2>9, NewestIsOne DEF OnePerKey
  <2>11. /\ todo \in Seq(SUBSET M)
         /\ \A i \in DOMAIN todo : todo[i] # {}
         /\ \A i, j \in DOMAIN todo : i # j => Disjoint(todo[i], todo[j])
    BY <2>4, <2>10, CutFiles
  <2>12. \A i \in DOMAIN todo : todo[i] \subseteq M
    BY <2>11, SMT
  <2>13. Inputs' = I
    <3>1. \A f, g \in snapshot.files : f.number = g.number => f = g
      BY <1>1 DEF Levels, Layout
    <3>2. {f \in snapshot.files : f.number \in Numbers(I)} = I
      BY <2>6, <3>1 DEF Numbers
    <3> QED
      BY <1>2, <1>7, <2>5, <3>2 DEF Inputs
  <2>14. Content(Inputs)' = Content(I)
    <3>1. Content(I)' = Content(I)
      BY <1>2 DEF Content
    <3> QED
      BY <2>13, <3>1
  <2>15. Plan'
    BY <1>2, <2>5, <2>6, <2>13, <2>14 DEF Plan
  <2>16. Outputs' \subseteq M
    <3>1. Content({})' = {}
      BY DEF Content
    <3>2. Content(compactor.added)' = {}
      BY <2>5, <3>1
    <3>3. UNION Range(todo) \subseteq M
      BY <2>12 DEF Range
    <3> QED
      BY <1>7, <2>5, <3>2, <3>3 DEF Outputs
  <2>17. Written'
    BY <1>2, <2>5, <2>7, <2>10, <2>14, <2>16 DEF Written
  <2>18. ToWrite'
    <3>1. todo \in Seq(SUBSET Records)
      <4>1. PICK n \in Nat : DOMAIN todo = 1 .. n /\ todo \in [1 .. n -> SUBSET M]
        BY <2>11, SMT
      <4>2. todo \in [1 .. n -> SUBSET Records]
        BY <2>10, <2>12, <4>1
      <4> QED
        BY <4>2, SMT
    <3>2. \A i \in DOMAIN todo : OnePerKey(todo[i])
      BY <2>10, <2>12 DEF OnePerKey
    <3> QED
      BY <2>5, <2>11, <3>1, <3>2 DEF ToWrite
  <2>19. Compaction'
    BY <1>7, <2>15, <2>17, <2>18 DEF Compaction, Planned, ToUnlink
  <2> QED
    BY <1>4, <1>5, <2>19 DEF Structure
<1> QED
  BY <1>3, <1>6, <1>7

\* Structure is kept by the switch of a compaction to its tables in memory
\* (commit).
LEMMA CompactPublishesKeeps ==
  ASSUME Structure, CompactPublishes
  PROVE  Structure'
<1>1. /\ phase = "up" /\ compactor.at = "publish" /\ DiskTypes /\ MemoryTypes
      /\ Flush /\ Levels /\ Commits /\ Compaction
  BY DEF CompactPublishes, Structure
<1>2. UNCHANGED <<policy, phase, logs, unsafe, unlinked, tables, partials, manifest,
                  next_number, last_seq, active, active_logs, frozen, writer,
                  flusher, faults, ever, shown, acked, settled>>
  BY DEF CompactPublishes, disk, numbering, history
<1>3. /\ snapshot' = manifest /\ durable' = None
      /\ l0' = Retained(l0, compactor.removed)
      /\ below' = {f \in below : f.number \notin compactor.removed} \cup compactor.added
      /\ compactor'.at = "unlink" /\ compactor'.removed = compactor.removed
  BY DEF CompactPublishes
<1>4. PICK A : A = compactor.added
  OBVIOUS
<1>5. PICK K : K = {f \in snapshot.files : f.number \notin compactor.removed}
  OBVIOUS
<1>6. /\ manifest # None /\ manifest.files = K \cup A
      /\ Loaded = manifest /\ Loaded' = Loaded /\ flusher.at # "publish"
      /\ manifest \in Snapshot
  BY <1>1, <1>2, <1>4, <1>5, NoneAssumption DEF Commits, Loaded, DiskTypes
<1>7. Plan /\ Written /\ Merging
  BY <1>1 DEF Compaction, Compacting, Merging
<1>8. /\ compactor.removed \subseteq Numbers(snapshot.files) /\ A \subseteq File
      /\ \A f \in A : /\ f.level = compactor.level /\ f.number \in DOMAIN tables
                      /\ f.number \notin Numbers(snapshot.files)
                      /\ flusher.at \in {"commit", "publish"} => f.number # flusher.number
  BY <1>4, <1>7 DEF Written
<1>9. compactor.level \in Nat \ {0} /\ \A f \in A : f.level > 0 /\ f.level # 0
  BY <1>7, <1>8, SMT DEF Plan
<1>10. /\ l0' \in Seq(Nat) /\ Range(l0') = Range(l0) \ compactor.removed
       /\ \A i, j \in DOMAIN l0' : i < j => l0'[i] > l0'[j]
  <2>1. l0 \in Seq(Nat) /\ \A i, j \in DOMAIN l0 : i < j => l0[i] > l0[j]
    BY <1>1 DEF MemoryTypes, Levels
  <2> QED
    BY <1>3, <2>1, RetainedFalls
<1>11. DiskTypes' /\ MemoryTypes' /\ Quiet' /\ Fresh'
  <2>1. DiskTypes'
    BY <1>1, <1>2 DEF DiskTypes
  <2>2. below' \subseteq File
    BY <1>1, <1>3, <1>4, <1>8 DEF MemoryTypes
  <2>3. MemoryTypes'
    BY <1>1, <1>2, <1>3, <1>6, <1>10, <2>2 DEF MemoryTypes
  <2>4. Quiet'
    BY <1>1, <1>2 DEF Quiet
  <2>5. Fresh'
    BY <1>1, <1>2, <1>6 DEF Structure, Fresh, Loaded
  <2> QED
    BY <2>1, <2>3, <2>4, <2>5
<1>12. Owners'
  BY <1>2, MemoryFrame
<1>13. Numbered'
  <2>1. Everywhere' = Everywhere
    BY <1>2, SMT DEF Everywhere, LogRecords, TableRecords, UnlinkedRecords, FrozenRecords, Pending
  <2> QED
    BY <1>2, <2>1, NumberedKept
<1>14. Seqs'
  <2>1. Ages /\ FlushAges
    BY DEF Structure, Seqs
  <2>2. PICK s : s = manifest
    OBVIOUS
  <2>3. Dated(s)'
    BY <1>2, <1>6, <2>1, <2>2 DEF Ages, Dated, Content, UnlinkedRecords
  <2>4. Dated(Loaded)' /\ Dated(snapshot)'
    BY <1>2, <1>3, <1>6, <2>2, <2>3
  <2>5. Ages'
    BY <1>1, <1>2, <1>3, <1>6, <2>1, <2>4, LoadedType, SMT DEF Ages
  <2>6. snapshot.last_seq <= s.last_seq /\ snapshot.last_seq \in Nat /\ s.last_seq \in Nat
    BY <1>1, <1>6, <2>1, <2>2, LoadedType, SMT DEF Ages
  <2>7. ASSUME flusher.at = "unlink"
        PROVE  UpTo(LogRecords(Range(flusher.logs)), s.last_seq)
    <3>1. UpTo(LogRecords(Range(flusher.logs)), snapshot.last_seq)
      BY <2>1, <2>7 DEF FlushAges
    <3>2. LogRecords(Range(flusher.logs)) \subseteq LogRecords(DOMAIN logs)
      BY <1>1, <2>7 DEF Structure, Owners, LogList, LogRecords
    <3>3. \A r \in LogRecords(Range(flusher.logs)) : r.seq \in Nat
      BY <3>2, EverywhereType, LoadedType, SMT DEF Everywhere, Records
    <3> QED
      BY <2>6, <3>1, <3>3, SMT DEF UpTo
  <2>8. /\ LogRecords(Range(flusher.logs))' = LogRecords(Range(flusher.logs))
        /\ LogRecords(Range(flusher.task.logs))' = LogRecords(Range(flusher.task.logs))
    BY <1>2 DEF LogRecords
  <2>9. FlushAges'
    BY <1>2, <1>3, <1>6, <2>1, <2>2, <2>7, <2>8 DEF FlushAges
  <2> QED
    BY <2>5, <2>9 DEF Seqs
<1>15. Levels'
  <2>1. PICK S : S = manifest.files
    OBVIOUS
  <2>2. Layout(S)'
    BY <1>1, <1>2, <1>6, <2>1 DEF Levels, Layout
  <2>3. Range(l0) = Numbers(AtLevel(snapshot.files, 0)) /\ below = {f \in snapshot.files : f.level > 0}
    BY <1>1 DEF Levels
  <2>4. Range(l0') = Numbers(AtLevel(S, 0))
    BY <1>5, <1>6, <1>9, <1>10, <2>1, <2>3, SMT DEF Numbers, AtLevel
  <2>5. below' = {f \in S : f.level > 0}
    BY <1>3, <1>4, <1>5, <1>6, <1>9, <2>1, <2>3
  <2>6. Layout(snapshot.files)' /\ Layout(Loaded.files)'
    BY <1>3, <1>6, <2>1, <2>2
  <2> QED
    BY <1>3, <1>10, <2>1, <2>4, <2>5, <2>6 DEF Levels
<1>16. Commits'
  BY <1>2, <1>3, <1>6, NoneAssumption DEF Commits
<1>17. Flush'
  <2>1. \A n \in Range(l0') : n \in Range(l0)
    BY <1>10
  <2>2. flusher.at = "commit" => flusher.number \notin Numbers(manifest.files)
    BY <1>1, <1>5, <1>6, <1>8 DEF Flush, Numbers
  <2> QED
    BY <1>1, <1>2, <1>3, <1>6, <2>1, <2>2 DEF Flush
<1>18. Compaction'
  <2>1. compactor.removed \subseteq DOMAIN tables
    BY <1>1, <1>8, NamedFiles
  <2>2. compactor.removed \cap Numbers(manifest.files) = {}
    BY <1>5, <1>6, <1>8, SMT DEF Numbers
  <2>3. flusher.at \in {"commit", "publish"} => flusher.number \notin compactor.removed
    BY <1>1, <1>8 DEF Flush
  <2>4. ToUnlink'
    BY <1>2, <1>3, <1>6, <2>1, <2>2, <2>3 DEF ToUnlink
  <2> QED
    BY <1>3, <2>4 DEF Compaction, Compacting, Planned, Written, Merging, ToWrite
<1> QED
  BY <1>11, <1>12, <1>13, <1>14, <1>15, <1>16, <1>17, <1>18 DEF Structure

\* Backed is kept by planning a compaction (plan).
LEMMA CompactPlansBacked ==
  ASSUME Structure, Backed, CompactPlans
  PROVE  Backed'
<1>1. UNCHANGED <<manifest, snapshot, tables>> /\ compactor'.at = "find"
  BY SMT DEF CompactPlans, disk
<1>2. Caches'
  BY CompactCaches
<1>3. Settles'
  BY <1>1, CompactSettles
<1>4. MergeComplete'
  BY <1>1 DEF MergeComplete, Merging
<1> QED
  BY <1>2, <1>3, <1>4 DEF Backed

\* Backed is kept by merging its inputs (compact_once).
LEMMA CompactMergesBacked ==
  ASSUME Structure, Backed, CompactMerges
  PROVE  Backed'
<1>1. /\ phase = "up" /\ compactor.at = "find" /\ DiskTypes /\ Levels /\ Compaction
  BY DEF CompactMerges, Structure
<1>2. UNCHANGED <<manifest, snapshot, tables>>
  BY DEF CompactMerges, disk
<1>3. Caches'
  BY CompactCaches
<1>4. Settles'
  BY <1>2, CompactSettles
<1>5. compactor'.at \in {"idle", "write"}
  BY DEF CompactMerges, Idle
<1>6. CASE compactor'.at = "idle"
  <2>1. MergeComplete'
    BY <1>6 DEF MergeComplete, Merging
  <2> QED
    BY <1>3, <1>4, <2>1 DEF Backed
<1>7. CASE compactor'.at = "write"
  <2>1. PICK I : I = compactor.inputs
    OBVIOUS
  <2>2. PICK P : P = compactor.planned
    OBVIOUS
  <2>3. PICK level : level = compactor.level
    OBVIOUS
  <2>4. PICK M : M = Merged(P, I, level)
    OBVIOUS
  <2>5. compactor' = [at |-> "write", level |-> level, added |-> {},
                      removed |-> Numbers(I), todo |-> Cut(M)]
    BY <1>7, <2>1, <2>2, <2>3, <2>4 DEF CompactMerges, Idle
  <2>6. PICK todo : todo = Cut(M)
    OBVIOUS
  <2>7. /\ compactor'.level = level /\ compactor'.added = {}
        /\ compactor'.removed = Numbers(I) /\ compactor'.todo = todo
    BY <2>5, <2>6
  <2>8. Inputs = I /\ Plan /\ I \subseteq snapshot.files /\ Planned
    BY <1>1, <2>1 DEF Compaction, Compacting, Plan, Inputs
  <2>9. Numbers(I) \subseteq DOMAIN tables /\ Numbers(snapshot.files) \subseteq DOMAIN tables
    BY <1>1, <2>8, NamedFiles DEF Numbers
  <2>10. PICK C : C = Content(I)
    OBVIOUS
  <2>11. C \subseteq Records /\ OneSeq(C)
    BY <2>9, <2>10, ContentType
  <2>12. /\ M \subseteq NewestOf(C)
         /\ \A d \in NewestOf(C) : d \in M \/ (d.deleted /\ ~TombstoneNeeded(P, level, d.key))
    BY <2>4, <2>10 DEF Merged, Content
  <2>13. M \subseteq Records /\ OnePerKey(M)
    BY <2>11, <2>12, NewestIsOne DEF OnePerKey
  <2>14. \A r \in M : \E i \in DOMAIN todo : r \in todo[i]
    BY <2>6, <2>13, CutFiles
  <2>15. Inputs' = I
    <3>1. \A f, g \in snapshot.files : f.number = g.number => f = g
      BY <1>1 DEF Levels, Layout
    <3>2. {f \in snapshot.files : f.number \in Numbers(I)} = I
      BY <2>8, <3>1 DEF Numbers
    <3> QED
      BY <1>2, <1>7, <2>7, <3>2 DEF Inputs
  <2>16. Content(Inputs)' = C
    <3>1. Content(I)' = Content(I)
      BY <1>2 DEF Content
    <3> QED
      BY <2>10, <2>15, <3>1
  <2>17. M \subseteq Outputs'
    <3>1. M \subseteq UNION Range(todo)
      BY <2>14 DEF Range
    <3> QED
      BY <1>7, <2>7, <3>1 DEF Outputs
  <2>18. ASSUME NEW d \in Records, ~TombstoneNeeded(P, level, d.key),
                NEW f \in snapshot.files, f.level > level, NEW u \in tables[f.number]
         PROVE  u.key # d.key
    <3>1. f \in P
      <4>1. level \in Nat \ {0} /\ f.level \in Nat
        BY <2>3, <2>8, LoadedType DEF Plan, File
      <4>2. f.level > 0
        BY <2>18, <4>1, SMT
      <4> QED
        BY <1>1, <2>2, <2>8, <4>2 DEF Planned
    <3>2. ~Covers(f.number, d.key)
      BY <2>18, <3>1 DEF TombstoneNeeded
    <3>3. f.number \in DOMAIN tables
      BY <2>9 DEF Numbers
    <3>4. MinKey(f.number) <= u.key /\ u.key <= MaxKey(f.number)
      BY <1>1, <3>3, KeyRange DEF DiskTypes
    <3> QED
      BY <3>2, <3>4 DEF Covers
  <2>19. ASSUME NEW s \in C
         PROVE  \E d \in C :
                  /\ d.key = s.key /\ d.seq >= s.seq
                  /\ \/ d \in Outputs'
                     \/ /\ d.deleted
                        /\ \A f \in snapshot.files : f.level > level =>
                             \A u \in tables[f.number] : u.key # s.key
    <3>1. PICK d \in NewestOf(C) : d.key = s.key /\ d.seq >= s.seq
      BY <2>11, NewestCovers
    <3>2. d \in C /\ d \in Records
      BY <2>11, NewestIsOne
    <3>3. CASE d \in M
      BY <2>17, <3>1, <3>2, <3>3
    <3>4. CASE d \notin M
      <4>1. d.deleted /\ ~TombstoneNeeded(P, level, d.key)
        BY <2>12, <3>4
      <4>2. \A f \in snapshot.files : f.level > level =>
              \A u \in tables[f.number] : u.key # s.key
        BY <2>18, <3>1, <3>2, <4>1
      <4> QED
        BY <3>1, <3>2, <4>1, <4>2
    <3> QED
      BY <3>3, <3>4
  <2>20. MergeComplete'
    BY <1>2, <2>7, <2>16, <2>19, SMT DEF MergeComplete
  <2> QED
    BY <1>3, <1>4, <2>20 DEF Backed
<1> QED
  BY <1>5, <1>6, <1>7

----------------------------------------------------------------------------
(* Crash and open *)

\* The logs after a crash hold nothing but what logs held before.
LEMMA RestoredLogs ==
  ASSUME DiskTypes, MemoryTypes, NEW lost, NEW kept \in 0 .. Len(unlinked),
         logs' = Restored(lost, kept)
  PROVE  /\ DOMAIN logs' \subseteq Nat
         /\ IsFiniteSet(DOMAIN logs) => IsFiniteSet(DOMAIN logs')
         /\ \A n \in DOMAIN logs' : logs'[n] \subseteq Records
         /\ LogRecords(DOMAIN logs)' \subseteq LogRecords(DOMAIN logs) \cup UnlinkedRecords
<1>1. PICK I : I = kept + 1 .. Len(unlinked)
  OBVIOUS
<1>2. Len(unlinked) \in Nat /\ DOMAIN unlinked = 1 .. Len(unlinked)
  BY ListTypes
<1>3. IsFiniteSet(I) /\ I \subseteq DOMAIN unlinked
  <2>1. kept + 1 \in Int /\ Len(unlinked) \in Int
    BY <1>2, SMT
  <2>2. IsFiniteSet(kept + 1 .. Len(unlinked))
    BY <2>1, FS_Interval
  <2> QED
    BY <1>1, <1>2, <2>2, SMT
<1>4. \A i \in I : unlinked[i].number \in Nat /\ unlinked[i].records \subseteq Records
  BY <1>3, ListTypes
<1>5. PICK back : back = {unlinked[i] : i \in I}
  OBVIOUS
<1>6. PICK N : N = {log.number : log \in back}
  OBVIOUS
<1>7. IsFiniteSet(N) /\ N \subseteq Nat
  <2>1. PICK h : h = [i \in I |-> unlinked[i].number]
    OBVIOUS
  <2>2. h \in Surjection(I, N)
    BY <1>5, <1>6, <2>1, SMT DEF Surjection
  <2>3. IsFiniteSet(N)
    BY <1>3, <2>2, FS_Surjection
  <2>4. \A n \in N : n \in Nat
    BY <1>4, <1>5, <1>6
  <2> QED
    BY <2>3, <2>4
<1>8. logs' = [n \in DOMAIN logs \cup N |->
                 IF n \in DOMAIN logs THEN logs[n] \ lost
                 ELSE UNION {log.records : log \in {b \in back : b.number = n}}]
  BY <1>1, <1>5, <1>6 DEF Restored
<1>9. DOMAIN logs' = DOMAIN logs \cup N
  BY <1>8
<1>10. /\ DOMAIN logs' \subseteq Nat
       /\ IsFiniteSet(DOMAIN logs) => IsFiniteSet(DOMAIN logs')
  <2>1. PICK D : D = DOMAIN logs
    OBVIOUS
  <2>2. D \subseteq Nat
    BY <2>1 DEF DiskTypes
  <2>3. IsFiniteSet(D) => IsFiniteSet(D \cup N)
    BY <1>7, FS_Union
  <2> QED
    BY <1>7, <1>9, <2>1, <2>2, <2>3
<1>11. ASSUME NEW n \in DOMAIN logs', NEW r \in logs'[n]
       PROVE  r \in LogRecords(DOMAIN logs) \cup UnlinkedRecords /\ r \in Records
  <2>1. CASE n \in DOMAIN logs
    <3>1. r \in logs[n]
      BY <1>8, <1>11, <2>1
    <3> QED
      BY <2>1, <3>1 DEF LogRecords, DiskTypes
  <2>2. CASE n \notin DOMAIN logs
    <3>1. r \in UNION {log.records : log \in {b \in back : b.number = n}}
      BY <1>8, <1>9, <1>11, <2>2
    <3>2. PICK i \in I : r \in unlinked[i].records
      BY <1>5, <3>1
    <3> QED
      BY <1>3, <1>4, <3>2 DEF UnlinkedRecords
  <2> QED
    BY <2>1, <2>2
<1>12. LogRecords(DOMAIN logs)' \subseteq LogRecords(DOMAIN logs) \cup UnlinkedRecords
  <2>1. \A r \in LogRecords(DOMAIN logs)' : \E n \in DOMAIN logs' : r \in logs'[n]
    BY DEF LogRecords
  <2> QED
    BY <1>11, <2>1
<1> QED
  BY <1>10, <1>11, <1>12

\* Structure is kept by a crash at any point.
LEMMA CrashKeeps ==
  ASSUME Structure, Crash
  PROVE  Structure'
<1>1. /\ Forget /\ unsafe' = {} /\ unlinked' = << >> /\ DiskTypes /\ MemoryTypes
      /\ UNCHANGED <<policy, tables, partials, manifest, ever, shown, acked, settled>>
  BY DEF Crash, history, Structure
<1>2. PICK lost : \E kept \in 0 .. Len(unlinked) : logs' = Restored(lost, kept)
  BY DEF Crash
<1>3. PICK kept \in 0 .. Len(unlinked) : logs' = Restored(lost, kept)
  BY <1>2
<1>4. faults' \in [restart : Nat, task : Nat, unlink : Nat, split : BOOLEAN]
  <2>1. PICK b \in BOOLEAN : b = (faults.split \/ (phase = "up" /\ Splits))
    OBVIOUS
  <2>2. faults' = [faults EXCEPT !.restart = @ + 1, !.split = b]
    BY <2>1 DEF Crash
  <2>3. faults \in [restart : Nat, task : Nat, unlink : Nat, split : BOOLEAN]
    BY <1>1 DEF MemoryTypes
  <2> QED
    BY <2>2, <2>3, MoreFaults
<1>5. /\ DOMAIN logs' \subseteq Nat
      /\ \A n \in DOMAIN logs' : logs'[n] \subseteq Records
      /\ LogRecords(DOMAIN logs)' \subseteq LogRecords(DOMAIN logs) \cup UnlinkedRecords
  BY <1>1, <1>3, RestoredLogs
<1> QED
  BY <1>1, <1>4, <1>5, ForgetKeeps

\* Structure is kept by listing the directory (open).
LEMMA OpenScansKeeps ==
  ASSUME Structure, Finite, OpenScans
  PROVE  Structure'
<1>1. phase = "down" /\ DiskTypes /\ MemoryTypes /\ Quiet
  BY DEF OpenScans, Structure
<1>2. UNCHANGED <<policy, unlinked, logs, unsafe, tables, manifest, durable, last_seq,
                  active, active_logs, frozen, l0, below, writer, flusher, compactor,
                  faults, ever, shown, acked, settled>>
  BY DEF OpenScans, memory, history
<1>3. /\ partials' = {} /\ next_number' = ListedNext
      /\ \/ phase' = "refused" /\ snapshot' = snapshot
         \/ phase' = "opening" /\ snapshot' = Loaded
  BY DEF OpenScans
<1>4. flusher.at = "idle" /\ compactor.at = "idle" /\ durable = None
  BY <1>1 DEF Quiet
<1>5. next_number' \in Nat /\ \A n \in DOMAIN logs \cup DOMAIN tables : n < next_number'
  <2>1. PICK D : D = DOMAIN logs
    OBVIOUS
  <2>2. PICK E : E = DOMAIN tables
    OBVIOUS
  <2>3. IsFiniteSet(D) /\ IsFiniteSet(E) /\ D \subseteq Nat /\ E \subseteq Nat
    BY <1>1, <2>1, <2>2 DEF DiskTypes, Finite
  <2>4. PICK U : U = D \cup E
    OBVIOUS
  <2>5. IsFiniteSet(D \cup E)
    BY <2>3, FS_Union
  <2>6. U \subseteq Nat /\ IsFiniteSet(U)
    BY <2>3, <2>4, <2>5
  <2>7. Highest(U) \in Nat /\ \A x \in U : x \in Nat /\ x <= Highest(U)
    BY <2>6, HighestIs
  <2>8. PICK top \in Nat : top = Highest(U)
    BY <2>7
  <2>9. next_number' = top + 1
    BY <1>3, <2>1, <2>2, <2>4, <2>8 DEF ListedNext
  <2>10. \A x \in U : x < top + 1
    BY <2>7, <2>8, SMT
  <2> QED
    BY <2>1, <2>2, <2>4, <2>9, <2>10, SMT
<1>6. DiskTypes' /\ MemoryTypes' /\ Quiet'
  <2>1. DiskTypes'
    BY <1>1, <1>2, <1>3 DEF DiskTypes
  <2>2. snapshot' \in Snapshot
    BY <1>1, <1>3, LoadedType DEF MemoryTypes
  <2>3. MemoryTypes'
    BY <1>1, <1>2, <1>3, <1>5, <2>2 DEF MemoryTypes
  <2>4. Quiet'
    BY <1>1, <1>2 DEF Quiet
  <2> QED
    BY <2>1, <2>3, <2>4
<1>7. Loaded' = Loaded
  BY <1>2 DEF Loaded
<1>8. Fresh'
  BY <1>2, <1>3, <1>5, <1>7 DEF Fresh
<1>9. Numbered'
  <2>1. Everywhere' = Everywhere
    BY <1>2, SMT DEF Everywhere, LogRecords, TableRecords, UnlinkedRecords, FrozenRecords, Pending
  <2> QED
    BY <1>3, <2>1, NumberedKept
<1>10. Seqs'
  <2>1. PICK s : s = Loaded
    OBVIOUS
  <2>2. Dated(s)'
    BY <1>2, <2>1 DEF Structure, Seqs, Ages, Dated, Content, UnlinkedRecords
  <2>3. Dated(Loaded)'
    BY <1>7, <2>1, <2>2
  <2> QED
    BY <1>2, <1>3, <1>4, <2>3 DEF Seqs, Ages, FlushAges
<1>11. Levels'
  <2>1. PICK S : S = Loaded.files
    OBVIOUS
  <2>2. Layout(S)'
    BY <1>2, <2>1 DEF Structure, Levels, Layout
  <2>3. Layout(Loaded.files)'
    BY <1>7, <2>1, <2>2
  <2> QED
    BY <1>3, <2>3 DEF Levels
<1>12. Owners' /\ Commits' /\ Flush' /\ Compaction'
  <2>1. Owners'
    BY <1>3 DEF Owners
  <2>2. Commits' /\ Flush'
    BY <1>2, <1>4, NoneAssumption DEF Commits, Flush
  <2>3. Compaction'
    BY <1>2, <1>4 DEF Compaction, Compacting, Planned, Written, Merging, ToWrite, ToUnlink
  <2> QED
    BY <2>1, <2>2, <2>3
<1> QED
  BY <1>6, <1>8, <1>9, <1>10, <1>11, <1>12 DEF Structure

\* Structure is kept by replaying the logs (open).
LEMMA OpenFinishesKeeps ==
  ASSUME Structure, Finite, OpenFinishes
  PROVE  Structure'
<1>1. /\ phase = "opening" /\ Orphans = {} /\ phase' = "up"
      /\ DiskTypes /\ MemoryTypes /\ Quiet /\ snapshot = Loaded /\ partials = {}
  BY DEF OpenFinishes, Structure, Fresh
<1>2. UNCHANGED <<policy, unlinked, unsafe, tables, partials, manifest, snapshot,
                  durable, frozen, writer, flusher, compactor, faults, acked,
                  settled>>
  BY DEF OpenFinishes
<1>3. /\ flusher.at = "idle" /\ compactor.at = "idle" /\ durable = None
      /\ frozen = << >> /\ \A w \in Writers : writer[w].at = "idle"
  BY <1>1 DEF Quiet
<1>4. PICK number : number = Highest({next_number, snapshot.next_number})
  OBVIOUS
<1>5. number \in Nat /\ next_number <= number
  <2>1. next_number \in Nat /\ snapshot.next_number \in Nat
    BY <1>1 DEF MemoryTypes, Snapshot
  <2> QED
    BY <1>4, <2>1, HighestOfTwo
<1>6. \A n \in DOMAIN logs \cup DOMAIN tables : n \in Nat /\ n < next_number
  BY <1>1 DEF Structure, Fresh, DiskTypes
<1>7. next_number \in Nat
  BY <1>1 DEF MemoryTypes
<1>8. \A n \in DOMAIN logs \cup DOMAIN tables : n < number
  BY <1>5, <1>6, <1>7, SMT
<1>9. /\ DOMAIN logs' \subseteq Nat
      /\ \A n \in DOMAIN logs' : logs'[n] \subseteq Records
      /\ LogRecords(DOMAIN logs)' = LogRecords(DOMAIN logs)
      /\ next_number' \in Nat
      /\ \A n \in DOMAIN logs' \cup DOMAIN tables' : n < next_number'
      /\ active_logs' \in Seq(Nat) /\ active_logs' # << >>
      /\ Range(active_logs') \subseteq DOMAIN logs'
      /\ \A i, j \in DOMAIN active_logs' : i < j => active_logs'[i] < active_logs'[j]
  <2>1. CASE DOMAIN logs = {}
    <3>1. /\ logs' = With(logs, number, {}) /\ active_logs' = <<number>>
          /\ next_number' = number + 1
      BY <1>4, <2>1 DEF OpenFinishes
    <3>2. DOMAIN logs' = {number} /\ logs'[number] = {}
      BY <2>1, <3>1 DEF With
    <3>4. LogRecords(DOMAIN logs)' = {} /\ LogRecords(DOMAIN logs) = {}
      BY <2>1, <3>2 DEF LogRecords
    <3>5. \A n \in DOMAIN logs' \cup DOMAIN tables' : n < next_number'
      BY <1>2, <1>5, <1>6, <1>8, <3>1, <3>2, SMT
    <3>6. /\ active_logs' \in Seq(Nat) /\ active_logs' # << >> /\ DOMAIN active_logs' = {1}
          /\ active_logs'[1] = number
      BY <1>5, <3>1, SMT
    <3> QED
      BY <1>5, <3>1, <3>2, <3>4, <3>5, <3>6, SMT DEF Range
  <2>2. CASE DOMAIN logs # {}
    <3>1. logs' = logs /\ active_logs' = Ascending(DOMAIN logs) /\ next_number' = number
      BY <1>4, <2>2 DEF OpenFinishes
    <3>2. PICK D : D = DOMAIN logs
      OBVIOUS
    <3>3. D \subseteq Nat /\ IsFiniteSet(D)
      BY <1>1, <3>2 DEF DiskTypes, Finite
    <3>4. /\ Ascending(D) \in Seq(Nat) /\ Range(Ascending(D)) = D
          /\ \A i, j \in DOMAIN Ascending(D) : i < j => Ascending(D)[i] < Ascending(D)[j]
      BY <3>3, Sorted
    <3>5. active_logs' # << >>
      BY <2>2, <3>1, <3>2, <3>4, SMT DEF Range
    <3>6. LogRecords(DOMAIN logs)' = LogRecords(DOMAIN logs)
      BY <3>1 DEF LogRecords
    <3> QED
      BY <1>1, <1>2, <1>5, <1>8, <3>1, <3>2, <3>3, <3>4, <3>5, <3>6 DEF DiskTypes
  <2> QED
    BY <2>1, <2>2
<1>10. PICK R : R = LogRecords(DOMAIN logs)
  OBVIOUS
<1>11. Replayed = R /\ R \subseteq Everywhere /\ R \subseteq Records /\ OneSeq(R)
  <2>1. Replayed = R
    BY <1>10 DEF Replayed, LogRecords, Range
  <2>2. R \subseteq Everywhere
    BY <1>10 DEF Everywhere
  <2> QED
    BY <2>1, <2>2, EverywhereType DEF Structure, Numbered, OneSeq
<1>12. /\ last_seq' \in 0 .. MaxSeq /\ last_seq' \in Nat /\ snapshot.last_seq <= last_seq'
       /\ \A r \in R : r.seq <= last_seq'
  <2>1. PICK S : S = {snapshot.last_seq} \cup SeqsOf(R)
    OBVIOUS
  <2>2. last_seq' = Highest(S)
    BY <1>11, <2>1 DEF OpenFinishes
  <2>3. \A x \in S : x \in 0 .. MaxSeq
    BY <1>11, <2>1, LoadedType, SMT DEF SeqsOf, Records
  <2>4. PICK T : T = 0 .. MaxSeq
    OBVIOUS
  <2>5. IsFiniteSet(T)
    BY <2>4, LoadedType, FS_Interval, SMT
  <2>6. IsFiniteSet(S)
    <3>1. S \subseteq T
      BY <2>3, <2>4
    <3> QED
      BY <2>5, <3>1, FS_Subset
  <2>7. S \subseteq Nat
    BY <2>3, LoadedType, SMT
  <2>8. Highest(S) \in Nat /\ Highest(S) \in S \cup {0} /\ \A x \in S : x <= Highest(S)
    BY <2>6, <2>7, HighestIs
  <2>9. snapshot.last_seq \in S /\ \A r \in R : r.seq \in S
    BY <2>1 DEF SeqsOf
  <2>10. Highest(S) \in 0 .. MaxSeq
    BY <2>3, <2>8, LoadedType, SMT
  <2> QED
    BY <2>2, <2>8, <2>9, <2>10
<1>13. active' = NewestOf(R) /\ OnePerKey(active') /\ active' \subseteq R
  <2>1. active' = NewestOf(R)
    BY <1>11 DEF OpenFinishes
  <2> QED
    BY <1>11, <2>1, NewestIsOne
<1>14. PICK F : F = Numbers(AtLevel(snapshot.files, 0))
  OBVIOUS
<1>15. l0' = Descending(F) /\ below' = {f \in snapshot.files : f.level > 0}
  BY <1>14 DEF OpenFinishes, OpenedL0
<1>16. /\ l0' \in Seq(Nat) /\ Range(l0') = F
       /\ \A i, j \in DOMAIN l0' : i < j => l0'[i] > l0'[j]
  <2>1. PICK D : D = DOMAIN tables
    OBVIOUS
  <2>2. F \subseteq D
    BY <1>1, <1>14, <2>1, NamedFiles DEF Numbers, AtLevel
  <2>3. IsFiniteSet(D) /\ D \subseteq Nat
    BY <1>1, <2>1 DEF DiskTypes, Finite
  <2>4. IsFiniteSet(F) /\ F \subseteq Nat
    BY <2>2, <2>3, FS_Subset
  <2> QED
    BY <1>15, <2>4, Sorted
<1>17. ever' \subseteq ever /\ shown' = ever'
  BY DEF OpenFinishes
<1>18. DiskTypes' /\ MemoryTypes' /\ Quiet' /\ Fresh'
  <2>1. DiskTypes'
    BY <1>1, <1>2, <1>9 DEF DiskTypes
  <2>2. below' \subseteq File
    BY <1>15, LoadedType
  <2>3. MemoryTypes'
    BY <1>1, <1>2, <1>3, <1>9, <1>11, <1>12, <1>13, <1>16, <1>17, <2>2 DEF MemoryTypes
  <2>4. Quiet'
    BY <1>1 DEF Quiet
  <2>5. Fresh'
    BY <1>1, <1>2, <1>9 DEF Fresh, Loaded, NoSnapshot
  <2> QED
    BY <2>1, <2>3, <2>4, <2>5
<1>19. Owners'
  <2>1. LogList(active_logs)'
    BY <1>9 DEF LogList
  <2>2. DOMAIN frozen' = {} /\ flusher'.at = "idle"
    BY <1>2, <1>3, SMT
  <2> QED
    BY <2>1, <2>2 DEF Owners
<1>20. Dated(snapshot) /\ Dated(Loaded)
  BY <1>1 DEF Structure, Seqs, Ages
<1>21. Numbered'
  <2>1. TableRecords' = TableRecords /\ UnlinkedRecords' = UnlinkedRecords
    BY <1>2 DEF TableRecords, UnlinkedRecords
  <2>2. FrozenRecords' = {} /\ Pending' = {}
    BY <1>2, <1>3, SMT DEF FrozenRecords, Pending
  <2>3. Everywhere' = R \cup TableRecords \cup UnlinkedRecords
    BY <1>9, <1>10, <1>13, <2>1, <2>2 DEF Everywhere
  <2>4. Everywhere' \subseteq Everywhere
    BY <1>10, <2>3 DEF Everywhere
  <2>5. OneSeq(Everywhere')
    BY <2>4 DEF Structure, Numbered, OneSeq
  <2>6. TableRecords \subseteq Content(snapshot.files)
    BY <1>1, SMT DEF Orphans, Numbers, Content, TableRecords
  <2>7. \A r \in TableRecords \cup UnlinkedRecords : r.seq <= snapshot.last_seq
    BY <1>20, <2>6 DEF Dated, UpTo
  <2>8. \A r \in Everywhere : r.seq \in Nat
    BY EverywhereType, LoadedType, SMT DEF Records
  <2>9. snapshot.last_seq \in Nat
    BY LoadedType, SMT
  <2>10. TableRecords \subseteq Everywhere /\ UnlinkedRecords \subseteq Everywhere
    BY DEF Everywhere
  <2>11. \A r \in TableRecords \cup UnlinkedRecords : r.seq <= last_seq'
    BY <1>12, <2>7, <2>8, <2>9, <2>10, SMT
  <2>12. UpTo(Everywhere', last_seq')
    BY <1>12, <2>3, <2>11 DEF UpTo
  <2> QED
    BY <2>5, <2>12 DEF Numbered
<1>22. Loaded' = Loaded
  BY <1>2 DEF Loaded
<1>23. Seqs'
  <2>1. PICK s : s = snapshot
    OBVIOUS
  <2>2. Dated(s)'
    BY <1>2, <1>20, <2>1 DEF Dated, Content, UnlinkedRecords
  <2>3. Dated(snapshot)' /\ Dated(Loaded)'
    BY <1>1, <1>2, <1>22, <2>1, <2>2
  <2>4. snapshot'.last_seq <= Loaded'.last_seq /\ Loaded'.last_seq <= last_seq'
    BY <1>1, <1>2, <1>12, <1>22, LoadedType, SMT
  <2> QED
    BY <1>2, <1>3, <2>3, <2>4 DEF Seqs, Ages, FlushAges
<1>24. Levels'
  <2>1. PICK S : S = snapshot.files
    OBVIOUS
  <2>2. Layout(S)'
    BY <1>1, <1>2, <2>1 DEF Structure, Levels, Layout
  <2>3. Layout(Loaded.files)' /\ Layout(snapshot.files)'
    BY <1>1, <1>2, <1>22, <2>1, <2>2
  <2> QED
    BY <1>2, <1>14, <1>15, <1>16, <2>3 DEF Levels
<1>25. Commits' /\ Flush' /\ Compaction'
  <2>1. Commits' /\ Flush'
    BY <1>2, <1>3, NoneAssumption DEF Commits, Flush
  <2>2. Compaction'
    BY <1>2, <1>3 DEF Compaction, Compacting, Planned, Written, Merging, ToWrite, ToUnlink
  <2> QED
    BY <2>1, <2>2
<1> QED
  BY <1>18, <1>19, <1>21, <1>23, <1>24, <1>25 DEF Structure

\* One more file, or fewer, are still finitely many.
LEMMA StillFinite ==
  ASSUME NEW D, IsFiniteSet(D), NEW n, NEW E, E \subseteq D \cup {n}
  PROVE  IsFiniteSet(E)
<1>1. IsFiniteSet(D \cup {n})
  BY FS_AddElement
<1> QED
  BY <1>1, FS_Subset

\* There are no files where there is no store (open).
LEMMA InitFinite ==
  ASSUME Init
  PROVE  Finite
<1>1. DOMAIN logs = {} /\ DOMAIN tables = {}
  BY SMT DEF Init
<1> QED
  BY <1>1, FS_EmptySet DEF Finite

\* The steps that touch no log.
LEMMA LogsUntouched ==
  ASSUME \/ Sync \/ FlushStarts \/ FlushRenames \/ FlushCommits \/ FlushPublishes
         \/ FlushUnlinkFails \/ FlushFails
         \/ CompactPlans \/ CompactMerges \/ CompactSeals \/ CompactReadsSeq
         \/ CompactCommits \/ CompactPublishes \/ CompactUnlinks \/ CompactFails
         \/ Close \/ OpenScans \/ OpenRemovesOrphan \/ UNCHANGED vars
  PROVE  logs' = logs
BY DEF Sync, FlushStarts, FlushRenames, FlushCommits, FlushPublishes,
   FlushUnlinkFails, FlushFails, CompactPlans, CompactMerges, CompactSeals,
   CompactReadsSeq, CompactCommits, CompactPublishes, CompactUnlinks, CompactFails,
   Close, OpenScans, OpenRemovesOrphan, vars, disk

\* A step makes one log and one table at most; a crash brings back the logs
\* whose unlinking was not on the device (rotate, Builder::finish, open).
LEMMA FiniteKept ==
  ASSUME Structure, Finite, [Next]_vars
  PROVE  Finite'
<1>1. DiskTypes /\ MemoryTypes
  BY DEF Structure
<1>2. \E n : DOMAIN tables' \subseteq DOMAIN tables \cup {n}
  <2>1. CASE FlushRenames \/ CompactSeals \/ CompactUnlinks \/ OpenRemovesOrphan
    BY <2>1 DEF FlushRenames, CompactSeals, CompactUnlinks, OpenRemovesOrphan, With, Without,
                Restrict
  <2>2. ASSUME NEW w \in Writers,
               \/ WriteAppends(w) \/ WriteInserts(w) \/ FlushCall(w)
               \/ Rotate(w) \/ RotateFails(w) \/ RotateSkips(w) \/ RotateDrops(w)
        PROVE  tables' = tables
    BY <2>2 DEF WriteAppends, WriteInserts, FlushCall, Rotate, RotateFails, RotateSkips,
                RotateDrops, disk
  <2>3. CASE \/ Sync \/ FlushStarts \/ FlushCommits \/ FlushPublishes
             \/ FlushUnlinks \/ FlushUnlinkFails \/ FlushFails
             \/ CompactPlans \/ CompactMerges \/ CompactReadsSeq
             \/ CompactCommits \/ CompactPublishes \/ CompactFails
             \/ Close \/ Crash \/ OpenScans \/ OpenFinishes \/ UNCHANGED vars
    <3>1. tables' = tables
      BY <2>3 DEF Sync, FlushStarts, FlushCommits, FlushPublishes, FlushUnlinks,
         FlushUnlinkFails, FlushFails, CompactPlans, CompactMerges, CompactReadsSeq,
         CompactCommits, CompactPublishes, CompactFails, Close, Crash, OpenScans,
         OpenFinishes, vars, disk
    <3> QED
      BY <3>1
  <2> QED
    BY <2>1, <2>2, <2>3 DEF Next
<1>3. IsFiniteSet(DOMAIN tables')
  BY <1>2, StillFinite DEF Finite
<1>4. CASE Crash
  <2>1. PICK lost : \E kept \in 0 .. Len(unlinked) : logs' = Restored(lost, kept)
    BY <1>4 DEF Crash
  <2>2. IsFiniteSet(DOMAIN logs')
    BY <1>1, <2>1, RestoredLogs DEF Finite
  <2> QED
    BY <1>3, <2>2 DEF Finite
<1>5. CASE ~Crash
  <2>1. CASE FlushUnlinks \/ OpenFinishes
    <3>1. \E n : DOMAIN logs' \subseteq DOMAIN logs \cup {n}
      BY <2>1 DEF FlushUnlinks, LogsLeft, OpenFinishes, With, Without, Restrict
    <3> QED
      BY <1>3, <3>1, StillFinite DEF Finite
  <2>2. ASSUME NEW w \in Writers,
               \/ WriteAppends(w) \/ WriteInserts(w) \/ FlushCall(w)
               \/ Rotate(w) \/ RotateFails(w) \/ RotateSkips(w) \/ RotateDrops(w)
        PROVE  DOMAIN logs' \subseteq DOMAIN logs \cup {next_number}
    BY <2>2 DEF WriteAppends, WriteInserts, FlushCall, Rotate, RotateFails, RotateSkips,
                RotateDrops, With, disk
  <2>3. CASE \/ Sync \/ FlushStarts \/ FlushRenames \/ FlushCommits \/ FlushPublishes
             \/ FlushUnlinkFails \/ FlushFails
             \/ CompactPlans \/ CompactMerges \/ CompactSeals \/ CompactReadsSeq
             \/ CompactCommits \/ CompactPublishes \/ CompactUnlinks \/ CompactFails
             \/ Close \/ OpenScans \/ OpenRemovesOrphan \/ UNCHANGED vars
    BY <1>3, <2>3, LogsUntouched DEF Finite
  <2> QED
    BY <1>3, <1>5, <2>1, <2>2, <2>3, StillFinite DEF Next, Finite
<1> QED
  BY <1>4, <1>5

\* Backed is kept by replaying the logs (open).
LEMMA OpenFinishesBacked ==
  ASSUME Structure, Finite, Backed, OpenFinishes
  PROVE  Backed'
<1>1. phase = "opening" /\ Quiet /\ snapshot = Loaded
  BY DEF OpenFinishes, Structure, Fresh
<1>2. UNCHANGED <<tables, manifest, snapshot, frozen, writer, flusher, compactor, settled>>
  BY DEF OpenFinishes
<1>3. /\ flusher.at = "idle" /\ compactor.at = "idle" /\ frozen = << >>
  BY <1>1 DEF Quiet
<1>4. PICK R : R = LogRecords(DOMAIN logs)
  OBVIOUS
<1>5. R \subseteq Records /\ active' = NewestOf(R)
  <2>1. Replayed = R
    BY <1>4 DEF Replayed, LogRecords, Range
  <2>2. R \subseteq Everywhere
    BY <1>4 DEF Everywhere
  <2> QED
    BY <2>1, <2>2, EverywhereType DEF OpenFinishes
<1>6. LogRecords(Range(active_logs))' \subseteq R
  <2>1. CASE DOMAIN logs = {}
    <3>1. PICK number : logs' = With(logs, number, {}) /\ active_logs' = <<number>>
      BY <2>1 DEF OpenFinishes
    <3>2. DOMAIN logs' = {number} /\ logs'[number] = {}
      BY <2>1, <3>1 DEF With
    <3>3. Range(active_logs') = {number}
      BY <3>1, SMT DEF Range
    <3> QED
      BY <3>2, <3>3 DEF LogRecords
  <2>2. CASE DOMAIN logs # {}
    <3>1. logs' = logs /\ active_logs' = Ascending(DOMAIN logs)
      BY <2>2 DEF OpenFinishes
    <3>2. PICK D : D = DOMAIN logs
      OBVIOUS
    <3>3. D \subseteq Nat /\ IsFiniteSet(D)
      BY <3>2 DEF Structure, DiskTypes, Finite
    <3>4. Range(Ascending(D)) = D
      BY <3>3, Sorted
    <3>5. Range(active_logs') = DOMAIN logs
      BY <3>1, <3>2, <3>4
    <3> QED
      BY <1>4, <3>1, <3>5 DEF LogRecords
  <2> QED
    BY <2>1, <2>2
<1>7. Caches'
  <2>1. ASSUME NEW r \in R
        PROVE  CoveredBy(active', r)
    BY <1>5, NewestCovers DEF CoveredBy
  <2>2. DOMAIN frozen' = {}
    BY <1>2, <1>3, SMT
  <2> QED
    BY <1>6, <2>1, <2>2 DEF Caches
<1>8. MergeComplete'
  BY <1>2, <1>3 DEF MergeComplete, Merging
<1>9. Settles'
  <2>1. Loaded' = Loaded
    BY <1>2 DEF Loaded
  <2>2. PICK S : S = Loaded.files
    OBVIOUS
  <2>3. Content(S)' = Content(S)
    BY <1>2 DEF Content
  <2>4. Content(Loaded.files)' \subseteq settled' /\ Content(snapshot.files)' \subseteq settled'
    BY <1>1, <1>2, <2>1, <2>2, <2>3 DEF Backed, Settles
  <2> QED
    BY <1>2, <1>3, <2>4 DEF Settles
<1> QED
  BY <1>7, <1>8, <1>9 DEF Backed
=============================================================================
