------------------------ MODULE QueueManifestProofs -------------------------
(***************************************************************************)
(* The flush queue and the manifest file: what the queue announces and     *)
(* what a wait that returned Ok means, for any number of callers, calls    *)
(* and failures; and that the manifest is replaced atomically, for any set *)
(* of snapshots and any encoding that can be read back.                    *)
(***************************************************************************)
EXTENDS FlushQueue, ManifestFile, SequenceTheorems, TLAPS

USE Zenon

----------------------------------------------------------------------------
(* The queue *)

\* Between publishing a table and marking the progress, the flusher alone knows
\* that the count in the queue is too high; everywhere else it is exact, unless
\* a log could not be unlinked.  It is never too low, which is what a wait that
\* reads zero relies on.
QueueInv ==
  /\ TypeOK
  /\ frozen <= pending
  /\ promised + frozen <= rotations
  /\ \A c \in Callers : wanted[c] <= rotations
  /\ flusher = "flush" => frozen > 0
  /\ flusher \notin {"unlink", "mark"} /\ faults.unlink = 0 => pending = frozen

\* The queue of a store just opened satisfies the invariant (open).
LEMMA QueueStarts == Init => QueueInv
<1> SUFFICES ASSUME Init
             PROVE  QueueInv
  OBVIOUS
<1>1. faults \in [{"flush", "compact", "unlink"} -> Nat]
  BY SMT DEF Init
<1>2. TypeOK
  BY <1>1 DEF Init, TypeOK, FlusherAt, CallerAt
<1> QED
  BY <1>2, SMT DEF Init, QueueInv

\* Waking threads changes where they stand and no count (progress).
LEMMA Waking ==
  ASSUME TypeOK
  PROVE  /\ Awake(flusher) \in FlusherAt
         /\ Awake(flusher) \in {"flush", "unlink", "mark"} => Awake(flusher) = flusher
         /\ flusher \in {"unlink", "mark"} => Awake(flusher) = flusher
         /\ AwakeCallers \in [Callers -> CallerAt]
<1>1. flusher \in FlusherAt /\ caller \in [Callers -> CallerAt]
  BY DEF TypeOK
<1>2. AwakeCallers \in [Callers -> CallerAt]
  BY <1>1 DEF AwakeCallers, CallerAt
<1>3. Awake(flusher) \in FlusherAt
  BY <1>1 DEF Awake, FlusherAt
<1>4. Awake(flusher) \in {"flush", "unlink", "mark"} => Awake(flusher) = flusher
  BY <1>1 DEF Awake, FlusherAt
<1>5. flusher \in {"unlink", "mark"} => Awake(flusher) = flusher
  BY DEF Awake
<1> QED
  BY <1>2, <1>3, <1>4, <1>5

\* A step that leaves the counts alone, and the flusher outside a flush, keeps
\* the invariant: most steps only move somebody on.
LEMMA CountsAlone ==
  ASSUME QueueInv, TypeOK',
         UNCHANGED <<frozen, pending, promised, rotations, wanted>>,
         faults'.unlink = faults.unlink,
         flusher' = "flush" => frozen > 0,
         flusher \in {"unlink", "mark"} => flusher' \in {"unlink", "mark"}
  PROVE  QueueInv'
BY DEF QueueInv

\* rotate keeps the invariant: it counts the table it froze (rotate).
LEMMA RotateKeeps ==
  ASSUME QueueInv, NEW c \in Callers,
         Rotate(c) \/ RotateNotifies(c)
  PROVE  QueueInv'
<1>1. CASE Rotate(c)
  BY <1>1, SMT DEF Rotate, Calls, QueueInv, TypeOK, CallerAt
<1>2. CASE RotateNotifies(c)
  <2>1. TypeOK /\ rotations \in Nat
    BY DEF QueueInv, TypeOK
  <2>2. caller' \in [Callers -> CallerAt]
    BY <1>2, <2>1, Waking DEF RotateNotifies, CallerAt
  <2>3. flusher' = Awake(flusher)
    BY <1>2 DEF RotateNotifies
  <2>4. wanted' \in [Callers -> Nat] /\ \A d \in Callers : wanted'[d] <= rotations
    BY <1>2, <2>1, SMT DEF RotateNotifies, QueueInv, TypeOK
  <2>5. TypeOK'
    BY <1>2, <2>1, <2>2, <2>3, <2>4, Waking DEF RotateNotifies, TypeOK, signals
  <2> QED
    BY <1>2, <2>1, <2>3, <2>4, <2>5, Waking DEF RotateNotifies, QueueInv, signals
<1> QED
  BY <1>1, <1>2

\* A wait promises what was frozen before it only when it reads zero, and zero
\* means that nothing is frozen (wait_for_flush, take_background_error).
LEMMA WaitKeeps ==
  ASSUME QueueInv, NEW c \in Callers,
         WaitCall(c) \/ WaitTakesError(c) \/ WaitDecides(c) \/ WriteTakesError(c)
  PROVE  QueueInv'
<1>1. CASE WaitCall(c)
  BY <1>1, SMT DEF WaitCall, Calls, QueueInv, TypeOK, CallerAt, signals
<1>2. CASE WaitTakesError(c)
  <2>1. background_error' \in BOOLEAN /\ queue' \in Callers \cup {None}
    BY <1>2 DEF WaitTakesError, QueueInv, TypeOK
  <2>2. /\ caller' \in [Callers -> CallerAt]
        /\ wanted' \in [Callers -> Nat] /\ \A d \in Callers : wanted'[d] <= rotations
    BY <1>2, SMT DEF WaitTakesError, QueueInv, TypeOK, CallerAt
  <2>3. TypeOK'
    BY <1>2, <2>1, <2>2 DEF WaitTakesError, QueueInv, TypeOK
  <2> QED
    BY <1>2, <2>2, <2>3 DEF WaitTakesError, QueueInv
<1>3. CASE WaitDecides(c)
  <2>1. CASE pending = 0
    BY <1>3, <2>1, SMT DEF WaitDecides, QueueInv, TypeOK, CallerAt
  <2>2. CASE pending # 0
    BY <1>3, <2>2 DEF WaitDecides, QueueInv, TypeOK, CallerAt
  <2> QED
    BY <2>1, <2>2
<1>4. CASE WriteTakesError(c)
  <2>1. calls' = calls + 1 /\ background_error' \in BOOLEAN
    BY <1>4 DEF WriteTakesError, Calls
  <2>2. /\ frozen' = frozen /\ flusher' = flusher /\ retry' = retry
        /\ caller' = caller /\ due' = due /\ drop' = drop
    BY <1>4 DEF WriteTakesError
  <2>3. /\ rotations' = rotations /\ cleared' = cleared /\ wanted' = wanted
        /\ promised' = promised /\ faults' = faults
    BY <1>4 DEF WriteTakesError
  <2>4. /\ pending' = pending /\ shape_changed' = shape_changed
        /\ shutdown' = shutdown /\ queue' = queue
    BY <1>4 DEF WriteTakesError, signals
  <2>5. TypeOK'
    BY <2>1, <2>2, <2>3, <2>4, SMT DEF QueueInv, TypeOK
  <2> QED
    BY <2>2, <2>3, <2>4, <2>5 DEF QueueInv
<1> QED
  BY <1>1, <1>2, <1>3, <1>4

\* The background thread takes a flush only when a table is frozen, and its
\* errors change no count (next_task, set_background_error).
LEMMA TaskKeeps ==
  ASSUME QueueInv,
         NextTask \/ DelayEnds \/ SetBackgroundError \/ ErrorNotifies
  PROVE  QueueInv'
<1>1. CASE NextTask
  <2>1. Decision \in FlusherAt /\ (Decision = "flush" => frozen > 0)
    BY DEF Decision, FlusherAt
  <2>2. flusher' \in FlusherAt /\ (flusher' = "flush" => frozen > 0)
    BY <1>1, <2>1 DEF NextTask, FlusherAt
  <2>3. shape_changed' \in BOOLEAN
    BY <1>1 DEF NextTask, QueueInv, TypeOK
  <2>4. TypeOK'
    BY <1>1, <2>2, <2>3 DEF NextTask, QueueInv, TypeOK, history
  <2> QED
    BY <1>1, <2>2, <2>4, CountsAlone DEF NextTask, history
<1>2. CASE DelayEnds
  BY <1>2 DEF DelayEnds, QueueInv, TypeOK, FlusherAt, signals, history
<1>3. CASE SetBackgroundError
  BY <1>3 DEF SetBackgroundError, QueueInv, TypeOK, FlusherAt, signals, history
<1>4. CASE ErrorNotifies
  BY <1>4, Waking DEF ErrorNotifies, QueueInv, TypeOK, FlusherAt, signals, history
<1> QED
  BY <1>1, <1>2, <1>3, <1>4

\* A flush takes one table off before it marks the progress, and marking makes
\* the count exact again (flush, commit, mark_progress).
LEMMA FlushKeeps ==
  ASSUME QueueInv,
         \/ FlushPublishes \/ FlushUnlinks \/ FlushFails \/ FlushUnlinkFails
         \/ FlusherMarks \/ FlusherNotifies
  PROVE  QueueInv'
<1>1. CASE FlushPublishes
  BY <1>1, SMT DEF FlushPublishes, QueueInv, TypeOK, FlusherAt, signals, history
<1>2. CASE FlushUnlinks
  BY <1>2, SMT DEF FlushUnlinks, QueueInv, TypeOK, FlusherAt, signals
<1>3. CASE FlushFails
  BY <1>3, SMT DEF FlushFails, QueueInv, TypeOK, FlusherAt, signals, history
<1>4. CASE FlushUnlinkFails
  BY <1>4, SMT DEF FlushUnlinkFails, QueueInv, TypeOK, FlusherAt, signals, history
<1>5. CASE FlusherMarks
  BY <1>5, SMT DEF FlusherMarks, Mark, QueueInv, TypeOK, FlusherAt, history
<1>6. CASE FlusherNotifies
  <2>1. TypeOK /\ flusher \notin {"unlink", "mark"}
    BY <1>6 DEF FlusherNotifies, QueueInv
  <2>2. flusher' \in FlusherAt /\ flusher' # "flush" /\ retry' \in BOOLEAN
    BY <1>6, <2>1 DEF FlusherNotifies, TypeOK, FlusherAt
  <2>3. caller' \in [Callers -> CallerAt]
    BY <1>6, <2>1, Waking DEF FlusherNotifies
  <2>4. UNCHANGED <<frozen, pending, shape_changed, shutdown, queue, background_error, due, drop>>
    BY <1>6 DEF FlusherNotifies, signals
  <2>5. UNCHANGED <<calls, rotations, cleared, wanted, promised, faults>>
    BY <1>6 DEF FlusherNotifies, history
  <2>6. TypeOK'
    BY <2>1, <2>2, <2>3, <2>4, <2>5 DEF TypeOK
  <2> QED
    BY <2>1, <2>2, <2>4, <2>5, <2>6, CountsAlone
<1> QED
  BY <1>1, <1>2, <1>3, <1>4, <1>5, <1>6

\* Compactions of the background thread change no count but their own
\* (compact_all).
LEMMA FlusherCompactKeeps ==
  ASSUME QueueInv, FlusherCompacts \/ FlusherCompactEnds \/ FlusherCompactFails
  PROVE  QueueInv'
<1>1. CASE FlusherCompacts
  BY <1>1, SMT DEF FlusherCompacts, CompactOnce, QueueInv, TypeOK, FlusherAt, signals, history
<1>2. CASE FlusherCompactEnds
  BY <1>2 DEF FlusherCompactEnds, QueueInv, TypeOK, FlusherAt, signals, history
<1>3. CASE FlusherCompactFails
  BY <1>3, SMT DEF FlusherCompactFails, CompactOnceFails, QueueInv, TypeOK, FlusherAt,
              signals, history
<1> QED
  BY <1>1, <1>2, <1>3

\* A caller that compacts republishes the count at any moment of a flush; under
\* the queue lock it is then exact (compact, mark_progress).
LEMMA CompactKeeps ==
  ASSUME QueueInv, NEW c \in Callers,
         \/ CompactCall(c) \/ CallerCompacts(c) \/ CallerCompactFails(c)
         \/ CallerMarks(c) \/ CallerNotifies(c)
  PROVE  QueueInv'
<1>1. CASE CompactCall(c)
  BY <1>1, SMT DEF CompactCall, Calls, QueueInv, TypeOK, CallerAt, signals
<1>2. CASE CallerCompacts(c)
  BY <1>2, SMT DEF CallerCompacts, CompactOnce, QueueInv, TypeOK, CallerAt, signals, history
<1>3. CASE CallerCompactFails(c)
  BY <1>3, SMT DEF CallerCompactFails, CompactOnceFails, QueueInv, TypeOK, CallerAt,
              signals, history
<1>4. CASE CallerMarks(c)
  BY <1>4, SMT DEF CallerMarks, Mark, QueueInv, TypeOK, CallerAt, history
<1>5. CASE CallerNotifies(c)
  <2>1. TypeOK
    BY DEF QueueInv
  <2>2. caller' \in [Callers -> CallerAt] /\ flusher' = Awake(flusher)
    BY <1>5, <2>1, Waking DEF CallerNotifies, CallerAt
  <2>3. TypeOK'
    BY <1>5, <2>1, <2>2, Waking DEF CallerNotifies, TypeOK, signals, history
  <2> QED
    BY <1>5, <2>1, <2>2, <2>3, Waking DEF CallerNotifies, QueueInv, signals, history
<1> QED
  BY <1>1, <1>2, <1>3, <1>4, <1>5

\* Closing the store changes no count (Drop for Engine).
LEMMA DropKeeps ==
  ASSUME QueueInv, DropFlags \/ DropNotifies \/ DropJoins
  PROVE  QueueInv'
<1>1. CASE DropFlags
  BY <1>1 DEF DropFlags, QueueInv, TypeOK, history
<1>2. CASE DropNotifies
  <2>1. TypeOK
    BY DEF QueueInv
  <2>2. flusher' = Awake(flusher)
    BY <1>2 DEF DropNotifies
  <2>3. TypeOK'
    BY <1>2, <2>1, <2>2, Waking DEF DropNotifies, TypeOK, signals, history
  <2> QED
    BY <1>2, <2>1, <2>2, <2>3, Waking DEF DropNotifies, QueueInv, signals, history
<1>3. CASE DropJoins
  BY <1>3 DEF DropJoins, QueueInv, TypeOK, signals, history
<1> QED
  BY <1>1, <1>2, <1>3

\* The invariant holds throughout (rotate, next_task, flush, compact_all,
\* wait_for_flush, mark_progress).
THEOREM QueueInvariance == Spec => []QueueInv
<1>1. Init => QueueInv
  BY QueueStarts
<1>2. QueueInv /\ [Next]_vars => QueueInv'
  <2> SUFFICES ASSUME QueueInv, [Next]_vars
               PROVE  QueueInv'
    OBVIOUS
  <2>1. ASSUME NEW c \in Callers, Rotate(c) \/ RotateNotifies(c)
        PROVE  QueueInv'
    BY <2>1, RotateKeeps
  <2>2. ASSUME NEW c \in Callers,
               WaitCall(c) \/ WaitTakesError(c) \/ WaitDecides(c) \/ WriteTakesError(c)
        PROVE  QueueInv'
    BY <2>2, WaitKeeps
  <2>3. ASSUME NEW c \in Callers,
               \/ CompactCall(c) \/ CallerCompacts(c) \/ CallerCompactFails(c)
               \/ CallerMarks(c) \/ CallerNotifies(c)
        PROVE  QueueInv'
    BY <2>3, CompactKeeps
  <2>4. CASE NextTask \/ DelayEnds \/ SetBackgroundError \/ ErrorNotifies
    BY <2>4, TaskKeeps
  <2>5. CASE \/ FlushPublishes \/ FlushUnlinks \/ FlushFails \/ FlushUnlinkFails
             \/ FlusherMarks \/ FlusherNotifies
    BY <2>5, FlushKeeps
  <2>6. CASE FlusherCompacts \/ FlusherCompactEnds \/ FlusherCompactFails
    BY <2>6, FlusherCompactKeeps
  <2>7. CASE DropFlags \/ DropNotifies \/ DropJoins
    BY <2>7, DropKeeps
  <2>8. CASE UNCHANGED vars
    BY <2>8 DEF vars, signals, history, QueueInv, TypeOK
  <2> QED
    BY <2>1, <2>2, <2>3, <2>4, <2>5, <2>6, <2>7, <2>8
       DEF Next, CallerSteps, FlusherSteps, DropSteps
<1> QED
  BY <1>1, <1>2, PTL DEF Spec

\* Between two tasks the queue announces exactly the frozen tables, whoever
\* compacts meanwhile and whatever failed, short of an unlink (next_task).
THEOREM QueueIsExact == Spec => []PendingIsFrozen
<1>1. QueueInv => PendingIsFrozen
  BY DEF QueueInv, PendingIsFrozen
<1> QED
  BY <1>1, QueueInvariance, PTL

\* A wait that returned Ok covers every table frozen before it began, for any
\* number of callers that rotate, wait and compact (wait_for_flush).
THEOREM WaitsAreHonest == Spec => []WaitMeansFlushed
<1>1. QueueInv => WaitMeansFlushed
  BY SMT DEF QueueInv, TypeOK, WaitMeansFlushed
<1> QED
  BY <1>1, QueueInvariance, PTL

----------------------------------------------------------------------------
(* The manifest *)

Steps == {"idle", "created", "written", "synced", "renamed"}

\* Every file MANIFEST may be, now or after a crash, is flushed and holds the
\* whole of a snapshot that may be loaded; what a store under way has done so
\* far is on the device where the next step relies on it.
ManifestInv ==
  /\ step \in Steps
  /\ storing \in Snapshots /\ committed \in Snapshots
  /\ attempted \subseteq Snapshots
  /\ \A f \in undone \cup {named} :
       \E s \in {committed} \cup attempted : f = Whole(s)
  /\ step # "idle" => storing \in attempted
  /\ step = "written" => temp = File(ToCells(storing), FALSE)
  /\ step = "synced" => temp = Whole(storing)
  /\ step = "renamed" => named = Whole(storing)

\* A file that was flushed comes through a crash as it is, and what it holds is
\* read back (sync_all before the rename in store; decode).
LEMMA WholeRemains ==
  ASSUME NEW s \in Snapshots
  PROVE  /\ Remains(Whole(s)) = {Whole(s)}
         /\ FromCells(Whole(s).cells) = s
BY CodecAssumption DEF Remains, Whole, File

\* The manifest a first open leaves satisfies the invariant (store, load).
LEMMA ManifestStarts == ManifestInit => ManifestInv
BY DEF ManifestInit, ManifestInv, Whole, Steps

\* The steps of a store that succeeds keep the invariant: a name only ever moves
\* to a whole, flushed file (store).
LEMMA StoreKeepsInv ==
  ASSUME ManifestInv,
         CreateTemp \/ WriteTemp \/ SyncTemp \/ Rename \/ SyncDirectory
  PROVE  ManifestInv'
<1>1. CASE CreateTemp
  BY <1>1 DEF CreateTemp, ManifestInv, Whole, File, Steps
<1>2. CASE WriteTemp
  BY <1>2 DEF WriteTemp, ManifestInv, Whole, File, Steps
<1>3. CASE SyncTemp
  <2>1. temp = File(ToCells(storing), FALSE)
    BY <1>3 DEF SyncTemp, ManifestInv
  <2>2. temp' = Whole(storing)
    BY <1>3, <2>1 DEF SyncTemp, Whole, File
  <2>3. /\ step' = "synced"
        /\ UNCHANGED <<named, undone, storing, committed, attempted>>
        /\ step # "idle"
    BY <1>3 DEF SyncTemp
  <2> QED
    BY <2>2, <2>3 DEF ManifestInv, Whole, File, Steps
<1>4. CASE Rename
  BY <1>4 DEF Rename, ManifestInv, Whole, File, Steps
<1>5. CASE SyncDirectory
  BY <1>5 DEF SyncDirectory, ManifestInv, Whole, File, Steps
<1> QED
  BY <1>1, <1>2, <1>3, <1>4, <1>5

\* A store that fails, after any of its steps, leaves the invariant (store).
LEMMA FailureKeepsInv ==
  ASSUME ManifestInv, StoreFails
  PROVE  ManifestInv'
BY DEF StoreFails, ManifestInv, Whole, File, Steps

\* A crash leaves under the name a snapshot that was committed or attempted, and
\* that is what is loaded (load, open).
LEMMA CrashLoads ==
  ASSUME ManifestInv, CrashAndLoad
  PROVE  \E s \in {committed} \cup attempted :
           /\ s \in Snapshots
           /\ named' = Whole(s)
           /\ committed' = s
<1>1. PICK f \in undone \cup {named} : named' \in Remains(f)
  BY DEF CrashAndLoad
<1>2. PICK s \in {committed} \cup attempted : f = Whole(s)
  BY <1>1 DEF ManifestInv
<1>3. s \in Snapshots
  BY <1>2 DEF ManifestInv
<1>4. named' = Whole(s)
  BY <1>1, <1>2, <1>3, WholeRemains
<1>5. committed' = s
  BY <1>3, <1>4, WholeRemains DEF CrashAndLoad
<1> QED
  BY <1>2, <1>3, <1>4, <1>5

\* A crash after any step keeps the invariant (store, load).
LEMMA CrashKeepsInv ==
  ASSUME ManifestInv, CrashAndLoad
  PROVE  ManifestInv'
<1>1. PICK s \in {committed} \cup attempted :
        /\ s \in Snapshots
        /\ named' = Whole(s)
        /\ committed' = s
  BY CrashLoads
<1>2. /\ undone' = {} /\ step' = "idle" /\ attempted' = {}
      /\ storing' = storing
  BY DEF CrashAndLoad
<1>3. Whole(s)' = Whole(s)
  BY DEF Whole, File
<1>4. \A f \in (undone \cup {named})' :
        \E t \in ({committed} \cup attempted)' : f = Whole(t)
  BY <1>1, <1>2, <1>3
<1> QED
  BY <1>1, <1>2, <1>4 DEF ManifestInv, Steps

\* The invariant holds throughout: for any snapshots, any number of stores,
\* failures and crashes (store, load).
THEOREM ManifestInvariance == ManifestSpec => []ManifestInv
<1>1. ManifestInit => ManifestInv
  BY ManifestStarts
<1>2. ManifestInv /\ [ManifestNext]_manifestVars => ManifestInv'
  <2> SUFFICES ASSUME ManifestInv, [ManifestNext]_manifestVars
               PROVE  ManifestInv'
    OBVIOUS
  <2>1. CASE CreateTemp \/ WriteTemp \/ SyncTemp \/ Rename \/ SyncDirectory
    BY <2>1, StoreKeepsInv
  <2>2. CASE StoreFails
    BY <2>2, FailureKeepsInv
  <2>3. CASE CrashAndLoad
    BY <2>3, CrashKeepsInv
  <2>4. CASE UNCHANGED manifestVars
    BY <2>4 DEF manifestVars, ManifestInv, Whole, File
  <2> QED
    BY <2>1, <2>2, <2>3, <2>4 DEF ManifestNext
<1> QED
  BY <1>1, <1>2, PTL DEF ManifestSpec

\* load never meets a torn or mixed manifest, nor one older than the last store
\* that returned (store, load).
THEOREM ManifestIsWhole == ManifestSpec => []LoadIsWhole
<1>1. ManifestInv => LoadIsWhole
  <2> SUFFICES ASSUME ManifestInv
               PROVE  LoadIsWhole
    OBVIOUS
  <2>1. PICK s \in {committed} \cup attempted : named = Whole(s)
    BY DEF ManifestInv
  <2>2. s \in Snapshots
    BY <2>1 DEF ManifestInv
  <2>3. Load = s
    BY <2>1, <2>2, WholeRemains DEF Load
  <2> QED
    BY <2>1, <2>2, <2>3 DEF LoadIsWhole
<1> QED
  BY <1>1, ManifestInvariance, PTL

\* A crash takes the store back to the last store that returned, or to one
\* whose store began after it, and no further (store, load).
THEOREM ManifestKeepsCommitted == ManifestSpec => CommittedSurvives
<1>1. ManifestInv /\ [ManifestNext]_manifestVars
        => [committed' \in {committed} \cup attempted]_manifestVars
  <2> SUFFICES ASSUME ManifestInv, ManifestNext
               PROVE  committed' \in {committed} \cup attempted
    OBVIOUS
  <2>1. CASE CreateTemp \/ WriteTemp \/ SyncTemp \/ Rename \/ StoreFails
    BY <2>1 DEF CreateTemp, WriteTemp, SyncTemp, Rename, StoreFails
  <2>2. CASE SyncDirectory
    BY <2>2 DEF SyncDirectory, ManifestInv
  <2>3. CASE CrashAndLoad
    BY <2>3, CrashLoads
  <2> QED
    BY <2>1, <2>2, <2>3 DEF ManifestNext
<1> QED
  BY <1>1, ManifestInvariance, PTL DEF ManifestSpec, CommittedSurvives
=============================================================================
