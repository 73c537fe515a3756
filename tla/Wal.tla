-------------------------------- MODULE Wal --------------------------------
(***************************************************************************)
(* The write-ahead log of lsmkv (crates/lsmkv/src/wal.rs): appends that    *)
(* encode into a shared buffer, the flush one caller runs for everybody    *)
(* (group commit), the background syncer of SyncPolicy::Interval, closing, *)
(* crashes and recovery.                                                   *)
(*                                                                         *)
(* A record is its sequence number: a log holds records in ascending       *)
(* order, so a set of numbers says which ones a buffer or a file holds and *)
(* in what order.  The file is what recovery would read from it: the       *)
(* records in front of the first incomplete one.                           *)
(*                                                                         *)
(* Simplifications.  A write and a device flush are one step each; a crash *)
(* inside a write is covered by Crash, which may land any prefix of the    *)
(* write under way.  A failed device flush leaves on the device what was   *)
(* there, and a later successful one covers everything (the POSIX reading, *)
(* not the kernels that drop dirty pages).  Encoding never fails.          *)
(***************************************************************************)
EXTENDS Integers, FiniteSets

CONSTANTS
  Threads,           \* callers of set, delete and sync
  Syncer,            \* the background thread of the Interval policy
  None,              \* nobody holds the append lock
  Policies,          \* the SyncPolicy values a log may be opened with
  BaseSeq,           \* highest sequence number used before this log
  MaxSeq,            \* bound: no record is numbered above it
  MaxPending,        \* MAX_PENDING_BYTES, in records
  MaxWriteFailures,  \* bound: writes that may fail
  MaxFlushFailures,  \* bound: device flushes that may fail
  MaxCrashes,        \* bound: crashes
  CrashKinds         \* subset of {"process", "power"}

ASSUME ThreadsAssumption ==
  /\ IsFiniteSet(Threads)
  /\ Syncer \notin Threads
  /\ None \notin Threads \cup {Syncer}
ASSUME PoliciesAssumption == Policies \subseteq {"always", "group", "interval"}
ASSUME BoundsAssumption ==
  /\ BaseSeq \in Nat /\ MaxSeq \in Nat /\ BaseSeq <= MaxSeq
  /\ MaxPending \in Nat \ {0}
  /\ MaxWriteFailures \in Nat /\ MaxFlushFailures \in Nat
  /\ MaxCrashes \in Nat
  /\ CrashKinds \subseteq {"process", "power"}

Procs == Threads \cup {Syncer}

VARIABLES
  policy,            \* Shared.policy, fixed when the log is opened
  phase,             \* life of the log: open, closing, flushing, down
  last_seq,          \* Shared.last_seq
  buf, written,      \* Pending, guarded by the append lock
  lock,              \* holder of the append lock across a step
  durable,           \* SyncState.durable
  in_progress,       \* SyncState.in_progress
  failed,            \* Shared.failed
  background_error,  \* whether Shared.background_error holds an error
  pc,                \* where each thread stands
  call,              \* the call each thread is in
  arg,               \* the sequence number that call waits for
  target,            \* what the flush a thread owns will cover
  stopping,          \* the syncer has seen the shutdown flag
  file,              \* records recovery would read from the file
  torn,              \* the file continues with an incomplete record
  device             \* the part of file that is on the device

\* What callers have been told, and what went wrong: history, never read by
\* the log itself.
VARIABLES
  visible,           \* records in the memtable: appended with Ok, or replayed
  acked,             \* records an append promised to be durable
  flushed,           \* records a completed sync covered
  lost,              \* records a failed write dropped from the buffer
  replayed,          \* records recovery read that were not on the device
  failures,          \* failed writes and flushes so far
  crashes            \* crashes so far

pending == <<last_seq, buf, written, failed>>
syncState == <<durable, in_progress>>
threadVars == <<pc, call, arg, target, stopping>>
storage == <<file, torn, device>>
promises == <<visible, acked, flushed>>
faults == <<lost, replayed, failures, crashes>>
vars == <<policy, phase, pending, lock, syncState, background_error,
          threadVars, storage, promises, faults>>

Open == phase \in {"open", "closing"}
Owning == {"drain", "fsync", "publish_ok", "publish_err"}

Init ==
  /\ policy \in Policies
  /\ phase = "open"
  /\ last_seq = BaseSeq /\ written = BaseSeq /\ durable = BaseSeq
  /\ buf = {} /\ lock = None /\ in_progress = FALSE
  /\ failed = FALSE /\ background_error = FALSE
  /\ pc = [t \in Procs |-> "idle"]
  /\ call = [t \in Procs |-> "sync"]
  /\ arg = [t \in Procs |-> 0] /\ target = [t \in Procs |-> 0]
  /\ stopping = FALSE
  /\ file = {} /\ torn = FALSE /\ device = {}
  /\ visible = {} /\ acked = {} /\ flushed = {}
  /\ lost = {} /\ replayed = {}
  /\ failures = [write |-> 0, flush |-> 0] /\ crashes = 0

----------------------------------------------------------------------------
(* The two system calls, and the ways they end. *)

\* Mutant: the count of written records runs one ahead.
WrittenRunsAhead(b) ==
  /\ file' = IF torn THEN file ELSE file \cup b
  /\ written' = IF b = {} THEN written ELSE last_seq' + 1
  /\ buf' = {}
  /\ UNCHANGED <<torn, failed, lost, failures>>

\* Mutant: the buffer is not cleared.
WritePendingKeepsBuffer(b) ==
  /\ file' = IF torn THEN file ELSE file \cup b
  /\ written' = IF b = {} THEN written ELSE last_seq'
  /\ buf' = b
  /\ UNCHANGED <<torn, failed, lost, failures>>

\* write_pending with the records b in the buffer, when the file takes all of
\* them.  Bytes that follow an incomplete record are out of recovery's reach.
WritePendingOk(b) ==
  /\ file' = IF torn THEN file ELSE file \cup b
  /\ written' = IF b = {} THEN written ELSE last_seq'
  /\ buf' = {}
  /\ UNCHANGED <<torn, failed, lost, failures>>

\* write_pending when write_all fails: the file took some whole records and
\* perhaps a piece of the next, and the buffer is dropped either way.
WritePendingErr(b) ==
  /\ b # {}
  /\ failures.write < MaxWriteFailures
  /\ \E next \in b :
       LET landed == {s \in b : s < next}
       IN  /\ file' = IF torn THEN file ELSE file \cup landed
           /\ lost' = lost \cup (b \ landed)
  /\ torn' \in {torn, TRUE}
  /\ failed' = TRUE
  /\ buf' = {}
  /\ failures' = [failures EXCEPT !.write = @ + 1]
  /\ UNCHANGED written

\* flush: sync_data puts the whole file on the device.
FlushOk == device' = file /\ UNCHANGED failures

FlushErr ==
  /\ failures.flush < MaxFlushFailures
  /\ failures' = [failures EXCEPT !.flush = @ + 1]
  /\ UNCHANGED device

\* A thread leaves the log: a caller goes back to its own code, the syncer to
\* its timer or, once told to stop, out of its loop.
Resting(t) == IF t = Syncer /\ stopping THEN "stopped" ELSE "idle"

\* An append returns Ok, and its caller inserts the record in the memtable.
AppendReturnsOk(seq) ==
  /\ visible' = visible \cup {seq}
  /\ acked' = IF policy = "interval" THEN acked ELSE acked \cup {seq}
  /\ UNCHANGED flushed

----------------------------------------------------------------------------
(* append *)

\* The checks at the top of append, made before the append lock is taken.  A
\* background failure is reported once; a failed log refuses.
AppendReportsError(t) ==
  /\ phase = "open" /\ pc[t] = "idle"
  /\ background_error
  /\ background_error' = FALSE
  /\ UNCHANGED <<policy, phase, pending, lock, syncState, threadVars, storage,
                 promises, faults>>

AppendChecks(t) ==
  /\ phase = "open" /\ pc[t] = "idle"
  /\ ~background_error /\ ~failed
  /\ last_seq + Cardinality({u \in Threads : pc[u] = "append"}) < MaxSeq
  /\ pc' = [pc EXCEPT ![t] = "append"]
  /\ call' = [call EXCEPT ![t] = "append"]
  /\ UNCHANGED <<policy, phase, pending, lock, syncState, background_error, arg,
                 target, stopping, storage, promises, faults>>

\* Whether the append that encodes next also writes the buffer out.
AppendWrites == policy = "always" \/ Cardinality(buf) + 1 >= MaxPending

AfterEncode ==
  IF policy = "always" THEN "flush" ELSE IF policy = "group" THEN "sync" ELSE "idle"

\* Encoding under the append lock.  Always keeps the lock for its flush, Group
\* goes on to sync_through, Interval is done.
AppendEncodes(t) ==
  LET seq == last_seq + 1
  IN
  /\ Open /\ pc[t] = "append" /\ lock = None
  /\ last_seq' = seq
  /\ arg' = [arg EXCEPT ![t] = seq]
  /\ \/ /\ AppendWrites
        /\ WritePendingOk(buf \cup {seq})
     \/ /\ ~AppendWrites
        /\ buf' = buf \cup {seq}
        /\ UNCHANGED <<written, file, torn, failed, lost, failures>>
  /\ pc' = [pc EXCEPT ![t] = AfterEncode]
  /\ lock' = IF policy = "always" THEN t ELSE None
  /\ IF policy = "interval" THEN AppendReturnsOk(seq) ELSE UNCHANGED promises
  /\ UNCHANGED <<policy, phase, syncState, background_error, call, target,
                 stopping, device, replayed, crashes>>

\* The write inside append fails and the append returns the error.
AppendWriteFails(t) ==
  LET seq == last_seq + 1
  IN
  /\ Open /\ pc[t] = "append" /\ lock = None
  /\ AppendWrites
  /\ last_seq' = seq
  /\ WritePendingErr(buf \cup {seq})
  /\ pc' = [pc EXCEPT ![t] = "idle"]
  /\ UNCHANGED <<policy, phase, lock, syncState, background_error, call, arg,
                 target, stopping, device, promises, replayed, crashes>>

\* The flush inside an Always append, and the release of the append lock.
AppendFlushes(t) ==
  /\ Open /\ pc[t] = "flush"
  /\ \/ FlushOk /\ AppendReturnsOk(arg[t])
     \/ FlushErr /\ UNCHANGED promises
  /\ lock' = None
  /\ pc' = [pc EXCEPT ![t] = "idle"]
  /\ UNCHANGED <<policy, phase, pending, syncState, background_error, call, arg,
                 target, stopping, file, torn, lost, replayed, crashes>>

----------------------------------------------------------------------------
(* sync, sync_through and write_and_flush *)

\* sync: everything appended so far.
SyncCall(t) ==
  /\ phase = "open" /\ pc[t] = "idle"
  /\ call' = [call EXCEPT ![t] = "sync"]
  /\ arg' = [arg EXCEPT ![t] = last_seq]
  /\ pc' = [pc EXCEPT ![t] = "sync"]
  /\ UNCHANGED <<policy, phase, pending, lock, syncState, background_error,
                 target, stopping, storage, promises, faults>>

\* Mutant: the syncer flushes the device without draining the buffer.
SyncerSkipsDrain ==
  /\ Open /\ policy = "interval" /\ pc[Syncer] = "idle" /\ ~in_progress
  /\ in_progress' = TRUE
  /\ stopping' = (phase = "closing")
  /\ arg' = [arg EXCEPT ![Syncer] = last_seq]
  /\ target' = [target EXCEPT ![Syncer] = last_seq]
  /\ pc' = [pc EXCEPT ![Syncer] = "fsync"]
  /\ UNCHANGED <<policy, phase, pending, lock, durable, background_error, call,
                 storage, promises, faults>>

\* Mutant: the syncer does not look at the shutdown flag.
SyncerIgnoresShutdown ==
  /\ Open /\ policy = "interval" /\ pc[Syncer] = "idle"
  /\ arg' = [arg EXCEPT ![Syncer] = last_seq]
  /\ pc' = [pc EXCEPT ![Syncer] = "sync"]
  /\ UNCHANGED <<policy, phase, pending, lock, syncState, background_error,
                 call, target, stopping, storage, promises, faults>>

\* The syncer's timer fires (wait_while_running): it notes whether the log is
\* closing, then flushes what has been appended so far.
SyncerWakes ==
  /\ Open /\ policy = "interval" /\ pc[Syncer] = "idle"
  /\ stopping' = (phase = "closing")
  /\ arg' = [arg EXCEPT ![Syncer] = last_seq]
  /\ pc' = [pc EXCEPT ![Syncer] = "sync"]
  /\ UNCHANGED <<policy, phase, pending, lock, syncState, background_error,
                 call, target, storage, promises, faults>>

\* The loop head of sync_through: already durable.
SyncDone(t) ==
  /\ Open /\ pc[t] = "sync"
  /\ durable >= arg[t]
  /\ pc' = [pc EXCEPT ![t] = Resting(t)]
  /\ IF call[t] = "append"
     THEN AppendReturnsOk(arg[t])
     ELSE /\ flushed' = flushed \cup {s \in visible : s <= arg[t]}
          /\ UNCHANGED <<visible, acked>>
  /\ UNCHANGED <<policy, phase, pending, lock, syncState, background_error,
                 call, arg, target, stopping, storage, faults>>

\* The loop head of sync_through: the log has failed.  The syncer keeps its
\* error for the next append.
SyncRefused(t) ==
  /\ Open /\ pc[t] = "sync"
  /\ durable < arg[t] /\ failed
  /\ pc' = [pc EXCEPT ![t] = Resting(t)]
  /\ background_error' = (background_error \/ t = Syncer)
  /\ UNCHANGED <<policy, phase, pending, lock, syncState, call, arg, target,
                 stopping, storage, promises, faults>>

\* The loop head of sync_through: someone else is flushing.  The wait on the
\* condition variable ends when that flush is published.
SyncWaits(t) ==
  /\ Open /\ pc[t] = "sync"
  /\ durable < arg[t] /\ ~failed /\ in_progress
  /\ pc' = [pc EXCEPT ![t] = "wait"]
  /\ UNCHANGED <<policy, phase, pending, lock, syncState, background_error,
                 call, arg, target, stopping, storage, promises, faults>>

\* Mutant: the owner of a flush does not say so.
SyncOwnsSilently(t) ==
  /\ Open /\ pc[t] = "sync"
  /\ durable < arg[t] /\ ~failed /\ ~in_progress
  /\ pc' = [pc EXCEPT ![t] = "drain"]
  /\ UNCHANGED <<policy, phase, pending, lock, syncState, background_error,
                 call, arg, target, stopping, storage, promises, faults>>

\* The loop head of sync_through: this thread owns the next flush.
SyncOwns(t) ==
  /\ Open /\ pc[t] = "sync"
  /\ durable < arg[t] /\ ~failed /\ ~in_progress
  /\ in_progress' = TRUE
  /\ pc' = [pc EXCEPT ![t] = "drain"]
  /\ UNCHANGED <<policy, phase, pending, lock, durable, background_error, call,
                 arg, target, stopping, storage, promises, faults>>

\* write_and_flush, first half: drain the buffer under the append lock.
WriteAndFlushDrains(t) ==
  /\ Open /\ pc[t] = "drain" /\ lock = None
  /\ UNCHANGED last_seq
  /\ \/ /\ WritePendingOk(buf)
        /\ target' = [target EXCEPT ![t] = written']
        /\ pc' = [pc EXCEPT ![t] = "fsync"]
     \/ /\ WritePendingErr(buf)
        /\ pc' = [pc EXCEPT ![t] = "publish_err"]
        /\ UNCHANGED target
  /\ UNCHANGED <<policy, phase, lock, syncState, background_error, call, arg,
                 stopping, device, promises, replayed, crashes>>

\* write_and_flush, second half: flush the device, with no lock held.
WriteAndFlushFlushes(t) ==
  /\ Open /\ pc[t] = "fsync"
  /\ \/ FlushOk /\ pc' = [pc EXCEPT ![t] = "publish_ok"]
     \/ FlushErr /\ pc' = [pc EXCEPT ![t] = "publish_err"]
  /\ UNCHANGED <<policy, phase, pending, lock, syncState, background_error,
                 call, arg, target, stopping, file, torn, promises, lost,
                 replayed, crashes>>

\* Mutant: nobody is notified.
NobodyWoken(t, next) == [pc EXCEPT ![t] = next]

\* notify_all on synced: every waiter looks at the state again.
Woken(t, next) ==
  [u \in Procs |-> IF u = t THEN next
                   ELSE IF pc[u] = "wait" THEN "sync" ELSE pc[u]]

\* Mutant: a flush is taken to cover what was appended while it ran.
SyncPublishesLastSeq(t) ==
  /\ Open /\ pc[t] = "publish_ok"
  /\ in_progress' = FALSE
  /\ durable' = last_seq
  /\ pc' = Woken(t, "sync")
  /\ UNCHANGED <<policy, phase, pending, lock, background_error, call, arg,
                 target, stopping, storage, promises, faults>>

\* The owner publishes a flush that worked, and goes round its loop.
SyncPublishes(t) ==
  /\ Open /\ pc[t] = "publish_ok"
  /\ in_progress' = FALSE
  /\ durable' = IF target[t] > durable THEN target[t] ELSE durable
  /\ pc' = Woken(t, "sync")
  /\ UNCHANGED <<policy, phase, pending, lock, background_error, call, arg,
                 target, stopping, storage, promises, faults>>

\* The owner publishes a flush that failed, and returns the error.
SyncPublishesError(t) ==
  /\ Open /\ pc[t] = "publish_err"
  /\ in_progress' = FALSE
  /\ pc' = Woken(t, Resting(t))
  /\ background_error' = (background_error \/ t = Syncer)
  /\ UNCHANGED <<policy, phase, pending, lock, durable, call, arg, target,
                 stopping, storage, promises, faults>>

----------------------------------------------------------------------------
(* drop, crash and recovery *)

\* Dropping a log needs it unshared, so no caller is inside; the syncer is
\* told to stop.
DropStarts ==
  /\ phase = "open"
  /\ \A t \in Threads : pc[t] = "idle"
  /\ phase' = "closing"
  /\ UNCHANGED <<policy, pending, lock, syncState, background_error,
                 threadVars, storage, promises, faults>>

\* The syncer has been joined.
DropWrites == phase = "closing" /\ (policy = "interval" => pc[Syncer] = "stopped")

\* Closing writes the buffer out and flushes it; errors are ignored.
DropDrains ==
  /\ DropWrites
  /\ UNCHANGED last_seq
  /\ \/ WritePendingOk(buf) /\ phase' = "flushing"
     \/ WritePendingErr(buf) /\ phase' = "down"
  /\ UNCHANGED <<policy, lock, syncState, background_error, threadVars,
                 device, promises, replayed, crashes>>

DropFlushes ==
  /\ phase = "flushing"
  /\ FlushOk \/ FlushErr
  /\ phase' = "down"
  /\ UNCHANGED <<policy, pending, lock, syncState, background_error,
                 threadVars, file, torn, promises, lost, replayed, crashes>>

\* Records of a write that a crash may interrupt.
InFlight ==
  IF \E t \in Threads : pc[t] = "append" /\ lock = None /\ AppendWrites
  THEN buf \cup {last_seq + 1}
  ELSE IF DropWrites \/ \E t \in Procs : pc[t] = "drain" THEN buf ELSE {}

\* Replay: recovery reads the records up to the first that is not whole.
Replay(records, end) == {s \in records : s <= end}

\* The process dies, and the operating system keeps what it was handed; or the
\* power fails, and only what is on the device is sure to stay.  Where records
\* went missing, a piece of the next one may be left.
Crash(kind) ==
  /\ phase # "down" /\ crashes < MaxCrashes
  /\ LET reached == IF torn THEN file ELSE file \cup InFlight
         sure == IF kind = "process" THEN file ELSE device
     IN  \E end \in BaseSeq .. (last_seq + 1) :
           /\ file' = Replay(reached, end)
           /\ sure \subseteq file'
           /\ device' = IF kind = "process" THEN device ELSE file'
           /\ torn' \in IF kind = "process" /\ torn THEN {TRUE}
                       ELSE {FALSE, torn \/ file' # reached}
  /\ phase' = "down"
  /\ crashes' = crashes + 1
  /\ UNCHANGED <<policy, pending, lock, syncState, background_error,
                 threadVars, promises, lost, replayed, failures>>

\* The number recovery continues from: the highest one the file holds or the
\* store has used elsewhere.
Highest(n) ==
  /\ n \in file \cup {BaseSeq}
  /\ \A s \in file \cup {BaseSeq} : s <= n

\* Mutant: recovery leaves the torn tail where it is.
KeepTornTail == UNCHANGED <<device, torn>>

\* Recovery cuts a torn tail off, which flushes the file.
CutTornTail ==
  /\ device' = IF torn THEN file ELSE device
  /\ torn' = FALSE

\* recover and new: replay what the file holds, and start a log whose numbering
\* continues past it.
Recover ==
  /\ phase = "down"
  /\ phase' = "open"
  /\ \E n \in file \cup {BaseSeq} : Highest(n) /\ last_seq' = n
  /\ written' = last_seq' /\ durable' = last_seq'
  /\ buf' = {} /\ lock' = None /\ in_progress' = FALSE
  /\ failed' = FALSE /\ background_error' = FALSE
  /\ pc' = [t \in Procs |-> "idle"]
  /\ call' = [t \in Procs |-> "sync"]
  /\ arg' = [t \in Procs |-> 0] /\ target' = [t \in Procs |-> 0]
  /\ stopping' = FALSE
  /\ CutTornTail
  /\ visible' = file
  \* A number whose record is gone may be given out again.
  /\ acked' = acked \cap file /\ flushed' = flushed \cap file
  /\ lost' = {} /\ replayed' = file \ device'
  /\ UNCHANGED <<policy, file, failures, crashes>>

----------------------------------------------------------------------------
Step(t) ==
  \/ SyncDone(t) \/ SyncRefused(t) \/ SyncWaits(t) \/ SyncOwns(t)
  \/ WriteAndFlushDrains(t) \/ WriteAndFlushFlushes(t)
  \/ SyncPublishes(t) \/ SyncPublishesError(t)

Next ==
  \/ \E t \in Threads :
       \/ AppendReportsError(t) \/ AppendChecks(t) \/ AppendEncodes(t)
       \/ AppendWriteFails(t) \/ AppendFlushes(t) \/ SyncCall(t)
  \/ \E t \in Procs : Step(t)
  \/ SyncerWakes
  \/ DropStarts \/ DropDrains \/ DropFlushes
  \/ \E kind \in CrashKinds : Crash(kind)
  \/ Recover

Spec == Init /\ [][Next]_vars

\* Every thread that is inside the log keeps going, and so does the drop; only
\* the callers' decisions, failures and crashes are left to chance.
Fairness ==
  /\ \A t \in Threads : WF_vars(AppendEncodes(t) \/ AppendFlushes(t))
  /\ \A t \in Procs : WF_vars(Step(t))
  /\ WF_vars(SyncerWakes)
  /\ WF_vars(DropDrains) /\ WF_vars(DropFlushes)

FairSpec == Spec /\ Fairness

----------------------------------------------------------------------------
(* Properties *)

Seqs == (BaseSeq + 1) .. MaxSeq

TypeOK ==
  /\ policy \in Policies
  /\ phase \in {"open", "closing", "flushing", "down"}
  /\ last_seq \in BaseSeq .. MaxSeq
  /\ written \in BaseSeq .. last_seq /\ durable \in BaseSeq .. last_seq
  /\ buf \subseteq Seqs /\ lock \in Threads \cup {None}
  /\ in_progress \in BOOLEAN /\ failed \in BOOLEAN
  /\ background_error \in BOOLEAN /\ stopping \in BOOLEAN /\ torn \in BOOLEAN
  /\ pc \in [Procs -> {"idle", "append", "flush", "sync", "wait", "stopped"}
                       \cup Owning]
  /\ call \in [Procs -> {"append", "sync"}]
  /\ arg \in [Procs -> 0 .. MaxSeq] /\ target \in [Procs -> 0 .. MaxSeq]
  /\ file \subseteq Seqs /\ device \subseteq file
  /\ visible \subseteq Seqs /\ acked \subseteq Seqs /\ flushed \subseteq Seqs
  /\ lost \subseteq Seqs /\ replayed \subseteq Seqs
  /\ failures \in [write : 0 .. MaxWriteFailures, flush : 0 .. MaxFlushFailures]
  /\ crashes \in 0 .. MaxCrashes

\* A failed write dropped record s, or one in front of it.
BehindLoss(s) == \E l \in lost : l <= s

\* Under Always and Group an append that returned Ok has its record on the
\* device, where recovery finds it after any crash; only a record behind one
\* that a failed write dropped can be an exception (append, sync_through).
AckedSurvives == \A s \in acked : s \in device \/ BehindLoss(s)

\* When sync returns Ok, or the syncer finishes a round, every visible record
\* it was asked to cover is on the device, except behind a failed write and
\* except records that recovery itself read back (sync, sync_through).
SyncCovers == \A s \in flushed : s \in device \cup replayed \/ BehindLoss(s)

\* The buffer holds exactly the records above written, as the comment on
\* Pending.written says, until a write fails (append, write_pending).
PendingIsTheGap ==
  phase # "down" /\ ~failed => buf = (written + 1) .. last_seq

\* in_progress is the flush's lock: it is set exactly while one thread owns the
\* flush, and there is never a second owner (sync_through).
OneFlushAtATime ==
  phase # "down" =>
    /\ in_progress <=> \E t \in Procs : pc[t] \in Owning
    /\ \A t, u \in Procs : pc[t] \in Owning /\ pc[u] \in Owning => t = u

Quiet == phase = "open" /\ \A t \in Procs : pc[t] = "idle"

\* With nobody inside the log, what memory shows is what a replay of the log
\* would rebuild, as memtable.rs promises (append, recover).
MemoryIsReplay == Quiet => visible = file \cup buf

\* The same, as long as no write and no flush has failed.
MemoryIsReplayUnlessFailed ==
  failures = [write |-> 0, flush |-> 0] => MemoryIsReplay

\* Always and Group promise that an append returns Ok only once its record is
\* durable (doc comment of SyncPolicy).
AckedIsDurable == acked \subseteq device

\* sync promises to push everything appended so far to the device.
SyncedIsDurable == flushed \subseteq device

\* Every call into the log returns, whoever owns the flush and whether or not
\* it works, unless the process dies first (sync_through, notify_all).
CallsReturn ==
  \A t \in Threads : []<>(pc[t] = "idle" \/ phase = "down")

\* Dropping a log ends: the syncer hears of the shutdown and finishes its last
\* round (Drop, spawn_syncer).
DropEnds == phase = "closing" ~> phase = "down"
=============================================================================
