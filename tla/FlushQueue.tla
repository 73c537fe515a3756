----------------------------- MODULE FlushQueue -----------------------------
(***************************************************************************)
(* How the callers of lsmkv's engine and its background thread signal each *)
(* other (engine.rs: FlushQueue, rotate, next_task, mark_progress,         *)
(* wait_for_flush, the background error and Drop).                         *)
(*                                                                         *)
(* One condition variable, progress, serves both sides; it is used with    *)
(* the queue lock, but two notifiers do not hold that lock.  Frozen        *)
(* memtables are counted, since they are flushed in order; what a flush    *)
(* and a compaction do to files is in Store.  A compaction is due after    *)
(* a flush or not, as the shape of the levels has it.                      *)
(***************************************************************************)
EXTENDS Naturals

CONSTANTS
  Callers,           \* threads calling flush, wait_for_flush and compact
  None,              \* nobody holds the queue lock across a step
  MaxCalls,          \* bound: calls made
  MaxFailures        \* bound: flushes and compactions that fail

ASSUME CallersAssumption == None \notin Callers
ASSUME BoundsAssumption == MaxCalls \in Nat /\ MaxFailures \in Nat

VARIABLES
  frozen,            \* length of State.frozen
  pending,           \* FlushQueue.pending
  shape_changed,     \* FlushQueue.shape_changed
  shutdown,          \* FlushQueue.shutdown
  queue,             \* who holds the queue lock across a step
  drop,              \* how far Drop for Engine is
  background_error,  \* whether Shared.background_error holds an error
  flusher,           \* where the background thread stands
  retry,             \* its local variable
  caller,            \* where each caller stands
  due                \* compactions the levels call for

\* History, never read by the code.
VARIABLES
  rotations,         \* memtables frozen so far
  cleared,           \* of these, the ones flushed with their logs gone
  wanted,            \* the rotations a running wait is to cover
  promised,          \* rotations a wait that returned Ok covered
  calls,             \* calls made so far
  faults             \* failures so far, by what failed

signals == <<pending, shape_changed, shutdown, queue>>
history == <<rotations, cleared, wanted, promised, calls>>
vars == <<frozen, signals, background_error, flusher, retry, caller, due, drop,
          history, faults>>

Init ==
  /\ frozen = 0 /\ pending = 0 /\ shape_changed = FALSE /\ shutdown = FALSE
  /\ queue = None /\ background_error = FALSE
  /\ flusher = "next" /\ retry = FALSE
  /\ caller = [c \in Callers |-> "idle"]
  /\ due = 0 /\ drop = "no" /\ calls = 0
  /\ rotations = 0 /\ cleared = 0 /\ promised = 0
  /\ wanted = [c \in Callers |-> 0]
  /\ faults = [flush |-> 0, compact |-> 0, unlink |-> 0]

\* notify_all on progress: whoever waits looks again, the background thread
\* from the top of its loop or from behind the delay.
Awake(f) == CASE f = "wait" -> "next" [] f = "delay" -> "look" [] OTHER -> f

\* Mutant: only the background thread is woken.
NoCallerAwake == caller
AwakeCallers == [c \in Callers |-> IF caller[c] = "wait" THEN "check" ELSE caller[c]]

\* Something more may fail.
MayFail == faults.flush + faults.compact + faults.unlink < MaxFailures

\* A call begins; the store is still open.
Calls(c) ==
  /\ drop = "no" /\ caller[c] = "idle" /\ calls < MaxCalls
  /\ calls' = calls + 1

----------------------------------------------------------------------------
(* rotate, as write and flush call it *)

\* Under the queue lock, pending becomes the number of frozen tables.
Rotate(c) ==
  /\ Calls(c) /\ queue = None
  /\ frozen' = frozen + 1
  /\ pending' = frozen'
  /\ rotations' = rotations + 1
  /\ caller' = [caller EXCEPT ![c] = "notify"]
  /\ UNCHANGED <<shape_changed, shutdown, queue, background_error, flusher,
                 retry, due, drop, cleared, wanted, promised, faults>>

\* Mutant: rotate does not notify.
RotateIsSilent(c) ==
  /\ caller[c] = "notify"
  /\ caller' = [caller EXCEPT ![c] = "idle"]
  /\ UNCHANGED <<frozen, signals, background_error, flusher, retry, due, drop,
                 history, faults>>

\* The notification follows once the locks are released and the old log is
\* closed.  A write is then done; flush goes on to wait.
RotateNotifies(c) ==
  /\ caller[c] = "notify"
  /\ flusher' = Awake(flusher)
  /\ \/ caller' = [AwakeCallers EXCEPT ![c] = "idle"] /\ UNCHANGED wanted
     \/ /\ caller' = [AwakeCallers EXCEPT ![c] = "check"]
        /\ wanted' = [wanted EXCEPT ![c] = rotations]
  /\ UNCHANGED <<frozen, signals, background_error, retry, due, drop, rotations,
                 cleared, promised, calls, faults>>

----------------------------------------------------------------------------
(* wait_for_flush and write, which report the background error *)

\* wait_for_flush itself, and flush on an empty table.
WaitCall(c) ==
  /\ Calls(c)
  /\ caller' = [caller EXCEPT ![c] = "check"]
  /\ wanted' = [wanted EXCEPT ![c] = rotations]
  /\ UNCHANGED <<frozen, signals, background_error, flusher, retry, due, drop,
                 rotations, cleared, promised, faults>>

\* Holding the queue lock it takes the error, which has a lock of its own.
WaitTakesError(c) ==
  /\ caller[c] = "check" /\ queue = None
  /\ IF background_error
     THEN /\ background_error' = FALSE
          /\ caller' = [caller EXCEPT ![c] = "idle"]
          /\ wanted' = [wanted EXCEPT ![c] = 0]
          /\ UNCHANGED queue
     ELSE /\ queue' = c
          /\ caller' = [caller EXCEPT ![c] = "decide"]
          /\ UNCHANGED <<background_error, wanted>>
  /\ UNCHANGED <<frozen, pending, shape_changed, shutdown, flusher, retry, due,
                 drop, rotations, cleared, promised, calls, faults>>

\* Mutant: the last frozen table is not waited for.
WaitLeavesOne(c) ==
  /\ caller[c] = "decide"
  /\ queue' = None
  /\ IF pending <= 1
     THEN /\ caller' = [caller EXCEPT ![c] = "idle"]
          /\ promised' = IF wanted[c] > promised THEN wanted[c] ELSE promised
          /\ wanted' = [wanted EXCEPT ![c] = 0]
     ELSE /\ caller' = [caller EXCEPT ![c] = "wait"]
          /\ UNCHANGED <<promised, wanted>>
  /\ UNCHANGED <<frozen, pending, shape_changed, shutdown, background_error,
                 flusher, retry, due, drop, rotations, cleared, calls, faults>>

\* It is done, or waits: the condition variable releases the queue lock.
WaitDecides(c) ==
  /\ caller[c] = "decide"
  /\ queue' = None
  /\ IF pending = 0
     THEN /\ caller' = [caller EXCEPT ![c] = "idle"]
          /\ promised' = IF wanted[c] > promised THEN wanted[c] ELSE promised
          /\ wanted' = [wanted EXCEPT ![c] = 0]
     ELSE /\ caller' = [caller EXCEPT ![c] = "wait"]
          /\ UNCHANGED <<promised, wanted>>
  /\ UNCHANGED <<frozen, pending, shape_changed, shutdown, background_error,
                 flusher, retry, due, drop, rotations, cleared, calls, faults>>

\* A write that finds the error returns it and does nothing else.
WriteTakesError(c) ==
  /\ Calls(c) /\ background_error
  /\ background_error' = FALSE
  /\ UNCHANGED <<frozen, signals, flusher, retry, caller, due, drop, rotations,
                 cleared, wanted, promised, faults>>

----------------------------------------------------------------------------
(* next_task and the loop of the background thread *)

\* What next_task settles on when it need not wait for the delay first.
Decision ==
  CASE shutdown -> "stopped"
    [] ~shutdown /\ pending > 0 /\ frozen > 0 -> "flush"
    [] ~shutdown /\ ~(pending > 0 /\ frozen > 0) /\ shape_changed -> "compact"
    [] OTHER -> "wait"

\* The loop, in one holding of the queue lock.  After a failure it starts with
\* the delay, every time round.
NextTask ==
  /\ queue = None
  /\ \/ flusher = "next" /\ flusher' = IF retry /\ ~shutdown THEN "delay" ELSE Decision
     \/ flusher = "look" /\ flusher' = Decision
  /\ shape_changed' = (shape_changed /\ flusher' # "compact")
  /\ UNCHANGED <<frozen, pending, shutdown, queue, background_error, retry,
                 caller, due, drop, history, faults>>

\* RETRY_DELAY is over.
DelayEnds ==
  /\ flusher = "delay"
  /\ flusher' = "look"
  /\ UNCHANGED <<frozen, signals, background_error, retry, caller, due, drop,
                 history, faults>>

\* set_background_error: the error is set, or the first one kept ...
SetBackgroundError ==
  /\ flusher = "failed"
  /\ background_error' = TRUE
  /\ flusher' = "tell"
  /\ UNCHANGED <<frozen, signals, retry, caller, due, drop, history, faults>>

\* ... and the notification sent without the queue lock.
ErrorNotifies ==
  /\ flusher = "tell"
  /\ flusher' = "next"
  /\ retry' = TRUE
  /\ caller' = AwakeCallers
  /\ UNCHANGED <<frozen, signals, background_error, due, drop, history, faults>>

----------------------------------------------------------------------------
(* flush and mark_progress *)

\* commit publishes the table in place of the oldest frozen memtable.
FlushPublishes ==
  /\ flusher = "flush"
  /\ frozen' = frozen - 1
  /\ due' \in {due, due + 1}
  /\ flusher' = "unlink"
  /\ UNCHANGED <<signals, background_error, retry, caller, drop, history, faults>>

FlushUnlinks ==
  /\ flusher = "unlink"
  /\ cleared' = cleared + 1
  /\ flusher' = "mark"
  /\ UNCHANGED <<frozen, signals, background_error, retry, caller, due, drop,
                 rotations, wanted, promised, calls, faults>>

\* A failure before the commit leaves the memtable frozen ...
FlushFails ==
  /\ flusher = "flush" /\ MayFail
  /\ flusher' = "failed"
  /\ faults' = [faults EXCEPT !.flush = @ + 1]
  /\ UNCHANGED <<frozen, signals, background_error, retry, caller, due, drop, history>>

\* ... one after it returns without mark_progress.
FlushUnlinkFails ==
  /\ flusher = "unlink" /\ MayFail
  /\ flusher' = "failed"
  /\ faults' = [faults EXCEPT !.unlink = @ + 1]
  /\ UNCHANGED <<frozen, signals, background_error, retry, caller, due, drop, history>>

\* Mutant: pending is a running total.
MarkCountsDown ==
  /\ queue = None
  /\ pending' = pending - 1
  /\ shape_changed' = TRUE

\* Mutant: nobody is told that the levels have changed.
MarkForgetsShape ==
  /\ queue = None
  /\ pending' = frozen
  /\ UNCHANGED shape_changed

\* mark_progress, under the queue lock.
Mark ==
  /\ queue = None
  /\ pending' = frozen
  /\ shape_changed' = TRUE

FlusherMarks ==
  /\ Mark
  /\ \/ flusher = "mark" /\ flusher' = "notify"
     \/ flusher = "cmark" /\ flusher' = "cnotify"
  /\ UNCHANGED <<frozen, shutdown, queue, background_error, retry, caller, due,
                 drop, history, faults>>

\* Its notification.  A flush is then done; compact_all goes round again.
FlusherNotifies ==
  /\ caller' = AwakeCallers
  /\ \/ flusher = "notify" /\ flusher' = "next" /\ retry' = FALSE
     \/ flusher = "cnotify" /\ flusher' = "compact" /\ UNCHANGED retry
  /\ UNCHANGED <<frozen, signals, background_error, due, drop, history, faults>>

----------------------------------------------------------------------------
(* compact_all, on the background thread and on a caller's *)

\* The compacting lock is held until mark_progress returns.
Compacting ==
  flusher \in {"cmark", "cnotify"} \/ \E c \in Callers : caller[c] \in {"cmark", "cnotify"}

\* compact_once runs one compaction.
CompactOnce == ~Compacting /\ due > 0 /\ due' = due - 1

FlusherCompacts ==
  /\ flusher = "compact"
  /\ CompactOnce
  /\ flusher' = "cmark"
  /\ UNCHANGED <<frozen, signals, background_error, retry, caller, drop, history, faults>>

\* compact_all ends when no level is over its limit.
FlusherCompactEnds ==
  /\ flusher = "compact" /\ ~Compacting /\ due = 0
  /\ flusher' = "next"
  /\ retry' = FALSE
  /\ UNCHANGED <<frozen, signals, background_error, caller, due, drop, history, faults>>

\* A compaction that fails before its commit is still due; one that cannot
\* unlink an input is not.
CompactOnceFails ==
  /\ ~Compacting /\ due > 0 /\ MayFail
  /\ due' \in {due, due - 1}
  /\ faults' = [faults EXCEPT !.compact = @ + 1]

FlusherCompactFails ==
  /\ flusher = "compact"
  /\ CompactOnceFails
  /\ flusher' = "failed"
  /\ UNCHANGED <<frozen, signals, background_error, retry, caller, drop, history>>

CompactCall(c) ==
  /\ Calls(c)
  /\ caller' = [caller EXCEPT ![c] = "compact"]
  /\ UNCHANGED <<frozen, signals, background_error, flusher, retry, due, drop,
                 rotations, cleared, wanted, promised, faults>>

CallerCompacts(c) ==
  /\ caller[c] = "compact"
  /\ \/ CompactOnce /\ caller' = [caller EXCEPT ![c] = "cmark"]
     \/ ~Compacting /\ due = 0 /\ caller' = [caller EXCEPT ![c] = "idle"] /\ UNCHANGED due
  /\ UNCHANGED <<frozen, signals, background_error, flusher, retry, drop, history, faults>>

\* compact returns the error to its caller.
CallerCompactFails(c) ==
  /\ caller[c] = "compact"
  /\ CompactOnceFails
  /\ caller' = [caller EXCEPT ![c] = "idle"]
  /\ UNCHANGED <<frozen, signals, background_error, flusher, retry, drop, history>>

CallerMarks(c) ==
  /\ caller[c] = "cmark"
  /\ Mark
  /\ caller' = [caller EXCEPT ![c] = "cnotify"]
  /\ UNCHANGED <<frozen, shutdown, queue, background_error, flusher, retry, due,
                 drop, history, faults>>

CallerNotifies(c) ==
  /\ caller[c] = "cnotify"
  /\ caller' = [AwakeCallers EXCEPT ![c] = "compact"]
  /\ flusher' = Awake(flusher)
  /\ UNCHANGED <<frozen, signals, background_error, retry, due, drop, history, faults>>

----------------------------------------------------------------------------
(* Drop for Engine, which owns it: no call is running *)

DropFlags ==
  /\ drop = "no" /\ queue = None /\ \A c \in Callers : caller[c] = "idle"
  /\ shutdown' = TRUE
  /\ drop' = "notify"
  /\ UNCHANGED <<frozen, pending, shape_changed, queue, background_error, flusher,
                 retry, caller, due, history, faults>>

\* Mutant: Drop joins without notifying.
DropIsSilent ==
  /\ drop = "notify"
  /\ drop' = "join"
  /\ UNCHANGED <<frozen, signals, background_error, flusher, retry, caller, due,
                 history, faults>>

DropNotifies ==
  /\ drop = "notify"
  /\ flusher' = Awake(flusher)
  /\ drop' = "join"
  /\ UNCHANGED <<frozen, signals, background_error, retry, caller, due, history, faults>>

DropJoins ==
  /\ drop = "join" /\ flusher = "stopped"
  /\ drop' = "gone"
  /\ UNCHANGED <<frozen, signals, background_error, flusher, retry, caller, due,
                 history, faults>>

----------------------------------------------------------------------------
CallerSteps(c) ==
  \/ RotateNotifies(c) \/ WaitTakesError(c) \/ WaitDecides(c)
  \/ CallerCompacts(c) \/ CallerMarks(c) \/ CallerNotifies(c)

FlusherSteps ==
  \/ NextTask \/ DelayEnds \/ SetBackgroundError \/ ErrorNotifies
  \/ FlushPublishes \/ FlushUnlinks \/ FlusherMarks \/ FlusherNotifies
  \/ FlusherCompacts \/ FlusherCompactEnds

DropSteps == DropNotifies \/ DropJoins

Next ==
  \/ \E c \in Callers :
       \/ Rotate(c) \/ WaitCall(c) \/ CompactCall(c) \/ WriteTakesError(c)
       \/ CallerSteps(c) \/ CallerCompactFails(c)
  \/ FlusherSteps \/ FlushFails \/ FlushUnlinkFails \/ FlusherCompactFails
  \/ DropFlags \/ DropSteps

Spec == Init /\ [][Next]_vars

\* Running threads go on: no call has to be made, nothing has to fail.
FairSpec ==
  /\ Spec
  /\ \A c \in Callers : WF_vars(CallerSteps(c))
  /\ WF_vars(FlusherSteps)
  /\ WF_vars(DropSteps)

----------------------------------------------------------------------------
(* Properties *)

FlusherAt == {"next", "look", "wait", "delay", "flush", "unlink", "mark", "notify",
              "compact", "cmark", "cnotify", "failed", "tell", "stopped"}
CallerAt == {"idle", "notify", "check", "decide", "wait", "compact", "cmark",
             "cnotify"}

TypeOK ==
  /\ frozen \in Nat /\ pending \in Nat /\ due \in Nat
  /\ shape_changed \in BOOLEAN /\ shutdown \in BOOLEAN
  /\ queue \in Callers \cup {None} /\ background_error \in BOOLEAN
  /\ flusher \in FlusherAt /\ retry \in BOOLEAN
  /\ caller \in [Callers -> CallerAt]
  /\ drop \in {"no", "notify", "join", "gone"}
  /\ {rotations, cleared, promised, calls} \subseteq Nat
  /\ wanted \in [Callers -> Nat]
  /\ faults \in [{"flush", "compact", "unlink"} -> Nat]

\* Between two tasks, the work the queue announces is the number of frozen
\* memtables, whatever failed before (engine.rs:576-577), as long as every log
\* could be unlinked: where one could not, flush returns before mark_progress
\* (engine.rs:669-672) and pending stays up.
PendingIsFrozen ==
  flusher \in {"next", "look", "wait", "delay"} /\ faults.unlink = 0 => pending = frozen

\* What wait_for_flush and flush answer Ok for is on disk: every memtable frozen
\* before the call is a table of the store (engine.rs:841-852), even when calls of
\* compact republish pending at any moment of a flush.
WaitMeansFlushed == promised <= rotations - frozen

\* "a caller that waited for the flush can count on the logs it replaced being
\* gone" (engine.rs:667-668).
WaitMeansLogsGone == promised <= cleared

\* Every call returns, whatever fails and however the notifications, two of
\* which are sent without the queue lock, race with the waits; only a log that
\* could not be unlinked lets a wait hang, since pending then stays up with
\* nothing frozen.
CallsReturn == \A c \in Callers : []<>(caller[c] = "idle" \/ faults.unlink > 0)

\* A frozen memtable is flushed in the end, failures and retries
\* notwithstanding, unless the store is closed first.
FrozenDrains == []<>(frozen = 0 \/ shutdown)

\* A compaction that a flush makes due is run without anybody asking for it,
\* unless one failed (shape_changed is cleared before it is tried, and nothing
\* sets it again) or the flush never reached mark_progress.
CompactionsRun ==
  []<>(due = 0 \/ shutdown \/ faults.compact > 0 \/ faults.unlink > 0)

\* Dropping the engine ends: the background thread sees shutdown at its next
\* look, asleep, in the delay or at work, and the join returns.
DropReturns == drop = "notify" ~> drop = "gone"

=============================================================================
