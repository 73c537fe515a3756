----------------------------- MODULE WalProofs ------------------------------
(***************************************************************************)
(* Safety of the write-ahead log for any number of callers, any bounds and *)
(* any mix of policies, failures and crashes: the inductive invariant,     *)
(* what the kinds of steps do to it, and the theorems.                     *)
(***************************************************************************)
EXTENDS Wal, FiniteSetTheorems, TLAPS

USE Zenon

Up == phase # "down"

\* Callers that have passed append's checks and hold no number yet.
Appending == {u \in Threads : pc[u] = "append"}

\* The bound of the model: every one of them has a number left.
Room == last_seq + Cardinality(Appending) <= MaxSeq

\* Threads inside append whose record is encoded.
Encoded(t) == call[t] = "append" /\ pc[t] \in {"flush", "sync", "wait"} \cup Owning

\* Where the counters stand: the buffer lies above written, nothing claims to
\* be durable that was not written, and no number is ahead of last_seq.
Counters ==
  Up =>
    /\ durable <= written
    /\ \A s \in buf : written < s /\ s <= last_seq
    /\ \A s \in file \cup visible \cup lost \cup replayed : s <= last_seq
    /\ \A t \in Procs : pc[t] \in {"fsync", "publish_ok"} => target[t] <= written

\* A failed write empties the buffer, so what is encoded later is behind it.
Losses ==
  Up =>
    /\ \A l \in lost : \A s \in buf : l < s
    /\ torn => lost # {}

\* A record that was encoded is in the file or in the buffer, unless a failed
\* write dropped it or a record in front of it.
Present ==
  Up =>
    /\ call[Syncer] = "sync"
    /\ \A t \in Threads : pc[t] \in {"append", "flush"} => call[t] = "append"
    /\ \A s \in visible : s \in file \cup buf \/ BehindLoss(s)
    /\ \A t \in Procs : Encoded(t) =>
         /\ BaseSeq < arg[t] /\ arg[t] <= last_seq
         /\ arg[t] \notin replayed
         /\ arg[t] \in file \cup buf \/ BehindLoss(arg[t])
         /\ pc[t] = "flush" => /\ arg[t] <= written
                               /\ arg[t] \in file \/ BehindLoss(arg[t])

\* What a flush claims to cover, and the file holds, is on the device.
Covered ==
  Up =>
    /\ \A s \in file : s <= durable => s \in device \cup replayed
    /\ \A t \in Procs : pc[t] = "publish_ok" =>
         \A s \in file : s <= target[t] => s \in device \cup replayed

\* A promise that is not kept was broken for good: the record is nowhere, and
\* no later write can bring it back.
Kept ==
  /\ \A s \in acked : s \in device \/ (s \notin file /\ BehindLoss(s))
  /\ \A s \in flushed : s \in device \cup replayed \/ (s \notin file /\ BehindLoss(s))
  /\ Up => \A s \in acked \cup flushed : s <= written

IInv == TypeOK /\ Room /\ Counters /\ Losses /\ Present /\ Covered /\ Kept

----------------------------------------------------------------------------
(* Sets of callers *)

\* Callers between append's checks and its lock form a finite set.
LEMMA AppendingFinite == IsFiniteSet(Appending) /\ Cardinality(Appending) \in Nat
<1>1. Appending \subseteq Threads
  BY DEF Appending
<1>2. IsFiniteSet(Appending)
  BY <1>1, ThreadsAssumption, FS_Subset
<1> QED
  BY <1>2, FS_CardinalityType

\* Only AppendChecks adds to them; any other step leaves the bound in place.
LEMMA RoomShrinks ==
  ASSUME Room, TypeOK, last_seq' = last_seq, Appending' \subseteq Appending
  PROVE  Room'
<1>1. Cardinality(Appending') <= Cardinality(Appending) /\ Cardinality(Appending') \in Nat
  BY AppendingFinite, FS_Subset, FS_CardinalityType
<1> QED
  BY <1>1, AppendingFinite, BoundsAssumption, SMT DEF Room, TypeOK

----------------------------------------------------------------------------
(* What a write does, whether it works or not *)

\* The records b leave the buffer, or stay there: each is in the file, in the
\* buffer or behind a loss afterwards, and nothing else appears anywhere.
Moved(b) ==
  /\ buf' = {} \/ (buf' = b /\ UNCHANGED <<file, lost, written>>)
  /\ file \subseteq file' /\ file' \subseteq file \cup b
  /\ lost \subseteq lost' /\ lost' \subseteq lost \cup b
  /\ \A s \in b : s \in file' \cup buf' \/ \E l \in lost' : l <= s
  /\ torn' => lost' # {}
  /\ torn' \in BOOLEAN /\ failed' \in BOOLEAN
  /\ written' = written \/ (b # {} /\ buf' = {} /\ written' = last_seq')

\* write_pending moves the buffer in that sense, whether it works or fails.
LEMMA WriteOutcome ==
  ASSUME TypeOK, Losses, Counters, Up,
         NEW b, b = buf \/ b = buf \cup {last_seq + 1},
         WritePendingOk(b) \/ WritePendingErr(b)
  PROVE  Moved(b) /\ buf' = {}
<1>0. last_seq \in Nat /\ buf \subseteq Nat /\ lost \subseteq Nat
  BY BoundsAssumption, SMT DEF TypeOK, Seqs
<1>1. b \subseteq Nat /\ (\A l \in lost : \A s \in b : l < s)
  <2>1. \A l \in lost : l <= last_seq /\ \A s \in buf : l < s
    BY DEF Losses, Counters, Up
  <2>2. \A s \in b : s \in buf \/ s = last_seq + 1
    OBVIOUS
  <2>3. ASSUME NEW s \in b PROVE s \in Nat
    <3>1. CASE s \in buf
      BY <1>0, <3>1
    <3>2. CASE s = last_seq + 1
      BY <1>0, <3>2, SMT
    <3> QED
      BY <2>2, <3>1, <3>2
  <2>4. ASSUME NEW l \in lost, NEW s \in b PROVE l < s
    BY <1>0, <2>1, <2>2, <2>3, SMT
  <2> QED
    BY <2>3, <2>4
<1>2. CASE WritePendingOk(b)
  <2>1. torn => \E l \in lost : TRUE
    BY DEF Losses, Up
  <2>2. \A s \in b : s \in file' \/ \E l \in lost' : l <= s
    BY <1>0, <1>1, <1>2, <2>1, SMT DEF WritePendingOk
  <2>3. torn' \in BOOLEAN /\ failed' \in BOOLEAN /\ (torn' => lost' # {})
    BY <1>2, <2>1 DEF WritePendingOk, TypeOK
  <2> QED
    BY <1>2, <2>2, <2>3 DEF WritePendingOk, Moved
<1>3. CASE WritePendingErr(b)
  <2>1. PICK next \in b :
          LET landed == {s \in b : s < next}
          IN  /\ file' = IF torn THEN file ELSE file \cup landed
              /\ lost' = lost \cup (b \ landed)
    BY <1>3 DEF WritePendingErr
  <2>2. next \in lost' /\ next \in Nat
    BY <2>1, <1>1, SMT
  <2>3. \A s \in b : s \in file' \/ \E l \in lost' : l <= s
    <3> SUFFICES ASSUME NEW s \in b, s \notin file' PROVE \E l \in lost' : l <= s
      OBVIOUS
    <3>1. CASE s < next
      <4>1. torn
        BY <2>1, <3>1
      <4>2. PICK l \in lost : l < s
        BY <4>1, <1>1 DEF Losses, Up
      <4> QED
        BY <4>2, <2>1, <1>0, <1>1, SMT
    <3>2. CASE ~(s < next)
      BY <3>2, <2>2, <1>1, SMT
    <3> QED
      BY <3>1, <3>2
  <2> QED
    BY <2>1, <2>2, <2>3, <1>3 DEF WritePendingErr, TypeOK, Moved
<1> QED
  BY <1>2, <1>3

\* The bookkeeping of failures stays a record of bounded counters.
LEMMA FailuresTyped ==
  ASSUME TypeOK,
         \/ UNCHANGED failures
         \/ /\ failures.write < MaxWriteFailures
            /\ failures' = [failures EXCEPT !.write = @ + 1]
         \/ /\ failures.flush < MaxFlushFailures
            /\ failures' = [failures EXCEPT !.flush = @ + 1]
  PROVE  failures' \in [write : 0 .. MaxWriteFailures, flush : 0 .. MaxFlushFailures]
<1>1. failures \in [write : 0 .. MaxWriteFailures, flush : 0 .. MaxFlushFailures]
  BY DEF TypeOK
<1> QED
  BY <1>1, BoundsAssumption, SMT

\* A caller between the checks and the lock has a number left.
LEMMA RoomForOne ==
  ASSUME TypeOK, Room, NEW t \in Threads, pc[t] = "append"
  PROVE  /\ last_seq + 1 <= MaxSeq
         /\ last_seq + 1 + Cardinality(Appending \ {t}) <= MaxSeq
<1>1. t \in Appending
  BY DEF Appending
<1>2. /\ Cardinality(Appending \ {t}) = Cardinality(Appending) - 1
      /\ Cardinality(Appending \ {t}) \in Nat
  BY <1>1, AppendingFinite, FS_RemoveElement, FS_CardinalityType
<1> QED
  BY <1>2, AppendingFinite, BoundsAssumption, SMT DEF Room, TypeOK

\* What a step that only moves a thread may do: records, counters and promises
\* stay, and nobody comes to hold a record, or a flush, it did not hold before.
ThreadMoves ==
  /\ Up /\ Up'
  /\ UNCHANGED <<last_seq, buf, written, durable, file, torn, device, lost,
                 replayed, visible, acked, flushed>>
  /\ call'[Syncer] = "sync"
  /\ \A u \in Threads : pc'[u] \in {"append", "flush"} => call'[u] = "append"
  /\ \A u \in Procs : Encoded(u)' =>
       Encoded(u) /\ arg'[u] = arg[u] /\ (pc'[u] = "flush" => pc[u] = "flush")
  /\ \A u \in Procs : pc'[u] \in {"fsync", "publish_ok"} =>
       pc'[u] = pc[u] /\ target'[u] = target[u]

\* Such a step keeps the invariant.
LEMMA ThreadMovesKeeps == ASSUME IInv, ThreadMoves, TypeOK', Room' PROVE IInv'
<1>1. Counters' /\ Losses' /\ Covered' /\ Kept'
  BY DEF IInv, ThreadMoves, Counters, Losses, Covered, Kept, BehindLoss
<1>2. Present'
  BY DEF IInv, ThreadMoves, Present, BehindLoss
<1> QED
  BY <1>1, <1>2 DEF IInv

\* What a step that writes the buffer out may do: the records b, perhaps with a
\* new one, are moved and promises stay; nobody comes to hold a record, and a
\* thread that starts a device flush aims at what is written.
WriteMoves(b) ==
  /\ Up
  /\ \/ b = buf /\ last_seq' = last_seq
     \/ b = buf \cup {last_seq + 1} /\ last_seq' = last_seq + 1 /\ last_seq' <= MaxSeq
  /\ Moved(b) /\ buf' = {}
  /\ UNCHANGED <<durable, device, replayed, visible, acked, flushed, call, arg>>
  /\ \A u \in Procs :
       /\ pc'[u] \in {"append", "flush"} => pc'[u] = pc[u]
       /\ Encoded(u)' => Encoded(u)
       /\ pc'[u] = "publish_ok" => pc[u] = "publish_ok" /\ target'[u] = target[u]
       /\ pc'[u] = "fsync" =>
            target'[u] = written' \/ (pc[u] = "fsync" /\ target'[u] = target[u])

\* Where the counters and the records stand while the log is up.
LEMMA Bearings ==
  ASSUME IInv, Up
  PROVE  /\ BaseSeq \in Nat /\ MaxSeq \in Nat
         /\ last_seq \in Nat /\ written \in Nat /\ durable \in Nat
         /\ BaseSeq <= durable /\ durable <= written /\ written <= last_seq
         /\ last_seq <= MaxSeq
         /\ buf \cup file \cup visible \cup lost \cup replayed \subseteq Nat
         /\ \A s \in buf \cup file \cup visible \cup lost \cup replayed : s <= last_seq
         /\ \A s \in buf : written < s /\ \A l \in lost : l < s
  BY BoundsAssumption, SMT DEF IInv, TypeOK, Seqs, Counters, Losses

\* Such a step keeps the records and the counters in their types ...
LEMMA WriteMovesTyped ==
  ASSUME IInv, NEW b, WriteMoves(b)
  PROVE  /\ last_seq' \in BaseSeq .. MaxSeq
         /\ written' \in BaseSeq .. last_seq' /\ durable' \in BaseSeq .. last_seq'
         /\ written <= written' /\ written' \in Nat /\ last_seq' \in Nat
         /\ \A s \in b : written < s /\ s <= last_seq'
         /\ buf' \subseteq Seqs /\ file' \subseteq Seqs /\ device' \subseteq file'
         /\ lost' \subseteq Seqs /\ replayed' \subseteq Seqs
         /\ visible' \subseteq Seqs /\ acked' \subseteq Seqs /\ flushed' \subseteq Seqs
         /\ torn' \in BOOLEAN /\ failed' \in BOOLEAN
<1>k. /\ BaseSeq \in Nat /\ MaxSeq \in Nat
      /\ last_seq \in Nat /\ written \in Nat /\ durable \in Nat
      /\ BaseSeq <= durable /\ durable <= written /\ written <= last_seq
      /\ last_seq <= MaxSeq
      /\ \A s \in buf : s \in Nat /\ written < s /\ s <= last_seq
  BY Bearings DEF WriteMoves
<1>1. last_seq <= last_seq' /\ last_seq' \in Nat /\ last_seq' <= MaxSeq
  BY <1>k, SMT DEF WriteMoves
<1>2. \A s \in b : written < s /\ s <= last_seq'
  <2>1. CASE b = buf
    BY <2>1, <1>k, <1>1, SMT
  <2>2. CASE b = buf \cup {last_seq + 1} /\ last_seq' = last_seq + 1
    <3>1. ASSUME NEW s \in buf PROVE written < s /\ s <= last_seq'
      BY <1>k, <1>1, SMT
    <3> QED
      BY <2>2, <3>1, <1>k, SMT
  <2> QED
    BY <2>1, <2>2 DEF WriteMoves
<1>3. b \subseteq Seqs
  <2>1. buf \subseteq Seqs
    BY DEF IInv, TypeOK
  <2>2. CASE b = buf \cup {last_seq + 1} /\ last_seq + 1 <= MaxSeq
    <3>1. last_seq + 1 \in Seqs
      BY <2>2, <1>k, SMT DEF Seqs
    <3> QED
      BY <2>1, <2>2, <3>1
  <2> QED
    BY <2>1, <2>2 DEF WriteMoves
<1>4. written' = written \/ written' = last_seq'
  BY DEF WriteMoves, Moved
<1>5. /\ file \subseteq file' /\ file' \subseteq file \cup b /\ lost' \subseteq lost \cup b
      /\ buf' = {} /\ torn' \in BOOLEAN /\ failed' \in BOOLEAN
      /\ UNCHANGED <<durable, device, replayed, visible, acked, flushed>>
  BY DEF WriteMoves, Moved
<1>6. /\ file \subseteq Seqs /\ lost \subseteq Seqs /\ replayed \subseteq Seqs
      /\ device \subseteq file /\ visible \subseteq Seqs /\ acked \subseteq Seqs
      /\ flushed \subseteq Seqs
  BY DEF IInv, TypeOK
<1>7. /\ last_seq' \in BaseSeq .. MaxSeq
      /\ written' \in BaseSeq .. last_seq' /\ durable' \in BaseSeq .. last_seq'
      /\ written <= written' /\ written' \in Nat
  BY <1>k, <1>1, <1>4, <1>5, SMT
<1> QED
  BY <1>1, <1>2, <1>3, <1>5, <1>6, <1>7

\* ... and keeps the rest of the invariant.
LEMMA WriteMovesKeeps ==
  ASSUME IInv, NEW b, WriteMoves(b)
  PROVE  Counters' /\ Losses' /\ Present' /\ Covered' /\ Kept'
<1>k. /\ last_seq \in Nat /\ written \in Nat /\ durable \in Nat
      /\ durable <= written /\ written <= last_seq
      /\ \A s \in file \cup visible \cup lost \cup replayed : s \in Nat /\ s <= last_seq
  BY Bearings DEF WriteMoves
<1>t. /\ written <= written' /\ written' \in Nat /\ last_seq' \in Nat
      /\ last_seq <= last_seq'
      /\ \A s \in b : written < s /\ s <= last_seq'
  BY <1>k, WriteMovesTyped, SMT DEF WriteMoves
<1>m. /\ file \subseteq file' /\ file' \subseteq file \cup b
      /\ lost \subseteq lost' /\ lost' \subseteq lost \cup b
      /\ \A s \in b : s \in file' \/ \E l \in lost' : l <= s
      /\ torn' => lost' # {}
      /\ buf \subseteq b /\ buf' = {}
  BY DEF WriteMoves, Moved
<1>e. UNCHANGED <<durable, device, replayed, visible, acked, flushed, call, arg>> /\ Up
  BY DEF WriteMoves
<1>b. \A s : BehindLoss(s) => BehindLoss(s)'
  BY <1>m DEF BehindLoss
<1>f. \A s \in file \cup buf : s \in file' \/ BehindLoss(s)'
  BY <1>m DEF BehindLoss
<1>1. Counters'
  <2>1. durable' <= written'
    BY <1>k, <1>t, <1>e, SMT
  <2>2. ASSUME NEW s \in file' \cup visible' \cup lost' \cup replayed' PROVE s <= last_seq'
    <3>1. s \in file \cup visible \cup lost \cup replayed \/ s \in b
      BY <1>m, <1>e
    <3> QED
      BY <3>1, <1>k, <1>t, SMT
  <2>3. ASSUME NEW u \in Procs, pc'[u] \in {"fsync", "publish_ok"}
        PROVE  target'[u] <= written'
    <3>1. CASE target'[u] = written'
      BY <3>1, <1>t, SMT
    <3>2. CASE target'[u] = target[u] /\ pc[u] \in {"fsync", "publish_ok"}
      <4>1. target[u] <= written /\ target[u] \in Nat
        BY <3>2, <1>e, BoundsAssumption, SMT DEF IInv, TypeOK, Counters
      <4> QED
        BY <3>2, <4>1, <1>k, <1>t, SMT
    <3> QED
      BY <2>3, <3>1, <3>2 DEF WriteMoves
  <2> QED
    BY <2>1, <2>2, <2>3, <1>m DEF Counters
<1>2. Losses'
  BY <1>m DEF Losses
<1>3. Present'
  <2>1. call'[Syncer] = "sync" /\ \A u \in Threads : pc'[u] \in {"append", "flush"} => call'[u] = "append"
    BY <1>e DEF WriteMoves, IInv, Present, Procs
  <2>2. \A s \in visible' : s \in file' \cup buf' \/ BehindLoss(s)'
    BY <1>e, <1>f, <1>b DEF IInv, Present
  <2>3. ASSUME NEW u \in Procs, Encoded(u)'
        PROVE  /\ BaseSeq < arg'[u] /\ arg'[u] <= last_seq'
               /\ arg'[u] \notin replayed'
               /\ arg'[u] \in file' \cup buf' \/ (\E l \in lost' : l <= arg'[u])
               /\ pc'[u] = "flush" => /\ arg'[u] <= written'
                                      /\ arg'[u] \in file' \/ (\E l \in lost' : l <= arg'[u])
    <3>1. Encoded(u) /\ arg'[u] = arg[u] /\ (pc'[u] = "flush" => pc[u] = "flush")
      BY <2>3, <1>e DEF WriteMoves
    <3>2. /\ BaseSeq < arg[u] /\ arg[u] <= last_seq /\ arg[u] \in Nat
          /\ arg[u] \notin replayed
          /\ arg[u] \in file \cup buf \/ BehindLoss(arg[u])
          /\ pc[u] = "flush" => /\ arg[u] <= written
                                /\ arg[u] \in file \/ BehindLoss(arg[u])
      BY <3>1, <1>e, BoundsAssumption, SMT DEF IInv, TypeOK, Present
    <3>3. arg[u] <= last_seq' /\ (pc[u] = "flush" => arg[u] <= written')
      BY <3>2, <1>k, <1>t, SMT
    <3>4. arg[u] \in file' \/ \E l \in lost' : l <= arg[u]
      <4>1. arg[u] \in file \cup buf => arg[u] \in file' \/ \E l \in lost' : l <= arg[u]
        BY <1>m
      <4>2. BehindLoss(arg[u]) => \E l \in lost' : l <= arg[u]
        BY <1>m DEF BehindLoss
      <4> QED
        BY <3>2, <4>1, <4>2
    <3> QED
      BY <3>1, <3>2, <3>3, <3>4, <1>e, <1>m DEF BehindLoss
  <2> QED
    BY <2>1, <2>2, <2>3 DEF Present, Encoded, BehindLoss
<1>4. Covered'
  <2>1. ASSUME NEW s \in file', s <= durable' PROVE s \in device' \cup replayed'
    <3>1. s \in file
      BY <2>1, <1>m, <1>e, <1>k, <1>t, WriteMovesTyped, SMT DEF Seqs
    <3> QED
      BY <2>1, <3>1, <1>e DEF IInv, Covered
  <2>2. ASSUME NEW u \in Procs, pc'[u] = "publish_ok", NEW s \in file', s <= target'[u]
        PROVE  s \in device' \cup replayed'
    <3>1. pc[u] = "publish_ok" /\ target'[u] = target[u]
      BY <2>2 DEF WriteMoves
    <3>2. target[u] <= written /\ target[u] \in Nat
      BY <3>1, <1>e, BoundsAssumption, SMT DEF IInv, TypeOK, Counters
    <3>3. s \in file
      <4>1. ASSUME s \in b PROVE FALSE
        <5>1. written < s /\ s \in Nat
          BY <4>1, <1>t, WriteMovesTyped, BoundsAssumption, SMT DEF Seqs
        <5> QED
          BY <5>1, <2>2, <3>1, <3>2, <1>k, SMT
      <4> QED
        BY <2>2, <4>1, <1>m
    <3> QED
      BY <2>2, <3>1, <3>3, <1>e DEF IInv, Covered
  <2> QED
    BY <2>1, <2>2 DEF Covered
<1>5. Kept'
  <2>1. \A s \in acked \cup flushed : s \in Nat /\ s <= written
    BY <1>e, BoundsAssumption, SMT DEF IInv, TypeOK, Seqs, Kept
  <2>2. ASSUME NEW s \in acked \cup flushed, s \notin file PROVE s \notin file'
    <3>1. s \notin b
      BY <2>1, <1>t, <1>k, SMT
    <3> QED
      BY <2>2, <3>1, <1>m
  <2>3. \A s \in acked \cup flushed : s <= written'
    BY <2>1, <1>t, <1>k, SMT
  <2>4. /\ \A s \in acked : s \in device \/ (s \notin file /\ BehindLoss(s))
        /\ \A s \in flushed : s \in device \cup replayed \/ (s \notin file /\ BehindLoss(s))
    BY DEF IInv, Kept
  <2> QED
    BY <2>2, <2>3, <2>4, <1>b, <1>e DEF Kept
<1> QED
  BY <1>1, <1>2, <1>3, <1>4, <1>5

\* Where threads stand, and what they carry, is typed.
LEMMA ThreadsTyped ==
  ASSUME IInv
  PROVE  /\ pc \in [Procs -> {"idle", "append", "flush", "sync", "wait", "stopped"} \cup Owning]
         /\ call \in [Procs -> {"append", "sync"}]
         /\ arg \in [Procs -> 0 .. MaxSeq] /\ target \in [Procs -> 0 .. MaxSeq]
         /\ Threads \subseteq Procs /\ Syncer \in Procs /\ Syncer \notin Threads
         /\ MaxSeq \in Nat
  BY BoundsAssumption, ThreadsAssumption DEF IInv, TypeOK, Procs

\* Who is in an append, and where the visible records are, while the log is up.
LEMMA PresentUp ==
  ASSUME IInv, Up
  PROVE  /\ call[Syncer] = "sync"
         /\ \A u \in Threads : pc[u] \in {"append", "flush"} => call[u] = "append"
         /\ \A s \in visible : s \in file \cup buf \/ BehindLoss(s)
  BY DEF IInv, Present

\* What a step inside sync_through may do to threads and flags when it returns
\* nothing to a caller: threads in the loop move on, all else stays.
LoopMoves ==
  /\ Up /\ phase' \in {"open", "closing", "flushing"}
  /\ UNCHANGED <<policy, last_seq, buf, written, failed, lock, durable, call, arg,
                 target, file, torn, device, visible, acked, flushed, lost,
                 replayed, failures, crashes>>
  /\ in_progress' \in BOOLEAN /\ background_error' \in BOOLEAN /\ stopping' \in BOOLEAN
  /\ pc' \in [Procs -> {"idle", "append", "flush", "sync", "wait", "stopped"} \cup Owning]
  /\ \A u \in Procs :
       \/ pc'[u] = pc[u]
       \/ /\ pc[u] \in {"sync", "wait"} \cup Owning
          /\ pc'[u] \in {"idle", "stopped", "sync", "wait", "drain"}

\* Such a step keeps the invariant.
LEMMA LoopMovesKeeps == ASSUME IInv, LoopMoves PROVE IInv'
<1>1. TypeOK'
  BY DEF IInv, TypeOK, LoopMoves
<1>2. Room'
  <2>1. Appending' \subseteq Appending /\ last_seq' = last_seq
    BY ThreadsTyped DEF LoopMoves, Appending, Owning
  <2> QED
    BY <2>1, RoomShrinks DEF IInv
<1>3. ThreadMoves
  <2>1. /\ Up /\ Up'
        /\ UNCHANGED <<last_seq, buf, written, durable, file, torn, device, lost,
                       replayed, visible, acked, flushed, call, arg, target>>
    BY DEF LoopMoves, Up
  <2>2. call[Syncer] = "sync" /\ \A u \in Threads : pc[u] \in {"append", "flush"} => call[u] = "append"
    BY <2>1, PresentUp
  <2>3. ASSUME NEW u \in Procs
        PROVE  /\ pc'[u] \in {"append", "flush", "fsync", "publish_ok"} => pc'[u] = pc[u]
               /\ Encoded(u)' => Encoded(u)
    BY <2>1 DEF LoopMoves, Encoded, Owning
  <2> QED
    BY <2>1, <2>2, <2>3, ThreadsTyped DEF ThreadMoves
<1> QED
  BY <1>1, <1>2, <1>3, ThreadMovesKeeps

\* What a device flush may do, in append, in write_and_flush or in drop: the
\* device may take the whole file, an append may return Ok on top of that, and
\* a thread says the flush worked only if it did.
FlushMoves ==
  /\ Up
  /\ device' = file \/ device' = device
  /\ UNCHANGED <<policy, last_seq, buf, written, failed, durable, in_progress,
                 background_error, call, arg, target, stopping, file, torn,
                 flushed, lost, replayed, crashes>>
  /\ phase' \in {"open", "closing", "flushing", "down"} /\ lock' \in Threads \cup {None}
  /\ \/ UNCHANGED failures
     \/ /\ failures.flush < MaxFlushFailures
        /\ failures' = [failures EXCEPT !.flush = @ + 1]
  /\ pc' \in [Procs -> {"idle", "append", "flush", "sync", "wait", "stopped"} \cup Owning]
  /\ \A u \in Procs :
       \/ pc'[u] = pc[u]
       \/ pc'[u] = "idle"
       \/ pc[u] = "fsync" /\ pc'[u] = "publish_err"
       \/ pc[u] = "fsync" /\ pc'[u] = "publish_ok" /\ device' = file
  /\ \/ UNCHANGED <<visible, acked>>
     \/ \E u \in Threads :
          /\ pc[u] = "flush" /\ device' = file
          /\ visible' = visible \cup {arg[u]}
          /\ acked' = acked \/ acked' = acked \cup {arg[u]}

\* Such a step keeps the invariant.
LEMMA FlushMovesKeeps == ASSUME IInv, FlushMoves PROVE IInv'
<1>e. /\ Up /\ device \subseteq device' /\ device' \subseteq file
      /\ UNCHANGED <<policy, last_seq, buf, written, failed, durable, in_progress,
                     background_error, call, arg, target, stopping, file, torn,
                     flushed, lost, replayed, crashes>>
  <2>1. device \subseteq file
    BY DEF IInv, TypeOK
  <2> QED
    BY <2>1 DEF FlushMoves
<1>p. ASSUME NEW u \in Procs
      PROVE  /\ pc'[u] \in {"append", "flush", "fsync"} => pc'[u] = pc[u]
             /\ Encoded(u)' => Encoded(u)
             /\ pc'[u] = "publish_ok" => pc[u] = "publish_ok" \/ (pc[u] = "fsync" /\ device' = file)
  BY <1>e DEF FlushMoves, Encoded, Owning
<1>b. \A s : BehindLoss(s) <=> BehindLoss(s)'
  BY <1>e DEF BehindLoss
<1>a. ASSUME NEW u \in Threads, pc[u] = "flush"
      PROVE  /\ arg[u] \in Seqs /\ arg[u] <= last_seq /\ arg[u] <= written
             /\ arg[u] \in file \/ BehindLoss(arg[u])
  <2>1. Encoded(u) /\ u \in Procs
    BY <1>a, <1>e DEF IInv, Present, Encoded, Procs
  <2>2. /\ BaseSeq < arg[u] /\ arg[u] <= last_seq /\ arg[u] <= written
        /\ arg[u] \in file \/ BehindLoss(arg[u])
    BY <1>a, <2>1, <1>e DEF IInv, Present
  <2>3. arg[u] \in 0 .. MaxSeq /\ BaseSeq \in Nat /\ MaxSeq \in Nat
    BY <2>1, ThreadsTyped, BoundsAssumption
  <2> QED
    BY <2>2, <2>3, SMT DEF Seqs
<1>v. /\ \A s \in visible' : s \in visible \/ (s \in Seqs /\ s <= last_seq /\ (s \in file \/ BehindLoss(s)))
      /\ \A s \in acked' : s \in acked \/ (s \in Seqs /\ s <= written /\ device' = file /\ (s \in file \/ BehindLoss(s)))
  BY <1>a DEF FlushMoves
<1>1. TypeOK'
  <2>1. failures' \in [write : 0 .. MaxWriteFailures, flush : 0 .. MaxFlushFailures]
    BY FailuresTyped DEF IInv, FlushMoves
  <2>2. visible' \subseteq Seqs /\ acked' \subseteq Seqs
    BY <1>v DEF IInv, TypeOK
  <2>3. /\ phase' \in {"open", "closing", "flushing", "down"} /\ lock' \in Threads \cup {None}
        /\ pc' \in [Procs -> {"idle", "append", "flush", "sync", "wait", "stopped"} \cup Owning]
    BY DEF FlushMoves
  <2> QED
    BY <2>1, <2>2, <2>3, <1>e DEF IInv, TypeOK
<1>2. Room'
  <2>1. Appending' \subseteq Appending /\ last_seq' = last_seq
    BY <1>e, <1>p, ThreadsTyped DEF Appending
  <2> QED
    BY <2>1, RoomShrinks DEF IInv
<1>3. Counters' /\ Losses'
  <2>1. \A s \in visible' : s <= last_seq
    BY <1>v, <1>e DEF IInv, Counters
  <2>2. \A u \in Procs : pc'[u] \in {"fsync", "publish_ok"} => pc[u] \in {"fsync", "publish_ok"}
    BY <1>p
  <2> QED
    BY <2>1, <2>2, <1>e DEF IInv, Counters, Losses
<1>4. Present'
  <2>1. \A u \in Threads : pc'[u] \in {"append", "flush"} => call[u] = "append"
    <3>1. \A u \in Threads : pc[u] \in {"append", "flush"} => call[u] = "append"
      BY <1>e, PresentUp
    <3> QED
      BY <3>1, <1>p, ThreadsTyped
  <2>2. \A s \in visible' : s \in file \cup buf \/ BehindLoss(s)
    BY <1>v, <1>e, PresentUp
  <2> QED
    BY <2>1, <2>2, <1>e, <1>p DEF IInv, Present, BehindLoss
<1>5. Covered'
  <2>1. ASSUME NEW u \in Procs, pc'[u] = "publish_ok", NEW s \in file, s <= target[u]
        PROVE  s \in device' \cup replayed
    <3>1. CASE pc[u] = "publish_ok"
      BY <2>1, <3>1, <1>e DEF IInv, Covered
    <3>2. CASE device' = file
      BY <3>2
    <3> QED
      BY <2>1, <3>1, <3>2, <1>p
  <2> QED
    BY <2>1, <1>e DEF IInv, Covered
<1>6. Kept'
  BY <1>v, <1>e DEF IInv, Kept, BehindLoss, Up
<1> QED
  BY <1>1, <1>2, <1>3, <1>4, <1>5, <1>6 DEF IInv

----------------------------------------------------------------------------
(* The initial state *)

\* A new log satisfies the invariant.
LEMMA InitIInv == Init => IInv
<1> SUFFICES ASSUME Init PROVE IInv
  OBVIOUS
<1>1. TypeOK
  <2>1. failures \in [write : 0 .. MaxWriteFailures, flush : 0 .. MaxFlushFailures]
    BY BoundsAssumption, SMT DEF Init
  <2>2. /\ pc \in [Procs -> {"idle", "append", "flush", "sync", "wait", "stopped"} \cup Owning]
        /\ call \in [Procs -> {"append", "sync"}]
        /\ arg \in [Procs -> 0 .. MaxSeq] /\ target \in [Procs -> 0 .. MaxSeq]
    BY BoundsAssumption, SMT DEF Init, Owning
  <2>3. /\ in_progress \in BOOLEAN /\ failed \in BOOLEAN
        /\ background_error \in BOOLEAN /\ stopping \in BOOLEAN /\ torn \in BOOLEAN
    BY DEF Init
  <2>4. /\ last_seq \in BaseSeq .. MaxSeq
        /\ written \in BaseSeq .. last_seq /\ durable \in BaseSeq .. last_seq
        /\ crashes \in 0 .. MaxCrashes
    BY BoundsAssumption, SMT DEF Init
  <2> QED
    BY <2>1, <2>2, <2>3, <2>4, PoliciesAssumption DEF Init, TypeOK
<1>2. Room
  <2>1. Appending = {}
    BY DEF Init, Appending, Procs
  <2> QED
    BY <2>1, FS_EmptySet, BoundsAssumption, SMT DEF Room, Init
<1>3. Counters /\ Losses /\ Present /\ Covered /\ Kept
  BY BoundsAssumption, SMT DEF Init, Counters, Losses, Present, Covered, Kept, Encoded, Owning, Procs
<1> QED
  BY <1>1, <1>2, <1>3 DEF IInv

----------------------------------------------------------------------------
(* A call starts, encodes its record, or returns *)

\* Reporting a background error changes nothing the invariant speaks of.
LEMMA AppendReportsErrorKeeps ==
  ASSUME IInv, NEW t \in Threads, AppendReportsError(t)
  PROVE  IInv'
<1>e. /\ phase = "open" /\ phase' = phase /\ pc' = pc
      /\ UNCHANGED <<policy, last_seq, buf, written, failed, lock, durable, call, arg,
                     target, file, torn, device, visible, acked, flushed, lost,
                     replayed, failures, crashes>>
  BY DEF AppendReportsError, pending, syncState, threadVars,
     storage, promises, faults
<1>f. in_progress' \in BOOLEAN /\ background_error' \in BOOLEAN /\ stopping' \in BOOLEAN
  BY DEF IInv, TypeOK, AppendReportsError, syncState, threadVars
<1>w. LoopMoves
  BY <1>e, <1>f, ThreadsTyped DEF LoopMoves, Up
<1> QED
  BY <1>w, LoopMovesKeeps

\* A caller passes the checks: one more caller needs a number.
LEMMA AppendChecksKeeps ==
  ASSUME IInv, NEW t \in Threads, AppendChecks(t)
  PROVE  IInv'
<1>e. /\ Open /\ pc[t] = "idle" /\ pc' = [pc EXCEPT ![t] = "append"]
      /\ call' = [call EXCEPT ![t] = "append"]
      /\ arg' = arg
      /\ UNCHANGED stopping
      /\ UNCHANGED <<policy, phase, last_seq, buf, written, failed, lock, durable,
                     in_progress, background_error, target, file, torn, device,
                     visible, acked, flushed, lost, replayed, failures, crashes>>
  BY DEF AppendChecks, Open, pending, syncState, storage, promises, faults
<1>u. Up /\ Up'
  BY <1>e DEF Up, Open
<1>c. call[Syncer] = "sync" /\ \A u \in Threads : pc[u] \in {"append", "flush"} => call[u] = "append"
  BY <1>u, PresentUp
<1>1. TypeOK'
  <2>1. pc' \in [Procs -> {"idle", "append", "flush", "sync", "wait", "stopped"} \cup Owning]
    BY <1>e, ThreadsTyped
  <2>2. call' \in [Procs -> {"append", "sync"}]
    BY <1>e, ThreadsTyped
  <2>3. arg' \in [Procs -> 0 .. MaxSeq]
    <3>1. last_seq \in 0 .. MaxSeq
      BY <1>u, Bearings, SMT
    <3> QED
      BY <3>1, <1>e, ThreadsTyped
  <2>4. stopping' \in BOOLEAN
    BY <1>e DEF IInv, TypeOK
  <2> QED
    BY <2>1, <2>2, <2>3, <2>4, <1>e DEF IInv, TypeOK
<1>2. Room'
  <2>1. t \notin Appending /\ Appending' = Appending \cup {t}
    BY <1>e, ThreadsTyped DEF Appending
  <2>2. Cardinality(Appending') = Cardinality(Appending) + 1
    BY <2>1, AppendingFinite, FS_AddElement
  <2>3. last_seq + Cardinality(Appending) < MaxSeq /\ last_seq' = last_seq
    BY <1>e DEF AppendChecks, Appending
  <2>4. last_seq \in Nat /\ MaxSeq \in Nat
    BY <1>u, Bearings
  <2> QED
    BY <2>2, <2>3, <2>4, AppendingFinite, SMT DEF Room
<1>3. ThreadMoves
  <2>1. ASSUME NEW u \in Procs, u # t
        PROVE  pc'[u] = pc[u] /\ call'[u] = call[u] /\ arg'[u] = arg[u]
    BY <2>1, <1>e, ThreadsTyped
  <2>2. pc'[t] = "append" /\ call'[t] = "append"
    BY <1>e, <1>c, ThreadsTyped
  <2>3. ASSUME NEW u \in Procs
        PROVE  /\ Encoded(u)' => Encoded(u) /\ arg'[u] = arg[u] /\ pc'[u] = pc[u]
               /\ pc'[u] \in {"fsync", "publish_ok"} => pc'[u] = pc[u]
    BY <2>1, <2>2 DEF Encoded, Owning
  <2>4. call'[Syncer] = "sync" /\ \A u \in Threads : pc'[u] \in {"append", "flush"} => call'[u] = "append"
    BY <2>1, <2>2, <1>c, ThreadsTyped
  <2> QED
    BY <2>3, <2>4, <1>e, <1>u DEF ThreadMoves
<1> QED
  BY <1>1, <1>2, <1>3, ThreadMovesKeeps

\* Encoding takes a number and moves the buffer, or adds to it.
LEMMA AppendEncodesKeeps ==
  ASSUME IInv, NEW t \in Threads, AppendEncodes(t)
  PROVE  IInv'
<1>r. /\ last_seq + 1 <= MaxSeq
      /\ last_seq + 1 + Cardinality(Appending \ {t}) <= MaxSeq
  BY RoomForOne DEF IInv, AppendEncodes
<1>u. Up /\ Up'
  BY DEF Up, Open, AppendEncodes
<1>m. /\ Moved(buf \cup {last_seq + 1})
      /\ policy = "always" => buf' = {} /\ written' = last_seq + 1
  <2>1. CASE AppendWrites /\ WritePendingOk(buf \cup {last_seq + 1})
    <3>1. Moved(buf \cup {last_seq + 1}) /\ buf' = {}
      BY <2>1, <1>u, WriteOutcome DEF IInv
    <3>2. written' = last_seq + 1
      BY <2>1 DEF WritePendingOk, AppendEncodes
    <3> QED
      BY <3>1, <3>2
  <2>2. CASE /\ ~AppendWrites /\ buf' = buf \cup {last_seq + 1}
             /\ UNCHANGED <<written, file, torn, failed, lost, failures>>
    BY <2>2, <1>u DEF AppendWrites, Moved, IInv, TypeOK, Losses
  <2> QED
    BY <2>1, <2>2 DEF AppendEncodes
<1>e. /\ last_seq' = last_seq + 1
      /\ arg' = [arg EXCEPT ![t] = last_seq + 1]
      /\ pc' = [pc EXCEPT ![t] = AfterEncode]
      /\ visible' = visible \/ visible' = visible \cup {last_seq + 1}
      /\ UNCHANGED <<acked, flushed, device, replayed, durable, call, target>>
  BY DEF AppendEncodes, AppendReturnsOk, promises, syncState
<1>n. /\ last_seq + 1 \in Seqs
      /\ call[t] = "append" /\ AfterEncode \in {"flush", "sync", "idle"}
      /\ AfterEncode = "flush" => policy = "always"
  BY <1>u, <1>r, BoundsAssumption, SMT
     DEF IInv, TypeOK, Seqs, Present, AppendEncodes, AfterEncode
<1>k. /\ last_seq \in Nat /\ written \in Nat /\ durable \in Nat
      /\ buf \cup file \cup visible \cup lost \cup replayed \subseteq Nat
      /\ \A s \in buf \cup file \cup visible \cup lost \cup replayed : s <= last_seq
      /\ durable <= written /\ written <= last_seq
      /\ \A s \in buf : written < s /\ \A l \in lost : l < s
  BY <1>u, Bearings
<1>1. TypeOK'
  <2>1. last_seq' \in BaseSeq .. MaxSeq
    BY <1>e, <1>k, <1>r, BoundsAssumption, SMT DEF IInv, TypeOK
  <2>2. written' \in BaseSeq .. last_seq' /\ durable' \in BaseSeq .. last_seq'
    <3>1. written \in BaseSeq .. last_seq /\ durable \in BaseSeq .. last_seq /\ BaseSeq \in Nat
      BY BoundsAssumption DEF IInv, TypeOK
    <3>2. written' = written \/ written' = last_seq'
      BY <1>m DEF Moved
    <3> QED
      BY <3>1, <3>2, <1>e, <1>k, SMT
  <2>3. /\ buf' \subseteq Seqs /\ lost' \subseteq Seqs /\ replayed' \subseteq Seqs
        /\ file' \subseteq Seqs /\ device' \subseteq file'
    BY <1>e, <1>n, <1>m DEF IInv, TypeOK, Moved
  <2>4. /\ pc' \in [Procs -> {"idle", "append", "flush", "sync", "wait", "stopped"} \cup Owning]
        /\ call' \in [Procs -> {"append", "sync"}] /\ target' \in [Procs -> 0 .. MaxSeq]
    BY <1>e, <1>n, ThreadsTyped
  <2>5. arg' \in [Procs -> 0 .. MaxSeq]
    <3>1. last_seq + 1 \in 0 .. MaxSeq
      BY <1>r, <1>k, BoundsAssumption, SMT
    <3> QED
      BY <3>1, <1>e, ThreadsTyped
  <2>6. /\ visible' \subseteq Seqs /\ acked' \subseteq Seqs
        /\ flushed' \subseteq Seqs
    BY <1>e, <1>n DEF IInv, TypeOK
  <2>7. /\ UNCHANGED <<policy, phase, in_progress, background_error, stopping, failures, crashes>>
        /\ lock' \in Threads \cup {None}
    BY DEF AppendEncodes, WritePendingOk, syncState
  <2>8. failed' \in BOOLEAN /\ torn' \in BOOLEAN
    BY <1>m DEF Moved
  <2> QED
    BY <2>1, <2>2, <2>3, <2>4, <2>5, <2>6, <2>7, <2>8 DEF IInv, TypeOK
<1>2. Room'
  <2>1. Appending' = Appending \ {t} /\ last_seq' = last_seq + 1
    BY <1>e, <1>n, ThreadsTyped DEF Appending
  <2> QED
    BY <2>1, <1>r DEF Room
<1>3. Counters'
  <2>1. durable' <= written'
    BY <1>e, <1>k, <1>m, SMT DEF Moved
  <2>2. \A s \in buf' : written' < s /\ s <= last_seq'
    <3>1. CASE buf' = {}
      BY <3>1
    <3>2. CASE buf' = buf \cup {last_seq + 1} /\ written' = written
      <4>1. ASSUME NEW s \in buf PROVE written' < s /\ s <= last_seq'
        BY <3>2, <1>e, <1>k, SMT
      <4>2. written' < last_seq + 1 /\ last_seq + 1 <= last_seq'
        BY <3>2, <1>e, <1>k, SMT
      <4> QED
        BY <3>2, <4>1, <4>2
    <3> QED
      BY <3>1, <3>2, <1>m DEF Moved
  <2>3. ASSUME NEW s \in file' \cup visible' \cup lost' \cup replayed' PROVE s <= last_seq'
    <3>1. s \in buf \cup file \cup visible \cup lost \cup replayed \/ s = last_seq + 1
      BY <1>e, <1>m, SMT DEF Moved
    <3> QED
      BY <3>1, <1>e, <1>k, SMT
  <2>4. ASSUME NEW u \in Procs, pc'[u] \in {"fsync", "publish_ok"} PROVE target'[u] <= written'
    <3>1. pc[u] \in {"fsync", "publish_ok"} /\ target'[u] = target[u]
      BY <2>4, <1>e, <1>n DEF IInv, TypeOK
    <3>2. target[u] <= written /\ target[u] \in Nat
      BY <3>1, <1>u, BoundsAssumption, SMT DEF IInv, TypeOK, Counters
    <3> QED
      BY <3>1, <3>2, <1>e, <1>k, <1>m, SMT DEF Moved
  <2> QED
    BY <2>1, <2>2, <2>3, <2>4 DEF Counters
<1>4. Losses'
  <2>1. CASE buf' = {}
    BY <2>1, <1>m DEF Losses, Moved
  <2>2. CASE buf' = buf \cup {last_seq + 1} /\ lost' = lost
    <3>1. ASSUME NEW l \in lost, NEW s \in buf' PROVE l < s
      <4>1. s \in buf \/ s = last_seq + 1
        BY <2>2
      <4> QED
        BY <4>1, <1>k, SMT
    <3> QED
      BY <2>2, <3>1, <1>m DEF Losses, Moved
  <2> QED
    BY <2>1, <2>2, <1>m DEF Moved
<1>5. Present'
  <2>1. call'[Syncer] = "sync" /\ \A u \in Threads : pc'[u] \in {"append", "flush"} => call'[u] = "append"
    BY <1>e, <1>n, <1>u, ThreadsAssumption DEF IInv, TypeOK, Present, Procs
  <2>2. \A s \in file \cup buf \cup {last_seq + 1} : s \in file' \cup buf' \/ BehindLoss(s)'
    BY <1>m DEF Moved, BehindLoss
  <2>3. \A s : BehindLoss(s) => BehindLoss(s)'
    BY <1>m DEF Moved, BehindLoss
  <2>4. \A s \in visible' : s \in file' \cup buf' \/ BehindLoss(s)'
    BY <1>e, <1>u, <2>2, <2>3 DEF IInv, Present
  <2>5. ASSUME NEW u \in Procs, Encoded(u)'
        PROVE  /\ BaseSeq < arg'[u] /\ arg'[u] <= last_seq'
               /\ arg'[u] \notin replayed'
               /\ arg'[u] \in file' \cup buf' \/ (\E l \in lost' : l <= arg'[u])
               /\ pc'[u] = "flush" => /\ arg'[u] <= written'
                                      /\ arg'[u] \in file' \/ (\E l \in lost' : l <= arg'[u])
    <3>1. CASE u = t
      <4>1. arg'[u] = last_seq + 1 /\ pc'[u] = AfterEncode
        BY <3>1, <1>e DEF IInv, TypeOK, Procs
      <4>2. BaseSeq < arg'[u] /\ arg'[u] <= last_seq' /\ arg'[u] \notin replayed'
        BY <4>1, <1>e, <1>k, BoundsAssumption, SMT DEF IInv, TypeOK
      <4>3. arg'[u] \in file' \cup buf' \/ (\E l \in lost' : l <= arg'[u])
        BY <4>1, <2>2 DEF BehindLoss
      <4>4. ASSUME pc'[u] = "flush" PROVE buf' = {} /\ arg'[u] <= written'
        BY <4>1, <4>4, <1>k, <1>m, <1>n, SMT
      <4> QED
        BY <4>2, <4>3, <4>4
    <3>2. CASE u # t
      <4>1. Encoded(u) /\ arg'[u] = arg[u] /\ pc'[u] = pc[u]
        BY <2>5, <3>2, <1>e DEF Encoded, IInv, TypeOK
      <4>2. /\ BaseSeq < arg[u] /\ arg[u] <= last_seq /\ arg[u] \in Nat
            /\ arg[u] \notin replayed
            /\ arg[u] \in file \cup buf \/ BehindLoss(arg[u])
            /\ pc[u] = "flush" => /\ arg[u] <= written
                                  /\ arg[u] \in file \/ BehindLoss(arg[u])
        BY <4>1, <1>u, BoundsAssumption, SMT DEF IInv, TypeOK, Present
      <4>3. written <= written' /\ written' \in Nat /\ file \subseteq file'
        BY <1>e, <1>k, <1>m, SMT DEF Moved
      <4>4. arg[u] <= last_seq' /\ (pc[u] = "flush" => arg[u] <= written')
        BY <4>2, <4>3, <1>e, <1>k, SMT
      <4>5. arg[u] \in file' \cup buf' \/ \E l \in lost' : l <= arg[u]
        BY <4>2, <2>2, <1>m DEF Moved, BehindLoss
      <4>6. pc[u] = "flush" => arg[u] \in file' \/ \E l \in lost' : l <= arg[u]
        BY <4>2, <4>3, <1>m DEF Moved, BehindLoss
      <4> QED
        BY <4>1, <4>2, <4>4, <4>5, <4>6, <1>e, SMT
    <3> QED
      BY <3>1, <3>2
  <2> QED
    BY <2>1, <2>4, <2>5 DEF Present, Encoded, BehindLoss
<1>6. Covered'
  <2>1. ASSUME NEW s \in file', NEW n \in Nat, n <= written, s <= n PROVE s \in file
    <3>1. s \in file \/ s \in buf \/ s = last_seq + 1
      BY <1>m DEF Moved
    <3> QED
      BY <2>1, <3>1, <1>k, SMT
  <2>2. ASSUME NEW u \in Procs, pc'[u] = "publish_ok"
        PROVE  /\ pc[u] = "publish_ok" /\ target'[u] = target[u]
               /\ target[u] \in Nat /\ target[u] <= written
    <3>1. pc[u] = "publish_ok" /\ target'[u] = target[u] /\ target[u] \in Nat
      BY <2>2, <1>e, <1>n, ThreadsTyped, SMT
    <3> QED
      BY <3>1, <1>u DEF IInv, Counters
  <2> QED
    BY <2>1, <2>2, <1>e, <1>k, <1>u DEF IInv, Covered
<1>7. Kept'
  <2>1. \A s : BehindLoss(s) => BehindLoss(s)'
    BY <1>m DEF Moved, BehindLoss
  <2>2. acked \cup flushed \subseteq Nat /\ \A s \in acked \cup flushed : s <= written
    BY <1>u, BoundsAssumption, SMT DEF IInv, TypeOK, Seqs, Kept
  <2>3. \A s \in acked \cup flushed : s \notin file => s \notin file'
    <3>1. \A s \in buf \cup {last_seq + 1} : written < s
      BY <1>k, SMT
    <3> QED
      BY <3>1, <2>2, <1>k, <1>m, SMT DEF Moved
  <2>4. written <= written' /\ written' \in Nat
    BY <1>e, <1>k, <1>m, SMT DEF Moved
  <2> QED
    BY <2>1, <2>2, <2>3, <2>4, <1>e, <1>k, SMT DEF IInv, Kept
<1> QED
  BY <1>1, <1>2, <1>3, <1>4, <1>5, <1>6, <1>7 DEF IInv

\* A write that fails inside append only loses what it carried.
LEMMA AppendWriteFailsKeeps ==
  ASSUME IInv, NEW t \in Threads, AppendWriteFails(t)
  PROVE  IInv'
<1>r. /\ last_seq + 1 <= MaxSeq
      /\ last_seq + 1 + Cardinality(Appending \ {t}) <= MaxSeq
  BY RoomForOne DEF IInv, AppendWriteFails
<1>u. Up
  BY DEF Up, Open, AppendWriteFails
<1>m. Moved(buf \cup {last_seq + 1}) /\ buf' = {}
  BY <1>u, WriteOutcome DEF IInv, AppendWriteFails
<1>e. /\ last_seq' = last_seq + 1
      /\ pc' = [pc EXCEPT ![t] = "idle"]
      /\ UNCHANGED <<policy, phase, lock, durable, in_progress, background_error,
                     call, arg, target, stopping, device, visible, acked, flushed,
                     replayed, crashes>>
  BY DEF AppendWriteFails, syncState, promises
<1>p. pc \in [Procs -> {"idle", "append", "flush", "sync", "wait", "stopped"} \cup Owning]
      /\ t \in Procs
  BY ThreadsTyped
<1>w. WriteMoves(buf \cup {last_seq + 1})
  <2>1. ASSUME NEW v \in Procs PROVE pc'[v] = pc[v] \/ pc'[v] = "idle"
    BY <1>e, <1>p
  <2> QED
    BY <2>1, <1>e, <1>m, <1>r, <1>u DEF WriteMoves, Encoded, Owning
<1>1. TypeOK'
  <2>1. failures' \in [write : 0 .. MaxWriteFailures, flush : 0 .. MaxFlushFailures]
    BY FailuresTyped DEF IInv, AppendWriteFails, WritePendingErr
  <2>2. pc' \in [Procs -> {"idle", "append", "flush", "sync", "wait", "stopped"} \cup Owning]
    BY <1>e, <1>p
  <2> QED
    BY <2>1, <2>2, <1>e, <1>w, WriteMovesTyped DEF IInv, TypeOK
<1>2. Room'
  <2>1. Appending' = Appending \ {t} /\ last_seq' = last_seq + 1
    BY <1>e, <1>p DEF Appending, Procs
  <2> QED
    BY <2>1, <1>r DEF Room
<1> QED
  BY <1>1, <1>2, <1>w, WriteMovesKeeps DEF IInv

\* The flush inside an Always append puts its record on the device.
LEMMA AppendFlushesKeeps ==
  ASSUME IInv, NEW t \in Threads, AppendFlushes(t)
  PROVE  IInv'
<1>e. /\ Open /\ pc[t] = "flush" /\ pc' = [pc EXCEPT ![t] = "idle"]
      /\ phase' = phase /\ lock' = None
      /\ device' = file \/ device' = device
      /\ \/ UNCHANGED <<visible, acked>>
         \/ /\ device' = file /\ visible' = visible \cup {arg[t]}
            /\ acked' = acked \/ acked' = acked \cup {arg[t]}
      /\ \/ UNCHANGED failures
         \/ /\ failures.flush < MaxFlushFailures
            /\ failures' = [failures EXCEPT !.flush = @ + 1]
      /\ UNCHANGED <<policy, last_seq, buf, written, failed, durable, in_progress,
                     background_error, call, arg, target, stopping, file, torn,
                     flushed, lost, replayed, crashes>>
  BY DEF AppendFlushes, FlushOk, FlushErr, AppendReturnsOk, promises, pending, syncState
<1>w. FlushMoves
  <2>1. pc' \in [Procs -> {"idle", "append", "flush", "sync", "wait", "stopped"} \cup Owning]
    BY <1>e, ThreadsTyped DEF Owning
  <2>2. phase' \in {"open", "closing", "flushing", "down"} /\ lock' \in Threads \cup {None}
    BY <1>e DEF IInv, TypeOK
  <2>3. \A u \in Procs : pc'[u] = pc[u] \/ pc'[u] = "idle"
    BY <1>e, ThreadsTyped
  <2> QED
    BY <2>1, <2>2, <2>3, <1>e DEF FlushMoves, Up, Open
<1> QED
  BY <1>w, FlushMovesKeeps

\* A caller asks for everything appended so far.
LEMMA SyncCallKeeps ==
  ASSUME IInv, NEW t \in Threads, SyncCall(t)
  PROVE  IInv'
<1>e. /\ Open /\ pc[t] = "idle" /\ pc' = [pc EXCEPT ![t] = "sync"]
      /\ call' = [call EXCEPT ![t] = "sync"]
      /\ arg' = [arg EXCEPT ![t] = last_seq]
      /\ UNCHANGED stopping
      /\ UNCHANGED <<policy, phase, last_seq, buf, written, failed, lock, durable,
                     in_progress, background_error, target, file, torn, device,
                     visible, acked, flushed, lost, replayed, failures, crashes>>
  BY DEF SyncCall, Open, pending, syncState, storage, promises, faults
<1>u. Up /\ Up'
  BY <1>e DEF Up, Open
<1>c. call[Syncer] = "sync" /\ \A u \in Threads : pc[u] \in {"append", "flush"} => call[u] = "append"
  BY <1>u, PresentUp
<1>1. TypeOK'
  <2>1. pc' \in [Procs -> {"idle", "append", "flush", "sync", "wait", "stopped"} \cup Owning]
    BY <1>e, ThreadsTyped
  <2>2. call' \in [Procs -> {"append", "sync"}]
    BY <1>e, ThreadsTyped
  <2>3. arg' \in [Procs -> 0 .. MaxSeq]
    <3>1. last_seq \in 0 .. MaxSeq
      BY <1>u, Bearings, SMT
    <3> QED
      BY <3>1, <1>e, ThreadsTyped
  <2>4. stopping' \in BOOLEAN
    BY <1>e DEF IInv, TypeOK
  <2> QED
    BY <2>1, <2>2, <2>3, <2>4, <1>e DEF IInv, TypeOK
<1>2. Room'
  <2>1. Appending' \subseteq Appending /\ last_seq' = last_seq
    BY <1>e, ThreadsTyped DEF Appending
  <2> QED
    BY <2>1, RoomShrinks DEF IInv
<1>3. ThreadMoves
  <2>1. ASSUME NEW u \in Procs, u # t
        PROVE  pc'[u] = pc[u] /\ call'[u] = call[u] /\ arg'[u] = arg[u]
    BY <2>1, <1>e, ThreadsTyped
  <2>2. pc'[t] = "sync" /\ call'[t] = "sync"
    BY <1>e, <1>c, ThreadsTyped
  <2>3. ASSUME NEW u \in Procs
        PROVE  /\ Encoded(u)' => Encoded(u) /\ arg'[u] = arg[u] /\ pc'[u] = pc[u]
               /\ pc'[u] \in {"fsync", "publish_ok"} => pc'[u] = pc[u]
    BY <2>1, <2>2 DEF Encoded, Owning
  <2>4. call'[Syncer] = "sync" /\ \A u \in Threads : pc'[u] \in {"append", "flush"} => call'[u] = "append"
    BY <2>1, <2>2, <1>c, ThreadsTyped
  <2> QED
    BY <2>3, <2>4, <1>e, <1>u DEF ThreadMoves
<1> QED
  BY <1>1, <1>2, <1>3, ThreadMovesKeeps

\* So does the syncer.
LEMMA SyncerWakesKeeps ==
  ASSUME IInv, SyncerWakes
  PROVE  IInv'
<1>e. /\ Open /\ pc[Syncer] = "idle" /\ pc' = [pc EXCEPT ![Syncer] = "sync"]
      /\ call' = call
      /\ arg' = [arg EXCEPT ![Syncer] = last_seq]
      /\ stopping' \in BOOLEAN
      /\ UNCHANGED <<policy, phase, last_seq, buf, written, failed, lock, durable,
                     in_progress, background_error, target, file, torn, device,
                     visible, acked, flushed, lost, replayed, failures, crashes>>
  BY DEF SyncerWakes, Open, pending, syncState, storage, promises, faults
<1>u. Up /\ Up'
  BY <1>e DEF Up, Open
<1>c. call[Syncer] = "sync" /\ \A u \in Threads : pc[u] \in {"append", "flush"} => call[u] = "append"
  BY <1>u, PresentUp
<1>1. TypeOK'
  <2>1. pc' \in [Procs -> {"idle", "append", "flush", "sync", "wait", "stopped"} \cup Owning]
    BY <1>e, ThreadsTyped
  <2>2. call' \in [Procs -> {"append", "sync"}]
    BY <1>e, ThreadsTyped
  <2>3. arg' \in [Procs -> 0 .. MaxSeq]
    <3>1. last_seq \in 0 .. MaxSeq
      BY <1>u, Bearings, SMT
    <3> QED
      BY <3>1, <1>e, ThreadsTyped
  <2>4. stopping' \in BOOLEAN
    BY <1>e DEF IInv, TypeOK
  <2> QED
    BY <2>1, <2>2, <2>3, <2>4, <1>e DEF IInv, TypeOK
<1>2. Room'
  <2>1. Appending' \subseteq Appending /\ last_seq' = last_seq
    BY <1>e, ThreadsTyped DEF Appending
  <2> QED
    BY <2>1, RoomShrinks DEF IInv
<1>3. ThreadMoves
  <2>1. ASSUME NEW u \in Procs, u # Syncer
        PROVE  pc'[u] = pc[u] /\ call'[u] = call[u] /\ arg'[u] = arg[u]
    BY <2>1, <1>e, ThreadsTyped
  <2>2. pc'[Syncer] = "sync" /\ call'[Syncer] = "sync"
    BY <1>e, <1>c, ThreadsTyped
  <2>3. ASSUME NEW u \in Procs
        PROVE  /\ Encoded(u)' => Encoded(u) /\ arg'[u] = arg[u] /\ pc'[u] = pc[u]
               /\ pc'[u] \in {"fsync", "publish_ok"} => pc'[u] = pc[u]
    BY <2>1, <2>2 DEF Encoded, Owning
  <2>4. call'[Syncer] = "sync" /\ \A u \in Threads : pc'[u] \in {"append", "flush"} => call'[u] = "append"
    BY <2>1, <2>2, <1>c, ThreadsTyped
  <2> QED
    BY <2>3, <2>4, <1>e, <1>u DEF ThreadMoves
<1> QED
  BY <1>1, <1>2, <1>3, ThreadMovesKeeps

\* What sync_through reports durable is on the device.
LEMMA SyncDoneKeeps ==
  ASSUME IInv, NEW t \in Procs, SyncDone(t)
  PROVE  IInv'
<1>u. Up /\ Up'
  BY DEF Up, Open, SyncDone
<1>t. /\ pc' = [pc EXCEPT ![t] = Resting(t)] /\ Resting(t) \in {"idle", "stopped"}
      /\ UNCHANGED <<last_seq, buf, written, durable, call, arg, target,
                     file, torn, device, lost, replayed>>
  BY DEF SyncDone, Resting, pending, syncState, storage, faults
<1> DEFINE Told ==
      /\ visible' \subseteq Seqs
      /\ \A s \in visible' : s \in visible \/ (s <= last_seq /\ (s \in file \cup buf \/ BehindLoss(s)))
      /\ acked' \subseteq Seqs /\ flushed' \subseteq Seqs
      /\ \A s \in acked' \ acked :
           s <= written /\ (s \in device \/ (s \notin file /\ BehindLoss(s)))
      /\ \A s \in flushed' \ flushed :
           s <= written /\ (s \in device \cup replayed \/ (s \notin file /\ BehindLoss(s)))
<1>a. ASSUME NEW s, s \in Seqs, s <= durable, s \in file \cup buf \/ BehindLoss(s)
      PROVE  /\ s <= written
             /\ s \in device \cup replayed \/ (s \notin file /\ BehindLoss(s))
  BY <1>a, <1>u, BoundsAssumption, SMT DEF IInv, TypeOK, Seqs, Counters, Covered
<1>b. ASSUME call[t] = "append" PROVE Told
  <2>1. Encoded(t) /\ arg[t] \in Seqs /\ arg[t] <= last_seq /\ arg[t] <= durable
    <3>1. Encoded(t) /\ arg[t] <= durable
      BY <1>b DEF SyncDone, Encoded
    <3>2. BaseSeq < arg[t] /\ arg[t] <= last_seq
      BY <3>1, <1>u DEF IInv, Present
    <3> QED
      BY <3>1, <3>2, BoundsAssumption, SMT DEF IInv, TypeOK, Seqs
  <2>2. /\ arg[t] \in file \cup buf \/ BehindLoss(arg[t])
        /\ arg[t] \notin replayed
    BY <2>1, <1>u DEF IInv, Present
  <2>3. /\ arg[t] <= written
        /\ arg[t] \in device \/ (arg[t] \notin file /\ BehindLoss(arg[t]))
    BY <1>a, <2>1, <2>2
  <2>4. /\ visible' = visible \cup {arg[t]} /\ UNCHANGED flushed
        /\ acked' = acked \/ acked' = acked \cup {arg[t]}
    BY <1>b DEF SyncDone, AppendReturnsOk
  <2> QED
    BY <2>1, <2>2, <2>3, <2>4 DEF IInv, TypeOK
<1>c. ASSUME call[t] # "append" PROVE Told
  <2>1. /\ UNCHANGED <<visible, acked>>
        /\ flushed' = flushed \cup {s \in visible : s <= arg[t]}
        /\ arg[t] <= durable
    BY <1>c DEF SyncDone
  <2>2. ASSUME NEW s \in visible, s <= arg[t]
        PROVE  /\ s <= written
               /\ s \in device \cup replayed \/ (s \notin file /\ BehindLoss(s))
    <3>1. s \in Seqs /\ s <= durable
      BY <2>1, <2>2, BoundsAssumption, SMT DEF IInv, TypeOK, Seqs
    <3>2. s \in file \cup buf \/ BehindLoss(s)
      BY <1>u, PresentUp
    <3> QED
      BY <1>a, <3>1, <3>2
  <2> QED
    BY <2>1, <2>2 DEF IInv, TypeOK
<1>d. Told
  BY <1>b, <1>c
<1>1. TypeOK'
  <2>1. pc' \in [Procs -> {"idle", "append", "flush", "sync", "wait", "stopped"} \cup Owning]
    BY <1>t, ThreadsTyped
  <2>2. UNCHANGED <<policy, phase, failed, lock, in_progress, background_error,
                    stopping, failures, crashes>>
    BY DEF SyncDone, pending, syncState, faults
  <2> QED
    BY <2>1, <2>2, <1>d, <1>t DEF IInv, TypeOK
<1>2. Room'
  <2>1. Appending' \subseteq Appending
    BY <1>t, ThreadsTyped DEF Appending
  <2> QED
    BY <2>1, <1>t, RoomShrinks DEF IInv
<1>3. Counters'
  <2>1. \A u \in Procs : pc'[u] \in {"fsync", "publish_ok"} => pc'[u] = pc[u]
    BY <1>t, ThreadsTyped
  <2>2. \A s \in visible' : s \in visible \/ s <= last_seq
    BY <1>d
  <2> QED
    BY <2>1, <2>2, <1>t, <1>u DEF IInv, Counters
<1>4. Losses'
  BY <1>t, <1>u DEF IInv, Losses
<1>5. Present'
  <2>1. ASSUME NEW u \in Procs, Encoded(u)' PROVE Encoded(u) /\ pc'[u] = pc[u]
    BY <2>1, <1>t, ThreadsTyped DEF Encoded, Owning
  <2>2. \A u \in Threads : pc'[u] \in {"append", "flush"} => pc'[u] = pc[u]
    BY <1>t, ThreadsTyped
  <2> QED
    BY <2>1, <2>2, <1>d, <1>t, <1>u DEF IInv, Present, BehindLoss
<1>6. Covered'
  <2>1. \A u \in Procs : pc'[u] = "publish_ok" => pc[u] = "publish_ok"
    BY <1>t, ThreadsTyped
  <2> QED
    BY <2>1, <1>t, <1>u DEF IInv, Covered
<1>7. Kept'
  BY <1>d, <1>t, <1>u DEF IInv, Kept, BehindLoss
<1> QED
  BY <1>1, <1>2, <1>3, <1>4, <1>5, <1>6, <1>7 DEF IInv

----------------------------------------------------------------------------
(* The shared flush, closing, crashes and recovery *)

\* A refused call promises nothing.
LEMMA SyncRefusedKeeps ==
  ASSUME IInv, NEW t \in Procs, SyncRefused(t)
  PROVE  IInv'
<1>e. /\ phase \in {"open", "closing"} /\ phase' = phase
      /\ pc[t] = "sync" /\ \E p \in {"idle", "stopped"} : pc' = [pc EXCEPT ![t] = p]
      /\ UNCHANGED <<policy, last_seq, buf, written, failed, lock, durable, call, arg,
                     target, file, torn, device, visible, acked, flushed, lost,
                     replayed, failures, crashes>>
  BY DEF SyncRefused, Open, Resting, pending, syncState, storage,
     promises, faults
<1>f. in_progress' \in BOOLEAN /\ background_error' \in BOOLEAN /\ stopping' \in BOOLEAN
  BY DEF IInv, TypeOK, SyncRefused, syncState
<1>w. LoopMoves
  <2>1. pc' \in [Procs -> {"idle", "append", "flush", "sync", "wait", "stopped"} \cup Owning]
    BY <1>e, ThreadsTyped DEF Owning
  <2>2. ASSUME NEW u \in Procs
        PROVE  \/ pc'[u] = pc[u]
               \/ /\ pc[u] \in {"sync", "wait"} \cup Owning
                  /\ pc'[u] \in {"idle", "stopped", "sync", "wait", "drain"}
    BY <1>e, ThreadsTyped DEF Owning
  <2> QED
    BY <2>1, <2>2, <1>e, <1>f DEF LoopMoves, Up
<1> QED
  BY <1>w, LoopMovesKeeps

\* Waiting promises nothing.
LEMMA SyncWaitsKeeps ==
  ASSUME IInv, NEW t \in Procs, SyncWaits(t)
  PROVE  IInv'
<1>e. /\ phase \in {"open", "closing"} /\ phase' = phase
      /\ pc[t] = "sync" /\ pc' = [pc EXCEPT ![t] = "wait"]
      /\ UNCHANGED <<policy, last_seq, buf, written, failed, lock, durable, call, arg,
                     target, file, torn, device, visible, acked, flushed, lost,
                     replayed, failures, crashes>>
  BY DEF SyncWaits, Open, pending, syncState, storage, promises, faults
<1>f. in_progress' \in BOOLEAN /\ background_error' \in BOOLEAN /\ stopping' \in BOOLEAN
  BY DEF IInv, TypeOK, SyncWaits, syncState
<1>w. LoopMoves
  <2>1. pc' \in [Procs -> {"idle", "append", "flush", "sync", "wait", "stopped"} \cup Owning]
    BY <1>e, ThreadsTyped DEF Owning
  <2>2. ASSUME NEW u \in Procs
        PROVE  \/ pc'[u] = pc[u]
               \/ /\ pc[u] \in {"sync", "wait"} \cup Owning
                  /\ pc'[u] \in {"idle", "stopped", "sync", "wait", "drain"}
    BY <1>e, ThreadsTyped DEF Owning
  <2> QED
    BY <2>1, <2>2, <1>e, <1>f DEF LoopMoves, Up
<1> QED
  BY <1>w, LoopMovesKeeps

\* Becoming the owner promises nothing.
LEMMA SyncOwnsKeeps ==
  ASSUME IInv, NEW t \in Procs, SyncOwns(t)
  PROVE  IInv'
<1>e. /\ phase \in {"open", "closing"} /\ phase' = phase
      /\ pc[t] = "sync" /\ pc' = [pc EXCEPT ![t] = "drain"]
      /\ UNCHANGED <<policy, last_seq, buf, written, failed, lock, durable, call, arg,
                     target, file, torn, device, visible, acked, flushed, lost,
                     replayed, failures, crashes>>
  BY DEF SyncOwns, Open, pending, storage, promises, faults
<1>f. in_progress' \in BOOLEAN /\ background_error' \in BOOLEAN /\ stopping' \in BOOLEAN
  BY DEF IInv, TypeOK, SyncOwns
<1>w. LoopMoves
  <2>1. pc' \in [Procs -> {"idle", "append", "flush", "sync", "wait", "stopped"} \cup Owning]
    BY <1>e, ThreadsTyped DEF Owning
  <2>2. ASSUME NEW u \in Procs
        PROVE  \/ pc'[u] = pc[u]
               \/ /\ pc[u] \in {"sync", "wait"} \cup Owning
                  /\ pc'[u] \in {"idle", "stopped", "sync", "wait", "drain"}
    BY <1>e, ThreadsTyped DEF Owning
  <2> QED
    BY <2>1, <2>2, <1>e, <1>f DEF LoopMoves, Up
<1> QED
  BY <1>w, LoopMovesKeeps

\* The owner moves the buffer and notes how far it got.
LEMMA WriteAndFlushDrainsKeeps ==
  ASSUME IInv, NEW t \in Procs, WriteAndFlushDrains(t)
  PROVE  IInv'
<1>u. Up
  BY DEF Up, Open, WriteAndFlushDrains
<1>m. Moved(buf) /\ buf' = {}
  BY <1>u, WriteOutcome DEF IInv, WriteAndFlushDrains
<1>e. /\ last_seq' = last_seq
      /\ \/ /\ pc' = [pc EXCEPT ![t] = "fsync"]
            /\ target' = [target EXCEPT ![t] = written']
         \/ pc' = [pc EXCEPT ![t] = "publish_err"] /\ target' = target
      /\ pc[t] = "drain"
      /\ UNCHANGED <<policy, phase, lock, durable, in_progress, background_error,
                     call, arg, stopping, device, visible, acked, flushed,
                     replayed, crashes>>
  BY DEF WriteAndFlushDrains, syncState, promises
<1>p. /\ pc \in [Procs -> {"idle", "append", "flush", "sync", "wait", "stopped"} \cup Owning]
      /\ target \in [Procs -> 0 .. MaxSeq]
  BY DEF IInv, TypeOK
<1>w. WriteMoves(buf)
  <2>1. ASSUME NEW v \in Procs, v # t PROVE pc'[v] = pc[v] /\ target'[v] = target[v]
    BY <2>1, <1>e, <1>p
  <2>2. \/ pc'[t] = "fsync" /\ target'[t] = written'
        \/ pc'[t] = "publish_err"
    BY <1>e, <1>p
  <2>3. ASSUME NEW v \in Procs
        PROVE  /\ pc'[v] \in {"append", "flush"} => pc'[v] = pc[v]
               /\ Encoded(v)' => Encoded(v)
               /\ pc'[v] = "publish_ok" => pc[v] = "publish_ok" /\ target'[v] = target[v]
               /\ pc'[v] = "fsync" =>
                    target'[v] = written' \/ (pc[v] = "fsync" /\ target'[v] = target[v])
    <3>1. CASE v # t
      BY <2>1, <3>1, <1>e DEF Encoded
    <3>2. CASE v = t
      BY <2>2, <3>2, <1>e DEF Encoded, Owning
    <3> QED
      BY <3>1, <3>2
  <2> QED
    BY <2>3, <1>e, <1>m, <1>u DEF WriteMoves
<1>1. TypeOK'
  <2>1. failures' \in [write : 0 .. MaxWriteFailures, flush : 0 .. MaxFlushFailures]
    BY FailuresTyped DEF IInv, WriteAndFlushDrains, WritePendingOk, WritePendingErr
  <2>2. pc' \in [Procs -> {"idle", "append", "flush", "sync", "wait", "stopped"} \cup Owning]
    BY <1>e, <1>p DEF Owning
  <2>3. target' \in [Procs -> 0 .. MaxSeq]
    <3>1. written' \in 0 .. MaxSeq
      BY <1>w, WriteMovesTyped, BoundsAssumption, SMT
    <3> QED
      BY <1>e, <1>p, <3>1
  <2> QED
    BY <2>1, <2>2, <2>3, <1>e, <1>w, WriteMovesTyped DEF IInv, TypeOK
<1>2. Room'
  <2>1. Appending' \subseteq Appending
    BY <1>e, <1>p DEF Appending, Procs
  <2> QED
    BY <2>1, <1>e, RoomShrinks DEF IInv
<1> QED
  BY <1>1, <1>2, <1>w, WriteMovesKeeps DEF IInv

\* The owner's flush covers at least what its write carried.
LEMMA WriteAndFlushFlushesKeeps ==
  ASSUME IInv, NEW t \in Procs, WriteAndFlushFlushes(t)
  PROVE  IInv'
<1>e. /\ Open /\ pc[t] = "fsync"
      /\ \/ device' = file /\ pc' = [pc EXCEPT ![t] = "publish_ok"]
         \/ device' = device /\ pc' = [pc EXCEPT ![t] = "publish_err"]
      /\ phase' = phase /\ lock' = lock /\ visible' = visible /\ acked' = acked
      /\ \/ UNCHANGED failures
         \/ /\ failures.flush < MaxFlushFailures
            /\ failures' = [failures EXCEPT !.flush = @ + 1]
      /\ UNCHANGED <<policy, last_seq, buf, written, failed, durable, in_progress,
                     background_error, call, arg, target, stopping, file, torn,
                     flushed, lost, replayed, crashes>>
  BY DEF WriteAndFlushFlushes, FlushOk, FlushErr, promises, pending, syncState
<1>w. FlushMoves
  <2>1. pc' \in [Procs -> {"idle", "append", "flush", "sync", "wait", "stopped"} \cup Owning]
    BY <1>e, ThreadsTyped DEF Owning
  <2>2. phase' \in {"open", "closing", "flushing", "down"} /\ lock' \in Threads \cup {None}
    BY <1>e DEF IInv, TypeOK
  <2>3. \A u \in Procs :
          \/ pc'[u] = pc[u]
          \/ pc[u] = "fsync" /\ pc'[u] = "publish_err"
          \/ pc[u] = "fsync" /\ pc'[u] = "publish_ok" /\ device' = file
    BY <1>e, ThreadsTyped
  <2> QED
    BY <2>1, <2>2, <2>3, <1>e DEF FlushMoves, Up, Open
<1> QED
  BY <1>w, FlushMovesKeeps

\* Publishing raises durable to what the flush covered.
LEMMA SyncPublishesKeeps ==
  ASSUME IInv, NEW t \in Procs, SyncPublishes(t)
  PROVE  IInv'
<1>e. /\ Open /\ pc[t] = "publish_ok" /\ pc' = Woken(t, "sync")
      /\ ~in_progress' /\ in_progress' \in BOOLEAN
      /\ durable' = target[t] \/ durable' = durable
      /\ target[t] > durable => durable' = target[t]
      /\ UNCHANGED <<policy, phase, last_seq, buf, written, failed, lock,
                     background_error, call, arg, target, stopping, file, torn,
                     device, visible, acked, flushed, lost, replayed, failures,
                     crashes>>
  BY DEF SyncPublishes, pending, storage, promises, faults
<1>u. Up
  BY <1>e DEF Up, Open
<1>p. ASSUME NEW u \in Procs
      PROVE  /\ pc'[u] \in {"append", "flush", "fsync", "publish_ok"} => pc'[u] = pc[u]
             /\ Encoded(u)' => Encoded(u)
  BY <1>e, ThreadsTyped DEF Woken, Encoded, Owning
<1>d. durable' \in BaseSeq .. last_seq /\ durable' <= written
  <2>1. durable' <= written
    BY <1>e, <1>u DEF IInv, Counters
  <2>2. durable \in Nat /\ target[t] \in Nat /\ BaseSeq <= durable
    BY <1>u, Bearings, ThreadsTyped, SMT
  <2>3. BaseSeq \in Nat /\ written \in Nat /\ last_seq \in Nat /\ written <= last_seq
    BY <1>u, Bearings
  <2>4. durable' \in Nat /\ BaseSeq <= durable'
    <3>1. CASE target[t] > durable
      BY <3>1, <1>e, <2>2, <2>3, SMT
    <3>2. CASE ~(target[t] > durable)
      <4>1. durable' = durable
        BY <3>2 DEF SyncPublishes
      <4> QED
        BY <4>1, <2>2
    <3> QED
      BY <3>1, <3>2
  <2> QED
    BY <2>1, <2>3, <2>4, SMT
<1>1. TypeOK'
  <2>1. pc' \in [Procs -> {"idle", "append", "flush", "sync", "wait", "stopped"} \cup Owning]
    BY <1>e, ThreadsTyped DEF Woken
  <2> QED
    BY <2>1, <1>d, <1>e DEF IInv, TypeOK
<1>2. Room'
  <2>1. Appending' \subseteq Appending /\ last_seq' = last_seq
    BY <1>e, <1>p, ThreadsTyped DEF Appending
  <2> QED
    BY <2>1, RoomShrinks DEF IInv
<1>3. Counters' /\ Losses'
  BY <1>d, <1>e, <1>p, <1>u DEF IInv, Counters, Losses
<1>4. Present'
  <2>1. \A u \in Threads : pc'[u] \in {"append", "flush"} => call[u] = "append"
    <3>1. \A u \in Threads : pc[u] \in {"append", "flush"} => call[u] = "append"
      BY <1>u, PresentUp
    <3> QED
      BY <3>1, <1>p, ThreadsTyped
  <2> QED
    BY <2>1, <1>u, <1>e, <1>p DEF IInv, Present, BehindLoss
<1>5. Covered'
  BY <1>e, <1>p, <1>u DEF IInv, Covered
<1>6. Kept'
  BY <1>e, <1>u DEF IInv, Kept, BehindLoss
<1> QED
  BY <1>1, <1>2, <1>3, <1>4, <1>5, <1>6 DEF IInv

\* Publishing a failure leaves durable alone.
LEMMA SyncPublishesErrorKeeps ==
  ASSUME IInv, NEW t \in Procs, SyncPublishesError(t)
  PROVE  IInv'
<1>e. /\ phase \in {"open", "closing"} /\ phase' = phase
      /\ pc[t] = "publish_err" /\ \E p \in {"idle", "stopped"} : pc' = Woken(t, p)
      /\ UNCHANGED <<policy, last_seq, buf, written, failed, lock, durable, call, arg,
                     target, file, torn, device, visible, acked, flushed, lost,
                     replayed, failures, crashes>>
  BY DEF SyncPublishesError, Open, Resting, pending, storage, promises,
     faults
<1>f. in_progress' \in BOOLEAN /\ background_error' \in BOOLEAN /\ stopping' \in BOOLEAN
  BY DEF IInv, TypeOK, SyncPublishesError
<1>w. LoopMoves
  <2>1. pc' \in [Procs -> {"idle", "append", "flush", "sync", "wait", "stopped"} \cup Owning]
    BY <1>e, ThreadsTyped DEF Owning, Woken
  <2>2. ASSUME NEW u \in Procs
        PROVE  \/ pc'[u] = pc[u]
               \/ /\ pc[u] \in {"sync", "wait"} \cup Owning
                  /\ pc'[u] \in {"idle", "stopped", "sync", "wait", "drain"}
    BY <1>e, ThreadsTyped DEF Owning, Woken
  <2> QED
    BY <2>1, <2>2, <1>e, <1>f DEF LoopMoves, Up
<1> QED
  BY <1>w, LoopMovesKeeps

\* Closing starts.
LEMMA DropStartsKeeps ==
  ASSUME IInv, DropStarts
  PROVE  IInv'
<1>e. /\ phase = "open" /\ phase' = "closing" /\ pc' = pc
      /\ UNCHANGED <<policy, last_seq, buf, written, failed, lock, durable, call, arg,
                     target, file, torn, device, visible, acked, flushed, lost,
                     replayed, failures, crashes>>
  BY DEF DropStarts, pending, syncState, threadVars, storage,
     promises, faults
<1>f. in_progress' \in BOOLEAN /\ background_error' \in BOOLEAN /\ stopping' \in BOOLEAN
  BY DEF IInv, TypeOK, DropStarts, syncState, threadVars
<1>w. LoopMoves
  BY <1>e, <1>f, ThreadsTyped DEF LoopMoves, Up
<1> QED
  BY <1>w, LoopMovesKeeps

\* Closing moves the buffer.
LEMMA DropDrainsKeeps ==
  ASSUME IInv, DropDrains
  PROVE  IInv'
<1>u. Up
  BY DEF Up, DropDrains, DropWrites
<1>m. Moved(buf) /\ buf' = {}
  BY <1>u, WriteOutcome DEF IInv, DropDrains
<1>e. /\ last_seq' = last_seq
      /\ phase' \in {"flushing", "down"}
      /\ UNCHANGED <<policy, lock, durable, in_progress, background_error, pc,
                     call, arg, target, stopping, device, visible, acked, flushed,
                     replayed, crashes>>
  BY DEF DropDrains, syncState, threadVars, promises
<1>w. WriteMoves(buf)
  BY <1>e, <1>m, <1>u DEF WriteMoves, Encoded
<1>1. TypeOK'
  <2>1. failures' \in [write : 0 .. MaxWriteFailures, flush : 0 .. MaxFlushFailures]
    BY FailuresTyped DEF IInv, DropDrains, WritePendingOk, WritePendingErr
  <2> QED
    BY <2>1, <1>e, <1>w, WriteMovesTyped DEF IInv, TypeOK
<1>2. Room'
  <2>1. Appending' \subseteq Appending
    BY <1>e DEF Appending
  <2> QED
    BY <2>1, <1>e, RoomShrinks DEF IInv
<1> QED
  BY <1>1, <1>2, <1>w, WriteMovesKeeps DEF IInv

\* Closing flushes.
LEMMA DropFlushesKeeps ==
  ASSUME IInv, DropFlushes
  PROVE  IInv'
<1>e. /\ phase = "flushing" /\ phase' = "down"
      /\ device' = file \/ device' = device
      /\ UNCHANGED <<pc, lock, visible, acked>>
      /\ \/ UNCHANGED failures
         \/ /\ failures.flush < MaxFlushFailures
            /\ failures' = [failures EXCEPT !.flush = @ + 1]
      /\ UNCHANGED <<policy, last_seq, buf, written, failed, durable, in_progress,
                     background_error, call, arg, target, stopping, file, torn,
                     flushed, lost, replayed, crashes>>
  BY DEF DropFlushes, FlushOk, FlushErr, promises, pending, syncState, threadVars
<1>w. FlushMoves
  <2>1. pc' \in [Procs -> {"idle", "append", "flush", "sync", "wait", "stopped"} \cup Owning]
    BY <1>e, ThreadsTyped DEF Owning
  <2>2. phase' \in {"open", "closing", "flushing", "down"} /\ lock' \in Threads \cup {None}
    BY <1>e DEF IInv, TypeOK
  <2> QED
    BY <2>1, <2>2, <1>e DEF FlushMoves, Up
<1> QED
  BY <1>w, FlushMovesKeeps

\* A crash takes no record that a promise rests on.
LEMMA CrashKeeps ==
  ASSUME IInv, NEW kind \in CrashKinds, Crash(kind)
  PROVE  IInv'
<1>r. InFlight \subseteq Seqs /\ \A s \in InFlight : s \in buf \/ s = last_seq + 1
  <2>1. ASSUME NEW t \in Threads, pc[t] = "append" PROVE last_seq + 1 <= MaxSeq
    BY <2>1, RoomForOne DEF IInv
  <2> QED
    BY <2>1, BoundsAssumption, SMT DEF InFlight, IInv, TypeOK, Seqs
<1>u. Up /\ ~Up'
  BY DEF Up, Crash
<1>e. UNCHANGED <<policy, last_seq, buf, written, failed, lock, durable,
                  in_progress, background_error, pc, call, arg, target, stopping,
                  visible, acked, flushed, lost, replayed, failures>>
      /\ crashes < MaxCrashes /\ crashes' = crashes + 1 /\ phase' = "down"
  BY DEF Crash, pending, syncState, threadVars, promises
<1>f. /\ file' \subseteq file \cup InFlight
      /\ device \subseteq device' /\ device' \subseteq file' /\ torn' \in BOOLEAN
  <2>1. device \subseteq file /\ torn \in BOOLEAN
    BY DEF IInv, TypeOK
  <2> QED
    BY <2>1 DEF Crash, Replay
<1>1. TypeOK'
  <2>1. crashes' \in 0 .. MaxCrashes
    BY <1>e, BoundsAssumption, SMT DEF IInv, TypeOK
  <2>2. file' \subseteq Seqs
    BY <1>f, <1>r DEF IInv, TypeOK
  <2> QED
    BY <2>1, <2>2, <1>e, <1>f DEF IInv, TypeOK
<1>2. Room'
  <2>1. Appending' \subseteq Appending
    BY <1>e DEF Appending
  <2> QED
    BY <2>1, <1>e, RoomShrinks DEF IInv
<1>3. Counters' /\ Losses' /\ Present' /\ Covered'
  BY <1>u DEF Counters, Losses, Present, Covered
<1>4. Kept'
  <2>1. ASSUME NEW s \in acked \cup flushed, s \notin file PROVE s \notin file'
    <3>1. s \in Nat /\ s <= written
      BY <1>u, BoundsAssumption, SMT DEF IInv, TypeOK, Seqs, Kept
    <3>2. s \notin InFlight
      BY <3>1, <1>r, <1>u, Bearings, SMT
    <3> QED
      BY <2>1, <3>2, <1>f
  <2>2. /\ \A s \in acked : s \in device \/ (s \notin file /\ BehindLoss(s))
        /\ \A s \in flushed : s \in device \cup replayed \/ (s \notin file /\ BehindLoss(s))
    BY DEF IInv, Kept
  <2> QED
    BY <2>1, <2>2, <1>e, <1>f, <1>u DEF Kept, BehindLoss
<1> QED
  BY <1>1, <1>2, <1>3, <1>4 DEF IInv

\* Recovery starts from what the file holds.
LEMMA RecoverKeeps ==
  ASSUME IInv, Recover
  PROVE  IInv'
<1>n. /\ last_seq' \in file \cup {BaseSeq}
      /\ \A s \in file \cup {BaseSeq} : s <= last_seq'
  BY DEF Recover, Highest
<1>e. /\ written' = last_seq' /\ durable' = last_seq'
      /\ buf' = {} /\ lock' = None /\ phase' = "open"
      /\ pc' = [v \in Procs |-> "idle"] /\ call' = [v \in Procs |-> "sync"]
      /\ arg' = [v \in Procs |-> 0] /\ target' = [v \in Procs |-> 0]
      /\ visible' = file /\ acked' = acked \cap file /\ flushed' = flushed \cap file
      /\ lost' = {} /\ replayed' = file \ device'
      /\ UNCHANGED <<policy, file, failures, crashes>>
  BY DEF Recover
<1>b. /\ in_progress' = FALSE /\ failed' = FALSE /\ background_error' = FALSE
      /\ stopping' = FALSE /\ torn' = FALSE
  BY DEF Recover, CutTornTail
<1>d. device \subseteq device' /\ device' \subseteq file
  BY DEF IInv, TypeOK, Recover, CutTornTail
<1>k. /\ BaseSeq \in Nat /\ MaxSeq \in Nat /\ BaseSeq <= MaxSeq
      /\ file \subseteq Seqs /\ acked \subseteq Seqs /\ flushed \subseteq Seqs
  BY BoundsAssumption DEF IInv, TypeOK
<1>s. last_seq' \in BaseSeq .. MaxSeq /\ last_seq' \in Nat /\ BaseSeq <= last_seq'
  BY <1>n, <1>k, SMT DEF Seqs
<1>1. TypeOK'
  <2>1. /\ pc' \in [Procs -> {"idle", "append", "flush", "sync", "wait", "stopped"} \cup Owning]
        /\ call' \in [Procs -> {"append", "sync"}]
        /\ arg' \in [Procs -> 0 .. MaxSeq] /\ target' \in [Procs -> 0 .. MaxSeq]
    BY <1>e, <1>k, SMT
  <2>2. written' \in BaseSeq .. last_seq' /\ durable' \in BaseSeq .. last_seq'
    BY <1>e, <1>s, <1>k, SMT
  <2>3. /\ policy' \in Policies /\ crashes' \in 0 .. MaxCrashes
        /\ failures' \in [write : 0 .. MaxWriteFailures, flush : 0 .. MaxFlushFailures]
    BY <1>e DEF IInv, TypeOK
  <2> QED
    BY <2>1, <2>2, <2>3, <1>e, <1>b, <1>d, <1>k, <1>s DEF TypeOK, Seqs
<1>2. Room'
  <2>1. Appending' = {}
    BY <1>e DEF Appending, Procs
  <2> QED
    BY <2>1, <1>s, <1>k, FS_EmptySet, SMT DEF Room
<1>3. Counters' /\ Losses'
  <2>1. \A v \in Procs : pc'[v] = "idle"
    BY <1>e
  <2>2. \A s \in file' \cup visible' \cup lost' \cup replayed' : s <= last_seq'
    BY <1>e, <1>n
  <2> QED
    BY <2>1, <2>2, <1>e, <1>b, <1>s, SMT DEF Counters, Losses
<1>4. Present' /\ Covered'
  <2>1. \A v \in Procs : pc'[v] = "idle" /\ call'[v] = "sync"
    BY <1>e
  <2>2. Threads \subseteq Procs /\ Syncer \in Procs
    BY DEF Procs
  <2> QED
    BY <2>1, <2>2, <1>e DEF Present, Covered, Encoded
<1>5. Kept'
  <2>1. \A s \in file' : s <= written'
    BY <1>e, <1>n
  <2>2. \A s \in acked' \cup flushed' : s \in file'
    BY <1>e
  <2>3. \A s \in acked' : s \in device'
    BY <1>e, <1>d DEF IInv, Kept
  <2>4. \A s \in flushed' : s \in device' \cup replayed'
    BY <1>e
  <2> QED
    BY <2>1, <2>2, <2>3, <2>4 DEF Kept
<1> QED
  BY <1>1, <1>2, <1>3, <1>4, <1>5 DEF IInv

\* A step that changes nothing keeps the invariant.
LEMMA StutterKeeps == ASSUME IInv, UNCHANGED vars PROVE IInv'
<1>1. UNCHANGED <<policy, phase, last_seq, buf, written, failed, lock, durable,
                  in_progress, background_error, pc, call, arg, target, stopping,
                  file, torn, device, visible, acked, flushed, lost, replayed,
                  failures, crashes>>
  BY DEF vars, pending, syncState, threadVars, storage, promises, faults
<1>2. Room'
  <2>1. Appending' = Appending
    BY <1>1 DEF Appending
  <2> QED
    BY <2>1, <1>1 DEF IInv, Room
<1>3. TypeOK'
  BY <1>1 DEF IInv, TypeOK
<1>4. Counters' /\ Losses' /\ Present' /\ Covered' /\ Kept'
  <2>1. Counters' /\ Losses' /\ Covered' /\ Kept'
    BY <1>1 DEF IInv, Counters, Losses, Covered, Kept, BehindLoss, Up
  <2>2. Present'
    BY <1>1 DEF IInv, Present, Encoded, BehindLoss, Up
  <2> QED
    BY <2>1, <2>2
<1> QED
  BY <1>2, <1>3, <1>4 DEF IInv

----------------------------------------------------------------------------
(* Every step keeps the invariant *)

\* The strengthened invariant is inductive: every step of every thread, every
\* failure, crash and recovery keeps it.
LEMMA NextIInv == IInv /\ [Next]_vars => IInv'
<1> SUFFICES ASSUME IInv, [Next]_vars PROVE IInv'
  OBVIOUS
<1>1. ASSUME NEW t \in Threads,
             \/ AppendReportsError(t) \/ AppendChecks(t) \/ AppendEncodes(t)
             \/ AppendWriteFails(t) \/ AppendFlushes(t) \/ SyncCall(t)
      PROVE  IInv'
  BY <1>1, AppendReportsErrorKeeps, AppendChecksKeeps, AppendEncodesKeeps,
     AppendWriteFailsKeeps, AppendFlushesKeeps, SyncCallKeeps
<1>2. ASSUME NEW t \in Procs, Step(t) PROVE IInv'
  BY <1>2, SyncDoneKeeps, SyncRefusedKeeps, SyncWaitsKeeps, SyncOwnsKeeps,
     WriteAndFlushDrainsKeeps, WriteAndFlushFlushesKeeps, SyncPublishesKeeps,
     SyncPublishesErrorKeeps DEF Step
<1>3. CASE SyncerWakes \/ DropStarts \/ DropDrains \/ DropFlushes \/ Recover
  BY <1>3, SyncerWakesKeeps, DropStartsKeeps, DropDrainsKeeps, DropFlushesKeeps,
     RecoverKeeps
<1>4. ASSUME NEW kind \in CrashKinds, Crash(kind) PROVE IInv'
  BY <1>4, CrashKeeps
<1>5. CASE UNCHANGED vars
  BY <1>5, StutterKeeps
<1> QED
  BY <1>1, <1>2, <1>3, <1>4, <1>5 DEF Next

----------------------------------------------------------------------------
(* Theorems *)

\* The strengthened invariant holds in every reachable state of the log.
THEOREM Invariance == Spec => []IInv
  BY InitIInv, NextIInv, PTL DEF Spec

\* The log never leaves its types: in particular written and durable stay
\* between the number the log started from and last_seq (append, sync_through,
\* recover).
THEOREM TypeCorrect == Spec => []TypeOK
<1>1. IInv => TypeOK
  BY DEF IInv
<1> QED
  BY <1>1, Invariance, PTL

\* Under Always and Group, an append that returned Ok has its record on the
\* device through every crash and recovery, unless a failed write dropped that
\* record or an earlier one (append, sync_through, recover).
THEOREM AcknowledgedSurvive == Spec => []AckedSurvives
<1>1. IInv => AckedSurvives
  BY DEF IInv, Kept, AckedSurvives
<1> QED
  BY <1>1, Invariance, PTL

\* What a completed sync covered is on the device, unless recovery had read it
\* back from a log that was never flushed or a failed write dropped it (sync).
THEOREM CompletedSyncsCover == Spec => []SyncCovers
<1>1. IInv => SyncCovers
  BY DEF IInv, Kept, SyncCovers
<1> QED
  BY <1>1, Invariance, PTL

\* in_progress is held by exactly the thread that owns the flush
\* (sync_through).
THEOREM FlushHasOneOwner == Spec => []OneFlushAtATime
<1>1. Init => OneFlushAtATime
  BY DEF Init, OneFlushAtATime, Owning, Procs
<1>2. IInv /\ OneFlushAtATime /\ [Next]_vars => OneFlushAtATime'
  <2> SUFFICES ASSUME IInv, OneFlushAtATime, [Next]_vars PROVE OneFlushAtATime'
    OBVIOUS
  <2>0. pc \in [Procs -> {"idle", "append", "flush", "sync", "wait", "stopped"} \cup Owning]
        /\ Threads \subseteq Procs /\ Syncer \in Procs
    BY DEF IInv, TypeOK, Procs
  <2> USE DEF OneFlushAtATime, Owning
  <2>1. ASSUME NEW t \in Threads,
               \/ AppendReportsError(t) \/ AppendChecks(t) \/ AppendEncodes(t)
               \/ AppendWriteFails(t) \/ AppendFlushes(t) \/ SyncCall(t)
        PROVE  OneFlushAtATime'
    <3>1. /\ in_progress' = in_progress /\ phase # "down"
          /\ \A u \in Procs : pc'[u] \in Owning <=> pc[u] \in Owning
      BY <2>0, <2>1 DEF AppendReportsError, AppendChecks, AppendEncodes,
         AppendWriteFails, AppendFlushes, SyncCall, AfterEncode, Open,
         syncState, threadVars
    <3> QED
      BY <3>1
  <2>2. ASSUME NEW t \in Procs, SyncDone(t) \/ SyncRefused(t) \/ SyncWaits(t)
        PROVE  OneFlushAtATime'
    <3>1. /\ in_progress' = in_progress /\ phase # "down"
          /\ \A u \in Procs : pc'[u] \in Owning <=> pc[u] \in Owning
      BY <2>0, <2>2 DEF SyncDone, SyncRefused, SyncWaits, Resting, Open, syncState
    <3> QED
      BY <3>1
  <2>3. ASSUME NEW t \in Procs, SyncOwns(t) PROVE OneFlushAtATime'
    BY <2>0, <2>3 DEF SyncOwns, Open
  <2>4. ASSUME NEW t \in Procs, WriteAndFlushDrains(t) \/ WriteAndFlushFlushes(t)
        PROVE  OneFlushAtATime'
    <3>1. /\ in_progress' = in_progress /\ phase # "down"
          /\ \A u \in Procs : pc'[u] \in Owning <=> pc[u] \in Owning
      BY <2>0, <2>4 DEF WriteAndFlushDrains, WriteAndFlushFlushes, Open, syncState
    <3> QED
      BY <3>1
  <2>5. ASSUME NEW t \in Procs, SyncPublishes(t) \/ SyncPublishesError(t)
        PROVE  OneFlushAtATime'
    <3>1. /\ ~in_progress' /\ phase # "down" /\ pc[t] \in Owning
          /\ \A u \in Procs : pc'[u] \in Owning => u # t /\ pc[u] \in Owning
      BY <2>0, <2>5 DEF SyncPublishes, SyncPublishesError, Woken, Resting, Open
    <3> QED
      BY <3>1
  <2>6. CASE SyncerWakes \/ DropStarts \/ DropDrains \/ DropFlushes
    <3>1. /\ in_progress' = in_progress /\ phase # "down"
          /\ \A u \in Procs : pc'[u] \in Owning <=> pc[u] \in Owning
      BY <2>0, <2>6 DEF SyncerWakes, DropStarts, DropDrains, DropWrites,
         DropFlushes, Open, syncState, threadVars
    <3> QED
      BY <3>1
  <2>9. CASE Recover
    <3>1. ~in_progress' /\ \A u \in Procs : pc'[u] \notin Owning
      BY <2>9 DEF Recover
    <3> QED
      BY <3>1
  <2>7. ASSUME NEW kind \in CrashKinds, Crash(kind) PROVE OneFlushAtATime'
    BY <2>7 DEF Crash
  <2>8. CASE UNCHANGED vars
    BY <2>8 DEF vars, syncState, threadVars
  <2> QED
    BY <2>1, <2>2, <2>3, <2>4, <2>5, <2>6, <2>7, <2>8, <2>9 DEF Next, Step
<1> QED
  BY <1>1, <1>2, Invariance, PTL DEF Spec

\* Until a write fails, the buffer is exactly the numbers between written and
\* last_seq: no record is skipped, kept twice or forgotten (append,
\* write_pending, write_and_flush).
THEOREM BufferIsTheGap == Spec => []PendingIsTheGap
<1>1. Init => PendingIsTheGap
  BY BoundsAssumption, SMT DEF Init, PendingIsTheGap
<1>2. IInv /\ PendingIsTheGap /\ [Next]_vars => PendingIsTheGap'
  <2> SUFFICES ASSUME IInv, PendingIsTheGap, [Next]_vars PROVE PendingIsTheGap'
    OBVIOUS
  <2>0. last_seq \in Nat /\ written \in Nat /\ written <= last_seq
    BY BoundsAssumption, SMT DEF IInv, TypeOK
  <2>1. ASSUME phase # "down", UNCHANGED last_seq,
               WritePendingOk(buf) \/ WritePendingErr(buf)
        PROVE  PendingIsTheGap'
    <3>1. CASE WritePendingErr(buf)
      BY <3>1 DEF WritePendingErr, PendingIsTheGap
    <3>2. CASE WritePendingOk(buf) /\ buf = {}
      <4>1. written' = written /\ buf' = buf /\ failed' = failed
        BY <3>2 DEF WritePendingOk
      <4> QED
        BY <4>1, <2>1 DEF PendingIsTheGap
    <3>3. CASE WritePendingOk(buf) /\ buf # {}
      <4>1. written' = last_seq' /\ buf' = {}
        BY <3>3 DEF WritePendingOk
      <4>2. (last_seq' + 1) .. last_seq' = {}
        BY <2>0, <2>1, SMT
      <4> QED
        BY <4>1, <4>2 DEF PendingIsTheGap
    <3> QED
      BY <2>1, <3>1, <3>2, <3>3
  <2>2. ASSUME NEW t \in Threads, AppendEncodes(t) PROVE PendingIsTheGap'
    <3>1. CASE WritePendingOk(buf \cup {last_seq + 1})
      BY <2>0, <2>2, <3>1, SMT DEF AppendEncodes, WritePendingOk, PendingIsTheGap
    <3>2. CASE buf' = buf \cup {last_seq + 1} /\ UNCHANGED <<written, failed>>
      BY <2>0, <2>2, <3>2, SMT DEF AppendEncodes, PendingIsTheGap, Open
    <3> QED
      BY <2>2, <3>1, <3>2 DEF AppendEncodes
  <2>3. ASSUME NEW t \in Threads, AppendWriteFails(t) PROVE PendingIsTheGap'
    BY <2>3 DEF AppendWriteFails, WritePendingErr, PendingIsTheGap
  <2>4. ASSUME NEW t \in Procs, WriteAndFlushDrains(t) PROVE PendingIsTheGap'
    BY <2>1, <2>4 DEF WriteAndFlushDrains, Open
  <2>5. CASE DropDrains
    BY <2>1, <2>5 DEF DropDrains, DropWrites
  <2>6. CASE Recover
    <3>1. TypeOK'
      BY <2>6, RecoverKeeps DEF IInv
    <3>2. last_seq' \in Nat
      BY <3>1, BoundsAssumption, SMT DEF TypeOK
    <3>3. buf' = {} /\ written' = last_seq'
      BY <2>6 DEF Recover
    <3>4. \A n \in Nat : (n + 1) .. n = {}
      BY SMT
    <3> QED
      BY <3>2, <3>3, <3>4 DEF PendingIsTheGap
  <2>7. ASSUME NEW kind \in CrashKinds, Crash(kind) PROVE PendingIsTheGap'
    BY <2>7 DEF Crash, PendingIsTheGap
  <2>8. ASSUME UNCHANGED <<last_seq, buf, written, failed>>, phase # "down" \/ UNCHANGED phase
        PROVE  PendingIsTheGap'
    BY <2>8 DEF PendingIsTheGap
  <2>9. ASSUME NEW t \in Threads,
               \/ AppendReportsError(t) \/ AppendChecks(t) \/ AppendFlushes(t)
               \/ SyncCall(t)
        PROVE  PendingIsTheGap'
    BY <2>8, <2>9 DEF AppendReportsError, AppendChecks, AppendFlushes, SyncCall,
       Open, pending
  <2>10. ASSUME NEW t \in Procs,
                \/ SyncDone(t) \/ SyncRefused(t) \/ SyncWaits(t) \/ SyncOwns(t)
                \/ WriteAndFlushFlushes(t) \/ SyncPublishes(t)
                \/ SyncPublishesError(t)
         PROVE  PendingIsTheGap'
    BY <2>8, <2>10 DEF SyncDone, SyncRefused, SyncWaits, SyncOwns,
       WriteAndFlushFlushes, SyncPublishes, SyncPublishesError, Open, pending
  <2>11. CASE SyncerWakes \/ DropStarts \/ DropFlushes \/ UNCHANGED vars
    BY <2>8, <2>11 DEF SyncerWakes, DropStarts, DropFlushes, vars, pending
  <2> QED
    BY <2>2, <2>3, <2>4, <2>5, <2>6, <2>7, <2>9, <2>10, <2>11 DEF Next, Step
<1> QED
  BY <1>1, <1>2, Invariance, PTL DEF Spec

\* While no write fails, the promise of Always and Group holds without an
\* exception: failed device flushes, crashes and recoveries cannot break it
\* (doc comment of SyncPolicy).
THEOREM DurableWithoutWriteFailures ==
  ASSUME MaxWriteFailures = 0
  PROVE  Spec => []AckedIsDurable
<1> DEFINE NothingLost == lost = {}
<1>1. Init => NothingLost
  BY DEF Init
<1>2. IInv /\ NothingLost /\ [Next]_vars => NothingLost'
  <2> SUFFICES ASSUME IInv, lost = {}, [Next]_vars PROVE lost' = {}
    OBVIOUS
  <2>1. ~(failures.write < MaxWriteFailures)
    BY SMT DEF IInv, TypeOK
  <2>2. \A b : ~WritePendingErr(b)
    BY <2>1, ZenonT(40) DEF WritePendingErr
  <2>3. ASSUME NEW t \in Threads,
               \/ AppendReportsError(t) \/ AppendChecks(t) \/ AppendEncodes(t)
               \/ AppendWriteFails(t) \/ AppendFlushes(t) \/ SyncCall(t)
        PROVE  lost' = {}
    BY <2>2, <2>3 DEF AppendReportsError, AppendChecks, AppendEncodes,
       AppendWriteFails, AppendFlushes, SyncCall, WritePendingOk, faults
  <2>4. ASSUME NEW t \in Procs, Step(t) PROVE lost' = {}
    BY <2>2, <2>4 DEF Step, SyncDone, SyncRefused, SyncWaits, SyncOwns,
       WriteAndFlushDrains, WriteAndFlushFlushes, SyncPublishes,
       SyncPublishesError, WritePendingOk, faults
  <2>5. CASE SyncerWakes \/ DropStarts \/ DropDrains \/ DropFlushes \/ Recover
    BY <2>2, <2>5 DEF SyncerWakes, DropStarts, DropDrains, DropFlushes, Recover,
       WritePendingOk, faults
  <2>6. ASSUME NEW kind \in CrashKinds, Crash(kind) PROVE lost' = {}
    BY <2>6 DEF Crash
  <2>7. CASE UNCHANGED vars
    BY <2>7 DEF vars, faults
  <2> QED
    BY <2>3, <2>4, <2>5, <2>6, <2>7 DEF Next
<1>3. IInv /\ NothingLost => AckedIsDurable
  BY DEF IInv, Kept, BehindLoss, AckedIsDurable
<1> QED
  BY <1>1, <1>2, <1>3, Invariance, PTL DEF Spec
=============================================================================
