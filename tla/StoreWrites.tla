---------------------------- MODULE StoreWrites -----------------------------
(***************************************************************************)
(* What a step leaves alone, and the writers of Store, keep its invariant. *)
(* So do closing the store and starting with an empty directory.           *)
(***************************************************************************)
EXTENDS StoreInvariant

USE Zenon

----------------------------------------------------------------------------
(* Lists *)

\* A list with a new head.
LEMMA Cons ==
  ASSUME NEW S, NEW s \in Seq(S), NEW x \in S
  PROVE  /\ <<x>> \o s \in Seq(S) /\ Len(<<x>> \o s) = Len(s) + 1
         /\ DOMAIN (<<x>> \o s) = 1 .. Len(s) + 1
         /\ (<<x>> \o s)[1] = x
         /\ \A i \in 1 .. Len(s) : (<<x>> \o s)[i + 1] = s[i]
         /\ \A i \in 2 .. Len(s) + 1 : i - 1 \in DOMAIN s /\ (<<x>> \o s)[i] = s[i - 1]
         /\ Range(<<x>> \o s) = Range(s) \cup {x}
<1>1. PICK t : t = <<x>> \o s
  OBVIOUS
<1>2. /\ t \in Seq(S) /\ Len(t) = Len(s) + 1 /\ DOMAIN t = 1 .. Len(s) + 1
      /\ t[1] = x /\ Len(s) \in Nat /\ DOMAIN s = 1 .. Len(s)
  BY <1>1, SMT
<1>3. \A i \in 2 .. Len(s) + 1 : i - 1 \in DOMAIN s /\ t[i] = s[i - 1]
  BY <1>1, SMT
<1>4. \A i \in 1 .. Len(s) : t[i + 1] = s[i]
  BY <1>1, SMT
<1>5. Range(t) \subseteq Range(s) \cup {x}
  BY <1>2, <1>3, SMT DEF Range
<1>6. Range(s) \cup {x} \subseteq Range(t)
  <2>1. x \in Range(t)
    BY <1>2, SMT DEF Range
  <2>2. ASSUME NEW i \in DOMAIN s
        PROVE  s[i] \in Range(t)
    <3>1. i \in 1 .. Len(s) /\ i + 1 \in DOMAIN t
      BY <1>2, <2>2, SMT
    <3> QED
      BY <1>4, <3>1 DEF Range
  <2> QED
    BY <2>1, <2>2 DEF Range
<1> QED
  BY <1>1, <1>2, <1>3, <1>4, <1>5, <1>6

\* A list without its last element, and without its first.
LEMMA Shorter ==
  ASSUME NEW S, NEW s \in Seq(S), s # << >>
  PROVE  /\ Len(s) \in Nat \ {0} /\ DOMAIN s = 1 .. Len(s)
         /\ SubSeq(s, 1, Len(s) - 1) \in Seq(S)
         /\ DOMAIN SubSeq(s, 1, Len(s) - 1) = 1 .. Len(s) - 1
         /\ \A i \in 1 .. Len(s) - 1 : SubSeq(s, 1, Len(s) - 1)[i] = s[i]
         /\ Tail(s) \in Seq(S) /\ DOMAIN Tail(s) = 1 .. Len(s) - 1
         /\ \A i \in 1 .. Len(s) - 1 : Tail(s)[i] = s[i + 1] /\ i + 1 \in DOMAIN s
         /\ Head(s) = s[1] /\ 1 \in DOMAIN s /\ Len(s) \in DOMAIN s
         /\ Head(s) \in Range(s) /\ s[Len(s)] \in Range(s)
         /\ Len(Tail(s)) = Len(s) - 1 /\ Range(Tail(s)) \subseteq Range(s)
<1>1. /\ Len(s) \in Nat \ {0} /\ DOMAIN s = 1 .. Len(s)
      /\ SubSeq(s, 1, Len(s) - 1) \in Seq(S)
      /\ DOMAIN SubSeq(s, 1, Len(s) - 1) = 1 .. Len(s) - 1
      /\ \A i \in 1 .. Len(s) - 1 : SubSeq(s, 1, Len(s) - 1)[i] = s[i]
  BY SMT
<1>2. /\ Tail(s) \in Seq(S) /\ DOMAIN Tail(s) = 1 .. Len(s) - 1
      /\ \A i \in 1 .. Len(s) - 1 : Tail(s)[i] = s[i + 1]
      /\ Head(s) = s[1] /\ Len(Tail(s)) = Len(s) - 1
  BY SMT
<1>3. \A i \in 1 .. Len(s) - 1 : i + 1 \in DOMAIN s
  BY <1>1, SMT
<1>4. Range(Tail(s)) \subseteq Range(s)
  BY <1>2, <1>3, SMT DEF Range
<1>5. 1 \in DOMAIN s /\ Len(s) \in DOMAIN s
  BY <1>1, SMT
<1> QED
  BY <1>1, <1>2, <1>3, <1>4, <1>5 DEF Range

\* One more fault.
LEMMA MoreFaults ==
  ASSUME NEW f \in [restart : Nat, task : Nat, unlink : Nat, split : BOOLEAN],
         NEW b \in BOOLEAN
  PROVE  {[f EXCEPT !.task = @ + 1], [f EXCEPT !.unlink = @ + 1],
          [f EXCEPT !.restart = @ + 1], [f EXCEPT !.restart = @ + 1, !.split = b]}
            \subseteq [restart : Nat, task : Nat, unlink : Nat, split : BOOLEAN]
<1>1. PICK B : B = BOOLEAN
  OBVIOUS
<1>2. f \in [restart : Nat, task : Nat, unlink : Nat, split : B] /\ b \in B
  BY <1>1
<1>3. PICK F : F = [restart : Nat, task : Nat, unlink : Nat, split : B]
  OBVIOUS
<1>4. [f EXCEPT !.task = @ + 1] \in F
  BY <1>2, <1>3, SMT
<1>5. [f EXCEPT !.unlink = @ + 1] \in F
  BY <1>2, <1>3, SMT
<1>6. [f EXCEPT !.restart = @ + 1] \in F
  BY <1>2, <1>3, SMT
<1>7. [f EXCEPT !.restart = @ + 1, !.split = b] \in F
  <2>1. PICK g : g = [f EXCEPT !.restart = @ + 1, !.split = b]
    OBVIOUS
  <2>2. g = [restart |-> f.restart + 1, task |-> f.task, unlink |-> f.unlink, split |-> b]
    BY <1>2, <2>1
  <2> QED
    BY <1>2, <1>3, <2>1, <2>2, SMT
<1>8. F = [restart : Nat, task : Nat, unlink : Nat, split : BOOLEAN]
  BY <1>1, <1>3
<1> QED
  BY <1>4, <1>5, <1>6, <1>7, <1>8

\* The larger of two numbers.
LEMMA HighestOfTwo ==
  ASSUME NEW a \in Nat, NEW b \in Nat
  PROVE  /\ Highest({a, b}) \in {a, b}
         /\ a <= Highest({a, b}) /\ b <= Highest({a, b})
<1>1. PICK S : S = {a, b} \cup {0}
  OBVIOUS
<1>2. \E x \in S : \A y \in S : x >= y
  BY <1>1, SMT
<1>3. Max(S) \in S /\ \A y \in S : Max(S) >= y
  BY <1>2 DEF Max
<1>4. Highest({a, b}) = Max(S)
  BY <1>1 DEF Highest
<1> QED
  BY <1>1, <1>3, <1>4, SMT

----------------------------------------------------------------------------
(* What steps leave alone *)

\* Steps that leave files, snapshot and compaction alone keep what is said of them.
LEMMA FilesFrame ==
  ASSUME Levels, Commits, Compaction,
         UNCHANGED <<phase, tables, manifest, snapshot, durable, l0, below,
                     flusher, compactor>>
  PROVE  Levels' /\ Commits' /\ Compaction'
<1>1. Levels'
  BY SMT DEF Levels, Layout, Numbers, AtLevel, Loaded, Disjoint, LeftOf
<1>2. Commits'
  BY DEF Commits, FlushedFile
<1>3. Compaction'
  <2>1. Planned'
    BY DEF Compaction, Planned
  <2>2. Written'
    BY SMT DEF Compaction, Written, Merging, Inputs, Outputs, Content, Numbers,
           Disjoint, LeftOf
  <2>3. ToWrite'
    BY SMT DEF Compaction, ToWrite, Disjoint, LeftOf, OnePerKey
  <2>4. ToUnlink'
    BY DEF Compaction, ToUnlink, Numbers, Loaded
  <2>5. (Compacting => Plan)'
    BY SMT DEF Compaction, Compacting, Plan, Inputs, Content, Disjoint, LeftOf
  <2> QED
    BY <2>1, <2>2, <2>3, <2>4, <2>5 DEF Compaction
<1> QED
  BY <1>1, <1>2, <1>3

\* Steps that leave the lists of logs alone keep who owns which log.
LEMMA MemoryFrame ==
  ASSUME Structure, UNCHANGED <<phase, active_logs, frozen, flusher>>,
         DOMAIN logs \subseteq DOMAIN logs'
  PROVE  Owners'
<1>1. \A s : LogList(s) => LogList(s)'
  BY DEF LogList
<1>2. Owners
  BY DEF Structure
<1> QED
  BY <1>1, <1>2 DEF Owners

\* The log that is appended to is none of those a flush will remove.
LEMMA CurrentLogApart ==
  ASSUME Structure, phase = "up"
  PROVE  /\ active_logs \in Seq(Nat) /\ active_logs # << >>
         /\ CurrentLog \in Range(active_logs) /\ CurrentLog \in DOMAIN logs
         /\ CurrentLog \in Nat
         /\ flusher.at \in {"write", "commit", "publish"} =>
              /\ LogList(flusher.task.logs) /\ CurrentLog \notin Range(flusher.task.logs)
              /\ frozen # << >> /\ flusher.task = frozen[Len(frozen)]
              /\ Len(frozen) \in DOMAIN frozen
         /\ flusher.at = "unlink" =>
              LogList(flusher.logs) /\ CurrentLog \notin Range(flusher.logs)
<1>1. LogList(active_logs)
  BY DEF Structure, Owners
<1>2. active_logs \in Seq(Nat) /\ active_logs # << >>
  BY <1>1 DEF LogList
<1>3. CurrentLog \in Range(active_logs)
  BY <1>2, Shorter DEF CurrentLog
<1>4. CurrentLog \in DOMAIN logs /\ CurrentLog \in Nat
  BY <1>1, <1>3 DEF LogList, Structure, DiskTypes
<1>5. ASSUME NEW s, LogList(s), AllBefore(s, active_logs)
      PROVE  CurrentLog \notin Range(s)
  BY <1>3, <1>4, <1>5, SMT DEF AllBefore
<1>6. ASSUME flusher.at \in {"write", "commit", "publish"}
      PROVE  /\ LogList(flusher.task.logs) /\ CurrentLog \notin Range(flusher.task.logs)
             /\ frozen # << >> /\ flusher.task = frozen[Len(frozen)]
             /\ Len(frozen) \in DOMAIN frozen
  <2>1. frozen # << >> /\ flusher.task = frozen[Len(frozen)]
    BY <1>6 DEF Structure, Flush
  <2>2. frozen \in Seq([memtable : SUBSET Records, logs : Seq(Nat)])
    BY DEF Structure, MemoryTypes
  <2>3. Len(frozen) \in DOMAIN frozen
    BY <2>1, <2>2, SMT
  <2>4. LogList(flusher.task.logs) /\ AllBefore(flusher.task.logs, active_logs)
    BY <2>1, <2>3 DEF Structure, Owners
  <2> QED
    BY <1>5, <2>1, <2>3, <2>4
<1>7. ASSUME flusher.at = "unlink"
      PROVE  LogList(flusher.logs) /\ CurrentLog \notin Range(flusher.logs)
  <2>1. LogList(flusher.logs) /\ AllBefore(flusher.logs, active_logs)
    BY <1>7 DEF Structure, Owners
  <2> QED
    BY <1>5, <2>1
<1> QED
  BY <1>2, <1>3, <1>4, <1>6, <1>7

\* A flush and a compaction are under way only while the store is open.
LEMMA AtWork ==
  ASSUME Structure
  PROVE  /\ flusher.at # "idle" => phase = "up"
         /\ compactor.at # "idle" => phase = "up"
         /\ durable # None => phase = "up"
BY DEF Structure, Quiet

\* A manifest and the snapshot are told apart from their absence.
LEMMA LoadedType ==
  ASSUME Structure
  PROVE  /\ Loaded \in Snapshot /\ Loaded.last_seq \in 0 .. MaxSeq
         /\ snapshot.last_seq \in 0 .. MaxSeq /\ MaxSeq \in Nat
         /\ Loaded.files \subseteq File /\ snapshot.files \subseteq File
<1>1. MaxSeq \in Nat
  BY ConfigAssumption
<1>2. Loaded \in Snapshot /\ snapshot \in Snapshot
  BY <1>1, SMT DEF Structure, DiskTypes, MemoryTypes, Loaded, NoSnapshot, Snapshot
<1> QED
  BY <1>1, <1>2 DEF Snapshot

\* The lists of a store that is up, and their members (State).
LEMMA ListTypes ==
  ASSUME DiskTypes, MemoryTypes
  PROVE  /\ Len(unlinked) \in Nat /\ DOMAIN unlinked = 1 .. Len(unlinked)
         /\ \A i \in DOMAIN unlinked :
              unlinked[i].number \in Nat /\ unlinked[i].records \subseteq Records
         /\ Len(frozen) \in Nat /\ DOMAIN frozen = 1 .. Len(frozen)
         /\ \A i \in DOMAIN frozen :
              /\ frozen[i] \in [memtable : SUBSET Records, logs : Seq(Nat)]
              /\ frozen[i].memtable \subseteq Records /\ frozen[i].logs \in Seq(Nat)
<1>1. PICK U : U = [number : Nat, records : SUBSET Records]
  OBVIOUS
<1>2. PICK F : F = [memtable : SUBSET Records, logs : Seq(Nat)]
  OBVIOUS
<1>3. unlinked \in Seq(U) /\ frozen \in Seq(F)
  BY <1>1, <1>2 DEF DiskTypes, MemoryTypes
<1>4. /\ Len(unlinked) \in Nat /\ DOMAIN unlinked = 1 .. Len(unlinked)
      /\ Len(frozen) \in Nat /\ DOMAIN frozen = 1 .. Len(frozen)
      /\ \A i \in DOMAIN unlinked : unlinked[i] \in U
      /\ \A i \in DOMAIN frozen : frozen[i] \in F
  BY <1>3, SMT
<1>5. /\ \A x \in U : x.number \in Nat /\ x.records \subseteq Records
      /\ \A x \in F : x.memtable \subseteq Records /\ x.logs \in Seq(Nat)
  BY <1>1, <1>2
<1> QED
  BY <1>2, <1>4, <1>5

\* All records there are have the type of a record.
LEMMA EverywhereType ==
  ASSUME Structure
  PROVE  Everywhere \subseteq Records
<1>1. DiskTypes /\ MemoryTypes
  BY DEF Structure
<1>2. LogRecords(DOMAIN logs) \subseteq Records
  <2>1. \A n \in DOMAIN logs : logs[n] \subseteq Records
    BY <1>1 DEF DiskTypes
  <2> QED
    BY <2>1 DEF LogRecords
<1>3. TableRecords \subseteq Records
  <2>1. \A n \in DOMAIN tables : tables[n] \subseteq Records
    BY <1>1 DEF DiskTypes
  <2> QED
    BY <2>1 DEF TableRecords
<1>4. UnlinkedRecords \subseteq Records
  <2>2. \A i \in DOMAIN unlinked : unlinked[i].records \subseteq Records
    BY <1>1, ListTypes
  <2>3. ASSUME NEW r \in UnlinkedRecords
        PROVE  r \in Records
    <3>1. PICK i \in DOMAIN unlinked : r \in unlinked[i].records
      BY <2>3 DEF UnlinkedRecords
    <3> QED
      BY <2>2, <3>1
  <2> QED
    BY <2>3
<1>5. active \subseteq Records /\ FrozenRecords \subseteq Records
  <2>2. \A i \in DOMAIN frozen : frozen[i].memtable \subseteq Records
    BY <1>1, ListTypes
  <2>3. ASSUME NEW r \in FrozenRecords
        PROVE  r \in Records
    <3>1. PICK i \in DOMAIN frozen : r \in frozen[i].memtable
      BY <2>3 DEF FrozenRecords
    <3> QED
      BY <2>2, <3>1
  <2> QED
    BY <1>1, <2>3 DEF MemoryTypes
<1>6. Pending \subseteq Records
  BY <1>1 DEF MemoryTypes, Pending
<1> QED
  BY <1>2, <1>3, <1>4, <1>5, <1>6 DEF Everywhere

\* A step that adds no record, or one with the next number.
LEMMA NumberedKept ==
  ASSUME Structure, Everywhere' \subseteq Everywhere,
         phase' = "up" => phase = "up" /\ last_seq' = last_seq
  PROVE  Numbered'
<1>1. OneSeq(Everywhere')
  BY DEF Structure, Numbered, OneSeq
<1>2. phase' = "up" => UpTo(Everywhere', last_seq')
  BY DEF Structure, Numbered, UpTo
<1> QED
  BY <1>1, <1>2 DEF Numbered

\* Appending to the current log, and new logs.
LEMMA SeqsFrame ==
  ASSUME Structure, phase = "up",
         UNCHANGED <<phase, tables, unlinked, manifest, snapshot, flusher, compactor>>,
         last_seq \in Nat, last_seq' \in Nat, last_seq <= last_seq',
         \A n \in DOMAIN logs : n # CurrentLog => logs'[n] = logs[n]
  PROVE  Seqs'
<1>1. Loaded' = Loaded
  BY DEF Loaded
<1>2. ASSUME NEW s
      PROVE  Dated(s) => Dated(s)'
  BY DEF Dated, UpTo, Content, UnlinkedRecords
<1>3. Dated(Loaded)' /\ Dated(snapshot)'
  <2>1. PICK s : s = Loaded
    OBVIOUS
  <2>2. PICK t : t = snapshot
    OBVIOUS
  <2>3. Dated(s)' /\ Dated(t)'
    BY <1>2, <2>1, <2>2 DEF Structure, Seqs, Ages, FlushAges
  <2> QED
    BY <1>1, <2>1, <2>2, <2>3 DEF Dated, Content
<1>4. ASSUME NEW s, LogList(s), CurrentLog \notin Range(s)
      PROVE  LogRecords(Range(s))' = LogRecords(Range(s))
  <2>1. \A n \in Range(s) : logs'[n] = logs[n]
    BY <1>4 DEF LogList
  <2> QED
    BY <2>1 DEF LogRecords, Range
<1>5. ASSUME flusher.at \in {"commit", "publish"}
      PROVE  LogRecords(Range(flusher.task.logs))' = LogRecords(Range(flusher.task.logs))
  <2>1. PICK s : s = flusher.task.logs
    OBVIOUS
  <2>2. LogRecords(Range(s))' = LogRecords(Range(s))
    BY <1>4, <1>5, <2>1, CurrentLogApart
  <2> QED
    BY <2>1, <2>2
<1>6. ASSUME flusher.at = "unlink"
      PROVE  LogRecords(Range(flusher.logs))' = LogRecords(Range(flusher.logs))
  <2>1. PICK s : s = flusher.logs
    OBVIOUS
  <2>2. LogRecords(Range(s))' = LogRecords(Range(s))
    BY <1>4, <1>6, <2>1, CurrentLogApart
  <2> QED
    BY <2>1, <2>2
<1>7. /\ snapshot.last_seq <= Loaded.last_seq /\ Loaded.last_seq <= last_seq
      /\ Loaded.last_seq \in Nat
      /\ flusher.at = "commit" => flusher.seq \in Nat /\ flusher.seq <= last_seq
      /\ compactor.at = "commit" => compactor.seq \in Nat /\ compactor.seq <= last_seq
  <2>1. /\ flusher.at = "commit" => flusher.seq \in Nat
        /\ compactor.at = "commit" => compactor.seq \in Nat
    BY LoadedType, SMT DEF Structure, MemoryTypes
  <2> QED
    BY <2>1, LoadedType, SMT DEF Structure, Seqs, Ages, FlushAges
<1>8. /\ (snapshot.last_seq <= Loaded.last_seq /\ Loaded.last_seq <= last_seq)'
      /\ (flusher.at = "commit" => flusher.seq <= last_seq)'
      /\ (compactor.at = "commit" => compactor.seq <= last_seq)'
  BY <1>1, <1>7, SMT
<1>9. /\ flusher.at = "commit" =>
           /\ UpTo(flusher.task.memtable, flusher.seq)
           /\ UpTo(LogRecords(Range(flusher.task.logs)), flusher.seq)
      /\ flusher.at = "publish" =>
           UpTo(LogRecords(Range(flusher.task.logs)), Loaded.last_seq)
      /\ flusher.at = "unlink" =>
           UpTo(LogRecords(Range(flusher.logs)), snapshot.last_seq)
  BY DEF Structure, Seqs, Ages, FlushAges
<1>10. (/\ flusher.at = "commit" =>
             /\ UpTo(flusher.task.memtable, flusher.seq)
             /\ UpTo(LogRecords(Range(flusher.task.logs)), flusher.seq)
        /\ flusher.at = "publish" =>
             UpTo(LogRecords(Range(flusher.task.logs)), Loaded.last_seq)
        /\ flusher.at = "unlink" =>
             UpTo(LogRecords(Range(flusher.logs)), snapshot.last_seq))'
  BY <1>1, <1>5, <1>6, <1>9
<1> QED
  BY <1>3, <1>8, <1>10 DEF Seqs, Ages, FlushAges

----------------------------------------------------------------------------
(* Writers *)

\* Structure is kept by appending a write to the log (write).
LEMMA WriteAppendsKeeps ==
  ASSUME Structure, NEW w \in Writers, WriteAppends(w)
  PROVE  Structure'
<1>1. phase = "up" /\ last_seq < MaxSeq
  BY DEF WriteAppends
<1>2. UNCHANGED <<policy, unlinked, phase, tables, partials, manifest, snapshot,
                  durable, next_number, active, active_logs, frozen, l0, below,
                  flusher, compactor, faults, shown, acked, settled>>
  BY DEF WriteAppends, memory
<1>3. last_seq \in Nat /\ MaxSeq \in Nat /\ last_seq \in 0 .. MaxSeq
  BY LoadedType, SMT DEF Structure, MemoryTypes
<1>4. PICK r \in Records :
        /\ r.seq = last_seq + 1 /\ last_seq' = last_seq + 1
        /\ logs' = [logs EXCEPT ![CurrentLog] = @ \cup {r}]
        /\ unsafe' = unsafe \cup {r} /\ ever' = ever \cup {r}
        /\ writer' = [writer EXCEPT ![w] = [at |-> "insert", record |-> r]]
  <2>1. PICK key \in Keys, mutation \in Mutations :
          LET r == [seq |-> last_seq + 1, key |-> key, deleted |-> mutation = "delete"]
          IN  /\ last_seq' = r.seq
              /\ logs' = [logs EXCEPT ![CurrentLog] = @ \cup {r}]
              /\ unsafe' = unsafe \cup {r} /\ ever' = ever \cup {r}
              /\ writer' = [writer EXCEPT ![w] = [at |-> "insert", record |-> r]]
    BY DEF WriteAppends
  <2>2. PICK r : r = [seq |-> last_seq + 1, key |-> key, deleted |-> mutation = "delete"]
    OBVIOUS
  <2>3. PICK d \in BOOLEAN : d = (mutation = "delete")
    OBVIOUS
  <2>4. r = [seq |-> last_seq + 1, key |-> key, deleted |-> d]
    BY <2>2, <2>3
  <2>5. last_seq + 1 \in 1 .. MaxSeq
    BY <1>1, <1>3, SMT
  <2>6. r \in Records /\ r.seq = last_seq + 1
    BY <2>4, <2>5 DEF Records
  <2> QED
    BY <2>1, <2>2, <2>6
<1>5. CurrentLog \in DOMAIN logs
  BY <1>1, CurrentLogApart
<1>6. /\ DOMAIN logs' = DOMAIN logs
      /\ logs'[CurrentLog] = logs[CurrentLog] \cup {r}
      /\ \A n \in DOMAIN logs : n # CurrentLog => logs'[n] = logs[n]
  BY <1>4, <1>5
<1>7. DiskTypes'
  <2>1. DiskTypes
    BY DEF Structure
  <2>2. \A n \in DOMAIN logs : logs'[n] \subseteq Records
    BY <1>5, <1>6, <2>1 DEF DiskTypes
  <2> QED
    BY <1>2, <1>4, <1>6, <2>1, <2>2 DEF DiskTypes
<1>8. MemoryTypes'
  <2>1. MemoryTypes
    BY DEF Structure
  <2>2. DOMAIN writer' = Writers
    BY <1>4, <2>1 DEF MemoryTypes
  <2>3. \A v \in Writers : writer'[v].at = "insert" => writer'[v].record \in Records
    BY <1>4, <2>1 DEF MemoryTypes
  <2>4. last_seq' \in 0 .. MaxSeq
    BY <1>1, <1>3, <1>4, SMT
  <2>5. ever' \subseteq Records
    BY <1>4, <2>1 DEF MemoryTypes
  <2> QED
    BY <1>2, <2>1, <2>2, <2>3, <2>4, <2>5 DEF MemoryTypes
<1>9. Quiet' /\ Fresh' /\ Flush'
  <2>1. Quiet'
    BY <1>1, <1>2 DEF Quiet
  <2>2. Fresh'
    BY <1>2, <1>6 DEF Structure, Fresh, Loaded
  <2>3. Flush'
    BY <1>2 DEF Structure, Flush
  <2> QED
    BY <2>1, <2>2, <2>3
<1>10. Owners'
  BY <1>2, <1>6, MemoryFrame
<1>11. Numbered'
  <2>1. Everywhere' \subseteq Everywhere \cup {r}
    <3>1. LogRecords(DOMAIN logs)' \subseteq LogRecords(DOMAIN logs) \cup {r}
      BY <1>5, <1>6 DEF LogRecords
    <3>2. Pending' \subseteq Pending \cup {r}
      <4>1. \A v \in Writers : v # w => writer'[v] = writer[v]
        BY <1>4 DEF Structure, MemoryTypes
      <4>2. writer'[w].record = r
        BY <1>4 DEF Structure, MemoryTypes
      <4> QED
        BY <4>1, <4>2 DEF Pending
    <3>3. /\ UnlinkedRecords' = UnlinkedRecords /\ FrozenRecords' = FrozenRecords
          /\ TableRecords' = TableRecords
      BY <1>2 DEF UnlinkedRecords, FrozenRecords, TableRecords
    <3> QED
      BY <1>2, <3>1, <3>2, <3>3 DEF Everywhere
  <2>2. Everywhere \subseteq Records
    BY EverywhereType
  <2>3. OneSeq(Everywhere) /\ UpTo(Everywhere, last_seq)
    BY <1>1 DEF Structure, Numbered
  <2> QED
    BY <1>3, <1>4, <2>1, <2>2, <2>3, SMT DEF Numbered, OneSeq, UpTo, Records
<1>12. Seqs'
  BY <1>1, <1>2, <1>3, <1>4, <1>6, SeqsFrame, SMT
<1>13. Levels' /\ Commits' /\ Compaction'
  BY <1>2, FilesFrame DEF Structure
<1> QED
  BY <1>7, <1>8, <1>9, <1>10, <1>11, <1>12, <1>13 DEF Structure

\* A step of a writer that changes no file and no table.
LEMMA CallKeeps ==
  ASSUME Structure, phase = "up",
         UNCHANGED <<policy, phase, logs, unlinked, tables, partials, manifest,
                     snapshot, durable, next_number, last_seq, active,
                     active_logs, frozen, l0, below, flusher, compactor, faults,
                     ever, shown, settled>>,
         unsafe' \subseteq unsafe, acked' \subseteq Records,
         DOMAIN writer' = Writers,
         \A v \in Writers : writer'[v].at = "insert" => writer'[v] = writer[v]
  PROVE  Structure'
<1>1. DiskTypes'
  BY DEF Structure, DiskTypes
<1>2. MemoryTypes'
  <2>1. MemoryTypes
    BY DEF Structure
  <2>2. \A v \in Writers : writer'[v].at = "insert" => writer'[v].record \in Records
    BY <2>1 DEF MemoryTypes
  <2>3. {ever, shown, acked, settled}' \subseteq SUBSET Records
    BY <2>1 DEF MemoryTypes
  <2> QED
    BY <2>1, <2>2, <2>3 DEF MemoryTypes
<1>3. Quiet' /\ Fresh' /\ Flush'
  <2>1. Quiet'
    BY DEF Quiet
  <2>2. Fresh'
    BY DEF Structure, Fresh, Loaded
  <2>3. Flush'
    BY DEF Structure, Flush
  <2> QED
    BY <2>1, <2>2, <2>3
<1>4. Owners'
  BY MemoryFrame
<1>5. Numbered'
  <2>1. Pending' \subseteq Pending
    BY DEF Pending
  <2>2. /\ UnlinkedRecords' = UnlinkedRecords /\ FrozenRecords' = FrozenRecords
        /\ TableRecords' = TableRecords
        /\ LogRecords(DOMAIN logs)' = LogRecords(DOMAIN logs)
    BY DEF UnlinkedRecords, FrozenRecords, TableRecords, LogRecords
  <2>3. Everywhere' \subseteq Everywhere
    BY <2>1, <2>2 DEF Everywhere
  <2> QED
    BY <2>3, NumberedKept
<1>6. Seqs'
  <2>1. last_seq \in Nat
    BY LoadedType, SMT DEF Structure, MemoryTypes
  <2> QED
    BY <2>1, SeqsFrame, SMT
<1>7. Levels' /\ Commits' /\ Compaction'
  BY FilesFrame DEF Structure
<1> QED
  BY <1>1, <1>2, <1>3, <1>4, <1>5, <1>6, <1>7 DEF Structure

\* Structure is kept by a sync under Interval (sync).
LEMMA SyncKeeps ==
  ASSUME Structure, Sync
  PROVE  Structure'
<1>1. MemoryTypes
  BY DEF Structure
<1>2. acked' \subseteq Records
  BY <1>1 DEF Sync, MemoryTypes
<1> QED
  BY <1>1, <1>2, CallKeeps DEF Sync, numbering, memory, MemoryTypes

\* Structure is kept by a call of flush (flush).
LEMMA FlushCallKeeps ==
  ASSUME Structure, NEW w \in Writers, FlushCall(w)
  PROVE  Structure'
<1>1. MemoryTypes
  BY DEF Structure
<1>2. /\ DOMAIN writer' = Writers
      /\ \A v \in Writers : writer'[v].at = "insert" => writer'[v] = writer[v]
  BY <1>1 DEF FlushCall, MemoryTypes
<1> QED
  BY <1>1, <1>2, CallKeeps DEF FlushCall, disk, numbering, memory, history, MemoryTypes

\* Structure is kept by a rotation of an empty memtable (rotate).
LEMMA RotateSkipsKeeps ==
  ASSUME Structure, NEW w \in Writers, RotateSkips(w)
  PROVE  Structure'
<1>1. MemoryTypes
  BY DEF Structure
<1>2. /\ DOMAIN writer' = Writers
      /\ \A v \in Writers : writer'[v].at = "insert" => writer'[v] = writer[v]
  BY <1>1 DEF RotateSkips, MemoryTypes, Idle
<1> QED
  BY <1>1, <1>2, CallKeeps DEF RotateSkips, disk, numbering, memory, history, MemoryTypes

\* Structure is kept by a rotation that a closed channel fails (rotate).
LEMMA RotateDropsKeeps ==
  ASSUME Structure, NEW w \in Writers, RotateDrops(w)
  PROVE  Structure'
<1>1. MemoryTypes
  BY DEF Structure
<1>2. /\ DOMAIN writer' = Writers
      /\ \A v \in Writers : writer'[v].at = "insert" => writer'[v] = writer[v]
  BY <1>1 DEF RotateDrops, MemoryTypes, Idle
<1>3. unsafe' \subseteq unsafe
  BY DEF RotateDrops
<1> QED
  BY <1>1, <1>2, <1>3, CallKeeps DEF RotateDrops, numbering, memory, history, MemoryTypes

\* Structure is kept by inserting a write into the memtable (write).
LEMMA WriteInsertsKeeps ==
  ASSUME Structure, NEW w \in Writers, WriteInserts(w)
  PROVE  Structure'
<1>1. phase = "up" /\ writer[w].at = "insert" /\ DiskTypes /\ MemoryTypes
  BY DEF WriteInserts, Structure
<1>2. UNCHANGED <<policy, unlinked, phase, logs, tables, partials, manifest,
                  snapshot, durable, next_number, last_seq, active_logs, frozen,
                  l0, below, flusher, compactor, faults, ever, settled>>
  BY DEF WriteInserts, numbering
<1>3. PICK r \in Records : r = writer[w].record
  BY <1>1 DEF MemoryTypes
<1>4. /\ active' = MemtableInsert(active, r) /\ shown' = shown \cup {r}
      /\ unsafe' \subseteq unsafe /\ acked' \subseteq acked \cup {r}
  BY <1>3 DEF WriteInserts
<1>5. active' \subseteq active \cup {r} /\ OnePerKey(active')
  BY <1>1, <1>4 DEF MemtableInsert, OnePerKey, MemoryTypes
<1>6. /\ DOMAIN writer' = Writers
      /\ \A v \in Writers : writer'[v].at = "insert" => writer'[v] = writer[v]
  BY <1>1 DEF WriteInserts, MemoryTypes, Idle
<1>7. DiskTypes'
  BY <1>1, <1>2, <1>4 DEF DiskTypes
<1>8. MemoryTypes'
  <2>1. \A v \in Writers : writer'[v].at = "insert" => writer'[v].record \in Records
    BY <1>1, <1>6 DEF MemoryTypes
  <2>2. {ever, shown, acked, settled}' \subseteq SUBSET Records
    BY <1>1, <1>2, <1>3, <1>4, SMT DEF MemoryTypes
  <2>3. active' \subseteq Records
    BY <1>1, <1>3, <1>5 DEF MemoryTypes
  <2> QED
    BY <1>1, <1>2, <1>5, <1>6, <2>1, <2>2, <2>3 DEF MemoryTypes
<1>9. Quiet' /\ Fresh' /\ Flush'
  <2>1. Quiet'
    BY <1>1, <1>2 DEF Quiet
  <2>2. Fresh'
    BY <1>2 DEF Structure, Fresh, Loaded
  <2>3. Flush'
    BY <1>2 DEF Structure, Flush
  <2> QED
    BY <2>1, <2>2, <2>3
<1>10. Owners'
  BY <1>2, MemoryFrame
<1>11. Numbered'
  <2>1. Pending' \subseteq Pending /\ r \in Pending
    BY <1>1, <1>3, <1>6 DEF Pending
  <2>2. /\ UnlinkedRecords' = UnlinkedRecords /\ FrozenRecords' = FrozenRecords
        /\ TableRecords' = TableRecords
        /\ LogRecords(DOMAIN logs)' = LogRecords(DOMAIN logs)
    BY <1>2 DEF UnlinkedRecords, FrozenRecords, TableRecords, LogRecords
  <2>3. Everywhere' \subseteq Everywhere
    BY <1>5, <2>1, <2>2 DEF Everywhere
  <2> QED
    BY <1>2, <2>3, NumberedKept
<1>12. Seqs'
  <2>1. last_seq \in Nat
    BY LoadedType, SMT DEF Structure, MemoryTypes
  <2> QED
    BY <1>1, <1>2, <2>1, SeqsFrame, SMT
<1>13. Levels' /\ Commits' /\ Compaction'
  BY <1>2, FilesFrame DEF Structure
<1> QED
  BY <1>7, <1>8, <1>9, <1>10, <1>11, <1>12, <1>13 DEF Structure

\* A new, empty log.
LEMMA NewLog ==
  ASSUME Structure, phase = "up",
         NEW files, files = With(logs, next_number, {})
  PROVE  /\ next_number \in Nat /\ next_number \notin DOMAIN logs
         /\ DOMAIN files = DOMAIN logs \cup {next_number}
         /\ files[next_number] = {}
         /\ \A n \in DOMAIN logs : files[n] = logs[n] /\ n \in Nat /\ n < next_number
         /\ DOMAIN files \subseteq Nat
<1>1. DiskTypes /\ MemoryTypes /\ Fresh
  BY DEF Structure
<1>2. next_number \in Nat /\ \A n \in DOMAIN logs : n \in Nat /\ n < next_number
  BY <1>1 DEF DiskTypes, MemoryTypes, Fresh
<1>3. next_number \notin DOMAIN logs
  BY <1>2, SMT
<1> QED
  BY <1>2, <1>3 DEF With

\* Structure is kept by a rotation (rotate).
LEMMA RotateKeeps ==
  ASSUME Structure, NEW w \in Writers, Rotate(w)
  PROVE  Structure'
<1>1. phase = "up" /\ DiskTypes /\ MemoryTypes /\ Owners /\ active # {}
  BY DEF Rotate, Rotates, Structure
<1>2. UNCHANGED <<policy, unlinked, phase, unsafe, tables, partials, manifest,
                  snapshot, durable, last_seq, l0, below, flusher, compactor,
                  faults, ever, shown, acked, settled>>
  BY DEF Rotate, history
<1>3. PICK new : new = next_number
  OBVIOUS
<1>4. /\ new \in Nat /\ new \notin DOMAIN logs
      /\ DOMAIN logs' = DOMAIN logs \cup {new} /\ logs'[new] = {}
      /\ \A n \in DOMAIN logs : logs'[n] = logs[n] /\ n \in Nat /\ n < new
      /\ DOMAIN logs' \subseteq Nat
  BY <1>1, <1>3, NewLog DEF Rotate
<1>5. PICK task : task = [memtable |-> active, logs |-> active_logs]
  OBVIOUS
<1>6. /\ task \in [memtable : SUBSET Records, logs : Seq(Nat)]
      /\ task.memtable = active /\ task.logs = active_logs
  BY <1>1, <1>5 DEF MemoryTypes
<1>7. /\ frozen' \in Seq([memtable : SUBSET Records, logs : Seq(Nat)])
      /\ DOMAIN frozen' = 1 .. Len(frozen) + 1 /\ Len(frozen') = Len(frozen) + 1
      /\ frozen'[1] = task
      /\ \A i \in 1 .. Len(frozen) : frozen'[i + 1] = frozen[i]
      /\ \A i \in 2 .. Len(frozen) + 1 : i - 1 \in DOMAIN frozen /\ frozen'[i] = frozen[i - 1]
  <2>1. PICK F : F = [memtable : SUBSET Records, logs : Seq(Nat)]
    OBVIOUS
  <2>2. frozen \in Seq(F) /\ task \in F
    BY <1>1, <1>6, <2>1 DEF MemoryTypes
  <2>3. frozen' = <<task>> \o frozen
    BY <1>5 DEF Rotate
  <2> QED
    BY <2>1, <2>2, <2>3, Cons, SMT
<1>8. active' = {} /\ active_logs' = <<new>> /\ next_number' = new + 1
  BY <1>3 DEF Rotate
<1>9. /\ DOMAIN writer' = Writers
      /\ \A v \in Writers : writer'[v].at = "insert" => writer'[v] = writer[v]
  BY <1>1 DEF Rotate, MemoryTypes
<1>10. DOMAIN frozen = 1 .. Len(frozen) /\ Len(frozen) \in Nat
  BY <1>1, ListTypes
<1>11. DiskTypes'
  <2>1. \A n \in DOMAIN logs' : logs'[n] \subseteq Records
    BY <1>1, <1>4 DEF DiskTypes
  <2> QED
    BY <1>1, <1>2, <1>4, <2>1 DEF DiskTypes
<1>12. MemoryTypes'
  <2>1. \A v \in Writers : writer'[v].at = "insert" => writer'[v].record \in Records
    BY <1>1, <1>9 DEF MemoryTypes
  <2>2. \A i \in DOMAIN frozen' :
          frozen'[i].memtable # {} /\ OnePerKey(frozen'[i].memtable)
    <3>1. ASSUME NEW i \in DOMAIN frozen'
          PROVE  i = 1 \/ i \in 2 .. Len(frozen) + 1
      BY <1>7, <1>10, SMT
    <3> QED
      BY <1>1, <1>6, <1>7, <3>1, SMT DEF MemoryTypes
  <2>3. active' \subseteq Records /\ OnePerKey(active') /\ active_logs' \in Seq(Nat)
    BY <1>4, <1>8, SMT DEF OnePerKey
  <2>4. next_number' \in Nat
    BY <1>4, <1>8, SMT
  <2> QED
    BY <1>1, <1>2, <1>7, <1>9, <2>1, <2>2, <2>3, <2>4 DEF MemoryTypes
<1>13. Quiet' /\ Fresh' /\ Flush'
  <2>1. Quiet'
    BY <1>1, <1>2 DEF Quiet
  <2>2. Fresh'
    BY <1>1, <1>2, <1>3, <1>4, <1>8, SMT DEF Structure, Fresh, Loaded, DiskTypes
  <2>3. frozen # << >> => frozen' # << >> /\ frozen'[Len(frozen')] = frozen[Len(frozen)]
    <3>1. PICK F : frozen \in Seq(F)
      BY <1>1 DEF MemoryTypes
    <3>2. frozen # << >> => Len(frozen) \in 1 .. Len(frozen)
      BY <3>1, SMT
    <3>3. frozen' # << >>
      BY <1>7, <1>10, SMT
    <3> QED
      BY <1>7, <3>2, <3>3
  <2>4. Flush'
    BY <1>2, <1>3, <1>4, <1>8, <2>3, SMT DEF Structure, Flush
  <2> QED
    BY <2>1, <2>2, <2>4
<1>14. Owners'
  <2>1. \A s : LogList(s) => LogList(s)' /\ AllBefore(s, <<new>>)
    <3>1. \A s : LogList(s) => LogList(s)'
      BY <1>4 DEF LogList
    <3>2. Range(<<new>>) = {new}
      BY SMT DEF Range
    <3> QED
      BY <1>4, <3>1, <3>2 DEF LogList, AllBefore
  <2>2. LogList(active_logs)'
    <3>1. <<new>> \in Seq(Nat) /\ <<new>> # << >> /\ DOMAIN <<new>> = {1}
      BY <1>4, SMT
    <3>2. Range(<<new>>) \subseteq DOMAIN logs'
      BY <1>4, SMT DEF Range
    <3> QED
      BY <1>8, <3>1, <3>2, SMT DEF LogList
  <2>3. \A i \in DOMAIN frozen' : i = 1 \/ (i \in 2 .. Len(frozen) + 1 /\ i - 1 \in Nat)
    BY <1>7, <1>10, SMT
  <2>4. PICK fs : fs = frozen'
    OBVIOUS
  <2>5. \A i \in DOMAIN fs : LogList(fs[i].logs)' /\ AllBefore(fs[i].logs, active_logs')
    <3>1. \A i \in DOMAIN fs : LogList(fs[i].logs)
      BY <1>1, <1>6, <1>7, <2>3, <2>4 DEF Owners
    <3> QED
      BY <1>8, <2>1, <3>1
  <2>6. ASSUME NEW i \in DOMAIN frozen', NEW j \in DOMAIN frozen', i < j
        PROVE  AllBefore(frozen'[j].logs, frozen'[i].logs)
    <3>1. j \in 2 .. Len(frozen) + 1 /\ frozen'[j] = frozen[j - 1] /\ j - 1 \in DOMAIN frozen
      BY <1>7, <1>10, <2>3, <2>6, SMT
    <3>2. CASE i = 1
      BY <1>1, <1>6, <1>7, <3>1, <3>2 DEF Owners
    <3>3. CASE i # 1
      <4>1. frozen'[i] = frozen[i - 1] /\ i - 1 \in DOMAIN frozen
        BY <1>7, <2>3, <3>3
      <4>2. i - 1 < j - 1
        BY <1>10, <2>6, <3>1, <2>3, <3>3, SMT
      <4> QED
        BY <1>1, <3>1, <4>1, <4>2 DEF Owners
    <3> QED
      BY <3>2, <3>3
  <2>7. ASSUME flusher.at = "unlink"
        PROVE  (/\ LogList(flusher.logs) /\ AllBefore(flusher.logs, active_logs)
                /\ \A i \in DOMAIN frozen : AllBefore(flusher.logs, frozen[i].logs))'
    <3>1. LogList(flusher.logs) /\ AllBefore(flusher.logs, active_logs)
      BY <1>1, <2>7 DEF Owners
    <3>2. PICK s : s = flusher.logs
      OBVIOUS
    <3>3. LogList(s)' /\ AllBefore(s, active_logs')
      BY <1>8, <2>1, <3>1, <3>2
    <3>4. \A i \in DOMAIN frozen' : AllBefore(flusher.logs, frozen'[i].logs)
      BY <1>1, <1>6, <1>7, <2>3, <2>7 DEF Owners
    <3> QED
      BY <1>2, <3>2, <3>3, <3>4
  <2>8. (\A i \in DOMAIN frozen :
           LogList(frozen[i].logs) /\ AllBefore(frozen[i].logs, active_logs))'
    BY <2>4, <2>5
  <2> QED
    BY <1>2, <2>2, <2>6, <2>7, <2>8 DEF Owners
<1>15. Numbered'
  <2>1. Pending' \subseteq Pending
    BY <1>9 DEF Pending
  <2>2. UnlinkedRecords' = UnlinkedRecords /\ TableRecords' = TableRecords
    BY <1>2 DEF UnlinkedRecords, TableRecords
  <2>3. LogRecords(DOMAIN logs)' \subseteq LogRecords(DOMAIN logs)
    BY <1>4 DEF LogRecords
  <2>4. ASSUME NEW r \in FrozenRecords'
        PROVE  r \in FrozenRecords \cup active
    <3>1. PICK i \in DOMAIN frozen' : r \in frozen'[i].memtable
      BY <2>4 DEF FrozenRecords
    <3>2. i = 1 \/ i \in 2 .. Len(frozen) + 1
      BY <1>7, <1>10, SMT
    <3> QED
      BY <1>6, <1>7, <3>1, <3>2, SMT DEF FrozenRecords
  <2>5. Everywhere' \subseteq Everywhere
    BY <1>8, <2>1, <2>2, <2>3, <2>4 DEF Everywhere
  <2> QED
    BY <1>2, <2>5, NumberedKept
<1>16. Seqs'
  <2>1. last_seq \in Nat
    BY LoadedType, SMT DEF Structure, MemoryTypes
  <2> QED
    BY <1>1, <1>2, <1>4, <2>1, SeqsFrame, SMT
<1>17. Levels' /\ Commits' /\ Compaction'
  BY <1>2, FilesFrame DEF Structure
<1> QED
  BY <1>11, <1>12, <1>13, <1>14, <1>15, <1>16, <1>17 DEF Structure

\* Structure is kept by a rotation that cannot create its log (rotate).
LEMMA RotateFailsKeeps ==
  ASSUME Structure, NEW w \in Writers, RotateFails(w)
  PROVE  Structure'
<1>1. phase = "up" /\ DiskTypes /\ MemoryTypes
  BY DEF RotateFails, Structure
<1>2. UNCHANGED <<policy, unlinked, phase, unsafe, tables, partials, manifest,
                  snapshot, durable, last_seq, active, active_logs, frozen, l0,
                  below, flusher, compactor, ever, shown, acked, settled>>
  BY DEF RotateFails, memory, history
<1>3. PICK new : new = next_number
  OBVIOUS
<1>4. /\ new \in Nat /\ DOMAIN logs \subseteq DOMAIN logs'
      /\ DOMAIN logs' \subseteq DOMAIN logs \cup {new}
      /\ \A n \in DOMAIN logs : logs'[n] = logs[n] /\ n \in Nat /\ n < new
      /\ \A n \in DOMAIN logs' : n \in DOMAIN logs \/ logs'[n] = {}
      /\ DOMAIN logs' \subseteq Nat
  <2>1. CASE logs' = logs
    BY <1>1, <1>3, <2>1 DEF Structure, DiskTypes, MemoryTypes, Fresh
  <2>2. CASE logs' = With(logs, next_number, {})
    BY <1>1, <1>3, <2>2, NewLog
  <2> QED
    BY <2>1, <2>2 DEF RotateFails
<1>5. /\ DOMAIN writer' = Writers
      /\ \A v \in Writers : writer'[v].at = "insert" => writer'[v] = writer[v]
  BY <1>1 DEF RotateFails, MemoryTypes, Idle
<1>6. next_number' = new + 1 /\ next_number' \in Nat
  BY <1>3, <1>4, SMT DEF RotateFails
<1>7. DiskTypes'
  <2>1. \A n \in DOMAIN logs' : logs'[n] \subseteq Records
    BY <1>1, <1>4 DEF DiskTypes
  <2> QED
    BY <1>1, <1>2, <1>4, <2>1 DEF DiskTypes
<1>8. MemoryTypes'
  <2>1. \A v \in Writers : writer'[v].at = "insert" => writer'[v].record \in Records
    BY <1>1, <1>5 DEF MemoryTypes
  <2>2. faults' \in [restart : Nat, task : Nat, unlink : Nat, split : BOOLEAN]
    <3>1. faults' = [faults EXCEPT !.task = @ + 1]
      BY DEF RotateFails
    <3>2. faults \in [restart : Nat, task : Nat, unlink : Nat, split : BOOLEAN]
      BY <1>1 DEF MemoryTypes
    <3> QED
      BY <3>1, <3>2, MoreFaults
  <2> QED
    BY <1>1, <1>2, <1>5, <1>6, <2>1, <2>2 DEF MemoryTypes
<1>9. Quiet' /\ Fresh' /\ Flush'
  <2>1. Quiet'
    BY <1>1, <1>2 DEF Quiet
  <2>2. Fresh'
    BY <1>1, <1>2, <1>3, <1>4, <1>6, SMT DEF Structure, Fresh, Loaded, DiskTypes
  <2>3. Flush'
    BY <1>2, <1>3, <1>4, <1>6, SMT DEF Structure, Flush
  <2> QED
    BY <2>1, <2>2, <2>3
<1>10. Owners'
  BY <1>2, <1>4, MemoryFrame
<1>11. Numbered'
  <2>1. Pending' \subseteq Pending
    BY <1>5 DEF Pending
  <2>2. /\ UnlinkedRecords' = UnlinkedRecords /\ TableRecords' = TableRecords
        /\ FrozenRecords' = FrozenRecords
    BY <1>2 DEF UnlinkedRecords, TableRecords, FrozenRecords
  <2>3. LogRecords(DOMAIN logs)' \subseteq LogRecords(DOMAIN logs)
    BY <1>4 DEF LogRecords
  <2>4. Everywhere' \subseteq Everywhere
    BY <1>2, <2>1, <2>2, <2>3 DEF Everywhere
  <2> QED
    BY <1>2, <2>4, NumberedKept
<1>12. Seqs'
  <2>1. last_seq \in Nat
    BY LoadedType, SMT DEF Structure, MemoryTypes
  <2> QED
    BY <1>1, <1>2, <1>4, <2>1, SeqsFrame, SMT
<1>13. Levels' /\ Commits' /\ Compaction'
  BY <1>2, FilesFrame DEF Structure
<1> QED
  BY <1>7, <1>8, <1>9, <1>10, <1>11, <1>12, <1>13 DEF Structure

----------------------------------------------------------------------------
(* Tables that come and go *)

\* A file a set of files does not name may come or go.
LEMMA TablesAgree ==
  ASSUME NEW files, Numbers(files) \subseteq DOMAIN tables',
         \A n \in Numbers(files) : tables'[n] = tables[n]
  PROVE  /\ Layout(files) => Layout(files)'
         /\ Content(files)' = Content(files)
         /\ \A f \in files : tables'[f.number] = tables[f.number]
<1>1. \A f \in files : tables'[f.number] = tables[f.number]
  BY DEF Numbers
<1>2. Content(files)' = Content(files)
  BY <1>1 DEF Content
<1>3. Layout(files) => Layout(files)'
  BY <1>1 DEF Layout
<1> QED
  BY <1>1, <1>2, <1>3

\* Levels stay as they are when no table that they name changes (State).
LEMMA LevelsKept ==
  ASSUME Structure, UNCHANGED <<phase, manifest, snapshot, l0, below>>,
         Numbers(Loaded.files) \subseteq DOMAIN tables',
         \A n \in Numbers(Loaded.files) : tables'[n] = tables[n],
         phase = "up" => /\ Numbers(snapshot.files) \subseteq DOMAIN tables'
                         /\ \A n \in Numbers(snapshot.files) : tables'[n] = tables[n]
  PROVE  Levels'
<1>1. Levels
  BY DEF Structure
<1>2. PICK S : S = Loaded.files
  OBVIOUS
<1>3. PICK T : T = snapshot.files
  OBVIOUS
<1>4. Loaded' = Loaded
  BY DEF Loaded
<1>5. Layout(S)'
  BY <1>1, <1>2, TablesAgree DEF Levels
<1>6. phase = "up" => Layout(T)'
  BY <1>1, <1>3, TablesAgree DEF Levels
<1>7. Layout(Loaded.files)' /\ (phase = "up" => Layout(snapshot.files)')
  BY <1>2, <1>3, <1>4, <1>5, <1>6
<1> QED
  BY <1>1, <1>7 DEF Levels

\* The files named have numbers that are taken.
LEMMA NamedFiles ==
  ASSUME Structure
  PROVE  /\ Numbers(Loaded.files) \subseteq DOMAIN tables
         /\ phase = "up" =>
              /\ Numbers(snapshot.files) \subseteq DOMAIN tables
              /\ Range(l0) \subseteq Numbers(snapshot.files)
              /\ next_number \notin DOMAIN tables
              /\ \A n \in DOMAIN tables : n \in Nat /\ n < next_number
<1>1. Numbers(Loaded.files) \subseteq DOMAIN tables
  BY DEF Structure, Levels, Layout
<1>2. ASSUME phase = "up"
      PROVE  /\ Numbers(snapshot.files) \subseteq DOMAIN tables
             /\ Range(l0) \subseteq Numbers(snapshot.files)
  BY <1>2 DEF Structure, Levels, Layout, Numbers, AtLevel
<1>3. ASSUME phase = "up"
      PROVE  \A n \in DOMAIN tables : n \in Nat /\ n < next_number
  BY <1>3 DEF Structure, DiskTypes, Fresh
<1>4. next_number \in Nat
  BY DEF Structure, MemoryTypes
<1> QED
  BY <1>1, <1>2, <1>3, <1>4, SMT

\* The dates of the snapshots, when logs that are covered are unlinked.
LEMMA AgesKept ==
  ASSUME Structure, UNCHANGED <<phase, manifest, snapshot, last_seq>>,
         \A r \in UnlinkedRecords' :
           r \in UnlinkedRecords \/ (phase = "up" /\ r \in Records /\ r.seq <= snapshot.last_seq),
         \A n \in Numbers(Loaded.files) : n \in DOMAIN tables' /\ tables'[n] = tables[n],
         phase = "up" =>
           \A n \in Numbers(snapshot.files) : n \in DOMAIN tables' /\ tables'[n] = tables[n],
         compactor'.at = "commit" => compactor'.seq <= last_seq
  PROVE  Ages'
<1>1. Ages /\ Loaded' = Loaded
  BY DEF Structure, Seqs, Loaded
<1>2. PICK S : S = Loaded
  OBVIOUS
<1>3. PICK T : T = snapshot
  OBVIOUS
<1>4. Content(S.files)' = Content(S.files)
  BY <1>2, TablesAgree
<1>5. phase = "up" => Content(T.files)' = Content(T.files)
  BY <1>3, TablesAgree
<1>6. /\ S.last_seq \in Nat /\ T.last_seq \in Nat
      /\ Records \subseteq [seq : Nat, key : Keys, deleted : BOOLEAN]
  BY <1>2, <1>3, LoadedType, SMT DEF Records
<1>7. \A r \in UnlinkedRecords' : r.seq <= S.last_seq
  <2>1. SUFFICES ASSUME NEW r \in UnlinkedRecords'
                 PROVE  r.seq <= S.last_seq
    OBVIOUS
  <2>2. CASE r \in UnlinkedRecords
    BY <1>1, <1>2, <2>2 DEF Ages, Dated, UpTo
  <2>3. CASE phase = "up" /\ r \in Records /\ r.seq <= snapshot.last_seq
    <3>1. r.seq \in Nat
      BY <2>3, LoadedType, SMT DEF Records
    <3> QED
      BY <1>1, <1>2, <1>3, <1>6, <2>3, <3>1, SMT DEF Ages
  <2> QED
    BY <2>1, <2>2, <2>3
<1>8. phase = "up" => \A r \in UnlinkedRecords' : r.seq <= T.last_seq
  BY <1>1, <1>3 DEF Ages, Dated, UpTo
<1>9. Dated(S)' /\ (phase = "up" => Dated(T)')
  BY <1>1, <1>2, <1>3, <1>4, <1>5, <1>7, <1>8 DEF Ages, Dated, UpTo
<1>10. Dated(Loaded)' /\ (phase = "up" => Dated(snapshot)')
  BY <1>1, <1>2, <1>3, <1>9
<1> QED
  BY <1>1, <1>10 DEF Ages

\* A new table file.
LEMMA NewTable ==
  ASSUME DiskTypes, NEW n \in Nat, NEW R, n \notin DOMAIN tables,
         R \subseteq Records, R # {}, OnePerKey(R),
         tables' = With(tables, n, R)
  PROVE  /\ DOMAIN tables' = DOMAIN tables \cup {n} /\ tables'[n] = R
         /\ \A m \in DOMAIN tables : tables'[m] = tables[m]
         /\ DOMAIN tables' \subseteq Nat
         /\ \A m \in DOMAIN tables' :
              tables'[m] \subseteq Records /\ tables'[m] # {} /\ OnePerKey(tables'[m])
         /\ TableRecords' = TableRecords \cup R
<1>1. /\ DOMAIN tables' = DOMAIN tables \cup {n} /\ tables'[n] = R
      /\ \A m \in DOMAIN tables : tables'[m] = tables[m]
  BY DEF With
<1>2. TableRecords' = TableRecords \cup R
  BY <1>1, SMT DEF TableRecords
<1> QED
  BY <1>1, <1>2 DEF DiskTypes

----------------------------------------------------------------------------
(* commit *)

\* commit writes a snapshot with some files more and some fewer.
LEMMA CommittedIs ==
  ASSUME Structure, phase = "up", NEW added, NEW removed, NEW seq,
         added \subseteq File, seq \in 0 .. MaxSeq, seq <= last_seq
  PROVE  LET s == Committed(added, removed, seq)
         IN  /\ s \in Snapshot /\ s # None
             /\ s.files = {f \in snapshot.files : f.number \notin removed} \cup added
             /\ s.last_seq \in Nat /\ s.last_seq \in 0 .. MaxSeq
             /\ snapshot.last_seq <= s.last_seq /\ seq <= s.last_seq
             /\ s.last_seq <= last_seq
<1>1. PICK s : s = Committed(added, removed, seq)
  OBVIOUS
<1>2. PICK top : top = Highest({snapshot.last_seq, seq})
  OBVIOUS
<1>3. /\ s.files = {f \in snapshot.files : f.number \notin removed} \cup added
      /\ s.last_seq = top
      /\ s = [files |-> {f \in snapshot.files : f.number \notin removed} \cup added,
              last_seq |-> top, next_number |-> next_number]
  BY <1>1, <1>2 DEF Committed
<1>4. /\ snapshot.last_seq \in 0 .. MaxSeq /\ MaxSeq \in Nat /\ snapshot.files \subseteq File
      /\ snapshot.last_seq \in Nat /\ seq \in Nat
  BY LoadedType, SMT
<1>5. next_number \in Nat /\ last_seq \in Nat
  BY <1>4, SMT DEF Structure, MemoryTypes
<1>6. snapshot.last_seq <= last_seq
  BY <1>4, <1>5, LoadedType, SMT DEF Structure, Seqs, Ages
<1>7. top \in {snapshot.last_seq, seq} /\ snapshot.last_seq <= top /\ seq <= top
  BY <1>2, <1>4, HighestOfTwo
<1>8. top \in 0 .. MaxSeq /\ top <= last_seq /\ top \in Nat
  BY <1>4, <1>6, <1>7
<1>9. s \in Snapshot
  <2>1. s.files \subseteq File
    BY <1>3, <1>4
  <2> QED
    BY <1>3, <1>5, <1>8, <2>1, SMT DEF Snapshot
<1>10. s # None
  BY <1>9, NoneAssumption
<1> QED
  BY <1>1, <1>3, <1>7, <1>8, <1>9, <1>10

\* What a commit leaves in place on disk.  The files it adds have the right
\* dates, and go with those that stay.
LEMMA StoreKeeps ==
  ASSUME Structure, phase = "up", NEW added, NEW removed, NEW seq,
         added \subseteq File, seq \in 0 .. MaxSeq, seq <= last_seq,
         manifest' = Committed(added, removed, seq),
         Layout(Committed(added, removed, seq).files),
         \A r \in Content(added) : r.seq <= Committed(added, removed, seq).last_seq,
         unlinked' \in {unlinked, << >>},
         UNCHANGED <<phase, logs, unsafe, tables, partials, snapshot, next_number,
                     last_seq, active, frozen, l0, below, writer>>,
         compactor'.at # "commit" \/ UNCHANGED compactor
  PROVE  /\ DiskTypes' /\ Fresh' /\ Levels' /\ Numbered' /\ Ages'
         /\ Loaded' = Committed(added, removed, seq) /\ manifest' # None
<1>1. PICK s : s = Committed(added, removed, seq)
  OBVIOUS
<1>2. /\ s \in Snapshot /\ s # None
      /\ s.files = {f \in snapshot.files : f.number \notin removed} \cup added
      /\ s.last_seq \in Nat
      /\ snapshot.last_seq <= s.last_seq /\ seq <= s.last_seq
      /\ s.last_seq <= last_seq
  BY <1>1, CommittedIs
<1>3. Loaded' = s /\ manifest' = s
  BY <1>1, <1>2 DEF Loaded
<1>4. DiskTypes /\ MemoryTypes
  BY DEF Structure
<1>5. /\ unlinked' \in Seq([number : Nat, records : SUBSET Records])
      /\ UnlinkedRecords' \subseteq UnlinkedRecords
  <2>1. CASE unlinked' = unlinked
    BY <1>4, <2>1 DEF DiskTypes, UnlinkedRecords
  <2>2. CASE unlinked' = << >>
    BY <2>2, SMT DEF UnlinkedRecords
  <2> QED
    BY <2>1, <2>2
<1>6. DiskTypes'
  BY <1>2, <1>3, <1>4, <1>5 DEF DiskTypes
<1>7. Fresh'
  BY <1>2, <1>3 DEF Structure, Fresh
<1>8. Levels'
  <2>1. Levels /\ Layout(s.files)
    BY <1>1 DEF Structure
  <2>2. Layout(s.files)'
    BY <2>1 DEF Layout
  <2>3. PICK T : T = snapshot.files
    OBVIOUS
  <2>4. Layout(T)'
    BY <2>1, <2>3 DEF Levels, Layout
  <2> QED
    BY <1>3, <2>1, <2>2, <2>3, <2>4 DEF Levels
<1>9. Numbered'
  <2>1. /\ LogRecords(DOMAIN logs)' = LogRecords(DOMAIN logs)
        /\ FrozenRecords' = FrozenRecords /\ Pending' = Pending
        /\ TableRecords' = TableRecords
    BY DEF LogRecords, FrozenRecords, Pending, TableRecords
  <2>2. Everywhere' \subseteq Everywhere
    BY <1>5, <2>1 DEF Everywhere
  <2> QED
    BY <2>2, NumberedKept
<1>10. Ages'
  <2>1. Ages
    BY DEF Structure, Seqs
  <2>2. snapshot.last_seq \in Nat /\ last_seq \in Nat
    BY <1>4, LoadedType, SMT DEF MemoryTypes
  <2>3. Content(snapshot.files) \subseteq Records /\ UnlinkedRecords \subseteq Records
    <3>1. Content(snapshot.files) \subseteq TableRecords
      BY NamedFiles DEF Content, TableRecords, Numbers
    <3> QED
      BY <3>1, EverywhereType DEF Everywhere
  <2>4. \A r \in Content(snapshot.files) \cup UnlinkedRecords :
          r.seq \in Nat /\ r.seq <= snapshot.last_seq
    BY <2>1, <2>3, LoadedType, SMT DEF Ages, Dated, UpTo, Records
  <2>5. Content(s.files) \subseteq Content(snapshot.files) \cup Content(added)
    BY <1>2 DEF Content
  <2>6. \A r \in Content(s.files) \cup UnlinkedRecords : r.seq <= s.last_seq
    BY <1>1, <1>2, <2>2, <2>4, <2>5, SMT
  <2>7. PICK t : t = snapshot
    OBVIOUS
  <2>8. Content(s.files)' = Content(s.files) /\ Content(t.files)' = Content(t.files)
    BY DEF Content
  <2>9. Dated(s)' /\ Dated(t)'
    BY <1>5, <2>4, <2>6, <2>7, <2>8 DEF Dated, UpTo
  <2>10. Dated(Loaded)' /\ Dated(snapshot)'
    BY <1>3, <2>7, <2>9
  <2> QED
    BY <1>2, <1>3, <2>1, <2>10 DEF Ages
<1> QED
  BY <1>1, <1>2, <1>3, <1>6, <1>7, <1>8, <1>9, <1>10

----------------------------------------------------------------------------
(* Coverage *)

\* Inserting into a memtable forgets no key and no newer version.
LEMMA InsertCovers ==
  ASSUME NEW M, M \subseteq Records, NEW r \in Records
  PROVE  /\ CoveredBy(MemtableInsert(M, r), r)
         /\ \A x \in Records : CoveredBy(M, x) => CoveredBy(MemtableInsert(M, r), x)
<1>1. r.seq \in Int /\ \A x \in Records : x.seq \in Int
  BY ConfigAssumption, SMT DEF Records
<1>2. CASE \E o \in M : o.key = r.key /\ o.seq >= r.seq
  BY <1>2 DEF MemtableInsert, CoveredBy
<1>3. CASE ~ \E o \in M : o.key = r.key /\ o.seq >= r.seq
  <2>1. PICK N : N = {o \in M : o.key # r.key} \cup {r}
    OBVIOUS
  <2>2. MemtableInsert(M, r) = N
    BY <1>3, <2>1 DEF MemtableInsert
  <2>3. CoveredBy(N, r)
    BY <1>1, <2>1, SMT DEF CoveredBy
  <2>4. ASSUME NEW x \in Records, CoveredBy(M, x)
        PROVE  CoveredBy(N, x)
    <3>1. PICK o \in M : o.key = x.key /\ o.seq >= x.seq
      BY <2>4 DEF CoveredBy
    <3>2. CASE o.key # r.key
      BY <2>1, <3>1, <3>2 DEF CoveredBy
    <3>3. CASE o.key = r.key
      <4>1. ~ (o.seq >= r.seq) /\ o.seq \in Int
        BY <1>1, <1>3, <3>1, <3>3
      <4>2. r.seq >= x.seq /\ r.key = x.key
        BY <1>1, <3>1, <3>3, <4>1, SMT
      <4> QED
        BY <2>1, <4>2 DEF CoveredBy
    <3> QED
      BY <3>2, <3>3
  <2> QED
    BY <2>2, <2>3, <2>4
<1> QED
  BY <1>2, <1>3

\* Files that keep their content keep what they answer for.
LEMMA StoredKept ==
  ASSUME NEW files, NEW r, Stored(files, r), settled \subseteq settled',
         \A n \in Numbers(files) : tables'[n] = tables[n]
  PROVE  Stored(files, r)'
<1>1. Content(files)' = Content(files)
  BY DEF Content, Numbers
<1>2. CoveredBy(Content(files), r) => CoveredBy(Content(files), r)'
  BY <1>1 DEF CoveredBy
<1> QED
  BY <1>2 DEF Stored

----------------------------------------------------------------------------
(* Steps that leave a part alone *)

\* Records come to logs only by a write under way.
LEMMA CachesKept ==
  ASSUME Structure, Caches, UNCHANGED <<active, active_logs, frozen>>,
         Pending \subseteq Pending',
         \A i \in DOMAIN frozen : \A n \in Range(frozen[i].logs) : logs'[n] = logs[n],
         \A n \in Range(active_logs) : logs'[n] \subseteq logs[n] \cup Pending'
  PROVE  Caches'
<1>1. ASSUME NEW i \in DOMAIN frozen, NEW r \in LogRecords(Range(frozen[i].logs))'
      PROVE  CoveredBy(frozen[i].memtable, r)
  <2>1. r \in LogRecords(Range(frozen[i].logs))
    BY <1>1 DEF LogRecords
  <2> QED
    BY <2>1 DEF Caches
<1>2. ASSUME NEW r \in LogRecords(Range(active_logs))' \ Pending'
      PROVE  CoveredBy(active, r)
  <2>1. r \in LogRecords(Range(active_logs)) \ Pending
    BY <1>2 DEF LogRecords
  <2> QED
    BY <2>1 DEF Caches
<1> QED
  BY <1>1, <1>2 DEF Caches

\* A merge is complete as long as its files stay as they are.
LEMMA MergeKept ==
  ASSUME Structure, MergeComplete, UNCHANGED <<snapshot, compactor>>,
         \A n \in DOMAIN tables : n \in Numbers(snapshot.files) => tables'[n] = tables[n],
         Merging => \A n \in Numbers(compactor.added) : tables'[n] = tables[n]
  PROVE  MergeComplete'
<1>1. SUFFICES ASSUME Merging
               PROVE  MergeComplete'
  BY DEF MergeComplete, Merging
<1>2. phase = "up" /\ Plan
  BY <1>1, AtWork DEF Merging, Structure, Compaction, Compacting
<1>3. \A f \in snapshot.files : tables'[f.number] = tables[f.number]
  BY <1>2, NamedFiles DEF Numbers
<1>4. Inputs' = Inputs /\ Inputs \subseteq snapshot.files
  BY <1>2 DEF Inputs, Plan
<1>5. PICK I : I = Inputs
  OBVIOUS
<1>6. PICK A : A = compactor.added
  OBVIOUS
<1>7. Content(I)' = Content(I) /\ Content(A)' = Content(A)
  <2>1. \A f \in I : tables'[f.number] = tables[f.number]
    BY <1>3, <1>4, <1>5
  <2>2. \A f \in A : tables'[f.number] = tables[f.number]
    BY <1>1, <1>6 DEF Numbers
  <2> QED
    BY <2>1, <2>2 DEF Content
<1>8. Content(Inputs)' = Content(Inputs) /\ Content(compactor.added)' = Content(compactor.added)
  BY <1>4, <1>5, <1>6, <1>7
<1>9. Outputs' = Outputs
  BY <1>8 DEF Outputs
<1> QED
  BY <1>1, <1>3, <1>8, <1>9, SMT DEF MergeComplete

\* What is stored stays so while the manifest and the snapshot do.
LEMMA SettlesKept ==
  ASSUME Structure, Settles, UNCHANGED <<manifest, snapshot>>,
         phase' = "up" => phase = "up",
         settled \subseteq settled',
         \A n \in Numbers(Loaded.files) : tables'[n] = tables[n],
         phase = "up" => \A n \in Numbers(snapshot.files) : tables'[n] = tables[n],
         flusher'.at = "unlink" =>
           /\ flusher.at = "unlink"
           /\ LogRecords(Range(flusher.logs))' \subseteq LogRecords(Range(flusher.logs))
  PROVE  Settles'
<1>1. Loaded' = Loaded
  BY DEF Loaded
<1>2. PICK S : S = Loaded.files
  OBVIOUS
<1>3. PICK T : T = snapshot.files
  OBVIOUS
<1>4. Content(S)' = Content(S)
  BY <1>2, SMT DEF Content, Numbers
<1>5. phase = "up" => Content(T)' = Content(T)
  BY <1>3, SMT DEF Content, Numbers
<1>6. Content(Loaded.files)' \subseteq settled'
  BY <1>1, <1>2, <1>4 DEF Settles
<1>7. phase' = "up" => Content(snapshot.files)' \subseteq settled'
  BY <1>3, <1>5 DEF Settles
<1>8. ASSUME flusher'.at = "unlink", NEW r \in LogRecords(Range(flusher.logs))'
      PROVE  Stored(snapshot.files, r)' /\ Stored(Loaded.files, r)'
  <2>1. phase = "up" /\ r \in LogRecords(Range(flusher.logs))
    BY <1>8, AtWork
  <2>2. Stored(S, r) /\ Stored(T, r)
    BY <1>2, <1>3, <1>8, <2>1 DEF Settles
  <2>3. Stored(S, r)' /\ Stored(T, r)'
    BY <1>2, <1>3, <2>1, <2>2, StoredKept
  <2> QED
    BY <1>1, <1>2, <1>3, <2>3
<1> QED
  BY <1>6, <1>7, <1>8 DEF Settles

\* A step that adds files at most, and takes no flush or compaction further.
LEMMA BackedKept ==
  ASSUME Structure, Backed,
         UNCHANGED <<phase, active, active_logs, frozen, manifest, snapshot, settled, compactor>>,
         Pending \subseteq Pending',
         \A n \in DOMAIN logs : logs'[n] = logs[n],
         \A n \in DOMAIN tables : tables'[n] = tables[n],
         flusher'.at = "unlink" => flusher' = flusher
  PROVE  Backed'
<1>1. CASE phase = "up"
  <2>1. \A i \in DOMAIN frozen : Range(frozen[i].logs) \subseteq DOMAIN logs
    BY <1>1 DEF Structure, Owners, LogList
  <2>2. Range(active_logs) \subseteq DOMAIN logs
    BY <1>1 DEF Structure, Owners, LogList
  <2>3. Caches'
    BY <2>1, <2>2, CachesKept DEF Backed
  <2>4. Merging => \A n \in Numbers(compactor.added) : tables'[n] = tables[n]
    BY DEF Structure, Compaction, Written, Numbers
  <2>5. MergeComplete'
    BY <2>4, MergeKept DEF Backed
  <2>6. flusher'.at = "unlink" => /\ flusher.at = "unlink" /\ Range(flusher.logs) \subseteq DOMAIN logs
                                  /\ Range(flusher'.logs) = Range(flusher.logs)
    BY <1>1 DEF Structure, Owners, LogList
  <2>7. flusher'.at = "unlink" => /\ flusher.at = "unlink"
               /\ LogRecords(Range(flusher.logs))' \subseteq LogRecords(Range(flusher.logs))
    BY <2>6 DEF LogRecords
  <2>8. Settles'
    BY <1>1, <2>7, NamedFiles, SettlesKept DEF Backed
  <2> QED
    BY <2>3, <2>5, <2>8 DEF Backed
<1>2. CASE phase # "up"
  <2>1. frozen = << >> /\ active_logs = << >> /\ flusher.at = "idle" /\ compactor.at = "idle"
    BY <1>2 DEF Structure, Quiet
  <2>2. DOMAIN frozen' = {} /\ Range(active_logs') = {}
    BY <2>1, SMT DEF Range
  <2>3. Caches'
    BY <2>2 DEF Caches, LogRecords
  <2>4. MergeComplete'
    BY <2>1 DEF MergeComplete, Merging
  <2>5. flusher'.at # "unlink"
    BY <2>1
  <2>6. Settles'
    BY <1>2, <2>5, NamedFiles, SettlesKept DEF Backed
  <2> QED
    BY <2>3, <2>4, <2>6 DEF Backed
<1> QED
  BY <1>1, <1>2

\* A new manifest settles what it names.
LEMMA SettlesCommitted ==
  ASSUME Structure, Settles, phase = "up", UNCHANGED <<phase, snapshot, tables, logs>>,
         NEW s, Loaded' = s, settled \subseteq settled', Content(s.files) \subseteq settled',
         flusher'.at = "unlink" =>
           /\ flusher' = flusher
           /\ \A r \in LogRecords(Range(flusher.logs)) : Stored(s.files, r)
  PROVE  Settles'
<1>1. PICK S : S = s.files
  OBVIOUS
<1>2. PICK T : T = snapshot.files
  OBVIOUS
<1>3. Content(S)' = Content(S) /\ Content(T)' = Content(T)
  BY DEF Content
<1>4. Content(Loaded.files)' \subseteq settled' /\ Content(snapshot.files)' \subseteq settled'
  BY <1>1, <1>2, <1>3 DEF Settles
<1>5. ASSUME flusher'.at = "unlink", NEW r \in LogRecords(Range(flusher.logs))'
      PROVE  Stored(snapshot.files, r)' /\ Stored(Loaded.files, r)'
  <2>1. flusher.at = "unlink" /\ r \in LogRecords(Range(flusher.logs))
    BY <1>5 DEF LogRecords
  <2>2. Stored(S, r) /\ Stored(T, r)
    BY <1>1, <1>2, <1>5, <2>1 DEF Settles
  <2>3. Stored(S, r)' /\ Stored(T, r)'
    BY <2>2, StoredKept
  <2> QED
    BY <1>1, <1>2, <2>3
<1> QED
  BY <1>4, <1>5 DEF Settles

----------------------------------------------------------------------------
(* Writers leave logs backed *)

\* Backed is kept by appending a write to the log (write).
LEMMA WriteAppendsBacked ==
  ASSUME Structure, Backed, NEW w \in Writers, WriteAppends(w)
  PROVE  Backed'
<1>1. phase = "up" /\ writer[w].at = "idle"
  BY DEF WriteAppends
<1>2. UNCHANGED <<phase, tables, manifest, snapshot, active, active_logs, frozen, flusher,
                  compactor, settled>>
  BY DEF WriteAppends, memory
<1>3. PICK r : /\ logs' = [logs EXCEPT ![CurrentLog] = @ \cup {r}]
               /\ writer' = [writer EXCEPT ![w] = [at |-> "insert", record |-> r]]
  BY DEF WriteAppends
<1>4. DOMAIN writer = Writers
  BY DEF Structure, MemoryTypes
<1>5. Pending \subseteq Pending' /\ r \in Pending'
  BY <1>1, <1>3, <1>4 DEF Pending
<1>6. /\ \A n \in DOMAIN logs : n # CurrentLog => logs'[n] = logs[n]
      /\ \A n \in DOMAIN logs : logs'[n] \subseteq logs[n] \cup Pending'
  BY <1>3, <1>5
<1>7. LogList(active_logs) /\ CurrentLog \in Range(active_logs) /\ CurrentLog \in Nat
  BY <1>1, CurrentLogApart DEF Structure, Owners
<1>8. \A i \in DOMAIN frozen : \A n \in Range(frozen[i].logs) : n \in DOMAIN logs /\ n # CurrentLog
  BY <1>1, <1>7, SMT DEF Structure, Owners, LogList, AllBefore
<1>9. Caches'
  BY <1>2, <1>5, <1>6, <1>7, <1>8, CachesKept DEF Backed, LogList
<1>10. MergeComplete'
  BY <1>2, MergeKept DEF Backed
<1>11. flusher.at = "unlink" =>
         LogRecords(Range(flusher.logs))' \subseteq LogRecords(Range(flusher.logs))
  <2>1. flusher.at = "unlink" => \A n \in Range(flusher.logs) : n \in DOMAIN logs /\ n # CurrentLog
    BY <1>1, CurrentLogApart DEF LogList
  <2> QED
    BY <1>2, <1>6, <2>1 DEF LogRecords
<1>12. Settles'
  BY <1>1, <1>2, <1>11, SettlesKept DEF Backed
<1> QED
  BY <1>9, <1>10, <1>12 DEF Backed

\* Backed is kept by inserting a write into the memtable (write).
LEMMA WriteInsertsBacked ==
  ASSUME Structure, Backed, NEW w \in Writers, WriteInserts(w)
  PROVE  Backed'
<1>1. phase = "up" /\ writer[w].at = "insert" /\ DOMAIN writer = Writers
  BY DEF WriteInserts, Structure, MemoryTypes
<1>2. UNCHANGED <<phase, logs, tables, manifest, snapshot, active_logs, frozen, flusher,
                  compactor, settled>>
  BY DEF WriteInserts
<1>3. PICK r \in Records : r = writer[w].record
  BY <1>1 DEF Structure, MemoryTypes
<1>4. active' = MemtableInsert(active, r)
  BY <1>3 DEF WriteInserts
<1>5. \A v \in Writers : v # w => writer'[v] = writer[v]
  BY <1>1 DEF WriteInserts
<1>6. Pending \subseteq Pending' \cup {r}
  BY <1>3, <1>5 DEF Pending
<1>7. active \subseteq Records
  BY DEF Structure, MemoryTypes
<1>8. Caches'
  <2>1. \A i \in DOMAIN frozen : LogRecords(Range(frozen[i].logs))' = LogRecords(Range(frozen[i].logs))
    BY <1>2 DEF LogRecords
  <2>2. LogRecords(Range(active_logs))' = LogRecords(Range(active_logs))
    BY <1>2 DEF LogRecords
  <2>3. ASSUME NEW x \in LogRecords(Range(active_logs)), x \notin Pending'
        PROVE  CoveredBy(active', x)
    <3>1. x \in Records
      <4>1. LogRecords(Range(active_logs)) \subseteq LogRecords(DOMAIN logs)
        BY <1>1 DEF Structure, Owners, LogList, LogRecords
      <4> QED
        BY <2>3, <4>1, EverywhereType DEF Everywhere
    <3>2. CASE x = r
      BY <1>4, <1>7, <3>2, InsertCovers
    <3>3. CASE x # r
      <4>1. CoveredBy(active, x)
        BY <1>6, <2>3, <3>3 DEF Backed, Caches
      <4> QED
        BY <1>4, <1>7, <3>1, <4>1, InsertCovers
    <3> QED
      BY <3>2, <3>3
  <2> QED
    BY <1>2, <2>1, <2>2, <2>3 DEF Backed, Caches
<1>9. MergeComplete'
  BY <1>2, MergeKept DEF Backed
<1>10. LogRecords(Range(flusher.logs))' = LogRecords(Range(flusher.logs))
  BY <1>2 DEF LogRecords
<1>11. Settles'
  BY <1>1, <1>2, <1>10, SettlesKept DEF Backed
<1> QED
  BY <1>8, <1>9, <1>11 DEF Backed

\* Backed is kept by a call of flush and the rotations that freeze nothing
\* (flush, rotate).
LEMMA CallsBacked ==
  ASSUME Structure, Backed, NEW w \in Writers,
         FlushCall(w) \/ RotateSkips(w) \/ RotateDrops(w) \/ RotateFails(w)
  PROVE  Backed'
<1>1. phase = "up" /\ writer[w].at # "insert"
  BY DEF FlushCall, RotateSkips, RotateDrops, RotateFails
<1>2. UNCHANGED <<phase, tables, manifest, snapshot, active, active_logs, frozen, flusher,
                  compactor, settled>>
  BY DEF FlushCall, RotateSkips, RotateDrops, RotateFails, memory, disk, history
<1>3. \A v \in Writers : v # w => writer'[v] = writer[v]
  BY DEF FlushCall, RotateSkips, RotateDrops, RotateFails, Structure, MemoryTypes
<1>4. Pending \subseteq Pending'
  BY <1>1, <1>3 DEF Pending
<1>5. \A n \in DOMAIN logs : logs'[n] = logs[n]
  <2>1. CASE RotateFails(w)
    <3>1. phase = "up" /\ logs' \in {logs, With(logs, next_number, {})}
      BY <2>1 DEF RotateFails
    <3>2. CASE logs' = logs
      BY <3>2
    <3>3. CASE logs' = With(logs, next_number, {})
      BY <3>1, <3>3, NewLog
    <3> QED
      BY <3>1, <3>2, <3>3
  <2>2. CASE ~RotateFails(w)
    BY <2>2 DEF FlushCall, RotateSkips, RotateDrops, disk
  <2> QED
    BY <2>1, <2>2
<1> QED
  BY <1>2, <1>4, <1>5, BackedKept

\* Backed is kept by a sync under Interval (sync).
LEMMA SyncBacked ==
  ASSUME Structure, Backed, Sync
  PROVE  Backed'
<1>1. UNCHANGED <<phase, active, active_logs, frozen, manifest, snapshot, settled, compactor,
                  flusher, writer, logs, tables>>
  BY DEF Sync, memory
<1>2. Pending' = Pending
  BY <1>1 DEF Pending
<1> QED
  BY <1>1, <1>2, BackedKept

\* Backed is kept by a rotation (rotate).
LEMMA RotateBacked ==
  ASSUME Structure, Backed, NEW w \in Writers, Rotate(w)
  PROVE  Backed'
<1>1. phase = "up" /\ Pending = {} /\ MemoryTypes
  BY DEF Rotate, LogUnshared, Pending, Structure
<1>2. UNCHANGED <<phase, tables, manifest, snapshot, flusher, compactor, settled>>
  BY DEF Rotate, history
<1>3. PICK new : new = next_number
  OBVIOUS
<1>4. /\ DOMAIN logs' = DOMAIN logs \cup {new} /\ logs'[new] = {}
      /\ \A n \in DOMAIN logs : logs'[n] = logs[n]
  BY <1>1, <1>3, NewLog DEF Rotate
<1>5. PICK task : task = [memtable |-> active, logs |-> active_logs]
  OBVIOUS
<1>6. /\ task \in [memtable : SUBSET Records, logs : Seq(Nat)]
      /\ task.memtable = active /\ task.logs = active_logs
  BY <1>1, <1>5 DEF MemoryTypes
<1>7. /\ DOMAIN frozen' = 1 .. Len(frozen) + 1 /\ frozen'[1] = task
      /\ \A i \in 2 .. Len(frozen) + 1 : i - 1 \in DOMAIN frozen /\ frozen'[i] = frozen[i - 1]
      /\ Len(frozen) \in Nat
  <2>1. PICK F : F = [memtable : SUBSET Records, logs : Seq(Nat)]
    OBVIOUS
  <2>2. frozen \in Seq(F) /\ task \in F
    BY <1>1, <1>6, <2>1 DEF MemoryTypes
  <2>3. frozen' = <<task>> \o frozen
    BY <1>5 DEF Rotate
  <2> QED
    BY <2>1, <2>2, <2>3, Cons, SMT
<1>8. active' = {} /\ active_logs' = <<new>>
  BY <1>3 DEF Rotate
<1>9. \A i \in DOMAIN frozen' :
        frozen'[i] = task \/ \E j \in DOMAIN frozen : frozen'[i] = frozen[j]
  BY <1>7, SMT
<1>10. LogList(active_logs) /\ \A j \in DOMAIN frozen : LogList(frozen[j].logs)
  BY <1>1 DEF Structure, Owners
<1>11. ASSUME NEW ls, LogList(ls)
       PROVE  LogRecords(Range(ls))' = LogRecords(Range(ls))
  BY <1>4, <1>11 DEF LogList, LogRecords
<1>12. Caches'
  <2>1. ASSUME NEW t, t = task \/ \E j \in DOMAIN frozen : t = frozen[j],
               NEW r \in LogRecords(Range(t.logs))'
        PROVE  CoveredBy(t.memtable, r)
    <3>1. CASE t = task
      <4>1. r \in LogRecords(Range(active_logs))
        BY <1>6, <1>10, <1>11, <2>1, <3>1
      <4> QED
        BY <1>1, <1>6, <3>1, <4>1 DEF Backed, Caches
    <3>2. CASE \E j \in DOMAIN frozen : t = frozen[j]
      <4>1. PICK j \in DOMAIN frozen : t = frozen[j]
        BY <3>2
      <4>2. r \in LogRecords(Range(frozen[j].logs))
        BY <1>10, <1>11, <2>1, <4>1
      <4> QED
        BY <4>1, <4>2 DEF Backed, Caches
    <3> QED
      BY <2>1, <3>1, <3>2
  <2>2. PICK fs : fs = frozen'
    OBVIOUS
  <2>3. \A i \in DOMAIN fs : \A r \in LogRecords(Range(fs[i].logs))' : CoveredBy(fs[i].memtable, r)
    BY <1>9, <2>1, <2>2
  <2>4. (\A i \in DOMAIN frozen : \A r \in LogRecords(Range(frozen[i].logs)) : CoveredBy(frozen[i].memtable, r))'
    BY <2>2, <2>3
  <2>5. LogRecords(Range(active_logs))' = {}
    <3>1. Range(active_logs') = {new}
      BY <1>8, SMT DEF Range
    <3> QED
      BY <1>4, <3>1 DEF LogRecords
  <2> QED
    BY <2>4, <2>5 DEF Caches
<1>13. MergeComplete'
  BY <1>2, MergeKept DEF Backed
<1>14. flusher.at = "unlink" =>
         LogRecords(Range(flusher.logs))' \subseteq LogRecords(Range(flusher.logs))
  <2>1. flusher.at = "unlink" => LogList(flusher.logs)
    BY <1>1 DEF Structure, Owners
  <2> QED
    BY <1>2, <1>4, <2>1, SMT DEF LogList, LogRecords
<1>15. Settles'
  BY <1>1, <1>2, <1>14, SettlesKept DEF Backed
<1> QED
  BY <1>12, <1>13, <1>15 DEF Backed

----------------------------------------------------------------------------
(* Steps of the compactor *)

\* What the files hold, for the records of named files.
LEMMA ContentType ==
  ASSUME Structure, NEW files, Numbers(files) \subseteq DOMAIN tables
  PROVE  /\ Content(files) \subseteq Everywhere /\ Content(files) \subseteq Records
         /\ OneSeq(Content(files))
<1>1. Content(files) \subseteq TableRecords
  BY DEF Content, TableRecords, Numbers
<1>2. Content(files) \subseteq Everywhere
  BY <1>1 DEF Everywhere
<1> QED
  BY <1>2, EverywhereType DEF Structure, Numbered, OneSeq

\* A step of the compactor alone.
LEMMA CompactorFrame ==
  ASSUME Structure, phase = "up",
         UNCHANGED <<policy, phase, logs, unsafe, tables, partials, manifest,
                     snapshot, durable, next_number, last_seq, active,
                     active_logs, frozen, l0, below, writer, flusher, ever,
                     shown, acked, settled>>,
         unlinked' \in {unlinked, << >>},
         faults' \in [restart : Nat, task : Nat, unlink : Nat, split : BOOLEAN],
         compactor'.at = "commit" =>
           compactor'.seq \in 0 .. MaxSeq /\ compactor'.seq <= last_seq
  PROVE  /\ DiskTypes' /\ MemoryTypes' /\ Quiet' /\ Fresh' /\ Owners' /\ Numbered'
         /\ Seqs' /\ Levels' /\ Flush'
<1>1. DiskTypes /\ MemoryTypes
  BY DEF Structure
<1>2. /\ unlinked' \in Seq([number : Nat, records : SUBSET Records])
      /\ UnlinkedRecords' \subseteq UnlinkedRecords
  <2>1. CASE unlinked' = unlinked
    BY <1>1, <2>1 DEF DiskTypes, UnlinkedRecords
  <2>2. CASE unlinked' = << >>
    BY <2>2, SMT DEF UnlinkedRecords
  <2> QED
    BY <2>1, <2>2
<1>3. DiskTypes' /\ MemoryTypes' /\ Quiet' /\ Fresh' /\ Flush'
  <2>1. DiskTypes'
    BY <1>1, <1>2 DEF DiskTypes
  <2>2. MemoryTypes'
    BY <1>1 DEF MemoryTypes
  <2>3. Quiet'
    BY DEF Quiet
  <2>4. Fresh'
    BY DEF Structure, Fresh, Loaded
  <2>5. Flush'
    BY DEF Structure, Flush
  <2> QED
    BY <2>1, <2>2, <2>3, <2>4, <2>5
<1>4. Owners'
  BY MemoryFrame
<1>5. Numbered'
  <2>1. /\ LogRecords(DOMAIN logs)' = LogRecords(DOMAIN logs) /\ Pending' = Pending
        /\ TableRecords' = TableRecords /\ FrozenRecords' = FrozenRecords
    BY DEF LogRecords, Pending, TableRecords, FrozenRecords
  <2>2. Everywhere' \subseteq Everywhere
    BY <1>2, <2>1 DEF Everywhere
  <2> QED
    BY <2>2, NumberedKept
<1>6. Seqs'
  <2>1. Ages'
    BY <1>2, AgesKept, NamedFiles
  <2>2. FlushAges'
    BY DEF Structure, Seqs, FlushAges, LogRecords, Loaded
  <2> QED
    BY <2>1, <2>2 DEF Seqs
<1>7. Levels'
  BY LevelsKept, NamedFiles
<1> QED
  BY <1>3, <1>4, <1>5, <1>6, <1>7

\* Compactions leave memory and logs alone.
LEMMA CompactCaches ==
  ASSUME Structure, Backed,
         CompactPlans \/ CompactMerges \/ CompactSeals \/ CompactReadsSeq
           \/ CompactCommits \/ CompactPublishes \/ CompactUnlinks \/ CompactFails
  PROVE  /\ phase = "up" /\ Caches'
         /\ UNCHANGED <<phase, logs, active, active_logs, frozen, writer, flusher, settled>>
<1>1. phase = "up"
  BY DEF CompactPlans, CompactMerges, CompactSeals, CompactReadsSeq, CompactCommits,
         CompactPublishes, CompactUnlinks, CompactFails
<1>2. UNCHANGED <<phase, logs, active, active_logs, frozen, writer, flusher, settled>>
  BY DEF CompactPlans, CompactMerges, CompactSeals, CompactReadsSeq, CompactCommits,
         CompactPublishes, CompactUnlinks, CompactFails, disk, memory, history
<1>3. Pending' = Pending
  BY <1>2 DEF Pending
<1> QED
  BY <1>1, <1>2, <1>3, CachesKept DEF Backed

\* As long as manifest and snapshot stay, so does what they store.
LEMMA CompactSettles ==
  ASSUME Structure, Backed,
         CompactPlans \/ CompactMerges \/ CompactSeals \/ CompactReadsSeq
           \/ CompactUnlinks \/ CompactFails,
         UNCHANGED <<manifest, snapshot>>,
         \A n \in Numbers(Loaded.files) \cup Numbers(snapshot.files) : tables'[n] = tables[n]
  PROVE  Settles'
<1>1. /\ phase = "up"
      /\ UNCHANGED <<phase, logs, active, active_logs, frozen, writer, flusher, settled>>
  BY CompactCaches
<1>2. LogRecords(Range(flusher.logs))' = LogRecords(Range(flusher.logs))
  BY <1>1 DEF LogRecords
<1> QED
  BY <1>1, <1>2, SettlesKept DEF Backed

----------------------------------------------------------------------------
(* The first step, closing, and the steps that change nothing *)

\* Forgetting what is in memory leaves a store that is not open.
LEMMA ForgetKeeps ==
  ASSUME Structure, Forget, UNCHANGED <<policy, tables, partials, manifest, ever, shown, acked, settled>>,
         faults' \in [restart : Nat, task : Nat, unlink : Nat, split : BOOLEAN],
         unsafe' = {}, unlinked' \in {unlinked, << >>},
         DOMAIN logs' \subseteq Nat,
         \A n \in DOMAIN logs' : logs'[n] \subseteq Records,
         LogRecords(DOMAIN logs)' \subseteq LogRecords(DOMAIN logs) \cup UnlinkedRecords
  PROVE  Structure'
<1>1. DiskTypes /\ MemoryTypes
  BY DEF Structure
<1>2. /\ phase' = "down" /\ snapshot' = NoSnapshot /\ durable' = None
      /\ next_number' = 0 /\ last_seq' = 0 /\ active' = {} /\ active_logs' = << >>
      /\ frozen' = << >> /\ l0' = << >> /\ below' = {}
      /\ writer' = [w \in Writers |-> Idle] /\ flusher' = Idle /\ compactor' = Idle
  BY DEF Forget
<1>3. flusher'.at = "idle" /\ compactor'.at = "idle" /\ \A w \in Writers : writer'[w].at = "idle"
  BY <1>2 DEF Idle
<1>4. UnlinkedRecords' \subseteq UnlinkedRecords
      /\ unlinked' \in Seq([number : Nat, records : SUBSET Records])
  <2>1. CASE unlinked' = unlinked
    BY <1>1, <2>1 DEF DiskTypes, UnlinkedRecords
  <2>2. CASE unlinked' = << >>
    BY <2>2, SMT DEF UnlinkedRecords
  <2> QED
    BY <2>1, <2>2
<1>5. DiskTypes'
  BY <1>1, <1>4 DEF DiskTypes
<1>6. MemoryTypes'
  <2>1. snapshot' \in Snapshot
    BY <1>2, LoadedType, SMT DEF NoSnapshot, Snapshot
  <2>2. last_seq' \in 0 .. MaxSeq /\ next_number' \in Nat
    BY <1>2, LoadedType, SMT
  <2>3. frozen' \in Seq([memtable : SUBSET Records, logs : Seq(Nat)]) /\ DOMAIN frozen' = {}
    BY <1>2, SMT
  <2>4. l0' \in Seq(Nat) /\ active_logs' \in Seq(Nat) /\ OnePerKey(active')
    BY <1>2, SMT DEF OnePerKey
  <2>5. DOMAIN writer' = Writers
    BY <1>2
  <2> QED
    BY <1>1, <1>2, <1>3, <2>1, <2>2, <2>3, <2>4, <2>5 DEF MemoryTypes
<1>7. Quiet' /\ Fresh' /\ Owners'
  BY <1>2, <1>3 DEF Quiet, Fresh, Owners
<1>8. Numbered'
  <2>1. TableRecords' = TableRecords /\ FrozenRecords' = {} /\ Pending' = {}
    BY <1>2, <1>3, SMT DEF TableRecords, FrozenRecords, Pending
  <2>2. Everywhere' \subseteq Everywhere
    BY <1>2, <1>4, <2>1 DEF Everywhere
  <2> QED
    BY <1>2, <2>2, NumberedKept
<1>9. Loaded' = Loaded
  BY DEF Loaded
<1>10. Seqs'
  <2>1. PICK s : s = Loaded
    OBVIOUS
  <2>2. Dated(s)
    BY <2>1 DEF Structure, Seqs, Ages
  <2>3. Dated(s)'
    BY <1>4, <2>2 DEF Dated, UpTo, Content
  <2>4. Dated(Loaded)'
    BY <1>9, <2>1, <2>3
  <2> QED
    BY <1>2, <1>3, <2>4 DEF Seqs, Ages, FlushAges
<1>11. Levels'
  <2>1. PICK S : S = Loaded.files
    OBVIOUS
  <2>2. Layout(S)'
    BY <2>1 DEF Structure, Levels, Layout
  <2>3. Layout(Loaded.files)'
    BY <1>9, <2>1, <2>2
  <2> QED
    BY <1>2, <2>3 DEF Levels
<1>12. Commits' /\ Flush'
  BY <1>2, <1>3, NoneAssumption DEF Commits, Flush
<1>13. Compaction'
  BY <1>3 DEF Compaction, Compacting, Planned, Written, Merging, ToWrite, ToUnlink
<1> QED
  BY <1>5, <1>6, <1>7, <1>8, <1>10, <1>11, <1>12, <1>13 DEF Structure

\* Structure is kept by closing the store (Drop).
LEMMA CloseKeeps ==
  ASSUME Structure, Close
  PROVE  Structure'
<1>1. /\ Forget /\ unsafe' = {} /\ DiskTypes /\ MemoryTypes
      /\ UNCHANGED <<policy, unlinked, logs, tables, partials, manifest, ever, shown, acked, settled>>
  BY DEF Close, history, Structure
<1>2. faults' \in [restart : Nat, task : Nat, unlink : Nat, split : BOOLEAN]
  <2>1. faults' = [faults EXCEPT !.restart = @ + 1]
    BY DEF Close
  <2>2. faults \in [restart : Nat, task : Nat, unlink : Nat, split : BOOLEAN]
    BY <1>1 DEF MemoryTypes
  <2> QED
    BY <2>1, <2>2, MoreFaults
<1>3. LogRecords(DOMAIN logs)' = LogRecords(DOMAIN logs)
  BY <1>1 DEF LogRecords
<1> QED
  BY <1>1, <1>2, <1>3, ForgetKeeps DEF DiskTypes

\* Structure is kept by removing a table the manifest does not name (open).
LEMMA OpenRemovesOrphanKeeps ==
  ASSUME Structure, OpenRemovesOrphan
  PROVE  Structure'
<1>1. phase = "opening" /\ DiskTypes /\ MemoryTypes /\ Quiet /\ snapshot = Loaded
  BY DEF OpenRemovesOrphan, Structure, Fresh
<1>2. UNCHANGED <<policy, unlinked, phase, logs, unsafe, partials, manifest, snapshot,
                  durable, next_number, last_seq, active, active_logs, frozen, l0,
                  below, writer, flusher, compactor, faults, ever, shown, acked,
                  settled>>
  BY DEF OpenRemovesOrphan, numbering, memory, history
<1>3. PICK n \in Orphans : tables' = Without(tables, n)
  BY DEF OpenRemovesOrphan
<1>4. /\ DOMAIN tables' = DOMAIN tables \ {n} /\ n \notin Numbers(Loaded.files)
      /\ \A m \in DOMAIN tables' : tables'[m] = tables[m]
  BY <1>1, <1>3 DEF Without, Restrict, Orphans
<1>5. flusher.at = "idle" /\ compactor.at = "idle" /\ durable = None
  BY <1>1 DEF Quiet
<1>6. \A m \in Numbers(Loaded.files) : m \in DOMAIN tables' /\ tables'[m] = tables[m]
  BY <1>4, NamedFiles
<1>7. DiskTypes' /\ MemoryTypes' /\ Quiet' /\ Fresh'
  <2>2. DiskTypes'
    BY <1>1, <1>2, <1>4 DEF DiskTypes
  <2>3. MemoryTypes'
    BY <1>1, <1>2 DEF MemoryTypes
  <2>4. Quiet'
    BY <1>1, <1>2 DEF Quiet
  <2>5. Fresh'
    BY <1>1, <1>2, <1>4 DEF Structure, Fresh, Loaded
  <2> QED
    BY <2>2, <2>3, <2>4, <2>5
<1>8. Numbered'
  <2>1. /\ LogRecords(DOMAIN logs)' = LogRecords(DOMAIN logs) /\ Pending' = Pending
        /\ UnlinkedRecords' = UnlinkedRecords /\ FrozenRecords' = FrozenRecords
    BY <1>2 DEF LogRecords, Pending, UnlinkedRecords, FrozenRecords
  <2>2. TableRecords' \subseteq TableRecords
    BY <1>4 DEF TableRecords
  <2>3. Everywhere' \subseteq Everywhere
    BY <1>2, <2>1, <2>2, SMT DEF Everywhere
  <2> QED
    BY <1>2, <2>3, NumberedKept
<1>9. Seqs'
  <2>1. UnlinkedRecords' = UnlinkedRecords
    BY <1>2 DEF UnlinkedRecords
  <2>2. Ages'
    BY <1>1, <1>2, <1>5, <1>6, <2>1, AgesKept
  <2>3. FlushAges'
    BY <1>2, <1>5 DEF FlushAges
  <2> QED
    BY <2>2, <2>3 DEF Seqs
<1>10. Levels'
  BY <1>1, <1>2, <1>6, LevelsKept
<1>11. Owners' /\ Commits' /\ Flush' /\ Compaction'
  <2>1. Owners'
    BY <1>1, <1>2 DEF Owners
  <2>2. Commits' /\ Flush'
    BY <1>2, <1>5, NoneAssumption DEF Commits, Flush
  <2>3. Compaction'
    BY <1>2, <1>5 DEF Compaction, Compacting, Planned, Written, Merging, ToWrite, ToUnlink
  <2> QED
    BY <2>1, <2>2, <2>3
<1> QED
  BY <1>7, <1>8, <1>9, <1>10, <1>11 DEF Structure

\* Structure holds with no store at all (open).
LEMMA InitKeeps ==
  ASSUME Init
  PROVE  Structure
<1>1. /\ DOMAIN logs = {} /\ DOMAIN tables = {} /\ unsafe = {} /\ unlinked = << >>
      /\ partials = {} /\ manifest = None /\ snapshot = NoSnapshot /\ durable = None
      /\ next_number = 0 /\ last_seq = 0 /\ active = {} /\ active_logs = << >>
      /\ frozen = << >> /\ l0 = << >> /\ below = {} /\ policy \in Policies
      /\ phase = "down" /\ writer = [w \in Writers |-> Idle] /\ flusher = Idle
      /\ compactor = Idle /\ ever = {} /\ shown = {} /\ acked = {} /\ settled = {}
      /\ faults = [restart |-> 0, task |-> 0, unlink |-> 0, split |-> FALSE]
  BY SMT DEF Init
<1>2. flusher.at = "idle" /\ compactor.at = "idle" /\ \A w \in Writers : writer[w].at = "idle"
  BY <1>1 DEF Idle
<1>3. MaxSeq \in Nat
  BY ConfigAssumption
<1>4. DiskTypes
  BY <1>1, SMT DEF DiskTypes
<1>5. MemoryTypes
  <2>1. snapshot \in Snapshot
    BY <1>1, <1>3, SMT DEF NoSnapshot, Snapshot
  <2>2. faults \in [restart : Nat, task : Nat, unlink : Nat, split : BOOLEAN]
    BY <1>1
  <2>3. last_seq \in 0 .. MaxSeq /\ next_number \in Nat
    BY <1>1, <1>3, SMT
  <2>4. /\ frozen \in Seq([memtable : SUBSET Records, logs : Seq(Nat)]) /\ DOMAIN frozen = {}
        /\ l0 \in Seq(Nat) /\ active_logs \in Seq(Nat) /\ OnePerKey(active)
        /\ DOMAIN writer = Writers
    BY <1>1, SMT DEF OnePerKey
  <2> QED
    BY <1>1, <1>2, <2>1, <2>2, <2>3, <2>4 DEF MemoryTypes
<1>6. Quiet /\ Fresh /\ Owners /\ Commits /\ Flush
  BY <1>1, <1>2, NoneAssumption DEF Quiet, Fresh, Owners, Commits, Flush
<1>7. Loaded = NoSnapshot /\ Loaded.files = {}
  BY <1>1 DEF Loaded, NoSnapshot
<1>8. Content({}) = {} /\ UnlinkedRecords = {}
  BY <1>1, SMT DEF Content, UnlinkedRecords
<1>9. Numbered
  <2>1. /\ LogRecords(DOMAIN logs) = {} /\ TableRecords = {} /\ FrozenRecords = {}
        /\ Pending = {}
    BY <1>1, <1>2, SMT DEF LogRecords, TableRecords, FrozenRecords, Pending
  <2>2. Everywhere = {}
    BY <1>1, <1>8, <2>1 DEF Everywhere
  <2> QED
    BY <1>1, <2>2 DEF Numbered, OneSeq
<1>10. Seqs /\ Levels
  <2>1. Content(Loaded.files) = {}
    BY <1>7, <1>8
  <2>2. Dated(Loaded)
    BY <1>8, <2>1 DEF Dated, UpTo
  <2>3. Layout(Loaded.files)
    BY <1>7 DEF Layout, Numbers
  <2> QED
    BY <1>1, <1>2, <2>2, <2>3 DEF Seqs, Ages, FlushAges, Levels
<1>11. Compaction
  BY <1>2 DEF Compaction, Compacting, Planned, Written, Merging, ToWrite, ToUnlink
<1> QED
  BY <1>4, <1>5, <1>6, <1>9, <1>10, <1>11 DEF Structure

\* A step that changes nothing.
LEMMA StutterKeeps ==
  ASSUME Structure, UNCHANGED vars
  PROVE  Structure'
<1>1. UNCHANGED <<policy, phase, logs, unsafe, unlinked, tables, partials, manifest,
                  snapshot, durable, next_number, last_seq, active, active_logs,
                  frozen, l0, below, writer, flusher, compactor, faults, ever,
                  shown, acked, settled>>
  BY DEF vars, disk, numbering, memory, history
<1>2. DiskTypes' /\ MemoryTypes' /\ Quiet' /\ Fresh' /\ Flush'
  <2>1. DiskTypes'
    BY <1>1 DEF Structure, DiskTypes
  <2>2. MemoryTypes'
    BY <1>1 DEF Structure, MemoryTypes
  <2>3. Quiet'
    BY <1>1 DEF Structure, Quiet
  <2>4. Fresh'
    BY <1>1 DEF Structure, Fresh, Loaded
  <2>5. Flush'
    BY <1>1 DEF Structure, Flush
  <2> QED
    BY <2>1, <2>2, <2>3, <2>4, <2>5
<1>3. Owners'
  BY <1>1, MemoryFrame
<1>4. Levels' /\ Commits' /\ Compaction'
  BY <1>1, FilesFrame DEF Structure
<1>5. Everywhere' = Everywhere /\ UnlinkedRecords' = UnlinkedRecords
  <2>1. /\ LogRecords(DOMAIN logs)' = LogRecords(DOMAIN logs) /\ Pending' = Pending
        /\ TableRecords' = TableRecords /\ UnlinkedRecords' = UnlinkedRecords
        /\ FrozenRecords' = FrozenRecords
    BY <1>1 DEF LogRecords, Pending, TableRecords, UnlinkedRecords, FrozenRecords
  <2> QED
    BY <1>1, <2>1 DEF Everywhere
<1>6. Numbered'
  BY <1>1, <1>5, NumberedKept
<1>7. Seqs'
  <2>1. compactor.at = "commit" => compactor.seq <= last_seq
    BY DEF Structure, Seqs, Ages
  <2>2. Ages'
    BY <1>1, <1>5, <2>1, AgesKept, NamedFiles
  <2>3. FlushAges'
    BY <1>1 DEF Structure, Seqs, FlushAges, LogRecords, Loaded
  <2> QED
    BY <2>2, <2>3 DEF Seqs
<1> QED
  BY <1>2, <1>3, <1>4, <1>6, <1>7 DEF Structure

\* A store that is not up holds nothing in memory and merges nothing; what the
\* manifest names is as it was.
LEMMA DownBacked ==
  ASSUME Structure, Backed, Structure', phase' # "up",
         UNCHANGED <<manifest, settled>>,
         \A n \in Numbers(Loaded.files) : tables'[n] = tables[n]
  PROVE  Backed'
<1>1. /\ active_logs' = << >> /\ frozen' = << >> /\ flusher'.at = "idle"
      /\ compactor'.at = "idle"
  BY DEF Structure, Quiet
<1>2. Caches'
  <2>1. LogRecords(Range(active_logs))' = {}
    BY <1>1, SMT DEF LogRecords, Range
  <2>2. DOMAIN frozen' = {}
    BY <1>1, SMT
  <2> QED
    BY <2>1, <2>2 DEF Caches
<1>3. MergeComplete'
  BY <1>1 DEF MergeComplete, Merging
<1>4. Settles'
  <2>1. Loaded' = Loaded
    BY DEF Loaded
  <2>2. PICK S : S = Loaded.files
    OBVIOUS
  <2>3. Content(S)' = Content(S)
    BY <2>2, SMT DEF Content, Numbers
  <2>4. Content(Loaded.files)' \subseteq settled'
    BY <2>1, <2>2, <2>3 DEF Backed, Settles
  <2> QED
    BY <1>1, <2>4 DEF Settles
<1> QED
  BY <1>2, <1>3, <1>4 DEF Backed

\* Backed is kept by closing, crashing and the first steps of open.
LEMMA DownStepsBacked ==
  ASSUME Structure, Backed, Structure', Close \/ Crash \/ OpenScans \/ OpenRemovesOrphan
  PROVE  Backed'
<1>1. phase' # "up" /\ UNCHANGED <<manifest, settled>>
  BY DEF Close, Crash, Forget, OpenScans, OpenRemovesOrphan, history
<1>2. \A n \in Numbers(Loaded.files) : tables'[n] = tables[n]
  <2>1. CASE OpenRemovesOrphan
    <3>1. PICK n \in Orphans : tables' = Without(tables, n)
      BY <2>1 DEF OpenRemovesOrphan
    <3>2. snapshot = Loaded
      BY <2>1 DEF OpenRemovesOrphan, Structure, Fresh
    <3> QED
      BY <3>1, <3>2, NamedFiles DEF Orphans, Without, Restrict
  <2>2. CASE Close \/ Crash \/ OpenScans
    BY <2>2 DEF Close, Crash, OpenScans
  <2> QED
    BY <2>1, <2>2
<1> QED
  BY <1>1, <1>2, DownBacked

\* Backed holds with no store at all (open).
LEMMA InitBacked ==
  ASSUME Init
  PROVE  Backed
<1>1. /\ manifest = None /\ active_logs = << >> /\ frozen = << >> /\ phase = "down"
      /\ flusher.at = "idle" /\ compactor.at = "idle"
  BY DEF Init, Idle
<1>2. Caches
  BY <1>1, SMT DEF Caches, LogRecords, Range
<1>3. MergeComplete
  BY <1>1 DEF MergeComplete, Merging
<1>4. Content(Loaded.files) = {}
  BY <1>1 DEF Content, Loaded, NoSnapshot
<1> QED
  BY <1>1, <1>2, <1>3, <1>4 DEF Backed, Settles

\* Backed is kept by doing nothing.
LEMMA StutterBacked ==
  ASSUME Structure, Backed, UNCHANGED vars
  PROVE  Backed'
<1>1. UNCHANGED <<phase, active, active_logs, frozen, manifest, snapshot, settled, compactor,
                  flusher, writer, logs, tables>>
  BY DEF vars, memory, disk, history
<1>2. Pending' = Pending
  BY <1>1 DEF Pending
<1> QED
  BY <1>1, <1>2, BackedKept
=============================================================================
