------------------------------ MODULE SkipList ------------------------------
(***************************************************************************)
(* The lock-free memtable of lsmkv (memtable/skiplist.rs): nodes in an     *)
(* arena of fixed size, a tower of links per node, inserts that publish    *)
(* with a compare-and-swap per level, lookups that never block, and the    *)
(* engine's side of it (engine.rs): a writer that finds the table full     *)
(* freezes it, and opening a store replays its logs into one table.        *)
(*                                                                         *)
(* Every load, store and compare-and-swap on a link is a step, under       *)
(* sequential consistency.  A retry loop around a compare-and-swap on a    *)
(* counter is one step, since it has no effect until it succeeds.  Tower   *)
(* heights come from a hash of the node's number: any height.  The unit of *)
(* size is an entry of ASSUMED_ENTRY_BYTES; a record of a light key weighs *)
(* nothing, so the arena can run short before the byte budget is reached.  *)
(* Values and tombstones are payload: a record's number stands for them.   *)
(***************************************************************************)
EXTENDS Sequences, FiniteSetsExt

CONSTANTS
  Threads,       \* threads that insert and look up
  Keys,          \* a set of numbers, in key order
  Light,         \* the keys whose records are smaller than the arena assumes
  None,          \* no call, no result, no entry
  NIL,           \* end of a level
  MaxHeight,     \* MAX_HEIGHT
  LinksPerNode,  \* LINKS_PER_NODE
  Margin,        \* MARGIN
  Budget,        \* memtable_bytes, in records
  MaxSeq,        \* bound: inserts ever called
  MaxGets,       \* bound: lookups under way or done
  MaxFailures,   \* bound: rotations that cannot create their log
  Replays        \* records in the logs a store may be opened with

ASSUME ArenaAssumption ==
  /\ {MaxHeight, LinksPerNode} \subseteq Nat \ {0}
  /\ {Margin, Budget, MaxSeq, MaxGets, MaxFailures} \subseteq Nat
  /\ Replays \subseteq Nat
  /\ MaxHeight <= (Budget + Margin + 1) * LinksPerNode

\* What a node holds: a record, and where its tower of links is.
Entry == [key : Nat, seq : Nat, tower : Nat, height : Nat \ {0}]

ASSUME NamesAssumption ==
  /\ Keys \subseteq Nat /\ Light \subseteq Keys
  /\ NIL \notin Nat /\ None \notin Entry

VARIABLES
  entries,    \* nodes: what each holds and where its tower is, or None
  links,      \* the link arena
  next_node,  \* nodes taken
  next_link,  \* links taken
  top,        \* levels a search walks
  bytes,      \* what approx_bytes reports below the pressure mark
  frozen,     \* the table no longer takes writes
  visited,    \* what for_each has handed to the flush, or None
  pc,         \* where each thread stands
  call,       \* the call it is in, or None
  result,     \* its result, from the step it takes effect in
  mine,       \* insert: the node being linked and the level it is at
  walk,       \* descend: node, level, preds and succs
  issued,     \* sequence numbers handed out
  gets,       \* lookups called
  failures,   \* rotations that failed
  replaying   \* records the open still has to replay

arena == <<entries, links, next_node, next_link, top, bytes>>
local == <<pc, call, result, mine, walk>>
vars == <<arena, frozen, visited, local, issued, gets, failures, replaying>>

HEAD == 0

\* SkipMemtable::new: nodes in the arena, the head included, and the number
\* taken at which the table reports itself full.
Capacity == Budget + Margin + 1
PressureAt == Max({Capacity - Margin, 1})

Levels == 0 .. MaxHeight - 1
NodeIndices == 0 .. Capacity - 1
Slots == 0 .. Capacity * LinksPerNode - 1
NoWalk == [node |-> HEAD, level |-> 0,
           preds |-> [l \in Levels |-> HEAD], succs |-> [l \in Levels |-> NIL]]
NoNode == [index |-> HEAD, level |-> 0]

\* The head owns the first tower.
Init ==
  /\ entries = [n \in NodeIndices |->
                  IF n = HEAD
                  THEN [key |-> 0, seq |-> 0,
                        tower |-> 0, height |-> MaxHeight]
                  ELSE None]
  /\ links = [s \in Slots |-> NIL]
  /\ next_node = 1 /\ next_link = MaxHeight
  /\ top = 1 /\ bytes = 0
  /\ frozen = FALSE /\ visited = None
  /\ pc = [t \in Threads |-> "idle"]
  /\ call = [t \in Threads |-> None]
  /\ result = [t \in Threads |-> None]
  /\ mine = [t \in Threads |-> NoNode]
  /\ walk = [t \in Threads |-> NoWalk]
  /\ issued = 0 /\ gets = 0 /\ failures = 0
  /\ replaying \in Replays

Goto(t, at) == pc' = [pc EXCEPT ![t] = at]
Slot(n, level) == entries[n].tower + level
NextOf(n, level) == links[Slot(n, level)]

\* order: by key ascending, then by sequence number descending.
Before(n, c) ==
  \/ entries[n].key < c.key
  \/ entries[n].key = c.key /\ entries[n].seq > c.seq

----------------------------------------------------------------------------
(* insert: taking a node and a tower *)

\* A write holds the log's read lock from its number to the size check.  A
\* replay inserts one record after the other and no writer is there yet.
InsertCall(t) ==
  /\ pc[t] = "idle" /\ ~frozen /\ issued < MaxSeq
  /\ replaying > 0 => \A u \in Threads : pc[u] = "idle"
  /\ issued' = issued + 1
  /\ \E key \in Keys :
       call' = [call EXCEPT ![t] =
                 [op |-> "insert", key |-> key, seq |-> issued']]
  /\ Goto(t, "node")
  /\ UNCHANGED <<arena, frozen, visited, result, mine, walk, gets, failures,
                 replaying>>

\* The arena being exhausted is a panic.
ReserveNode(t) ==
  /\ pc[t] = "node"
  /\ next_node' = next_node + 1
  /\ mine' = [mine EXCEPT ![t] = [index |-> next_node, level |-> 0]]
  /\ Goto(t, IF next_node < Capacity THEN "tower" ELSE "panicked")
  /\ UNCHANGED <<entries, links, next_link, top, bytes, frozen, visited, call,
                 result, walk, issued, gets, failures, replaying>>

\* reserve_tower: shortened to what the link arena has left.
Tower(height) == Min({height, Capacity * LinksPerNode - next_link})

\* The entry is complete before the node can be reached.
Publish(t) ==
  /\ pc[t] = "tower"
  /\ \E height \in 1 .. MaxHeight :
       LET cut == Tower(height)
           c == call[t]
       IN  IF cut = 0
           THEN Goto(t, "panicked") /\ UNCHANGED <<entries, next_link, bytes>>
           ELSE /\ next_link' = next_link + cut
                /\ bytes' = bytes + (IF c.key \in Light THEN 0 ELSE 1)
                /\ entries' = [entries EXCEPT ![mine[t].index] =
                     [key |-> c.key, seq |-> c.seq,
                      tower |-> next_link, height |-> cut]]
                /\ Goto(t, "raise")
  /\ UNCHANGED <<links, next_node, top, frozen, visited, call, result, mine,
                 walk, issued, gets, failures, replaying>>

RaiseTop(t) ==
  /\ pc[t] = "raise"
  /\ top' = Max({top, entries[mine[t].index].height})
  /\ Goto(t, "descend")
  /\ UNCHANGED <<entries, links, next_node, next_link, bytes, frozen, visited,
                 call, result, mine, walk, issued, gets, failures, replaying>>

----------------------------------------------------------------------------
(* descend: one load of a link per step *)

\* Mutant: the walk starts one level too high.
DescendHigh(t) ==
  /\ pc[t] = "descend"
  /\ walk' = [walk EXCEPT ![t].node = HEAD, ![t].level = top]
  /\ Goto(t, "walk")
  /\ UNCHANGED <<arena, frozen, visited, call, result, mine, issued, gets,
                 failures, replaying>>

\* Levels above the top read are known to be empty without being walked.
DescendStarts(t) ==
  /\ pc[t] = "descend"
  /\ walk' = [walk EXCEPT ![t] =
       [node |-> HEAD, level |-> top - 1,
        preds |-> [l \in Levels |-> IF l < top THEN walk[t].preds[l] ELSE HEAD],
        succs |-> [l \in Levels |-> IF l < top THEN walk[t].succs[l] ELSE NIL]]]
  /\ Goto(t, "walk")
  /\ UNCHANGED <<arena, frozen, visited, call, result, mine, issued, gets,
                 failures, replaying>>

\* Steps along a level while the next node sorts before what is looked for.
WalkStep(t) ==
  /\ pc[t] = "walk"
  /\ LET w == walk[t]
         next == NextOf(w.node, w.level)
     IN  /\ next # NIL
         /\ Before(next, call[t])
         /\ walk' = [walk EXCEPT ![t].node = next]
  /\ UNCHANGED <<arena, frozen, visited, pc, call, result, mine, issued, gets,
                 failures, replaying>>

\* What get makes of the first node not before its key.
Candidate(n, c) ==
  IF n = NIL \/ entries[n].key # c.key THEN {}
  ELSE {[key |-> c.key, seq |-> entries[n].seq]}

\* Where the last level of a walk leads: a lookup is done, an insert links its
\* bottom level or, walking again, the level it had failed at.
WalkEnds(t, next) ==
  IF call[t].op = "get"
  THEN /\ result' = [result EXCEPT ![t] = [found |-> Candidate(next, call[t])]]
       /\ Goto(t, "return")
  ELSE Goto(t, "store") /\ UNCHANGED result

\* The predecessor and the successor of a level come out of the same load.
WalkDown(t) ==
  /\ pc[t] = "walk"
  /\ LET w == walk[t]
         next == NextOf(w.node, w.level)
     IN  /\ next # NIL => ~Before(next, call[t])
         /\ walk' = [walk EXCEPT ![t] =
              [node |-> w.node, level |-> IF w.level = 0 THEN 0 ELSE w.level - 1,
               preds |-> [w.preds EXCEPT ![w.level] = w.node],
               succs |-> [w.succs EXCEPT ![w.level] = next]]]
         /\ IF w.level = 0 THEN WalkEnds(t, next) ELSE UNCHANGED <<pc, result>>
  /\ UNCHANGED <<arena, frozen, visited, call, mine, issued, gets, failures,
                 replaying>>

----------------------------------------------------------------------------
(* insert: linking the node, the bottom level first *)

\* Mutant: the successor is read again after the walk.
StoreLinkFresh(t) ==
  /\ pc[t] = "store"
  /\ LET m == mine[t]
         again == NextOf(walk[t].preds[m.level], m.level)
     IN  /\ links' = [links EXCEPT ![Slot(m.index, m.level)] = again]
         /\ walk' = [walk EXCEPT ![t].succs[m.level] = again]
  /\ Goto(t, "link")
  /\ UNCHANGED <<entries, next_node, next_link, top, bytes, frozen, visited,
                 call, result, mine, issued, gets, failures, replaying>>

StoreLink(t) ==
  /\ pc[t] = "store"
  /\ LET m == mine[t]
     IN  links' = [links EXCEPT ![Slot(m.index, m.level)] =
                                  walk[t].succs[m.level]]
  /\ Goto(t, "link")
  /\ UNCHANGED <<entries, next_node, next_link, top, bytes, frozen, visited,
                 call, result, mine, walk, issued, gets, failures, replaying>>

\* After the last level the insert is done with its walk; a replayed record is
\* not followed by a size check.
Linked(t) ==
  LET m == mine[t]
      last == m.level + 1 = entries[m.index].height
  IN  /\ mine' = [mine EXCEPT ![t] =
                    IF last THEN NoNode ELSE [m EXCEPT !.level = m.level + 1]]
      /\ walk' = IF last THEN [walk EXCEPT ![t] = NoWalk] ELSE walk
      /\ Goto(t, IF ~last THEN "store"
                 ELSE IF replaying > 0 THEN "return" ELSE "check")

\* Mutant: being linked anywhere counts as being the newest.
LinkNewest(t) ==
  /\ pc[t] = "link" /\ mine[t].level = 0
  /\ LET pred == walk[t].preds[0]
     IN  /\ links[Slot(pred, 0)] = walk[t].succs[0]
         /\ links' = [links EXCEPT ![Slot(pred, 0)] = mine[t].index]
         /\ result' = [result EXCEPT ![t] = [newest |-> TRUE]]
  /\ Linked(t)
  /\ UNCHANGED <<entries, next_node, next_link, top, bytes, frozen, visited,
                 call, issued, gets, failures, replaying>>

\* The insert takes effect here.  Nothing sorts between the node and its
\* predecessor, so only that one could be a newer version of the key.
LinkBottom(t) ==
  /\ pc[t] = "link" /\ mine[t].level = 0
  /\ LET pred == walk[t].preds[0]
     IN  /\ links[Slot(pred, 0)] = walk[t].succs[0]
         /\ links' = [links EXCEPT ![Slot(pred, 0)] = mine[t].index]
         /\ result' = [result EXCEPT ![t] =
              [newest |-> pred = HEAD \/ entries[pred].key # call[t].key]]
  /\ Linked(t)
  /\ UNCHANGED <<entries, next_node, next_link, top, bytes, frozen, visited,
                 call, issued, gets, failures, replaying>>

LinkUpper(t) ==
  /\ pc[t] = "link" /\ mine[t].level > 0
  /\ LET m == mine[t]
         slot == Slot(walk[t].preds[m.level], m.level)
     IN  /\ links[slot] = walk[t].succs[m.level]
         /\ links' = [links EXCEPT ![slot] = m.index]
  /\ Linked(t)
  /\ UNCHANGED <<entries, next_node, next_link, top, bytes, frozen, visited,
                 call, result, issued, gets, failures, replaying>>

\* Mutant: a failed level is tried again against the old pair.
LinkRetries(t) ==
  /\ pc[t] = "link"
  /\ LET m == mine[t]
     IN  links[Slot(walk[t].preds[m.level], m.level)] # walk[t].succs[m.level]
  /\ Goto(t, "store")
  /\ UNCHANGED <<arena, frozen, visited, call, result, mine, walk, issued, gets,
                 failures, replaying>>

\* The link moved: walk again.
LinkFails(t) ==
  /\ pc[t] = "link"
  /\ LET m == mine[t]
     IN  links[Slot(walk[t].preds[m.level], m.level)] # walk[t].succs[m.level]
  /\ Goto(t, "descend")
  /\ UNCHANGED <<arena, frozen, visited, call, result, mine, walk, issued, gets,
                 failures, replaying>>

----------------------------------------------------------------------------
(* The engine around the table: size check, freeze, flush, lookups *)

\* Mutant: only the bytes are reported.
ApproxBytesOnly == bytes

\* approx_bytes: running out of nodes reads as a full table.
ApproxBytes == IF next_node < PressureAt THEN bytes ELSE Max({bytes, Budget})

Returns(t) ==
  /\ call' = [call EXCEPT ![t] = None]
  /\ result' = [result EXCEPT ![t] = None]
  /\ Goto(t, "idle")

\* The end of a write: the size is read before the log's lock is let go.
Check(t) ==
  /\ pc[t] = "check"
  /\ IF ApproxBytes >= Budget
     THEN Goto(t, "rotate") /\ UNCHANGED <<call, result>>
     ELSE Returns(t)
  /\ UNCHANGED <<arena, frozen, visited, mine, walk, issued, gets, failures,
                 replaying>>

Writing(t) == call[t] # None /\ call[t].op = "insert"
                /\ pc[t] \notin {"rotate", "panicked"}

\* Mutant: the table is frozen under the feet of a writer.
RotateEarly(t) ==
  /\ pc[t] = "rotate" /\ ~frozen
  /\ frozen' = TRUE
  /\ Returns(t)
  /\ UNCHANGED <<arena, visited, mine, walk, issued, gets, failures, replaying>>

\* Freezing takes the log's lock for writing, so no writer is between its
\* number and its size check.
Rotate(t) ==
  /\ pc[t] = "rotate" /\ ~frozen
  /\ \A u \in Threads : ~Writing(u)
  /\ frozen' = TRUE
  /\ Returns(t)
  /\ UNCHANGED <<arena, visited, mine, walk, issued, gets, failures, replaying>>

\* Another writer froze it first.
RotateSkips(t) ==
  /\ pc[t] = "rotate" /\ frozen
  /\ Returns(t)
  /\ UNCHANGED <<arena, frozen, visited, mine, walk, issued, gets, failures,
                 replaying>>

\* The next log cannot be created: the write returns the error and the table
\* goes on taking writes.
RotateFails(t) ==
  /\ pc[t] = "rotate" /\ ~frozen /\ failures < MaxFailures
  /\ \A u \in Threads : ~Writing(u)
  /\ failures' = failures + 1
  /\ Returns(t)
  /\ UNCHANGED <<arena, frozen, visited, mine, walk, issued, gets, replaying>>

GetCall(t) ==
  /\ pc[t] = "idle" /\ gets < MaxGets /\ replaying = 0
  /\ gets' = gets + 1
  /\ \E key \in Keys :
       call' = [call EXCEPT ![t] =
                 [op |-> "get", key |-> key, seq |-> MaxSeq + 1]]
  /\ Goto(t, "descend")
  /\ UNCHANGED <<arena, frozen, visited, result, mine, walk, issued, failures,
                 replaying>>

\* A lookup, or one record of a replay, is over.
Return(t) ==
  /\ pc[t] = "return"
  /\ Returns(t)
  /\ walk' = [walk EXCEPT ![t] = NoWalk]
  /\ replaying' = IF Writing(t) THEN replaying - 1 ELSE replaying
  /\ UNCHANGED <<arena, frozen, visited, mine, issued, gets, failures>>

\* The nodes of a level, from the head on.
Chain(level) ==
  LET after[n \in NodeIndices] ==
        LET next == NextOf(n, level)
        IN  IF next = NIL THEN << >> ELSE <<next>> \o after[next]
  IN  after[HEAD]

RecordAt(n) == [key |-> entries[n].key, seq |-> entries[n].seq]

\* for_each over the frozen table, which nobody writes to any more: the first
\* node of each key.
ForEach ==
  /\ frozen /\ visited = None
  /\ LET chain == Chain(0)
         First(i) == i = 1 \/ entries[chain[i - 1]].key # entries[chain[i]].key
         firsts == SelectSeq([i \in DOMAIN chain |-> i], First)
     IN  visited' = [i \in DOMAIN firsts |-> RecordAt(chain[firsts[i]])]
  /\ UNCHANGED <<arena, frozen, local, issued, gets, failures, replaying>>

----------------------------------------------------------------------------
Work(t) ==
  \/ ReserveNode(t) \/ Publish(t) \/ RaiseTop(t)
  \/ DescendStarts(t) \/ WalkStep(t) \/ WalkDown(t)
  \/ StoreLink(t) \/ LinkBottom(t) \/ LinkUpper(t) \/ LinkFails(t)
  \/ Check(t) \/ Rotate(t) \/ RotateSkips(t) \/ RotateFails(t) \/ Return(t)

Next ==
  \/ \E t \in Threads : InsertCall(t) \/ GetCall(t) \/ Work(t)
  \/ ForEach

\* A thread inside a call is scheduled again.  Calls come as they please.
Spec == Init /\ [][Next]_vars /\ \A t \in Threads : WF_vars(Work(t))

----------------------------------------------------------------------------
(* Properties *)

\* The records a reader of the bottom level can reach, the newest of each key.
Visible ==
  LET all == {RecordAt(n) : n \in Range(Chain(0))}
  IN  {r \in all : \A o \in all : o.key = r.key => o.seq <= r.seq}

Map == INSTANCE Memtable WITH table <- Visible

\* The skip list is the map the trait promises: an insert takes effect at its
\* bottom compare-and-swap and reports rightly whether it is the newest version,
\* a lookup answers what the map holds at its last load.
Linearizable == Map!Spec

\* Every level is strictly sorted and holds only nodes of the level below; a
\* node whose insert is over stands on every level of its tower.
LevelsOrdered ==
  \A level \in Levels :
    LET chain == Chain(level)
    IN  /\ \A i \in 1 .. Len(chain) - 1 :
             Before(chain[i], entries[chain[i + 1]])
        /\ level > 0 => Range(chain) \subseteq Range(Chain(level - 1))
        /\ \A n \in 1 .. Min({next_node, Capacity}) - 1 :
             (\A t \in Threads : mine[t].index # n) =>
               (n \in Range(chain) <=> level < entries[n].height)

\* A search reads only links of the tower of the node it stands on, and only of
\* a node already published (the assertion in next, the expect in entry).
WalksInside ==
  \A t \in Threads : pc[t] = "walk" =>
    LET w == walk[t]
    IN  entries[w.node] # None /\ w.level < entries[w.node].height

\* The flush of a frozen table is handed the newest version of every key, once,
\* in key order, and nothing is inserted behind its back.
FlushVisitsNewest ==
  visited # None =>
    /\ Range(visited) = Visible
    /\ \A i \in 1 .. Len(visited) - 1 : visited[i].key < visited[i + 1].key

\* The panic of insert on an exhausted arena is never reached: the margin covers
\* the writers already past the size check when the table is frozen.
ArenaSuffices == \A t \in Threads : pc[t] # "panicked"

\* Every insert and every lookup ends, however the compare-and-swaps race.
CallsReturn == \A t \in Threads : []<>(call[t] = None)
=============================================================================
