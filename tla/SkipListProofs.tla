--------------------------- MODULE SkipListProofs ---------------------------
(***************************************************************************)
(* A search of the skip list never leaves the towers of the nodes it steps *)
(* onto, for any number of threads, levels, nodes and links.               *)
(***************************************************************************)
EXTENDS SkipList, TLAPS

\* A node is published and its tower reaches a level.
Stands(n, level) ==
  /\ n \in NodeIndices /\ entries[n] # None
  /\ level \in Levels /\ level < entries[n].height

Labels == {"idle", "node", "tower", "raise", "descend", "walk", "store", "link",
           "check", "rotate", "return", "panicked"}

\* Only the types that matter here.
ArenaTyped ==
  /\ entries \in [NodeIndices -> Entry \cup {None}]
  /\ DOMAIN links = Slots
  /\ next_node \in Nat \ {0}
  /\ next_link \in 0 .. Capacity * LinksPerNode
  /\ top \in 1 .. MaxHeight

\* Towers lie in the part of the link arena that was handed out; the rest of
\* both arenas is untouched, and the head is as tall as a node can be.
Towers ==
  /\ \A n \in NodeIndices : entries[n] # None =>
       /\ entries[n].tower + entries[n].height <= next_link
       /\ entries[n].height <= MaxHeight
  /\ entries[HEAD] # None /\ entries[HEAD].height = MaxHeight
  /\ \A n \in NodeIndices : n >= next_node => entries[n] = None
  /\ \A s \in Slots : s >= next_link => links[s] = NIL

\* No link belongs to two towers.
OneOwner ==
  \A n, m \in NodeIndices, i, j \in Levels :
    Stands(n, i) /\ Stands(m, j) /\ Slot(n, i) = Slot(m, j) => n = m /\ i = j

\* A link on a level leads to a node that reaches that level.
LinksInside ==
  \A n \in NodeIndices, level \in Levels :
    Stands(n, level) =>
      NextOf(n, level) = NIL \/ Stands(NextOf(n, level), level)

Walks == [node : NodeIndices, level : Levels,
          preds : [Levels -> NodeIndices],
          succs : [Levels -> NodeIndices \cup {NIL}]]

LocalTyped ==
  /\ pc \in [Threads -> Labels]
  /\ DOMAIN call = Threads
  /\ mine \in [Threads -> [index : Nat, level : Nat]]
  /\ walk \in [Threads -> Walks]
  /\ issued \in Nat

\* What a thread holds on to: a node taken and not published is its own, every
\* pair of an earlier walk still stands, and so does the node it is at.
Local(t) ==
  /\ pc[t] \in {"node", "tower"} => call[t].key \in Nat /\ call[t].seq \in Nat
  /\ pc[t] = "tower" =>
       /\ mine[t].index \in NodeIndices /\ mine[t].index < next_node
       /\ mine[t].level = 0
       /\ entries[mine[t].index] = None
  /\ pc[t] \notin {"node", "tower", "panicked"} =>
       Stands(mine[t].index, mine[t].level)
  /\ \A level \in Levels :
       /\ Stands(walk[t].preds[level], level)
       /\ walk[t].succs[level] = NIL \/ Stands(walk[t].succs[level], level)
  /\ pc[t] = "walk" => Stands(walk[t].node, walk[t].level)

Apart ==
  \A t, u \in Threads :
    t # u /\ pc[t] = "tower" /\ pc[u] = "tower" => mine[t].index # mine[u].index

SkipInv ==
  /\ ArenaTyped /\ Towers /\ OneOwner /\ LinksInside
  /\ LocalTyped /\ Apart /\ \A t \in Threads : Local(t)

----------------------------------------------------------------------------
(* The arenas, and steps that leave them alone *)

\* The arenas have room for the head (with_capacity).
LEMMA ArenaSize ==
  /\ MaxHeight \in Nat \ {0} /\ LinksPerNode \in Nat \ {0}
  /\ Capacity \in Nat \ {0} /\ Capacity * LinksPerNode \in Nat
  /\ MaxHeight <= Capacity * LinksPerNode
  /\ HEAD \in NodeIndices /\ 0 \in Levels
<1>1. /\ MaxHeight \in Nat \ {0} /\ LinksPerNode \in Nat \ {0}
      /\ Margin \in Nat /\ Budget \in Nat
      /\ MaxHeight <= (Budget + Margin + 1) * LinksPerNode
  BY ArenaAssumption
<1>2. Capacity \in Nat \ {0}
  BY <1>1 DEF Capacity
<1>3. Capacity * LinksPerNode \in Nat
  BY <1>1, <1>2
<1> QED
  BY <1>1, <1>2, <1>3 DEF Capacity, NodeIndices, Levels, HEAD

\* An empty table satisfies the invariant (with_capacity).
LEMMA SkipStarts == Init => SkipInv
<1> SUFFICES ASSUME Init
             PROVE  SkipInv
  OBVIOUS
<1>1. /\ entries = [n \in NodeIndices |->
                      IF n = HEAD
                      THEN [key |-> 0, seq |-> 0, tower |-> 0, height |-> MaxHeight]
                      ELSE None]
      /\ links = [s \in Slots |-> NIL]
      /\ next_node = 1 /\ next_link = MaxHeight /\ top = 1
      /\ pc = [t \in Threads |-> "idle"]
      /\ call = [t \in Threads |-> None]
      /\ mine = [t \in Threads |-> NoNode]
      /\ walk = [t \in Threads |-> NoWalk]
      /\ issued = 0
  BY DEF Init
<1>2. [key |-> 0, seq |-> 0, tower |-> 0, height |-> MaxHeight] \in Entry
  BY ArenaSize DEF Entry
<1>3. entries[HEAD] \in Entry /\ entries[HEAD] # None
      /\ entries[HEAD].height = MaxHeight /\ entries[HEAD].tower = 0
  BY <1>1, <1>2, ArenaSize, NamesAssumption
<1>4. ArenaTyped
  BY <1>1, <1>2, ArenaSize DEF ArenaTyped
<1>5. \A n \in NodeIndices : entries[n] # None => n = HEAD
  BY <1>1
<1>6. Towers
  BY <1>1, <1>3, <1>5, ArenaSize DEF Towers, HEAD, NodeIndices, Slots
<1>7. OneOwner
  BY <1>3, <1>5, ArenaSize DEF OneOwner, Stands, Slot, Levels
<1>8. \A l \in Levels : Stands(HEAD, l)
  BY <1>3, ArenaSize DEF Stands, Levels
<1>9. LinksInside
  <2> SUFFICES ASSUME NEW n \in NodeIndices, NEW l \in Levels, Stands(n, l)
               PROVE  NextOf(n, l) = NIL
    BY DEF LinksInside
  <2>1. n = HEAD
    BY <1>5 DEF Stands
  <2>2. Slot(n, l) \in Slots
    BY <2>1, <1>3, ArenaSize DEF Slot, Slots, Levels
  <2> QED
    BY <2>2, <1>1 DEF NextOf
<1>10. NoNode \in [index : Nat, level : Nat]
       /\ NoNode.index = HEAD /\ NoNode.level = 0
  BY DEF NoNode, HEAD
<1>11. /\ NoWalk \in Walks
       /\ \A l \in Levels : NoWalk.preds[l] = HEAD /\ NoWalk.succs[l] = NIL
  BY ArenaSize DEF NoWalk, Walks
<1>12. LocalTyped
  BY <1>1, <1>10, <1>11 DEF LocalTyped, Labels
<1>13. \A t \in Threads : Local(t)
  BY <1>1, <1>8, <1>10, <1>11, ArenaSize DEF Local
<1>14. Apart
  BY <1>1 DEF Apart
<1> QED
  BY <1>4, <1>6, <1>7, <1>9, <1>12, <1>13, <1>14 DEF SkipInv

\* A step that writes to neither arena keeps what is said of them, and every
\* node stands where it stood.
LEMMA ArenaAlone ==
  ASSUME SkipInv, entries' = entries, links' = links,
         next_node' = next_node, next_link' = next_link, top' \in 1 .. MaxHeight
  PROVE  /\ ArenaTyped' /\ Towers' /\ OneOwner' /\ LinksInside'
         /\ \A n, l : Stands(n, l) <=> Stands(n, l)'
<1>1. \A n, l : Stands(n, l) <=> Stands(n, l)'
  BY DEF Stands
<1>2. ArenaTyped'
  BY DEF SkipInv, ArenaTyped
<1>3. Towers'
  BY DEF SkipInv, Towers
<1>4. OneOwner'
  BY <1>1 DEF SkipInv, OneOwner, Slot
<1>5. LinksInside'
  BY <1>1 DEF SkipInv, LinksInside, NextOf, Slot
<1> QED
  BY <1>1, <1>2, <1>3, <1>4, <1>5

\* A thread that does not move keeps what it holds, as long as nodes stay where
\* they are and its own unpublished one is left to it.
LEMMA OthersKeep ==
  ASSUME NEW u \in Threads, Local(u),
         pc'[u] = pc[u], mine'[u] = mine[u], walk'[u] = walk[u],
         call'[u] = call[u],
         \A n, l : Stands(n, l) => Stands(n, l)',
         next_node \in Nat, next_node' \in Nat, next_node <= next_node',
         mine[u].index \in Nat,
         pc[u] = "tower" => entries'[mine[u].index] = None
  PROVE  Local(u)'
BY DEF Local

\* A link that is moved, on a level its tower has, to a node that reaches that
\* level keeps what is said of the arenas (the stores and compare-and-swaps of
\* insert).
LEMMA LinkWritten ==
  ASSUME SkipInv, NEW n, NEW l, NEW m,
         Stands(n, l), m = NIL \/ Stands(m, l),
         links' = [links EXCEPT ![Slot(n, l)] = m],
         entries' = entries, next_node' = next_node, next_link' = next_link,
         top' = top
  PROVE  /\ ArenaTyped' /\ Towers' /\ OneOwner' /\ LinksInside'
         /\ \A k, i : Stands(k, i) <=> Stands(k, i)'
<1>1. \A k, i : Stands(k, i) <=> Stands(k, i)'
  BY DEF Stands
<1>2. ArenaTyped'
  BY DEF SkipInv, ArenaTyped
<1>3. /\ n \in NodeIndices /\ l \in Levels
      /\ entries[n] \in Entry /\ l < entries[n].height
  BY DEF Stands, SkipInv, ArenaTyped
<1>4. Slot(n, l) \in Slots /\ Slot(n, l) < next_link
  <2>1. entries[n].tower + entries[n].height <= next_link
    BY <1>3 DEF SkipInv, Towers, Stands
  <2>2. entries[n].tower \in Nat /\ entries[n].height \in Nat /\ l \in Nat
    BY <1>3, ArenaSize DEF Entry, Levels
  <2>3. next_link \in Nat /\ next_link <= Capacity * LinksPerNode
    BY ArenaSize DEF SkipInv, ArenaTyped
  <2> QED
    BY <1>3, <2>1, <2>2, <2>3, ArenaSize DEF Slot, Slots
<1>5. Towers'
  <2>1. next_link \in Nat
    BY ArenaSize DEF SkipInv, ArenaTyped
  <2>2. \A s \in Slots : s >= next_link => s # Slot(n, l)
    BY <2>1, <1>4, ArenaSize DEF Slots
  <2>3. \A s \in Slots : s # Slot(n, l) => links'[s] = links[s]
    BY DEF SkipInv, ArenaTyped
  <2> QED
    BY <2>2, <2>3 DEF SkipInv, Towers
<1>6. OneOwner'
  BY <1>1 DEF SkipInv, OneOwner, Slot
<1>7. LinksInside'
  <2> SUFFICES ASSUME NEW k \in NodeIndices, NEW i \in Levels, Stands(k, i)
               PROVE  NextOf(k, i)' = NIL \/ Stands(NextOf(k, i)', i)
    BY <1>1 DEF LinksInside
  <2>1. Slot(k, i)' = Slot(k, i)
    BY DEF Slot
  <2>2. CASE Slot(k, i) = Slot(n, l)
    <3>1. k = n /\ i = l
      BY <2>2, <1>3 DEF SkipInv, OneOwner
    <3>2. NextOf(k, i)' = m
      BY <2>1, <2>2, <1>4 DEF NextOf, SkipInv, ArenaTyped
    <3> QED
      BY <3>1, <3>2
  <2>3. CASE Slot(k, i) # Slot(n, l)
    <3>1. NextOf(k, i)' = NextOf(k, i)
      BY <2>1, <2>3, <1>4 DEF NextOf, SkipInv, ArenaTyped
    <3> QED
      BY <3>1 DEF SkipInv, LinksInside
  <2> QED
    BY <2>2, <2>3
<1> QED
  BY <1>1, <1>2, <1>5, <1>6, <1>7

\* A step of one thread that publishes nothing: what is left to show is that
\* the thread's own state is in order.
LEMMA OneMoves ==
  ASSUME SkipInv, NEW t \in Threads,
         ArenaTyped', Towers', OneOwner', LinksInside',
         \A n, l : Stands(n, l) <=> Stands(n, l)',
         entries' = entries, next_node' = next_node,
         LocalTyped', Local(t)', pc'[t] # "tower",
         \A u \in Threads \ {t} :
           /\ pc'[u] = pc[u] /\ mine'[u] = mine[u]
           /\ walk'[u] = walk[u] /\ call'[u] = call[u]
  PROVE  SkipInv'
<1>1. ASSUME NEW u \in Threads, u # t
      PROVE  Local(u)'
  <2>1. Local(u) /\ next_node \in Nat /\ mine[u].index \in Nat
    BY DEF SkipInv, ArenaTyped, LocalTyped
  <2>2. pc[u] = "tower" => entries'[mine[u].index] = None
    BY <2>1 DEF Local
  <2> QED
    BY <1>1, <2>1, <2>2, OthersKeep
<1>2. Apart'
  BY DEF SkipInv, Apart
<1> QED
  BY <1>1, <1>2 DEF SkipInv

----------------------------------------------------------------------------
(* Every step keeps the invariant *)

\* Steps of a call that neither walk nor touch the arenas: starting a lookup or
\* an insert, the size check, rotations, a lost compare-and-swap.
LEMMA CallsKeep ==
  ASSUME SkipInv, NEW t \in Threads,
         \/ InsertCall(t) \/ GetCall(t) \/ LinkFails(t) \/ Check(t)
         \/ Rotate(t) \/ RotateSkips(t) \/ RotateFails(t)
  PROVE  SkipInv'
<1>1. /\ entries' = entries /\ links' = links /\ next_node' = next_node
      /\ next_link' = next_link /\ top' = top
      /\ mine' = mine /\ walk' = walk
  BY DEF InsertCall, GetCall, LinkFails, Check, Rotate, RotateSkips, RotateFails,
         arena
<1>2. top' \in 1 .. MaxHeight
  BY <1>1 DEF SkipInv, ArenaTyped
<1>3. /\ ArenaTyped' /\ Towers' /\ OneOwner' /\ LinksInside'
      /\ \A n, l : Stands(n, l) <=> Stands(n, l)'
  BY <1>1, <1>2, ArenaAlone
<1>4. /\ pc[t] \in {"idle", "link", "check", "rotate"}
      /\ \/ pc' = pc
         \/ \E at \in {"idle", "node", "descend", "rotate"} :
              pc' = [pc EXCEPT ![t] = at]
  BY DEF InsertCall, GetCall, LinkFails, Check, Rotate, RotateSkips, RotateFails,
         Returns, Goto
<1>5. /\ pc' \in [Threads -> Labels]
      /\ pc'[t] \in {"idle", "link", "check", "node", "descend", "rotate"}
      /\ \A u \in Threads \ {t} : pc'[u] = pc[u]
  BY <1>4 DEF SkipInv, LocalTyped, Labels
<1>6. /\ DOMAIN call' = Threads
      /\ \A u \in Threads \ {t} : call'[u] = call[u]
  BY DEF InsertCall, GetCall, LinkFails, Check, Rotate, RotateSkips, RotateFails,
         Returns, SkipInv, LocalTyped
<1>7. issued' \in Nat
  BY DEF InsertCall, GetCall, LinkFails, Check, Rotate, RotateSkips, RotateFails,
         SkipInv, LocalTyped
<1>8. LocalTyped'
  BY <1>1, <1>5, <1>6, <1>7 DEF SkipInv, LocalTyped
<1>9. pc'[t] = "node" => call'[t].key \in Nat /\ call'[t].seq \in Nat
  <2>1. CASE InsertCall(t)
    <3>1. PICK key \in Keys :
            call' = [call EXCEPT ![t] =
                      [op |-> "insert", key |-> key, seq |-> issued']]
      BY <2>1, Zenon DEF InsertCall
    <3> QED
      BY <3>1, <1>7, NamesAssumption DEF SkipInv, LocalTyped
  <2>2. CASE ~InsertCall(t)
    BY <2>2, <1>4 DEF GetCall, LinkFails, Check, Rotate, RotateSkips,
       RotateFails, Returns, Goto, SkipInv, LocalTyped
  <2> QED
    BY <2>1, <2>2
<1>10. Local(t)'
  BY <1>1, <1>3, <1>4, <1>5, <1>9 DEF SkipInv, Local
<1> QED
  BY <1>1, <1>3, <1>5, <1>6, <1>8, <1>10, OneMoves

\* Taking a node: the number is nobody else's (ReserveNode).
LEMMA ReserveKeeps ==
  ASSUME SkipInv, NEW t \in Threads, ReserveNode(t)
  PROVE  SkipInv'
<1>1. /\ pc[t] = "node" /\ next_node' = next_node + 1
      /\ mine' = [mine EXCEPT ![t] = [index |-> next_node, level |-> 0]]
      /\ pc' = [pc EXCEPT ![t] =
                  IF next_node < Capacity THEN "tower" ELSE "panicked"]
      /\ entries' = entries /\ links' = links /\ next_link' = next_link
      /\ top' = top /\ call' = call /\ walk' = walk /\ issued' = issued
  BY DEF ReserveNode, Goto
<1>2. next_node \in Nat \ {0} /\ next_node' \in Nat \ {0}
  BY <1>1 DEF SkipInv, ArenaTyped
<1>3. \A n, l : Stands(n, l) <=> Stands(n, l)'
  BY <1>1 DEF Stands
<1>4. ArenaTyped'
  BY <1>1, <1>2 DEF SkipInv, ArenaTyped
<1>5. Towers'
  BY <1>1, <1>2, ArenaSize DEF SkipInv, Towers, NodeIndices
<1>6. OneOwner'
  BY <1>1, <1>3 DEF SkipInv, OneOwner, Slot
<1>7. LinksInside'
  BY <1>1, <1>3 DEF SkipInv, LinksInside, NextOf, Slot
<1>8. /\ LocalTyped'
      /\ pc'[t] \in {"tower", "panicked"}
      /\ pc'[t] = "tower" => next_node < Capacity
      /\ mine'[t].index = next_node /\ mine'[t].level = 0
      /\ \A u \in Threads \ {t} : pc'[u] = pc[u] /\ mine'[u] = mine[u]
  BY <1>1, <1>2 DEF SkipInv, LocalTyped, Labels
<1>9. ASSUME NEW u \in Threads, u # t
      PROVE  Local(u)'
  <2>1. Local(u) /\ mine[u].index \in Nat
    BY DEF SkipInv, LocalTyped
  <2>2. pc[u] = "tower" => entries'[mine[u].index] = None
    BY <1>1, <2>1 DEF Local
  <2> QED
    BY <1>1, <1>2, <1>3, <1>8, <1>9, <2>1, <2>2, OthersKeep
<1>10. Local(t)'
  <2>1. Local(t) /\ call[t].key \in Nat /\ call[t].seq \in Nat
    BY <1>1 DEF SkipInv, Local
  <2>2. pc'[t] = "tower" =>
          /\ mine'[t].index \in NodeIndices /\ mine'[t].index < next_node'
          /\ entries'[mine'[t].index] = None
    <3>1. next_node < Capacity => next_node \in NodeIndices
      BY <1>2, ArenaSize DEF NodeIndices
    <3>2. next_node \in NodeIndices => entries[next_node] = None
      BY <1>2 DEF SkipInv, Towers
    <3> QED
      BY <1>1, <1>2, <1>8, <3>1, <3>2
  <2> QED
    BY <1>1, <1>3, <1>8, <2>1, <2>2 DEF Local
<1>11. Apart'
  <2>1. \A u \in Threads : pc[u] = "tower" => mine[u].index < next_node
    BY DEF SkipInv, Local
  <2>2. \A u \in Threads : mine[u].index \in Nat
    BY DEF SkipInv, LocalTyped
  <2>3. \A u \in Threads \ {t} : pc'[u] = "tower" => mine'[u].index # mine'[t].index
    BY <1>2, <1>8, <2>1, <2>2
  <2> QED
    BY <1>8, <2>3 DEF SkipInv, Apart
<1> QED
  BY <1>4, <1>5, <1>6, <1>7, <1>8, <1>9, <1>10, <1>11 DEF SkipInv

\* The smaller and the larger of two numbers.
LEMMA MinMaxOfTwo ==
  ASSUME NEW a \in Int, NEW b \in Int
  PROVE  /\ Min({a, b}) \in {a, b} /\ Min({a, b}) <= a /\ Min({a, b}) <= b
         /\ Max({a, b}) \in {a, b}
<1>1. \E x \in {a, b} : \A y \in {a, b} : x <= y
  OBVIOUS
<1>2. \E x \in {a, b} : \A y \in {a, b} : x >= y
  OBVIOUS
<1>3. Min({a, b}) \in {a, b} /\ \A y \in {a, b} : Min({a, b}) <= y
  BY <1>1 DEF Min
<1>4. Max({a, b}) \in {a, b}
  BY <1>2 DEF Max
<1> QED
  BY <1>3, <1>4

\* Publishing fills a node that only its thread knew, with a tower from the part
\* of the arena nobody had (Publish).
LEMMA PublishKeeps ==
  ASSUME SkipInv, NEW t \in Threads, Publish(t)
  PROVE  SkipInv'
<1>0. PICK at : at = mine[t].index
  OBVIOUS
<1>1. /\ pc[t] = "tower" /\ at \in NodeIndices /\ entries[at] = None
      /\ mine[t].level = 0
      /\ call[t].key \in Nat /\ call[t].seq \in Nat
  BY <1>0 DEF Publish, SkipInv, Local
<1>2. /\ links' = links /\ next_node' = next_node /\ top' = top
      /\ call' = call /\ mine' = mine /\ walk' = walk /\ issued' = issued
  BY DEF Publish
<1>3. /\ next_link \in Nat /\ next_link <= Capacity * LinksPerNode
      /\ Capacity * LinksPerNode \in Nat /\ MaxHeight \in Nat \ {0}
  BY ArenaSize DEF SkipInv, ArenaTyped
<1>4. CASE entries' = entries /\ next_link' = next_link /\ Goto(t, "panicked")
  <2>1. top' \in 1 .. MaxHeight
    BY <1>2 DEF SkipInv, ArenaTyped
  <2>2. /\ ArenaTyped' /\ Towers' /\ OneOwner' /\ LinksInside'
        /\ \A n, l : Stands(n, l) <=> Stands(n, l)'
    BY <1>2, <1>4, <2>1, ArenaAlone
  <2>3. /\ LocalTyped' /\ pc'[t] = "panicked"
        /\ \A u \in Threads \ {t} : pc'[u] = pc[u]
    BY <1>2, <1>4 DEF SkipInv, LocalTyped, Labels, Goto
  <2>4. Local(t)'
    BY <1>2, <2>2, <2>3, Zenon DEF SkipInv, Local
  <2> QED
    BY <1>2, <1>4, <2>2, <2>3, <2>4, OneMoves, Zenon
<1>5. ASSUME NEW cut \in Nat \ {0},
             cut <= MaxHeight, next_link + cut <= Capacity * LinksPerNode,
             next_link' = next_link + cut,
             entries' = [entries EXCEPT ![at] =
                           [key |-> call[t].key, seq |-> call[t].seq,
                            tower |-> next_link, height |-> cut]],
             pc' = [pc EXCEPT ![t] = "raise"]
      PROVE  SkipInv'
  <2> DEFINE new == [key |-> call[t].key, seq |-> call[t].seq,
                     tower |-> next_link, height |-> cut]
  <2>1. new \in Entry /\ new # None /\ new.tower = next_link /\ new.height = cut
    BY <1>1, <1>3, <1>5, NamesAssumption DEF Entry
  <2>2. /\ entries' \in [NodeIndices -> Entry \cup {None}]
        /\ entries'[at] = new
        /\ \A n \in NodeIndices : n # at => entries'[n] = entries[n]
    BY <1>1, <1>5, <2>1 DEF SkipInv, ArenaTyped
  <2> HIDE DEF new
  <2>3. \A n, l : Stands(n, l) => Stands(n, l)' /\ n # at
    BY <1>1, <2>2 DEF Stands
  <2>4. \A n, l : Stands(n, l)' => n = at \/ Stands(n, l)
    BY <2>2 DEF Stands
  <2>5. \A n \in NodeIndices : entries[n] # None =>
          /\ entries[n].tower \in Nat /\ entries[n].height \in Nat
          /\ entries[n].tower + entries[n].height <= next_link
          /\ entries[n].height <= MaxHeight
    BY DEF SkipInv, ArenaTyped, Towers, Entry
  <2>6. ArenaTyped'
    BY <1>2, <1>3, <1>5, <2>2 DEF SkipInv, ArenaTyped
  <2>7. at < next_node /\ at \in Nat /\ next_node \in Nat
    BY <1>0, <1>1 DEF SkipInv, Local, LocalTyped, ArenaTyped
  <2>8. Towers'
    <3>1. ASSUME NEW n \in NodeIndices, entries'[n] # None
          PROVE  /\ entries'[n].tower + entries'[n].height <= next_link'
                 /\ entries'[n].height <= MaxHeight
      BY <1>3, <1>5, <2>1, <2>2, <2>5, <3>1
    <3>2. HEAD # at /\ HEAD \in NodeIndices
      BY <1>1, ArenaSize, Zenon DEF SkipInv, Towers
    <3>3. entries'[HEAD] # None /\ entries'[HEAD].height = MaxHeight
      BY <2>2, <3>2 DEF SkipInv, Towers
    <3>4. \A n \in NodeIndices : n >= next_node' => entries'[n] = None
      <4> SUFFICES ASSUME NEW n \in NodeIndices, n >= next_node
                   PROVE  entries'[n] = None
        BY <1>2, Zenon
      <4>1. n \in Nat /\ entries[n] = None
        BY DEF SkipInv, Towers, NodeIndices
      <4>2. n # at
        BY <4>1, <2>7
      <4> QED
        BY <4>1, <4>2, <2>2, Zenon
    <3>5. \A s \in Slots : s >= next_link' => links'[s] = NIL
      <4>1. \A s \in Slots : s \in Int
        BY DEF Slots
      <4> QED
        BY <1>2, <1>3, <1>5, <4>1 DEF SkipInv, Towers
    <3> QED
      BY <3>1, <3>3, <3>4, <3>5 DEF Towers
  <2>9. \A l \in Levels : l \in Nat
    BY DEF Levels
  <2>10. ASSUME NEW n \in NodeIndices, NEW l \in Levels, Stands(n, l)
         PROVE  Slot(n, l)' = Slot(n, l) /\ Slot(n, l) < next_link
                /\ Slot(n, l) \in Nat
    BY <1>3, <2>2, <2>3, <2>5, <2>9, <2>10 DEF Slot, Stands
  <2>11. ASSUME NEW l \in Levels, Stands(at, l)'
         PROVE  Slot(at, l)' = next_link + l /\ l < cut
    BY <2>1, <2>2, <2>11 DEF Slot, Stands
  <2>12. OneOwner'
    <3> SUFFICES ASSUME NEW n \in NodeIndices, NEW m \in NodeIndices,
                        NEW i \in Levels, NEW j \in Levels,
                        Stands(n, i)', Stands(m, j)', Slot(n, i)' = Slot(m, j)'
                 PROVE  n = m /\ i = j
      BY DEF OneOwner
    <3>1. CASE n = at /\ m = at
      BY <3>1, <1>3, <2>9, <2>11
    <3>2. CASE n = at /\ m # at
      BY <3>2, <1>3, <2>4, <2>9, <2>10, <2>11
    <3>3. CASE n # at /\ m = at
      BY <3>3, <1>3, <2>4, <2>9, <2>10, <2>11
    <3>4. CASE n # at /\ m # at
      BY <3>4, <2>4, <2>10 DEF SkipInv, OneOwner
    <3> QED
      BY <3>1, <3>2, <3>3, <3>4
  <2>13. LinksInside'
    <3> SUFFICES ASSUME NEW n \in NodeIndices, NEW l \in Levels, Stands(n, l)'
                 PROVE  NextOf(n, l)' = NIL \/ Stands(NextOf(n, l), l)'
      BY DEF LinksInside
    <3>1. CASE n = at
      <4>1. next_link + l \in Slots
        BY <3>1, <1>3, <1>5, <2>9, <2>11 DEF Slots
      <4>2. links[next_link + l] = NIL
        BY <4>1, <1>3, <2>9 DEF SkipInv, Towers
      <4> QED
        BY <3>1, <4>2, <1>2, <2>11 DEF NextOf
    <3>2. CASE n # at
      <4>1. Stands(n, l)
        BY <3>2, <2>4
      <4>2. NextOf(n, l)' = NextOf(n, l)
        BY <4>1, <1>2, <2>10 DEF NextOf
      <4> QED
        BY <4>1, <4>2, <2>3 DEF SkipInv, LinksInside
    <3> QED
      BY <3>1, <3>2
  <2>14. /\ LocalTyped' /\ pc'[t] = "raise"
         /\ \A u \in Threads \ {t} : pc'[u] = pc[u]
    BY <1>2, <1>5 DEF SkipInv, LocalTyped, Labels
  <2>15. ASSUME NEW u \in Threads, u # t
         PROVE  Local(u)'
    <3>1. Local(u) /\ mine[u].index \in Nat
      BY DEF SkipInv, LocalTyped
    <3>2. pc[u] = "tower" => mine[u].index # at
      BY <1>0, <1>1, <2>15, Zenon DEF SkipInv, Apart
    <3>3. pc[u] = "tower" => entries'[mine[u].index] = None
      BY <2>2, <3>1, <3>2, Zenon DEF Local
    <3>4. /\ pc'[u] = pc[u] /\ mine'[u] = mine[u] /\ walk'[u] = walk[u]
          /\ call'[u] = call[u]
          /\ next_node' \in Nat /\ next_node <= next_node'
      BY <1>2, <2>7, <2>14, <2>15
    <3>5. \A n, l : Stands(n, l) => Stands(n, l)'
      BY <2>3
    <3> QED
      BY <2>7, <3>1, <3>3, <3>4, <3>5, OthersKeep, Zenon
  <2>16. Local(t)'
    <3>1. Stands(mine[t].index, mine[t].level)'
      BY <1>0, <1>1, <1>2, <1>5, <2>1, <2>2, ArenaSize, SMTT(60) DEF Stands
    <3>2. \A l \in Levels :
            /\ Stands(walk[t].preds[l], l)'
            /\ walk'[t].succs[l] = NIL \/ Stands(walk[t].succs[l], l)'
      BY <1>2, <2>3, Zenon DEF SkipInv, Local
    <3> QED
      BY <2>14, <3>1, <3>2 DEF Local
  <2>17. Apart'
    <3>1. Apart /\ mine' = mine
      BY <1>2, Zenon DEF SkipInv
    <3>2. \A u \in Threads : pc'[u] = "tower" => pc[u] = "tower"
      BY <2>14, Zenon
    <3> QED
      BY <3>1, <3>2, Zenon DEF Apart
  <2> QED
    BY <2>6, <2>8, <2>12, <2>13, <2>14, <2>15, <2>16, <2>17 DEF SkipInv
<1>6. PICK height \in 1 .. MaxHeight :
        IF Tower(height) = 0
        THEN Goto(t, "panicked") /\ UNCHANGED <<entries, next_link, bytes>>
        ELSE /\ next_link' = next_link + Tower(height)
             /\ entries' = [entries EXCEPT ![at] =
                  [key |-> call[t].key, seq |-> call[t].seq,
                   tower |-> next_link, height |-> Tower(height)]]
             /\ pc' = [pc EXCEPT ![t] = "raise"]
  BY <1>0, Zenon DEF Publish, Goto
<1>7. /\ Tower(height) \in Nat /\ Tower(height) <= MaxHeight
      /\ next_link + Tower(height) <= Capacity * LinksPerNode
  <2>1. PICK room : room = Capacity * LinksPerNode - next_link
    OBVIOUS
  <2>2. room \in Nat /\ height \in Nat /\ height <= MaxHeight
    BY <1>3, <2>1
  <2>3. Tower(height) = Min({height, room})
    BY <2>1 DEF Tower
  <2>4. /\ Min({height, room}) \in {height, room}
        /\ Min({height, room}) <= height /\ Min({height, room}) <= room
    BY <2>2, MinMaxOfTwo
  <2>5. /\ Tower(height) \in Nat /\ Tower(height) <= MaxHeight
        /\ Tower(height) <= room
    BY <1>3, <2>2, <2>3, <2>4
  <2> QED
    BY <1>3, <2>1, <2>5
<1>8. CASE Tower(height) = 0
  BY <1>4, <1>6, <1>8
<1>9. CASE Tower(height) # 0
  BY <1>5, <1>6, <1>7, <1>9
<1> QED
  BY <1>8, <1>9

\* The head stands on every level, so an empty walk stands too.
LEMMA HeadStands ==
  ASSUME SkipInv
  PROVE  /\ \A l \in Levels : Stands(HEAD, l)
         /\ NoWalk \in Walks
         /\ \A l \in Levels : NoWalk.preds[l] = HEAD /\ NoWalk.succs[l] = NIL
<1>1. \A l \in Levels : Stands(HEAD, l)
  BY ArenaSize DEF SkipInv, Towers, Stands, Levels
<1> QED
  BY <1>1, ArenaSize DEF NoWalk, Walks

\* A thread that only moves its search, to where nodes stand, keeps the
\* invariant.
LEMMA WalkMoves ==
  ASSUME SkipInv, NEW t \in Threads, NEW w \in Walks, NEW at \in Labels,
         entries' = entries, links' = links, next_node' = next_node,
         next_link' = next_link, top' \in 1 .. MaxHeight,
         mine' = mine, issued' = issued,
         pc[t] \notin {"node", "tower", "panicked"},
         at \notin {"node", "tower", "panicked"},
         pc' = [pc EXCEPT ![t] = at], walk' = [walk EXCEPT ![t] = w],
         DOMAIN call' = Threads,
         \A u \in Threads \ {t} : call'[u] = call[u],
         \A l \in Levels :
           Stands(w.preds[l], l) /\ (w.succs[l] = NIL \/ Stands(w.succs[l], l)),
         at = "walk" => Stands(w.node, w.level)
  PROVE  SkipInv'
<1>1. /\ ArenaTyped' /\ Towers' /\ OneOwner' /\ LinksInside'
      /\ \A n, l : Stands(n, l) <=> Stands(n, l)'
  BY ArenaAlone, Zenon
<1>2. /\ LocalTyped' /\ pc'[t] = at /\ walk'[t] = w
      /\ \A u \in Threads \ {t} : pc'[u] = pc[u] /\ walk'[u] = walk[u]
  BY DEF SkipInv, LocalTyped
<1>3. Stands(mine[t].index, mine[t].level)
  BY DEF SkipInv, Local
<1>4. Local(t)'
  <2>1. Stands(mine[t].index, mine[t].level)'
    BY <1>1, <1>3, Zenon
  <2>2. \A l \in Levels :
          /\ Stands(walk[t].preds[l], l)'
          /\ walk'[t].succs[l] = NIL \/ Stands(walk[t].succs[l], l)'
    BY <1>1, <1>2, SMTT(60)
  <2>3. pc'[t] = "walk" => Stands(walk[t].node, walk[t].level)'
    BY <1>1, <1>2
  <2> QED
    BY <1>2, <2>1, <2>2, <2>3, Zenon DEF Local
<1> QED
  BY <1>1, <1>2, <1>4, OneMoves, Zenon

\* Raising the number of levels searched stays within the head's tower
\* (RaiseTop).
LEMMA RaiseKeeps ==
  ASSUME SkipInv, NEW t \in Threads, RaiseTop(t)
  PROVE  SkipInv'
<1>1. PICK h : h = entries[mine[t].index].height
  OBVIOUS
<1>2. /\ pc[t] = "raise" /\ top' = Max({top, h})
      /\ pc' = [pc EXCEPT ![t] = "descend"]
      /\ entries' = entries /\ links' = links /\ next_node' = next_node
      /\ next_link' = next_link /\ mine' = mine /\ issued' = issued
      /\ call' = call /\ walk' = walk
  BY <1>1, Zenon DEF RaiseTop, Goto
<1>3. Stands(mine[t].index, mine[t].level)
  BY <1>2, Zenon DEF SkipInv, Local
<1>4. h \in 1 .. MaxHeight /\ top \in 1 .. MaxHeight
  <2>1. PICK n : n = mine[t].index
    BY Zenon
  <2>2. n \in NodeIndices /\ entries[n] # None /\ h = entries[n].height
    BY <1>1, <1>3, <2>1, Zenon DEF Stands
  <2>3. entries[n] \in Entry /\ top \in 1 .. MaxHeight
    BY <2>2 DEF SkipInv, ArenaTyped
  <2>4. entries[n].height <= MaxHeight
    BY <2>2 DEF SkipInv, Towers
  <2> QED
    BY <2>2, <2>3, <2>4, ArenaSize DEF Entry
<1>5. top' \in 1 .. MaxHeight
  <2>1. h \in Int /\ top \in Int
    BY <1>4
  <2>2. Max({top, h}) \in {top, h}
    BY <2>1, MinMaxOfTwo
  <2> QED
    BY <1>2, <1>4, <2>2
<1>6. /\ walk[t] \in Walks /\ walk' = [walk EXCEPT ![t] = walk[t]]
      /\ DOMAIN call' = Threads /\ "descend" \in Labels
  BY <1>2 DEF SkipInv, LocalTyped, Labels
<1>7. \A l \in Levels :
        /\ Stands(walk[t].preds[l], l)
        /\ walk[t].succs[l] = NIL \/ Stands(walk[t].succs[l], l)
  BY Zenon DEF SkipInv, Local
<1> QED
  BY <1>2, <1>5, <1>6, <1>7, WalkMoves, Zenon

\* A search starts at the head, on a level its tower has (DescendStarts).
LEMMA DescendKeeps ==
  ASSUME SkipInv, NEW t \in Threads, DescendStarts(t)
  PROVE  SkipInv'
<1>1. PICK w : w = [node |-> HEAD, level |-> top - 1,
         preds |-> [l \in Levels |-> IF l < top THEN walk[t].preds[l] ELSE HEAD],
         succs |-> [l \in Levels |-> IF l < top THEN walk[t].succs[l] ELSE NIL]]
  BY Zenon
<1>2. /\ pc[t] = "descend" /\ walk' = [walk EXCEPT ![t] = w]
      /\ pc' = [pc EXCEPT ![t] = "walk"]
      /\ entries' = entries /\ links' = links /\ next_node' = next_node
      /\ next_link' = next_link /\ top' = top /\ mine' = mine
      /\ issued' = issued /\ call' = call
  BY <1>1 DEF DescendStarts, Goto, arena
<1>3. top \in 1 .. MaxHeight /\ top - 1 \in Levels
  BY ArenaSize DEF SkipInv, ArenaTyped, Levels
<1>4. /\ walk[t] \in Walks /\ DOMAIN call' = Threads /\ "walk" \in Labels
  BY <1>2 DEF SkipInv, LocalTyped, Labels
<1>5. w \in Walks
  BY <1>1, <1>3, <1>4, ArenaSize, Zenon DEF Walks
<1>6. \A l \in Levels :
        /\ Stands(walk[t].preds[l], l)
        /\ walk[t].succs[l] = NIL \/ Stands(walk[t].succs[l], l)
  BY DEF SkipInv, Local
<1>7. \A l \in Levels :
        Stands(w.preds[l], l) /\ (w.succs[l] = NIL \/ Stands(w.succs[l], l))
  BY <1>1, <1>6, HeadStands, Zenon
<1>8. Stands(w.node, w.level)
  BY <1>1, <1>3, HeadStands
<1> QED
  BY <1>2, <1>3, <1>4, <1>5, <1>7, <1>8, WalkMoves, Zenon

\* A search steps along a level onto a node that reaches it, or goes down a
\* level on the node it is at (WalkStep, WalkDown).
LEMMA SearchKeeps ==
  ASSUME SkipInv, NEW t \in Threads, WalkStep(t) \/ WalkDown(t)
  PROVE  SkipInv'
<1>1. PICK node, level, next :
        node = walk[t].node /\ level = walk[t].level /\ next = NextOf(node, level)
  OBVIOUS
<1>2. /\ pc[t] = "walk"
      /\ entries' = entries /\ links' = links /\ next_node' = next_node
      /\ next_link' = next_link /\ top' = top /\ mine' = mine
      /\ issued' = issued /\ call' = call
  BY DEF WalkStep, WalkDown, arena
<1>3. /\ walk[t] \in Walks /\ DOMAIN call' = Threads
      /\ {"walk", "return", "store"} \subseteq Labels
      /\ pc \in [Threads -> Labels] /\ DOMAIN walk = Threads
  BY <1>2 DEF SkipInv, LocalTyped, Labels
<1>4. Stands(node, level) /\ node \in NodeIndices /\ level \in Levels
  BY <1>1, <1>2, Zenon DEF SkipInv, Local, Stands
<1>5. next = NIL \/ (Stands(next, level) /\ next \in NodeIndices)
  BY <1>1, <1>4, Zenon DEF SkipInv, LinksInside, Stands
<1>6. \A l \in Levels :
        /\ Stands(walk[t].preds[l], l)
        /\ walk[t].succs[l] = NIL \/ Stands(walk[t].succs[l], l)
  BY Zenon DEF SkipInv, Local
<1>7. top' \in 1 .. MaxHeight
  BY <1>2 DEF SkipInv, ArenaTyped
<1>8. CASE WalkStep(t)
  <2>1. PICK w : w = [walk[t] EXCEPT !.node = next]
    BY Zenon
  <2>2. /\ next # NIL /\ walk' = [walk EXCEPT ![t].node = next]
        /\ pc' = pc
    BY <1>1, <1>8 DEF WalkStep
  <2>3. walk' = [walk EXCEPT ![t] = w] /\ pc' = [pc EXCEPT ![t] = "walk"]
    BY <1>2, <1>3, <2>1, <2>2
  <2>4. /\ w \in Walks /\ w.node = next /\ w.level = level
        /\ w.preds = walk[t].preds /\ w.succs = walk[t].succs
    BY <1>1, <1>3, <1>5, <2>1, <2>2 DEF Walks
  <2>5. Stands(w.node, w.level)
    BY <1>5, <2>2, <2>4
  <2>6. \A l \in Levels :
          Stands(w.preds[l], l) /\ (w.succs[l] = NIL \/ Stands(w.succs[l], l))
    BY <1>6, <2>4, Zenon
  <2> QED
    BY <1>2, <1>3, <1>7, <2>3, <2>4, <2>5, <2>6, WalkMoves, Zenon
<1>9. CASE WalkDown(t)
  <2>1. PICK below : below = IF level = 0 THEN 0 ELSE level - 1
    OBVIOUS
  <2>2. PICK w : w = [node |-> node, level |-> below,
                      preds |-> [walk[t].preds EXCEPT ![level] = node],
                      succs |-> [walk[t].succs EXCEPT ![level] = next]]
    BY Zenon
  <2>3. below \in Levels /\ (level # 0 => below < level)
    BY <1>4, <2>1, ArenaSize DEF Levels
  <2>4. walk' = [walk EXCEPT ![t] = w]
    BY <1>1, <1>9, <2>1, <2>2 DEF WalkDown
  <2>5. PICK at \in {"walk", "return", "store"} :
          pc' = [pc EXCEPT ![t] = at] /\ (at = "walk" => level # 0)
    <3>1. IF level = 0 THEN WalkEnds(t, next) ELSE pc' = pc
      BY <1>1, <1>9 DEF WalkDown
    <3>2. CASE level = 0
      BY <3>1, <3>2 DEF WalkEnds, Goto
    <3>3. CASE level # 0
      BY <1>2, <1>3, <3>1, <3>3
    <3> QED
      BY <3>2, <3>3
  <2>6. w \in Walks
    BY <1>3, <1>4, <1>5, <2>2, <2>3, Zenon DEF Walks
  <2>7. at = "walk" => Stands(w.node, w.level)
    <3>1. /\ entries[node].height \in Nat /\ level \in Nat /\ below \in Nat
          /\ level < entries[node].height /\ entries[node] # None
      BY <1>4, <2>3, ArenaSize DEF Stands, SkipInv, ArenaTyped, Entry, Levels
    <3> QED
      <4>1. at = "walk" => below < entries[node].height
        BY <2>3, <2>5, <3>1
      <4>2. w.node = node /\ w.level = below
        BY <2>2, Zenon
      <4> QED
        BY <1>4, <2>3, <3>1, <4>1, <4>2, Zenon DEF Stands
  <2>8. ASSUME NEW l \in Levels
        PROVE  Stands(w.preds[l], l) /\ (w.succs[l] = NIL \/ Stands(w.succs[l], l))
    <3>1. CASE l = level
      <4>1. w.preds[l] = node /\ w.succs[l] = next
        BY <1>3, <2>2, <3>1 DEF Walks
      <4> QED
        BY <3>1, <4>1, <1>4, <1>5, Zenon
    <3>2. CASE l # level
      <4>1. w.preds[l] = walk[t].preds[l] /\ w.succs[l] = walk[t].succs[l]
        BY <1>3, <2>2, <3>2, Zenon DEF Walks
      <4> QED
        BY <4>1, <1>6
    <3> QED
      BY <3>1, <3>2, Zenon
  <2>9. at \in Labels /\ at \notin {"node", "tower", "panicked"}
    BY <1>3
  <2> QED
    BY <1>2, <1>3, <1>7, <2>4, <2>5, <2>6, <2>7, <2>8, <2>9, WalkMoves, Zenon
<1> QED
  BY <1>8, <1>9

\* A lookup, or a replayed record, gives up its walk (Return).
LEMMA ReturnKeeps ==
  ASSUME SkipInv, NEW t \in Threads, Return(t)
  PROVE  SkipInv'
<1>1. /\ pc[t] = "return" /\ walk' = [walk EXCEPT ![t] = NoWalk]
      /\ pc' = [pc EXCEPT ![t] = "idle"] /\ call' = [call EXCEPT ![t] = None]
      /\ entries' = entries /\ links' = links /\ next_node' = next_node
      /\ next_link' = next_link /\ top' = top /\ mine' = mine
      /\ issued' = issued
  BY DEF Return, Returns, Goto, arena
<1>2. /\ DOMAIN call' = Threads /\ top' \in 1 .. MaxHeight /\ "idle" \in Labels
      /\ \A u \in Threads \ {t} : call'[u] = call[u]
  BY <1>1 DEF SkipInv, LocalTyped, ArenaTyped, Labels
<1>3. \A l \in Levels :
        /\ Stands(NoWalk.preds[l], l)
        /\ NoWalk.succs[l] = NIL \/ Stands(NoWalk.succs[l], l)
  BY HeadStands
<1>4. NoWalk \in Walks
  BY HeadStands
<1> QED
  BY <1>1, <1>2, <1>3, <1>4, WalkMoves, Zenon

\* A node points at its successor before it is linked (StoreLink).
LEMMA StoreKeeps ==
  ASSUME SkipInv, NEW t \in Threads, StoreLink(t)
  PROVE  SkipInv'
<1>1. PICK n, l, m :
        n = mine[t].index /\ l = mine[t].level /\ m = walk[t].succs[l]
  OBVIOUS
<1>2. /\ pc[t] = "store" /\ links' = [links EXCEPT ![Slot(n, l)] = m]
      /\ pc' = [pc EXCEPT ![t] = "link"]
      /\ entries' = entries /\ next_node' = next_node
      /\ next_link' = next_link /\ top' = top /\ mine' = mine
      /\ walk' = walk /\ issued' = issued /\ call' = call
  BY <1>1, Zenon DEF StoreLink, Goto
<1>3. Stands(n, l) /\ (m = NIL \/ Stands(m, l))
  BY <1>1, <1>2, Zenon DEF SkipInv, Local, Stands
<1>4. /\ ArenaTyped' /\ Towers' /\ OneOwner' /\ LinksInside'
      /\ \A k, i : Stands(k, i) <=> Stands(k, i)'
  BY <1>2, <1>3, LinkWritten, Zenon
<1>5. /\ LocalTyped' /\ pc'[t] = "link"
      /\ \A u \in Threads \ {t} : pc'[u] = pc[u]
  BY <1>2 DEF SkipInv, LocalTyped, Labels
<1>6. Local(t)'
  BY <1>2, <1>4, <1>5, Zenon DEF SkipInv, Local
<1> QED
  BY <1>2, <1>4, <1>5, <1>6, OneMoves, Zenon

\* A level is linked by its compare-and-swap, and the insert goes on with the
\* next level of its tower or is done (LinkBottom, LinkUpper).
LEMMA LinkKeeps ==
  ASSUME SkipInv, NEW t \in Threads, LinkBottom(t) \/ LinkUpper(t)
  PROVE  SkipInv'
<1>1. PICK n, l, m :
        m = mine[t].index /\ l = mine[t].level /\ n = walk[t].preds[l]
  OBVIOUS
<1>2. /\ pc[t] = "link" /\ Linked(t)
      /\ links' = [links EXCEPT ![Slot(n, l)] = m]
      /\ entries' = entries /\ next_node' = next_node
      /\ next_link' = next_link /\ top' = top
      /\ issued' = issued /\ call' = call
  BY <1>1, Zenon DEF LinkBottom, LinkUpper
<1>3. Stands(m, l) /\ Stands(n, l)
  BY <1>1, <1>2, Zenon DEF SkipInv, Local, Stands
<1>4. /\ ArenaTyped' /\ Towers' /\ OneOwner' /\ LinksInside'
      /\ \A k, i : Stands(k, i) <=> Stands(k, i)'
  BY <1>2, <1>3, LinkWritten, Zenon
<1>5. /\ l \in Nat /\ m \in Nat /\ entries[m].height \in Nat
      /\ l < entries[m].height /\ entries[m].height <= MaxHeight
      /\ MaxHeight \in Nat
  BY <1>3, ArenaSize DEF SkipInv, ArenaTyped, Towers, Stands, Entry, Levels,
     NodeIndices
<1>6. \A k \in Levels :
        /\ Stands(walk[t].preds[k], k)
        /\ walk[t].succs[k] = NIL \/ Stands(walk[t].succs[k], k)
  BY Zenon DEF SkipInv, Local
<1>7. CASE l + 1 = entries[m].height
  <2>1. /\ mine' = [mine EXCEPT ![t] = NoNode]
        /\ walk' = [walk EXCEPT ![t] = NoWalk]
    BY <1>1, <1>2, <1>7 DEF Linked
  <2>2. PICK at \in {"return", "check"} : pc' = [pc EXCEPT ![t] = at]
    BY <1>1, <1>2, <1>7, Zenon DEF Linked, Goto
  <2>3. NoNode \in [index : Nat, level : Nat]
        /\ NoNode.index = HEAD /\ NoNode.level = 0
    BY DEF NoNode, HEAD
  <2>4. NoWalk \in Walks
    BY HeadStands
  <2>5. /\ LocalTyped' /\ pc'[t] = at /\ mine'[t] = NoNode /\ walk'[t] = NoWalk
        /\ \A u \in Threads \ {t} :
             pc'[u] = pc[u] /\ mine'[u] = mine[u] /\ walk'[u] = walk[u]
    BY <1>2, <2>1, <2>2, <2>3, <2>4 DEF SkipInv, LocalTyped, Labels
  <2>6. \A k \in Levels :
          Stands(HEAD, k)' /\ NoWalk.preds[k] = HEAD /\ NoWalk.succs[k] = NIL
    BY <1>4, HeadStands
  <2>7. Local(t)'
    BY <2>3, <2>5, <2>6, ArenaSize DEF Local
  <2> QED
    BY <1>2, <1>4, <2>5, <2>7, OneMoves, Zenon
<1>8. CASE l + 1 # entries[m].height
  <2>1. /\ mine' = [mine EXCEPT ![t] = [mine[t] EXCEPT !.level = l + 1]]
        /\ walk' = walk /\ pc' = [pc EXCEPT ![t] = "store"]
    BY <1>1, <1>2, <1>8 DEF Linked, Goto
  <2>2. /\ LocalTyped' /\ pc'[t] = "store"
        /\ mine'[t].index = m /\ mine'[t].level = l + 1
        /\ \A u \in Threads \ {t} : pc'[u] = pc[u] /\ mine'[u] = mine[u]
    BY <1>1, <1>2, <1>5, <2>1 DEF SkipInv, LocalTyped, Labels
  <2>3. Stands(m, l + 1)
    BY <1>3, <1>5, <1>8 DEF Stands, Levels
  <2>4. Local(t)'
    BY <1>4, <1>6, <2>1, <2>2, <2>3 DEF Local
  <2> QED
    BY <1>2, <1>4, <2>1, <2>2, <2>4, OneMoves
<1> QED
  BY <1>7, <1>8

\* A step that changes nothing a search depends on keeps the invariant (the
\* flush reading a frozen table, and stuttering).
LEMMA OthersStandStill ==
  ASSUME SkipInv, UNCHANGED <<arena, local, issued>>
  PROVE  SkipInv'
<1>1. /\ entries' = entries /\ links' = links /\ next_node' = next_node
      /\ next_link' = next_link /\ top' = top /\ pc' = pc /\ call' = call
      /\ mine' = mine /\ walk' = walk /\ issued' = issued
  BY DEF arena, local
<1>2. top' \in 1 .. MaxHeight
  BY <1>1 DEF SkipInv, ArenaTyped
<1>3. /\ ArenaTyped' /\ Towers' /\ OneOwner' /\ LinksInside'
      /\ \A n, l : Stands(n, l) <=> Stands(n, l)'
  BY <1>1, <1>2, ArenaAlone
<1>4. LocalTyped' /\ Apart'
  BY <1>1 DEF SkipInv, LocalTyped, Apart
<1>5. \A u \in Threads : Local(u)'
  BY <1>1, <1>3, Zenon DEF SkipInv, Local
<1> QED
  BY <1>3, <1>4, <1>5 DEF SkipInv

----------------------------------------------------------------------------
(* The result *)

\* Every step of the table keeps the invariant.
LEMMA StepsKeep == SkipInv /\ [Next]_vars => SkipInv'
<1> SUFFICES ASSUME SkipInv, [Next]_vars
             PROVE  SkipInv'
  OBVIOUS
<1>1. ASSUME NEW t \in Threads, InsertCall(t) \/ GetCall(t) \/ Work(t)
      PROVE  SkipInv'
  <2>1. CASE \/ InsertCall(t) \/ GetCall(t) \/ LinkFails(t) \/ Check(t)
             \/ Rotate(t) \/ RotateSkips(t) \/ RotateFails(t)
    BY <2>1, CallsKeep
  <2>2. CASE ReserveNode(t)
    BY <2>2, ReserveKeeps
  <2>3. CASE Publish(t)
    BY <2>3, PublishKeeps
  <2>4. CASE RaiseTop(t)
    BY <2>4, RaiseKeeps
  <2>5. CASE DescendStarts(t)
    BY <2>5, DescendKeeps
  <2>6. CASE WalkStep(t) \/ WalkDown(t)
    BY <2>6, SearchKeeps
  <2>7. CASE StoreLink(t)
    BY <2>7, StoreKeeps
  <2>8. CASE LinkBottom(t) \/ LinkUpper(t)
    BY <2>8, LinkKeeps
  <2>9. CASE Return(t)
    BY <2>9, ReturnKeeps
  <2> QED
    BY <1>1, <2>1, <2>2, <2>3, <2>4, <2>5, <2>6, <2>7, <2>8, <2>9 DEF Work
<1>2. CASE ForEach
  BY <1>2, OthersStandStill DEF ForEach
<1>3. CASE UNCHANGED vars
  BY <1>3, OthersStandStill DEF vars
<1> QED
  BY <1>1, <1>2, <1>3 DEF Next

\* However many threads insert and search at once, a search reads only links of
\* the tower of the node it stands on, and that node is published: the assertion
\* in next and the expect in entry never fire (descend, insert).
THEOREM SearchesStayInside == Spec => []WalksInside
<1>1. SkipInv => WalksInside
  BY DEF SkipInv, Local, Stands, WalksInside
<1> QED
  BY <1>1, SkipStarts, StepsKeep, PTL DEF Spec
=============================================================================
