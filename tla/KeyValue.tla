------------------------------ MODULE KeyValue ------------------------------
(***************************************************************************)
(* What the engine promises its callers (the public methods of engine.rs), *)
(* with no logs, memtables, files or background work: a map that writes    *)
(* take effect on one at a time.  A write is issued, then applied, and is  *)
(* promised once it or a sync has returned.  The store may stop at any     *)
(* moment; it starts again with the writes issued up to some point, which  *)
(* has every promised one before it.                                       *)
(***************************************************************************)
EXTENDS Integers, FiniteSets

CONSTANTS Keys, None

VARIABLES
  up,         \* the store is open
  data,       \* what a read of each key answers
  issued,     \* writes, as [seq, key, deleted]
  applied,    \* those that took effect
  promised    \* those that survive

\* The answer for a key when exactly these writes took effect.
Answer(writes, key) ==
  LET mine == {r \in writes : r.key = key}
      newest == CHOOSE r \in mine : \A o \in mine : o.seq <= r.seq
  IN  IF mine = {} THEN None
      ELSE IF newest.deleted THEN None ELSE newest.seq

Contents(writes) == [key \in Keys |-> Answer(writes, key)]

Init ==
  /\ up = FALSE /\ data = Contents({})
  /\ issued = {} /\ applied = {} /\ promised = {}

\* A write gets the next number.
Issue ==
  /\ up /\ up'
  /\ \E r \in issued' :
       /\ issued' = issued \cup {r}
       /\ \A o \in issued : o.seq < r.seq
  /\ UNCHANGED <<data, applied, promised>>

\* A write takes effect, and may be safe by then.
Apply ==
  /\ up /\ up'
  /\ applied' \subseteq issued
  /\ \E r \in applied' : applied' = applied \cup {r} /\ promised' \in {promised, promised \cup {r}}
  /\ data' = Contents(applied')
  /\ UNCHANGED issued

\* A sync promises writes that took effect.
Promise ==
  /\ up /\ up'
  /\ promised \subseteq promised' /\ promised' \subseteq applied
  /\ UNCHANGED <<data, issued, applied>>

Stop ==
  /\ up /\ ~up'
  /\ data' = Contents({})
  /\ UNCHANGED <<issued, applied, promised>>

Start ==
  /\ ~up /\ up'
  /\ \E end \in {0} \cup {r.seq : r \in issued} :
       issued' = {r \in issued : r.seq <= end}
  /\ applied' = issued' /\ promised \subseteq issued'
  /\ data' = Contents(applied')
  /\ UNCHANGED promised

Next == Issue \/ Apply \/ Promise \/ Stop \/ Start

vars == <<up, data, issued, applied, promised>>

Spec == Init /\ [][Next]_vars
=============================================================================
