------------------------------ MODULE Memtable ------------------------------
(***************************************************************************)
(* What a memtable promises the engine (the Memtable trait, memtable.rs):  *)
(* it behaves like one map from keys to their newest record, whichever     *)
(* order concurrent inserts arrive in.  Every call takes effect in a       *)
(* single step between its start and its return.                           *)
(***************************************************************************)
EXTENDS Integers, FiniteSets

CONSTANTS
  Threads,    \* callers
  Keys,       \* a set of numbers, in key order
  None,       \* no call, no result, no record
  MaxSeq      \* bound: inserts ever called

VARIABLES
  table,      \* the newest record of each key
  call,       \* the call each thread is in, or None
  result,     \* what it will return, once it has taken effect
  issued      \* sequence numbers the log has handed out

abstract == <<call, result, issued, table>>

Init ==
  /\ table = {}
  /\ call = [t \in Threads |-> None]
  /\ result = [t \in Threads |-> None]
  /\ issued = 0

\* The log numbers a mutation before the memtable sees it, so inserts may take
\* effect in another order than their numbers.
InsertCall(t) ==
  /\ call[t] = None /\ issued < MaxSeq
  /\ issued' = issued + 1
  /\ \E key \in Keys :
       call' = [call EXCEPT ![t] =
                 [op |-> "insert", key |-> key, seq |-> issued']]
  /\ UNCHANGED <<table, result>>

GetCall(t) ==
  /\ call[t] = None
  /\ \E key \in Keys :
       call' = [call EXCEPT ![t] =
                 [op |-> "get", key |-> key, seq |-> MaxSeq + 1]]
  /\ UNCHANGED <<table, result, issued>>

\* The record a call inserts.
RecordOf(c) == [key |-> c.key, seq |-> c.seq]

Held(key) == {r \in table : r.key = key}

\* insert: the higher sequence number wins, and the caller hears whether it was
\* its own.
Insert(t) ==
  /\ call[t] # None /\ result[t] = None
  /\ call[t].op = "insert"
  /\ \E newest \in BOOLEAN :
       LET r == RecordOf(call[t])
       IN  /\ result' = [result EXCEPT ![t] = [newest |-> newest]]
           /\ newest <=> \A o \in Held(r.key) : o.seq < r.seq
           /\ table' = IF newest THEN (table \ Held(r.key)) \cup {r} ELSE table
  /\ UNCHANGED <<call, issued>>

\* get: the newest record of the key, none if there is none.
Get(t) ==
  /\ call[t] # None /\ result[t] = None
  /\ call[t].op = "get"
  /\ result' = [result EXCEPT ![t] = [found |-> Held(call[t].key)]]
  /\ UNCHANGED <<table, call, issued>>

Return(t) ==
  /\ result[t] # None
  /\ call' = [call EXCEPT ![t] = None]
  /\ result' = [result EXCEPT ![t] = None]
  /\ UNCHANGED <<table, issued>>

Next == \E t \in Threads :
  InsertCall(t) \/ GetCall(t) \/ Insert(t) \/ Get(t) \/ Return(t)

Spec == Init /\ [][Next]_abstract
=============================================================================
