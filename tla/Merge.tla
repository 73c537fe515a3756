------------------------------- MODULE Merge -------------------------------
(***************************************************************************)
(* The merge a compaction writes its outputs from (Merge in compaction.rs, *)
(* write_merged in engine.rs): the scans of the inputs are pulled one      *)
(* entry at a time through a heap, older versions of a key are skipped,    *)
(* tombstones that shadow nothing below are dropped, and the output is cut *)
(* into files.  A scan may end in an error.  Keys are integers here: the   *)
(* merge only compares them.                                               *)
(***************************************************************************)
EXTENDS Integers, SequencesExt

CONSTANTS
  Inputs,      \* sequences of scans: [entries, fails], entries sorted by key
  Below,       \* sets of keys the deeper levels may cover
  BlockLen,    \* entries that fill a block of an output
  Target       \* closed blocks at which an output file is sealed

VARIABLES
  scans,       \* what each scan has still to give
  heap,        \* [entry, source]: the next entry of each source
  failure,     \* an error was pulled and not reported yet
  covered,     \* keys a file below the output level covers
  outputs,     \* sealed output files, each the entries it holds
  current,     \* the output being written
  ended,       \* "no", "done" or "failed"
  given        \* history: the scans the merge was given

mergeVars == <<scans, heap, failure, covered, outputs, current, ended, given>>

\* pull: the next entry goes to the heap, an error is remembered and the scan
\* has nothing more to give, the end leaves the source out.
Pulled(m, s) ==
  LET scan == m.scans[s]
  IN  IF scan.entries # << >>
      THEN [m EXCEPT !.heap = @ \cup {[entry |-> Head(scan.entries), source |-> s]},
                     !.scans[s].entries = Tail(@)]
      ELSE [m EXCEPT !.failure = @ \/ scan.fails, !.scans[s].fails = FALSE]

PulledFrom(m, sources) ==
  FoldSet(LAMBDA s, acc : Pulled(acc, s), m, sources)

\* Head's order: the smallest key first, then the newest version of it, then
\* the earliest source.
Before(a, b) ==
  \/ a.entry.key < b.entry.key
  \/ /\ a.entry.key = b.entry.key
     /\ \/ a.entry.seq > b.entry.seq
        \/ a.entry.seq = b.entry.seq /\ a.source < b.source

Top(h) == CHOOSE a \in h : \A b \in h \ {a} : Before(a, b)

\* Versions of one key behind the head are popped one by one, and each pop
\* pulls its source again.
Skipped(m, key) ==
  LET skip[n \in 0 .. Len(given)] ==
        LET before == IF n = 0 THEN m ELSE skip[n - 1]
            stale == {a \in before.heap : a.entry.key = key}
            top == Top(before.heap)
        IN  IF stale = {} THEN before
            ELSE Pulled([before EXCEPT !.heap = @ \ {top}], top.source)
  IN  skip[Len(given)]

\* tombstone_needed
Needed(entry) == ~entry.deleted \/ entry.key \in covered

\* The loop body of write_merged; bytes_written counts closed blocks only.
Written(entry) ==
  LET file == Append(current, entry)
  IN  IF ~Needed(entry) THEN UNCHANGED <<outputs, current>>
      ELSE IF Len(file) \div BlockLen >= Target
           THEN outputs' = Append(outputs, file) /\ current' = << >>
           ELSE current' = file /\ UNCHANGED outputs

MergeInit ==
  /\ given \in Inputs /\ covered \in Below
  /\ LET start == PulledFrom([scans |-> given, heap |-> {}, failure |-> FALSE],
                             DOMAIN given)
     IN  scans = start.scans /\ heap = start.heap /\ failure = start.failure
  /\ outputs = << >> /\ current = << >> /\ ended = "no"

\* next, when it has an entry to give, and what write_merged does with it.
MergeEntry ==
  /\ ended = "no" /\ ~failure /\ heap # {}
  /\ LET top == Top(heap)
         popped == [scans |-> scans, heap |-> heap \ {top}, failure |-> failure]
         after == Skipped(Pulled(popped, top.source), top.entry.key)
     IN  /\ scans' = after.scans /\ heap' = after.heap /\ failure' = after.failure
         /\ Written(top.entry)
  /\ UNCHANGED <<covered, ended, given>>

\* Mutant: an error ends the stream as its end would.
MergeFailsQuietly ==
  /\ ended = "no" /\ failure
  /\ failure' = FALSE /\ heap' = {} /\ ended' = "done"
  /\ outputs' = IF current = << >> THEN outputs ELSE Append(outputs, current)
  /\ current' = << >>
  /\ UNCHANGED <<scans, covered, given>>

\* An error is reported before any other entry, and write_merged returns it:
\* what it has written is left behind, in no manifest.
MergeFails ==
  /\ ended = "no" /\ failure
  /\ failure' = FALSE /\ heap' = {} /\ ended' = "failed"
  /\ UNCHANGED <<scans, covered, outputs, current, given>>

\* The sources are exhausted: the file being written is sealed.
MergeDone ==
  /\ ended = "no" /\ ~failure /\ heap = {}
  /\ outputs' = IF current = << >> THEN outputs ELSE Append(outputs, current)
  /\ current' = << >> /\ ended' = "done"
  /\ UNCHANGED <<scans, heap, failure, covered, given>>

MergeNext == MergeEntry \/ MergeFails \/ MergeDone

\* The newest version of every key the inputs hold, in key order, without the
\* tombstones nothing below needs.
Versions == UNION {Range(given[s].entries) : s \in DOMAIN given}
Newest == {e \in Versions : \A f \in Versions : f.key = e.key => f.seq <= e.seq}
Wanted == SetToSortSeq({e \in Newest : Needed(e)}, LAMBDA a, b : a.key < b.key)

\* A merge that ends well has written exactly the newest version of every key,
\* in order and each once, over all its output files; no output is empty; and
\* it does not end well when one of its inputs could not be read to the end,
\* so a compaction never deletes inputs it has only partly copied.
MergeIsComplete ==
  ended = "done" =>
    /\ FlattenSeq(outputs) = Wanted
    /\ \A i \in DOMAIN outputs : outputs[i] # << >>
    /\ \A s \in DOMAIN given : ~given[s].fails
=============================================================================
