------------------------------ MODULE LogFile ------------------------------
(***************************************************************************)
(* One log file, cell by cell (wal/record.rs, wal/reader.rs and recover in *)
(* wal.rs): the header, framed records, what a crash leaves of the cells   *)
(* that were not flushed, replay and the truncation of a torn tail.  The   *)
(* module Wal takes a log as a sequence of records: this one is about what *)
(* makes that a fair picture.                                              *)
(***************************************************************************)
EXTENDS Coding

CONSTANTS
  LogRecords,  \* mutations a writer may append, their numbers aside
  MaxAppends,  \* bound: records ever appended
  MaxCrashes   \* bound: crashes

VARIABLES
  log,         \* the cells of the file
  synced,      \* how many of them are on the device
  open,        \* the log is open for appending
  wrote,       \* history: the records the file is meant to hold
  kept,        \* history: how many of them have been flushed
  appends, crashes

logVars == <<log, synced, open, wrote, kept, appends, crashes>>

Header == <<Magic, Version>>

\* encode: the checksum covers the length as well as the payload.
Encode(r) ==
  LET framed == <<Len(Payload(r))>> \o Payload(r)
  IN  <<Check(framed)>> \o framed

\* read_record, at a position: intact, torn, or the end of the file.
Torn == [tag |-> "torn"]
ReadRecord(cells, pos) ==
  LET left == Len(cells) - pos
      len == cells[pos + 2]
      payload == SubSeq(cells, pos + 3, pos + 2 + len)
      taken == TakeRecord(payload)
  IN  IF left = 0 THEN [tag |-> "end"]
      ELSE IF left < 2 THEN Torn
      ELSE IF len > left - 2 THEN Torn
      ELSE IF cells[pos + 1] # Check(<<len>> \o payload) THEN Torn
      ELSE IF ~taken.ok THEN Torn
      ELSE IF taken.rest # << >> THEN Torn
      ELSE [tag |-> "record", record |-> taken.record, next |-> pos + 2 + len]

\* Replay: the records up to the first that is not intact, the length they
\* take, and whether something torn follows.
Replay(cells) ==
  LET from[pos \in 0 .. Len(cells)] ==
        LET read == ReadRecord(cells, pos)
        IN  CASE read.tag = "end" ->
                   [records |-> << >>, valid |-> pos, torn |-> FALSE]
              [] read.tag = "torn" ->
                   [records |-> << >>, valid |-> pos, torn |-> TRUE]
              [] read.tag = "record" ->
                   [from[read.next] EXCEPT !.records = <<read.record>> \o @]
  IN  IF Len(cells) < Len(Header)
      THEN [records |-> << >>, valid |-> 0, torn |-> cells # << >>]
      ELSE from[Len(Header)]

\* Only a file with the log's header is replayed.
Readable(cells) == Len(cells) >= Len(Header) => SubSeq(cells, 1, 2) = Header

LogInit ==
  /\ log = << >> /\ synced = 0 /\ open = FALSE
  /\ wrote = << >> /\ kept = 0
  /\ appends = 0 /\ crashes = 0

\* Mutant: a torn tail stays in the file.
LogRecoverKeepsTail ==
  /\ ~open /\ Readable(log)
  /\ LET found == Replay(log)
     IN  /\ wrote' = found.records
         /\ kept' = Len(found.records)
         /\ IF found.valid = 0
            THEN log' = Header /\ synced' = Len(Header)
            ELSE log' = log /\ synced' = Min({synced, Len(log)})
  /\ open' = TRUE
  /\ UNCHANGED <<appends, crashes>>

\* recover: a file without a usable header gets a fresh one, which is flushed;
\* a torn tail is cut off before anything is appended behind it.
LogRecover ==
  /\ ~open /\ Readable(log)
  /\ LET found == Replay(log)
     IN  /\ wrote' = found.records
         /\ kept' = Len(found.records)
         /\ IF found.valid = 0
            THEN log' = Header /\ synced' = Len(Header)
            ELSE /\ log' = SubSeq(log, 1, found.valid)
                 /\ synced' = Min({synced, found.valid})
  /\ open' = TRUE
  /\ UNCHANGED <<appends, crashes>>

LogAppend ==
  /\ open /\ appends < MaxAppends
  /\ appends' = appends + 1
  /\ \E m \in LogRecords :
       LET r == [m EXCEPT !.seq = appends']
       IN  log' = log \o Encode(r) /\ wrote' = Append(wrote, r)
  /\ UNCHANGED <<synced, open, kept, crashes>>

LogSync ==
  /\ open /\ synced < Len(log)
  /\ synced' = Len(log) /\ kept' = Len(wrote)
  /\ UNCHANGED <<log, open, wrote, appends, crashes>>

\* The machine goes down: what was flushed is kept.  The rest is cut anywhere,
\* and a run of it may never have been written: it reads as zeros.
LogCrash ==
  /\ open /\ crashes < MaxCrashes
  /\ crashes' = crashes + 1
  /\ \E length \in synced .. Len(log) :
       \E first \in synced + 1 .. length + 1, last \in synced .. length :
         log' = [i \in 1 .. length |-> IF i \in first .. last THEN 0 ELSE log[i]]
  /\ synced' = Len(log')
  /\ open' = FALSE
  /\ UNCHANGED <<wrote, kept, appends>>

\* recover is itself cut short while it writes the header: nothing, or part of
\* it, is there.
LogCreateCrash ==
  /\ ~open /\ Replay(log).valid = 0 /\ crashes < MaxCrashes
  /\ crashes' = crashes + 1
  /\ \E n \in 0 .. Len(Header) : log' = SubSeq(Header, 1, n)
  /\ synced' = Len(log')
  /\ UNCHANGED <<open, wrote, kept, appends>>

LogNext == LogRecover \/ LogAppend \/ LogSync \/ LogCrash \/ LogCreateCrash

\* A replay of the file, at any moment, finds the records it is meant to hold:
\* all of them while it is open, and after a crash an unbroken run from the
\* first on that has every record that was flushed.  Nothing appended after a
\* recovery is ever hidden behind what the crash left.
ReplayFindsLog ==
  /\ Readable(log)
  /\ LET found == Replay(log).records
     IN  IF open THEN found = wrote
         ELSE IsPrefix(found, wrote) /\ Len(found) >= kept
=============================================================================
