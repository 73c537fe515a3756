---------------------------- MODULE ManifestFile ----------------------------
(***************************************************************************)
(* How the manifest is replaced (store and load in manifest.rs): a whole   *)
(* new file is written beside the old one, flushed, renamed over it, and   *)
(* the directory is flushed.  Any of the steps may fail, and the process   *)
(* may die after any of them.  A file that was not flushed keeps a prefix  *)
(* of its cells; a rename the directory was not flushed after may be       *)
(* undone.                                                                 *)
(***************************************************************************)
EXTENDS Integers, Sequences

CONSTANTS
  Snapshots,        \* states the engine may ask to store
  ToCells(_),       \* Snapshot::encode
  FromCells(_),     \* Snapshot::decode
  Unreadable        \* decode's None

\* What is encoded is read back (ManifestCodec).
ASSUME CodecAssumption ==
  /\ Unreadable \notin Snapshots
  /\ \A s \in Snapshots :
       ToCells(s) \in Seq(Int) /\ FromCells(ToCells(s)) = s

VARIABLES
  temp,        \* MANIFEST.tmp: [cells, synced]
  named,       \* MANIFEST, as the running process sees it
  undone,      \* what MANIFEST may be again after a crash
  step,        \* "idle", or the last step of store that is done
  storing,     \* the snapshot being stored
  committed,   \* the snapshot of the last store that returned, or was loaded
  attempted    \* history: snapshots whose store failed or is under way since

manifestVars == <<temp, named, undone, step, storing, committed, attempted>>

File(cells, synced) == [cells |-> cells, synced |-> synced]
Whole(s) == File(ToCells(s), TRUE)

\* load, by what it makes of the cells under the name.
Load == FromCells(named.cells)

\* A store that has committed once; before that there is no manifest, which the
\* module Store is about.
ManifestInit ==
  /\ storing \in Snapshots /\ committed = storing
  /\ temp = File(<< >>, FALSE)
  /\ named = Whole(storing)
  /\ undone = {} /\ step = "idle" /\ attempted = {}

\* store: encode, and create the temporary file, emptying what a store that
\* failed may have left there.
CreateTemp ==
  /\ step = "idle"
  /\ \E s \in Snapshots : storing' = s /\ attempted' = attempted \cup {s}
  /\ temp' = File(<< >>, FALSE)
  /\ step' = "created"
  /\ UNCHANGED <<named, undone, committed>>

WriteTemp ==
  /\ step = "created"
  /\ temp' = File(ToCells(storing), FALSE)
  /\ step' = "written"
  /\ UNCHANGED <<named, undone, storing, committed, attempted>>

\* Mutant: the flush is left to the system.
SyncTempLater ==
  /\ step = "written"
  /\ step' = "synced"
  /\ UNCHANGED <<temp, named, undone, storing, committed, attempted>>

SyncTemp ==
  /\ step = "written"
  /\ temp' = [temp EXCEPT !.synced = TRUE]
  /\ step' = "synced"
  /\ UNCHANGED <<named, undone, storing, committed, attempted>>

Rename ==
  /\ step = "synced"
  /\ undone' = undone \cup {named}
  /\ named' = temp
  /\ temp' = File(<< >>, FALSE)
  /\ step' = "renamed"
  /\ UNCHANGED <<storing, committed, attempted>>

\* Mutant: store returns without flushing the directory.
SyncDirectoryLater ==
  /\ step = "renamed"
  /\ committed' = storing /\ attempted' = {}
  /\ step' = "idle"
  /\ UNCHANGED <<temp, named, undone, storing>>

SyncDirectory ==
  /\ step = "renamed"
  /\ undone' = {}
  /\ committed' = storing /\ attempted' = {}
  /\ step' = "idle"
  /\ UNCHANGED <<temp, named, storing>>

\* Any step may fail: store returns the error and the engine keeps the
\* snapshot it had.  A write that fails may have written a part.
StoreFails ==
  /\ step # "idle" /\ step' = "idle"
  /\ \/ UNCHANGED temp
     \/ /\ step = "created"
        /\ \E n \in 0 .. Len(ToCells(storing)) :
             temp' = File(SubSeq(ToCells(storing), 1, n), FALSE)
  /\ UNCHANGED <<named, undone, storing, committed, attempted>>

\* What a crash may leave of a file.
Remains(f) ==
  IF f.synced THEN {f}
  ELSE {File(SubSeq(f.cells, 1, n), TRUE) : n \in 0 .. Len(f.cells)}

\* The process dies, and opens the store again: it goes on from what it loads.
CrashAndLoad ==
  /\ \E f \in undone \cup {named} : named' \in Remains(f)
  /\ temp' \in Remains(temp)
  /\ undone' = {} /\ step' = "idle" /\ attempted' = {}
  /\ committed' = FromCells(named'.cells)
  /\ UNCHANGED storing

ManifestNext ==
  \/ CreateTemp \/ WriteTemp \/ SyncTemp \/ Rename \/ SyncDirectory
  \/ StoreFails \/ CrashAndLoad

ManifestSpec == ManifestInit /\ [][ManifestNext]_manifestVars

\* The manifest is always readable, and holds, whole, the snapshot committed
\* last or one a store was asked for since: the one that failed or is under
\* way, never a mixture and never one older.
LoadIsWhole == Load \in Snapshots /\ Load \in {committed} \cup attempted

\* A crash takes the store back no further than the last store that returned:
\* it loads that snapshot or one whose store began after it.
CommittedSurvives ==
  [][committed' \in {committed} \cup attempted]_manifestVars
=============================================================================
