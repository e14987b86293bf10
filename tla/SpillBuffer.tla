---------------------------- MODULE SpillBuffer ----------------------------
(***************************************************************************)
(* The probe's disk spill buffer (transport/spill-buffer.ts): append-only  *)
(* NDJSON files that hold the sessions the collector could not be given.   *)
(*                                                                         *)
(* One process uses the directory.  A file name is the time at which it    *)
(* was made; two names are never made in one millisecond and the clock is  *)
(* not set back between them, so names are numbered in the order in which  *)
(* they are made.  JSON text is abstracted to the session it encodes; what *)
(* is kept of it is that a write cut short leaves a prefix without its     *)
(* newline, and that the next line written to that file is glued to the    *)
(* prefix and unreadable.                                                  *)
(*                                                                         *)
(* The loop of drain() is one step per file: the process may die between   *)
(* two of them.                                                            *)
(***************************************************************************)
EXTENDS Naturals, SequencesExt

CONSTANTS
    Session,          \* the sessions, numbered in the order they complete
    MaxSpillFiles,    \* maxSpillFiles
    MaxLinesPerFile,  \* maxLinesPerFile
    AppendFaults,     \* the ways in which an append may fail in this run
    FileFaults        \* what else the file system may refuse in this run

ASSUME SpillConstants ==
    /\ Session \subseteq Nat
    /\ MaxSpillFiles \in Nat \ {0}
    /\ MaxLinesPerFile \in Nat \ {0}
    \* "none":     open or mkdir failed, no file was touched
    \* "empty":    the file was created, the write failed before any byte
    \* "torn":     the write stopped inside the line (a full disk)
    \* "unsynced": the line was written, the reopen or the fsync failed
    /\ AppendFaults \subseteq {"none", "empty", "torn", "unsynced"}
    \* "unread": readFileSync of a spill file fails
    \* "kept":   unlinkSync of a spill file fails
    /\ FileFaults \subseteq {"unread", "kept"}

VARIABLES
    disk,       \* the spill files by name
    current,    \* currentFile: a name, of a file that may not be there
    lineCount,  \* lineCount
    draining    \* the names drain()'s loop has still to take

spillVars == <<disk, current, lineCount, draining>>

File == [lines: Seq(Session), torn: BOOLEAN]

SpillTypeOK ==
    /\ disk \in [DOMAIN disk -> File]
    /\ DOMAIN disk \subseteq 1..current
    /\ current \in Nat \ {0}
    /\ lineCount \in 0..(MaxLinesPerFile - 1)
    /\ draining \subseteq DOMAIN disk

\* The sessions in the readable lines of some files.
SessionsIn(names) == UNION {Range(disk[n].lines) : n \in names \cap DOMAIN disk}

OnDisk == SessionsIn(DOMAIN disk)

(***************************************************************************)
(* append()                                                                *)
(***************************************************************************)

EmptyFile == [lines |-> <<>>, torn |-> FALSE]

\* appendFileSync creates the current file if it is not there.
Opened ==
    [n \in DOMAIN disk \cup {current} |->
        IF n \in DOMAIN disk THEN disk[n] ELSE EmptyFile]

\* A complete line; after a torn prefix it only completes an unreadable one.
AddLine(f, s) ==
    IF f.torn THEN [f EXCEPT !.torn = FALSE]
              ELSE [f EXCEPT !.lines = Append(f.lines, s)]

WithLine(s) == [Opened EXCEPT ![current] = AddLine(@, s)]

\* A mutant of Excess: pop() for shift().
ExcessNewest ==
    {n \in DOMAIN Opened :
        Cardinality({k \in DOMAIN Opened : k < n}) >= MaxSpillFiles}

\* The oldest files, those enforceMaxFiles() takes off its list.
Excess ==
    {n \in DOMAIN Opened :
        Cardinality({k \in DOMAIN Opened : k > n}) >= MaxSpillFiles}

Rotates(n) == n >= MaxLinesPerFile

\* append() returned true.  Of the files to be evicted, those in kept could not
\* be unlinked, and those in unread could not be read: these are unlinked
\* without the line in the log.
AppendOk(s, kept, unread) ==
    /\ kept \subseteq Excess
    /\ unread \subseteq Excess
    /\ kept # {} => "kept" \in FileFaults
    /\ unread # {} => "unread" \in FileFaults
    /\ disk' = Restrict(WithLine(s), (DOMAIN Opened \ Excess) \cup kept)
    /\ current' = IF Rotates(lineCount + 1) THEN current + 1 ELSE current
    /\ lineCount' = IF Rotates(lineCount + 1) THEN 0 ELSE lineCount + 1
    /\ UNCHANGED draining

\* append() returned false: an exception, at the point the fault says.  The
\* line is not counted, and no rotation and no eviction takes place.
AppendFailed(s, fault) ==
    /\ fault \in AppendFaults
    /\ disk' = CASE fault = "none"     -> disk
                 [] fault = "empty"    -> Opened
                 [] fault = "torn"     -> [Opened EXCEPT ![current].torn = TRUE]
                 [] fault = "unsynced" -> WithLine(s)
    /\ UNCHANGED <<current, lineCount, draining>>

(***************************************************************************)
(* drain()                                                                 *)
(***************************************************************************)

StartDrain == draining' = DOMAIN disk

InTurn(n) == n \in draining /\ \A k \in draining : n <= k

Taken(n) == draining' = draining \ {n}

\* The file is read, its readable lines returned, and the file unlinked.  The
\* name of the current file is kept: a later append creates it anew.
DrainFile(n) ==
    /\ InTurn(n)
    /\ disk' = Restrict(disk, DOMAIN disk \ {n})
    /\ Taken(n)
    /\ UNCHANGED <<current, lineCount>>

\* The lines are pushed before unlinkSync throws: they are returned, and the
\* file stays.
KeepFile(n) ==
    /\ "kept" \in FileFaults
    /\ InTurn(n)
    /\ Taken(n)
    /\ UNCHANGED <<disk, current, lineCount>>

\* The file cannot be read: it is skipped and stays.
SkipFile(n) ==
    /\ "unread" \in FileFaults
    /\ InTurn(n)
    /\ Taken(n)
    /\ UNCHANGED <<disk, current, lineCount>>

\* The constructor of a new process: a fresh file name, nothing counted.
NewSpillBuffer ==
    /\ current' = current + 1
    /\ lineCount' = 0
    /\ UNCHANGED disk

(***************************************************************************)
(* The spill buffer driven by any caller.                                  *)
(***************************************************************************)

SpillInit ==
    /\ disk = <<>>
    /\ current = 1
    /\ lineCount = 0
    /\ draining = {}

CallAppend(s) ==
    /\ draining = {}
    /\ \/ \E kept, unread \in SUBSET Excess : AppendOk(s, kept, unread)
       \/ \E fault \in AppendFaults : AppendFailed(s, fault)

CallDrain ==
    /\ draining = {}
    /\ StartDrain
    /\ UNCHANGED <<disk, current, lineCount>>

Reopen ==
    /\ NewSpillBuffer
    /\ draining' = {}

SpillNext ==
    \/ \E s \in Session : CallAppend(s)
    \/ CallDrain
    \/ \E n \in draining : DrainFile(n) \/ KeepFile(n) \/ SkipFile(n)
    \/ Reopen

SpillSpec == SpillInit /\ [][SpillNext]_spillVars

-----------------------------------------------------------------------------
(***************************************************************************)
(* Properties                                                              *)
(***************************************************************************)

\* No file outgrows maxLinesPerFile, although a drain deletes the current file
\* without resetting lineCount and a restart abandons a half full one.
FileLinesBounded == \A n \in DOMAIN disk : Len(disk[n].lines) <= MaxLinesPerFile

\* The last write to the current file was cut short.
EndsTorn == current \in DOMAIN disk /\ disk[current].torn

\* An append that returns true leaves the session readable on disk, whatever
\* it evicts, and whatever failed before it: only right behind a torn line is
\* it lost, and the line that follows is readable again.
AckedAppendReadable ==
    [][\A s \in Session : \A kept, unread \in SUBSET Excess :
          AppendOk(s, kept, unread) /\ ~EndsTorn => s \in OnDisk']_spillVars

=============================================================================
