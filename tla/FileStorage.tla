---------------------------- MODULE FileStorage ----------------------------
(***************************************************************************)
(* The collector's storage engine (storage.ts, durable-writer.ts): one     *)
(* checksummed file per session, written by write-fsync-rename-fsync, an   *)
(* in-memory index, and the append-only log index.jsonl from which the     *)
(* index is rebuilt when the process starts.                               *)
(*                                                                         *)
(* store() and load() are asynchronous: a step is the code between two     *)
(* awaits that touch shared state, and any number of calls interleave.     *)
(* init() runs before the server listens, so a restart is one step.        *)
(* The content of a file is abstracted to whether its checksum verifies.   *)
(* A directory that was not flushed may, after a power failure, be as it   *)
(* was when it last was.                                                   *)
(* Left out: symbolic links in the directory, files above 64 MB, temp      *)
(* files that were not written to their end (no index ever names one), and *)
(* _corruptCount, which only the statistics read.                          *)
(***************************************************************************)
EXTENDS Naturals, SequencesExt

CONSTANTS
    Session,        \* session ids
    Reader,         \* concurrent calls of load()
    TraceOf,        \* the traceId of each session
    MaxPerTrace,    \* MAX_SESSIONS_PER_TRACE
    Legacy,         \* sessions stored before there was an index.jsonl
    DiskFails,      \* the write, the rename or the directory fsync may fail
    DirRefuses,     \* the directory fsync may be refused (EINVAL, EPERM, EACCES)
    LogFails,       \* the append to index.jsonl may fail
    PowerFails,     \* a restart may follow a power failure
    MaxRot,         \* bound: how many sessions' files rot on disk
    MaxRestarts     \* bound: how often the process dies

ASSUME StorageConstants ==
    /\ IsFiniteSet(Session)
    /\ DOMAIN TraceOf = Session
    /\ MaxPerTrace \in Nat \ {0}
    /\ Legacy \subseteq Session
    /\ \A t \in Range(TraceOf) :
         Cardinality({s \in Legacy : TraceOf[s] = t}) <= MaxPerTrace
    /\ DiskFails \in BOOLEAN /\ DirRefuses \in BOOLEAN
    /\ LogFails \in BOOLEAN /\ PowerFails \in BOOLEAN
    /\ MaxRot \in Nat /\ MaxRestarts \in Nat

VARIABLES
    file,         \* sessions/<id>.json: absent, good, or failing its checksum
    settled,      \* the same, as of the last flush of the directory
    debris,       \* the sessions of which a whole temp file was left behind
    log,          \* the lines of index.jsonl that parse
    logExists,    \* index.jsonl exists
    logTorn,      \* index.jsonl ends within a line
    writer,       \* the store() of each session; inFlightWrites is the busy ones
    index,        \* sessionIndex: not there, the final file, or a temp file
    listed,       \* the keys of sessionMetadata
    traceIds,     \* traceIndex
    reader,       \* the load() calls in progress
    acked,        \* history: the sessions whose store() returned
    rotted,       \* history: the sessions whose file has rotted
    unlogged,     \* history: the sessions whose line index.jsonl lost or never had
    refused,      \* history: the sessions whose directory fsync was refused
    restarts      \* how often the process died

fileVars == <<file, settled, debris>>
logVars == <<log, logExists, logTorn, unlogged>>
memVars == <<index, listed, traceIds>>
history == <<acked, rotted, refused, restarts>>
vars == <<fileVars, logVars, memVars, writer, reader, history>>

Trace == Range(TraceOf)
Idle == [stage |-> "idle"]
WriterState == {"idle", "writing", "flushed", "renamed", "synced", "logging", "logged"}
ReaderState == {Idle} \cup [stage: {"reading", "quarantining", "forgetting"}, id: Session, at: {"final", "temp"}]

TypeOK ==
    /\ file \in [Session -> {"absent", "good", "corrupt"}]
    /\ settled \in [Session -> {"absent", "good", "corrupt"}]
    /\ debris \subseteq Session
    /\ log \in Seq(Session)
    /\ logExists \in BOOLEAN
    /\ logTorn \in BOOLEAN
    /\ writer \in [Session -> WriterState]
    /\ index \in [Session -> {"none", "final", "temp"}]
    /\ listed \subseteq Session
    /\ traceIds \in [Trace -> SUBSET Session]
    /\ reader \in [Reader -> ReaderState]
    /\ acked \subseteq Session
    /\ rotted \subseteq Session
    /\ unlogged \subseteq Session
    /\ refused \subseteq Session
    /\ restarts \in 0..MaxRestarts

InTrace(S, t) == {s \in S : TraceOf[s] = t}

(***************************************************************************)
(* store(s)                                                                *)
(***************************************************************************)

\* Neither stored nor being written; otherwise store() throws at once.
MayStore(s) == index[s] = "none" /\ writer[s] = "idle"

StoreBegin(s) ==
    /\ MayStore(s)
    /\ writer' = [writer EXCEPT ![s] = "writing"]
    /\ UNCHANGED <<fileVars, logVars, memVars, reader, history>>

\* durableWrite: the temp file is written and flushed.
Flush(s) ==
    /\ writer[s] = "writing"
    /\ writer' = [writer EXCEPT ![s] = "flushed"]
    /\ UNCHANGED <<fileVars, logVars, memVars, reader, history>>

\* durableWrite: the temp file becomes the session's file.
Rename(s) ==
    /\ writer[s] = "flushed"
    /\ file' = [file EXCEPT ![s] = "good"]
    /\ writer' = [writer EXCEPT ![s] = "renamed"]
    /\ UNCHANGED <<settled, debris, logVars, memVars, reader, history>>

\* A mutant of SyncDir: the directory is flushed before the rename.
SyncDirEarly(s) ==
    /\ writer[s] = "renamed"
    /\ settled' = [file EXCEPT ![s] = settled[s]]
    /\ refused' = refused \ {s}
    /\ writer' = [writer EXCEPT ![s] = "synced"]
    /\ UNCHANGED <<file, debris, logVars, memVars, reader, acked, rotted, restarts>>

\* durableWrite: the directory is flushed, with whatever was renamed in it.
SyncDir(s) ==
    /\ writer[s] = "renamed"
    /\ settled' = file
    /\ refused' = refused \ {s}
    /\ writer' = [writer EXCEPT ![s] = "synced"]
    /\ UNCHANGED <<file, debris, logVars, memVars, reader, acked, rotted, restarts>>

\* durableWrite: the directory cannot be flushed, which is passed over.
SyncRefused(s) ==
    /\ DirRefuses
    /\ writer[s] = "renamed"
    /\ refused' = refused \cup {s}
    /\ writer' = [writer EXCEPT ![s] = "synced"]
    /\ UNCHANGED <<fileVars, logVars, memVars, reader, acked, rotted, restarts>>

\* A mutant of StoreFails: no finally block, so the id stays in inFlightWrites.
StoreFailsLeaking(s) ==
    /\ DiskFails
    /\ writer[s] \in {"writing", "renamed"}
    /\ writer' = [writer EXCEPT ![s] = "failed"]
    /\ UNCHANGED <<fileVars, logVars, memVars, reader, history>>

\* The write fails and the temp file is removed, or the fsync of the directory
\* fails after the rename: store() throws, the file is not indexed.
StoreFails(s) ==
    /\ DiskFails
    /\ writer[s] \in {"writing", "renamed"}
    /\ writer' = [writer EXCEPT ![s] = "idle"]
    /\ UNCHANGED <<fileVars, logVars, memVars, reader, history>>

\* The rename fails: store() throws and the whole temp file stays.
RenameFails(s) ==
    /\ DiskFails
    /\ writer[s] = "flushed"
    /\ writer' = [writer EXCEPT ![s] = "idle"]
    /\ debris' = debris \cup {s}
    /\ UNCHANGED <<file, settled, logVars, memVars, reader, history>>

TraceFull(s) ==
    /\ s \notin traceIds[TraceOf[s]]
    /\ Cardinality(traceIds[TraceOf[s]]) >= MaxPerTrace

\* The index is updated.  A full trace makes store() throw, after the file,
\* sessionIndex and sessionMetadata have been written.
IndexSession(s) ==
    /\ writer[s] = "synced"
    /\ index' = [index EXCEPT ![s] = "final"]
    /\ listed' = listed \cup {s}
    /\ IF TraceFull(s)
       THEN /\ writer' = [writer EXCEPT ![s] = "idle"]
            /\ UNCHANGED traceIds
       ELSE /\ writer' = [writer EXCEPT ![s] = "logging"]
            /\ traceIds' = [traceIds EXCEPT ![TraceOf[s]] = @ \cup {s}]
    /\ UNCHANGED <<fileVars, logVars, reader, history>>

\* A mutant of AppendLine: the line is not written.
AppendNothing(s) == UNCHANGED logVars

\* appendFile(): a line written behind a torn one does not parse.
AppendLine(s) ==
    /\ IF logTorn THEN unlogged' = unlogged \cup {s} /\ UNCHANGED log
       ELSE log' = Append(log, s) /\ unlogged' = unlogged \ {s}
    /\ logExists' = TRUE
    /\ logTorn' = FALSE

\* The append fails before its first byte or within the line; nobody is told.
AppendFails(s) ==
    /\ unlogged' = unlogged \cup {s}
    /\ logExists' \in {logExists, TRUE}
    /\ logTorn' \in {logTorn, logExists'}
    /\ UNCHANGED log

LogLine(s) ==
    /\ writer[s] = "logging"
    /\ AppendLine(s) \/ (LogFails /\ AppendFails(s))
    /\ writer' = [writer EXCEPT ![s] = "logged"]
    /\ UNCHANGED <<fileVars, memVars, reader, history>>

StoreReturns(s) ==
    /\ writer[s] = "logged"
    /\ writer' = [writer EXCEPT ![s] = "idle"]
    /\ acked' = acked \cup {s}
    /\ UNCHANGED <<fileVars, logVars, memVars, reader, rotted, refused, restarts>>

(***************************************************************************)
(* load(s)                                                                 *)
(***************************************************************************)

LoadBegin(r, s) ==
    /\ reader[r] = Idle
    /\ index[s] # "none"
    /\ reader' = [reader EXCEPT ![r] = [stage |-> "reading", id |-> s, at |-> index[s]]]
    /\ UNCHANGED <<fileVars, logVars, memVars, writer, history>>

Corrupt(s, at) == at = "final" /\ file[s] = "corrupt"

\* The file is read: it is served, it is gone (null), or it fails its checksum.
LoadRead(r) ==
    /\ reader[r].stage = "reading"
    /\ reader' = [reader EXCEPT ![r] =
                    IF Corrupt(@.id, @.at) THEN [@ EXCEPT !.stage = "quarantining"] ELSE Idle]
    /\ UNCHANGED <<fileVars, logVars, memVars, writer, history>>

\* quarantine(): whatever is at the path now is moved to corrupt/.
Quarantine(r) ==
    /\ reader[r].stage = "quarantining"
    /\ file' = [file EXCEPT ![reader[r].id] = "absent"]
    /\ reader' = [reader EXCEPT ![r].stage = "forgetting"]
    /\ UNCHANGED <<settled, debris, logVars, memVars, writer, history>>

\* The move is over, or failed because nothing was there: the session leaves
\* sessionIndex, but not sessionMetadata, traceIndex or index.jsonl.
Forget(r) ==
    /\ reader[r].stage = "forgetting"
    /\ index' = [index EXCEPT ![reader[r].id] = "none"]
    /\ reader' = [reader EXCEPT ![r] = Idle]
    /\ UNCHANGED <<fileVars, logVars, listed, traceIds, writer, history>>

\* A file on disk rots.
Rot(s) ==
    /\ Cardinality(rotted) < MaxRot
    /\ s \notin rotted
    /\ file[s] = "good"
    /\ file' = [file EXCEPT ![s] = "corrupt"]
    /\ settled' = [settled EXCEPT ![s] = IF @ = "good" THEN "corrupt" ELSE @]
    /\ rotted' = rotted \cup {s}
    /\ UNCHANGED <<debris, logVars, memVars, writer, reader, acked, refused, restarts>>

(***************************************************************************)
(* The process dies, and init() of a new one rebuilds the index.           *)
(***************************************************************************)

\* The temp files of the dead process's writers.
NewDebris == {s \in Session : writer[s] = "flushed"}

\* What a new process finds in the directory of sessions.  A power failure
\* undoes any of the renames since its last flush, and loses any temp file.
NamesLeft ==
    LET temps == debris \cup NewDebris
        Undone(back) == [s \in Session |-> IF s \in back THEN settled[s] ELSE file[s]]
    IN  {[file |-> file, settled |-> settled, temps |-> temps]} \cup
        IF PowerFails
        THEN UNION {{[file |-> Undone(back), settled |-> Undone(back), temps |-> T] :
                       T \in SUBSET (temps \cup back)} :
                    back \in SUBSET {s \in Session : file[s] = "good" /\ settled[s] # "good"}}
        ELSE {}

\* ... and of index.jsonl.  It is never flushed: a power failure keeps a first
\* part of it, which may end within a line, or nothing, not even its name.
LogsLeft ==
    {[lines |-> log, exists |-> logExists, torn |-> logTorn]} \cup
    IF PowerFails
    THEN {[lines |-> SubSeq(log, 1, n), exists |-> logExists, torn |-> torn] :
            n \in 0..Len(log), torn \in {FALSE, logExists}} \cup
         {[lines |-> <<>>, exists |-> FALSE, torn |-> FALSE]}
    ELSE {}

\* rebuildIndex(), the fast path: index.jsonl alone says what is stored.
RebuildFromLog(disk, stored) ==
    /\ index' = [s \in Session |-> IF s \in stored THEN "final" ELSE "none"]
    /\ listed' = stored
    /\ traceIds' = [t \in Trace |-> InTrace(stored, t)]
    /\ debris' = disk.temps
    /\ file' = disk.file

Capped(S) ==
    {T \in SUBSET S : \/ T = S /\ Cardinality(S) <= MaxPerTrace
                      \/ Cardinality(T) = MaxPerTrace}

\* rebuildIndex(), the full scan, when there is no index.jsonl: every .json file
\* of the directory is verified, temp files included, and what fails is
\* quarantined.  The log is not rewritten.
RebuildFromFiles(disk) ==
    LET good == {s \in Session : disk.file[s] = "good"}
        bad == {s \in Session : disk.file[s] = "corrupt"}
        whole == disk.temps
    IN  /\ index' \in [Session -> {"none", "final", "temp"}]
        /\ \A s \in Session :
             /\ index'[s] = "none" <=> s \notin good \cup whole
             /\ index'[s] = "final" => s \in good
             /\ index'[s] = "temp" => s \in whole
        /\ listed' = good \cup whole
        /\ traceIds' \in [Trace -> SUBSET (good \cup whole)]
        /\ \A t \in Trace : traceIds'[t] \in Capped(InTrace(good \cup whole, t))
        /\ file' = [s \in Session |-> IF s \in bad THEN "absent" ELSE disk.file[s]]
        /\ debris' = disk.temps

Restart ==
    /\ restarts < MaxRestarts
    /\ restarts' = restarts + 1
    /\ writer' = [s \in Session |-> "idle"]
    /\ reader' = [r \in Reader |-> Idle]
    /\ \E disk \in NamesLeft, left \in LogsLeft :
         /\ settled' = disk.settled
         /\ log' = left.lines
         /\ logExists' = left.exists
         /\ logTorn' = left.torn
         /\ unlogged' = unlogged \cup (Range(log) \ Range(left.lines))
         /\ IF left.exists THEN RebuildFromLog(disk, Range(left.lines)) ELSE RebuildFromFiles(disk)
    /\ UNCHANGED <<acked, rotted, refused>>

Init ==
    /\ file = [s \in Session |-> IF s \in Legacy THEN "good" ELSE "absent"]
    /\ settled = file
    /\ debris = {}
    /\ log = <<>>
    /\ logExists = FALSE
    /\ logTorn = FALSE
    /\ unlogged = Legacy
    /\ refused = {}
    /\ writer = [s \in Session |-> "idle"]
    /\ index = [s \in Session |-> IF s \in Legacy THEN "final" ELSE "none"]
    /\ listed = Legacy
    /\ traceIds = [t \in Trace |-> InTrace(Legacy, t)]
    /\ reader = [r \in Reader |-> Idle]
    /\ acked = Legacy
    /\ rotted = {}
    /\ restarts = 0

StoreStep(s) ==
    \/ Flush(s) \/ Rename(s) \/ SyncDir(s) \/ SyncRefused(s) \/ StoreFails(s) \/ RenameFails(s)
    \/ IndexSession(s) \/ LogLine(s) \/ StoreReturns(s)

LoadStep(r) == LoadRead(r) \/ Quarantine(r) \/ Forget(r)

Next ==
    \/ \E s \in Session : StoreBegin(s) \/ StoreStep(s) \/ Rot(s)
    \/ \E r \in Reader : LoadStep(r) \/ \E s \in Session : LoadBegin(r, s)
    \/ Restart

Spec == Init /\ [][Next]_vars

\* Every promise of the file system settles.
Fairness ==
    /\ \A s \in Session : WF_vars(StoreStep(s))
    /\ \A r \in Reader : WF_vars(LoadStep(r))

FairSpec == Spec /\ Fairness

-----------------------------------------------------------------------------
(***************************************************************************)
(* Properties                                                              *)
(***************************************************************************)

\* A session whose store() returned can be loaded - it is in the index, under
\* a file that verifies - over concurrent stores and loads, failed writes,
\* power failures and restarts (store(), rebuildIndex()), unless its file rotted,
\* its directory could not be flushed, or its line is missing in index.jsonl.
AckedReadable ==
    \A s \in acked \ (rotted \cup refused \cup unlogged) : index[s] = "final" /\ file[s] = "good"

\* ... and it is found by listSessions() and findByTraceId(), after a restart
\* as before it.
AckedFindable == \A s \in acked \ unlogged : s \in listed /\ s \in traceIds[TraceOf[s]]

\* Whatever happens to index.jsonl, the file of such a session outlives power
\* failures (durable-writer.ts: "the file is on disk even if the process crashes").
AckedFileKept == \A s \in acked \ (rotted \cup refused) : file[s] = "good"

\* The log never gives a trace more sessions than the cap that rebuildIndex()
\* enforces on it, so a restart never hides a session that was acknowledged.
LogWithinTraceCap == \A t \in Trace : Cardinality(InTrace(Range(log), t)) <= MaxPerTrace

\* What is moved to corrupt/ is a file that fails its checksum (storage.ts:185,
\* "Quarantine the corrupt file"), although the rename comes two awaits after
\* the checksum.  Two loads at once break it.
QuarantineSparesGood ==
    [][\A r \in Reader : Quarantine(r) => file[reader[r].id] # "good"]_vars

\* Every store() ends and leaves inFlightWrites, so that the same id can be
\* stored again after a failure.
StoreEnds == \A s \in Session : writer[s] # "idle" ~> writer[s] = "idle"

=============================================================================
