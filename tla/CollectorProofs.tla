-------------------------- MODULE CollectorProofs --------------------------
(***************************************************************************)
(* Theorems about the collector, for any sessions, traces, caps, batches,  *)
(* connections, timeouts, rot and restarts.  First the storage engine by   *)
(* itself (module FileStorage), then the server on top of it (module       *)
(* CollectorServer): it uses the engine as that allows, so what is proved  *)
(* of the engine carries over to what a probe was told.                    *)
(***************************************************************************)
EXTENDS CollectorServer, FiniteSetTheorems, SequenceTheorems, TLAPS

LogState == [lines: Seq(Session), exists: BOOLEAN, torn: BOOLEAN]
NamesState == [file: [Session -> {"absent", "good", "corrupt"}],
               settled: [Session -> {"absent", "good", "corrupt"}],
               temps: SUBSET Session]

\* What a restart finds of the log is a first part of it.
LEMMA LogsLeftType ==
  ASSUME log \in Seq(Session), logExists \in BOOLEAN, logTorn \in BOOLEAN, NEW left \in LogsLeft
  PROVE  /\ left \in LogState
         /\ Range(left.lines) \subseteq Range(log)
         /\ left.exists = logExists \/ left.lines = <<>>
<1>1. CASE left = [lines |-> log, exists |-> logExists, torn |-> logTorn]
  BY <1>1 DEF LogState
<1>2. CASE left = [lines |-> <<>>, exists |-> FALSE, torn |-> FALSE]
  BY <1>2, EmptySeq DEF Range, LogState
<1>3. CASE \E n \in 0..Len(log), torn \in {FALSE, logExists} :
             left = [lines |-> SubSeq(log, 1, n), exists |-> logExists, torn |-> torn]
  <2>1. PICK n \in 0..Len(log), torn \in {FALSE, logExists} :
               left = [lines |-> SubSeq(log, 1, n), exists |-> logExists, torn |-> torn]
    BY <1>3
  <2>2. /\ SubSeq(log, 1, n) \in Seq(Session)
        /\ Len(SubSeq(log, 1, n)) = n
        /\ \A i \in 1..n : SubSeq(log, 1, n)[i] = log[i]
    BY SubSeqProperties, LenProperties
  <2>3. \A i \in 1..n : i \in DOMAIN log
    BY LenProperties
  <2>4. DOMAIN SubSeq(log, 1, n) = 1..n
    BY <2>2
  <2>5. Range(SubSeq(log, 1, n)) \subseteq Range(log)
    BY <2>2, <2>3, <2>4 DEF Range
  <2> QED
    BY <2>1, <2>2, <2>5 DEF LogState
<1> QED
  BY <1>1, <1>2, <1>3 DEF LogsLeft

\* What it finds of the directory: each file is as it was, or as it was when
\* the directory was last flushed.
LEMMA NamesLeftType ==
  ASSUME file \in [Session -> {"absent", "good", "corrupt"}],
         settled \in [Session -> {"absent", "good", "corrupt"}],
         debris \subseteq Session, NEW disk \in NamesLeft
  PROVE  /\ disk \in NamesState
         /\ \A s \in Session : disk.file[s] \in {file[s], settled[s]}
         /\ \A s \in Session : disk.settled[s] \in {settled[s], disk.file[s]}
<1> DEFINE temps == debris \cup NewDebris
           Undone(back) == [s \in Session |-> IF s \in back THEN settled[s] ELSE file[s]]
<1>1. temps \subseteq Session
  BY DEF NewDebris
<1>2. CASE disk = [file |-> file, settled |-> settled, temps |-> temps]
  BY <1>1, <1>2 DEF NamesState
<1>3. CASE \E back \in SUBSET {s \in Session : file[s] = "good" /\ settled[s] # "good"} :
             \E T \in SUBSET (temps \cup back) :
                disk = [file |-> Undone(back), settled |-> Undone(back), temps |-> T]
  <2>4. PICK back \in SUBSET {s \in Session : file[s] = "good" /\ settled[s] # "good"} :
          \E T \in SUBSET (temps \cup back) :
             disk = [file |-> Undone(back), settled |-> Undone(back), temps |-> T]
    BY <1>3
  <2>1. PICK T \in SUBSET (temps \cup back) :
          disk = [file |-> Undone(back), settled |-> Undone(back), temps |-> T]
    BY <2>4
  <2>2. T \subseteq Session
    BY <1>1
  <2>3. /\ Undone(back) \in [Session -> {"absent", "good", "corrupt"}]
        /\ \A s \in Session : Undone(back)[s] \in {file[s], settled[s]}
    OBVIOUS
  <2> HIDE DEF Undone
  <2> QED
    BY <2>1, <2>2, <2>3 DEF NamesState
<1> QED
  BY <1>2, <1>3 DEF NamesLeft

\* Every variable keeps its type.
THEOREM TypeCorrect == Spec => []TypeOK
<1>1. Init => TypeOK
  <2> SUFFICES ASSUME Init PROVE TypeOK
    OBVIOUS
  <2>1. traceIds \in [Trace -> SUBSET Session]
    BY StorageConstants DEF Init, InTrace
  <2>2. reader \in [Reader -> ReaderState]
    BY DEF Init, ReaderState
  <2>3. log \in Seq(Session)
    BY EmptySeq DEF Init
  <2>4. /\ file \in [Session -> {"absent", "good", "corrupt"}]
        /\ settled \in [Session -> {"absent", "good", "corrupt"}]
        /\ index \in [Session -> {"none", "final", "temp"}]
        /\ writer \in [Session -> WriterState]
    BY DEF Init, WriterState
  <2>5. /\ restarts \in 0..MaxRestarts /\ listed \subseteq Session
        /\ acked \subseteq Session /\ unlogged \subseteq Session
    BY StorageConstants DEF Init
  <2>6. /\ debris \subseteq Session /\ logExists \in BOOLEAN /\ logTorn \in BOOLEAN
        /\ rotted \subseteq Session /\ refused \subseteq Session
    BY DEF Init
  <2> QED
    BY <2>1, <2>2, <2>3, <2>4, <2>5, <2>6 DEF TypeOK
<1>2. TypeOK /\ [Next]_vars => TypeOK'
  <2> SUFFICES ASSUME TypeOK, [Next]_vars PROVE TypeOK'
    OBVIOUS
  <2>1. ASSUME NEW s \in Session, StoreBegin(s) PROVE TypeOK'
    BY <2>1 DEF TypeOK, WriterState, StoreBegin, fileVars, logVars, memVars, history
  <2>2. ASSUME NEW s \in Session, Flush(s) PROVE TypeOK'
    BY <2>2 DEF TypeOK, WriterState, Flush, fileVars, logVars, memVars, history
  <2>3. ASSUME NEW s \in Session, Rename(s) PROVE TypeOK'
    BY <2>3 DEF TypeOK, WriterState, Rename, logVars, memVars, history
  <2>16. ASSUME NEW s \in Session, SyncDir(s) PROVE TypeOK'
    BY <2>16 DEF TypeOK, WriterState, SyncDir, logVars, memVars
  <2>17. ASSUME NEW s \in Session, SyncRefused(s) PROVE TypeOK'
    BY <2>17 DEF TypeOK, WriterState, SyncRefused, fileVars, logVars, memVars
  <2>4. ASSUME NEW s \in Session, StoreFails(s) PROVE TypeOK'
    BY <2>4 DEF TypeOK, WriterState, StoreFails, fileVars, logVars, memVars, history
  <2>13. ASSUME NEW s \in Session, RenameFails(s) PROVE TypeOK'
    BY <2>13 DEF TypeOK, WriterState, RenameFails, logVars, memVars, history
  <2>5. ASSUME NEW s \in Session, IndexSession(s) PROVE TypeOK'
    <3>1. writer' \in [Session -> WriterState]
      BY <2>5 DEF TypeOK, WriterState, IndexSession
    <3>2. TraceOf[s] \in Trace
      BY StorageConstants DEF Trace, Range
    <3>3. traceIds' \in [Trace -> SUBSET Session]
      BY <2>5, <3>2 DEF TypeOK, IndexSession
    <3> QED
      BY <2>5, <3>1, <3>3 DEF TypeOK, IndexSession, fileVars, logVars, history
  <2>6. ASSUME NEW s \in Session, LogLine(s) PROVE TypeOK'
    <3>1. /\ log' \in Seq(Session) /\ logExists' \in BOOLEAN
          /\ logTorn' \in BOOLEAN /\ unlogged' \subseteq Session
      <4>1. CASE AppendLine(s)
        <5>1. CASE logTorn
          BY <4>1, <5>1 DEF TypeOK, AppendLine
        <5>2. CASE ~logTorn
          <6>1. log' = Append(log, s) /\ unlogged' = unlogged \ {s} /\ logExists' = TRUE /\ logTorn' = FALSE
            BY <4>1, <5>2 DEF AppendLine
          <6> QED
            BY <6>1, AppendProperties DEF TypeOK
        <5> QED
          BY <5>1, <5>2
      <4>2. CASE AppendFails(s)
        BY <4>2 DEF TypeOK, AppendFails
      <4> QED
        BY <2>6, <4>1, <4>2 DEF LogLine
    <3> QED
      BY <2>6, <3>1 DEF TypeOK, WriterState, LogLine, fileVars, memVars, history
  <2>14. ASSUME NEW s \in Session, StoreReturns(s) PROVE TypeOK'
    BY <2>14 DEF TypeOK, WriterState, StoreReturns, fileVars, logVars, memVars
  <2>7. ASSUME NEW s \in Session, Rot(s) PROVE TypeOK'
    BY <2>7 DEF TypeOK, Rot, logVars, memVars
  <2>8. ASSUME NEW r \in Reader, LoadRead(r) PROVE TypeOK'
    <3>1. reader' \in [Reader -> ReaderState]
      <4>1. reader[r] \in [stage: {"reading", "quarantining", "forgetting"}, id: Session, at: {"final", "temp"}]
        BY <2>8 DEF TypeOK, LoadRead, ReaderState, Idle
      <4>2. [reader[r] EXCEPT !.stage = "quarantining"] \in ReaderState
        BY <4>1 DEF ReaderState
      <4>3. Idle \in ReaderState
        BY DEF ReaderState
      <4> QED
        BY <2>8, <4>2, <4>3 DEF TypeOK, LoadRead
    <3> QED
      BY <2>8, <3>1 DEF TypeOK, LoadRead, fileVars, logVars, memVars, history
  <2>9. ASSUME NEW r \in Reader, Quarantine(r) PROVE TypeOK'
    <3>1. [reader[r] EXCEPT !.stage = "forgetting"] \in ReaderState
      BY <2>9 DEF TypeOK, Quarantine, ReaderState, Idle
    <3>2. reader' \in [Reader -> ReaderState]
      BY <2>9, <3>1 DEF TypeOK, Quarantine
    <3>3. file' \in [Session -> {"absent", "good", "corrupt"}]
      BY <2>9 DEF TypeOK, Quarantine
    <3> QED
      BY <2>9, <3>2, <3>3 DEF TypeOK, Quarantine, logVars, memVars, history
  <2>15. ASSUME NEW r \in Reader, Forget(r) PROVE TypeOK'
    <3>1. reader' \in [Reader -> ReaderState]
      BY <2>15 DEF TypeOK, Forget, ReaderState
    <3>2. index' \in [Session -> {"none", "final", "temp"}]
      BY <2>15 DEF TypeOK, Forget
    <3> QED
      BY <2>15, <3>1, <3>2 DEF TypeOK, Forget, fileVars, logVars, history
  <2>10. ASSUME NEW r \in Reader, NEW s \in Session, LoadBegin(r, s) PROVE TypeOK'
    <3>1. [stage |-> "reading", id |-> s, at |-> index[s]] \in ReaderState
      BY <2>10 DEF TypeOK, LoadBegin, ReaderState
    <3>2. reader' \in [Reader -> ReaderState]
      BY <2>10, <3>1 DEF TypeOK, LoadBegin
    <3> QED
      BY <2>10, <3>2 DEF TypeOK, LoadBegin, fileVars, logVars, memVars, history
  <2>11. ASSUME Restart PROVE TypeOK'
    <3>1. PICK disk \in NamesLeft, left \in LogsLeft :
            /\ settled' = disk.settled
            /\ log' = left.lines
            /\ logExists' = left.exists
            /\ logTorn' = left.torn
            /\ unlogged' = unlogged \cup (Range(log) \ Range(left.lines))
            /\ IF left.exists THEN RebuildFromLog(disk, Range(left.lines)) ELSE RebuildFromFiles(disk)
      BY <2>11 DEF Restart
    <3>2. left \in LogState
      BY LogsLeftType DEF TypeOK
    <3>3. disk \in NamesState
      BY NamesLeftType DEF TypeOK
    <3>6. /\ restarts' \in 0..MaxRestarts
          /\ writer' \in [Session -> WriterState]
          /\ reader' \in [Reader -> ReaderState]
          /\ acked' \subseteq Session /\ rotted' \subseteq Session /\ refused' \subseteq Session
      <4>1. reader' \in [Reader -> ReaderState]
        BY <2>11 DEF Restart, ReaderState
      <4>2. restarts' \in 0..MaxRestarts
        BY <2>11, StorageConstants DEF Restart, TypeOK
      <4> QED
        BY <2>11, <4>1, <4>2 DEF Restart, TypeOK, WriterState
    <3>7. /\ settled' \in [Session -> {"absent", "good", "corrupt"}]
          /\ log' \in Seq(Session) /\ logExists' \in BOOLEAN /\ logTorn' \in BOOLEAN
          /\ unlogged' \subseteq Session
      <4>1. Range(log) \subseteq Session
        BY RangeOfSeq DEF TypeOK
      <4> QED
        BY <3>1, <3>2, <3>3, <4>1 DEF LogState, NamesState, TypeOK
    <3>4. CASE left.exists
      <4>1. Range(left.lines) \subseteq Session
        BY <3>2, RangeOfSeq DEF LogState
      <4> DEFINE stored == Range(left.lines)
      <4>2. RebuildFromLog(disk, stored)
        BY <3>1, <3>4
      <4> HIDE DEF stored
      <4>3. stored \subseteq Session
        BY <4>1 DEF stored
      <4>4. traceIds' \in [Trace -> SUBSET Session]
        BY <4>2, <4>3 DEF RebuildFromLog, InTrace
      <4>5. index' \in [Session -> {"none", "final", "temp"}]
        BY <4>2 DEF RebuildFromLog
      <4>6. /\ listed' \subseteq Session
            /\ debris' \subseteq Session
            /\ file' \in [Session -> {"absent", "good", "corrupt"}]
        BY <3>3, <4>2, <4>3 DEF RebuildFromLog, NamesState
      <4> QED
        BY <3>6, <3>7, <4>4, <4>5, <4>6 DEF TypeOK
    <3>5. CASE ~left.exists
      <4>1. RebuildFromFiles(disk)
        BY <3>1, <3>5
      <4>3. file' \in [Session -> {"absent", "good", "corrupt"}]
        BY <3>3, <4>1 DEF RebuildFromFiles, NamesState
      <4>4. /\ index' \in [Session -> {"none", "final", "temp"}]
            /\ traceIds' \in [Trace -> SUBSET Session]
        BY <3>3, <4>1 DEF RebuildFromFiles, NamesState
      <4>5. listed' \subseteq Session /\ debris' \subseteq Session
        BY <4>1, <3>3 DEF RebuildFromFiles, NamesState
      <4> QED
        BY <3>6, <3>7, <4>3, <4>4, <4>5 DEF TypeOK
    <3> QED
      BY <3>4, <3>5
  <2>12. CASE UNCHANGED vars
    BY <2>12 DEF TypeOK, vars, fileVars, logVars, memVars, history
  <2> QED
    BY <2>1, <2>2, <2>3, <2>4, <2>5, <2>6, <2>7, <2>8, <2>9, <2>10, <2>11, <2>12, <2>13,
       <2>14, <2>15, <2>16, <2>17
    DEF Next, StoreStep, LoadStep
<1> QED
  BY <1>1, <1>2, PTL DEF Spec


-----------------------------------------------------------------------------
(***************************************************************************)
(* The files.  A quarantine comes two awaits after the checksum failed and *)
(* moves whatever is there by then; it spares the acknowledged files that  *)
(* have not rotted because what it moves is a session that has.            *)
(***************************************************************************)
FileInv ==
    /\ \A s \in Session : file[s] = "corrupt" \/ settled[s] = "corrupt" => s \in rotted
    /\ \A r \in Reader : reader[r].stage \in {"quarantining", "forgetting"} => reader[r].id \in rotted
    /\ \A s \in Session \ rotted : writer[s] = "renamed" => file[s] = "good"
    /\ \A s \in Session \ (rotted \cup refused) :
         writer[s] \in {"synced", "logging", "logged"} \/ s \in acked
            => file[s] = "good" /\ settled[s] = "good"

LEMMA FileInvInit == Init => FileInv
BY StorageConstants DEF Init, FileInv, Idle

LEMMA FileInvStep == TypeOK /\ FileInv /\ [Next]_vars => FileInv'
<1> SUFFICES ASSUME TypeOK, FileInv, [Next]_vars PROVE FileInv'
  OBVIOUS
<1>1. ASSUME NEW s \in Session, StoreBegin(s) \/ Flush(s) PROVE FileInv'
  BY <1>1 DEF TypeOK, FileInv, StoreBegin, Flush, fileVars, history
<1>2. ASSUME NEW s \in Session, Rename(s) PROVE FileInv'
  BY <1>2 DEF TypeOK, FileInv, Rename, history
<1>13. ASSUME NEW s \in Session, SyncDir(s) PROVE FileInv'
  BY <1>13 DEF TypeOK, FileInv, SyncDir
<1>14. ASSUME NEW s \in Session, SyncRefused(s) PROVE FileInv'
  BY <1>14 DEF TypeOK, FileInv, SyncRefused, fileVars
<1>3. ASSUME NEW s \in Session, StoreFails(s) \/ RenameFails(s) PROVE FileInv'
  BY <1>3 DEF TypeOK, FileInv, StoreFails, RenameFails, fileVars, history
<1>4. ASSUME NEW s \in Session, IndexSession(s) PROVE FileInv'
  BY <1>4 DEF TypeOK, FileInv, IndexSession, fileVars, history
<1>5. ASSUME NEW s \in Session, LogLine(s) \/ StoreReturns(s) PROVE FileInv'
  BY <1>5 DEF TypeOK, FileInv, LogLine, StoreReturns, fileVars, history
<1>6. ASSUME NEW s \in Session, Rot(s) PROVE FileInv'
  BY <1>6 DEF TypeOK, FileInv, Rot
<1>7. ASSUME NEW r \in Reader, LoadRead(r) PROVE FileInv'
  <2>1. reader[r] \in [stage: {"reading", "quarantining", "forgetting"}, id: Session, at: {"final", "temp"}]
    BY <1>7 DEF TypeOK, LoadRead, ReaderState, Idle
  <2>2. UNCHANGED <<file, settled, writer, acked, rotted, refused>>
    BY <1>7 DEF LoadRead, fileVars, history
  <2>3. CASE Corrupt(reader[r].id, reader[r].at)
    <3>1. reader[r].id \in rotted
      BY <2>1, <2>3 DEF Corrupt, FileInv
    <3>2. reader' = [reader EXCEPT ![r] = [reader[r] EXCEPT !.stage = "quarantining"]]
      BY <1>7, <2>3 DEF LoadRead
    <3>3. \A x \in Reader : reader'[x].stage \in {"quarantining", "forgetting"} => reader'[x].id \in rotted
      BY <2>1, <3>1, <3>2 DEF FileInv, TypeOK
    <3> QED
      BY <2>2, <3>3 DEF FileInv
  <2>4. CASE ~Corrupt(reader[r].id, reader[r].at)
    <3>1. reader' = [reader EXCEPT ![r] = Idle]
      BY <1>7, <2>4 DEF LoadRead
    <3>2. \A x \in Reader : reader'[x].stage \in {"quarantining", "forgetting"} => reader'[x].id \in rotted
      BY <3>1 DEF FileInv, TypeOK, Idle
    <3> QED
      BY <2>2, <3>2 DEF FileInv
  <2> QED
    BY <2>3, <2>4
<1>8. ASSUME NEW r \in Reader, Quarantine(r) PROVE FileInv'
  <2>1. reader[r].id \in rotted
    BY <1>8 DEF Quarantine, FileInv
  <2>2. UNCHANGED <<settled, writer, acked, rotted, refused>>
    BY <1>8 DEF Quarantine, history
  <2>3. \A s \in Session : file'[s] = "corrupt" \/ settled'[s] = "corrupt" => s \in rotted
    BY <1>8 DEF Quarantine, FileInv, TypeOK
  <2>4. \A s \in Session : s \notin rotted => file'[s] = file[s]
    BY <1>8, <2>1 DEF Quarantine, TypeOK
  <2>5. \A x \in Reader : reader'[x].stage \in {"quarantining", "forgetting"} => reader'[x].id \in rotted
    BY <1>8 DEF Quarantine, FileInv, TypeOK
  <2> QED
    BY <2>2, <2>3, <2>4, <2>5 DEF FileInv
<1>12. ASSUME NEW r \in Reader, Forget(r) PROVE FileInv'
  BY <1>12 DEF Forget, FileInv, TypeOK, Idle, fileVars, history
<1>9. ASSUME NEW r \in Reader, NEW s \in Session, LoadBegin(r, s) PROVE FileInv'
  BY <1>9 DEF TypeOK, FileInv, LoadBegin, fileVars, history
<1>10. ASSUME Restart PROVE FileInv'
  <2>1. PICK disk \in NamesLeft :
          /\ settled' = disk.settled
          /\ (\E S : RebuildFromLog(disk, S)) \/ RebuildFromFiles(disk)
    BY <1>10 DEF Restart
  <2>3. /\ disk \in NamesState
        /\ \A s \in Session : disk.file[s] \in {file[s], settled[s]}
        /\ \A s \in Session : disk.settled[s] \in {settled[s], disk.file[s]}
    BY NamesLeftType DEF TypeOK
  <2>4. \A s \in Session : file'[s] = disk.file[s] \/ (disk.file[s] = "corrupt" /\ file'[s] = "absent")
    <3>1. ASSUME NEW S, RebuildFromLog(disk, S) PROVE file' = disk.file
      BY <3>1 DEF RebuildFromLog
    <3>2. CASE RebuildFromFiles(disk)
      BY <3>2, <2>3 DEF RebuildFromFiles, NamesState
    <3> QED
      BY <2>1, <3>1, <3>2
  <2>2. /\ UNCHANGED <<acked, rotted, refused>>
        /\ writer' = [s \in Session |-> "idle"]
        /\ reader' = [r \in Reader |-> Idle]
    BY <1>10 DEF Restart
  <2>5. \A s \in Session \ (rotted \cup refused) : s \in acked => file'[s] = "good" /\ settled'[s] = "good"
    BY <2>1, <2>3, <2>4 DEF FileInv
  <2>6. \A s \in Session : file'[s] = "corrupt" \/ settled'[s] = "corrupt" => s \in rotted
    BY <2>1, <2>3, <2>4 DEF FileInv
  <2> QED
    BY <2>2, <2>5, <2>6 DEF FileInv, Idle
<1>11. CASE UNCHANGED vars
  BY <1>11 DEF FileInv, vars, fileVars, history
<1> QED
  BY <1>1, <1>2, <1>3, <1>4, <1>5, <1>6, <1>7, <1>8, <1>9, <1>10, <1>11, <1>12, <1>13, <1>14
  DEF Next, StoreStep, LoadStep

\* The file of a session whose store() returned is on disk until it rots,
\* whatever the log, power failures, other stores and loads, and restarts do,
\* if its directory could be flushed: rename and flush come before the answer.
THEOREM FileKept == Spec => []AckedFileKept
<1>1. TypeOK /\ FileInv => AckedFileKept
  BY DEF TypeOK, FileInv, AckedFileKept
<1> QED
  BY <1>1, FileInvInit, FileInvStep, TypeCorrect, PTL DEF Spec

-----------------------------------------------------------------------------
(***************************************************************************)
(* The cap on a trace.  store() checks it against traceIndex several steps *)
(* before the line reaches index.jsonl; the line stays within the cap      *)
(* because the session is in traceIndex all that time.                     *)
(***************************************************************************)
CapInv ==
    /\ \A t \in Trace : Cardinality(traceIds[t]) <= MaxPerTrace
    /\ \A s \in Session :
         s \in Range(log) \/ writer[s] \in {"logging", "logged"} => s \in traceIds[TraceOf[s]]
    /\ ~logExists => Range(log) = {}

LEMMA TraceOfType == \A s \in Session : TraceOf[s] \in Trace
BY StorageConstants DEF Trace, Range

LEMMA RangeAppend ==
  ASSUME NEW S, NEW q \in Seq(S), NEW e \in S
  PROVE  Range(Append(q, e)) = Range(q) \cup {e}
<1>1. Range(q) = {q[i] : i \in 1..Len(q)}
  BY LenProperties DEF Range
<1>2. Append(q, e) \in Seq(S) /\ Len(Append(q, e)) = Len(q) + 1
  BY AppendProperties
<1>3. Range(Append(q, e)) = {Append(q, e)[i] : i \in 1..(Len(q) + 1)}
  BY <1>2, LenProperties DEF Range
<1>4. \A i \in 1..Len(q) : Append(q, e)[i] = q[i]
  BY AppendProperties
<1>5. Append(q, e)[Len(q) + 1] = e
  BY AppendProperties
<1>6. Len(q) \in Nat
  BY LenProperties
<1> QED
  BY <1>1, <1>3, <1>4, <1>5, <1>6

\* What LogLine(s) does to the lines: s gets one or is marked, nobody loses one.
LEMMA LinesGrow ==
  ASSUME TypeOK, NEW s \in Session, AppendLine(s) \/ AppendFails(s)
  PROVE  /\ Range(log) \subseteq Range(log') /\ Range(log') \subseteq Range(log) \cup {s}
         /\ Range(log) \cup unlogged \subseteq Range(log') \cup unlogged'
         /\ s \in Range(log') \cup unlogged'
         /\ ~logExists' => ~logExists /\ log' = log
<1>1. CASE AppendLine(s) /\ ~logTorn
  <2>1. log' = Append(log, s) /\ unlogged' = unlogged \ {s} /\ logExists' = TRUE
    BY <1>1 DEF AppendLine
  <2>2. Range(log') = Range(log) \cup {s}
    BY <2>1, RangeAppend DEF TypeOK
  <2> QED
    BY <2>1, <2>2
<1>2. CASE (AppendLine(s) /\ logTorn) \/ AppendFails(s)
  <2>1. log' = log /\ unlogged' = unlogged \cup {s} /\ logExists' \in {logExists, TRUE}
    BY <1>2 DEF AppendLine, AppendFails
  <2>2. Range(log') = Range(log)
    BY <2>1
  <2> QED
    BY <2>1, <2>2 DEF TypeOK
<1> QED
  BY <1>1, <1>2

LEMMA CapInvInit == Init => CapInv
<1> SUFFICES ASSUME Init PROVE CapInv
  OBVIOUS
<1>1. \A t \in Trace : Cardinality(traceIds[t]) <= MaxPerTrace
  BY StorageConstants DEF Init, InTrace, Trace
<1>2. Range(log) = {}
  BY DEF Init, Range
<1> QED
  BY <1>1, <1>2 DEF CapInv, Init

LEMMA CapInvStep == TypeOK /\ CapInv /\ [Next]_vars => CapInv'
<1> SUFFICES ASSUME TypeOK, CapInv, [Next]_vars PROVE CapInv'
  OBVIOUS
<1>1. ASSUME NEW s \in Session, StoreBegin(s) \/ Flush(s) \/ StoreFails(s) \/ RenameFails(s)
      PROVE  CapInv'
  BY <1>1 DEF TypeOK, CapInv, StoreBegin, Flush, StoreFails, RenameFails, logVars, memVars
<1>2. ASSUME NEW s \in Session, Rename(s) PROVE CapInv'
  BY <1>2 DEF TypeOK, CapInv, Rename, logVars, memVars
<1>3. ASSUME NEW s \in Session, SyncDir(s) \/ SyncRefused(s) PROVE CapInv'
  BY <1>3 DEF TypeOK, CapInv, SyncDir, SyncRefused, logVars, memVars
<1>4. ASSUME NEW s \in Session, IndexSession(s) PROVE CapInv'
  <2>1. UNCHANGED <<log, logExists>>
    BY <1>4 DEF IndexSession, logVars
  <2>2. CASE TraceFull(s)
    BY <1>4, <2>1, <2>2 DEF IndexSession, CapInv, TypeOK
  <2>3. CASE ~TraceFull(s)
    <3>1. /\ writer' = [writer EXCEPT ![s] = "logging"]
          /\ traceIds' = [traceIds EXCEPT ![TraceOf[s]] = traceIds[TraceOf[s]] \cup {s}]
      BY <1>4, <2>3 DEF IndexSession
    <3>2. traceIds[TraceOf[s]] \subseteq Session /\ IsFiniteSet(traceIds[TraceOf[s]])
      BY TraceOfType, StorageConstants, FS_Subset DEF TypeOK
    <3>3. Cardinality(traceIds[TraceOf[s]] \cup {s}) <= MaxPerTrace
      <4>1. Cardinality(traceIds[TraceOf[s]]) \in Nat
        BY <3>2, FS_CardinalityType
      <4>2. Cardinality(traceIds[TraceOf[s]]) <= MaxPerTrace
        BY TraceOfType DEF CapInv
      <4>3. Cardinality(traceIds[TraceOf[s]] \cup {s})
              = IF s \in traceIds[TraceOf[s]] THEN Cardinality(traceIds[TraceOf[s]])
                ELSE Cardinality(traceIds[TraceOf[s]]) + 1
        BY <3>2, FS_AddElement
      <4> QED
        BY <2>3, <4>1, <4>2, <4>3, StorageConstants DEF TraceFull
    <3>4. \A t \in Trace : Cardinality(traceIds'[t]) <= MaxPerTrace
      BY <3>1, <3>3 DEF CapInv, TypeOK
    <3>5. \A x \in Session : traceIds[TraceOf[x]] \subseteq traceIds'[TraceOf[x]]
      BY <3>1, TraceOfType DEF TypeOK
    <3>6. s \in traceIds'[TraceOf[s]]
      BY <3>1, TraceOfType DEF TypeOK
    <3>7. \A x \in Session : x # s => writer'[x] = writer[x]
      BY <3>1 DEF TypeOK
    <3> QED
      BY <2>1, <3>4, <3>5, <3>6, <3>7 DEF CapInv
  <2> QED
    BY <2>2, <2>3
<1>5. ASSUME NEW s \in Session, LogLine(s) PROVE CapInv'
  <2>1. UNCHANGED traceIds /\ writer[s] = "logging" /\ writer' = [writer EXCEPT ![s] = "logged"]
    BY <1>5 DEF LogLine, memVars
  <2>2. Range(log') \subseteq Range(log) \cup {s} /\ (~logExists' => Range(log') = {})
    BY <1>5, LinesGrow DEF LogLine, CapInv
  <2> QED
    BY <2>1, <2>2 DEF CapInv, TypeOK
<1>8. ASSUME NEW s \in Session, StoreReturns(s) PROVE CapInv'
  BY <1>8 DEF CapInv, StoreReturns, TypeOK, logVars, memVars
<1>6. ASSUME NEW s \in Session, Rot(s) PROVE CapInv'
  BY <1>6 DEF CapInv, Rot, logVars, memVars
<1>7. ASSUME NEW r \in Reader, LoadStep(r) PROVE CapInv'
  BY <1>7 DEF CapInv, LoadStep, LoadRead, Quarantine, Forget, logVars, memVars
<1>9. ASSUME NEW r \in Reader, NEW s \in Session, LoadBegin(r, s) PROVE CapInv'
  BY <1>9 DEF CapInv, LoadBegin, logVars, memVars
<1>10. ASSUME Restart PROVE CapInv'
  <2>1. PICK disk \in NamesLeft, left \in LogsLeft :
          /\ log' = left.lines
          /\ logExists' = left.exists
          /\ IF left.exists THEN RebuildFromLog(disk, Range(left.lines)) ELSE RebuildFromFiles(disk)
    BY <1>10 DEF Restart
  <2>2. Range(left.lines) \subseteq Range(log) /\ left.exists \in BOOLEAN
    BY LogsLeftType DEF TypeOK, LogState
  <2>3. ~left.exists => Range(left.lines) = {}
    <3>1. ~logExists => Range(log) = {}
      BY DEF CapInv
    <3>2. left.exists = logExists \/ left.lines = <<>>
      BY LogsLeftType DEF TypeOK
    <3>3. Range(<<>>) = {}
      BY DEF Range
    <3> QED
      BY <2>2, <3>1, <3>2, <3>3
  <2>4. Range(left.lines) \subseteq Session
    BY <2>2, RangeOfSeq DEF TypeOK
  <2>5. \A s \in Session : writer'[s] \notin {"logging", "logged"}
    BY <1>10 DEF Restart
  <2>6. CASE left.exists
    <3>1. \A t \in Trace : traceIds'[t] = InTrace(Range(left.lines), t)
      BY <2>1, <2>6 DEF RebuildFromLog
    <3>2. ASSUME NEW t \in Trace
          PROVE  Cardinality(InTrace(Range(left.lines), t)) <= MaxPerTrace
      <4>1. IsFiniteSet(traceIds[t]) /\ Cardinality(traceIds[t]) <= MaxPerTrace
        BY StorageConstants, FS_Subset DEF TypeOK, CapInv
      <4>2. InTrace(Range(left.lines), t) \in SUBSET traceIds[t]
        BY <2>2, <2>4 DEF CapInv, InTrace
      <4>3. /\ IsFiniteSet(InTrace(Range(left.lines), t))
            /\ Cardinality(InTrace(Range(left.lines), t)) <= Cardinality(traceIds[t])
        BY <4>1, <4>2, FS_Subset
      <4> QED
        BY <4>1, <4>3, StorageConstants, FS_CardinalityType
    <3>3. \A s \in Session : s \in Range(left.lines) => s \in traceIds'[TraceOf[s]]
      BY <3>1, TraceOfType DEF InTrace
    <3> QED
      BY <2>1, <2>3, <2>5, <3>1, <3>2, <3>3 DEF CapInv
  <2>7. CASE ~left.exists
    <3>1. ASSUME NEW t \in Trace PROVE Cardinality(traceIds'[t]) <= MaxPerTrace
      <4>1. PICK S : traceIds'[t] \in Capped(S)
        BY <2>1, <2>7 DEF RebuildFromFiles
      <4> QED
        BY <4>1, StorageConstants DEF Capped
    <3> QED
      BY <2>1, <2>3, <2>5, <2>7, <3>1 DEF CapInv
  <2> QED
    BY <2>2, <2>6, <2>7
<1>11. CASE UNCHANGED vars
  BY <1>11 DEF CapInv, vars, logVars, memVars
<1> QED
  BY <1>1, <1>2, <1>3, <1>4, <1>5, <1>6, <1>7, <1>8, <1>9, <1>10, <1>11
  DEF Next, StoreStep

\* index.jsonl never gives a trace more sessions than rebuildIndex() accepts,
\* although lost appends, power failures and full scans make the log and the
\* index disagree.
THEOREM LogCapped == Spec => []LogWithinTraceCap
<1>1. TypeOK /\ CapInv => LogWithinTraceCap
  <2> SUFFICES ASSUME TypeOK, CapInv, NEW t \in Trace
               PROVE  Cardinality(InTrace(Range(log), t)) <= MaxPerTrace
    BY DEF LogWithinTraceCap
  <2>1. IsFiniteSet(traceIds[t]) /\ Cardinality(traceIds[t]) <= MaxPerTrace
    BY StorageConstants, FS_Subset DEF TypeOK, CapInv
  <2>2. InTrace(Range(log), t) \in SUBSET traceIds[t]
    BY RangeOfSeq DEF CapInv, InTrace, TypeOK
  <2>3. /\ IsFiniteSet(InTrace(Range(log), t))
        /\ Cardinality(InTrace(Range(log), t)) <= Cardinality(traceIds[t])
    BY <2>1, <2>2, FS_Subset
  <2> QED
    BY <2>1, <2>3, StorageConstants, FS_CardinalityType
<1> QED
  BY <1>1, CapInvInit, CapInvStep, TypeCorrect, PTL DEF Spec

-----------------------------------------------------------------------------
(***************************************************************************)
(* Readability.  A session that was acknowledged has its line in           *)
(* index.jsonl, unless that was lost; what has a line is in the index,     *)
(* before a restart and after it.                                          *)
(***************************************************************************)
IndexInv ==
    /\ acked \subseteq Range(log) \cup unlogged
    /\ ~logExists => Range(log) = {}
    /\ \A s \in Session : writer[s] = "logged" => s \in Range(log) \cup unlogged
    /\ \A s \in Session : writer[s] \in {"logging", "logged"} \/ s \in Range(log) =>
         /\ s \in listed
         /\ s \in traceIds[TraceOf[s]]
         /\ s \notin rotted => index[s] = "final"

LEMMA IndexInvInit == Init => IndexInv
<1> SUFFICES ASSUME Init PROVE IndexInv
  OBVIOUS
<1>1. Range(log) = {}
  BY DEF Init, Range
<1> QED
  BY <1>1 DEF IndexInv, Init

LEMMA IndexInvStep == TypeOK /\ FileInv /\ IndexInv /\ [Next]_vars => IndexInv'
<1> SUFFICES ASSUME TypeOK, FileInv, IndexInv, [Next]_vars PROVE IndexInv'
  OBVIOUS
<1>1. ASSUME NEW s \in Session, StoreBegin(s) \/ Flush(s) \/ StoreFails(s) \/ RenameFails(s)
      PROVE  IndexInv'
  <2>1. CASE StoreBegin(s) \/ Flush(s)
    BY <2>1 DEF TypeOK, IndexInv, StoreBegin, Flush, logVars, memVars, history
  <2>2. CASE StoreFails(s)
    BY <2>2 DEF TypeOK, IndexInv, StoreFails, logVars, memVars, history
  <2>3. CASE RenameFails(s)
    BY <2>3 DEF TypeOK, IndexInv, RenameFails, logVars, memVars, history
  <2> QED
    BY <1>1, <2>1, <2>2, <2>3
<1>2. ASSUME NEW s \in Session, Rename(s) PROVE IndexInv'
  BY <1>2 DEF TypeOK, IndexInv, Rename, logVars, memVars, history
<1>13. ASSUME NEW s \in Session, SyncDir(s) \/ SyncRefused(s) PROVE IndexInv'
  <2>1. CASE SyncDir(s)
    BY <2>1 DEF TypeOK, IndexInv, SyncDir, logVars, memVars
  <2>2. CASE SyncRefused(s)
    BY <2>2 DEF TypeOK, IndexInv, SyncRefused, logVars, memVars
  <2> QED
    BY <1>13, <2>1, <2>2
<1>3. ASSUME NEW s \in Session, IndexSession(s) PROVE IndexInv'
  <2>1. UNCHANGED <<log, logExists, unlogged, acked, rotted>>
    BY <1>3 DEF IndexSession, logVars, history
  <2>2. /\ index' = [index EXCEPT ![s] = "final"]
        /\ listed' = listed \cup {s}
    BY <1>3 DEF IndexSession
  <2>3. CASE TraceFull(s)
    BY <1>3, <2>1, <2>2, <2>3 DEF IndexSession, IndexInv, TypeOK
  <2>4. CASE ~TraceFull(s)
    <3>1. /\ writer' = [writer EXCEPT ![s] = "logging"]
          /\ traceIds' = [traceIds EXCEPT ![TraceOf[s]] = traceIds[TraceOf[s]] \cup {s}]
      BY <1>3, <2>4 DEF IndexSession
    <3>2. \A x \in Session : traceIds[TraceOf[x]] \subseteq traceIds'[TraceOf[x]]
      BY <3>1, TraceOfType DEF TypeOK
    <3>3. s \in traceIds'[TraceOf[s]]
      BY <3>1, TraceOfType DEF TypeOK
    <3> QED
      BY <2>1, <2>2, <3>1, <3>2, <3>3 DEF IndexInv, TypeOK
  <2> QED
    BY <2>3, <2>4
<1>4. ASSUME NEW s \in Session, LogLine(s) PROVE IndexInv'
  <2>1. /\ Range(log) \subseteq Range(log') /\ Range(log') \subseteq Range(log) \cup {s}
        /\ Range(log) \cup unlogged \subseteq Range(log') \cup unlogged'
        /\ s \in Range(log') \cup unlogged'
        /\ ~logExists' => Range(log') = {}
    BY <1>4, LinesGrow DEF LogLine, IndexInv
  <2>2. UNCHANGED <<index, listed, traceIds, acked, rotted>>
    BY <1>4 DEF LogLine, memVars, history
  <2>3. writer[s] = "logging" /\ writer' = [writer EXCEPT ![s] = "logged"]
    BY <1>4 DEF LogLine
  <2> QED
    BY <2>1, <2>2, <2>3 DEF IndexInv, TypeOK
<1>11. ASSUME NEW s \in Session, StoreReturns(s) PROVE IndexInv'
  BY <1>11 DEF StoreReturns, IndexInv, TypeOK, logVars, memVars
<1>5. ASSUME NEW s \in Session, Rot(s) PROVE IndexInv'
  BY <1>5 DEF IndexInv, Rot, logVars, memVars
<1>6. ASSUME NEW r \in Reader, LoadRead(r) PROVE IndexInv'
  BY <1>6 DEF IndexInv, LoadRead, logVars, memVars, history
<1>7. ASSUME NEW r \in Reader, Quarantine(r) PROVE IndexInv'
  BY <1>7 DEF IndexInv, Quarantine, logVars, memVars, history
<1>12. ASSUME NEW r \in Reader, Forget(r) PROVE IndexInv'
  <2>1. reader[r].id \in rotted
    BY <1>12 DEF Forget, FileInv
  <2>2. \A s \in Session : s \notin rotted => index'[s] = index[s]
    BY <1>12, <2>1 DEF Forget, TypeOK
  <2> QED
    BY <1>12, <2>2 DEF Forget, IndexInv, logVars, history
<1>8. ASSUME NEW r \in Reader, NEW s \in Session, LoadBegin(r, s) PROVE IndexInv'
  BY <1>8 DEF IndexInv, LoadBegin, logVars, memVars, history
<1>9. ASSUME Restart PROVE IndexInv'
  <2>1. PICK disk \in NamesLeft, left \in LogsLeft :
          /\ log' = left.lines
          /\ logExists' = left.exists
          /\ unlogged' = unlogged \cup (Range(log) \ Range(left.lines))
          /\ IF left.exists THEN RebuildFromLog(disk, Range(left.lines)) ELSE RebuildFromFiles(disk)
    BY <1>9 DEF Restart
  <2>2. UNCHANGED <<acked, rotted>> /\ \A s \in Session : writer'[s] \notin {"logging", "logged"}
    BY <1>9 DEF Restart
  <2>3. /\ Range(left.lines) \subseteq Range(log) /\ left.exists \in BOOLEAN
        /\ ~left.exists => Range(left.lines) = {}
    <3>1. Range(<<>>) = {}
      BY DEF Range
    <3> QED
      BY <3>1, LogsLeftType DEF TypeOK, LogState, IndexInv
  <2>4. acked' \subseteq Range(log') \cup unlogged'
    BY <2>1, <2>2 DEF IndexInv
  <2>5. CASE left.exists
    <3>1. \A s \in Range(left.lines) : /\ s \in listed'
                                       /\ s \in Session => /\ s \in traceIds'[TraceOf[s]]
                                                           /\ index'[s] = "final"
      BY <2>1, <2>5, TraceOfType DEF RebuildFromLog, InTrace
    <3> QED
      BY <2>1, <2>2, <2>3, <2>4, <3>1 DEF IndexInv
  <2>6. CASE ~left.exists
    BY <2>1, <2>2, <2>3, <2>4, <2>6 DEF IndexInv
  <2> QED
    BY <2>3, <2>5, <2>6
<1>10. CASE UNCHANGED vars
  BY <1>10 DEF IndexInv, vars, logVars, memVars, history
<1> QED
  BY <1>1, <1>2, <1>3, <1>4, <1>5, <1>6, <1>7, <1>8, <1>9, <1>10, <1>11, <1>12, <1>13
  DEF Next, StoreStep, LoadStep

\* A session whose store() returned is loaded, over any interleaving of stores
\* and loads, failed writes, power failures and restarts, unless its file rotted,
\* its directory could not be flushed, or its line in index.jsonl is lost.
THEOREM Readable == Spec => []AckedReadable
<1>1. TypeOK /\ FileInv /\ IndexInv => AckedReadable
  BY DEF TypeOK, FileInv, IndexInv, AckedReadable
<1> QED
  BY <1>1, IndexInvInit, IndexInvStep, FileInvInit, FileInvStep, TypeCorrect, PTL DEF Spec

\* ... and it is found by listSessions() and by findByTraceId(), unless its line
\* in index.jsonl is lost.
THEOREM Findable == Spec => []AckedFindable
<1>1. TypeOK /\ IndexInv => AckedFindable
  BY DEF TypeOK, IndexInv, AckedFindable
<1> QED
  BY <1>1, IndexInvInit, IndexInvStep, FileInvInit, FileInvStep, TypeCorrect, PTL DEF Spec

-----------------------------------------------------------------------------
(***************************************************************************)
(* The server.                                                             *)
(***************************************************************************)
Busy == [stage: {"arrived", "storing", "writing", "200", "refused"},
         sessions: Seq(Session), at: Nat \ {0}, awaited: BOOLEAN]

\* The sessions of a request that were stored for it, and what a handler knows
\* of them; done are the sessions whose store() returned.
Passed(q) == {q.sessions[i] : i \in {j \in 1..Len(q.sessions) : j < q.at \/ q.stage = "200"}}

HandlerInv(q, done) ==
    /\ q.stage = "arrived" => q.at = 1
    /\ q.stage = "writing" => q.at <= Len(q.sessions)
    /\ q.stage # "refused" => Passed(q) \subseteq done

\* The probe waits for one request at most, and that one holds its batch.
AwaitedInv ==
    /\ \A r \in Request : request[r] \in Busy /\ request[r].awaited
                          => request[r].sessions = batch /\ batch # <<>>
    /\ \A r1, r2 \in Request :
          /\ request[r1] \in Busy /\ request[r1].awaited
          /\ request[r2] \in Busy /\ request[r2].awaited
          => r1 = r2

ProbeInv ==
    /\ completed \subseteq Session /\ queue \in Seq(Session) /\ batch \in Seq(Session)
    /\ sessionsReceived \in Nat /\ timeouts \in 0..MaxTimeouts
    /\ delivered \subseteq acked

RequestInv ==
    /\ request \in [Request -> {Free} \cup Busy]
    /\ \A r \in Request : request[r] \in Busy => HandlerInv(request[r], acked)

ServerInv == ProbeInv /\ RequestInv /\ AwaitedInv

-----------------------------------------------------------------------------
LEMMA BusyRequest ==
    ASSUME RequestInv, NEW r \in Request, request[r].stage # "free"
    PROVE  request[r] \in Busy /\ HandlerInv(request[r], acked)
BY DEF RequestInv, Free

LEMMA FreeIsNotBusy == Free \notin Busy
BY DEF Free, Busy

\* A handler is given another state, the others keep theirs.
LEMMA OneRequest ==
    ASSUME RequestInv, NEW r \in Request, NEW q \in Busy, acked \subseteq acked',
           request' = [request EXCEPT ![r] = q], HandlerInv(q, acked')
    PROVE  RequestInv'
<1>1. request' \in [Request -> {Free} \cup Busy]
  BY DEF RequestInv
<1>2. ASSUME NEW x \in Request, request'[x] \in Busy PROVE HandlerInv(request'[x], acked')
  <2>1. CASE x = r
    BY <2>1 DEF RequestInv
  <2>2. CASE x # r
    BY <1>2, <2>2 DEF RequestInv, HandlerInv
  <2> QED
    BY <2>1, <2>2
<1> QED
  BY <1>1, <1>2 DEF RequestInv

LEMMA CurrentSession ==
    ASSUME NEW q \in Busy, q.at <= Len(q.sessions)
    PROVE  q.sessions[q.at] \in Session /\ q.at \in 1..Len(q.sessions)
BY DEF Busy

\* Steps of the storage engine.
LEMMA AckedGrows == [Next]_vars => acked \subseteq acked'
BY DEF Next, vars, history, StoreBegin, StoreStep, Flush, Rename, SyncDir, SyncRefused, StoreFails, RenameFails, IndexSession, LogLine, StoreReturns, LoadBegin, LoadStep, LoadRead, Quarantine, Forget, Rot, Restart

LEMMA StorageStep ==
    ASSUME NEW s \in Session,
           StoreBegin(s) \/ Flush(s) \/ Rename(s) \/ SyncDir(s) \/ SyncRefused(s) \/ StoreFails(s) \/ RenameFails(s)
              \/ IndexSession(s) \/ LogLine(s) \/ StoreReturns(s)
    PROVE  Next
BY DEF Next, StoreStep

LEMMA ServerInitial == ServerInit => ServerInv /\ Init
<1> SUFFICES ASSUME ServerInit PROVE ServerInv
  BY DEF ServerInit
<1>1. ProbeInv
  BY EmptySeq, ServerConstants DEF ServerInit, ProbeInv
<1>2. RequestInv /\ AwaitedInv
  BY FreeIsNotBusy DEF ServerInit, RequestInv, AwaitedInv
<1> QED
  BY <1>1, <1>2 DEF ServerInv

\* Every step of the server is one of its storage engine, or leaves that alone.
LEMMA ServerStepsStorage ==
    ASSUME RequestInv, [ServerNext]_serverVars
    PROVE  [Next]_vars
<1>1. ASSUME NEW r \in Request, StoreSession(r) PROVE [Next]_vars
  <2>1. request[r] \in Busy /\ request[r].at <= Len(request[r].sessions)
    BY <1>1, BusyRequest DEF StoreSession
  <2>2. Current(r) \in Session
    BY <2>1, CurrentSession DEF Current
  <2> QED
    BY <1>1, <2>2, StorageStep DEF StoreSession, StartStore
<1>2. ASSUME NEW r \in Request, Writing(r) \/ StoreThrows(r) \/ SessionStored(r)
      PROVE  [Next]_vars
  <2>1. request[r] \in Busy /\ request[r].stage = "writing" /\ HandlerInv(request[r], acked)
    BY <1>2, BusyRequest DEF Writing, StoreThrows, SessionStored
  <2>2. Current(r) \in Session
    BY <2>1, CurrentSession DEF Current, HandlerInv
  <2> QED
    BY <1>2, <2>2, StorageStep DEF Writing, StoreThrows, SessionStored
<1>3. ASSUME NEW r \in Request,
             Post(r) \/ GiveUp(r) \/ Answered(r) \/ Refuse(r) \/ ReadBody(r) \/ RejectSession(r)
                \/ BatchStored(r)
      PROVE  UNCHANGED vars
  BY <1>3 DEF Post, GiveUp, Answered, Refuse, ReadBody, RejectSession, BatchStored
<1>4. ASSUME NEW s \in Session, CompleteSession(s) PROVE UNCHANGED vars
  BY <1>4 DEF CompleteSession
<1>5. ASSUME ServerRestarts PROVE Next
  BY <1>5 DEF ServerRestarts, Next
<1>6. ASSUME UNCHANGED serverVars PROVE UNCHANGED vars
  BY <1>6 DEF serverVars
<1> QED
  BY <1>1, <1>2, <1>3, <1>4, <1>5, <1>6 DEF ServerNext, Handler

-----------------------------------------------------------------------------
\* What a request becomes when its handler goes to a stage, and to its n-th
\* session.
At(q, stage, n) == [stage |-> stage, sessions |-> q.sessions, at |-> n, awaited |-> q.awaited]

LEMMA GoingTo ==
    ASSUME NEW q \in Busy, NEW stage
    PROVE  [q EXCEPT !.stage = stage] = At(q, stage, q.at)
BY DEF Busy, At

LEMMA OnwardAt ==
    ASSUME NEW q \in Busy
    PROVE  Onward(q) = At(q, "storing", q.at + 1)
<1> DEFINE there == At(q, "storing", q.at + 1)
<1>6. q.at + 1 \in Nat \ {0}
  BY DEF Busy
<1>1. Onward(q) \in Busy /\ there \in Busy
  <2>1. \A n \in Nat \ {0} : [q EXCEPT !.stage = "storing", !.at = n] \in Busy
    BY DEF Busy
  <2>2. there \in Busy
    BY <1>6 DEF Busy, At
  <2> QED
    BY <1>6, <2>1, <2>2 DEF Onward
<1>2. Onward(q).stage = there.stage /\ Onward(q).at = there.at
  BY DEF Busy, At, Onward
<1>3. Onward(q).sessions = there.sessions
  BY DEF Busy, At, Onward
<1>4. Onward(q).awaited = there.awaited
  BY DEF Busy, At, Onward
<1> HIDE DEF there
<1>5. Onward(q) = there
  BY <1>1, <1>2, <1>3, <1>4 DEF Busy
<1> QED
  BY <1>5 DEF there

LEMMA Moving ==
    ASSUME RequestInv, NEW r \in Request, request[r] \in Busy,
           NEW stage \in {"arrived", "storing", "writing", "200", "refused"}
    PROVE  /\ To(r, stage) => request' = [request EXCEPT ![r] = At(request[r], stage, request[r].at)]
           /\ Onward(request[r]) = At(request[r], "storing", request[r].at + 1)
           /\ At(request[r], stage, request[r].at) \in Busy
           /\ At(request[r], stage, request[r].at + 1) \in Busy
<1>1. request \in [Request -> {Free} \cup Busy]
  BY DEF RequestInv
<1>2. [request[r] EXCEPT !.stage = stage] = At(request[r], stage, request[r].at)
  BY GoingTo
<1>6. request[r].at + 1 \in Nat \ {0}
  BY DEF Busy
<1>3. /\ At(request[r], stage, request[r].at) \in Busy
      /\ At(request[r], stage, request[r].at + 1) \in Busy
  BY DEF Busy, At
<1>4. To(r, stage) => request' = [request EXCEPT ![r] = At(request[r], stage, request[r].at)]
  BY <1>1, <1>2 DEF To
<1>5. Onward(request[r]) = At(request[r], "storing", request[r].at + 1)
  BY <1>6, OnwardAt
<1> QED
  BY <1>3, <1>4, <1>5, Zenon

\* A handler goes on; nobody else does, and the probe waits as it did.
LEMMA HandlerMoves ==
    ASSUME RequestInv, AwaitedInv, NEW r \in Request, request[r] \in Busy,
           NEW stage \in {"arrived", "storing", "writing", "200", "refused"},
           NEW n \in {request[r].at, request[r].at + 1},
           request' = [request EXCEPT ![r] = At(request[r], stage, n)],
           At(request[r], stage, n) \in Busy,
           HandlerInv(At(request[r], stage, n), acked'), acked \subseteq acked', batch' = batch
    PROVE  RequestInv' /\ AwaitedInv'
<1> DEFINE q == At(request[r], stage, n)
<1>1. RequestInv'
  BY OneRequest
<1>2. q.sessions = request[r].sessions /\ q.awaited = request[r].awaited
  BY DEF At
<1> HIDE DEF q
<1>3. \A x \in Request : request'[x] \in Busy /\ request'[x].awaited
         => /\ request[x] \in Busy /\ request[x].awaited
            /\ request'[x].sessions = request[x].sessions
  BY <1>2 DEF RequestInv, q
<1>4. AwaitedInv'
  BY <1>3 DEF AwaitedInv
<1> QED
  BY <1>1, <1>4

\* What is stored before a session, and with it.
LEMMA PassedSoFar ==
    ASSUME NEW q \in Busy, NEW stage \in {"storing", "writing", "refused"}, q.stage \in {"arrived", "storing", "writing"}
    PROVE  /\ Passed(At(q, stage, q.at)) = Passed(q)
           /\ q.at <= Len(q.sessions) =>
                 Passed(At(q, stage, q.at + 1)) \subseteq Passed(q) \cup {q.sessions[q.at]}
<1>1. q.at \in Nat \ {0} /\ Len(q.sessions) \in Nat
  BY DEF Busy
<1>2. /\ At(q, stage, q.at).sessions = q.sessions /\ At(q, stage, q.at).at = q.at
      /\ At(q, stage, q.at).stage # "200"
      /\ At(q, stage, q.at + 1).sessions = q.sessions /\ At(q, stage, q.at + 1).at = q.at + 1
      /\ At(q, stage, q.at + 1).stage # "200"
  BY DEF At
<1>3. \A j \in 1..Len(q.sessions) : j < q.at + 1 => j < q.at \/ j = q.at
  BY <1>1
<1> QED
  BY <1>1, <1>2, <1>3 DEF Passed

LEMMA HandlerStep ==
    ASSUME ServerInv, NEW r \in Request, Handler(r)
    PROVE  ServerInv'
<1>t. ProbeInv /\ RequestInv /\ AwaitedInv
  BY DEF ServerInv
<1>a. acked \subseteq acked'
  <2>1. [ServerNext]_serverVars
    BY DEF ServerNext
  <2> QED
    BY <1>t, <2>1, ServerStepsStorage, AckedGrows
<1>q. request[r].stage # "free"
  BY DEF Handler, Refuse, ReadBody, RejectSession, StoreSession, Writing, StoreThrows, SessionStored, BatchStored
<1>b. request[r] \in Busy /\ HandlerInv(request[r], acked)
  BY <1>t, <1>q, BusyRequest
<1>p. UNCHANGED probeVars /\ sessionsReceived' \in Nat
  BY <1>t DEF Handler, Refuse, ReadBody, RejectSession, StoreSession, Writing, StoreThrows, SessionStored, BatchStored, ProbeInv
<1>1. ProbeInv' /\ batch' = batch
  BY <1>t, <1>a, <1>p DEF ProbeInv, probeVars
<1>2. ASSUME NEW stage \in {"refused", "storing"}, To(r, stage), request[r].stage = "arrived"
      PROVE  RequestInv' /\ AwaitedInv'
  <2>1. HandlerInv(At(request[r], stage, request[r].at), acked')
    BY <1>b, <1>a, <1>2, PassedSoFar DEF HandlerInv, At
  <2> QED
    BY <1>t, <1>a, <1>b, <1>1, <1>2, <2>1, Moving, HandlerMoves
<1>3. ASSUME To(r, "refused")
      PROVE  RequestInv' /\ AwaitedInv'
  <2>1. HandlerInv(At(request[r], "refused", request[r].at), acked')
    BY DEF HandlerInv, At
  <2> QED
    BY <1>t, <1>a, <1>b, <1>1, <1>3, <2>1, Moving, HandlerMoves
<1>4. ASSUME To(r, "writing"), request[r].stage = "storing", request[r].at <= Len(request[r].sessions)
      PROVE  RequestInv' /\ AwaitedInv'
  <2>1. Passed(At(request[r], "writing", request[r].at)) \subseteq acked'
    BY <1>b, <1>a, <1>4, PassedSoFar DEF HandlerInv
  <2>2. HandlerInv(At(request[r], "writing", request[r].at), acked')
    BY <1>4, <2>1 DEF HandlerInv, At
  <2> QED
    BY <1>t, <1>a, <1>b, <1>1, <1>4, <2>2, Moving, HandlerMoves
<1>5. ASSUME SessionStored(r)
      PROVE  RequestInv' /\ AwaitedInv'
  <2>1. /\ request[r].stage = "writing" /\ acked' = acked \cup {Current(r)}
        /\ request' = [request EXCEPT ![r] = Onward(@)]
    BY <1>5 DEF SessionStored, StoreReturns
  <2>2. request[r].at <= Len(request[r].sessions)
    BY <1>b, <2>1 DEF HandlerInv
  <2>3. Passed(request[r]) \subseteq acked
    BY <1>b, <2>1 DEF HandlerInv
  <2>4. Passed(At(request[r], "storing", request[r].at + 1)) \subseteq acked'
    BY <1>b, <2>1, <2>2, <2>3, PassedSoFar DEF Current
  <2>5. HandlerInv(At(request[r], "storing", request[r].at + 1), acked')
    BY <2>4 DEF HandlerInv, At
  <2> QED
    BY <1>t, <1>a, <1>b, <1>1, <2>1, <2>5, Moving, HandlerMoves
<1>6. ASSUME BatchStored(r)
      PROVE  RequestInv' /\ AwaitedInv'
  <2>1. request[r].stage = "storing" /\ request[r].at > Len(request[r].sessions) /\ To(r, "200")
    BY <1>6 DEF BatchStored
  <2>2. request[r].at \in Nat /\ Len(request[r].sessions) \in Nat
    BY <1>b DEF Busy
  <2>3. \A i \in 1..Len(request[r].sessions) : request[r].sessions[i] \in acked
    BY <1>b, <2>1, <2>2 DEF HandlerInv, Passed
  <2>4. Passed(At(request[r], "200", request[r].at)) \subseteq acked'
    BY <1>a, <2>3 DEF Passed, At
  <2>5. HandlerInv(At(request[r], "200", request[r].at), acked')
    BY <2>4 DEF HandlerInv, At
  <2> QED
    BY <1>t, <1>a, <1>b, <1>1, <2>1, <2>5, Moving, HandlerMoves
<1>7. ASSUME Writing(r)
      PROVE  RequestInv' /\ AwaitedInv'
  <2>1. UNCHANGED <<request, batch>>
    BY <1>7, <1>1 DEF Writing
  <2> QED
    BY <1>t, <1>a, <2>1 DEF RequestInv, AwaitedInv, HandlerInv
<1>8. RequestInv' /\ AwaitedInv'
  <2>1. CASE Refuse(r) \/ RejectSession(r) \/ StoreThrows(r)
    BY <1>3, <2>1 DEF Refuse, RejectSession, StoreThrows
  <2>2. CASE ReadBody(r)
    BY <1>2, <2>2 DEF ReadBody
  <2>3. CASE StoreSession(r)
    BY <1>3, <1>4, <2>3 DEF StoreSession, StartStore
  <2> QED
    BY <1>5, <1>6, <1>7, <2>1, <2>2, <2>3 DEF Handler
<1> QED
  BY <1>1, <1>8 DEF ServerInv

-----------------------------------------------------------------------------
\* Steps of the probe and of the server's life.
LEMMA PostStep ==
    ASSUME ServerInv, NEW r \in Request, Post(r)
    PROVE  ServerInv'
<1> DEFINE q == [stage |-> "arrived", sessions |-> queue, at |-> 1, awaited |-> TRUE]
<1>1. /\ batch = <<>> /\ queue # <<>> /\ batch' = queue /\ queue' = <<>>
      /\ request' = [request EXCEPT ![r] = q] /\ acked' = acked
      /\ UNCHANGED <<completed, delivered, timeouts, sessionsReceived>>
  BY DEF Post, vars, history
<1>t. ProbeInv /\ RequestInv /\ AwaitedInv
  BY DEF ServerInv
<1>2. q \in Busy /\ HandlerInv(q, acked')
  <2>1. q \in Busy
    BY <1>t DEF ProbeInv, Busy
  <2>2. Len(queue) \in Nat
    BY <1>t DEF ProbeInv
  <2>3. Passed(q) = {}
    BY <2>2 DEF Passed
  <2> QED
    BY <2>1, <2>3 DEF HandlerInv
<1>3. q.sessions = queue /\ q.awaited
  OBVIOUS
<1> HIDE DEF q
<1>4. RequestInv'
  BY <1>1, <1>2, <1>t, OneRequest
<1>5. \A x \in Request : request[x] \in Busy => ~request[x].awaited
  BY <1>1, <1>t DEF AwaitedInv
<1>6. AwaitedInv'
  BY <1>1, <1>3, <1>5, <1>t DEF AwaitedInv, RequestInv
<1>7. ProbeInv'
  BY <1>1, <1>t, EmptySeq DEF ProbeInv
<1> QED
  BY <1>4, <1>6, <1>7 DEF ServerInv

LEMMA RequeueType ==
    ASSUME ProbeInv, Requeue
    PROVE  queue' \in Seq(Session) /\ batch' \in Seq(Session)
BY ConcatProperties, EmptySeq DEF ProbeInv, Requeue

LEMMA GiveUpStep ==
    ASSUME ServerInv, NEW r \in Request, GiveUp(r)
    PROVE  ServerInv'
<1>1. /\ request[r] # Free /\ request[r].awaited /\ Requeue
      /\ timeouts < MaxTimeouts /\ timeouts' = timeouts + 1
      /\ request' = [request EXCEPT ![r].awaited = FALSE] /\ acked' = acked
      /\ UNCHANGED <<completed, delivered, sessionsReceived>>
  BY DEF GiveUp, vars, history
<1>t. ProbeInv /\ RequestInv /\ AwaitedInv
  BY DEF ServerInv
<1>b. request[r] \in Busy /\ HandlerInv(request[r], acked)
  BY <1>1, <1>t DEF RequestInv
<1> DEFINE q == [request[r] EXCEPT !.awaited = FALSE]
<1>2. /\ q \in Busy /\ ~q.awaited
      /\ q.stage = request[r].stage /\ q.at = request[r].at /\ q.sessions = request[r].sessions
  BY <1>b DEF Busy
<1>3. request' = [request EXCEPT ![r] = q]
  BY <1>1
<1> HIDE DEF q
<1>4. HandlerInv(q, acked')
  BY <1>1, <1>2, <1>b DEF HandlerInv, Passed
<1>5. RequestInv'
  BY <1>1, <1>2, <1>3, <1>4, <1>t, OneRequest
<1>6. \A x \in Request : request'[x] \in Busy => ~request'[x].awaited
  BY <1>1, <1>2, <1>3, <1>b, <1>t DEF AwaitedInv, RequestInv
<1>7. AwaitedInv'
  BY <1>6 DEF AwaitedInv
<1>8. ProbeInv'
  BY <1>1, <1>t, RequeueType, ServerConstants DEF ProbeInv
<1> QED
  BY <1>5, <1>7, <1>8 DEF ServerInv

LEMMA AnsweredStep ==
    ASSUME ServerInv, NEW r \in Request, Answered(r)
    PROVE  ServerInv'
<1>1. /\ request[r].stage \in {"200", "refused"} /\ acked' = acked
      /\ request' = [request EXCEPT ![r] = Free]
      /\ UNCHANGED <<completed, timeouts, sessionsReceived>>
  BY DEF Answered, vars, history
<1>t. ProbeInv /\ RequestInv /\ AwaitedInv
  BY DEF ServerInv
<1>b. request[r] \in Busy /\ HandlerInv(request[r], acked)
  BY <1>1, <1>t, BusyRequest
<1>2. RequestInv'
  BY <1>1, <1>t, FreeIsNotBusy DEF RequestInv
<1>3. \A x \in Request : request'[x] \in Busy => x # r /\ request'[x] = request[x]
  BY <1>1, <1>t, FreeIsNotBusy DEF RequestInv
<1>4. CASE ~request[r].awaited
  <2>1. UNCHANGED <<queue, batch, delivered>>
    BY <1>4 DEF Answered
  <2>2. AwaitedInv'
    BY <1>3, <1>t, <2>1 DEF AwaitedInv
  <2>3. ProbeInv'
    BY <1>1, <1>t, <2>1 DEF ProbeInv
  <2> QED
    BY <1>2, <2>2, <2>3 DEF ServerInv
<1>5. CASE request[r].awaited
  <2>1. \A x \in Request : request'[x] \in Busy => ~request'[x].awaited
    BY <1>3, <1>5, <1>b, <1>t DEF AwaitedInv
  <2>2. AwaitedInv'
    BY <2>1 DEF AwaitedInv
  <2>3. CASE request[r].stage = "refused"
    <3>1. Requeue /\ delivered' = delivered
      BY <1>5, <2>3 DEF Answered
    <3>2. ProbeInv'
      BY <1>1, <1>t, <3>1, RequeueType DEF ProbeInv
    <3> QED
      BY <1>2, <2>2, <3>2 DEF ServerInv
  <2>4. CASE request[r].stage = "200"
    <3>1. batch' = <<>> /\ delivered' = delivered \cup Range(batch) /\ queue' = queue
      BY <1>5, <2>4 DEF Answered
    <3>2. batch = request[r].sessions /\ batch \in Seq(Session)
      BY <1>5, <1>b, <1>t DEF AwaitedInv, ProbeInv
    <3>3. Range(batch) = Passed(request[r])
      BY <2>4, <3>2 DEF Passed, Range
    <3>4. Range(batch) \subseteq acked
      BY <1>b, <2>4, <3>3 DEF HandlerInv
    <3>5. ProbeInv'
      BY <1>1, <1>t, <3>1, <3>4, EmptySeq DEF ProbeInv
    <3> QED
      BY <1>2, <2>2, <3>5 DEF ServerInv
  <2> QED
    BY <1>1, <2>3, <2>4
<1> QED
  BY <1>4, <1>5

LEMMA CompleteStep ==
    ASSUME ServerInv, NEW s \in Session, CompleteSession(s)
    PROVE  ServerInv'
<1>1. /\ completed' = completed \cup {s} /\ queue' = Append(queue, s)
      /\ UNCHANGED <<batch, delivered, timeouts, request, sessionsReceived, acked>>
  BY DEF CompleteSession, vars, history
<1>2. ProbeInv'
  <2>1. ProbeInv
    BY DEF ServerInv
  <2>2. queue' \in Seq(Session)
    BY <1>1, <2>1, AppendProperties DEF ProbeInv
  <2> QED
    BY <1>1, <2>1, <2>2 DEF ProbeInv
<1>3. RequestInv' /\ AwaitedInv'
  BY <1>1 DEF ServerInv, RequestInv, AwaitedInv
<1> QED
  BY <1>2, <1>3 DEF ServerInv

LEMMA RestartStep ==
    ASSUME ServerInv, ServerRestarts
    PROVE  ServerInv'
<1>1. /\ request' = [r \in Request |-> Free] /\ sessionsReceived' = 0 /\ Requeue
      /\ UNCHANGED <<completed, delivered, timeouts>> /\ acked' = acked
  BY DEF ServerRestarts, Restart
<1>2. RequestInv' /\ AwaitedInv'
  BY <1>1, FreeIsNotBusy DEF RequestInv, AwaitedInv
<1>3. ProbeInv'
  <2>1. ProbeInv
    BY DEF ServerInv
  <2> QED
    BY <1>1, <2>1, RequeueType DEF ProbeInv
<1> QED
  BY <1>2, <1>3 DEF ServerInv

LEMMA ServerStep == ServerInv /\ [ServerNext]_serverVars => ServerInv'
<1> SUFFICES ASSUME ServerInv, [ServerNext]_serverVars PROVE ServerInv'
  OBVIOUS
<1>1. CASE UNCHANGED serverVars
  <2>1. UNCHANGED <<completed, queue, batch, delivered, timeouts, request, sessionsReceived, acked>>
    BY <1>1 DEF serverVars, probeVars, vars, history
  <2> QED
    BY <2>1 DEF ServerInv, ProbeInv, RequestInv, AwaitedInv
<1> QED
  BY <1>1, PostStep, GiveUpStep, AnsweredStep, HandlerStep, CompleteStep, RestartStep DEF ServerNext

LEMMA ServerAlways == ServerSpec => []ServerInv
BY ServerInitial, ServerStep, PTL DEF ServerSpec

-----------------------------------------------------------------------------
\* Every step of the server is a step of its storage engine or none, so what
\* is proved of the engine holds behind the server.
LEMMA StoreBehindServer == ServerSpec => Spec
<1>1. ServerInit => Init
  BY DEF ServerInit
<1>2. ServerInv /\ [ServerNext]_serverVars => [Next]_vars
  BY ServerStepsStorage DEF ServerInv
<1> QED
  BY <1>1, <1>2, ServerAlways, PTL DEF ServerSpec, Spec

\* The type invariant of the server and of the storage behind it; an answer is
\* always taken for the batch it answers.
THEOREM ServerTypeCorrect == ServerSpec => []ServerTypeOK
<1>2. ServerInv /\ TypeOK => ServerTypeOK
  <2> SUFFICES ASSUME ServerInv, TypeOK PROVE ServerTypeOK
    OBVIOUS
  <2>1. RequestState = {Free} \cup Busy
    BY DEF RequestState, Busy
  <2>2. \A r \in Request : request[r] # Free /\ request[r].awaited => request[r].sessions = batch
    BY DEF ServerInv, RequestInv, AwaitedInv
  <2>3. delivered \subseteq Session
    BY DEF ServerInv, ProbeInv, TypeOK
  <2> QED
    BY <2>1, <2>2, <2>3 DEF ServerInv, ProbeInv, RequestInv, ServerTypeOK
<1> QED
  BY <1>2, ServerAlways, StoreBehindServer, TypeCorrect, PTL

\* What a probe got a 200 for is served, unless the disk lost it: a 200 speaks of
\* sessions that the storage engine acknowledged, whatever requests overlapped,
\* failed, or died with the process.
THEOREM DeliveredIsAlwaysServed == ServerSpec => []DeliveredIsServed
<1>1. ServerInv /\ AckedReadable /\ AckedFindable => DeliveredIsServed
  BY DEF ServerInv, ProbeInv, AckedReadable, AckedFindable, DeliveredIsServed
<1> QED
  BY <1>1, ServerAlways, StoreBehindServer, Readable, Findable, PTL

-----------------------------------------------------------------------------
(***************************************************************************)
(* Overlapping handlers.  A handler inside store() holds the id of its     *)
(* session in inFlightWrites, so another one that wants it is turned away. *)
(***************************************************************************)
Inside(r) == request[r].stage = "writing"

WritingInv ==
    /\ \A r \in Request : Inside(r) => writer[Current(r)] # "idle"
    /\ OneHandlerPerSession

\* Nobody enters store(); who is inside stays busy.
LEMMA NobodyEnters ==
    ASSUME WritingInv,
           \A x \in Request : Inside(x)' => /\ Inside(x) /\ Current(x)' = Current(x)
                                            /\ writer'[Current(x)] # "idle"
    PROVE  WritingInv'
BY DEF WritingInv, OneHandlerPerSession, Inside, Current

\* One request becomes q, the others stay inside or outside of store().
LEMMA OthersStay ==
    ASSUME RequestInv, NEW r \in Request, NEW q, request' = [request EXCEPT ![r] = q]
    PROVE  /\ \A x \in Request \ {r} : Inside(x)' = Inside(x) /\ Current(x)' = Current(x)
           /\ request'[r] = q
BY DEF RequestInv, Inside, Current

LEMMA WritingStep == ServerInv /\ TypeOK /\ WritingInv /\ [ServerNext]_serverVars => WritingInv'
<1> SUFFICES ASSUME ServerInv, TypeOK, WritingInv, [ServerNext]_serverVars PROVE WritingInv'
  OBVIOUS
<1>t. RequestInv
  BY DEF ServerInv
<1>w. writer \in [Session -> WriterState]
  BY DEF TypeOK
<1>i. \A x \in Request : Inside(x) => Current(x) \in Session /\ writer[Current(x)] # "idle"
  <2>1. ASSUME NEW x \in Request, Inside(x) PROVE Current(x) \in Session
    <3>1. request[x] \in Busy /\ request[x].at <= Len(request[x].sessions)
      BY <1>t, <2>1, BusyRequest DEF Inside, HandlerInv
    <3> QED
      BY <3>1, CurrentSession DEF Current
  <2> QED
    BY <2>1 DEF WritingInv
\* A request r that is not inside afterwards, while nobody else's writer moves.
<1>1. ASSUME NEW r \in Request, NEW q, request' = [request EXCEPT ![r] = q], q.stage # "writing",
             \A x \in Request \ {r} : Inside(x) => writer'[Current(x)] # "idle"
      PROVE  WritingInv'
  <2>1. ~Inside(r)'
    BY <1>t, <1>1, OthersStay DEF Inside
  <2> QED
    BY <1>t, <1>1, <2>1, OthersStay, NobodyEnters
<1>2. ASSUME NEW r \in Request, Answered(r) \/ Post(r)
      PROVE  WritingInv'
  <2>1. writer' = writer
    BY <1>2 DEF Answered, Post, vars
  <2>2. CASE Answered(r)
    <3>1. request' = [request EXCEPT ![r] = Free] /\ Free.stage # "writing"
      BY <2>2 DEF Answered, Free
    <3> QED
      BY <1>1, <1>i, <2>1, <3>1
  <2>3. CASE Post(r)
    <3> DEFINE q == [stage |-> "arrived", sessions |-> queue, at |-> 1, awaited |-> TRUE]
    <3>1. request' = [request EXCEPT ![r] = q] /\ q.stage # "writing"
      BY <2>3 DEF Post
    <3> QED
      BY <1>1, <1>i, <2>1, <3>1
  <2> QED
    BY <1>2, <2>2, <2>3
<1>3. ASSUME NEW r \in Request, GiveUp(r)
      PROVE  WritingInv'
  <2>1. writer' = writer /\ request[r] # Free /\ request' = [request EXCEPT ![r].awaited = FALSE]
    BY <1>3 DEF GiveUp, vars
  <2> DEFINE q == [request[r] EXCEPT !.awaited = FALSE]
  <2>2. request[r] \in Busy
    BY <1>t, <2>1 DEF RequestInv
  <2>3. q.stage = request[r].stage /\ q.sessions = request[r].sessions /\ q.at = request[r].at
    BY <2>2 DEF Busy
  <2>4. request' = [request EXCEPT ![r] = q]
    BY <2>1
  <2> HIDE DEF q
  <2>5. Inside(r)' = Inside(r) /\ Current(r)' = Current(r)
    BY <1>t, <2>3, <2>4, OthersStay DEF Inside, Current
  <2> QED
    BY <1>t, <1>i, <2>1, <2>4, <2>5, OthersStay, NobodyEnters
<1>4. ASSUME NEW r \in Request, NEW stage \in {"200", "refused", "storing"}, To(r, stage),
             request[r].stage # "free",
             \A x \in Request \ {r} : Inside(x) => writer'[Current(x)] # "idle"
      PROVE  WritingInv'
  <2>1. request[r] \in Busy
    BY <1>t, <1>4, BusyRequest
  <2>2. request' = [request EXCEPT ![r] = At(request[r], stage, request[r].at)]
    BY <1>t, <1>4, <2>1, Moving
  <2>3. At(request[r], stage, request[r].at).stage # "writing"
    BY DEF At
  <2> QED
    BY <1>1, <1>4, <2>2, <2>3
<1>5. ASSUME NEW r \in Request, Refuse(r) \/ ReadBody(r) \/ RejectSession(r) \/ BatchStored(r)
      PROVE  WritingInv'
  <2>1. writer' = writer /\ request[r].stage # "free"
        /\ \E stage \in {"200", "refused", "storing"} : To(r, stage)
    BY <1>5 DEF Refuse, ReadBody, RejectSession, BatchStored, vars
  <2> QED
    BY <1>4, <1>i, <2>1
\* Whoever is inside has another session than r.
<1>6. ASSUME NEW r \in Request, NEW x \in Request \ {r}, Inside(x),
             Inside(r) \/ writer[Current(r)] = "idle"
      PROVE  Current(x) # Current(r)
  BY <1>6, <1>i DEF WritingInv, OneHandlerPerSession, Inside
<1>7. ASSUME NEW r \in Request, StoreSession(r)
      PROVE  WritingInv'
  <2>1. request[r] \in Busy /\ request[r].at <= Len(request[r].sessions)
        /\ request[r].stage = "storing"
    BY <1>7, <1>t, BusyRequest DEF StoreSession
  <2>2. CASE MayStore(Current(r))
    <3>1. /\ writer[Current(r)] = "idle" /\ To(r, "writing")
          /\ writer' = [writer EXCEPT ![Current(r)] = "writing"]
      BY <1>7, <2>2 DEF StoreSession, StartStore, StoreBegin, MayStore
    <3>2. request' = [request EXCEPT ![r] = At(request[r], "writing", request[r].at)]
      BY <1>t, <2>1, <3>1, Moving
    <3>3. Current(r)' = Current(r) /\ Current(r) \in Session
      BY <1>t, <2>1, <3>2, OthersStay, CurrentSession DEF Current, At
    <3>4. \A x \in Request \ {r} : Inside(x)' => /\ Inside(x) /\ Current(x)' = Current(x)
                                                  /\ Current(x) # Current(r)
      BY <1>t, <1>6, <3>1, <3>2, OthersStay
    <3>5. \A x \in Request : Inside(x)' => writer'[Current(x)'] # "idle"
      BY <1>i, <1>w, <3>1, <3>3, <3>4
    <3>6. \A x, y \in Request : Inside(x)' /\ Inside(y)' /\ Current(x)' = Current(y)' => x = y
      BY <3>3, <3>4 DEF WritingInv, OneHandlerPerSession, Inside
    <3> QED
      BY <3>5, <3>6 DEF WritingInv, OneHandlerPerSession, Inside, Current
  <2>3. CASE ~MayStore(Current(r))
    <3>1. To(r, "refused") /\ writer' = writer
      BY <1>7, <2>3 DEF StoreSession, StartStore, vars
    <3> QED
      BY <1>4, <1>i, <2>1, <3>1
  <2> QED
    BY <2>2, <2>3
<1>8. ASSUME NEW r \in Request, Writing(r)
      PROVE  WritingInv'
  <2>1. Inside(r) /\ request' = request
    BY <1>8 DEF Writing, Inside
  <2>2. \E stage \in WriterState \ {"idle"} :
            writer' = [writer EXCEPT ![Current(r)] = stage]
    BY <1>8 DEF Writing, Flush, Rename, SyncDir, SyncRefused, LogLine, IndexSession, WriterState
  <2>3. \A x \in Request : Inside(x)' = Inside(x) /\ Current(x)' = Current(x)
    BY <2>1 DEF Inside, Current
  <2>4. \A x \in Request : Inside(x) => writer'[Current(x)] # "idle"
    BY <1>i, <1>w, <2>2
  <2> QED
    BY <2>3, <2>4, NobodyEnters
<1>9. ASSUME NEW r \in Request, StoreThrows(r) \/ SessionStored(r)
      PROVE  WritingInv'
  <2>1. Inside(r) /\ writer' = [writer EXCEPT ![Current(r)] = "idle"]
    BY <1>9 DEF StoreThrows, SessionStored, Inside, StoreFails, RenameFails, IndexSession, StoreReturns
  <2>2. \A x \in Request \ {r} : Inside(x) => writer'[Current(x)] # "idle"
    BY <1>6, <1>i, <1>w, <2>1
  <2>3. CASE StoreThrows(r)
    <3>1. To(r, "refused") /\ request[r].stage # "free"
      BY <2>3 DEF StoreThrows
    <3> QED
      BY <1>4, <2>2, <3>1
  <2>4. CASE SessionStored(r)
    <3>1. request' = [request EXCEPT ![r] = Onward(request[r])]
      BY <2>4 DEF SessionStored
    <3>2. Onward(request[r]).stage # "writing"
      <4>1. request[r] \in Busy
        BY <1>t, <2>1, BusyRequest DEF Inside
      <4> QED
        BY <4>1, OnwardAt DEF At
    <3> QED
      BY <1>1, <2>2, <3>1, <3>2
  <2> QED
    BY <1>9, <2>3, <2>4
<1>10. ASSUME ServerRestarts
       PROVE  WritingInv'
  <2>1. \A x \in Request : ~Inside(x)'
    BY <1>10 DEF ServerRestarts, Inside, Free
  <2> QED
    BY <2>1, NobodyEnters
<1>11. ASSUME UNCHANGED <<request, writer>>
       PROVE  WritingInv'
  BY <1>11 DEF WritingInv, OneHandlerPerSession, Inside, Current
<1>12. ASSUME NEW s \in Session, CompleteSession(s)
       PROVE  UNCHANGED <<request, writer>>
  BY <1>12 DEF CompleteSession, vars
<1>13. ASSUME UNCHANGED serverVars
       PROVE  UNCHANGED <<request, writer>>
  BY <1>13 DEF serverVars, vars
<1> QED
  BY <1>2, <1>3, <1>5, <1>7, <1>8, <1>9, <1>10, <1>11, <1>12, <1>13 DEF ServerNext, Handler

\* However requests overlap, repeat and outlive their clients, at most one handler
\* is inside storage.store() for a session (inFlightWrites of storage.ts).
THEOREM HandlersExcludeEachOther == ServerSpec => []OneHandlerPerSession
<1>1. ServerInit => WritingInv
  BY DEF ServerInit, WritingInv, OneHandlerPerSession, Inside, Free
<1>2. ServerTypeOK => TypeOK
  BY DEF ServerTypeOK
<1>3. WritingInv => OneHandlerPerSession
  BY DEF WritingInv
<1> QED
  BY <1>1, <1>2, <1>3, WritingStep, ServerAlways, ServerTypeCorrect, PTL DEF ServerSpec
=============================================================================
