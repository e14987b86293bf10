----------------------- MODULE CollectorClientProofs -----------------------
(***************************************************************************)
(* Theorems about CollectorClient, for any limits, any set of sessions and *)
(* any number of restarts: types, the breaker, no silent drop, no copies,  *)
(* the order of the queues, and the refinement of SessionCustody; and      *)
(* before them about its SpillBuffer, for any limits, any set of sessions  *)
(* and any caller.  The lemmas of that part speak of the operations, not   *)
(* of their callers.                                                       *)
(***************************************************************************)
EXTENDS CollectorClient, SequenceTheorems, FiniteSetTheorems, TLAPS

-----------------------------------------------------------------------------
(***************************************************************************)
(* The spill buffer.                                                       *)
(***************************************************************************)
LEMMA EmptyFileType == EmptyFile \in File
BY EmptySeq DEF EmptyFile, File

LEMMA AddLineType ==
  ASSUME NEW f \in File, NEW s \in Session
  PROVE  /\ AddLine(f, s) \in File
         /\ Len(AddLine(f, s).lines) <= Len(f.lines) + 1
         /\ Range(AddLine(f, s).lines) \subseteq Range(f.lines) \cup {s}
         /\ f.torn => AddLine(f, s).lines = f.lines
         /\ ~f.torn => AddLine(f, s).lines = Append(f.lines, s)
<1>1. f.lines \in Seq(Session) /\ Len(f.lines) \in Nat
  BY LenProperties DEF File
<1>2. CASE f.torn
  <2>1. AddLine(f, s) = [lines |-> f.lines, torn |-> FALSE]
    BY <1>2 DEF AddLine, File
  <2> QED
    BY <1>1, <1>2, <2>1 DEF File
<1>3. CASE ~f.torn
  <2>1. /\ Append(f.lines, s) \in Seq(Session)
        /\ Len(Append(f.lines, s)) = Len(f.lines) + 1
        /\ Range(Append(f.lines, s)) = Range(f.lines) \cup {s}
    BY <1>1, AppendProperties, LenProperties DEF Range
  <2>2. AddLine(f, s) = [lines |-> Append(f.lines, s), torn |-> f.torn]
    BY <1>3 DEF AddLine, File
  <2> QED
    BY <1>1, <1>3, <2>1, <2>2 DEF File
<1> QED
  BY <1>2, <1>3

\* The file that append() writes to is there.
LEMMA OpenedType ==
  ASSUME SpillTypeOK
  PROVE  /\ DOMAIN Opened = DOMAIN disk \cup {current}
         /\ current \in DOMAIN Opened
         /\ \A n \in DOMAIN Opened : Opened[n] \in File
         /\ \A n \in DOMAIN disk : Opened[n] = disk[n]
         /\ current \notin DOMAIN disk => Opened[current] = EmptyFile
BY EmptyFileType DEF SpillTypeOK, Opened

LEMMA WithLineType ==
  ASSUME SpillTypeOK, NEW s \in Session
  PROVE  /\ DOMAIN WithLine(s) = DOMAIN Opened
         /\ \A n \in DOMAIN Opened :
              WithLine(s)[n] = IF n = current THEN AddLine(Opened[n], s) ELSE Opened[n]
         /\ \A n \in DOMAIN Opened : WithLine(s)[n] \in File
<1>1. /\ DOMAIN WithLine(s) = DOMAIN Opened
      /\ \A n \in DOMAIN Opened :
           WithLine(s)[n] = IF n = current THEN AddLine(Opened[n], s) ELSE Opened[n]
  BY DEF WithLine, Opened
<1>2. AddLine(Opened[current], s) \in File
  BY OpenedType, AddLineType
<1> QED
  BY <1>1, <1>2, OpenedType

\* enforceMaxFiles() never takes the file just written to.
LEMMA ExcessOlder ==
  ASSUME SpillTypeOK
  PROVE  Excess \subseteq DOMAIN disk /\ current \notin Excess
<1>1. {k \in DOMAIN Opened : k > current} = {}
  BY OpenedType DEF SpillTypeOK
<1>2. Cardinality({k \in DOMAIN Opened : k > current}) = 0
  BY <1>1, FS_EmptySet
<1>3. current \notin Excess
  BY <1>2, SpillConstants DEF Excess
<1> QED
  BY <1>3, OpenedType DEF Excess

\* What append() leaves when it returns true.
LEMMA AppendOkFiles ==
  ASSUME SpillTypeOK, NEW s \in Session, NEW kept, NEW unread, AppendOk(s, kept, unread)
  PROVE  /\ kept \subseteq Excess
         /\ unread \subseteq Excess
         /\ Excess \subseteq DOMAIN disk
         /\ DOMAIN disk' = (DOMAIN disk \cup {current}) \ (Excess \ kept)
         /\ current \in DOMAIN disk'
         /\ disk' = [n \in DOMAIN disk' |-> disk'[n]]
         /\ disk'[current] = AddLine(Opened[current], s)
         /\ \A n \in DOMAIN disk' : n # current => n \in DOMAIN disk /\ disk'[n] = disk[n]
         /\ \A n \in DOMAIN disk' : disk'[n] \in File
<1>1. kept \subseteq Excess /\ unread \subseteq Excess
  BY DEF AppendOk
<1>2. disk' = [n \in (DOMAIN Opened \ Excess) \cup kept |-> WithLine(s)[n]]
  BY DEF AppendOk, Restrict
<1>3. /\ DOMAIN disk' = (DOMAIN Opened \ Excess) \cup kept
      /\ \A n \in DOMAIN disk' : disk'[n] = WithLine(s)[n]
      /\ disk' = [n \in DOMAIN disk' |-> disk'[n]]
  BY <1>2
<1>4. Excess \subseteq DOMAIN disk /\ current \notin Excess
  BY ExcessOlder
<1>5. DOMAIN disk' \subseteq DOMAIN Opened /\ current \in DOMAIN disk'
  BY <1>1, <1>3, <1>4, OpenedType
<1>6. DOMAIN disk' = (DOMAIN disk \cup {current}) \ (Excess \ kept)
  BY <1>1, <1>3, <1>4, OpenedType
<1> QED
  BY <1>1, <1>3, <1>4, <1>5, <1>6, OpenedType, WithLineType

\* What a failed append() leaves: the files it found, and perhaps the current
\* one opened, cut short, or with the line.
LEMMA AppendFailedFiles ==
  ASSUME SpillTypeOK, NEW s \in Session, NEW fault \in AppendFaults, AppendFailed(s, fault)
  PROVE  /\ fault \in {"none", "empty", "torn", "unsynced"}
         /\ DOMAIN disk \subseteq DOMAIN disk'
         /\ DOMAIN disk' \subseteq DOMAIN disk \cup {current}
         /\ disk' = [n \in DOMAIN disk' |-> disk'[n]]
         /\ \A n \in DOMAIN disk' : disk'[n] \in File
         /\ \A n \in DOMAIN disk' : n # current => disk'[n] = disk[n]
         /\ current \in DOMAIN disk' =>
              disk'[current].lines = IF fault = "unsynced"
                                     THEN AddLine(Opened[current], s).lines
                                     ELSE Opened[current].lines
         /\ UNCHANGED <<current, lineCount, draining>>
<1>1. fault \in {"none", "empty", "torn", "unsynced"}
  BY SpillConstants
<1>2. UNCHANGED <<current, lineCount, draining>>
  BY DEF AppendFailed
<1>3. /\ DOMAIN Opened = DOMAIN disk \cup {current}
      /\ \A n \in DOMAIN Opened : Opened[n] \in File
      /\ \A n \in DOMAIN disk : Opened[n] = disk[n]
      /\ Opened = [n \in DOMAIN Opened |-> Opened[n]]
  BY OpenedType DEF Opened
<1>4. CASE fault = "none"
  <2>1. disk' = disk
    BY <1>4 DEF AppendFailed
  <2> QED
    BY <1>1, <1>2, <1>3, <1>4, <2>1 DEF SpillTypeOK
<1>5. CASE fault = "empty"
  <2>1. disk' = Opened
    BY <1>5 DEF AppendFailed
  <2> QED
    BY <1>1, <1>2, <1>3, <1>5, <2>1
<1>6. CASE fault = "torn"
  <2>1. disk' = [Opened EXCEPT ![current] = [Opened[current] EXCEPT !.torn = TRUE]]
    BY <1>6 DEF AppendFailed
  <2>2. /\ [Opened[current] EXCEPT !.torn = TRUE] \in File
        /\ [Opened[current] EXCEPT !.torn = TRUE].lines = Opened[current].lines
    BY <1>3 DEF File
  <2>3. /\ DOMAIN disk' = DOMAIN Opened
        /\ disk' = [n \in DOMAIN disk' |-> disk'[n]]
        /\ disk'[current] = [Opened[current] EXCEPT !.torn = TRUE]
        /\ \A n \in DOMAIN Opened : n # current => disk'[n] = Opened[n]
    BY <1>3, <2>1
  <2> QED
    BY <1>1, <1>2, <1>3, <1>6, <2>2, <2>3
<1>7. CASE fault = "unsynced"
  <2>1. disk' = WithLine(s)
    BY <1>7 DEF AppendFailed
  <2>2. disk' = [n \in DOMAIN disk' |-> disk'[n]]
    BY <1>3, <2>1 DEF WithLine
  <2> QED
    BY <1>1, <1>2, <1>3, <1>7, <2>1, <2>2, WithLineType
<1> QED
  BY <1>1, <1>4, <1>5, <1>6, <1>7

-----------------------------------------------------------------------------
(***************************************************************************)
(* The operations keep the types.                                          *)
(***************************************************************************)
LEMMA AppendOkType ==
  ASSUME SpillTypeOK, NEW s \in Session, NEW kept, NEW unread, AppendOk(s, kept, unread),
         draining = {}
  PROVE  SpillTypeOK'
<1>1. /\ disk' \in [DOMAIN disk' -> File]
      /\ DOMAIN disk' \subseteq DOMAIN disk \cup {current}
  BY AppendOkFiles
<1>2. current' \in {current, current + 1} /\ draining' = {}
  BY DEF AppendOk
<1>3. lineCount' \in 0..(MaxLinesPerFile - 1)
  BY SpillConstants DEF AppendOk, Rotates, SpillTypeOK
<1>4. current \in Nat \ {0} /\ DOMAIN disk \subseteq 1..current
  BY DEF SpillTypeOK
<1>5. current' \in Nat \ {0} /\ DOMAIN disk' \subseteq 1..current'
  BY <1>1, <1>2, <1>4
<1> QED
  BY <1>1, <1>2, <1>3, <1>5 DEF SpillTypeOK

LEMMA AppendFailedType ==
  ASSUME SpillTypeOK, NEW s \in Session, NEW fault \in AppendFaults,
         AppendFailed(s, fault)
  PROVE  SpillTypeOK'
<1>1. /\ DOMAIN disk \subseteq DOMAIN disk'
      /\ DOMAIN disk' \subseteq DOMAIN disk \cup {current}
      /\ disk' \in [DOMAIN disk' -> File]
      /\ UNCHANGED <<current, lineCount, draining>>
  BY AppendFailedFiles
<1>2. current \in Nat \ {0} /\ DOMAIN disk \subseteq 1..current
  BY DEF SpillTypeOK
<1>3. DOMAIN disk' \subseteq 1..current
  BY <1>1, <1>2
<1> QED
  BY <1>1, <1>3 DEF SpillTypeOK

LEMMA DrainFileFiles ==
  ASSUME SpillTypeOK, NEW n, DrainFile(n)
  PROVE  /\ n \in draining /\ n \in DOMAIN disk
         /\ DOMAIN disk' = DOMAIN disk \ {n}
         /\ disk' = [k \in DOMAIN disk' |-> disk'[k]]
         /\ \A k \in DOMAIN disk' : disk'[k] = disk[k]
<1>1. disk' = [k \in DOMAIN disk \cap (DOMAIN disk \ {n}) |-> disk[k]] \/
      disk' = [k \in DOMAIN disk \ {n} |-> disk[k]]
  BY DEF DrainFile, Restrict
<1> QED
  BY <1>1 DEF DrainFile, InTurn, SpillTypeOK

LEMMA TakeType ==
  ASSUME SpillTypeOK, NEW n, DrainFile(n) \/ KeepFile(n) \/ SkipFile(n)
  PROVE  SpillTypeOK'
<1>1. CASE DrainFile(n)
  <2>1. DOMAIN disk' = DOMAIN disk \ {n} /\ disk' \in [DOMAIN disk' -> File]
    BY <1>1, DrainFileFiles DEF SpillTypeOK
  <2>2. draining' = draining \ {n} /\ UNCHANGED <<current, lineCount>>
    BY <1>1 DEF DrainFile, Taken
  <2> QED
    BY <2>1, <2>2 DEF SpillTypeOK
<1>2. CASE KeepFile(n) \/ SkipFile(n)
  BY <1>2 DEF KeepFile, SkipFile, Taken, SpillTypeOK
<1> QED
  BY <1>1, <1>2

\* Every variable keeps its type.
THEOREM SpillTypeCorrect == SpillSpec => []SpillTypeOK
<1>1. SpillInit => SpillTypeOK
  <2> SUFFICES ASSUME SpillInit PROVE SpillTypeOK
    OBVIOUS
  <2>1. disk \in [DOMAIN disk -> File] /\ DOMAIN disk = {}
    BY EmptySeq, LenProperties DEF SpillInit
  <2>2. lineCount \in 0..(MaxLinesPerFile - 1)
    BY SpillConstants DEF SpillInit
  <2> QED
    BY <2>1, <2>2 DEF SpillInit, SpillTypeOK
<1>2. SpillTypeOK /\ [SpillNext]_spillVars => SpillTypeOK'
  <2> SUFFICES ASSUME SpillTypeOK, [SpillNext]_spillVars PROVE SpillTypeOK'
    OBVIOUS
  <2>1. ASSUME NEW s \in Session, CallAppend(s) PROVE SpillTypeOK'
    BY <2>1, AppendOkType, AppendFailedType DEF CallAppend
  <2>2. CASE CallDrain
    BY <2>2 DEF CallDrain, StartDrain, SpillTypeOK
  <2>3. ASSUME NEW n \in draining, DrainFile(n) \/ KeepFile(n) \/ SkipFile(n)
        PROVE  SpillTypeOK'
    BY <2>3, TakeType
  <2>4. CASE Reopen
    BY <2>4, SpillConstants DEF Reopen, NewSpillBuffer, SpillTypeOK
  <2>5. CASE UNCHANGED spillVars
    BY <2>5 DEF spillVars, SpillTypeOK
  <2> QED
    BY <2>1, <2>2, <2>3, <2>4, <2>5 DEF SpillNext
<1> QED
  BY <1>1, <1>2, PTL DEF SpillSpec

-----------------------------------------------------------------------------
(***************************************************************************)
(* The size of a file.  lineCount is reset neither by a drain nor by the   *)
(* loss of the current file, so it counts at least the lines of the file   *)
(* that is appended to.  A line that was written by an append which then   *)
(* failed is not counted, hence CountedLines.                              *)
(***************************************************************************)
CountedLines == "unsynced" \notin AppendFaults

LinesInv ==
    /\ FileLinesBounded
    /\ current \in DOMAIN disk => Len(disk[current].lines) <= lineCount

\* The file append() writes to has room for the line.
LEMMA OpenedLines ==
  ASSUME SpillTypeOK, LinesInv
  PROVE  /\ Len(Opened[current].lines) \in Nat
         /\ Len(Opened[current].lines) <= lineCount
         /\ lineCount \in Nat
         /\ lineCount + 1 <= MaxLinesPerFile
<1>1. Opened[current] \in File
  BY OpenedType
<1>2. Len(Opened[current].lines) \in Nat
  BY <1>1, LenProperties DEF File
<1>3. lineCount \in Nat /\ lineCount + 1 <= MaxLinesPerFile
  BY SpillConstants DEF SpillTypeOK
<1>4. Len(EmptyFile.lines) = 0
  BY EmptySeq DEF EmptyFile
<1> QED
  BY <1>2, <1>3, <1>4, OpenedType DEF LinesInv

LEMMA LinesInvAppendOk ==
  ASSUME SpillTypeOK, LinesInv, NEW s \in Session, NEW kept, NEW unread,
         AppendOk(s, kept, unread)
  PROVE  LinesInv'
<1>1. /\ disk'[current] = AddLine(Opened[current], s)
      /\ DOMAIN disk' \subseteq DOMAIN disk \cup {current}
      /\ \A n \in DOMAIN disk' : n # current => n \in DOMAIN disk /\ disk'[n] = disk[n]
  BY AppendOkFiles
<1>2. Len(Opened[current].lines) + 1 <= lineCount + 1
  BY OpenedLines
<1>3. AddLine(Opened[current], s) \in File
      /\ Len(AddLine(Opened[current], s).lines) <= Len(Opened[current].lines) + 1
  BY OpenedType, AddLineType
<1>4. Len(disk'[current].lines) \in Nat
  BY <1>1, <1>3, LenProperties DEF File
<1>5. /\ Len(disk'[current].lines) <= lineCount + 1
      /\ Len(disk'[current].lines) <= MaxLinesPerFile
  BY <1>1, <1>2, <1>3, <1>4, OpenedLines, SpillConstants
<1>6. FileLinesBounded'
  BY <1>1, <1>5 DEF LinesInv, FileLinesBounded
<1>7. ASSUME current' \in DOMAIN disk' PROVE Len(disk'[current'].lines) <= lineCount'
  <2>1. CASE Rotates(lineCount + 1)
    <3>1. current' = current + 1
      BY <2>1 DEF AppendOk
    <3>2. current' \notin DOMAIN disk'
      BY <1>1, <3>1 DEF SpillTypeOK
    <3> QED
      BY <1>7, <3>2
  <2>2. CASE ~Rotates(lineCount + 1)
    BY <1>5, <2>2 DEF AppendOk
  <2> QED
    BY <2>1, <2>2
<1> QED
  BY <1>6, <1>7 DEF LinesInv

LEMMA LinesInvAppendFailed ==
  ASSUME CountedLines, SpillTypeOK, LinesInv, NEW s \in Session, NEW fault \in AppendFaults,
         AppendFailed(s, fault)
  PROVE  LinesInv'
<1>1. fault # "unsynced"
  BY DEF CountedLines
<1>2. /\ DOMAIN disk' \subseteq DOMAIN disk \cup {current}
      /\ \A n \in DOMAIN disk' : n # current => disk'[n] = disk[n]
      /\ current \in DOMAIN disk' => disk'[current].lines = Opened[current].lines
      /\ UNCHANGED <<current, lineCount>>
  BY <1>1, AppendFailedFiles
<1>3. /\ Len(Opened[current].lines) <= lineCount
      /\ Len(Opened[current].lines) <= MaxLinesPerFile
  BY OpenedLines, SpillConstants
<1> QED
  BY <1>2, <1>3 DEF LinesInv, FileLinesBounded

\* No spill file grows past maxLinesPerFile, although lineCount is counted apart
\* from the files.
THEOREM LinesStayBounded == CountedLines => (SpillSpec => []FileLinesBounded)
<1> SUFFICES ASSUME CountedLines PROVE SpillSpec => []FileLinesBounded
  OBVIOUS
<1>1. SpillInit => LinesInv
  BY EmptySeq, LenProperties DEF SpillInit, LinesInv, FileLinesBounded
<1>2. SpillTypeOK /\ LinesInv /\ [SpillNext]_spillVars => LinesInv'
  <2> SUFFICES ASSUME SpillTypeOK, LinesInv, [SpillNext]_spillVars PROVE LinesInv'
    OBVIOUS
  <2>1. ASSUME NEW s \in Session, CallAppend(s) PROVE LinesInv'
    BY <2>1, LinesInvAppendOk, LinesInvAppendFailed DEF CallAppend
  <2>2. ASSUME NEW n \in draining, DrainFile(n) PROVE LinesInv'
    <3>1. UNCHANGED <<current, lineCount>>
      BY <2>2 DEF DrainFile
    <3> QED
      BY <2>2, <3>1, DrainFileFiles DEF LinesInv, FileLinesBounded
  <2>3. ASSUME NEW n \in draining, KeepFile(n) \/ SkipFile(n) PROVE LinesInv'
    BY <2>3 DEF KeepFile, SkipFile, LinesInv, FileLinesBounded
  <2>4. CASE CallDrain \/ UNCHANGED spillVars
    BY <2>4 DEF CallDrain, spillVars, LinesInv, FileLinesBounded
  <2>5. CASE Reopen
    <3>1. current' = current + 1 /\ UNCHANGED disk
      BY <2>5 DEF Reopen, NewSpillBuffer
    <3>2. current' \notin DOMAIN disk'
      BY <3>1 DEF SpillTypeOK
    <3> QED
      BY <3>1, <3>2 DEF LinesInv, FileLinesBounded
  <2> QED
    BY <2>1, <2>2, <2>3, <2>4, <2>5 DEF SpillNext
<1>3. LinesInv => FileLinesBounded
  BY DEF LinesInv
<1> QED
  BY <1>1, <1>2, <1>3, SpillTypeCorrect, PTL DEF SpillSpec

-----------------------------------------------------------------------------
(***************************************************************************)
(* Readability.  A session whose append() returned true is a line of its   *)
(* own in the newest file, which no eviction takes.                        *)
(***************************************************************************)
LEMMA AppendOkReadable ==
  ASSUME SpillTypeOK, NEW s \in Session, NEW kept, NEW unread, AppendOk(s, kept, unread),
         ~EndsTorn
  PROVE  s \in OnDisk'
<1>1. current \in DOMAIN disk' /\ disk'[current] = AddLine(Opened[current], s)
  BY AppendOkFiles
<1>2. Opened[current] \in File /\ ~Opened[current].torn
  BY OpenedType DEF EndsTorn, EmptyFile
<1>3. disk'[current].lines = Append(Opened[current].lines, s)
  BY <1>1, <1>2, AddLineType
<1>4. Opened[current].lines \in Seq(Session)
  BY <1>2 DEF File
<1>5. s \in Range(disk'[current].lines)
  BY <1>3, <1>4, AppendProperties, LenProperties DEF Range
<1> QED
  BY <1>1, <1>5 DEF OnDisk, SessionsIn

\* An append that returns true leaves the session readable on disk, unless it
\* was written right behind a line that was cut short, whatever the caller does
\* between appends and whichever appends, evictions and reads have failed.
THEOREM AckedReadable == SpillSpec => AckedAppendReadable
<1>1. SpillTypeOK
        => [\A s \in Session : \A kept, unread \in SUBSET Excess :
              AppendOk(s, kept, unread) /\ ~EndsTorn => s \in OnDisk']_spillVars
  BY AppendOkReadable
<1> QED
  BY <1>1, SpillTypeCorrect, PTL DEF AckedAppendReadable

-----------------------------------------------------------------------------
(***************************************************************************)
(* The client.                                                             *)
(***************************************************************************)

\* The batch is spilled and the spill files are drained in turns, never at once.
LoopInv == phase = "spilling" => draining = {}

TypeInv == TypeOK /\ LoopInv

LEMMA MarkType ==
  ASSUME fate \in [Session -> Fate], NEW S, NEW f \in Fate
  PROVE  Mark(S, f) \in [Session -> Fate]
BY DEF Mark

LEMMA QueueLength ==
  ASSUME NEW q \in Seq(Session)
  PROVE  /\ Len(q) \in Nat
         /\ DOMAIN q = 1..Len(q)
         /\ q = <<>> <=> Len(q) = 0
BY LenProperties, EmptySeq

\* The first n elements of a queue and the others.
LEMMA SplitType ==
  ASSUME NEW q \in Seq(Session), NEW n \in 0..Len(q)
  PROVE  /\ SubSeq(q, 1, n) \in Seq(Session)
         /\ SubSeq(q, n + 1, Len(q)) \in Seq(Session)
         /\ Len(SubSeq(q, 1, n)) = n
         /\ Len(SubSeq(q, n + 1, Len(q))) = Len(q) - n
         /\ \A i \in 1..n : SubSeq(q, 1, n)[i] = q[i]
         /\ \A i \in 1..(Len(q) - n) : SubSeq(q, n + 1, Len(q))[i] = q[n + i]
<1>1. Len(q) \in Nat /\ n \in Nat /\ n <= Len(q)
  BY QueueLength
<1>2. \A i \in 1..Len(q) : q[i] \in Session
  BY ElementOfSeq
<1>3. /\ SubSeq(q, 1, n) \in Seq(Session)
      /\ Len(SubSeq(q, 1, n)) = n
      /\ \A i \in 1..n : SubSeq(q, 1, n)[i] = q[i]
  <2>1. 1 \in Int /\ n \in Int /\ \A i \in 1..n : q[i] \in Session
    BY <1>1, <1>2
  <2>2. /\ SubSeq(q, 1, n) \in Seq(Session)
        /\ Len(SubSeq(q, 1, n)) = IF 1 <= n THEN n - 1 + 1 ELSE 0
        /\ \A i \in 1..(n - 1 + 1) : SubSeq(q, 1, n)[i] = q[1 + i - 1]
    BY <2>1, SubSeqProperties
  <2> QED
    BY <1>1, <2>2
<1>4. /\ SubSeq(q, n + 1, Len(q)) \in Seq(Session)
      /\ Len(SubSeq(q, n + 1, Len(q))) = Len(q) - n
      /\ \A i \in 1..(Len(q) - n) : SubSeq(q, n + 1, Len(q))[i] = q[n + i]
  <2>1. n + 1 \in Int /\ Len(q) \in Int /\ \A i \in (n + 1)..Len(q) : q[i] \in Session
    BY <1>1, <1>2
  <2>2. /\ SubSeq(q, n + 1, Len(q)) \in Seq(Session)
        /\ Len(SubSeq(q, n + 1, Len(q)))
             = IF n + 1 <= Len(q) THEN Len(q) - (n + 1) + 1 ELSE 0
        /\ \A i \in 1..(Len(q) - (n + 1) + 1) :
             SubSeq(q, n + 1, Len(q))[i] = q[(n + 1) + i - 1]
    BY <2>1, SubSeqProperties
  <2> QED
    BY <1>1, <2>2
<1> QED
  BY <1>3, <1>4

LEMMA SplitRange ==
  ASSUME NEW q \in Seq(Session), NEW n \in 0..Len(q)
  PROVE  Range(q) = Range(SubSeq(q, 1, n)) \cup Range(SubSeq(q, n + 1, Len(q)))
<1> DEFINE front == SubSeq(q, 1, n)
           back == SubSeq(q, n + 1, Len(q))
<1>1. /\ front \in Seq(Session) /\ back \in Seq(Session)
      /\ Len(front) = n /\ Len(back) = Len(q) - n
      /\ \A i \in 1..n : front[i] = q[i]
      /\ \A i \in 1..(Len(q) - n) : back[i] = q[n + i]
  BY SplitType
<1>2. Len(q) \in Nat /\ n \in Nat /\ n <= Len(q)
  BY QueueLength
<1> HIDE DEF front, back
<1>3. /\ Range(q) = {q[i] : i \in 1..Len(q)}
      /\ Range(front) = {q[i] : i \in 1..n}
      /\ Range(back) = {q[n + i] : i \in 1..(Len(q) - n)}
  <2>1. DOMAIN q = 1..Len(q) /\ DOMAIN front = 1..n /\ DOMAIN back = 1..(Len(q) - n)
    BY <1>1, LenProperties
  <2>2. Range(q) = {q[i] : i \in 1..Len(q)}
    BY <2>1 DEF Range
  <2>3. Range(front) = {front[i] : i \in 1..n} /\ Range(back) = {back[i] : i \in 1..(Len(q) - n)}
    BY <2>1 DEF Range
  <2>4. {front[i] : i \in 1..n} = {q[i] : i \in 1..n}
    BY <1>1
  <2>5. {back[i] : i \in 1..(Len(q) - n)} = {q[n + i] : i \in 1..(Len(q) - n)}
    <3> DEFINE rest == 1..(Len(q) - n)
    <3>1. \A i \in rest : back[i] = q[n + i]
      BY <1>1
    <3> HIDE DEF rest
    <3>2. {back[i] : i \in rest} = {q[n + i] : i \in rest}
      BY <3>1
    <3> QED
      BY <3>2 DEF rest
  <2> QED
    BY <2>2, <2>3, <2>4, <2>5
<1>4. ASSUME NEW i \in 1..Len(q) PROVE q[i] \in Range(front) \cup Range(back)
  <2>1. CASE i <= n
    BY <1>2, <1>3, <2>1
  <2>2. CASE ~(i <= n)
    <3>1. i - n \in 1..(Len(q) - n) /\ n + (i - n) = i
      BY <1>2, <2>2
    <3> QED
      BY <1>3, <3>1
  <2> QED
    BY <2>1, <2>2
<1>5. /\ \A i \in 1..n : i \in 1..Len(q)
      /\ \A i \in 1..(Len(q) - n) : n + i \in 1..Len(q)
  BY <1>2
<1>6. Range(q) = Range(front) \cup Range(back)
  BY <1>3, <1>4, <1>5
<1> QED
  BY <1>6 DEF front, back

LEMMA HeadTailRange ==
  ASSUME NEW q \in Seq(Session), q # <<>>
  PROVE  Range(q) = {Head(q)} \cup Range(Tail(q))
<1>1. Len(q) \in Nat \ {0} /\ DOMAIN q = 1..Len(q)
  BY QueueLength
<1>2. /\ Tail(q) \in Seq(Session) /\ Len(Tail(q)) = Len(q) - 1
      /\ \A i \in 1..Len(Tail(q)) : Tail(q)[i] = q[i + 1]
  BY HeadTailProperties
<1>3. DOMAIN Tail(q) = 1..(Len(q) - 1)
  BY <1>2, LenProperties
<1>4. Head(q) = q[1]
  OBVIOUS
<1>5. \A i \in 1..Len(q) : i = 1 \/ (i - 1 \in 1..(Len(q) - 1) /\ (i - 1) + 1 = i)
  BY <1>1
<1>6. \A i \in 1..(Len(q) - 1) : i + 1 \in 1..Len(q)
  BY <1>1
<1>7. 1 \in 1..Len(q)
  BY <1>1
<1>8. Range(q) = {q[i] : i \in 1..Len(q)}
  BY <1>1 DEF Range
<1>9. Range(Tail(q)) = {q[i + 1] : i \in 1..(Len(q) - 1)}
  BY <1>2, <1>3 DEF Range
<1>10. ASSUME NEW i \in 1..Len(q) PROVE q[i] \in {Head(q)} \cup Range(Tail(q))
  BY <1>4, <1>5, <1>9
<1>11. {Head(q)} \cup Range(Tail(q)) \subseteq Range(q)
  BY <1>4, <1>6, <1>7, <1>8, <1>9
<1> QED
  BY <1>8, <1>10, <1>11

-----------------------------------------------------------------------------
(***************************************************************************)
(* Types                                                                   *)
(***************************************************************************)

\* What flush() and the end of one do to the queues.
FlushType ==
    /\ buffer' \in Seq(Session)
    /\ inFlight' \in Seq(Session)
    /\ phase' \in {"idle", "sending", "spilling"}
    /\ phase' = "idle" <=> inFlight' = <<>>

LEMMA FlushOrType ==
  ASSUME TypeOK, NEW q \in Seq(Session), FlushOr(q)
  PROVE  FlushType /\ (phase' = "spilling" => phase = "spilling")
<1>1. CASE phase = "idle" /\ q # <<>>
  BY <1>1 DEF FlushOr, Launch, FlushType
<1>2. CASE ~(phase = "idle" /\ q # <<>>)
  BY <1>2 DEF FlushOr, FlushType, TypeOK
<1> QED
  BY <1>1, <1>2

LEMMA EndFlushType ==
  ASSUME TypeOK, EndFlush
  PROVE  /\ inFlight' \in Seq(Session) /\ inFlight' = <<>> /\ phase' = "idle"
         /\ stop' \in {"running", "stopping", "stopped"}
BY EmptySeq DEF EndFlush, Resolve, TypeOK

LEMMA SpillSessionType ==
  ASSUME TypeOK, draining = {}, NEW s \in Session, SpillSession(s)
  PROVE  SpillTypeOK' /\ fate' \in [Session -> Fate] /\ draining' = draining
<1>1. ASSUME NEW kept \in SUBSET Excess, NEW unread \in SUBSET Excess,
             AppendOk(s, kept, unread), fate' = Appended(s, Excess \ kept, unread)
      PROVE  SpillTypeOK' /\ fate' \in [Session -> Fate] /\ draining' = draining
  <2>1. fate' \in [Session -> Fate]
    BY <1>1 DEF Appended, TypeOK, Fate
  <2>2. SpillTypeOK'
    BY <1>1, AppendOkType DEF TypeOK
  <2> QED
    BY <1>1, <2>1, <2>2 DEF AppendOk
<1>2. ASSUME NEW fault \in AppendFaults, AppendFailed(s, fault),
             fate' = [fate EXCEPT ![s] = "dropped"]
      PROVE  SpillTypeOK' /\ fate' \in [Session -> Fate] /\ draining' = draining
  <2>1. fate' \in [Session -> Fate]
    BY <1>2 DEF TypeOK, Fate
  <2>2. SpillTypeOK'
    BY <1>2, AppendFailedType DEF TypeOK
  <2> QED
    BY <1>2, <2>1, <2>2 DEF AppendFailed
<1> QED
  BY <1>1, <1>2 DEF SpillSession

LEMMA PostFailedType ==
  ASSUME TypeOK, NEW k \in 0..Len(inFlight), PostFailed(k)
  PROVE  /\ SpillTypeOK'
         /\ failures' \in 0..CircuitBreakerThreshold
         /\ received' \in SUBSET Session
         /\ UNCHANGED <<mode, useLocal, twice, restarts, draining>>
         /\ phase = "sending" /\ draining = {}
<1>1. UNCHANGED spillVars
  BY DEF PostFailed
<1>2. SpillTypeOK'
  BY <1>1 DEF TypeOK, SpillTypeOK, spillVars
<1>3. failures' \in 0..CircuitBreakerThreshold
  BY ClientConstants DEF PostFailed, TypeOK
<1>4. Range(SubSeq(inFlight, 1, k)) \subseteq Session
  BY SplitType, RangeOfSeq DEF TypeOK
<1> QED
  BY <1>1, <1>2, <1>3, <1>4 DEF PostFailed, Answered, Quiet, TypeOK, spillVars

LEMMA StartDrainSpillType ==
  ASSUME SpillTypeOK, StartDrain, UNCHANGED <<disk, current, lineCount>>
  PROVE  SpillTypeOK'
BY DEF StartDrain, SpillTypeOK

\* FailRetry takes back no more than there is room for.
LEMMA KeptLength ==
  ASSUME TypeOK, Len(buffer) < MaxBufferSize
  PROVE  (IF Room < Len(inFlight) THEN Room ELSE Len(inFlight)) \in 0..Len(inFlight)
<1>1. Len(buffer) \in Nat /\ Len(inFlight) \in Nat
  BY QueueLength DEF TypeOK
<1> QED
  BY <1>1, ClientConstants DEF Room

\* enqueue() drops no more than there is.
LEMMA OverflowLength ==
  ASSUME NEW q \in Seq(Session)
  PROVE  Overflow(q) \in 0..Len(q)
<1>1. Len(q) \in Nat
  BY QueueLength
<1> QED
  BY <1>1, ClientConstants DEF Overflow

LEMMA TypeInvInit == Init => TypeInv
<1> SUFFICES ASSUME Init PROVE TypeInv
  OBVIOUS
<1>1. SpillTypeOK
  <2>1. disk \in [DOMAIN disk -> File] /\ DOMAIN disk = {}
    BY EmptySeq, LenProperties DEF Init, SpillInit
  <2>2. lineCount \in 0..(MaxLinesPerFile - 1)
    BY SpillConstants DEF Init, SpillInit
  <2> QED
    BY <2>1, <2>2 DEF Init, SpillInit, SpillTypeOK
<1>2. failures \in 0..CircuitBreakerThreshold /\ restarts \in 0..MaxRestarts
  BY ClientConstants DEF Init
<1>3. buffer \in Seq(Session) /\ inFlight \in Seq(Session)
  BY EmptySeq DEF Init
<1>4. fate \in [Session -> Fate]
  BY DEF Init, Fate
<1>5. LoopInv
  BY DEF Init, LoopInv
<1> QED
  BY <1>1, <1>2, <1>3, <1>4, <1>5 DEF Init, TypeInv, TypeOK

LEMMA SpillUnchanged == SpillTypeOK /\ UNCHANGED spillVars => SpillTypeOK'
BY DEF SpillTypeOK, spillVars

LEMMA EnqueueType ==
  ASSUME TypeInv, NEW s \in Session, Enqueue(s)
  PROVE  TypeInv'
<1>1. CASE EnqueueLocal(s)
  <2>1. fate' \in [Session -> Fate]
    BY <1>1 DEF EnqueueLocal, TypeInv, TypeOK, Fate
  <2> QED
    BY <1>1, <2>1, SpillUnchanged DEF EnqueueLocal, TypeInv, TypeOK, LoopInv, spillVars
<1>2. CASE EnqueueSpilled(s)
  <2>1. SpillTypeOK' /\ fate' \in [Session -> Fate] /\ draining' = draining
    BY <1>2, SpillSessionType DEF EnqueueSpilled, Completes, Quiet, TypeInv
  <2> QED
    BY <1>2, <2>1 DEF EnqueueSpilled, TypeInv, TypeOK, LoopInv
<1>3. CASE EnqueueBuffered(s)
  <2> DEFINE q == Append(buffer, s)
             kept == SubSeq(q, Overflow(q) + 1, Len(q))
             dropped == SubSeq(q, 1, Overflow(q))
  <2>1. q \in Seq(Session)
    BY AppendProperties DEF TypeInv, TypeOK
  <2>2. kept \in Seq(Session)
    BY <2>1, OverflowLength, SplitType
  <2>3. FlushOr(kept)
    BY <1>3 DEF EnqueueBuffered
  <2>4. fate' = [t \in Session |-> IF t \in Range(dropped) THEN "dropped"
                                   ELSE IF t = s THEN "held" ELSE fate[t]]
    BY <1>3 DEF EnqueueBuffered
  <2> HIDE DEF q, kept, dropped
  <2>5. FlushType /\ (phase' = "spilling" => phase = "spilling")
    BY <2>2, <2>3, FlushOrType DEF TypeInv
  <2>6. fate' \in [Session -> Fate]
    BY <2>4 DEF TypeInv, TypeOK, Fate
  <2>7. UNCHANGED <<mode, failures, spilling, stop, useLocal, received, twice, restarts, spillVars>>
    BY <1>3 DEF EnqueueBuffered
  <2>8. SpillTypeOK' /\ draining' = draining
    BY <2>7, SpillUnchanged DEF TypeInv, TypeOK, spillVars
  <2> QED
    BY <2>5, <2>6, <2>7, <2>8 DEF TypeInv, TypeOK, LoopInv, FlushType
<1> QED
  BY <1>1, <1>2, <1>3 DEF Enqueue

LEMMA PostFailType ==
  ASSUME TypeInv, PostFail
  PROVE  TypeInv'
<1>1. PICK k \in 0..Len(inFlight) :
        FailUnheard(k) \/ FailStrict(k) \/ FailOpen(k) \/ FailRetry(k) \/ FailFull(k)
  BY DEF PostFail
<1>2. PostFailed(k)
  BY <1>1 DEF FailUnheard, FailStrict, FailOpen, FailRetry, FailFull
<1>3. /\ SpillTypeOK'
      /\ failures' \in 0..CircuitBreakerThreshold
      /\ received' \in SUBSET Session
      /\ UNCHANGED <<mode, useLocal, twice, restarts, draining>>
      /\ phase = "sending" /\ draining = {}
  BY <1>2, PostFailedType DEF TypeInv
<1>4. LoopInv'
  BY <1>3 DEF LoopInv
<1>5. CASE FailUnheard(k) \/ FailStrict(k)
  <2>1. EndFlush /\ UNCHANGED <<buffer, spilling>>
    BY <1>5 DEF FailUnheard, FailStrict
  <2>2. fate' \in [Session -> Fate]
    BY <1>5, MarkType DEF FailUnheard, FailStrict, Fate, TypeInv, TypeOK
  <2> QED
    BY <1>3, <1>4, <2>1, <2>2, EndFlushType DEF TypeInv, TypeOK
<1>6. CASE FailOpen(k) \/ FailFull(k)
  <2>1. BeginSpill /\ spilling' \in BOOLEAN
    BY <1>6 DEF FailOpen, FailFull, TypeInv, TypeOK
  <2> QED
    BY <1>3, <1>4, <2>1 DEF BeginSpill, TypeInv, TypeOK
<1>7. CASE FailRetry(k)
  <2> DEFINE kept == IF Room < Len(inFlight) THEN Room ELSE Len(inFlight)
  <2>1. /\ buffer' = Requeue(SubSeq(inFlight, 1, kept), buffer)
        /\ fate' = Mark(Range(SubSeq(inFlight, kept + 1, Len(inFlight))), "dropped")
    BY <1>7 DEF FailRetry
  <2>2. kept \in 0..Len(inFlight)
    BY <1>7, KeptLength DEF FailRetry, TypeInv
  <2> HIDE DEF kept
  <2>3. SubSeq(inFlight, 1, kept) \in Seq(Session)
    BY <2>2, SplitType DEF TypeInv, TypeOK
  <2>4. buffer' \in Seq(Session)
    BY <2>1, <2>3, ConcatProperties DEF Requeue, TypeInv, TypeOK
  <2>5. fate' \in [Session -> Fate]
    BY <2>1, MarkType DEF Fate, TypeInv, TypeOK
  <2>6. EndFlush /\ UNCHANGED spilling
    BY <1>7 DEF FailRetry
  <2> QED
    BY <1>3, <1>4, <2>4, <2>5, <2>6, EndFlushType DEF TypeInv, TypeOK
<1> QED
  BY <1>1, <1>5, <1>6, <1>7

LEMMA SpillBatchType ==
  ASSUME TypeInv, SpillBatch
  PROVE  TypeInv'
<1>1. phase = "spilling" /\ draining = {} /\ inFlight # <<>>
  BY DEF SpillBatch, TypeInv, TypeOK, LoopInv
<1>2. /\ Head(inFlight) \in Session
      /\ Tail(inFlight) \in Seq(Session)
      /\ Len(Tail(inFlight)) = Len(inFlight) - 1
      /\ Len(inFlight) \in Nat \ {0}
  BY <1>1, HeadTailProperties, QueueLength DEF TypeInv, TypeOK
<1>3. SpillTypeOK' /\ fate' \in [Session -> Fate] /\ draining' = draining
  BY <1>1, <1>2, SpillSessionType DEF SpillBatch, TypeInv
<1>4. inFlight' = Tail(inFlight)
  BY DEF SpillBatch
<1>5. CASE Len(inFlight) = 1
  <2>1. phase' = "idle" /\ Resolve
    BY <1>5 DEF SpillBatch
  <2>2. inFlight' = <<>>
    BY <1>2, <1>4, <1>5, QueueLength
  <2>3. stop' \in {"running", "stopping", "stopped"}
    BY <2>1 DEF Resolve, TypeInv, TypeOK
  <2> QED
    BY <1>2, <1>3, <1>4, <2>1, <2>2, <2>3 DEF SpillBatch, TypeInv, TypeOK, LoopInv
<1>6. CASE Len(inFlight) # 1
  <2>1. UNCHANGED <<phase, stop>>
    BY <1>6 DEF SpillBatch
  <2>2. inFlight' # <<>>
    BY <1>2, <1>4, <1>6, QueueLength
  <2> QED
    BY <1>1, <1>2, <1>3, <1>4, <2>1, <2>2 DEF SpillBatch, TypeInv, TypeOK, LoopInv
<1> QED
  BY <1>5, <1>6

\* One turn of drain()'s loop: a file is returned and unlinked, returned and
\* kept, or skipped.
LEMMA DrainCases ==
  ASSUME TypeInv, DrainSpill
  PROVE  \E n \in draining :
            /\ n \in DOMAIN disk
            /\ disk[n].lines \in Seq(Session)
            /\ \/ DrainFile(n) /\ Returned(n) /\ UNCHANGED twice
               \/ /\ Returned(n) /\ UNCHANGED disk
                  /\ twice' = twice \cup Range(disk[n].lines)
               \/ UNCHANGED <<disk, buffer, fate, twice>>
<1>1. PICK n \in draining :
         \/ DrainFile(n) /\ Returned(n) /\ UNCHANGED twice
         \/ KeepFile(n) /\ Returned(n) /\ twice' = twice \cup Range(disk[n].lines)
         \/ SkipFile(n) /\ UNCHANGED <<buffer, fate, twice>>
  BY DEF DrainSpill
<1>2. n \in DOMAIN disk /\ disk[n] \in File
  BY DEF TypeInv, TypeOK, SpillTypeOK
<1>3. disk[n].lines \in Seq(Session)
  BY <1>2 DEF File
<1> QED
  BY <1>1, <1>2, <1>3 DEF KeepFile, SkipFile

LEMMA DrainSpillType ==
  ASSUME TypeInv, DrainSpill
  PROVE  TypeInv'
<1>1. draining # {} /\ SpillTypeOK'
  BY TakeType DEF DrainSpill, TypeInv, TypeOK
<1>2. PICK n \in draining :
        /\ disk[n].lines \in Seq(Session)
        /\ \/ Returned(n) /\ UNCHANGED twice
           \/ Returned(n) /\ twice' = twice \cup Range(disk[n].lines)
           \/ UNCHANGED <<disk, buffer, fate, twice>>
  BY DrainCases
<1>3. CASE Returned(n)
  <2>1. buffer' \in Seq(Session)
    BY <1>2, <1>3, ConcatProperties DEF Returned, Drained, TypeInv, TypeOK
  <2>2. fate' \in [Session -> Fate]
    BY <1>3, MarkType DEF Returned, Fate, TypeInv, TypeOK
  <2>3. Range(disk[n].lines) \subseteq Session
    BY <1>2, RangeOfSeq
  <2>4. twice' \in SUBSET Session
    BY <1>2, <2>3 DEF TypeInv, TypeOK
  <2> QED
    BY <1>1, <2>1, <2>2, <2>4 DEF DrainSpill, TypeInv, TypeOK, LoopInv
<1>4. CASE UNCHANGED <<buffer, fate, twice>>
  BY <1>1, <1>4 DEF DrainSpill, TypeInv, TypeOK, LoopInv
<1> QED
  BY <1>2, <1>3, <1>4

LEMMA RestartType ==
  ASSUME TypeInv, Restart
  PROVE  TypeInv'
<1>1. SpillTypeOK'
  <2>1. /\ UNCHANGED disk /\ current' = current + 1
        /\ lineCount' = 0 /\ draining' = DOMAIN disk
    BY DEF Restart, NewSpillBuffer, StartDrain
  <2>2. lineCount' \in 0..(MaxLinesPerFile - 1)
    BY <2>1, SpillConstants
  <2> QED
    BY <2>1, <2>2 DEF TypeInv, TypeOK, SpillTypeOK
<1>2. fate' \in [Session -> Fate]
  BY MarkType DEF Restart, Fate, TypeInv, TypeOK
<1>3. received' \in SUBSET Session
  <2>1. PICK k \in 0..Len(inFlight) : received' = received \cup Range(SubSeq(inFlight, 1, k))
    BY DEF Restart
  <2>2. Range(SubSeq(inFlight, 1, k)) \subseteq Session
    BY SplitType, RangeOfSeq DEF TypeInv, TypeOK
  <2> QED
    BY <2>1, <2>2 DEF TypeInv, TypeOK
<1>4. /\ failures' \in 0..CircuitBreakerThreshold
      /\ restarts' \in 0..MaxRestarts
  BY ClientConstants DEF Restart, TypeInv, TypeOK
<1>5. buffer' \in Seq(Session) /\ inFlight' \in Seq(Session)
  BY EmptySeq DEF Restart
<1> QED
  BY <1>1, <1>2, <1>3, <1>4, <1>5 DEF Restart, TypeInv, TypeOK, LoopInv

LEMMA TypeInvStep == TypeInv /\ [Next]_vars => TypeInv'
<1> SUFFICES ASSUME TypeInv, [Next]_vars PROVE TypeInv'
  OBVIOUS
<1>1. ASSUME NEW s \in Session, Enqueue(s) PROVE TypeInv'
  BY <1>1, EnqueueType
<1>2. CASE EnableLocalStore
  BY <1>2, SpillUnchanged DEF EnableLocalStore, TypeInv, TypeOK, LoopInv, spillVars
<1>3. CASE FlushTimer \/ Stop
  <2>1. /\ FlushOr(buffer)
        /\ stop' \in {"running", "stopping", "stopped"}
        /\ UNCHANGED <<mode, failures, spilling, useLocal, received, fate, twice, restarts, spillVars>>
    BY <1>3 DEF FlushTimer, Stop, TypeInv, TypeOK
  <2>2. FlushType /\ (phase' = "spilling" => phase = "spilling")
    BY <2>1, FlushOrType DEF TypeInv, TypeOK
  <2>3. SpillTypeOK' /\ draining' = draining
    BY <2>1, SpillUnchanged DEF TypeInv, TypeOK, spillVars
  <2>4. LoopInv'
    BY <2>2, <2>3 DEF TypeInv, LoopInv
  <2>5. TypeOK'
    BY <2>1, <2>2, <2>3 DEF TypeInv, TypeOK, FlushType
  <2> QED
    BY <2>4, <2>5 DEF TypeInv
<1>4. CASE PostOk
  <2>1. EndFlush /\ Recover
    BY <1>4 DEF PostOk
  <2>2. failures' \in 0..CircuitBreakerThreshold /\ spilling' \in BOOLEAN
    <3>1. CASE failures > 0 \/ spilling
      <4>1. failures' = 0 /\ spilling' = FALSE
        BY <2>1, <3>1 DEF Recover
      <4>2. failures' \in 0..CircuitBreakerThreshold
        BY <4>1, ClientConstants
      <4> QED
        BY <4>1, <4>2
    <3>2. CASE ~(failures > 0 \/ spilling)
      BY <2>1, <3>2 DEF Recover, TypeInv, TypeOK
    <3> QED
      BY <3>1, <3>2
  <2>3. SpillTypeOK'
    <3>1. UNCHANGED <<disk, current, lineCount>>
      BY <1>4 DEF PostOk
    <3>2. CASE StartDrain
      BY <3>1, <3>2, StartDrainSpillType DEF TypeInv, TypeOK
    <3>3. CASE UNCHANGED draining
      BY <3>1, <3>3, SpillUnchanged DEF spillVars, TypeInv, TypeOK
    <3> QED
      BY <2>1, <3>2, <3>3 DEF Recover
  <2>4. Range(inFlight) \subseteq Session
    BY RangeOfSeq DEF TypeInv, TypeOK
  <2>5. fate' \in [Session -> Fate] /\ received' \in SUBSET Session
    BY <1>4, <2>4, MarkType DEF PostOk, Fate, TypeInv, TypeOK
  <2>6. /\ inFlight' \in Seq(Session) /\ inFlight' = <<>> /\ phase' = "idle"
        /\ stop' \in {"running", "stopping", "stopped"}
    BY <2>1, EndFlushType DEF TypeInv
  <2> QED
    BY <1>4, <2>2, <2>3, <2>5, <2>6 DEF PostOk, TypeInv, TypeOK, LoopInv
<1>5. CASE PostFail
  BY <1>5, PostFailType
<1>6. CASE SpillBatch
  BY <1>6, SpillBatchType
<1>7. CASE DrainSpill
  BY <1>7, DrainSpillType
<1>8. CASE Restart
  BY <1>8, RestartType
<1>9. CASE UNCHANGED vars
  BY <1>9, SpillUnchanged DEF vars, clientVars, spillVars, TypeInv, TypeOK, LoopInv
<1> QED
  BY <1>1, <1>2, <1>3, <1>4, <1>5, <1>6, <1>7, <1>8, <1>9 DEF Next

\* Every variable keeps its type.
THEOREM TypeCorrect == Spec => []TypeOK
<1>1. TypeInv => TypeOK
  BY DEF TypeInv
<1> QED
  BY <1>1, TypeInvInit, TypeInvStep, PTL DEF Spec

-----------------------------------------------------------------------------
(***************************************************************************)
(* The breaker, however the processes are set up.                          *)
(***************************************************************************)

\* The breaker is open exactly when the last flushes failed threshold times in
\* a process that spills.
THEOREM BreakerCorrect == Spec => []BreakerMatchesFailures
<1>1. Init => BreakerMatchesFailures
  BY ClientConstants DEF Init, BreakerMatchesFailures
<1>2. TypeInv /\ BreakerMatchesFailures /\ [Next]_vars => BreakerMatchesFailures'
  <2> SUFFICES ASSUME TypeInv, BreakerMatchesFailures, [Next]_vars
               PROVE  BreakerMatchesFailures'
    OBVIOUS
  <2>1. CASE UNCHANGED <<mode, failures, spilling>>
    BY <2>1 DEF BreakerMatchesFailures
  <2>2. ASSUME NEW s \in Session, Enqueue(s) PROVE UNCHANGED <<mode, failures, spilling>>
    BY <2>2 DEF Enqueue, EnqueueLocal, EnqueueSpilled, EnqueueBuffered
  <2>3. CASE EnableLocalStore \/ FlushTimer \/ Stop \/ SpillBatch \/ DrainSpill \/ UNCHANGED vars
    BY <2>1, <2>3
    DEF EnableLocalStore, FlushTimer, Stop, SpillBatch, DrainSpill, vars, clientVars
  <2>4. CASE PostOk
    BY <2>1, <2>4, ClientConstants DEF PostOk, Recover, BreakerMatchesFailures
  <2>5. ASSUME NEW k \in 0..Len(inFlight), FailOpen(k) PROVE BreakerMatchesFailures'
    <3>1. spilling' = TRUE /\ mode' = "graceful" /\ failures' >= CircuitBreakerThreshold
      BY <2>5, ClientConstants DEF FailOpen, PostFailed, TypeInv, TypeOK
    <3> QED
      BY <3>1 DEF BreakerMatchesFailures
  <2>6. ASSUME NEW k \in 0..Len(inFlight), FailRetry(k) \/ FailFull(k)
        PROVE  BreakerMatchesFailures'
    <3>1. UNCHANGED <<mode, spilling>> /\ failures + 1 < CircuitBreakerThreshold
      BY <2>6 DEF FailRetry, FailFull, PostFailed
    <3>2. failures' = failures + 1
      BY <2>6, <3>1, ClientConstants DEF FailRetry, FailFull, PostFailed, TypeInv, TypeOK
    <3> QED
      BY <3>1, <3>2, ClientConstants DEF BreakerMatchesFailures, TypeInv, TypeOK
  <2>9. ASSUME NEW k \in 0..Len(inFlight), FailUnheard(k) \/ FailStrict(k)
        PROVE  BreakerMatchesFailures'
    BY <2>9 DEF FailUnheard, FailStrict, PostFailed, BreakerMatchesFailures
  <2>7. CASE PostFail
    BY <2>5, <2>6, <2>7, <2>9 DEF PostFail
  <2>8. CASE Restart
    BY <2>8, ClientConstants DEF Restart, BreakerMatchesFailures
  <2> QED
    BY <2>1, <2>2, <2>3, <2>4, <2>7, <2>8 DEF Next
<1> QED
  BY <1>1, <1>2, TypeInvInit, TypeInvStep, PTL DEF Spec

(***************************************************************************)

NoLoss == "unheard" \notin Modes

LEMMA OnDiskMember ==
  ASSUME NEW n \in DOMAIN disk, NEW s \in Range(disk[n].lines)
  PROVE  s \in OnDisk
BY DEF OnDisk, SessionsIn

LEMMA AddLineKeeps ==
  ASSUME NEW f \in File, NEW s \in Session
  PROVE  Range(f.lines) \subseteq Range(AddLine(f, s).lines)
<1>1. CASE f.torn
  BY <1>1, AddLineType
<1>2. CASE ~f.torn
  <2>1. AddLine(f, s).lines = Append(f.lines, s) /\ f.lines \in Seq(Session)
    BY <1>2, AddLineType DEF File
  <2> QED
    BY <2>1, AppendProperties, LenProperties DEF Range
<1> QED
  BY <1>1, <1>2

LEMMA OpenedKeeps ==
  ASSUME SpillTypeOK, NEW n \in DOMAIN disk, NEW s \in Session
  PROVE  /\ Range(disk[n].lines) \subseteq Range(Opened[n].lines)
         /\ n = current => Range(disk[n].lines) \subseteq Range(AddLine(Opened[current], s).lines)
BY OpenedType, AddLineKeeps

LEMMA AppendFailedKeeps ==
  ASSUME SpillTypeOK, NEW s \in Session, NEW fault \in AppendFaults, AppendFailed(s, fault)
  PROVE  OnDisk \subseteq OnDisk'
<1>1. ASSUME NEW n \in DOMAIN disk
      PROVE  n \in DOMAIN disk' /\ Range(disk[n].lines) \subseteq Range(disk'[n].lines)
  <2>1. n \in DOMAIN disk'
    BY AppendFailedFiles
  <2>2. CASE n # current
    BY <2>1, <2>2, AppendFailedFiles
  <2>3. CASE n = current
    BY <2>1, <2>3, AppendFailedFiles, OpenedKeeps
  <2> QED
    BY <2>1, <2>2, <2>3
<1> QED
  BY <1>1 DEF OnDisk, SessionsIn

\* An append that returns true keeps the files that it does not unlink.
LEMMA AppendOkKeeps ==
  ASSUME SpillTypeOK, NEW s \in Session, NEW kept, NEW unread, AppendOk(s, kept, unread)
  PROVE  OnDisk \subseteq OnDisk' \cup SessionsIn(Excess \ kept)
<1>1. ASSUME NEW n \in DOMAIN disk, n \notin Excess \ kept
      PROVE  n \in DOMAIN disk' /\ Range(disk[n].lines) \subseteq Range(disk'[n].lines)
  <2>1. n \in DOMAIN disk'
    BY <1>1, AppendOkFiles
  <2>2. CASE n # current
    BY <2>1, <2>2, AppendOkFiles
  <2>3. CASE n = current
    BY <2>1, <2>3, AppendOkFiles, OpenedKeeps
  <2> QED
    BY <2>1, <2>2, <2>3
<1> QED
  BY <1>1 DEF OnDisk, SessionsIn

\* The files that append() unlinks are marked, all of them.
LEMMA AppendedHeld ==
  ASSUME NEW s \in Session, NEW gone, NEW unread, fate' = Appended(s, gone, unread)
  PROVE  /\ fate'[s] = IF EndsTorn THEN "glued" ELSE "held"
         /\ \A t \in Session \ {s} :
              \/ fate'[t] = fate[t] /\ t \notin SessionsIn(gone)
              \/ fate'[t] \in {"evicted", "unread"} /\ t \in SessionsIn(gone)
<1>1. \A t : t \in SessionsIn(gone) <=> \/ t \in SessionsIn(gone \cap unread)
                                        \/ t \in SessionsIn(gone \ unread)
  BY DEF SessionsIn
<1>2. \A t \in Session :
        fate'[t] =
          CASE t = s -> IF EndsTorn THEN "glued" ELSE "held"
            [] t # s /\ t \in SessionsIn(gone \cap unread) -> "unread"
            [] /\ t # s
               /\ t \in SessionsIn(gone \ unread) \ SessionsIn(gone \cap unread) -> "evicted"
            [] OTHER -> fate[t]
  BY DEF Appended
<1>3. fate'[s] = IF EndsTorn THEN "glued" ELSE "held"
  BY <1>2
<1>4. ASSUME NEW t \in Session \ {s}
      PROVE  \/ fate'[t] = fate[t] /\ t \notin SessionsIn(gone)
             \/ fate'[t] \in {"evicted", "unread"} /\ t \in SessionsIn(gone)
  <2> DEFINE a == t \in SessionsIn(gone \cap unread)
             b == t \in SessionsIn(gone \ unread)
  <2>1. CASE a
    BY <1>1, <1>2, <2>1
  <2>2. CASE ~a /\ b
    BY <1>1, <1>2, <2>2
  <2>3. CASE ~a /\ ~b
    BY <1>1, <1>2, <2>3
  <2> QED
    BY <2>1, <2>2, <2>3
<1> QED
  BY <1>3, <1>4

\* A spill keeps what was on disk, or marks it as evicted, and keeps the session
\* or marks it as lost.
LEMMA SpillKeeps ==
  ASSUME TypeOK, NEW s \in Session, SpillSession(s)
  PROVE  \A t \in Session : fate'[t] = "held" =>
            \/ t \in OnDisk'
            \/ t # s /\ fate[t] = "held" /\ t \notin OnDisk
<1>1. ASSUME NEW kept \in SUBSET Excess, NEW unread \in SUBSET Excess,
             AppendOk(s, kept, unread), fate' = Appended(s, Excess \ kept, unread),
             NEW t \in Session, fate'[t] = "held"
      PROVE  \/ t \in OnDisk'
             \/ t # s /\ fate[t] = "held" /\ t \notin OnDisk
  <2>1. CASE t = s
    <3>1. ~EndsTorn
      BY <1>1, <2>1, AppendedHeld
    <3> QED
      BY <1>1, <2>1, <3>1, AppendOkReadable DEF TypeOK
  <2>2. CASE t # s
    <3>1. fate[t] = "held" /\ t \notin SessionsIn(Excess \ kept)
      BY <1>1, <2>2, AppendedHeld
    <3>2. t \in OnDisk => t \in OnDisk'
      BY <1>1, <3>1, AppendOkKeeps DEF TypeOK
    <3> QED
      BY <2>2, <3>1, <3>2
  <2> QED
    BY <2>1, <2>2
<1>2. ASSUME NEW fault \in AppendFaults, AppendFailed(s, fault),
             fate' = [fate EXCEPT ![s] = "dropped"]
      PROVE  \A t \in Session : fate'[t] = "held" =>
               \/ t \in OnDisk'
               \/ t # s /\ fate[t] = "held" /\ t \notin OnDisk
  <2>1. OnDisk \subseteq OnDisk'
    BY <1>2, AppendFailedKeeps DEF TypeOK
  <2>2. \A t \in Session : fate'[t] = "held" => t # s /\ fate[t] = "held"
    BY <1>2 DEF TypeOK
  <2> QED
    BY <2>1, <2>2
<1> QED
  BY <1>1, <1>2 DEF SpillSession

\* What a drained file held is in the buffer, what the others held is on disk.
LEMMA DrainKeeps ==
  ASSUME SpillTypeOK, NEW n, DrainFile(n)
  PROVE  /\ OnDisk \subseteq Range(disk[n].lines) \cup OnDisk'
         /\ OnDisk' \subseteq OnDisk
BY DrainFileFiles DEF OnDisk, SessionsIn

LEMMA FlushOrKeeps ==
  ASSUME TypeOK, NEW q \in Seq(Session), FlushOr(q)
  PROVE  Range(buffer') \cup Range(inFlight') = Range(q) \cup Range(inFlight)
<1>1. Range(<<>>) = {}
  BY DEF Range
<1>2. CASE phase = "idle" /\ q # <<>>
  <2>1. inFlight = <<>> /\ inFlight' = q /\ buffer' = <<>>
    BY <1>2 DEF FlushOr, Launch, TypeOK
  <2> QED
    BY <1>1, <2>1
<1>3. CASE ~(phase = "idle" /\ q # <<>>)
  BY <1>3 DEF FlushOr
<1> QED
  BY <1>2, <1>3

LEMMA KeptEnqueue ==
  ASSUME TypeInv, NoSilentDrop, NEW s \in Session, Enqueue(s)
  PROVE  NoSilentDrop'
<1>1. CASE EnqueueLocal(s)
  <2>1. UNCHANGED <<disk, buffer, inFlight>>
    BY <1>1 DEF EnqueueLocal, spillVars
  <2>2. \A t \in Session : fate'[t] = "held" => fate[t] = "held"
    BY <1>1 DEF EnqueueLocal, TypeInv, TypeOK
  <2> QED
    BY <2>1, <2>2 DEF NoSilentDrop, Held, OnDisk, SessionsIn
<1>2. CASE EnqueueSpilled(s)
  <2>1. \A t \in Session : fate'[t] = "held" =>
          \/ t \in OnDisk'
          \/ t # s /\ fate[t] = "held" /\ t \notin OnDisk
    BY <1>2, SpillKeeps DEF EnqueueSpilled, TypeInv
  <2>2. UNCHANGED <<buffer, inFlight>>
    BY <1>2 DEF EnqueueSpilled
  <2> QED
    BY <2>1, <2>2 DEF NoSilentDrop, Held
<1>3. CASE EnqueueBuffered(s)
  <2> DEFINE q == Append(buffer, s)
             kept == SubSeq(q, Overflow(q) + 1, Len(q))
             dropped == SubSeq(q, 1, Overflow(q))
  <2>1. q \in Seq(Session) /\ Range(q) = Range(buffer) \cup {s}
    <3>1. buffer \in Seq(Session)
      BY DEF TypeInv, TypeOK
    <3>2. q = buffer \o <<s>> /\ q \in Seq(Session)
      BY <3>1, AppendIsConcat, AppendProperties
    <3>3. <<s>> \in Seq(Session) /\ Range(<<s>>) = {s}
      <4>1. <<s>> \in Seq(Session) /\ Len(<<s>>) = 1 /\ <<s>>[1] = s
        OBVIOUS
      <4>2. Range(<<s>>) = {<<s>>[i] : i \in 1..1}
        BY <4>1, RangeEquality
      <4> QED
        BY <4>1, <4>2
    <3>4. Range(buffer \o <<s>>) = Range(buffer) \cup Range(<<s>>)
      BY <3>1, <3>3, RangeConcatenation
    <3> QED
      BY <3>2, <3>3, <3>4
  <2>2. kept \in Seq(Session) /\ Range(q) = Range(dropped) \cup Range(kept)
    BY <2>1, OverflowLength, SplitType, SplitRange
  <2>3. FlushOr(kept)
    BY <1>3 DEF EnqueueBuffered
  <2>4. fate' = [t \in Session |-> IF t \in Range(dropped) THEN "dropped"
                                   ELSE IF t = s THEN "held" ELSE fate[t]]
    BY <1>3 DEF EnqueueBuffered
  <2> HIDE DEF q, kept, dropped
  <2>5. Range(buffer') \cup Range(inFlight') = Range(kept) \cup Range(inFlight)
    BY <2>2, <2>3, FlushOrKeeps DEF TypeInv
  <2>6. UNCHANGED disk
    BY <1>3 DEF EnqueueBuffered, spillVars
  <2>7. \A t \in Session : fate'[t] = "held" =>
           t \notin Range(dropped) /\ (t = s \/ fate[t] = "held")
    BY <2>4
  <2> QED
    BY <2>1, <2>2, <2>5, <2>6, <2>7 DEF NoSilentDrop, Held, OnDisk, SessionsIn
<1> QED
  BY <1>1, <1>2, <1>3 DEF Enqueue

LEMMA MarkHeld ==
  ASSUME NEW S, NEW f, f # "held", fate' = Mark(S, f)
  PROVE  \A t \in Session : fate'[t] = "held" => t \notin S /\ fate[t] = "held"
BY DEF Mark

LEMMA KeptPostFail ==
  ASSUME NoLoss, TypeInv, NoSilentDrop, PostFail
  PROVE  NoSilentDrop'
<1>1. PICK k \in 0..Len(inFlight) :
        FailStrict(k) \/ FailOpen(k) \/ FailRetry(k) \/ FailFull(k)
  BY DEF PostFail, FailUnheard, NoLoss, TypeInv, TypeOK
<1>2. UNCHANGED disk
  BY <1>1 DEF FailStrict, FailOpen, FailRetry, FailFull, PostFailed, spillVars
<1>3. Range(<<>>) = {}
  BY DEF Range
<1>4. CASE FailStrict(k)
  <2>1. fate' = Mark(Range(inFlight), "raised") /\ inFlight' = <<>> /\ UNCHANGED buffer
    BY <1>4 DEF FailStrict, EndFlush
  <2>2. \A t \in Session : fate'[t] = "held" => t \notin Range(inFlight) /\ fate[t] = "held"
    BY <2>1, MarkHeld
  <2> QED
    BY <1>2, <2>1, <2>2 DEF NoSilentDrop, Held, OnDisk, SessionsIn
<1>5. CASE FailOpen(k) \/ FailFull(k)
  <2>1. UNCHANGED <<buffer, inFlight, fate>>
    BY <1>5 DEF FailOpen, FailFull, BeginSpill
  <2> QED
    BY <1>2, <2>1 DEF NoSilentDrop, Held, OnDisk, SessionsIn
<1>6. CASE FailRetry(k)
  <2> DEFINE kept == IF Room < Len(inFlight) THEN Room ELSE Len(inFlight)
             back == SubSeq(inFlight, 1, kept)
             dropped == SubSeq(inFlight, kept + 1, Len(inFlight))
  <2>1. buffer' = back \o buffer /\ fate' = Mark(Range(dropped), "dropped") /\ inFlight' = <<>>
    BY <1>6 DEF FailRetry, Requeue, EndFlush
  <2>2. kept \in 0..Len(inFlight)
    BY <1>6, KeptLength DEF FailRetry, TypeInv
  <2> HIDE DEF kept
  <2>3. back \in Seq(Session) /\ Range(inFlight) = Range(back) \cup Range(dropped)
    BY <2>2, SplitType, SplitRange DEF TypeInv, TypeOK
  <2> HIDE DEF back, dropped
  <2>4. Range(buffer') = Range(back) \cup Range(buffer)
    BY <2>1, <2>3, RangeConcatenation DEF TypeInv, TypeOK
  <2>5. \A t \in Session : fate'[t] = "held" => t \notin Range(dropped) /\ fate[t] = "held"
    BY <2>1, MarkHeld
  <2> QED
    BY <1>2, <2>3, <2>4, <2>5 DEF NoSilentDrop, Held, OnDisk, SessionsIn
<1> QED
  BY <1>1, <1>4, <1>5, <1>6

LEMMA KeptSpillBatch ==
  ASSUME TypeInv, NoSilentDrop, SpillBatch
  PROVE  NoSilentDrop'
<1>1. inFlight # <<>> /\ inFlight \in Seq(Session)
  BY DEF SpillBatch, TypeInv, TypeOK
<1>2. Head(inFlight) \in Session /\ Range(inFlight) = {Head(inFlight)} \cup Range(Tail(inFlight))
  BY <1>1, HeadTailProperties, HeadTailRange
<1>3. \A t \in Session : fate'[t] = "held" =>
        \/ t \in OnDisk'
        \/ t # Head(inFlight) /\ fate[t] = "held" /\ t \notin OnDisk
  BY <1>2, SpillKeeps DEF SpillBatch, TypeInv
<1>4. inFlight' = Tail(inFlight) /\ UNCHANGED buffer
  BY DEF SpillBatch
<1> QED
  BY <1>2, <1>3, <1>4 DEF NoSilentDrop, Held

LEMMA ReturnedRange ==
  ASSUME TypeInv, NEW n \in DOMAIN disk, Returned(n)
  PROVE  /\ Range(buffer') = Range(buffer) \cup Range(disk[n].lines)
         /\ \A t \in Session : fate'[t] = IF t \in Range(disk[n].lines) THEN "held" ELSE fate[t]
<1>1. disk[n] \in File
  BY DEF TypeInv, TypeOK, SpillTypeOK
<1>2. disk[n].lines \in Seq(Session) /\ buffer \in Seq(Session)
  BY <1>1 DEF File, TypeInv, TypeOK
<1> QED
  BY <1>2, RangeConcatenation DEF Returned, Drained, Mark

LEMMA KeptDrainSpill ==
  ASSUME TypeInv, NoSilentDrop, DrainSpill
  PROVE  NoSilentDrop'
<1>1. UNCHANGED inFlight
  BY DEF DrainSpill
<1>2. PICK n \in draining :
        /\ n \in DOMAIN disk
        /\ \/ DrainFile(n) /\ Returned(n)
           \/ Returned(n) /\ UNCHANGED disk
           \/ UNCHANGED <<disk, buffer, fate>>
  BY DrainCases
<1>3. CASE Returned(n)
  <2>1. /\ Range(buffer') = Range(buffer) \cup Range(disk[n].lines)
        /\ \A t \in Session : fate'[t] = IF t \in Range(disk[n].lines) THEN "held" ELSE fate[t]
    BY <1>2, <1>3, ReturnedRange
  <2>2. OnDisk \subseteq Range(disk[n].lines) \cup OnDisk'
    <3>1. CASE DrainFile(n)
      BY <3>1, DrainKeeps DEF TypeInv, TypeOK
    <3>2. CASE UNCHANGED disk
      BY <3>2 DEF OnDisk, SessionsIn
    <3> QED
      BY <1>2, <3>1, <3>2 DEF OnDisk, SessionsIn
  <2> QED
    BY <1>1, <2>1, <2>2 DEF NoSilentDrop, Held
<1>4. CASE UNCHANGED <<disk, buffer, fate>>
  BY <1>1, <1>4 DEF NoSilentDrop, Held, OnDisk, SessionsIn
<1> QED
  BY <1>2, <1>3, <1>4

LEMMA KeptInvStep == NoLoss /\ TypeInv /\ NoSilentDrop /\ [Next]_vars => NoSilentDrop'
<1> SUFFICES ASSUME NoLoss, TypeInv, NoSilentDrop, [Next]_vars PROVE NoSilentDrop'
  OBVIOUS
<1>1. ASSUME NEW s \in Session, Enqueue(s) PROVE NoSilentDrop'
  BY <1>1, KeptEnqueue
<1>2. CASE EnableLocalStore \/ UNCHANGED vars
  <2>1. UNCHANGED <<disk, buffer, inFlight, fate>>
    BY <1>2 DEF EnableLocalStore, vars, clientVars, spillVars
  <2> QED
    BY <2>1 DEF NoSilentDrop, Held, OnDisk, SessionsIn
<1>3. CASE FlushTimer \/ Stop
  <2>1. FlushOr(buffer) /\ UNCHANGED <<disk, fate>>
    BY <1>3 DEF FlushTimer, Stop, spillVars
  <2>2. Range(buffer') \cup Range(inFlight') = Range(buffer) \cup Range(inFlight)
    BY <2>1, FlushOrKeeps DEF TypeInv, TypeOK
  <2> QED
    BY <2>1, <2>2 DEF NoSilentDrop, Held, OnDisk, SessionsIn
<1>4. CASE PostOk
  <2>1. fate' = Mark(Range(inFlight), "sent") /\ UNCHANGED <<buffer, disk>>
    BY <1>4 DEF PostOk
  <2>2. \A t \in Session : fate'[t] = "held" => t \notin Range(inFlight) /\ fate[t] = "held"
    BY <2>1, MarkHeld
  <2> QED
    BY <2>1, <2>2 DEF NoSilentDrop, Held, OnDisk, SessionsIn
<1>5. CASE PostFail
  BY <1>5, KeptPostFail
<1>6. CASE SpillBatch
  BY <1>6, KeptSpillBatch
<1>7. CASE DrainSpill
  BY <1>7, KeptDrainSpill
<1>8. CASE Restart
  <2>1. /\ fate' = Mark(Range(buffer) \cup Range(inFlight), "crashed")
        /\ UNCHANGED disk
    BY <1>8 DEF Restart, NewSpillBuffer
  <2>2. \A t \in Session : fate'[t] = "held" =>
           t \notin Range(buffer) \cup Range(inFlight) /\ fate[t] = "held"
    BY <2>1, MarkHeld
  <2> QED
    BY <2>1, <2>2 DEF NoSilentDrop, Held, OnDisk, SessionsIn
<1> QED
  BY <1>1, <1>2, <1>3, <1>4, <1>5, <1>6, <1>7, <1>8 DEF Next

\* collector-client.ts:14.  A session that was enqueued is posted, in memory, on
\* disk, or has been counted, logged or thrown, but for the two losses on the
\* disk that nothing notices: over any interleaving of enqueues, answers,
\* failures, spills, drains, refused writes, reads and unlinks, and restarts.
THEOREM NothingSilentlyDropped == NoLoss => (Spec => []NoSilentDrop)
<1> SUFFICES ASSUME NoLoss PROVE Spec => []NoSilentDrop
  OBVIOUS
<1>1. Init => NoSilentDrop
  BY DEF Init, NoSilentDrop
<1>2. TypeInv /\ NoSilentDrop /\ [Next]_vars => NoSilentDrop'
  BY KeptInvStep
<1> QED
  BY <1>1, <1>2, TypeInvInit, TypeInvStep, PTL DEF Spec

(***************************************************************************)

\* Every session of S once in the queue at most.
Once(q, S) == \A i, j \in DOMAIN q : q[i] = q[j] /\ q[i] \in S => i = j

Disjoint(p, q, S) == Range(p) \cap Range(q) \cap S = {}

\* Every session of S on one line of one of the files at most.
Apart(files, S) ==
    /\ \A n \in DOMAIN files : Once(files[n].lines, S)
    /\ \A m, n \in DOMAIN files : ~Disjoint(files[m].lines, files[n].lines, S) => m = n

\* The sessions that no file that stayed has returned.
Solo == Session \ twice

LEMMA SplitApart ==
  ASSUME NEW q \in Seq(Session), NEW n \in 0..Len(q), NEW S, Once(q, S)
  PROVE  /\ Once(SubSeq(q, 1, n), S)
         /\ Once(SubSeq(q, n + 1, Len(q)), S)
<1> DEFINE front == SubSeq(q, 1, n)
           back == SubSeq(q, n + 1, Len(q))
<1>1. /\ front \in Seq(Session) /\ back \in Seq(Session)
      /\ Len(front) = n /\ Len(back) = Len(q) - n
      /\ \A i \in 1..n : front[i] = q[i]
      /\ \A i \in 1..(Len(q) - n) : back[i] = q[n + i]
  BY SplitType
<1>2. Len(q) \in Nat /\ n \in Nat /\ n <= Len(q) /\ DOMAIN q = 1..Len(q)
  BY QueueLength
<1> HIDE DEF front, back
<1>3. DOMAIN front = 1..n /\ DOMAIN back = 1..(Len(q) - n)
  BY <1>1, LenProperties
<1>4. \A i, j \in 1..Len(q) : q[i] = q[j] /\ q[i] \in S => i = j
  BY <1>2 DEF Once
<1>5. Once(front, S)
  <2> SUFFICES ASSUME NEW i \in 1..n, NEW j \in 1..n, front[i] = front[j],
                      front[i] \in S
               PROVE  i = j
    BY <1>3 DEF Once
  <2>1. i \in 1..Len(q) /\ j \in 1..Len(q) /\ q[i] = q[j] /\ q[i] \in S
    BY <1>1, <1>2
  <2> QED
    BY <1>4, <2>1
<1>6. Once(back, S)
  <2> SUFFICES ASSUME NEW i \in 1..(Len(q) - n), NEW j \in 1..(Len(q) - n), back[i] = back[j],
                      back[i] \in S
               PROVE  i = j
    BY <1>3 DEF Once
  <2>1. n + i \in 1..Len(q) /\ n + j \in 1..Len(q)
    BY <1>2
  <2>2. q[n + i] = q[n + j] /\ q[n + i] \in S
    BY <1>1
  <2>3. n + i = n + j
    BY <1>4, <2>1, <2>2
  <2> QED
    BY <1>2, <2>3
<1> QED
  BY <1>5, <1>6 DEF front, back

LEMMA TailApart ==
  ASSUME NEW q \in Seq(Session), q # <<>>, NEW S, Once(q, S)
  PROVE  Once(Tail(q), S) /\ (Head(q) \in S => Head(q) \notin Range(Tail(q)))
<1>1. Len(q) \in Nat \ {0} /\ DOMAIN q = 1..Len(q)
  BY QueueLength
<1>2. /\ Tail(q) \in Seq(Session) /\ Len(Tail(q)) = Len(q) - 1
      /\ \A i \in 1..Len(Tail(q)) : Tail(q)[i] = q[i + 1]
  BY HeadTailProperties
<1>3. DOMAIN Tail(q) = 1..(Len(q) - 1) /\ Head(q) = q[1]
  BY <1>2, LenProperties
<1>4. \A i, j \in 1..Len(q) : q[i] = q[j] /\ q[i] \in S => i = j
  BY <1>1 DEF Once
<1>5. \A i \in 1..(Len(q) - 1) : i + 1 \in 1..Len(q) /\ i + 1 # 1
  BY <1>1
<1>6. Once(Tail(q), S)
  <2> SUFFICES ASSUME NEW i \in 1..(Len(q) - 1), NEW j \in 1..(Len(q) - 1),
                      Tail(q)[i] = Tail(q)[j], Tail(q)[i] \in S
               PROVE  i = j
    BY <1>3 DEF Once
  <2>1. i + 1 = j + 1
    BY <1>2, <1>4, <1>5
  <2> QED
    BY <2>1
<1>7. ASSUME Head(q) \in S, NEW i \in 1..(Len(q) - 1) PROVE Tail(q)[i] # Head(q)
  <2>1. Tail(q)[i] = q[i + 1] /\ 1 \in 1..Len(q)
    BY <1>1, <1>2
  <2> QED
    BY <1>3, <1>4, <1>5, <1>7, <2>1
<1> QED
  BY <1>3, <1>6, <1>7 DEF Range

LEMMA ConcatApart ==
  ASSUME NEW p \in Seq(Session), NEW q \in Seq(Session), NEW S,
         Once(p, S), Once(q, S), Disjoint(p, q, S)
  PROVE  Once(p \o q, S)
<1> DEFINE r == p \o q
<1>1. /\ r \in Seq(Session) /\ Len(r) = Len(p) + Len(q)
      /\ \A i \in 1..(Len(p) + Len(q)) : r[i] = IF i <= Len(p) THEN p[i] ELSE q[i - Len(p)]
  BY ConcatProperties
<1>2. /\ Len(p) \in Nat /\ Len(q) \in Nat
      /\ DOMAIN p = 1..Len(p) /\ DOMAIN q = 1..Len(q)
  BY QueueLength
<1> HIDE DEF r
<1>3. DOMAIN r = 1..(Len(p) + Len(q))
  BY <1>1, LenProperties
<1>4. \A i \in 1..(Len(p) + Len(q)) :
         \/ i \in 1..Len(p) /\ r[i] = p[i]
         \/ i - Len(p) \in 1..Len(q) /\ r[i] = q[i - Len(p)]
  BY <1>1, <1>2
<1>5. \A i \in 1..Len(p), j \in 1..Len(q) : p[i] = q[j] => p[i] \notin S
  BY <1>2 DEF Range, Disjoint
<1> SUFFICES ASSUME NEW i \in 1..(Len(p) + Len(q)), NEW j \in 1..(Len(p) + Len(q)), r[i] = r[j],
                    r[i] \in S
             PROVE  i = j
  BY <1>3 DEF Once, r
<1>6. CASE i \in 1..Len(p) /\ r[i] = p[i]
  <2>1. ~ (j - Len(p) \in 1..Len(q) /\ r[j] = q[j - Len(p)])
    BY <1>5, <1>6
  <2>2. j \in 1..Len(p) /\ r[j] = p[j]
    BY <1>4, <2>1
  <2> QED
    BY <1>2, <1>6, <2>2 DEF Once
<1>7. CASE i - Len(p) \in 1..Len(q) /\ r[i] = q[i - Len(p)]
  <2>1. ~ (j \in 1..Len(p) /\ r[j] = p[j])
    BY <1>5, <1>7
  <2>2. j - Len(p) \in 1..Len(q) /\ r[j] = q[j - Len(p)]
    BY <1>4, <2>1
  <2>3. i - Len(p) = j - Len(p)
    BY <1>2, <1>7, <2>2 DEF Once
  <2> QED
    BY <1>2, <2>3
<1> QED
  BY <1>4, <1>6, <1>7

LEMMA AppendApart ==
  ASSUME NEW q \in Seq(Session), NEW S, Once(q, S), NEW s \in Session, s \in S => s \notin Range(q)
  PROVE  /\ Append(q, s) \in Seq(Session) /\ Once(Append(q, s), S)
         /\ Range(Append(q, s)) = Range(q) \cup {s}
<1>1. <<s>> \in Seq(Session) /\ Range(<<s>>) = {s} /\ Once(<<s>>, S)
  <2>1. <<s>> \in Seq(Session) /\ Len(<<s>>) = 1 /\ <<s>>[1] = s /\ DOMAIN <<s>> = 1..1
    OBVIOUS
  <2>2. Range(<<s>>) = {<<s>>[i] : i \in 1..1}
    BY <2>1, RangeEquality
  <2>3. \A i \in 1..1 : i = 1
    OBVIOUS
  <2> QED
    BY <2>1, <2>2, <2>3 DEF Once
<1>2. Append(q, s) = q \o <<s>>
  BY AppendIsConcat
<1>3. q \o <<s>> \in Seq(Session) /\ Range(q \o <<s>>) = Range(q) \cup Range(<<s>>)
  BY <1>1, ConcatProperties, RangeConcatenation
<1>4. Once(q \o <<s>>, S)
  BY <1>1, ConcatApart DEF Disjoint
<1> QED
  BY <1>1, <1>2, <1>3, <1>4

LEMMA EmptyApart == <<>> \in Seq(Session) /\ Range(<<>>) = {} /\ DOMAIN <<>> = {}
BY EmptySeq, LenProperties DEF Range

\* A smaller set of sessions.
LEMMA FewerApart ==
  ASSUME NEW S, NEW T, T \subseteq S
  PROVE  /\ \A q : Once(q, S) => Once(q, T)
         /\ \A p, q : Disjoint(p, q, S) => Disjoint(p, q, T)
         /\ \A files : Apart(files, S) => Apart(files, T)
BY DEF Once, Disjoint, Apart

LEMMA FileLines ==
  ASSUME SpillTypeOK, NEW n \in DOMAIN disk
  PROVE  disk[n].lines \in Seq(Session)
BY DEF SpillTypeOK, File

\* The file append() opens and the line it writes.
LEMMA WriteApart ==
  ASSUME SpillTypeOK, NEW S, Apart(disk, S), NEW s \in Session, s \in S => s \notin OnDisk
  PROVE  /\ Once(Opened[current].lines, S)
         /\ Once(AddLine(Opened[current], s).lines, S)
         /\ \A n \in DOMAIN disk \ {current} :
              /\ Disjoint(Opened[current].lines, disk[n].lines, S)
              /\ Disjoint(AddLine(Opened[current], s).lines, disk[n].lines, S)
         /\ Range(Opened[current].lines) \subseteq OnDisk
         /\ Range(AddLine(Opened[current], s).lines) \subseteq OnDisk \cup {s}
<1>1. Opened[current] \in File /\ Opened[current].lines \in Seq(Session)
  BY OpenedType DEF File
<1>2. /\ Range(AddLine(Opened[current], s).lines) \subseteq Range(Opened[current].lines) \cup {s}
      /\ \/ AddLine(Opened[current], s).lines = Opened[current].lines
         \/ AddLine(Opened[current], s).lines = Append(Opened[current].lines, s)
  BY <1>1, AddLineType
<1>3. CASE current \in DOMAIN disk
  <2>1. Opened[current] = disk[current]
    BY <1>3, OpenedType
  <2>2. Once(Opened[current].lines, S) /\ Range(Opened[current].lines) \subseteq OnDisk
    BY <1>3, <2>1 DEF Apart, OnDisk, SessionsIn
  <2>3. Once(AddLine(Opened[current], s).lines, S)
    <3>1. s \in S => s \notin Range(Opened[current].lines)
      BY <2>2
    <3>2. Once(Append(Opened[current].lines, s), S)
      BY <1>1, <2>2, <3>1, AppendApart
    <3> QED
      BY <1>2, <2>2, <3>2
  <2>4. \A n \in DOMAIN disk \ {current} : Disjoint(Opened[current].lines, disk[n].lines, S)
    BY <1>3, <2>1 DEF Apart
  <2>5. \A n \in DOMAIN disk : s \in S => s \notin Range(disk[n].lines)
    BY DEF OnDisk, SessionsIn
  <2>6. \A n \in DOMAIN disk \ {current} :
           Disjoint(AddLine(Opened[current], s).lines, disk[n].lines, S)
    BY <1>2, <2>4, <2>5 DEF Disjoint
  <2> QED
    BY <1>2, <2>2, <2>3, <2>4, <2>6
<1>4. CASE current \notin DOMAIN disk
  <2>1. Opened[current].lines = <<>> /\ Range(Opened[current].lines) = {}
    BY <1>4, OpenedType, EmptyApart DEF EmptyFile
  <2>2. Once(Opened[current].lines, S)
    BY <2>1, EmptyApart DEF Once
  <2>3. Once(AddLine(Opened[current], s).lines, S)
    <3>1. Once(Append(Opened[current].lines, s), S)
      BY <1>1, <2>1, <2>2, AppendApart
    <3> QED
      BY <1>2, <2>2, <3>1
  <2>4. \A n \in DOMAIN disk : s \in S => s \notin Range(disk[n].lines)
    BY DEF OnDisk, SessionsIn
  <2> QED
    BY <1>2, <2>1, <2>2, <2>3, <2>4 DEF Disjoint
<1> QED
  BY <1>3, <1>4

\* A session that was not on disk is on one line at most after it was spilled,
\* whether or not the append failed, and nothing else comes to the disk.
LEMMA SpillApart ==
  ASSUME TypeOK, NEW S, Apart(disk, S), NEW s \in Session, s \in S => s \notin OnDisk,
         SpillSession(s)
  PROVE  Apart(disk', S) /\ OnDisk' \subseteq OnDisk \cup {s}
<1>1. /\ Once(Opened[current].lines, S)
      /\ Once(AddLine(Opened[current], s).lines, S)
      /\ \A n \in DOMAIN disk \ {current} :
           /\ Disjoint(Opened[current].lines, disk[n].lines, S)
           /\ Disjoint(AddLine(Opened[current], s).lines, disk[n].lines, S)
      /\ Range(Opened[current].lines) \subseteq OnDisk
      /\ Range(AddLine(Opened[current], s).lines) \subseteq OnDisk \cup {s}
  BY WriteApart DEF TypeOK
<1>2. \A n \in DOMAIN disk' :
        \/ n \in DOMAIN disk /\ n # current /\ disk'[n].lines = disk[n].lines
        \/ n = current /\ disk'[n].lines \in {Opened[current].lines,
                                              AddLine(Opened[current], s).lines}
  <2>1. ASSUME NEW kept \in SUBSET Excess, NEW unread \in SUBSET Excess, AppendOk(s, kept, unread)
        PROVE  \A n \in DOMAIN disk' :
                 \/ n \in DOMAIN disk /\ n # current /\ disk'[n] = disk[n]
                 \/ n = current /\ disk'[n] = AddLine(Opened[current], s)
    BY <2>1, AppendOkFiles DEF TypeOK
  <2>2. ASSUME NEW fault \in AppendFaults, AppendFailed(s, fault)
        PROVE  \A n \in DOMAIN disk' :
                 \/ n \in DOMAIN disk /\ n # current /\ disk'[n] = disk[n]
                 \/ n = current /\ disk'[n].lines \in {Opened[current].lines,
                                                       AddLine(Opened[current], s).lines}
    BY <2>2, AppendFailedFiles DEF TypeOK
  <2> QED
    BY <2>1, <2>2 DEF SpillSession
<1>3. \A n \in DOMAIN disk' : Once(disk'[n].lines, S)
  BY <1>1, <1>2 DEF Apart
<1>4. ASSUME NEW m \in DOMAIN disk', NEW n \in DOMAIN disk', m # n
      PROVE  Disjoint(disk'[m].lines, disk'[n].lines, S)
  <2>1. CASE m # current /\ n # current
    BY <1>2, <1>4, <2>1 DEF Apart
  <2>2. CASE m = current \/ n = current
    BY <1>1, <1>2, <1>4, <2>2 DEF Disjoint
  <2> QED
    BY <2>1, <2>2
<1>5. ASSUME NEW n \in DOMAIN disk' PROVE Range(disk'[n].lines) \subseteq OnDisk \cup {s}
  <2>1. CASE n \in DOMAIN disk /\ disk'[n].lines = disk[n].lines
    BY <2>1 DEF OnDisk, SessionsIn
  <2>2. CASE n = current /\ disk'[n].lines \in {Opened[current].lines,
                                               AddLine(Opened[current], s).lines}
    BY <1>1, <2>2
  <2> QED
    BY <1>2, <2>1, <2>2
<1>6. OnDisk' \subseteq OnDisk \cup {s}
  BY <1>5 DEF OnDisk, SessionsIn
<1> QED
  BY <1>3, <1>4, <1>6 DEF Apart

\* What a drain reads is gone from the disk.
LEMMA DrainApart ==
  ASSUME SpillTypeOK, NEW S, Apart(disk, S), NEW n, DrainFile(n)
  PROVE  /\ Apart(disk', S)
         /\ Range(disk[n].lines) \cap OnDisk' \cap S = {}
<1>1. /\ n \in DOMAIN disk
      /\ DOMAIN disk' = DOMAIN disk \ {n}
      /\ \A k \in DOMAIN disk' : disk'[k] = disk[k]
  BY DrainFileFiles
<1>2. \A k \in DOMAIN disk' : Disjoint(disk[n].lines, disk'[k].lines, S)
  BY <1>1 DEF Apart
<1> QED
  BY <1>1, <1>2 DEF Apart, Disjoint, OnDisk, SessionsIn

LEMMA SpillFresh ==
  ASSUME TypeOK, NEW s \in Session, SpillSession(s)
  PROVE  \A t \in Session : fate'[t] = "fresh" => t # s /\ fate[t] = "fresh"
<1>1. ASSUME NEW kept \in SUBSET Excess, NEW unread \in SUBSET Excess,
             fate' = Appended(s, Excess \ kept, unread)
      PROVE  \A t \in Session : fate'[t] = "fresh" => t # s /\ fate[t] = "fresh"
  BY <1>1, AppendedHeld
<1>2. CASE fate' = [fate EXCEPT ![s] = "dropped"]
  BY <1>2 DEF TypeOK
<1> QED
  BY <1>1, <1>2 DEF SpillSession

\* Every session of S is in one place at most.
CopyInvOf(S) ==
    /\ Once(buffer, S) /\ Once(inFlight, S)
    /\ Disjoint(buffer, inFlight, S)
    /\ OnDisk \cap (Range(buffer) \cup Range(inFlight)) \cap S = {}
    /\ Apart(disk, S)

\* A session that is to complete is nowhere yet, and every other one that no
\* file that stayed has returned is in one place at most.
CopyInv ==
    /\ CopyInvOf(Solo)
    /\ \A s \in Session : fate[s] = "fresh" => s \notin Held

LEMMA DiskUnchanged ==
  ASSUME UNCHANGED disk
  PROVE  OnDisk' = OnDisk /\ \A S : Apart(disk, S) => Apart(disk', S)
BY DEF OnDisk, SessionsIn

\* flush() called with q: the batch stays in front of q, in one queue or two.
LEMMA FlushOrApart ==
  ASSUME TypeOK, NEW q \in Seq(Session), FlushOr(q), NEW S, Once(q, S), Once(inFlight, S),
         Disjoint(q, inFlight, S)
  PROVE  /\ Once(buffer', S) /\ Once(inFlight', S)
         /\ Disjoint(buffer', inFlight', S)
         /\ Range(buffer') \cup Range(inFlight') = Range(q) \cup Range(inFlight)
         /\ Pending' = inFlight \o q
<1>1. CASE phase = "idle" /\ q # <<>>
  <2>1. inFlight = <<>> /\ inFlight' = q /\ buffer' = <<>>
    BY <1>1 DEF FlushOr, Launch, TypeOK
  <2>2. q \o <<>> = q /\ <<>> \o q = q
    BY ConcatEmptySeq
  <2> QED
    BY <2>1, <2>2, EmptyApart DEF Once, Disjoint, Pending
<1>2. CASE ~(phase = "idle" /\ q # <<>>)
  BY <1>2 DEF FlushOr, Pending
<1> QED
  BY <1>1, <1>2

\* The queue that enqueue() makes of the buffer.
LEMMA Enqueued ==
  ASSUME TypeInv, CopyInv, NEW s \in Session, EnqueueBuffered(s)
  PROVE  LET q == Append(buffer, s)
             kept == SubSeq(q, Overflow(q) + 1, Len(q))
         IN  /\ q \in Seq(Session) /\ Once(q, Solo)
             /\ Range(q) = Range(buffer) \cup {s} /\ s \notin Held
             /\ kept \in Seq(Session) /\ Once(kept, Solo) /\ Range(kept) \subseteq Range(q)
             /\ Disjoint(kept, inFlight, Solo)
             /\ FlushOr(kept)
<1> DEFINE q == Append(buffer, s)
           kept == SubSeq(q, Overflow(q) + 1, Len(q))
<1>1. buffer \in Seq(Session) /\ Once(buffer, Solo) /\ s \notin Held
  BY DEF EnqueueBuffered, Completes, TypeInv, TypeOK, CopyInv, CopyInvOf
<1>2. s \notin Range(buffer) /\ s \notin Range(inFlight)
  BY <1>1 DEF Held
<1>3. q \in Seq(Session) /\ Once(q, Solo) /\ Range(q) = Range(buffer) \cup {s}
  BY <1>1, <1>2, AppendApart
<1>4. FlushOr(kept)
  BY DEF EnqueueBuffered
<1> HIDE DEF q
<1>5. kept \in Seq(Session) /\ Once(kept, Solo) /\ Range(kept) \subseteq Range(q)
  BY <1>3, OverflowLength, SplitType, SplitRange, SplitApart
<1>6. Disjoint(kept, inFlight, Solo)
  BY <1>2, <1>3, <1>5 DEF Disjoint, CopyInv, CopyInvOf
<1> QED
  BY <1>1, <1>3, <1>4, <1>5, <1>6 DEF q

LEMMA CopyEnqueue ==
  ASSUME TypeInv, CopyInv, NEW s \in Session, Enqueue(s)
  PROVE  /\ CopyInv' /\ Held' \subseteq Held \cup {s}
         /\ EnqueueLocal(s) => Held' = Held
<1>1. Quiet /\ fate[s] = "fresh" /\ s \notin Held /\ UNCHANGED twice
  BY DEF Enqueue, EnqueueLocal, EnqueueSpilled, EnqueueBuffered, Completes, CopyInv
<1>2. Solo' = Solo
  BY <1>1 DEF Solo
<1>3. CASE EnqueueLocal(s)
  <2>1. UNCHANGED <<disk, buffer, inFlight>>
    BY <1>3 DEF EnqueueLocal, spillVars
  <2>2. \A t \in Session : fate'[t] = "fresh" => fate[t] = "fresh"
    BY <1>3 DEF EnqueueLocal, TypeInv, TypeOK
  <2>3. OnDisk' = OnDisk /\ Held' = Held
    BY <2>1, DiskUnchanged DEF Held
  <2> QED
    BY <1>2, <2>1, <2>2, <2>3 DEF CopyInv, CopyInvOf
<1>4. CASE EnqueueSpilled(s)
  <2>1. SpillSession(s) /\ UNCHANGED <<buffer, inFlight>> /\ ~EnqueueLocal(s)
    BY <1>4 DEF EnqueueSpilled, EnqueueLocal
  <2>2. Apart(disk', Solo) /\ OnDisk' \subseteq OnDisk \cup {s}
    BY <1>1, <2>1, SpillApart DEF TypeInv, CopyInv, CopyInvOf, Held
  <2>3. \A t \in Session : fate'[t] = "fresh" => t # s /\ fate[t] = "fresh"
    BY <2>1, SpillFresh DEF TypeInv
  <2>4. Held' \subseteq Held \cup {s}
    BY <2>1, <2>2 DEF Held
  <2>5. CopyInvOf(Solo)'
    BY <1>1, <1>2, <2>1, <2>2 DEF CopyInv, CopyInvOf, Held
  <2> QED
    BY <2>1, <2>3, <2>4, <2>5 DEF CopyInv
<1>5. CASE EnqueueBuffered(s)
  <2> DEFINE q == Append(buffer, s)
             kept == SubSeq(q, Overflow(q) + 1, Len(q))
             dropped == SubSeq(q, 1, Overflow(q))
  <2>1. /\ Range(q) = Range(buffer) \cup {s}
        /\ kept \in Seq(Session) /\ Once(kept, Solo) /\ Range(kept) \subseteq Range(q)
        /\ Disjoint(kept, inFlight, Solo)
        /\ FlushOr(kept)
    BY <1>5, Enqueued
  <2>2. /\ UNCHANGED disk /\ ~EnqueueLocal(s)
        /\ fate' = [t \in Session |-> IF t \in Range(dropped) THEN "dropped"
                                      ELSE IF t = s THEN "held" ELSE fate[t]]
    BY <1>5 DEF EnqueueBuffered, EnqueueLocal, spillVars
  <2> HIDE DEF q, kept, dropped
  <2>3. \A t \in Session : fate'[t] = "fresh" => t # s /\ fate[t] = "fresh"
    BY <2>2
  <2>4. /\ Once(buffer', Solo) /\ Once(inFlight', Solo)
        /\ Disjoint(buffer', inFlight', Solo)
        /\ Range(buffer') \cup Range(inFlight') = Range(kept) \cup Range(inFlight)
    BY <2>1, FlushOrApart DEF TypeInv, CopyInv, CopyInvOf
  <2>5. OnDisk' = OnDisk /\ Apart(disk', Solo)
    BY <2>2, DiskUnchanged DEF CopyInv, CopyInvOf
  <2>6. Held' \subseteq Held \cup {s}
    BY <2>1, <2>4, <2>5 DEF Held
  <2>7. OnDisk' \cap (Range(buffer') \cup Range(inFlight')) \cap Solo = {}
    BY <1>1, <2>1, <2>4, <2>5 DEF CopyInv, CopyInvOf, Held
  <2>8. CopyInvOf(Solo)'
    BY <1>2, <2>4, <2>5, <2>7 DEF CopyInvOf
  <2> QED
    BY <2>2, <2>3, <2>6, <2>8 DEF CopyInv
<1> QED
  BY <1>3, <1>4, <1>5 DEF Enqueue

\* The batch leaves, and the buffer stays or is emptied with it.
LEMMA CopyEmptied ==
  ASSUME CopyInv, UNCHANGED <<disk, twice>>, inFlight' = <<>>,
         buffer' = buffer \/ buffer' = <<>>,
         \A t \in Session : fate'[t] = "fresh" => fate[t] = "fresh"
  PROVE  CopyInv' /\ Held' \subseteq Held
<1>1. OnDisk' = OnDisk /\ Apart(disk', Solo) /\ Solo' = Solo
  BY DiskUnchanged DEF CopyInv, CopyInvOf, Solo
<1>2. Once(buffer', Solo) /\ Once(inFlight', Solo)
  BY EmptyApart DEF CopyInv, CopyInvOf, Once
<1>3. Range(inFlight') = {} /\ Range(buffer') \subseteq Range(buffer)
  BY EmptyApart
<1>4. Held' \subseteq Held
  BY <1>1, <1>3 DEF Held
<1>5. CopyInvOf(Solo)'
  BY <1>1, <1>2, <1>3 DEF CopyInv, CopyInvOf, Disjoint
<1> QED
  BY <1>4, <1>5 DEF CopyInv

LEMMA CopyPostFail ==
  ASSUME TypeInv, CopyInv, PostFail
  PROVE  CopyInv' /\ Held' \subseteq Held
<1>1. PICK k \in 0..Len(inFlight) :
        FailUnheard(k) \/ FailStrict(k) \/ FailOpen(k) \/ FailRetry(k) \/ FailFull(k)
  BY DEF PostFail
<1>2. UNCHANGED <<disk, twice>>
  BY <1>1 DEF FailUnheard, FailStrict, FailOpen, FailRetry, FailFull, PostFailed, spillVars
<1>3. OnDisk' = OnDisk /\ Apart(disk', Solo) /\ Solo' = Solo
  BY <1>2, DiskUnchanged DEF CopyInv, CopyInvOf, Solo
<1>4. CASE FailUnheard(k) \/ FailStrict(k)
  <2>1. inFlight' = <<>> /\ UNCHANGED buffer
    BY <1>4 DEF FailUnheard, FailStrict, EndFlush
  <2>2. \A t \in Session : fate'[t] = "fresh" => fate[t] = "fresh"
    BY <1>4 DEF FailUnheard, FailStrict, Mark
  <2> QED
    BY <1>2, <2>1, <2>2, CopyEmptied
<1>5. CASE FailOpen(k) \/ FailFull(k)
  <2>1. UNCHANGED <<buffer, inFlight, fate>>
    BY <1>5 DEF FailOpen, FailFull, BeginSpill
  <2> QED
    BY <1>3, <2>1 DEF CopyInv, CopyInvOf, Held
<1>6. CASE FailRetry(k)
  <2> DEFINE kept == IF Room < Len(inFlight) THEN Room ELSE Len(inFlight)
             back == SubSeq(inFlight, 1, kept)
             dropped == SubSeq(inFlight, kept + 1, Len(inFlight))
  <2>1. buffer' = back \o buffer /\ fate' = Mark(Range(dropped), "dropped") /\ inFlight' = <<>>
    BY <1>6 DEF FailRetry, Requeue, EndFlush
  <2>2. kept \in 0..Len(inFlight)
    BY <1>6, KeptLength DEF FailRetry, TypeInv
  <2> HIDE DEF kept
  <2>3. /\ back \in Seq(Session) /\ Once(back, Solo)
        /\ Range(inFlight) = Range(back) \cup Range(dropped)
    BY <2>2, SplitType, SplitRange, SplitApart DEF TypeInv, TypeOK, CopyInv, CopyInvOf
  <2> HIDE DEF back, dropped
  <2>4. Range(buffer') = Range(back) \cup Range(buffer)
    BY <2>1, <2>3, RangeConcatenation DEF TypeInv, TypeOK
  <2>5. Disjoint(back, buffer, Solo)
    BY <2>3 DEF Disjoint, CopyInv, CopyInvOf
  <2>6. Once(back \o buffer, Solo)
    BY <2>3, <2>5, ConcatApart DEF TypeInv, TypeOK, CopyInv, CopyInvOf
  <2>7. \A t \in Session : fate'[t] = "fresh" => fate[t] = "fresh"
    BY <2>1 DEF Mark
  <2>8. Held' \subseteq Held
    BY <1>3, <2>1, <2>3, <2>4, EmptyApart DEF Held
  <2>9. CopyInvOf(Solo)'
    BY <1>3, <2>1, <2>3, <2>4, <2>6, EmptyApart DEF CopyInv, CopyInvOf, Disjoint, Once
  <2> QED
    BY <2>7, <2>8, <2>9 DEF CopyInv
<1> QED
  BY <1>1, <1>4, <1>5, <1>6

LEMMA CopySpillBatch ==
  ASSUME TypeInv, CopyInv, SpillBatch
  PROVE  CopyInv' /\ Held' \subseteq Held
<1>1. inFlight # <<>> /\ inFlight \in Seq(Session) /\ Once(inFlight, Solo) /\ Solo' = Solo
  BY DEF SpillBatch, TypeInv, TypeOK, CopyInv, CopyInvOf, Solo
<1>2. /\ Head(inFlight) \in Session /\ Range(inFlight) = {Head(inFlight)} \cup Range(Tail(inFlight))
      /\ Once(Tail(inFlight), Solo)
      /\ Head(inFlight) \in Solo => Head(inFlight) \notin Range(Tail(inFlight))
  BY <1>1, HeadTailProperties, HeadTailRange, TailApart
<1>3. inFlight' = Tail(inFlight) /\ UNCHANGED buffer /\ SpillSession(Head(inFlight))
  BY DEF SpillBatch
<1>4. Head(inFlight) \in Solo => Head(inFlight) \notin OnDisk
  BY <1>2 DEF CopyInv, CopyInvOf
<1>5. Apart(disk', Solo) /\ OnDisk' \subseteq OnDisk \cup {Head(inFlight)}
  BY <1>2, <1>3, <1>4, SpillApart DEF TypeInv, CopyInv, CopyInvOf
<1>6. \A t \in Session : fate'[t] = "fresh" => fate[t] = "fresh"
  BY <1>2, <1>3, SpillFresh DEF TypeInv
<1>7. Held' \subseteq Held
  BY <1>2, <1>3, <1>5 DEF Held
<1>8. CopyInvOf(Solo)'
  BY <1>1, <1>2, <1>3, <1>5 DEF CopyInv, CopyInvOf, Disjoint
<1> QED
  BY <1>6, <1>7, <1>8 DEF CopyInv

LEMMA CopyDrainSpill ==
  ASSUME TypeInv, CopyInv, DrainSpill
  PROVE  CopyInv' /\ Held' \subseteq Held
<1>1. UNCHANGED inFlight
  BY DEF DrainSpill
<1>2. PICK n \in draining :
        /\ n \in DOMAIN disk
        /\ disk[n].lines \in Seq(Session)
        /\ \/ DrainFile(n) /\ Returned(n) /\ UNCHANGED twice
           \/ Returned(n) /\ UNCHANGED disk /\ twice' = twice \cup Range(disk[n].lines)
           \/ UNCHANGED <<disk, buffer, fate, twice>>
  BY DrainCases
<1> DEFINE lines == disk[n].lines
<1>3. /\ Solo' \subseteq Solo
      /\ UNCHANGED <<disk, buffer, fate, twice>> => Solo' = Solo
  BY <1>2 DEF Solo
<1>4. /\ Once(buffer, Solo') /\ Once(inFlight, Solo') /\ Disjoint(buffer, inFlight, Solo')
      /\ OnDisk \cap (Range(buffer) \cup Range(inFlight)) \cap Solo' = {}
      /\ Apart(disk, Solo')
  BY <1>3, FewerApart DEF CopyInv, CopyInvOf
<1>5. Range(lines) \subseteq OnDisk /\ Once(lines, Solo')
  BY <1>2, <1>4 DEF OnDisk, SessionsIn, Apart
<1>6. CASE /\ Returned(n)
           /\ \/ DrainFile(n)
              \/ UNCHANGED disk /\ twice' = twice \cup Range(lines)
  <2>1. /\ Range(buffer') = Range(buffer) \cup Range(lines)
        /\ \A t \in Session : fate'[t] = IF t \in Range(lines) THEN "held" ELSE fate[t]
        /\ buffer' = buffer \o lines
    BY <1>2, <1>6, ReturnedRange DEF Returned, Drained
  <2>2. Disjoint(buffer, lines, Solo') /\ buffer \in Seq(Session)
    BY <1>4, <1>5 DEF Disjoint, TypeInv, TypeOK
  <2>3. Once(buffer', Solo')
    BY <1>2, <1>4, <1>5, <2>1, <2>2, ConcatApart
  <2>4. /\ OnDisk' \subseteq OnDisk /\ Apart(disk', Solo')
        /\ Range(lines) \cap OnDisk' \cap Solo' = {}
    <3>1. CASE DrainFile(n)
      BY <1>4, <3>1, DrainKeeps, DrainApart DEF TypeInv, TypeOK
    <3>2. CASE UNCHANGED disk /\ twice' = twice \cup Range(lines)
      BY <1>4, <3>2, DiskUnchanged DEF Solo
    <3> QED
      BY <1>6, <3>1, <3>2
  <2>5. Held' \subseteq Held
    BY <1>1, <1>5, <2>1, <2>4 DEF Held
  <2>6. CopyInvOf(Solo)'
    BY <1>1, <1>4, <1>5, <2>1, <2>3, <2>4 DEF CopyInvOf, Disjoint
  <2>7. \A t \in Session : fate'[t] = "fresh" => fate[t] = "fresh"
    BY <2>1
  <2> QED
    BY <2>5, <2>6, <2>7 DEF CopyInv
<1>7. CASE UNCHANGED <<disk, buffer, fate, twice>>
  <2>1. OnDisk' = OnDisk /\ Apart(disk', Solo) /\ Solo' = Solo /\ Held' = Held
    BY <1>1, <1>7, DiskUnchanged DEF CopyInv, CopyInvOf, Solo, Held
  <2> QED
    BY <1>1, <1>7, <2>1 DEF CopyInv, CopyInvOf
<1> QED
  BY <1>2, <1>6, <1>7

LEMMA CopyOther ==
  ASSUME TypeInv, CopyInv,
         \/ EnableLocalStore \/ FlushTimer \/ Stop \/ PostOk \/ PostFail
         \/ SpillBatch \/ DrainSpill \/ Restart \/ UNCHANGED vars
  PROVE  CopyInv' /\ Held' \subseteq Held
<1>1. CASE EnableLocalStore \/ UNCHANGED vars
  <2>1. UNCHANGED <<disk, buffer, inFlight, fate, twice>>
    BY <1>1 DEF EnableLocalStore, vars, clientVars, spillVars
  <2>2. OnDisk' = OnDisk /\ Apart(disk', Solo) /\ Solo' = Solo /\ Held' = Held
    BY <2>1, DiskUnchanged DEF CopyInv, CopyInvOf, Solo, Held
  <2> QED
    BY <2>1, <2>2 DEF CopyInv, CopyInvOf
<1>2. CASE FlushTimer \/ Stop
  <2>1. FlushOr(buffer) /\ UNCHANGED <<disk, fate, twice>>
    BY <1>2 DEF FlushTimer, Stop, spillVars
  <2>2. /\ Once(buffer', Solo) /\ Once(inFlight', Solo)
        /\ Disjoint(buffer', inFlight', Solo)
        /\ Range(buffer') \cup Range(inFlight') = Range(buffer) \cup Range(inFlight)
    BY <2>1, FlushOrApart DEF TypeInv, TypeOK, CopyInv, CopyInvOf
  <2>3. OnDisk' = OnDisk /\ Apart(disk', Solo) /\ Solo' = Solo /\ Held' = Held
    BY <2>1, <2>2, DiskUnchanged DEF Held, CopyInv, CopyInvOf, Solo
  <2> QED
    BY <2>1, <2>2, <2>3 DEF CopyInv, CopyInvOf
<1>3. CASE PostOk
  <2>1. fate' = Mark(Range(inFlight), "sent") /\ UNCHANGED <<buffer, disk, twice>> /\ inFlight' = <<>>
    BY <1>3 DEF PostOk, EndFlush
  <2>2. \A t \in Session : fate'[t] = "fresh" => fate[t] = "fresh"
    BY <2>1 DEF Mark
  <2> QED
    BY <2>1, <2>2, CopyEmptied
<1>4. CASE Restart
  <2>1. /\ fate' = Mark(Range(buffer) \cup Range(inFlight), "crashed")
        /\ UNCHANGED <<disk, twice>> /\ buffer' = <<>> /\ inFlight' = <<>>
    BY <1>4 DEF Restart, NewSpillBuffer
  <2>2. \A t \in Session : fate'[t] = "fresh" => fate[t] = "fresh"
    BY <2>1 DEF Mark
  <2> QED
    BY <2>1, <2>2, CopyEmptied
<1> QED
  BY <1>1, <1>2, <1>3, <1>4, CopyPostFail, CopySpillBatch, CopyDrainSpill

LEMMA CopyInvInit == Init => CopyInv
BY EmptyApart DEF Init, SpillInit, CopyInv, CopyInvOf, Once, Disjoint, Held, OnDisk, SessionsIn, Apart

LEMMA CopyInvStep == TypeInv /\ CopyInv /\ [Next]_vars => CopyInv'
<1> SUFFICES ASSUME TypeInv, CopyInv, [Next]_vars PROVE CopyInv'
  OBVIOUS
<1>1. ASSUME NEW s \in Session, Enqueue(s) PROVE CopyInv'
  BY <1>1, CopyEnqueue
<1> QED
  BY <1>1, CopyOther DEF Next

LEMMA OccursOnce ==
  ASSUME NEW q \in Seq(Session), NEW S, Once(q, S), NEW s \in S
  PROVE  Occurrences(q, s) = IF s \in Range(q) THEN 1 ELSE 0
<1>1. CASE s \in Range(q)
  <2>1. PICK i \in DOMAIN q : q[i] = s
    BY <1>1 DEF Range
  <2>2. {j \in DOMAIN q : q[j] = s} = {i}
    BY <2>1 DEF Once
  <2> QED
    BY <1>1, <2>2, FS_Singleton DEF Occurrences
<1>2. CASE s \notin Range(q)
  <2>1. {j \in DOMAIN q : q[j] = s} = {}
    BY <1>2 DEF Range
  <2> QED
    BY <1>2, <2>1, FS_EmptySet DEF Occurrences
<1> QED
  BY <1>1, <1>2

LEMMA CopyInvCounts == TypeInv /\ CopyInv => AtMostOneCopy
<1> SUFFICES ASSUME TypeInv, CopyInv, NEW s \in Session \ twice
             PROVE  LET files == {n \in DOMAIN disk : s \in Range(disk[n].lines)}
                    IN  /\ Occurrences(buffer, s) + Occurrences(inFlight, s) + Cardinality(files) <= 1
                        /\ \A n \in files : Occurrences(disk[n].lines, s) = 1
  BY DEF AtMostOneCopy
<1> DEFINE files == {n \in DOMAIN disk : s \in Range(disk[n].lines)}
<1>1. s \in Solo
  BY DEF Solo
<1>2. /\ Occurrences(buffer, s) = IF s \in Range(buffer) THEN 1 ELSE 0
      /\ Occurrences(inFlight, s) = IF s \in Range(inFlight) THEN 1 ELSE 0
  BY <1>1, OccursOnce DEF TypeInv, TypeOK, CopyInv, CopyInvOf
<1>3. Cardinality(files) = IF s \in OnDisk THEN 1 ELSE 0
  <2>1. CASE s \in OnDisk
    <3>1. PICK n \in DOMAIN disk : s \in Range(disk[n].lines)
      BY <2>1 DEF OnDisk, SessionsIn
    <3>2. files = {n}
      BY <1>1, <3>1 DEF CopyInv, CopyInvOf, Apart, Disjoint
    <3> QED
      BY <2>1, <3>2, FS_Singleton
  <2>2. CASE s \notin OnDisk
    <3>1. files = {}
      BY <2>2 DEF OnDisk, SessionsIn
    <3> QED
      BY <2>2, <3>1, FS_EmptySet
  <2> QED
    BY <2>1, <2>2
<1>4. /\ ~(s \in Range(buffer) /\ s \in Range(inFlight))
      /\ s \in OnDisk => s \notin Range(buffer) /\ s \notin Range(inFlight)
  BY <1>1 DEF CopyInv, CopyInvOf, Disjoint
<1>5. ASSUME NEW n \in files PROVE Occurrences(disk[n].lines, s) = 1
  <2>1. disk[n].lines \in Seq(Session) /\ Once(disk[n].lines, Solo)
    BY FileLines DEF TypeInv, TypeOK, CopyInv, CopyInvOf, Apart
  <2> QED
    BY <1>1, <2>1, OccursOnce
<1> HIDE DEF files
<1>6. Occurrences(buffer, s) + Occurrences(inFlight, s) + Cardinality(files) <= 1
  BY <1>2, <1>3, <1>4
<1> QED
  BY <1>5, <1>6 DEF files

\* A session is in one place at most, and there once, however often its batch is
\* retried, spilled and drained, and whatever becomes of the process, unless a
\* file it was drained from could not be unlinked.
THEOREM NothingCopied == Spec => []AtMostOneCopy
BY CopyInvInit, CopyInvStep, CopyInvCounts, TypeInvInit, TypeInvStep, PTL DEF Spec

(***************************************************************************)

Follows(q, r, S) ==
    \A s, t \in S : Before(q, s, t) /\ {s, t} \subseteq Range(r) => Before(r, s, t)

LEMMA BeforeConcat ==
  ASSUME NEW p \in Seq(Session), NEW q \in Seq(Session), NEW s, NEW t
  PROVE  Before(p \o q, s, t) <=> \/ Before(p, s, t)
                                  \/ Before(q, s, t)
                                  \/ s \in Range(p) /\ t \in Range(q)
<1> DEFINE r == p \o q
<1>1. /\ r \in Seq(Session) /\ Len(r) = Len(p) + Len(q)
      /\ \A i \in 1..(Len(p) + Len(q)) : r[i] = IF i <= Len(p) THEN p[i] ELSE q[i - Len(p)]
  BY ConcatProperties
<1>2. /\ Len(p) \in Nat /\ Len(q) \in Nat
      /\ DOMAIN p = 1..Len(p) /\ DOMAIN q = 1..Len(q)
  BY QueueLength
<1> HIDE DEF r
<1>3. DOMAIN r = 1..(Len(p) + Len(q))
  BY <1>1, LenProperties
<1>4. \A i \in 1..(Len(p) + Len(q)) :
         \/ i \in 1..Len(p) /\ r[i] = p[i]
         \/ i - Len(p) \in 1..Len(q) /\ r[i] = q[i - Len(p)] /\ i > Len(p)
  BY <1>1, <1>2
<1>5. \A i \in 1..Len(p) : i \in 1..(Len(p) + Len(q)) /\ r[i] = p[i]
  BY <1>1, <1>2
<1>6. \A i \in 1..Len(q) : i + Len(p) \in 1..(Len(p) + Len(q)) /\ r[i + Len(p)] = q[i]
  <2> SUFFICES ASSUME NEW i \in 1..Len(q)
               PROVE  i + Len(p) \in 1..(Len(p) + Len(q)) /\ r[i + Len(p)] = q[i]
    OBVIOUS
  <2>1. i + Len(p) \in 1..(Len(p) + Len(q)) /\ ~(i + Len(p) <= Len(p)) /\ (i + Len(p)) - Len(p) = i
    BY <1>2
  <2> QED
    BY <1>1, <2>1
<1>7. ASSUME Before(r, s, t)
      PROVE  \/ Before(p, s, t)
             \/ Before(q, s, t)
             \/ s \in Range(p) /\ t \in Range(q)
  <2>1. PICK i \in 1..(Len(p) + Len(q)), j \in 1..(Len(p) + Len(q)) :
           i < j /\ r[i] = s /\ r[j] = t
    BY <1>3, <1>7 DEF Before
  <2>2. CASE i \in 1..Len(p) /\ r[i] = p[i] /\ j \in 1..Len(p) /\ r[j] = p[j]
    BY <1>2, <2>1, <2>2 DEF Before
  <2>3. CASE i \in 1..Len(p) /\ r[i] = p[i] /\ j - Len(p) \in 1..Len(q) /\ r[j] = q[j - Len(p)]
    BY <1>2, <2>1, <2>3 DEF Range
  <2>4. CASE /\ i - Len(p) \in 1..Len(q) /\ r[i] = q[i - Len(p)] /\ i > Len(p)
             /\ j - Len(p) \in 1..Len(q) /\ r[j] = q[j - Len(p)]
    <3>1. i - Len(p) < j - Len(p)
      BY <1>2, <2>1
    <3> QED
      BY <1>2, <2>1, <2>4, <3>1 DEF Before
  <2>5. CASE i > Len(p) /\ j \in 1..Len(p)
    BY <1>2, <2>1, <2>5
  <2> QED
    BY <1>4, <2>1, <2>2, <2>3, <2>4, <2>5
<1>8. ASSUME Before(p, s, t) PROVE Before(r, s, t)
  <2>1. PICK i \in 1..Len(p), j \in 1..Len(p) : i < j /\ p[i] = s /\ p[j] = t
    BY <1>2, <1>8 DEF Before
  <2> QED
    BY <1>3, <1>5, <2>1 DEF Before
<1>9. ASSUME Before(q, s, t) PROVE Before(r, s, t)
  <2>1. PICK i \in 1..Len(q), j \in 1..Len(q) : i < j /\ q[i] = s /\ q[j] = t
    BY <1>2, <1>9 DEF Before
  <2>2. i + Len(p) < j + Len(p)
    BY <1>2, <2>1
  <2> QED
    BY <1>3, <1>6, <2>1, <2>2 DEF Before
<1>10. ASSUME s \in Range(p), t \in Range(q) PROVE Before(r, s, t)
  <2>1. PICK i \in 1..Len(p), j \in 1..Len(q) : p[i] = s /\ q[j] = t
    BY <1>2, <1>10 DEF Range
  <2>2. i < j + Len(p)
    BY <1>2
  <2> QED
    BY <1>3, <1>5, <1>6, <2>1, <2>2 DEF Before
<1> QED
  BY <1>7, <1>8, <1>9, <1>10 DEF r

LEMMA BeforeRange ==
  ASSUME NEW q, NEW s, NEW t, Before(q, s, t)
  PROVE  s \in Range(q) /\ t \in Range(q)
BY DEF Before, Range

LEMMA FollowsConcat ==
  ASSUME NEW p \in Seq(Session), NEW q \in Seq(Session),
         NEW p2 \in Seq(Session), NEW q2 \in Seq(Session),
         NEW S, Follows(p, p2, S), Follows(q, q2, S),
         Disjoint(p, q2, S), Disjoint(q, p2, S)
  PROVE  Follows(p \o q, p2 \o q2, S)
<1> SUFFICES ASSUME NEW s \in S, NEW t \in S, Before(p \o q, s, t),
                    {s, t} \subseteq Range(p2 \o q2)
             PROVE  Before(p2 \o q2, s, t)
  BY DEF Follows
<1>1. {s, t} \subseteq Range(p2) \cup Range(q2)
  BY RangeConcatenation
<1>2. CASE Before(p, s, t)
  <2>1. {s, t} \subseteq Range(p2)
    BY <1>1, <1>2, BeforeRange DEF Disjoint
  <2> QED
    BY <1>2, <2>1, BeforeConcat DEF Follows
<1>3. CASE Before(q, s, t)
  <2>1. {s, t} \subseteq Range(q2)
    BY <1>1, <1>3, BeforeRange DEF Disjoint
  <2> QED
    BY <1>3, <2>1, BeforeConcat DEF Follows
<1>4. CASE s \in Range(p) /\ t \in Range(q)
  <2>1. s \in Range(p2) /\ t \in Range(q2)
    BY <1>1, <1>4 DEF Disjoint
  <2> QED
    BY <2>1, BeforeConcat
<1> QED
  BY <1>2, <1>3, <1>4, BeforeConcat

\* The first n elements of a queue without repetition, and the others.
LEMMA FollowsSplit ==
  ASSUME NEW q \in Seq(Session), NEW n \in 0..Len(q), NEW S, Once(q, S)
  PROVE  Follows(q, SubSeq(q, 1, n), S) /\ Follows(q, SubSeq(q, n + 1, Len(q)), S)
<1> DEFINE front == SubSeq(q, 1, n)
           back == SubSeq(q, n + 1, Len(q))
<1>1. /\ front \in Seq(Session) /\ back \in Seq(Session)
      /\ Len(front) = n /\ Len(back) = Len(q) - n
      /\ \A i \in 1..n : front[i] = q[i]
      /\ \A i \in 1..(Len(q) - n) : back[i] = q[n + i]
  BY SplitType
<1>2. Len(q) \in Nat /\ n \in Nat /\ n <= Len(q) /\ DOMAIN q = 1..Len(q)
  BY QueueLength
<1> HIDE DEF front, back
<1>3. DOMAIN front = 1..n /\ DOMAIN back = 1..(Len(q) - n)
  BY <1>1, LenProperties
<1>4. \A i, j \in 1..Len(q) : q[i] = q[j] /\ q[i] \in S => i = j
  BY <1>2 DEF Once
<1>5. ASSUME NEW s \in S, NEW t \in S, Before(q, s, t), {s, t} \subseteq Range(front)
      PROVE  Before(front, s, t)
  <2>1. PICK i \in 1..Len(q), j \in 1..Len(q) : i < j /\ q[i] = s /\ q[j] = t
    BY <1>2, <1>5 DEF Before
  <2>2. PICK k \in 1..n, l \in 1..n : front[k] = s /\ front[l] = t
    BY <1>3, <1>5 DEF Range
  <2>3. k \in 1..Len(q) /\ l \in 1..Len(q) /\ q[k] = s /\ q[l] = t
    BY <1>1, <1>2, <2>2
  <2>4. k = i /\ l = j
    BY <1>4, <2>1, <2>3
  <2> QED
    BY <1>3, <2>1, <2>2, <2>4 DEF Before
<1>6. ASSUME NEW s \in S, NEW t \in S, Before(q, s, t), {s, t} \subseteq Range(back)
      PROVE  Before(back, s, t)
  <2>1. PICK i \in 1..Len(q), j \in 1..Len(q) : i < j /\ q[i] = s /\ q[j] = t
    BY <1>2, <1>6 DEF Before
  <2>2. PICK k \in 1..(Len(q) - n), l \in 1..(Len(q) - n) : back[k] = s /\ back[l] = t
    BY <1>3, <1>6 DEF Range
  <2>3. n + k \in 1..Len(q) /\ n + l \in 1..Len(q) /\ q[n + k] = s /\ q[n + l] = t
    BY <1>1, <1>2, <2>2
  <2>4. n + k = i /\ n + l = j
    BY <1>4, <2>1, <2>3
  <2>5. k < l
    BY <1>2, <2>1, <2>4
  <2> QED
    BY <1>3, <2>2, <2>5 DEF Before
<1> QED
  BY <1>5, <1>6 DEF Follows, front, back

LEMMA FollowsSelf == \A q, S : Follows(q, q, S) /\ Follows(q, <<>>, S)
BY EmptyApart DEF Follows

LEMMA FollowsMore ==
  ASSUME NEW p \in Seq(Session), NEW q \in Seq(Session)
  PROVE  \A S : Follows(p, p \o q, S)
BY BeforeConcat DEF Follows

LEMMA FollowsTail ==
  ASSUME NEW q \in Seq(Session), q # <<>>, NEW S, Once(q, S)
  PROVE  Follows(q, Tail(q), S)
<1>1. Tail(q) = SubSeq(q, 2, Len(q))
  BY TailIsSubSeq
<1>2. 1 \in 0..Len(q)
  BY QueueLength
<1>3. Follows(q, SubSeq(q, 1 + 1, Len(q)), S) /\ 1 + 1 = 2
  BY <1>2, FollowsSplit
<1> QED
  BY <1>1, <1>3

\* What waits to be posted after a session has completed.
LEMMA OrderEnqueue ==
  ASSUME TypeInv, CopyInv, NEW s \in Session, EnqueueBuffered(s)
  PROVE  Follows(Pending, Pending', Solo)
<1> DEFINE q == Append(buffer, s)
           kept == SubSeq(q, Overflow(q) + 1, Len(q))
<1>1. /\ q \in Seq(Session) /\ Once(q, Solo)
      /\ Range(q) = Range(buffer) \cup {s} /\ s \notin Held
      /\ kept \in Seq(Session) /\ Once(kept, Solo) /\ Range(kept) \subseteq Range(q)
      /\ Disjoint(kept, inFlight, Solo)
      /\ FlushOr(kept)
  BY Enqueued
<1>2. buffer \in Seq(Session) /\ inFlight \in Seq(Session)
  BY DEF TypeInv, TypeOK
<1>3. Disjoint(buffer, inFlight, Solo) /\ Once(inFlight, Solo)
  BY DEF CopyInv, CopyInvOf
<1>4. Disjoint(inFlight, kept, Solo)
  BY <1>1 DEF Disjoint
<1>5. Follows(buffer, kept, Solo)
  <2>1. q = buffer \o <<s>>
    BY <1>2, AppendIsConcat
  <2>2. <<s>> \in Seq(Session)
    OBVIOUS
  <2>3. \A t, u : Before(buffer, t, u) => Before(q, t, u)
    BY <1>2, <2>1, <2>2, BeforeConcat
  <2>4. Follows(q, kept, Solo)
    BY <1>1, OverflowLength, FollowsSplit
  <2> QED
    BY <2>3, <2>4 DEF Follows
<1>6. Pending' = inFlight \o kept
  BY <1>1, <1>3, <1>4, FlushOrApart DEF TypeInv
<1>7. Follows(inFlight \o buffer, inFlight \o kept, Solo)
  BY <1>1, <1>2, <1>3, <1>4, <1>5, FollowsSelf, FollowsConcat
<1> QED
  BY <1>6, <1>7 DEF Pending

LEMMA OrderPostFail ==
  ASSUME TypeInv, CopyInv, PostFail
  PROVE  Follows(Pending, Pending', Solo)
<1>1. PICK k \in 0..Len(inFlight) :
        FailUnheard(k) \/ FailStrict(k) \/ FailOpen(k) \/ FailRetry(k) \/ FailFull(k)
  BY DEF PostFail
<1>2. /\ buffer \in Seq(Session) /\ inFlight \in Seq(Session) /\ Once(inFlight, Solo)
      /\ Disjoint(buffer, inFlight, Solo)
  BY DEF TypeInv, TypeOK, CopyInv, CopyInvOf
<1>3. CASE FailUnheard(k) \/ FailStrict(k)
  <2>1. inFlight' = <<>> /\ UNCHANGED buffer
    BY <1>3 DEF FailUnheard, FailStrict, EndFlush
  <2>2. Follows(inFlight \o buffer, <<>> \o buffer, Solo)
    BY <1>2, EmptyApart, FollowsSelf, FollowsConcat DEF Disjoint
  <2> QED
    BY <2>1, <2>2 DEF Pending
<1>4. CASE FailOpen(k) \/ FailFull(k)
  <2>1. UNCHANGED <<buffer, inFlight>>
    BY <1>4 DEF FailOpen, FailFull, BeginSpill
  <2> QED
    BY <2>1, FollowsSelf DEF Pending
<1>5. CASE FailRetry(k)
  <2> DEFINE kept == IF Room < Len(inFlight) THEN Room ELSE Len(inFlight)
             back == SubSeq(inFlight, 1, kept)
  <2>1. buffer' = back \o buffer /\ inFlight' = <<>>
    BY <1>5 DEF FailRetry, Requeue, EndFlush
  <2>2. kept \in 0..Len(inFlight)
    BY <1>5, KeptLength DEF FailRetry, TypeInv
  <2> HIDE DEF kept
  <2>3. back \in Seq(Session) /\ Range(back) \subseteq Range(inFlight) /\ Follows(inFlight, back, Solo)
    BY <1>2, <2>2, SplitType, SplitRange, FollowsSplit
  <2> HIDE DEF back
  <2>4. Follows(inFlight \o buffer, back \o buffer, Solo)
    BY <1>2, <2>3, FollowsSelf, FollowsConcat DEF Disjoint
  <2>5. Pending' = back \o buffer
    BY <1>2, <2>1, <2>3, ConcatProperties, ConcatEmptySeq DEF Pending
  <2> QED
    BY <2>4, <2>5 DEF Pending
<1> QED
  BY <1>1, <1>3, <1>4, <1>5

LEMMA OrderDrainSpill ==
  ASSUME TypeInv, DrainSpill
  PROVE  \A S : Follows(Pending, Pending', S)
<1>1. PICK n \in draining :
        /\ disk[n].lines \in Seq(Session)
        /\ Returned(n) \/ UNCHANGED buffer
  BY DrainCases
<1>2. UNCHANGED inFlight /\ buffer \in Seq(Session) /\ inFlight \in Seq(Session)
  BY DEF DrainSpill, TypeInv, TypeOK
<1>3. CASE Returned(n)
  <2>1. PICK lines \in Seq(Session) : buffer' = buffer \o lines
    BY <1>1, <1>3 DEF Returned, Drained
  <2>2. Pending' = Pending \o lines /\ Pending \in Seq(Session)
    BY <1>2, <2>1, ConcatAssociative, ConcatProperties DEF Pending
  <2> QED
    BY <2>2, FollowsMore
<1>4. CASE UNCHANGED buffer
  BY <1>2, <1>4, FollowsSelf DEF Pending
<1> QED
  BY <1>1, <1>3, <1>4

LEMMA OrderStep == TypeInv /\ CopyInv /\ [Next]_vars => Follows(Pending, Pending', Solo)
<1> SUFFICES ASSUME TypeInv, CopyInv, [Next]_vars PROVE Follows(Pending, Pending', Solo)
  OBVIOUS
<1>1. /\ buffer \in Seq(Session) /\ inFlight \in Seq(Session)
      /\ Once(buffer, Solo) /\ Once(inFlight, Solo)
      /\ Disjoint(buffer, inFlight, Solo)
  BY DEF TypeInv, TypeOK, CopyInv, CopyInvOf
<1>2. ASSUME NEW s \in Session, EnqueueLocal(s) \/ EnqueueSpilled(s)
      PROVE  Follows(Pending, Pending', Solo)
  BY <1>2, FollowsSelf DEF EnqueueLocal, EnqueueSpilled, Pending
<1>3. ASSUME NEW s \in Session, Enqueue(s) PROVE Follows(Pending, Pending', Solo)
  BY <1>2, <1>3, OrderEnqueue DEF Enqueue
<1>4. CASE EnableLocalStore \/ UNCHANGED vars
  BY <1>4, FollowsSelf DEF EnableLocalStore, vars, clientVars, Pending
<1>5. CASE FlushTimer \/ Stop
  <2>1. FlushOr(buffer)
    BY <1>5 DEF FlushTimer, Stop
  <2> QED
    BY <1>1, <2>1, FlushOrApart, FollowsSelf DEF TypeInv, Pending
<1>6. CASE PostOk
  <2>1. inFlight' = <<>> /\ UNCHANGED buffer
    BY <1>6 DEF PostOk, EndFlush
  <2>2. Follows(inFlight \o buffer, <<>> \o buffer, Solo)
    BY <1>1, EmptyApart, FollowsSelf, FollowsConcat DEF Disjoint
  <2> QED
    BY <2>1, <2>2 DEF Pending
<1>7. CASE SpillBatch
  <2>1. inFlight' = Tail(inFlight) /\ UNCHANGED buffer /\ inFlight # <<>>
    BY <1>7 DEF SpillBatch, TypeInv, TypeOK
  <2>2. Tail(inFlight) \in Seq(Session) /\ Range(Tail(inFlight)) \subseteq Range(inFlight)
    BY <1>1, <2>1, HeadTailProperties, HeadTailRange
  <2>3. Follows(inFlight \o buffer, Tail(inFlight) \o buffer, Solo)
    BY <1>1, <2>1, <2>2, FollowsTail, FollowsSelf, FollowsConcat DEF Disjoint
  <2> QED
    BY <2>1, <2>3 DEF Pending
<1>8. CASE Restart
  <2>1. inFlight' = <<>> /\ buffer' = <<>>
    BY <1>8 DEF Restart
  <2>2. Pending' = <<>>
    BY <2>1, EmptyApart, ConcatEmptySeq DEF Pending
  <2> QED
    BY <2>2, FollowsSelf
<1> QED
  BY <1>3, <1>4, <1>5, <1>6, <1>7, <1>8, OrderPostFail, OrderDrainSpill DEF Next

LEMMA TwiceGrows == TypeInv /\ [Next]_vars => Solo' \subseteq Solo
<1> SUFFICES ASSUME TypeInv, [Next]_vars PROVE twice \subseteq twice'
  BY DEF Solo
<1>1. CASE DrainSpill
  BY <1>1, DrainCases
<1>2. ASSUME NEW s \in Session, Enqueue(s) PROVE UNCHANGED twice
  BY <1>2 DEF Enqueue, EnqueueLocal, EnqueueSpilled, EnqueueBuffered
<1>3. CASE PostFail
  BY <1>3 DEF PostFail, FailUnheard, FailStrict, FailOpen, FailRetry, FailFull, PostFailed
<1>4. CASE \/ EnableLocalStore \/ FlushTimer \/ Stop \/ PostOk \/ SpillBatch \/ Restart
           \/ UNCHANGED vars
  BY <1>4 DEF EnableLocalStore, FlushTimer, Stop, PostOk, SpillBatch, Restart, vars, clientVars
<1> QED
  BY <1>1, <1>2, <1>3, <1>4 DEF Next

\* Sessions that wait to be posted stay in their order, through retries, drops,
\* spills and drains, unless a file they were drained from stays on disk.
THEOREM OrderIsStable == Spec => PendingOrderStable
<1>1. TypeInv /\ CopyInv /\ [Next]_vars
        => [\A s, t \in Session \ twice' :
              /\ Before(Pending, s, t)
              /\ {s, t} \subseteq Range(Pending')
              => Before(Pending', s, t)]_vars
  <2> SUFFICES ASSUME TypeInv, CopyInv, [Next]_vars PROVE Follows(Pending, Pending', Solo')
    BY DEF Follows, Solo
  <2> QED
    BY OrderStep, TwiceGrows DEF Follows
<1> QED
  BY <1>1, CopyInvInit, CopyInvStep, TypeInvInit, TypeInvStep, PTL DEF Spec, PendingOrderStable

(***************************************************************************)

\* What a session's fate says of where it is, and the order they complete in.
FateInv ==
    /\ \A s \in Session : fate[s] = "local" => s \notin Held
    /\ \A s \in Session : fate[s] = "sent" => s \in received
    /\ \A s, t \in Session : fate[s] = "fresh" /\ s < t => fate[t] = "fresh"

\* Only a session that the client holds, or that completes, changes its fate in
\* a step; and what a fate says of the collector is so.
FateMoves(S) ==
    /\ received \subseteq received' /\ received' \subseteq received \cup Range(inFlight)
    /\ \A t \in Session : fate'[t] # fate[t] => t \in Held \cup S
    /\ \A t \in Session : fate'[t] = "fresh" => fate[t] = "fresh" /\ t \notin S
    /\ \A t \in Session : fate'[t] = "local" => fate[t] = "local" \/ EnqueueLocal(t)
    /\ \A t \in Session :
          fate'[t] = "sent" => fate[t] = "sent" \/ t \in Range(inFlight) \cap received'

LEMMA SpillMoves ==
  ASSUME TypeOK, NEW s \in Session, SpillSession(s)
  PROVE  /\ \A t \in Session : fate'[t] # fate[t] => t \in OnDisk \cup {s}
         /\ \A t \in Session : fate'[t] \in {"fresh", "local", "sent"} => fate'[t] = fate[t] /\ t # s
<1>1. ASSUME NEW kept \in SUBSET Excess, NEW unread \in SUBSET Excess,
             fate' = Appended(s, Excess \ kept, unread)
      PROVE  /\ \A t \in Session : fate'[t] # fate[t] => t \in OnDisk \cup {s}
             /\ \A t \in Session :
                  fate'[t] \in {"fresh", "local", "sent"} => fate'[t] = fate[t] /\ t # s
  <2>1. SessionsIn(Excess \ kept) \subseteq OnDisk
    BY ExcessOlder DEF TypeOK, OnDisk, SessionsIn
  <2>2. fate'[s] \in {"glued", "held"}
    BY <1>1, AppendedHeld
  <2>3. \A t \in Session \ {s} :
              \/ fate'[t] = fate[t]
              \/ fate'[t] \in {"evicted", "unread"} /\ t \in SessionsIn(Excess \ kept)
    BY <1>1, AppendedHeld
  <2> QED
    BY <2>1, <2>2, <2>3
<1>2. CASE fate' = [fate EXCEPT ![s] = "dropped"]
  BY <1>2 DEF TypeOK
<1> QED
  BY <1>1, <1>2 DEF SpillSession

LEMMA MovesEnqueue ==
  ASSUME TypeInv, CopyInv, NEW s \in Session, Enqueue(s)
  PROVE  FateMoves({s}) /\ fate[s] = "fresh"
<1>1. fate[s] = "fresh"
  BY DEF Enqueue, EnqueueLocal, EnqueueSpilled, EnqueueBuffered, Completes, CopyInv, Held
<1>2. UNCHANGED received
  BY DEF Enqueue, EnqueueLocal, EnqueueSpilled, EnqueueBuffered
<1>3. CASE EnqueueLocal(s)
  <2>1. fate' = [fate EXCEPT ![s] = "local"]
    BY <1>3 DEF EnqueueLocal
  <2>2. \A t \in Session : fate'[t] = IF t = s THEN "local" ELSE fate[t]
    BY <2>1 DEF TypeInv, TypeOK
  <2> QED
    BY <1>1, <1>2, <1>3, <2>2 DEF FateMoves
<1>4. CASE EnqueueSpilled(s)
  BY <1>1, <1>2, <1>4, SpillMoves DEF EnqueueSpilled, FateMoves, TypeInv, Held
<1>5. CASE EnqueueBuffered(s)
  <2> DEFINE q == Append(buffer, s)
             dropped == SubSeq(q, 1, Overflow(q))
  <2>1. q \in Seq(Session) /\ Range(q) = Range(buffer) \cup {s}
    BY <1>5, Enqueued
  <2>2. fate' = [t \in Session |-> IF t \in Range(dropped) THEN "dropped"
                                   ELSE IF t = s THEN "held" ELSE fate[t]]
    BY <1>5 DEF EnqueueBuffered
  <2> HIDE DEF q
  <2>3. Range(dropped) \subseteq Range(q)
    BY <2>1, OverflowLength, SplitRange
  <2> HIDE DEF dropped
  <2>4. \A t \in Session : fate'[t] # fate[t] => t \in Range(buffer) \cup {s}
    BY <2>1, <2>2, <2>3
  <2>5. \A t \in Session : fate'[t] \in {"fresh", "local", "sent"} => fate'[t] = fate[t] /\ t # s
    BY <2>2
  <2> QED
    BY <1>1, <1>2, <2>4, <2>5 DEF FateMoves, Held
<1> QED
  BY <1>1, <1>3, <1>4, <1>5 DEF Enqueue

\* The first k sessions of the batch reach the collector, those of S get fate f.
LEMMA MarkMoves ==
  ASSUME TypeOK, NEW k \in 0..Len(inFlight), NEW S, S \subseteq Held,
         NEW f \in {"dropped", "raised", "crashed"},
         received' = received \cup Range(SubSeq(inFlight, 1, k)),
         fate' = fate \/ fate' = Mark(S, f)
  PROVE  FateMoves({})
<1>1. Range(SubSeq(inFlight, 1, k)) \subseteq Range(inFlight)
  BY SplitRange DEF TypeOK
<1> QED
  BY <1>1 DEF FateMoves, Mark

LEMMA MovesPostFail ==
  ASSUME TypeInv, CopyInv, PostFail
  PROVE  FateMoves({})
<1>1. PICK k \in 0..Len(inFlight) :
        FailUnheard(k) \/ FailStrict(k) \/ FailOpen(k) \/ FailRetry(k) \/ FailFull(k)
  BY DEF PostFail
<1>2. received' = received \cup Range(SubSeq(inFlight, 1, k))
  BY <1>1 DEF FailUnheard, FailStrict, FailOpen, FailRetry, FailFull, PostFailed
<1>3. CASE FailUnheard(k) \/ FailOpen(k) \/ FailFull(k)
  <2>1. fate' = fate
    BY <1>3 DEF FailUnheard, FailOpen, FailFull, BeginSpill
  <2> QED
    BY <1>2, <2>1, MarkMoves DEF TypeInv
<1>4. CASE FailStrict(k)
  <2>1. fate' = Mark(Range(inFlight), "raised")
    BY <1>4 DEF FailStrict
  <2> QED
    BY <1>2, <2>1, MarkMoves DEF TypeInv, Held
<1>5. CASE FailRetry(k)
  <2> DEFINE kept == IF Room < Len(inFlight) THEN Room ELSE Len(inFlight)
             dropped == SubSeq(inFlight, kept + 1, Len(inFlight))
  <2>1. fate' = Mark(Range(dropped), "dropped")
    BY <1>5 DEF FailRetry
  <2>2. kept \in 0..Len(inFlight)
    BY <1>5, KeptLength DEF FailRetry, TypeInv
  <2> HIDE DEF kept
  <2>3. Range(dropped) \subseteq Range(inFlight)
    BY <2>2, SplitRange DEF TypeInv, TypeOK
  <2> HIDE DEF dropped
  <2> QED
    BY <1>2, <2>1, <2>3, MarkMoves DEF TypeInv, Held
<1> QED
  BY <1>1, <1>3, <1>4, <1>5

LEMMA DrainMoves ==
  ASSUME TypeInv, DrainSpill
  PROVE  FateMoves({})
<1>1. UNCHANGED received
  BY DEF DrainSpill
<1>2. PICK n \in draining : n \in DOMAIN disk /\ (Returned(n) \/ UNCHANGED fate)
  BY DrainCases
<1>3. CASE Returned(n)
  <2>1. \A t \in Session : fate'[t] = IF t \in Range(disk[n].lines) THEN "held" ELSE fate[t]
    BY <1>2, <1>3, ReturnedRange
  <2>2. Range(disk[n].lines) \subseteq Held
    BY <1>2 DEF Held, OnDisk, SessionsIn
  <2> QED
    BY <1>1, <2>1, <2>2 DEF FateMoves
<1>4. CASE UNCHANGED fate
  BY <1>1, <1>4 DEF FateMoves
<1> QED
  BY <1>2, <1>3, <1>4

LEMMA MovesOther ==
  ASSUME TypeInv, CopyInv,
         \/ EnableLocalStore \/ FlushTimer \/ Stop \/ PostOk \/ PostFail
         \/ SpillBatch \/ DrainSpill \/ Restart \/ UNCHANGED vars
  PROVE  FateMoves({})
<1>1. CASE EnableLocalStore \/ FlushTimer \/ Stop \/ UNCHANGED vars
  <2>1. UNCHANGED <<received, fate>>
    BY <1>1 DEF EnableLocalStore, FlushTimer, Stop, vars, clientVars
  <2> QED
    BY <2>1 DEF FateMoves
<1>2. CASE PostOk
  <2>1. fate' = Mark(Range(inFlight), "sent") /\ received' = received \cup Range(inFlight)
    BY <1>2 DEF PostOk
  <2> QED
    BY <2>1 DEF FateMoves, Mark, Held
<1>3. CASE SpillBatch
  <2>1. inFlight # <<>> /\ inFlight \in Seq(Session)
    BY <1>3 DEF SpillBatch, TypeInv, TypeOK
  <2>2. Head(inFlight) \in Session /\ Head(inFlight) \in Range(inFlight)
    BY <2>1, HeadTailProperties, HeadTailRange
  <2>3. SpillSession(Head(inFlight)) /\ UNCHANGED received
    BY <1>3, <2>2 DEF SpillBatch
  <2> QED
    BY <2>2, <2>3, SpillMoves DEF FateMoves, TypeInv, Held
<1>4. CASE Restart
  <2>1. PICK k \in 0..Len(inFlight) : received' = received \cup Range(SubSeq(inFlight, 1, k))
    BY <1>4 DEF Restart
  <2>2. fate' = Mark(Range(buffer) \cup Range(inFlight), "crashed")
    BY <1>4 DEF Restart
  <2> QED
    BY <2>1, <2>2, MarkMoves DEF TypeInv, Held
<1> QED
  BY <1>1, <1>2, <1>3, <1>4, MovesPostFail, DrainMoves

\* A step of the client: at most one session completes, and it is the next one.
Completing(S) ==
    \/ S = {}
    \/ \E s \in Session : S = {s} /\ Enqueue(s)

LEMMA StepMoves ==
  ASSUME TypeInv, CopyInv, [Next]_vars
  PROVE  \E S \in SUBSET Session :
            /\ Completing(S) /\ FateMoves(S)
            /\ Held' \subseteq Held \cup S
            /\ \A t \in Session : EnqueueLocal(t) => Held' = Held
<1>1. ASSUME NEW s \in Session, Enqueue(s)
      PROVE  /\ Completing({s}) /\ FateMoves({s})
             /\ Held' \subseteq Held \cup {s}
             /\ \A t \in Session : EnqueueLocal(t) => Held' = Held
  <2>1. FateMoves({s}) /\ Held' \subseteq Held \cup {s}
    BY <1>1, MovesEnqueue, CopyEnqueue
  <2>2. \A t \in Session : EnqueueLocal(t) => Held' = Held
    BY CopyEnqueue DEF Enqueue
  <2> QED
    BY <1>1, <2>1, <2>2 DEF Completing
<1>2. CASE \/ EnableLocalStore \/ FlushTimer \/ Stop \/ PostOk \/ PostFail
           \/ SpillBatch \/ DrainSpill \/ Restart \/ UNCHANGED vars
  <2>1. FateMoves({}) /\ Held' \subseteq Held \cup {}
    BY <1>2, MovesOther, CopyOther
  <2>2. \A t \in Session : EnqueueLocal(t) => Held' = Held
    BY CopyEnqueue DEF Enqueue
  <2> QED
    BY <2>1, <2>2 DEF Completing
<1> QED
  BY <1>1, <1>2 DEF Next

LEMMA CompletesNext ==
  ASSUME NEW s \in Session, Enqueue(s)
  PROVE  fate[s] = "fresh" /\ \A t \in Session : t < s => fate[t] # "fresh"
BY DEF Enqueue, EnqueueLocal, EnqueueSpilled, EnqueueBuffered, Completes

LEMMA FateInvInit == Init => FateInv
BY EmptyApart DEF Init, SpillInit, FateInv, Held, OnDisk, SessionsIn

LEMMA FateInvStep == TypeInv /\ CopyInv /\ FateInv /\ [Next]_vars => FateInv'
<1> SUFFICES ASSUME TypeInv, CopyInv, FateInv, [Next]_vars PROVE FateInv'
  OBVIOUS
<1>1. PICK S \in SUBSET Session :
        /\ Completing(S) /\ FateMoves(S)
        /\ Held' \subseteq Held \cup S
        /\ \A t \in Session : EnqueueLocal(t) => Held' = Held
  BY StepMoves
<1>2. \A t \in S : fate[t] = "fresh" /\ \A u \in Session : u < t => fate[u] # "fresh"
  BY <1>1, CompletesNext DEF Completing
<1>3. ASSUME NEW t \in Session, fate'[t] = "local" PROVE t \notin Held'
  <2>1. CASE EnqueueLocal(t)
    <3>1. t \notin Held
      BY <2>1 DEF EnqueueLocal, Completes, CopyInv
    <3> QED
      BY <1>1, <2>1, <3>1
  <2>2. CASE fate[t] = "local"
    <3>1. t \notin Held /\ t \notin S
      BY <1>2, <2>2 DEF FateInv
    <3> QED
      BY <1>1, <3>1
  <2> QED
    BY <1>1, <1>3, <2>1, <2>2 DEF FateMoves
<1>4. ASSUME NEW t \in Session, fate'[t] = "sent" PROVE t \in received'
  BY <1>1, <1>4 DEF FateMoves, FateInv
<1>5. ASSUME NEW s \in Session, NEW t \in Session, fate'[s] = "fresh", s < t
      PROVE  fate'[t] = "fresh"
  <2>1. fate[s] = "fresh" /\ fate[t] = "fresh"
    BY <1>1, <1>5 DEF FateMoves, FateInv
  <2>2. t \notin Held /\ t \notin S
    BY <1>2, <1>5, <2>1 DEF CopyInv
  <2> QED
    BY <1>1, <2>1, <2>2 DEF FateMoves
<1> QED
  BY <1>3, <1>4, <1>5 DEF FateInv

\* Where a session's status comes from.
LEMMA CustodyOf ==
  ASSUME CopyInv, NoSilentDrop, TypeInv, NEW s \in Session
  PROVE  /\ Custody[s] = "held" <=> s \in Held
         /\ Custody[s] = "new" <=> fate[s] = "fresh"
         /\ Custody[s] = "delivered" <=> s \notin Held /\ fate[s] = "sent"
         /\ Custody[s] = "local" <=> s \notin Held /\ fate[s] = "local"
         /\ Custody[s] \in {"new", "held", "delivered", "local", "lost"}
<1>1. /\ fate[s] = "held" => s \in Held
      /\ fate[s] = "fresh" => s \notin Held
  BY DEF CopyInv, NoSilentDrop
<1>2. Custody[s] = CASE s \in Held -> "held"
                     [] s \notin Held /\ fate[s] = "fresh" -> "new"
                     [] s \notin Held /\ fate[s] = "sent"  -> "delivered"
                     [] s \notin Held /\ fate[s] = "local" -> "local"
                     [] s \notin Held /\ fate[s] = "held"  -> "vanished"
                     [] OTHER -> "lost"
  BY DEF Custody
<1> QED
  BY <1>1, <1>2

LEMMA CustodyInit == Init => C!Init
<1> SUFFICES ASSUME Init PROVE C!Init
  OBVIOUS
<1>1. Held = {}
  BY EmptyApart DEF Init, SpillInit, Held, OnDisk, SessionsIn
<1> QED
  BY <1>1 DEF Init, Custody, C!Init

LEMMA CustodyStep ==
  ASSUME TypeInv, CopyInv, FateInv, NoSilentDrop, [Next]_vars,
         TypeInv', CopyInv', FateInv', NoSilentDrop'
  PROVE  C!Next
<1>1. PICK S \in SUBSET Session :
        /\ Completing(S) /\ FateMoves(S)
        /\ Held' \subseteq Held \cup S
        /\ \A t \in Session : EnqueueLocal(t) => Held' = Held
  BY StepMoves
<1>2. \A t \in S : fate[t] = "fresh" /\ \A u \in Session : u < t => fate[u] # "fresh"
  BY <1>1, CompletesNext DEF Completing
<1>3. \A s \in Session :
        /\ Custody[s] = "held" <=> s \in Held
        /\ Custody[s] = "new" <=> fate[s] = "fresh"
        /\ Custody[s] = "delivered" <=> s \notin Held /\ fate[s] = "sent"
        /\ Custody[s] = "local" <=> s \notin Held /\ fate[s] = "local"
        /\ Custody[s] \in {"new", "held", "delivered", "local", "lost"}
  BY CustodyOf
<1>4. \A s \in Session :
        /\ Custody'[s] = "held" <=> s \in Held'
        /\ Custody'[s] = "new" <=> fate'[s] = "fresh"
        /\ Custody'[s] = "delivered" <=> s \notin Held' /\ fate'[s] = "sent"
        /\ Custody'[s] = "local" <=> s \notin Held' /\ fate'[s] = "local"
        /\ Custody'[s] \in {"new", "held", "delivered", "local", "lost"}
  <2> SUFFICES ASSUME NEW s \in Session
               PROVE  /\ Custody'[s] = "held" <=> s \in Held'
                      /\ Custody'[s] = "new" <=> fate'[s] = "fresh"
                      /\ Custody'[s] = "delivered" <=> s \notin Held' /\ fate'[s] = "sent"
                      /\ Custody'[s] = "local" <=> s \notin Held' /\ fate'[s] = "local"
                      /\ Custody'[s] \in {"new", "held", "delivered", "local", "lost"}
    OBVIOUS
  <2>1. /\ fate'[s] = "held" => s \in Held'
        /\ fate'[s] = "fresh" => s \notin Held'
    BY DEF CopyInv, NoSilentDrop
  <2>2. Custody'[s] = CASE s \in Held' -> "held"
                        [] s \notin Held' /\ fate'[s] = "fresh" -> "new"
                        [] s \notin Held' /\ fate'[s] = "sent"  -> "delivered"
                        [] s \notin Held' /\ fate'[s] = "local" -> "local"
                        [] s \notin Held' /\ fate'[s] = "held"  -> "vanished"
                        [] OTHER -> "lost"
    BY DEF Custody
  <2> QED
    BY <2>1, <2>2
<1>5. C!Moved \subseteq Session
  BY DEF C!Moved
<1>6. ASSUME NEW s \in C!Moved
      PROVE  <<Custody[s], Custody'[s]>> \in C!Moves
  <2>1. s \in Session /\ Custody'[s] # Custody[s]
    BY <1>6 DEF C!Moved
  <2>2. CASE s \in S
    <3>1. Custody[s] = "new"
      BY <1>2, <1>3, <2>1, <2>2
    <3>2. Custody'[s] # "delivered"
      <4>1. fate'[s] # "sent"
        BY <1>1, <1>2, <2>1, <2>2 DEF FateMoves, CopyInv, Held
      <4> QED
        BY <1>4, <2>1, <4>1
    <3> QED
      BY <1>4, <2>1, <3>1, <3>2 DEF C!Moves
  <2>3. CASE s \in Held
    <3>1. Custody[s] = "held" /\ fate[s] # "local" /\ fate[s] # "fresh"
      BY <1>3, <2>1, <2>3 DEF FateInv, CopyInv
    <3>2. fate'[s] # "fresh"
      BY <1>1, <2>1, <3>1 DEF FateMoves
    <3>3. fate'[s] # "local"
      BY <1>1, <2>1, <2>3, <3>1 DEF FateMoves, EnqueueLocal, Completes, CopyInv
    <3> QED
      BY <1>4, <2>1, <3>1, <3>2, <3>3 DEF C!Moves
  <2>4. CASE s \notin S /\ s \notin Held
    <3>1. fate'[s] = fate[s] /\ s \notin Held'
      BY <1>1, <2>1, <2>4 DEF FateMoves
    <3>2. Custody'[s] = Custody[s]
      BY <1>3, <1>4, <2>1, <2>4, <3>1
    <3> QED
      BY <2>1, <3>2
  <2> QED
    BY <2>2, <2>3, <2>4
<1>7. ASSUME NEW s \in C!Accepted PROVE s \in S /\ s \in Session
  <2>1. s \in Session /\ Custody'[s] # Custody[s] /\ fate[s] = "fresh"
    BY <1>3, <1>7 DEF C!Accepted, C!Moved
  <2>2. s \notin Held
    BY <2>1 DEF CopyInv
  <2>3. fate'[s] # "fresh"
    BY <1>3, <1>4, <2>1
  <2> QED
    BY <1>1, <2>1, <2>2, <2>3 DEF FateMoves
<1>8. C!AcceptsNext
  <2> SUFFICES ASSUME NEW s \in C!Accepted, NEW t \in Session \ {s}
               PROVE  t < s <=> Custody[t] # "new"
    BY DEF C!AcceptsNext
  <2>1. s \in S /\ s \in Nat /\ t \in Nat /\ s # t /\ s \in Session
    BY <1>7, SpillConstants
  <2>2. t < s => fate[t] # "fresh"
    BY <1>2, <2>1
  <2>3. s < t => fate[t] = "fresh"
    BY <1>2, <2>1 DEF FateInv
  <2>4. t < s <=> fate[t] # "fresh"
    BY <2>1, <2>2, <2>3
  <2> QED
    BY <1>3, <2>4
<1>9. \A s \in received' \ received : Custody[s] = "held"
  <2>1. \A s \in received' \ received : s \in Session /\ s \in Held
    BY <1>1 DEF FateMoves, Held, TypeInv, TypeOK
  <2> QED
    BY <1>3, <2>1
<1>10. \A s \in C!Moved : Custody'[s] = "delivered" => s \in received'
  BY <1>4, <1>5 DEF FateInv
<1> QED
  BY <1>1, <1>6, <1>8, <1>9, <1>10 DEF C!Next, FateMoves

\* The client implements the promise of its header: what was accepted is held
\* until the collector has it or it is given up openly, and nothing is taken back.
THEOREM CustodyKept == NoLoss => (Spec => KeepsCustody)
<1> SUFFICES ASSUME NoLoss PROVE Spec => KeepsCustody
  OBVIOUS
<1>1. Init => NoSilentDrop
  BY DEF Init, NoSilentDrop
<1>2. TypeInv /\ NoSilentDrop /\ [Next]_vars => NoSilentDrop'
  BY KeptInvStep
<1> DEFINE Inv == TypeInv /\ CopyInv /\ FateInv /\ NoSilentDrop
<1>3. Init => Inv
  BY <1>1, TypeInvInit, CopyInvInit, FateInvInit
<1>4. Inv /\ [Next]_vars => Inv'
  BY <1>2, TypeInvStep, CopyInvStep, FateInvStep
<1>5. Inv /\ Inv' /\ [Next]_vars => [C!Next]_(C!custodyVars)
  BY CustodyStep
<1> HIDE DEF Inv
<1> QED
  BY <1>3, <1>4, <1>5, CustodyInit, PTL DEF Spec, KeepsCustody, C!Spec

=============================================================================
