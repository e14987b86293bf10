------------------------------- MODULE Archive ------------------------------
(***************************************************************************)
(* A recorded value, like the rows of a query, on its way through the      *)
(* tools: redactDeep() redacts it (module Redaction), the CLI exports the  *)
(* session to a file and reads it again (module SessionIO).                *)
(*                                                                         *)
(* What was read is then compared with another value by deepDiff() (module *)
(* DeepDiff).  The replay package exports that function and nothing in the *)
(* repository calls it: ReplayEngine.replay() compares the JSON texts of   *)
(* the bodies, so it reports a difference where only the order of the keys *)
(* differs.  What is said of the comparison here is said of deepDiff().    *)
(***************************************************************************)
EXTENDS Redaction, SessionIO, DeepDiff

\* The comparison looks deeper than the recording is (50 and 20).
ASSUME DepthsFit == MaxRedactDepth < MaxDiffDepth

VARIABLES
    stage,     \* how far the answer has come
    file,      \* the session file
    damaged,   \* "no", or the kind of file that was changed: "binary", "text"
    imported,  \* what was read from it
    other      \* the value it is compared with

fileVars == <<stage, file, damaged, imported>>
vars == <<redactVars, diffVars, fileVars, other>>

recorded == Tree("rec", Kept)
Session == [id |-> "s1", events |-> Parsed("imp", recorded)]
Both == [id \in DOMAIN imported.events \cup DOMAIN other |->
            IF id \in DOMAIN imported.events THEN imported.events[id] ELSE other[id]]

-----------------------------------------------------------------------------
Init ==
    /\ RedactInit
    /\ stage = "answered"
    /\ file = <<>> /\ damaged = "no"
    /\ imported = Rejected /\ other = <<>>
    /\ todo = <<>> /\ seen = {} /\ entered = {} /\ diffs = {}

\* An interceptor redacts the value, a call of walk() at a time, and records it,
\* like the rows of a query.
Capture ==
    /\ Walk
    /\ UNCHANGED <<fileVars, other, diffVars>>

\* ergenekon export
Export ==
    /\ stage = "answered" /\ work = <<>> /\ stage' = "exported"
    /\ \/ file' = [binary |-> ExportSessionBinary(Session)]
       \/ \E format \in {"session", "sessions", "raw", "array"} :
             file' = ExportSessionJSON(Session, format)
    /\ UNCHANGED <<redactVars, damaged, imported, other, diffVars>>

IsBinaryFile == DOMAIN file = {"binary"}

OtherWords == {Junk, MetadataText("s2"), EventsText(<<>>, 1)} \cup {Number(n) : n \in 0..3}

\* A leaf of a document is another.
Entries(tree) == {e \in (DOMAIN tree) \X UNION {DOMAIN tree[i].at : i \in DOMAIN tree} :
                    e[2] \in DOMAIN tree[e[1]].at}

Altered(tree) == {[tree EXCEPT ![e[1]].at[e[2]] = Leaf("changed")] : e \in Entries(tree)}

\* A word of a binary file changes, two are swapped, the file is cut or grows.
DamagedWords(words) ==
    {[words EXCEPT ![i] = word] : i \in DOMAIN words, word \in OtherWords}
        \cup {[words EXCEPT ![i] = words[j], ![j] = words[i]] : i, j \in DOMAIN words}
        \cup {SubSeq(words, 1, n) : n \in 0..Len(words) - 1} \cup {Append(words, Junk)}

\* Text does not parse any more, or is a document of no known form, or it is that
\* of another session.
DamagedText(doc) ==
    {[doc EXCEPT !.format = "unknown"], [doc EXCEPT !.sessions[1].id = "s2"]}
        \cup {[doc EXCEPT !.sessions[1].events = events] : events \in Altered(doc.sessions[1].events)}

Damage ==
    /\ stage = "exported" /\ damaged = "no"
    /\ IF IsBinaryFile
       THEN damaged' = "binary" /\ \E words \in DamagedWords(file.binary) : file' = [binary |-> words]
       ELSE damaged' = "text" /\ file' \in DamagedText(file)
    /\ UNCHANGED <<redactVars, stage, imported, other, diffVars>>

\* ergenekon import
Import ==
    /\ stage = "exported" /\ stage' = "imported"
    /\ imported' = IF IsBinaryFile THEN ImportSessionBinary(file.binary)
                   ELSE ImportSessionsJSON(file)
    /\ file' = <<>>
    /\ UNCHANGED <<redactVars, damaged, other, diffVars>>

-----------------------------------------------------------------------------
\* What it may be compared with: the same in new objects, with one entry changed,
\* added or left out, or one object in two places; and the value of the program.
Again(tree) == Parsed("rep", tree)

Without(at, k) == [x \in DOMAIN at \ {k} |-> at[x]]
With(at, k, v) == [x \in DOMAIN at \cup {k} |-> IF x \in DOMAIN at THEN at[x] ELSE v]

Changed(tree) ==
    Altered(tree)
        \cup {[tree EXCEPT ![e[1]].at = Without(@, e[2])] :
                e \in {x \in Entries(tree) : ~IsArray(tree[x[1]])}}
        \cup {[tree EXCEPT ![id].at = With(@, Last(IndexNames), Leaf("added"))] : id \in DOMAIN tree}

Aliased(tree) ==
    {[tree EXCEPT ![t[1][1]].at[t[1][2]] = Ref(t[2])] :
        t \in {x \in Entries(tree) \X (DOMAIN tree) :
                  /\ ~IsLeaf(tree[x[1][1]].at[x[1][2]])
                  /\ ~IsPrefix(x[2][2], x[1][1][2])}}

RootOf(h) == IF Root("rep") \in DOMAIN h THEN Ref(Root("rep")) ELSE Live

\* A user of the library calls deepDiff().
CallDeepDiff ==
    /\ stage = "imported" /\ imported.ok /\ damaged = "no" /\ stage' = "comparing"
    /\ other' \in {Again(imported.events)} \cup Changed(Again(imported.events))
                       \cup Aliased(Again(imported.events)) \cup {heap}
    /\ todo' = DeepDiffOf(Ref(Root("imp")), RootOf(other'))
    /\ UNCHANGED <<redactVars, file, damaged, imported, seen, entered, diffs>>

Compare ==
    /\ WalkBoth(Both)
    /\ UNCHANGED <<redactVars, fileVars, other>>

Next == Capture \/ Export \/ Damage \/ Import \/ CallDeepDiff \/ Compare

Spec == Init /\ [][Next]_vars

-----------------------------------------------------------------------------
\* A binary file is read as what was written or not at all: changed, cut or
\* reordered it never passes for another session (session-io.ts: "Verify CRC32
\* BEFORE decompressing any data").  A text file is read as what was written if
\* nobody changed it; one that was changed may pass for another session.
ReadsWhatWasWritten ==
    imported.ok /\ damaged # "text" => imported.id = "s1" /\ imported.events = Session.events

Equal == Same(Both, Ref(Root("imp")), RootOf(other), IgnoreFields)

\* The comparison reports no difference between answers that are the same, even
\* if the other one is built of shared or cyclic objects.
DifferencesAreReal == diffs # {} => ~Equal

\* No object of a heap lies in two places.
Unshared(h) ==
    \A t, u \in Entries(h) : t # u /\ ~IsLeaf(h[t[1]].at[t[2]]) => h[t[1]].at[t[2]] # h[u[1]].at[u[2]]

\* And it reports one if they are not the same and no object lies in two places.
DifferencesAreFound ==
    /\ stage = "comparing" /\ todo = <<>> /\ diffs = {}
    /\ Root("rep") \in DOMAIN other /\ Unshared(other)
    => Equal
=============================================================================
