------------------------------ MODULE SessionIO -----------------------------
(***************************************************************************)
(* Sessions as files (core/src/session-io.ts).  A binary file is a         *)
(* sequence of words: a number, a compressed text or a checksum.  A        *)
(* compressed text may take several words; the checksum of some words is   *)
(* those words.  A text file has no checksum: what parses is believed.     *)
(***************************************************************************)
EXTENDS Values

Word(kind) == [word |-> kind]
Number(n) == [number |-> n]
MetadataText(id) == [metadata |-> id]
EventsText(events, i) == [events |-> events, part |-> i]
Crc(words) == [crc |-> words]

Magic == Word("PRDX")
Junk == Word("junk")

\* The longest text a header may announce; a word that is no number reads as
\* more than that.
MaxWords == 9
NumberAt(file, i) == IF DOMAIN file[i] = {"number"} THEN file[i].number ELSE MaxWords + 1

Metadata(s) == <<MetadataText(s.id)>>
Events(s) == <<EventsText(s.events, 1), EventsText(s.events, 2)>>

\* exportSessionBinary()
ExportSessionBinary(s) ==
    LET words == <<Magic, Number(1), Number(Len(Metadata(s)))>> \o Metadata(s)
                   \o <<Number(1), Number(Len(Events(s)))>> \o Events(s)
    IN  Append(words, Crc(words))

Rejected == [ok |-> FALSE]

\* A mutant of Intact: the checksum is that of the headers.
IntactHeaders(file, offset) ==
    /\ DOMAIN file[offset] = {"crc"} /\ Len(file[offset].crc) = offset - 1
    /\ \A i \in 1..offset - 1 :
          DOMAIN file[i] \in {{"number"}, {"word"}} => file[offset].crc[i] = file[i]

Intact(file, offset) == file[offset] = Crc(SubSeq(file, 1, offset - 1))

\* importSessionBinary(): six words are the least; each length is checked
\* against the file before it is used, the checksum before the texts.
ImportSessionBinary(file) ==
    IF Len(file) < 6 \/ file[1] # Magic \/ file[2] # Number(1) THEN Rejected
    ELSE LET metadataLen == NumberAt(file, 3)
             countAt == 4 + metadataLen
         IN  IF metadataLen > MaxWords \/ countAt + 2 > Len(file) THEN Rejected
             ELSE LET eventsLen == NumberAt(file, countAt + 1)
                      crcAt == countAt + 2 + eventsLen
                      texts == SubSeq(file, countAt + 2, crcAt - 1)
                  IN  IF eventsLen > MaxWords \/ crcAt > Len(file) \/ ~Intact(file, crcAt)
                         \/ NumberAt(file, countAt) # 1
                      THEN Rejected
                      ELSE [ok |-> TRUE, id |-> file[4].metadata, events |-> texts[1].events]

\* exportSessionJSON(), exportSessionsJSON(), or a session as the collector has it.
ExportSessionJSON(s, format) == [format |-> format, sessions |-> <<s>>]

\* importSessionsJSON() knows a session, a list with a header, a bare session
\* and a bare list.
ImportSessionsJSON(doc) ==
    IF doc.format \notin {"session", "sessions", "raw", "array"} THEN Rejected
    ELSE [ok |-> TRUE, id |-> doc.sessions[1].id, events |-> doc.sessions[1].events]
=============================================================================
