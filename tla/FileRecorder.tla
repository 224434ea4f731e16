---------------------------- MODULE FileRecorder ----------------------------
(***************************************************************************)
(* The recording file of one session (packages/recorder): a header and the *)
(* recorded events, a line each.                                           *)
(*                                                                         *)
(* The operations of the session come one after the other (its operation   *)
(* queue, see TerminalSession), but an export reads the file beside them   *)
(* (managed-session.ts, exportRecording), and any access to the file can   *)
(* fail, a write after a part of its line.  Redaction and validation of    *)
(* events, and recordings in the legacy format, are left out.              *)
(***************************************************************************)
EXTENDS Naturals, Sequences, SequencesExt

CONSTANT MaxEvents    \* bound: events to be written

VARIABLES
    created,     \* the file exists
    file,        \* its lines, and whether the last one has its newline
    enabled,     \* the session is in enabledSessions
    status,      \* the recording status of the session: inactive, active or failed
    writing,     \* the write under way: its stage, and whether start waits for it
    events,      \* number of events that were to be written: the last is the current one
    exporting,   \* the export under way: its stage, the write it waits for, what is due
    recorded,    \* history: the events whose write has succeeded
    exported     \* history: what was due to the last successful export, and what it had

vars == <<created, file, enabled, status, writing, events, exporting, recorded, exported>>

\* The lines of the file; a broken one cannot be parsed.
Header == [kind |-> "header", number |-> 0]
Broken == [kind |-> "broken", number |-> 0]
Event(n) == [kind |-> "event", number |-> n]

NotWriting == [stage |-> "idle", starting |-> FALSE]
NotExporting == [stage |-> "idle", awaited |-> 0, due |-> {}]

Parts == {"none", "torn", "all but newline", "all"}

\* The file once a part of a line has been added to it.
Added(line, part) ==
    IF part = "none" THEN file
    ELSE [lines |-> IF file.ended THEN Append(file.lines, IF part = "torn" THEN Broken ELSE line)
                    ELSE Append(Front(file.lines), Broken),
          ended |-> part = "all"]

\* The files that can be found on disk.
OnDisk == CASE writing.stage = "header" -> {Added(Header, part) : part \in Parts}
            [] writing.stage = "appending" -> {Added(Event(events), part) : part \in Parts}
            [] OTHER -> {file}

-----------------------------------------------------------------------------
Init ==
    /\ created = FALSE /\ file = [lines |-> <<>>, ended |-> TRUE]
    /\ enabled = FALSE /\ status = "inactive"
    /\ writing = NotWriting /\ events = 0
    /\ exporting = NotExporting
    /\ recorded = {} /\ exported = [due |-> {}, events |-> <<>>]

\* append: the write starts at once, as the queue of the session has no other.
Enqueue(starting) ==
    /\ events < MaxEvents
    /\ events' = events + 1
    /\ writing' = [stage |-> "ensure", starting |-> starting]

Start ==
    /\ writing.stage = "idle" /\ status # "active"
    /\ enabled' = TRUE
    /\ Enqueue(TRUE)
    /\ UNCHANGED <<created, file, status, exporting, recorded, exported>>

\* What happens in a session that is not listed is not recorded.
Record ==
    /\ writing.stage = "idle" /\ enabled
    /\ Enqueue(FALSE)
    /\ UNCHANGED <<created, file, enabled, status, exporting, recorded, exported>>

Stop ==
    /\ writing.stage = "idle" /\ status # "inactive"
    /\ enabled' = FALSE /\ status' = "inactive"
    /\ UNCHANGED <<created, file, writing, events, exporting, recorded, exported>>

\* ensureHeader: the file is created, unless it exists.
EnsureHeader ==
    /\ created' = TRUE /\ UNCHANGED file
    /\ writing' = [writing EXCEPT !.stage = IF created THEN "verify" ELSE "header"]

\* verifyExistingHeader
VerifyExistingHeader ==
    /\ file.lines # <<>> /\ Head(file.lines) = Header
    /\ writing' = [writing EXCEPT !.stage = "append"]
    /\ UNCHANGED <<created, file>>

\* The next access to the file succeeds.
WriteProceeds ==
    /\ \/ writing.stage = "ensure" /\ EnsureHeader
       \/ writing.stage = "verify" /\ VerifyExistingHeader
       \/ writing.stage = "header" /\ file' = Added(Header, "all") /\ UNCHANGED created
          /\ writing' = [writing EXCEPT !.stage = "append"]
       \/ writing.stage = "append" /\ UNCHANGED <<created, file>>
          /\ writing' = [writing EXCEPT !.stage = "appending"]
    /\ UNCHANGED <<enabled, status, events, exporting, recorded, exported>>

\* appendFile returns, and with it start or record.
Written ==
    /\ writing.stage = "appending"
    /\ file' = Added(Event(events), "all")
    /\ writing' = NotWriting
    /\ status' = IF writing.starting THEN "active" ELSE status
    /\ recorded' = recorded \cup {events}
    /\ UNCHANGED <<created, enabled, events, exporting, exported>>

\* An access to the file fails: so do start, which unlists the session, or record, which
\* does not, and an export that waits for the write.
WriteFails ==
    /\ writing.stage # "idle"
    /\ file' \in OnDisk
    /\ writing' = NotWriting
    /\ status' = "failed" /\ enabled' = (enabled /\ ~writing.starting)
    /\ exporting' = IF exporting.stage = "pending" /\ exporting.awaited = events
                    THEN NotExporting ELSE exporting
    /\ UNCHANGED <<created, events, recorded, exported>>

\* The write that an export waits for is over.
Awaited == writing.stage = "idle" \/ exporting.awaited < events

\* exportRecording: behind the operations of the session that are queued.
ExportRecording ==
    /\ exporting.stage = "idle"
    /\ exporting' = [stage |-> "queued", awaited |-> events, due |-> recorded]
    /\ UNCHANGED <<created, file, enabled, status, writing, events, recorded, exported>>

\* export: behind the write that is pending by then.
Export ==
    /\ \/ /\ exporting.stage = "queued" /\ Awaited
          /\ exporting' = [exporting EXCEPT !.stage = "pending", !.awaited = events]
       \/ /\ exporting.stage = "pending" /\ Awaited
          /\ exporting' = [exporting EXCEPT !.stage = "reading"]
    /\ UNCHANGED <<created, file, enabled, status, writing, events, recorded, exported>>

\* Mutant of Unreadable: lines that are not events are taken for some.
UnreadableHeader(lines) == lines # <<>> /\ Head(lines) # Header

\* parseJsonlRecording: every line must be what it should be.
Unreadable(lines) ==
    lines # <<>> /\ (Head(lines) # Header \/ \E i \in 2..Len(lines) : lines[i].kind # "event")

\* The lines behind the header; nothing has been recorded where no line is.
EventLines(lines) == IF lines = <<>> THEN <<>> ELSE Tail(lines)

\* readEvents, while a later write may be under way.
ReadEvents ==
    /\ exporting.stage = "reading"
    /\ \E content \in OnDisk :
           IF Unreadable(content.lines)
           THEN status' = "failed" /\ UNCHANGED exported
           ELSE /\ exported' = [due |-> exporting.due, events |-> EventLines(content.lines)]
                /\ UNCHANGED status
    /\ exporting' = NotExporting
    /\ UNCHANGED <<created, file, enabled, writing, events, recorded>>

\* The file cannot be read, and the export fails.
ReadFails ==
    /\ exporting.stage = "reading"
    /\ status' = "failed" /\ exporting' = NotExporting
    /\ UNCHANGED <<created, file, enabled, writing, events, recorded, exported>>

Next ==
    \/ Start \/ Record \/ Stop
    \/ WriteProceeds \/ Written \/ WriteFails
    \/ ExportRecording \/ Export \/ ReadEvents \/ ReadFails

Spec == Init /\ [][Next]_vars

-----------------------------------------------------------------------------
\* Correctness.

\* "Exported files must preserve event ordering" and "Corrupted stored recordings fail
\* export" (recorder-transcript-store.md): an export that succeeds has every event whose
\* write had succeeded when it was asked for, and nothing twice or out of order, whatever
\* writes have failed half-way and however often the recording was stopped and started.
ExportIsFaithful ==
    /\ \A n \in exported.due : \E i \in DOMAIN exported.events : exported.events[i].number = n
    /\ \A i \in 2..Len(exported.events) :
           exported.events[i - 1].number < exported.events[i].number
=============================================================================
