------------------------------ MODULE MCOutput ------------------------------
(* Captured operations, and what becomes of output: it is kept in the journals *)
(* of a captured operation, or passes the startup handshake of a terminal, or  *)
(* holds the markers of a shell, or is recorded in a file, or it is the        *)
(* application's own and goes to the log files.  A behaviour exercises one of  *)
(* the six.                                                                    *)
EXTENDS CapturedOperation, Sequences

CONSTANTS Streams, Widths, MaxBytes, MaxChunk, MaxVersion,
          Characters, Query, ScanLength, MaxCharacters, MaxLength,
          Shells, ExitCodes, Directories, MaxLines, NoId,
          MaxFiles, MaxFileBytes, Sizes, MaxRecords, MaxEvents

ASSUME WidthsAssumption == Widths \subseteq Nat \ {0}
ASSUME JournalAssumption == {MaxBytes, MaxChunk, MaxVersion} \subseteq Nat
ASSUME NoIdAssumption == NoId \notin Nat
ASSUME QueryAssumption == Query \in Seq(Characters) /\ Query # <<>>
ASSUME ScanLengthAssumption == ScanLength \in Nat
ASSUME MaxFilesAssumption == MaxFiles \in Nat \ {0}

\* A query of three characters, two of them the same.
TheQuery == <<"e", "e", "c">>

VARIABLES subject,
          journal, journalVersion, produced,
          active, pending, receivedLength, exited, terminalOutput, subscribed, buffer, output,
          responses,
          shell, channel, tracker,
          log, writing, appended, failed,
          created, file, enabled, recording, recordWriting, events, exporting, recordedEvents,
          exported

journalVars == <<journal, journalVersion, produced>>
handshakeVars == <<active, pending, receivedLength, exited, terminalOutput, subscribed, buffer, output, responses>>
shellVars == <<shell, channel, tracker>>
loggerVars == <<log, writing, appended, failed>>
recorderVars == <<created, file, enabled, recording, recordWriting, events, exporting, recordedEvents,
                  exported>>
mcvars == <<subject, vars, journalVars, handshakeVars, shellVars, loggerVars, recorderVars>>

Journals == INSTANCE OutputJournal WITH version <- journalVersion

Handshake == INSTANCE StartupHandshake WITH
    MaxChunk <- MaxCharacters, produced <- terminalOutput

Shell == INSTANCE ShellIntegration

Logger == INSTANCE AppLogger WITH MaxBytes <- MaxFileBytes

Recorder == INSTANCE FileRecorder WITH
    status <- recording, writing <- recordWriting, recorded <- recordedEvents

MCInit ==
    /\ Init /\ Journals!Init /\ Handshake!Init /\ Shell!Init /\ Logger!Init /\ Recorder!Init
    /\ subject \in {"operation", "journal", "handshake", "logger", "recorder"} \X {"zsh"} \X {"home"}
                    \cup {"shell"} \X Shells \X Directories
    /\ shell.kind = subject[2] /\ shell.cwd = subject[3]

Others == <<subject, journalVars, handshakeVars, shellVars, loggerVars, recorderVars>>

MCNext ==
    \/ subject[1] = "operation" /\ Next /\ UNCHANGED Others
    \/ /\ UNCHANGED <<subject, vars>>
       /\ \/ /\ subject[1] = "journal" /\ Journals!Next
             /\ UNCHANGED <<handshakeVars, shellVars, loggerVars, recorderVars>>
          \/ /\ subject[1] = "handshake" /\ Handshake!Next
             /\ UNCHANGED <<journalVars, shellVars, loggerVars, recorderVars>>
          \/ /\ subject[1] = "shell" /\ Shell!Next
             /\ UNCHANGED <<journalVars, handshakeVars, loggerVars, recorderVars>>
          \/ /\ subject[1] = "logger" /\ Logger!Next
             /\ UNCHANGED <<journalVars, handshakeVars, shellVars, recorderVars>>
          \/ /\ subject[1] = "recorder" /\ Recorder!Next
             /\ UNCHANGED <<journalVars, handshakeVars, shellVars, loggerVars>>

\* The fairness of the captured operation (FairSpec); the others are checked for safety.
MCSpec ==
    /\ MCInit /\ [][MCNext]_mcvars
    /\ WF_mcvars((SpawnSucceeded \/ SpawnFailed) /\ UNCHANGED Others)
    /\ WF_mcvars(RunStep /\ UNCHANGED Others)
    /\ WF_mcvars(Expire /\ UNCHANGED Others)
    /\ \A c \in Calls : WF_mcvars(CloseStep(c) /\ UNCHANGED Others)

\* A journal holds the newest output, as many whole characters as fit, and no more
\* (bounded-output-journal.ts, append and trim).
RetainsNewest == Journals!RetainsNewest

\* Every observation reports truncation exactly when some output newer than what its
\* client has seen is missing from it (captured-operation.ts, observe).
TruncationIsExact == Journals!TruncationIsExact

\* However the output is cut into chunks, and whenever it subscribes, the session receives
\* all of it but the first early query, which is answered once (windows-conpty-startup-handshake.ts).
OutputIsExpected == Handshake!OutputIsExpected

\* When its markers have arrived, what an available integration reports is what the
\* shell does, and otherwise nothing is claimed (shell-integration, tracker.ts).
ReportsShell == Shell!ReportsShell

\* The log files hold the newest records without a gap, although rotations are cut off in
\* the middle (logger.ts, rotateIfNeeded).
LogIsRecent == Logger!LogIsRecent

\* An export has every event that was recorded before it, in order, or it fails, although
\* writes fail half-way and the recording is stopped and started again (packages/recorder).
ExportIsFaithful == Recorder!ExportIsFaithful
=============================================================================
