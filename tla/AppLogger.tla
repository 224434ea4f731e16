----------------------------- MODULE AppLogger ------------------------------
(***************************************************************************)
(* The log files of the application (apps/desktop/src/main/logger.ts):     *)
(* main.log and its rotated predecessors.                                  *)
(*                                                                         *)
(* A record is written in one turn, but every step of it is an operation   *)
(* on the file system that can throw, or after which the process can die:  *)
(* the record is then lost, and the next one finds the files as they are.  *)
(* Levels, formatting, redaction and the other sinks are left out.         *)
(***************************************************************************)
EXTENDS Naturals, Sequences, SequencesExt

CONSTANTS MaxFiles,     \* maxFiles: rotated files
          MaxBytes,     \* maxFileBytes
          Sizes,        \* of records
          MaxRecords    \* bound: records that reach a file

VARIABLES
    log,        \* log[i]: the records in main.log.i, main.log for 0; <<>>: no such file
    writing,    \* the write under way: its stage, the file to be rotated, the record's size
    appended,   \* history: number of records that have reached a file
    failed      \* history: a write has failed

vars == <<log, writing, appended, failed>>

NotWriting == [stage |-> "idle", index |-> 0, size |-> 0]

Bytes(records) == FoldLeft(LAMBDA sum, r : sum + r.size, 0, records)

\* log and write: a file that exists is rotated when the record does not fit.
Write(size) ==
    /\ writing.stage = "idle" /\ appended < MaxRecords
    /\ LET fits == log[0] = <<>> \/ Bytes(log[0]) + size <= MaxBytes IN
       writing' = [stage |-> IF fits THEN "append" ELSE "rotate", index |-> MaxFiles - 1,
                   size |-> size]
    /\ UNCHANGED <<log, appended, failed>>

\* Mutant of NextIndex: a file that is missing ends the loop.
NextIndexAfterGap(index) == IF log[index] = <<>> \/ index = 1 THEN 0 ELSE index - 1

\* The loop over the rotated files, after which comes main.log.
NextIndex(index) == index - 1

\* One step of rotateIfNeeded: the next file, or the removal or renaming of one.
Rotate ==
    LET source == writing.index
        target == source + 1
        advanced == IF source = 0 THEN [writing EXCEPT !.stage = "append"]
                                  ELSE [writing EXCEPT !.index = NextIndex(source)] IN
    /\ writing.stage = "rotate"
    /\ \/ /\ log[source] = <<>>
          /\ writing' = advanced /\ UNCHANGED log
       \/ /\ log[source] # <<>> /\ log[target] # <<>>
          /\ log' = [log EXCEPT ![target] = <<>>] /\ UNCHANGED writing
       \/ /\ log[source] # <<>> /\ log[target] = <<>>
          /\ log' = [log EXCEPT ![target] = log[source], ![source] = <<>>]
          /\ writing' = advanced
    /\ UNCHANGED <<appended, failed>>

\* appendFileSync
AppendRecord ==
    /\ writing.stage = "append"
    /\ log' = [log EXCEPT ![0] = Append(@, [number |-> appended + 1, size |-> writing.size])]
    /\ writing' = NotWriting /\ appended' = appended + 1
    /\ UNCHANGED failed

\* A step throws, which only the fallback sink is told, or the process dies.
WriteFails ==
    /\ writing.stage # "idle"
    /\ writing' = NotWriting /\ failed' = TRUE
    /\ UNCHANGED <<log, appended>>

Init ==
    /\ log = [i \in 0..MaxFiles |-> <<>>]
    /\ writing = NotWriting
    /\ appended = 0 /\ failed = FALSE

Next == (\E size \in Sizes : Write(size)) \/ Rotate \/ AppendRecord \/ WriteFails

Spec == Init /\ [][Next]_vars

-----------------------------------------------------------------------------
\* Correctness.

Kept == FlattenSeq([i \in 1..(MaxFiles + 1) |-> log[MaxFiles + 1 - i]])

\* "File log rotation preserves recent records" (app-logger.md:80): read from the oldest
\* file on, the files hold the newest records without a gap, even when a rotation was cut
\* off in the middle; and as long as none has been, a record goes only when every rotated
\* file is in use.
LogIsRecent ==
    /\ \A i \in DOMAIN Kept : Kept[i].number = appended - Len(Kept) + i
    /\ ~failed /\ writing.stage = "idle" /\ Len(Kept) < appended =>
           \A i \in 1..MaxFiles : log[i] # <<>>
=============================================================================
