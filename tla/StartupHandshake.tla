-------------------------- MODULE StartupHandshake --------------------------
(***************************************************************************)
(* The ConPTY startup handshake (packages/pty-host: windows-conpty-        *)
(* startup-handshake.ts and its use in index.ts): the first                *)
(* device attributes query in the early output of the process is answered  *)
(* and removed, however the output is cut into chunks; everything else     *)
(* reaches the session unchanged, with what is held back when the process  *)
(* exits, and with what is buffered until the session subscribes.          *)
(*                                                                         *)
(* The output is a sequence of characters; the query and the number of     *)
(* characters scanned for it are parameters.                               *)
(***************************************************************************)
EXTENDS Naturals, Sequences, SequencesExt

CONSTANTS Characters,
          Query,       \* DEVICE_ATTRIBUTES_QUERY, of one character or more
          ScanLength,  \* STARTUP_SCAN_LENGTH
          MaxChunk,    \* bound: characters in a chunk
          MaxLength    \* bound: characters of output

VARIABLES
    active,          \* the handshake still scans
    pending,         \* held back: a prefix of the query
    receivedLength,
    exited,          \* the process has exited
    produced,        \* history: the output of the process
    subscribed,      \* the session listens: initialOutputBuffer is null
    buffer,          \* initialOutputBuffer, its chunks joined
    output,          \* what the session received
    responses        \* answers written to the process

vars == <<active, pending, receivedLength, exited, produced, subscribed, buffer, output, responses>>

Slice(data, from, to) == SubSeq(data, from + 1, to)
From(data, start) == Slice(data, start, Len(data))

\* The indexes, from 0, at which data holds the query.
QueryIndexes(data) ==
    {i \in 0..(Len(data) - Len(Query)) : Slice(data, i, i + Len(Query)) = Query}

First(indexes) == CHOOSE i \in indexes : \A k \in indexes : i <= k

\* Mutant of PendingLengths: half a query is not held back.
PendingLengthsOfOne(data, dataStart) ==
    {length \in 1..1 :
        /\ length <= Len(data) /\ length < Len(Query)
        /\ dataStart + Len(data) - length < ScanLength
        /\ From(data, Len(data) - length) = Slice(Query, 0, length)}

\* The suffixes of data with which a query may begin.
PendingLengths(data, dataStart) ==
    {length \in 1..(Len(Query) - 1) :
        /\ length <= Len(data)
        /\ dataStart + Len(data) - length < ScanLength
        /\ From(data, Len(data) - length) = Slice(Query, 0, length)}

FindPendingQueryPrefixLength(data, dataStart) ==
    LET lengths == PendingLengths(data, dataStart)
    IN IF lengths = {} THEN 0 ELSE CHOOSE n \in lengths : \A m \in lengths : n >= m

IsEarly(index) == index < ScanLength

\* The scan goes on below the limit, and as long as a query may have begun.
GoesOn(held, received) == held > 0 \/ received < ScanLength

-----------------------------------------------------------------------------
Init ==
    /\ active = TRUE /\ pending = <<>> /\ receivedLength = 0
    /\ exited = FALSE
    /\ subscribed = FALSE /\ buffer = <<>>
    /\ produced = <<>> /\ output = <<>> /\ responses = 0

\* emitData: buffered until somebody listens.
EmitData(data) ==
    /\ IF subscribed THEN output' = output \o data /\ UNCHANGED buffer
                     ELSE buffer' = buffer \o data /\ UNCHANGED output
    /\ UNCHANGED subscribed

\* A chunk once the scan has ended.
Passed(data) ==
    /\ ~active
    /\ EmitData(data)
    /\ UNCHANGED <<active, pending, receivedLength, responses>>

\* accept while the handshake is active.
Scanned(data) ==
    LET combined == pending \o data
        combinedStart == receivedLength - Len(pending)
        indexes == QueryIndexes(combined)
        queryIndex == First(indexes)
        held == FindPendingQueryPrefixLength(combined, combinedStart)
        found == indexes # {} /\ IsEarly(combinedStart + queryIndex)
    IN
    /\ active
    /\ receivedLength' = receivedLength + Len(data)
    /\ \/ /\ found
          /\ active' = FALSE /\ pending' = <<>>
          /\ EmitData(Slice(combined, 0, queryIndex) \o From(combined, queryIndex + Len(Query)))
          /\ responses' = responses + 1
       \/ /\ ~found
          /\ pending' = From(combined, Len(combined) - held)
          /\ active' = GoesOn(held, receivedLength')
          /\ EmitData(Slice(combined, 0, Len(combined) - held))
          /\ UNCHANGED responses

\* handleProcessData.
HandleProcessData(data) ==
    /\ ~exited /\ Len(produced) + Len(data) <= MaxLength
    /\ produced' = produced \o data
    /\ Passed(data) \/ Scanned(data)
    /\ UNCHANGED exited

\* The process exits: finish, and the trailing output.
Finish ==
    /\ ~exited
    /\ exited' = TRUE /\ active' = FALSE /\ pending' = <<>>
    /\ EmitData(pending)
    /\ UNCHANGED <<receivedLength, produced, responses>>

\* onData: the session subscribes, which may be after the exit.
OnData ==
    /\ ~subscribed
    /\ subscribed' = TRUE /\ buffer' = <<>>
    /\ output' = output \o buffer
    /\ UNCHANGED <<active, pending, receivedLength, exited, produced, responses>>

Chunks == SeqOf(Characters, MaxChunk) \ {<<>>}

Next ==
    \/ \E data \in Chunks : HandleProcessData(data)
    \/ Finish
    \/ OnData

Spec == Init /\ [][Next]_vars

-----------------------------------------------------------------------------
\* Correctness.

\* The positions the scan accepts, on the output as a whole.
Early(data) == {i \in QueryIndexes(data) : i < ScanLength}

Expected(data) ==
    IF Early(data) = {} THEN data
    ELSE Slice(data, 0, First(Early(data))) \o From(data, First(Early(data)) + Len(Query))

\* However the output was cut into chunks, the session receives all of it but the
\* first early query, which is answered once, and is missing at most what is buffered
\* and held back: nothing, once it has subscribed and the process has exited
\* (windows-conpty-startup-handshake.ts, NodePtySession).
OutputIsExpected ==
    /\ output \o buffer \o pending = Expected(produced)
    /\ responses = IF Early(produced) = {} THEN 0 ELSE 1
    /\ subscribed => buffer = <<>>
    /\ exited => pending = <<>>
=============================================================================
