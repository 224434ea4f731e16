--------------------------- MODULE OutputJournal ----------------------------
(***************************************************************************)
(* The bounded output journals of a captured operation (packages/session-  *)
(* core: bounded-output-journal.ts, captured-operation.ts): one for stdout *)
(* and one for stderr, with one version counter.  An observation reads     *)
(* what is newer than a version that a client has seen.                    *)
(*                                                                         *)
(* A character is its position in its stream and its width in bytes; a     *)
(* journal that is too full drops characters from the left, never a part   *)
(* of one.                                                                 *)
(***************************************************************************)
EXTENDS Integers, Sequences, SequencesExt

CONSTANTS Streams,
          Widths,    \* the widths of characters, in bytes
          MaxBytes,  \* capacity of a journal
          MaxChunk,  \* bound: characters in a chunk
          MaxVersion \* bound: chunks of the process

VARIABLES
    journal,    \* of each stream: entries, retainedBytes, truncatedThroughVersion
    version,    \* version of the operation
    produced    \* history: of each stream, the entries before any trimming

vars == <<journal, version, produced>>

Bytes(data) ==
    LET sum[n \in 0..Len(data)] == IF n = 0 THEN 0 ELSE sum[n - 1] + data[n].width
    IN sum[Len(data)]
Data(entries) == FlattenSeq([i \in DOMAIN entries |-> entries[i].data])

-----------------------------------------------------------------------------
\* Mutant of TrimUtf8Start: a character more than the excess goes.
TrimUtf8StartMore(data, excess) ==
    LET enough == {n \in 0..Len(data) : Bytes(SubSeq(data, 1, n)) >= excess}
        cut == CHOOSE n \in enough : \A m \in enough : n <= m
    IN SubSeq(data, cut + 2, Len(data))

\* The fewest characters from the left that hold the excess bytes go.
TrimUtf8Start(data, excess) ==
    LET enough == {n \in 0..Len(data) : Bytes(SubSeq(data, 1, n)) >= excess}
        cut == CHOOSE n \in enough : \A m \in enough : n <= m
    IN SubSeq(data, cut + 1, Len(data))

\* trim: whole entries go, and a part of the last one that has bytes in excess.
Trim(j) ==
    LET excess == j.retainedBytes - MaxBytes
        Through(n) == Bytes(Data(SubSeq(j.entries, 1, n)))
        enough == {n \in DOMAIN j.entries : Through(n) >= excess}
        last == CHOOSE n \in enough : \A m \in enough : n <= m
        rest == SubSeq(j.entries, last + 1, Len(j.entries))
        kept == TrimUtf8Start(j.entries[last].data, excess - Through(last - 1))
    IN IF excess <= 0 THEN j
       ELSE [entries |-> IF Through(last) = excess THEN rest
                         ELSE <<[j.entries[last] EXCEPT !.data = kept]>> \o rest,
             retainedBytes |-> j.retainedBytes - Through(last) + Bytes(kept),
             truncatedThroughVersion |-> Max({j.truncatedThroughVersion, j.entries[last].version})]

\* An empty chunk is not recorded.
Appended(j, v, data) ==
    IF data = <<>> THEN j
    ELSE Trim([j EXCEPT !.entries = Append(@, [version |-> v, data |-> data]),
                        !.retainedBytes = @ + Bytes(data)])

\* Mutant of Truncated: only whole versions count.
TruncatedAtLeast(j, after) == after + 1 < j.truncatedThroughVersion

Newer(entries, after) ==
    FlattenSeq([i \in DOMAIN entries |->
                    IF entries[i].version > after THEN <<entries[i]>> ELSE <<>>])

Truncated(j, after) == after < j.truncatedThroughVersion

-----------------------------------------------------------------------------
EmptyJournal == [entries |-> <<>>, retainedBytes |-> 0, truncatedThroughVersion |-> -1]

Init ==
    /\ journal = [s \in Streams |-> EmptyJournal]
    /\ version = 0
    /\ produced = [s \in Streams |-> <<>>]

\* The next characters of a stream: its position and the widths of the chunk.
Chunk(s, widths) ==
    [i \in DOMAIN widths |-> [at |-> Len(Data(produced[s])) + i, width |-> widths[i]]]

AcceptOutput(s, widths) ==
    /\ version < MaxVersion
    /\ version' = version + 1
    /\ journal' = [journal EXCEPT ![s] = Appended(@, version + 1, Chunk(s, widths))]
    /\ produced' = [produced EXCEPT
            ![s] = Append(@, [version |-> version + 1, data |-> Chunk(s, widths)])]

Chunks == SeqOf(Widths, MaxChunk)

Next ==
    \E s \in Streams, widths \in Chunks : AcceptOutput(s, widths)

Spec == Init /\ [][Next]_vars

-----------------------------------------------------------------------------
\* Correctness.

\* A journal holds the newest output, as many whole characters as fit, and no more.
RetainsNewest ==
    \A s \in Streams :
        LET all == Data(produced[s])
            fitting == {n \in 0..Len(all) : Bytes(SubSeq(all, n + 1, Len(all))) <= MaxBytes}
            longest == CHOOSE n \in fitting : \A m \in fitting : n <= m
        IN Data(journal[s].entries) = SubSeq(all, longest + 1, Len(all))

\* Every observation, from whatever version a client has seen, reports truncation
\* exactly when some output newer than that version is missing from it: a client that
\* polls with the version it saw last, for both streams, and is never told of
\* truncation has received everything once (captured-operation.ts, observe).
TruncationIsExact ==
    \A s \in Streams : \A after \in -1..version :
        Truncated(journal[s], after) <=>
            Data(Newer(journal[s].entries, after)) # Data(Newer(produced[s], after))

=============================================================================
