---------------------------- MODULE DataSplitter ----------------------------
(***************************************************************************)
(* DataSplitter: takes the body of a multipart/byteranges response apart   *)
(* and writes the new file, each downloaded part and the ranges to copy    *)
(* between them in the order of the tasks.  The body arrives in chunks cut *)
(* anywhere.  _write calls back when a chunk is handled, so chunks are     *)
(* handled one after another; within a chunk a step is one turn of the     *)
(* loop of handleData.                                                     *)
(*                                                                         *)
(* A byte is what the splitter can tell of it: part of a boundary line, of *)
(* a header, the first or second half of the CRLFCRLF that ends a header,  *)
(* the closing dashes, or a byte of a task's range.                        *)
(***************************************************************************)
EXTENDS Integers, SequencesExt

CONSTANTS
    TaskLists,       \* the task lists: sequences of [kind, size], as planned
    BoundaryLength,  \* bytes of CRLF--boundary
    HeaderLength,    \* bytes of a part's header before its CRLFCRLF
    SplitHeaders     \* may a chunk end between the halves of a CRLFCRLF?

Sep == <<"sep", 0, 0>>    Hdr == <<"hdr", 0, 0>>    Dash == <<"dash", 0, 0>>
End1 == <<"end", 1, 0>>   End2 == <<"end", 2, 0>>

ASSUME SplitterAssumption ==
    /\ BoundaryLength \in Nat /\ BoundaryLength > 2
    /\ HeaderLength \in Nat
    /\ SplitHeaders \in BOOLEAN
    /\ TaskLists \subseteq Seq([kind : {"copy", "download"}, size : Nat \ {0}])

VARIABLES
    taskList,                \* options.tasks from options.start to options.end
    received,                \* bytes of the body received so far
    chunk, start,            \* the chunk in work, and where the work is in it
    splitterAt,              \* "wait" for a chunk, or in the loop: "next", "body"
    partIndex, headerPending, ignoreByteCount, remainingPartDataCount, actualPartLength,
    out,                     \* what was written to the new file
    result                   \* "pending", "resolved" (finishHandler) or "rejected"

parserVars == <<partIndex, headerPending, ignoreByteCount, remainingPartDataCount, actualPartLength>>
splitterVars == <<taskList, received, chunk, start, splitterAt, parserVars, out, result>>

-----------------------------------------------------------------------------
\* The response

Repeat(x, n) == [k \in 1..n |-> x]
Bytes(t) == [k \in 1..taskList[t].size |-> <<taskList[t].kind, t, k>>]

\* partIndexToTaskIndex and partIndexToLength, as the loop of doExecuteTasks fills them: parts
\* are numbered from 0, tasks (sequences) from 1.
Downloads ==
    LET parts[t \in 0..Len(taskList)] ==
            IF t = 0 THEN <<>>
            ELSE IF taskList[t].kind = "download" THEN Append(parts[t - 1], t) ELSE parts[t - 1]
    IN  parts[Len(taskList)]
PartCount == Len(Downloads)
TaskOf(part) == Downloads[part + 1]
PartLength(part) == taskList[TaskOf(part)].size

Part(part) == Repeat(Sep, IF part = 0 THEN BoundaryLength - 2 ELSE BoundaryLength)
              \o Repeat(Hdr, HeaderLength) \o <<End1, End2>> \o Bytes(TaskOf(part))
Body == FlattenSeq([n \in 1..PartCount |-> Part(n - 1)])
        \o Repeat(Sep, BoundaryLength) \o <<Dash, Dash>>

\* What the tasks make together.
Rebuilt == FlattenSeq([t \in DOMAIN taskList |-> Bytes(t)])

-----------------------------------------------------------------------------
SplitterInit ==
    /\ taskList \in TaskLists
    /\ PartCount >= 2       \* else doExecuteTasks needs no splitter
    /\ received = 0 /\ chunk = <<>> /\ start = 0 /\ splitterAt = "wait"
    /\ partIndex = -1
    /\ headerPending = FALSE
    /\ ignoreByteCount = BoundaryLength - 2
    /\ remainingPartDataCount = 0 /\ actualPartLength = 0
    /\ out = <<>>
    /\ result = "pending"

Least(a, b) == IF a < b THEN a ELSE b
Slice(from, to) == SubSeq(chunk, from + 1, to)

\* searchHeaderListEnd: where the data begins, or -1.  What is left of the chunk
\* goes to headerListBuffer, which nothing ever reads.
HeaderListEnd(c, from) ==
    LET found == {k \in from..(Len(c) - 2) : c[k + 1] = End1 /\ c[k + 2] = End2}
    IN  IF found = {} THEN -1 ELSE Min(found) + 2

Finish(how) == result' = how /\ splitterAt' = "wait"

\* _write: a chunk arrives.  handleData up to the loop.  After the last part
\* the callback is not called any more and nothing else is received.
Receive(n) ==
    LET c == SubSeq(Body, received + 1, received + n)
        toIgnore == Least(ignoreByteCount, n)
        toRead == IF ignoreByteCount > 0 THEN 0 ELSE Least(remainingPartDataCount, n)
        from == toIgnore + toRead
    IN  /\ splitterAt = "wait" /\ result = "pending"
        /\ received + n <= Len(Body)
        /\ SplitHeaders \/ Last(c) # End1
        /\ received' = received + n
        /\ ignoreByteCount' = ignoreByteCount - toIgnore
        /\ remainingPartDataCount' = remainingPartDataCount - toRead
        /\ actualPartLength' = actualPartLength + toRead
        /\ out' = out \o SubSeq(c, 1, toRead)
        /\ chunk' = c
        /\ \/ from = n /\ splitterAt' = "wait" /\ start' = 0 /\ UNCHANGED headerPending
           \/ /\ from < n /\ ~headerPending
              /\ splitterAt' = "next" /\ start' = from /\ UNCHANGED headerPending
           \/ /\ from < n /\ headerPending
              /\ LET e == HeaderListEnd(c, from)
                 IN IF e = -1
                    THEN splitterAt' = "wait" /\ start' = 0 /\ UNCHANGED headerPending
                    ELSE splitterAt' = "body" /\ start' = e /\ headerPending' = FALSE
        /\ UNCHANGED <<taskList, partIndex, result>>

\* The loop, a new part: copy the ranges before it, then look for its data.
Copies(from, to) == FlattenSeq([n \in 1..(to - from) |-> Bytes(from + n - 1)])

FirstCopyAfterPart == IF partIndex = -1 THEN 2 ELSE TaskOf(partIndex) + 1   \* mutant
FirstCopy == IF partIndex = -1 THEN 1 ELSE TaskOf(partIndex) + 1
NextTask == IF partIndex + 1 = PartCount THEN Len(taskList) + 1 ELSE TaskOf(partIndex + 1)

LengthMatches(part) == actualPartLength = PartLength(part)

NextPart ==
    /\ splitterAt = "next"
    /\ partIndex' = partIndex + 1
    /\ out' = out \o Copies(FirstCopy, NextTask)
    /\ IF partIndex' = PartCount
       THEN /\ Finish(IF LengthMatches(partIndex) THEN "resolved" ELSE "rejected")
            /\ actualPartLength' = 0
            /\ UNCHANGED <<headerPending, start>>
       ELSE LET e == HeaderListEnd(chunk, start)
            IN /\ IF e = -1
                  THEN splitterAt' = "wait" /\ headerPending' = TRUE /\ UNCHANGED start
                  ELSE splitterAt' = "body" /\ start' = e /\ UNCHANGED headerPending
               /\ UNCHANGED <<actualPartLength, result>>
    /\ UNCHANGED <<taskList, received, chunk, ignoreByteCount, remainingPartDataCount>>

AllOfBoundary(end) == BoundaryLength                                        \* mutant

\* The loop, the data of a part: what this chunk has of it; then, if the part
\* ends here, over the next boundary.
BytesToIgnore(end) == BoundaryLength - (Len(chunk) - end)

PartData ==
    LET length == PartLength(partIndex)
        end == start + length
        effectiveEnd == Least(end, Len(chunk))
        remaining == length - (effectiveEnd - start)
    IN  /\ splitterAt = "body"
        /\ IF partIndex # 0 /\ ~LengthMatches(partIndex - 1)
           THEN /\ Finish("rejected")
                /\ UNCHANGED <<out, actualPartLength, remainingPartDataCount,
                               ignoreByteCount, start>>
           ELSE /\ actualPartLength' =
                       (IF partIndex = 0 THEN actualPartLength ELSE 0) + (effectiveEnd - start)
                /\ out' = out \o Slice(start, effectiveEnd)
                /\ remainingPartDataCount' = remaining
                /\ \/ remaining > 0 /\ splitterAt' = "wait" /\ UNCHANGED <<ignoreByteCount, start>>
                   \/ /\ remaining = 0 /\ end + BoundaryLength >= Len(chunk)
                      /\ ignoreByteCount' = BytesToIgnore(end)
                      /\ splitterAt' = "wait" /\ UNCHANGED start
                   \/ /\ remaining = 0 /\ end + BoundaryLength < Len(chunk)
                      /\ start' = end + BoundaryLength
                      /\ splitterAt' = "next" /\ UNCHANGED ignoreByteCount
                /\ UNCHANGED result
        /\ UNCHANGED <<taskList, received, chunk, partIndex, headerPending>>

SplitterNext == (\E n \in 1..Len(Body) : Receive(n)) \/ NextPart \/ PartData

SplitterSpec == SplitterInit /\ [][SplitterNext]_splitterVars

-----------------------------------------------------------------------------
(***************************************************************************)
(* However the response is cut into chunks, what is written is the new     *)
(* file so far: no byte of a boundary or a header, nothing twice, nothing  *)
(* out of order; and when the splitter is finished, all of it.             *)
(***************************************************************************)
WritesTheTasks ==
    /\ IsPrefix(out, Rebuilt)
    /\ result = "resolved" => out = Rebuilt

(***************************************************************************)
(* The whole response was received: the splitter has finished (else nobody *)
(* settles the download), and it found nothing wrong with the response.    *)
(***************************************************************************)
CompletesAtEnd ==
    /\ received = Len(Body) /\ splitterAt = "wait" => result # "pending"
    /\ result # "rejected"
=============================================================================
