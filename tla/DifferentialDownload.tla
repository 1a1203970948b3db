------------------------ MODULE DifferentialDownload ------------------------
(***************************************************************************)
(* DifferentialDownloader and the full download NsisUpdater and            *)
(* AppImageUpdater fall back to.  The executor pipes one task after the    *)
(* other into a digest and a write stream (fileOut).  When it rejects, the *)
(* files are closed and the full download begins, but nothing stops the    *)
(* executor or fileOut: they go on with descriptor numbers that were       *)
(* closed and may name another file by then.                               *)
(*                                                                         *)
(* A block of the new file is its number, anything else is Bad.            *)
(***************************************************************************)
EXTENDS Integers, SequencesExt

CONSTANTS
    Plans,      \* the plans to execute: sequences of "copy" and "download"
    Settings,   \* records of what the environment of a download may be:
                \*   multiRange     options.isUseMultipleRangeRequest
                \*   metadata       is fileMetadataBuffer (an embedded block map) written?
                \*   publisherName  is there a publisher to verify the signature with?
                \*   appOpens       bound: files of its own the application opens
    BatchSize   \* tasks in one multiple range request (1000)

ASSUME DifferentialAssumption ==
    /\ \A p \in Plans : p \in Seq({"copy", "download"})
    /\ Settings \subseteq [multiRange : BOOLEAN, metadata : BOOLEAN,
                           publisherName : BOOLEAN, appOpens : Nat]
    /\ BatchSize \in Nat \ {0}

Bad == 0

VARIABLES
    setting,            \* one of Settings, and it does not change
    tasks, oldMatches,  \* the plan; is the old file the one its block map is of?
    promise,            \* of doDownloadFile: "none", "pending", "resolved", "rejected"
    at, index,          \* the executor, and its task; "unfinished": it waits for a splitter
    piped, written,     \* the blocks that went through the digest, how many are written
    fileOut,            \* "none", "open", "finishing", "destroyed" (closes next), "closed"
    oldFd, newFd, fdList,
    caller,             \* what the task of executeDownload does
    fullFd, fullWritten, \* the full download
    open,               \* what each descriptor number is open for, or "free"
    dest,               \* the blocks of the destination file
    appOpens

inputVars == <<setting, tasks, oldMatches>>
executorVars == <<promise, at, index, piped>>
outVars == <<written, fileOut>>
fdVars == <<oldFd, newFd, fdList>>
fullVars == <<fullFd, fullWritten>>
differentialVars == <<inputVars, executorVars, outVars, fdVars, caller, fullVars,
                      open, dest, appOpens>>

Descriptors == 1..(4 + setting.appOpens)  \* numbers enough for every file

NewFile == [b \in 1..(Len(tasks) + IF setting.metadata THEN 1 ELSE 0) |-> b]

DifferentialInit ==
    /\ setting \in Settings /\ tasks \in Plans /\ oldMatches \in BOOLEAN
    /\ promise = "none" /\ at = "none" /\ index = 1 /\ piped = <<>>
    /\ written = 0 /\ fileOut = "none"
    /\ oldFd = 0 /\ newFd = 0 /\ fdList = {}
    /\ caller = "blockMaps"
    /\ fullFd = 0 /\ fullWritten = 0
    /\ open = [n \in Descriptors |-> "free"]
    /\ dest = <<>>
    /\ appOpens = 0

\* The lowest free number is given to a file that is opened.
Lowest == Min({n \in Descriptors : open[n] = "free"})
OpenAt(n, what) == open' = [open EXCEPT ![n] = what]

-----------------------------------------------------------------------------
\* Before the executor

\* The block maps could not be had, are of another version, or do not add up
\* to the size of the file; or they do.
GetBlockMaps ==
    /\ caller = "blockMaps"
    /\ caller' \in {"openOld", "full"}
    /\ UNCHANGED <<inputVars, executorVars, outVars, fdVars, fullVars, open, dest, appOpens>>

OpenOld ==
    /\ caller = "openOld"
    /\ \/ caller' = "full" /\ UNCHANGED <<oldFd, fdList, open>>
       \/ /\ caller' = "openNew"
          /\ oldFd' = Lowest /\ fdList' = {Lowest} /\ OpenAt(Lowest, "old")
    /\ UNCHANGED <<inputVars, executorVars, outVars, newFd, fullVars, dest, appOpens>>

OpenNew ==
    /\ caller = "openNew"
    /\ \/ /\ promise' = "rejected" /\ caller' = "close"
          /\ UNCHANGED <<at, fileOut, newFd, fdList, open, dest>>
       \/ /\ promise' = "pending" /\ at' = "next" /\ caller' = "wait"
          /\ fileOut' = "open"
          /\ newFd' = Lowest /\ fdList' = fdList \union {Lowest} /\ OpenAt(Lowest, "dest")
          /\ dest' = <<>>
    /\ UNCHANGED <<inputVars, index, piped, written, oldFd, fullVars, appOpens>>

-----------------------------------------------------------------------------
\* The executor

Reject == promise' = IF promise = "pending" THEN "rejected" ELSE promise

\* The tasks one request is for: with two ranges or more in a batch, all of it.
Batch == {t \in DOMAIN tasks : t >= index /\ t < index + BatchSize}
IsBatch == setting.multiRange /\ \E t, u \in Batch : t # u /\ {tasks[t], tasks[u]} = {"download"}
Asked == IF IsBatch THEN Batch ELSE {index}

\* A copy reads whatever oldFd is open for.
Readable == open[oldFd] \in {"old", "app"}
Block(t) ==
    IF tasks[t] = "copy" /\ (~oldMatches \/ open[oldFd] = "app") THEN Bad ELSE t

Pipe(blocks) == piped' = piped \o blocks
PipeTasks(ts) ==
    /\ Pipe([n \in 1..Cardinality(ts) |-> Block(index + n - 1)])
    /\ index' = index + Cardinality(ts)

StartTask ==
    /\ at = "next"
    /\ IF index > Len(tasks)
       THEN /\ at' = "ended"  \* firstStream.end()
            /\ Pipe(IF setting.metadata THEN <<Len(tasks) + 1>> ELSE <<>>)
       ELSE /\ at' = IF IsBatch \/ tasks[index] = "download" THEN "asked" ELSE "copy"
            /\ UNCHANGED piped
    /\ UNCHANGED <<promise, index>>

CopyData ==
    /\ at = "copy"
    /\ \/ Readable /\ PipeTasks({index}) /\ at' = "next" /\ UNCHANGED promise
       \/ Reject /\ at' = "stopped" /\ UNCHANGED <<index, piped>>

\* A response.  The executor of single ranges rejects an error status but
\* handles the response all the same; the other one stops.
ContinuesAfter == ~setting.multiRange

Respond ==
    /\ at = "asked"
    /\ \/ at' = "body" /\ UNCHANGED promise
       \/ Reject /\ at' = IF ContinuesAfter THEN "badBody" ELSE "stopped"
       \/ ~setting.multiRange /\ at' = "badBody" /\ UNCHANGED promise  \* not the range
    /\ UNCHANGED <<index, piped>>

\* The end of a response: what was asked for, DataSplitter copying from oldFd in
\* between, or other bytes.  A multipart response may make the splitter emit an
\* error, but one that ends before the splitter has finished is noticed by nobody:
\* only "error" is listened to.
EndResponse ==
    /\ at \in {"body", "badBody"}
    /\ \/ /\ at = "body" /\ ((\E t \in Asked : tasks[t] = "copy") => Readable)
          /\ PipeTasks(Asked) /\ at' = "next" /\ UNCHANGED promise
       \/ /\ Pipe(<<Bad>>) /\ index' = index + Cardinality(Asked)
          /\ at' = "next" /\ UNCHANGED promise
       \/ /\ IsBatch
          /\ \/ Reject /\ at' = "stopped"
             \/ UNCHANGED promise /\ at' = "unfinished"
          /\ UNCHANGED piped \/ Pipe(<<Bad>>)
          /\ UNCHANGED index

NoErrorHandler == UNCHANGED promise                                  \* mutant

\* An error, an abort by the server or the timeout of 60 seconds.
FailsTheDownload == Reject

RequestFails ==
    /\ at \in {"asked", "body", "badBody"}
    /\ FailsTheDownload
    /\ at' = "stopped"
    /\ \/ UNCHANGED piped
       \/ at # "asked" /\ Pipe(<<Bad>>)
    /\ UNCHANGED index

ExecutorStep ==
    /\ StartTask \/ CopyData \/ Respond \/ EndResponse \/ RequestFails
    /\ UNCHANGED <<inputVars, outVars, fdVars, caller, fullVars, open, dest, appOpens>>

-----------------------------------------------------------------------------
\* fileOut

WriteOut ==
    /\ fileOut = "open" /\ written < Len(piped)
    /\ \/ /\ open[newFd] = "dest"
          /\ dest' = Append(dest, piped[written + 1])
          /\ written' = written + 1 /\ UNCHANGED <<fileOut, promise>>
       \/ /\ open[newFd] = "app"
          /\ written' = written + 1 /\ UNCHANGED <<dest, fileOut, promise>>
       \/ fileOut' = "destroyed" /\ Reject /\ UNCHANGED <<dest, written>>
    /\ UNCHANGED <<newFd, fdList, open>>

FinishOut ==
    /\ fileOut = "open" /\ at = "ended" /\ written = Len(piped)
    /\ fileOut' = "finishing"
    /\ UNCHANGED <<promise, written, newFd, fdList, open, dest>>

ValidatesLength == Len(piped) = Len(NewFile)                         \* mutant

\* The descriptor is closed; after "finish" the digest is validated.
Validates == piped = NewFile

CloseOut ==
    /\ fileOut \in {"finishing", "destroyed"}
    /\ OpenAt(newFd, "free")
    /\ fileOut' = "closed"
    /\ IF fileOut = "finishing"
       THEN /\ fdList' = fdList \ {newFd}
            /\ promise' = IF promise # "pending" THEN promise
                          ELSE IF Validates THEN "resolved" ELSE "rejected"
       ELSE UNCHANGED <<fdList, promise>>
    /\ UNCHANGED <<written, newFd, dest>>

FileOutStep ==
    /\ WriteOut \/ FinishOut \/ CloseOut
    /\ UNCHANGED <<inputVars, at, index, piped, oldFd, caller, fullVars, appOpens>>

-----------------------------------------------------------------------------
\* The caller: closeFiles, then the full download if the promise was rejected

Settled ==
    /\ caller = "wait" /\ promise # "pending"
    /\ caller' = "close"
    /\ UNCHANGED <<fdVars, fullVars, open, dest>>

CloseFile(n) ==
    /\ caller = "close" /\ n \in fdList
    /\ OpenAt(n, "free")
    /\ fdList' = fdList \ {n}
    /\ UNCHANGED <<oldFd, newFd, caller, fullVars, dest>>

FilesClosed ==
    /\ caller = "close" /\ fdList = {}
    /\ caller' = IF promise = "resolved" THEN "verify" ELSE "full"
    /\ UNCHANGED <<fdVars, fullVars, open, dest>>

FullResponds ==
    /\ caller = "full"
    /\ \/ caller' = "failed" /\ UNCHANGED <<fullFd, open, dest>>
       \/ /\ caller' = "fullBody"
          /\ fullFd' = Lowest /\ OpenAt(Lowest, "dest") /\ dest' = <<>>
    /\ UNCHANGED <<fdVars, fullWritten>>

FullWrites ==
    /\ caller = "fullBody" /\ fullWritten < Len(NewFile)
    /\ \/ /\ open[fullFd] \in {"dest", "app"}
          /\ dest' = IF open[fullFd] = "dest" THEN Append(dest, NewFile[fullWritten + 1]) ELSE dest
          /\ fullWritten' = fullWritten + 1
          /\ UNCHANGED caller
       \/ caller' = "failed" /\ UNCHANGED <<fullWritten, dest>>
    /\ UNCHANGED <<fdVars, fullFd, open>>

FullEnds ==
    /\ caller = "fullBody" /\ fullWritten = Len(NewFile)
    /\ OpenAt(fullFd, "free")
    /\ caller' = "verify"
    /\ UNCHANGED <<fdVars, fullVars, dest>>

\* verifySignature reads the file itself.
IsSigned == setting.publisherName => dest = NewFile

Verify ==
    /\ caller = "verify"
    /\ caller' = IF IsSigned THEN "done" ELSE "failed"
    /\ UNCHANGED <<fdVars, fullVars, open, dest>>

CallerStep ==
    /\ Settled \/ (\E n \in Descriptors : CloseFile(n)) \/ FilesClosed
       \/ FullResponds \/ FullWrites \/ FullEnds \/ Verify
    /\ UNCHANGED <<inputVars, executorVars, outVars, appOpens>>

-----------------------------------------------------------------------------
\* The application opens and closes files of its own.
AppFile ==
    /\ \/ appOpens < setting.appOpens /\ OpenAt(Lowest, "app") /\ appOpens' = appOpens + 1
       \/ \E n \in Descriptors : open[n] = "app" /\ OpenAt(n, "free") /\ UNCHANGED appOpens
    /\ UNCHANGED <<inputVars, executorVars, outVars, fdVars, caller, fullVars, dest>>

Start == GetBlockMaps \/ OpenOld \/ OpenNew

DifferentialNext == Start \/ ExecutorStep \/ FileOutStep \/ CallerStep \/ AppFile

\* Every request ends (it answers, fails or times out), the event loop runs
\* every callback.
DifferentialSpec ==
    /\ DifferentialInit /\ [][DifferentialNext]_differentialVars
    /\ WF_differentialVars(Start)
    /\ WF_differentialVars(ExecutorStep)
    /\ WF_differentialVars(FileOutStep)
    /\ WF_differentialVars(CallerStep)

-----------------------------------------------------------------------------
(***************************************************************************)
(* When the task of executeDownload ends well, the destination file is the *)
(* new file: whatever the executor piped, and whatever it still writes     *)
(* after the fallback began.  The digests check what went through the      *)
(* streams, not the file.  One way is left to break it, where there is no  *)
(* publisher to verify the signature with (AppImage, an unsigned NSIS      *)
(* application): a file the application opened in between made the full    *)
(* download get the descriptor number the abandoned stream writes to.      *)
(***************************************************************************)
StreamMeetsFullDownload == fullFd = newFd /\ appOpens > 0 /\ ~setting.publisherName

DestinationIsNewFile == caller = "done" => dest = NewFile \/ StreamMeetsFullDownload

(***************************************************************************)
(* Every download that has begun ends, in a file or in an error: no        *)
(* failure of a request or a write is lost.  The exception is a multipart  *)
(* response that ends while the splitter still waits for more: the promise *)
(* stays pending for ever.                                                 *)
(***************************************************************************)
WaitsForTheSplitter == at = "unfinished" /\ promise = "pending"

DownloadEnds == caller # "blockMaps" ~> caller \in {"done", "failed"} \/ WaitsForTheSplitter
=============================================================================
