---------------------------- MODULE DownloadCache ----------------------------
(***************************************************************************)
(* The download cache of electron-updater: AppUpdater.executeDownload with *)
(* DownloadedUpdateHelper, over the directory <cache>/pending.             *)
(*                                                                         *)
(* A download is one call of downloadUpdate.  It moves between the awaits  *)
(* of executeDownload; whatever other downloads, a cancellation or a crash *)
(* of the process do in between is an interleaving of these actions.       *)
(*                                                                         *)
(* Files are inodes: a directory entry names the download that opened      *)
(* (created or truncated) the inode last, and "written" says how far that  *)
(* download got, so an entry can be renamed or replaced while somebody is  *)
(* still writing to what it named.                                         *)
(***************************************************************************)
EXTENDS Naturals, FiniteSets

CONSTANTS
    Releases,     \* what the update server may offer (UpdateInfo with its file)
    Downloads,    \* the calls of downloadUpdate, over all runs of the app
    Names,        \* base names of update files
    FileName,     \* getCacheUpdateFileName of each release
    Sha,          \* sha512 of each release's file
    Overlap,      \* may the app start a download while another is unsettled?
    LateWriters,  \* ... or while the request of a cancelled one is still alive?
    MaxCrashes,   \* bound on the crashes of the process
    None, Torn    \* no value; a file whose writing was interrupted

ASSUME CacheAssumption ==
    /\ FileName \in [Releases -> Names]
    /\ Overlap \in BOOLEAN
    /\ LateWriters \in BOOLEAN
    /\ MaxCrashes \in Nat
    /\ None \notin Releases \cup Downloads \cup Names \cup {Torn}
    /\ Torn \notin Releases

VARIABLES
    pc,                 \* where each download is, named for the await it is at
    rel,                \* the release a download was started for
    dest,               \* its local variable updateFile (base name)
    cancelled,          \* downloads whose CancellationToken was cancelled
    late,               \* cancelled downloads whose HTTP request is still alive
    written,            \* what each download has written to the inode it opened
    dirty,              \* inodes that also got bytes of another file
    tempFile,           \* pending/temp-<name>
    updateFile,         \* pending/<name>
    infoFile,           \* pending/update-info.json
    file,               \* DownloadedUpdateHelper._file
    versionInfo,        \* DownloadedUpdateHelper.versionInfo (and .fileInfo)
    downloadedFileInfo, \* DownloadedUpdateHelper._downloadedFileInfo
    crashes

downloadVars == <<pc, rel, dest, cancelled>>
writerVars   == <<late, written, dirty>>
dirVars      == <<tempFile, updateFile, infoFile>>
helperVars   == <<file, versionInfo, downloadedFileInfo>>
cacheVars    == <<downloadVars, writerVars, dirVars, helperVars, crashes>>

Settled == {"done", "failed", "lost"}
Running == {"validate", "exists", "readInfo", "hash", "clean", "createTemp",
            "request", "writing", "rename", "renamed", "saveInfo", "saving",
            "clearing", "emptying", "unlinking"}

CacheTypeOK ==
    /\ pc \in [Downloads -> {"idle"} \cup Running \cup Settled]
    /\ rel \in [Downloads -> Releases \cup {None}]
    /\ dest \in [Downloads -> Names \cup {None}]
    /\ cancelled \subseteq Downloads
    /\ late \subseteq Downloads
    /\ written \in [Downloads -> {"none", "partial", "full"}]
    /\ dirty \subseteq Downloads
    /\ tempFile \in [Names -> Downloads \cup {None}]
    /\ updateFile \in [Names -> Downloads \cup {None}]
    /\ infoFile \in Releases \cup {None, Torn}
    /\ file \in Names \cup {None}
    /\ versionInfo \in Releases \cup {None}
    /\ downloadedFileInfo \in Releases \cup {None}
    /\ crashes \in 0..MaxCrashes

CacheInit ==
    /\ pc = [d \in Downloads |-> "idle"]
    /\ rel = [d \in Downloads |-> None]
    /\ dest = [d \in Downloads |-> None]
    /\ cancelled = {} /\ late = {} /\ dirty = {}
    /\ written = [d \in Downloads |-> "none"]
    /\ tempFile = [n \in Names |-> None]
    /\ updateFile = [n \in Names |-> None]
    /\ infoFile = None
    /\ file = None /\ versionInfo = None /\ downloadedFileInfo = None
    /\ crashes = 0

-----------------------------------------------------------------------------
\* What the directory holds

\* The inode opened by d holds the whole file of release r and nothing else.
Holds(d, r) == /\ written[d] = "full"
               /\ d \notin dirty
               /\ Sha[rel[d]] = Sha[r]

\* pending/<n> is the whole file of release r.
Complete(n, r) == updateFile[n] # None /\ Holds(updateFile[n], r)

StillWriting(d) == pc[d] = "writing" \/ (d \in late /\ written[d] = "partial")

\* One entry of the directory is unlinked.
RemoveEntry ==
    \/ /\ \E n \in Names : tempFile[n] # None /\ tempFile' = [tempFile EXCEPT ![n] = None]
       /\ UNCHANGED <<updateFile, infoFile>>
    \/ /\ \E n \in Names : updateFile[n] # None /\ updateFile' = [updateFile EXCEPT ![n] = None]
       /\ UNCHANGED <<tempFile, infoFile>>
    \/ /\ infoFile # None /\ infoFile' = None
       /\ UNCHANGED <<tempFile, updateFile>>

\* createWriteStream(temp): creates the file or truncates the one that is there.
OpenTemp(d) ==
    LET n == FileName[rel[d]]
        o == tempFile[n]
    IN  /\ tempFile' = [tempFile EXCEPT ![n] = d]
        /\ written' = [written EXCEPT ![d] = "partial"]
        /\ dirty' = IF o # None /\ StillWriting(o) /\ Sha[rel[o]] # Sha[rel[d]]
                    THEN dirty \cup {d} ELSE dirty

Goto(d, label) == pc' = [pc EXCEPT ![d] = label]

\* setDownloadedFile: its synchronous part, and what it saves.
SetFields(d) == /\ file' = dest[d]
                /\ versionInfo' = rel[d]
                /\ downloadedFileInfo' = rel[d]

SavesPath(d) == dest[d]                              \* mutant: the wrong value
InfoToSave(d) == rel[d]

\* clear(): _downloadedFileInfo is not reset.
ForgetsVersion == versionInfo' = None /\ UNCHANGED file    \* mutant: keeps _file
ForgetUpdate == file' = None /\ versionInfo' = None

Active == {d \in Downloads : pc[d] \in Running}

-----------------------------------------------------------------------------
\* executeDownload up to the temporary file

\* downloadUpdate for the release the updater knows of; the awaits before the
\* validation (helper creation, ensureDir) change nothing else.
StartDownload(d, r) ==
    /\ pc[d] = "idle"
    /\ Overlap \/ Active = {}
    /\ LateWriters \/ late = {}
    /\ Goto(d, "validate")
    /\ rel' = [rel EXCEPT ![d] = r]
    /\ dest' = [dest EXCEPT ![d] = FileName[r]]
    /\ UNCHANGED <<cancelled, writerVars, dirVars, helperVars, crashes>>

\* isEqual on the UpdateInfo and the file's info.
RemembersAny(d) == versionInfo # None                \* mutant: no comparison
RemembersRelease(d) == versionInfo = rel[d]

\* validateDownloadedPath: this instance remembers a download to that path.
Validate(d) ==
    /\ pc[d] = "validate"
    /\ IF versionInfo # None /\ file = dest[d]
       THEN Goto(d, IF RemembersRelease(d) THEN "exists" ELSE "createTemp")
       ELSE Goto(d, "readInfo")
    /\ UNCHANGED <<rel, dest, cancelled, writerVars, dirVars, helperVars, crashes>>

\* pathExists: if the file is there, done(false) announces it again.
CheckExists(d) ==
    /\ pc[d] = "exists"
    /\ IF updateFile[dest[d]] # None
       THEN Goto(d, "done") /\ SetFields(d)
       ELSE Goto(d, "createTemp") /\ UNCHANGED helperVars
    /\ UNCHANGED <<rel, dest, cancelled, writerVars, dirVars, crashes>>

\* Mutant: only a missing file is caught, a torn one leaves the promise pending.
ReadInfoHangs(d) ==
    /\ pc[d] = "readInfo"
    /\ infoFile # Torn
    /\ \/ infoFile = None /\ Goto(d, "createTemp") /\ UNCHANGED dest
       \/ /\ infoFile \in Releases
          /\ IF Sha[infoFile] = Sha[rel[d]]
             THEN Goto(d, "hash") /\ dest' = [dest EXCEPT ![d] = FileName[infoFile]]
             ELSE Goto(d, "clean") /\ UNCHANGED dest
    /\ UNCHANGED <<rel, cancelled, writerVars, dirVars, helperVars, crashes>>

\* getValidCachedUpdateFile, reading update-info.json of an earlier run.
ReadInfo(d) ==
    /\ pc[d] = "readInfo"
    /\ \/ infoFile = None /\ Goto(d, "createTemp") /\ UNCHANGED dest
       \/ infoFile = Torn /\ Goto(d, "clean") /\ UNCHANGED dest
       \/ /\ infoFile \in Releases
          /\ IF Sha[infoFile] = Sha[rel[d]]
             THEN Goto(d, "hash") /\ dest' = [dest EXCEPT ![d] = FileName[infoFile]]
             ELSE Goto(d, "clean") /\ UNCHANGED dest
    /\ UNCHANGED <<rel, cancelled, writerVars, dirVars, helperVars, crashes>>

\* The cached file must exist and hash to the offered sha512; then done(false).
CachedFileExists(d) == updateFile[dest[d]] # None    \* mutant: no hash
CachedFileValid(d) == Complete(dest[d], rel[d])

HashFile(d) ==
    /\ pc[d] = "hash"
    /\ IF CachedFileValid(d)
       THEN Goto(d, "done") /\ SetFields(d) /\ UNCHANGED dest
       ELSE /\ Goto(d, "clean")
            /\ dest' = [dest EXCEPT ![d] = FileName[rel[d]]]
            /\ UNCHANGED helperVars
    /\ UNCHANGED <<rel, cancelled, writerVars, dirVars, crashes>>

\* Reading it fails (it is there, but gone when the stream opens it): hashFile, and
\* with it executeDownload, rejects before the try block, nothing is removed.
FailHash(d) ==
    /\ pc[d] = "hash"
    /\ Goto(d, "failed")
    /\ UNCHANGED <<rel, dest, cancelled, writerVars, dirVars, helperVars, crashes>>

\* cleanCacheDirForPendingUpdate: emptyDir removes the entries one by one.
EmptyDir(d) ==
    /\ pc[d] \in {"clean", "emptying"}
    /\ RemoveEntry
    /\ UNCHANGED <<downloadVars, writerVars, helperVars, crashes>>

\* It ended, or failed on some entry: errors are ignored.  The helper's fields
\* stay as they are.
EndClean(d) ==
    /\ pc[d] = "clean"
    /\ Goto(d, "createTemp")
    /\ UNCHANGED <<rel, dest, cancelled, writerVars, dirVars, helperVars, crashes>>

\* createTempUpdateFile: unlink temp-<name>, ENOENT is fine.
CreateTemp(d) ==
    /\ pc[d] = "createTemp"
    /\ tempFile' = [tempFile EXCEPT ![dest[d]] = None]
    /\ Goto(d, "request")
    /\ UNCHANGED <<rel, dest, cancelled, writerVars, updateFile, infoFile, helperVars, crashes>>

-----------------------------------------------------------------------------
\* The task: HttpExecutor.download to the temporary file

\* The response arrives and is piped to the file.  createPromise rejects at once
\* if the token was cancelled before.
Respond(d) ==
    /\ pc[d] = "request"
    /\ IF d \in cancelled
       THEN Goto(d, "clearing") /\ UNCHANGED <<written, dirty, tempFile>>
       ELSE Goto(d, "writing") /\ OpenTemp(d)
    /\ UNCHANGED <<rel, dest, cancelled, late, updateFile, infoFile, helperVars, crashes>>

\* The stream ended, its digest matched and the file is closed.
AcceptsAny == {"partial", "full"}                    \* mutant: no digest
Accepts == {"full"}

FinishWriting(d) ==
    /\ pc[d] = "writing"
    /\ \E size \in Accepts : written' = [written EXCEPT ![d] = size]
    /\ Goto(d, "rename")
    /\ UNCHANGED <<rel, dest, cancelled, late, dirty, dirVars, helperVars, crashes>>

\* Status >= 400, lost network, digest mismatch, bad signature, failed rename.
FailTask(d) ==
    /\ pc[d] \in {"request", "writing", "rename"}
    /\ Goto(d, "clearing")
    /\ UNCHANGED <<rel, dest, cancelled, writerVars, dirVars, helperVars, crashes>>

\* CancellationToken.cancel: the promise of a pending request rejects at once,
\* but doDownload registers no onCancel, so the request itself goes on.
Cancel(d) ==
    /\ d \in Active \ cancelled
    /\ cancelled' = cancelled \cup {d}
    /\ IF pc[d] \in {"request", "writing"}
       THEN Goto(d, "clearing") /\ late' = late \cup {d}
       ELSE UNCHANGED <<pc, late>>
    /\ UNCHANGED <<rel, dest, written, dirty, dirVars, helperVars, crashes>>

\* The late request: its response opens the file, and it may finish or break.
LateRespond(d) ==
    /\ d \in late /\ written[d] = "none"
    /\ OpenTemp(d)
    /\ UNCHANGED <<downloadVars, late, updateFile, infoFile, helperVars, crashes>>

LateEnd(d) ==
    /\ d \in late
    /\ late' = late \ {d}
    /\ written' \in {written} \cup
                    IF written[d] = "partial" THEN {[written EXCEPT ![d] = "full"]} ELSE {}
    /\ UNCHANGED <<downloadVars, dirty, dirVars, helperVars, crashes>>

-----------------------------------------------------------------------------
\* executeDownload after the task

\* rename(temp, updateFile) moves whatever the entry names now.
Rename(d) ==
    /\ pc[d] = "rename"
    /\ LET n == dest[d] IN
       IF tempFile[n] = None
       THEN Goto(d, "clearing") /\ UNCHANGED <<tempFile, updateFile>>
       ELSE /\ Goto(d, "renamed")
            /\ updateFile' = [updateFile EXCEPT ![n] = tempFile[n]]
            /\ tempFile' = [tempFile EXCEPT ![n] = None]
    /\ UNCHANGED <<rel, dest, cancelled, writerVars, infoFile, helperVars, crashes>>

\* done(true): setDownloadedFile sets the fields, then writes update-info.json.
SetDownloadedFile(d) ==
    /\ pc[d] = "renamed"
    /\ SetFields(d)
    /\ Goto(d, "saveInfo")
    /\ UNCHANGED <<rel, dest, cancelled, writerVars, dirVars, crashes>>

\* outputJson opens (truncates) the file ...
OpenInfo(d) ==
    /\ pc[d] = "saveInfo"
    /\ infoFile' = Torn
    /\ Goto(d, "saving")
    /\ UNCHANGED <<rel, dest, cancelled, writerVars, tempFile, updateFile, helperVars, crashes>>

\* ... and writes it; then taskOptions.done emits update-downloaded.
SaveInfo(d) ==
    /\ pc[d] = "saving"
    /\ infoFile' = InfoToSave(d)
    /\ Goto(d, "done")
    /\ UNCHANGED <<rel, dest, cancelled, writerVars, tempFile, updateFile, helperVars, crashes>>

\* outputJson rejects: done(true) is outside the try block, nothing is removed.
FailSave(d) ==
    /\ pc[d] \in {"saveInfo", "saving"}
    /\ Goto(d, "failed")
    /\ UNCHANGED <<rel, dest, cancelled, writerVars, dirVars, helperVars, crashes>>

\* removeFileIfAny: clear() forgets the file (not _downloadedFileInfo) ...
ClearFields(d) ==
    /\ pc[d] = "clearing"
    /\ ForgetUpdate
    /\ Goto(d, "emptying")
    /\ UNCHANGED <<rel, dest, cancelled, writerVars, dirVars, downloadedFileInfo, crashes>>

\* ... empties the directory (EmptyDir, errors ignored), then unlinks the update
\* file (errors ignored) and throws the error again.
EndClear(d) ==
    /\ pc[d] = "emptying"
    /\ Goto(d, "unlinking")
    /\ UNCHANGED <<rel, dest, cancelled, writerVars, dirVars, helperVars, crashes>>

UnlinkUpdateFile(d) ==
    /\ pc[d] = "unlinking"
    /\ updateFile' \in {updateFile, [updateFile EXCEPT ![dest[d]] = None]}
    /\ Goto(d, "failed")
    /\ UNCHANGED <<rel, dest, cancelled, writerVars, tempFile, infoFile, helperVars, crashes>>

-----------------------------------------------------------------------------
\* The process ends: what it had in memory is lost.
ProcessEnds ==
    /\ pc' = [d \in Downloads |-> IF pc[d] \in Running THEN "lost" ELSE pc[d]]
    /\ late' = {}
    /\ file' = None /\ versionInfo' = None /\ downloadedFileInfo' = None
    /\ UNCHANGED <<rel, dest, cancelled, written, dirty>>

Crash ==
    /\ crashes < MaxCrashes
    /\ crashes' = crashes + 1
    /\ ProcessEnds
    /\ UNCHANGED dirVars

\* What a download does by itself once started.
DownloadStep(d) ==
    \/ Validate(d) \/ CheckExists(d) \/ ReadInfo(d) \/ HashFile(d) \/ FailHash(d)
    \/ EmptyDir(d) \/ EndClean(d)
    \/ CreateTemp(d) \/ Respond(d) \/ FinishWriting(d) \/ FailTask(d)
    \/ Rename(d) \/ SetDownloadedFile(d) \/ OpenInfo(d) \/ SaveInfo(d) \/ FailSave(d)
    \/ ClearFields(d) \/ EndClear(d) \/ UnlinkUpdateFile(d)

CacheNext ==
    \/ \E d \in Downloads, r \in Releases : StartDownload(d, r)
    \/ \E d \in Downloads : DownloadStep(d)
    \/ \E d \in Downloads : Cancel(d) \/ LateRespond(d) \/ LateEnd(d)
    \/ Crash

CacheSpec == CacheInit /\ [][CacheNext]_cacheVars

\* Every await of executeDownload ends: the file system answers, and a request
\* ends with a response, an error or a timeout.
FairCacheSpec == CacheSpec /\ \A d \in Downloads : WF_cacheVars(DownloadStep(d))

-----------------------------------------------------------------------------
(***************************************************************************)
(* When a download settles successfully (update-downloaded is emitted and  *)
(* downloadUpdate resolves with the path), the file at that path is the    *)
(* whole file of the offered release, whatever crashed, failed or was left *)
(* in the directory before.                                                *)
(***************************************************************************)
AnnouncedComplete ==
    [][\A d \in Downloads :
          pc[d] # "done" /\ pc'[d] = "done" => Complete(dest[d], rel[d])']_cacheVars

(***************************************************************************)
(* validateDownloadedPath looks only at the existence of a file this       *)
(* instance has downloaded, "not checksum": that is sound when a path the  *)
(* helper remembers with its versionInfo can only hold that release (but   *)
(* for the moment in which rename has replaced it and the fields lag).     *)
(***************************************************************************)
InstanceCheckSound ==
    /\ versionInfo # None
    /\ file # None
    /\ updateFile[file] # None
    /\ \A d \in Downloads : pc[d] # "renamed"
    => Complete(file, versionInfo)

(***************************************************************************)
(* Between downloads an update that the helper holds for installation is   *)
(* on the disk, whole, and is the release the helper says it is.           *)
(***************************************************************************)
HeldIsThere ==
    Active = {} /\ file # None => versionInfo # None /\ Complete(file, versionInfo)

(***************************************************************************)
(* Every started download settles (resolves or rejects) or dies with the   *)
(* process: executeDownload has no path on which it stops for ever.        *)
(***************************************************************************)
EveryDownloadSettles ==
    \A d \in Downloads : pc[d] = "validate" ~> pc[d] \in Settled
=============================================================================
