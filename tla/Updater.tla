------------------------------- MODULE Updater -------------------------------
(***************************************************************************)
(* The updater of one application on one machine: AppUpdater (the check    *)
(* and the download it starts), the download cache and BaseUpdater (the    *)
(* installation), over runs of the application that end by a quit or a     *)
(* crash.  Cache and installer are the modules DownloadCache and Installer;*)
(* this one adds the check, what the installation does to the application, *)
(* and the order in which the parts call one another.                      *)
(***************************************************************************)
EXTENDS DownloadCache

CONSTANTS
    Version,              \* of each release, as the semver order ranks them
    CurrentVersion,
    Staged,               \* releases whose stagingPercentage admits this user
    AllowDowngrade,       \* AppUpdater.allowDowngrade
    AutoInstallOnAppQuit, \* AppUpdater.autoInstallOnAppQuit
    Platforms,            \* of "nsis" (NsisUpdater) and "appImage" (AppImageUpdater)
    MaxCalls              \* bound on the calls of quitAndInstall in a run

ASSUME UpdaterAssumption ==
    /\ Version \in [Releases -> Nat] /\ CurrentVersion \in Nat
    /\ Staged \subseteq Releases
    /\ {AllowDowngrade, AutoInstallOnAppQuit} \subseteq BOOLEAN
    /\ Platforms \subseteq {"nsis", "appImage"}
    /\ MaxCalls \in Nat

VARIABLES
    platform, autoDownload, \* as the application sets them up: they do not change
    checking,               \* checkForUpdatesPromise is pending
    updateInfoAndProvider,  \* the last available release, or None
    alive, quitAndInstallCalled, quitHandlerAdded, quitScheduled, calls, launched,
    app                     \* "current" as it was, "updated" by a complete release, "damaged" by
                            \*   a file that is none, or "gone", with nothing in its place

\* DownloadedUpdateHelper.file and downloadedFileInfo, as install() tests them.
Held == file # None /\ downloadedFileInfo # None

Inst == INSTANCE Installer WITH held <- Held

installVars == <<alive, quitAndInstallCalled, quitHandlerAdded, quitScheduled, calls, launched>>
checkVars   == <<checking, updateInfoAndProvider>>
vars        == <<platform, autoDownload, cacheVars, checkVars, installVars, app>>

Init ==
    /\ CacheInit
    /\ Inst!InstallerInit
    /\ platform \in Platforms /\ autoDownload \in BOOLEAN
    /\ checking = FALSE
    /\ updateInfoAndProvider = None
    /\ app = "current"

-----------------------------------------------------------------------------
\* The check

\* isUpdateAvailable
IsUpdateAvailable(r) ==
    /\ Version[r] # CurrentVersion
    /\ r \in Staged
    /\ Version[r] > CurrentVersion \/ AllowDowngrade

\* checkForUpdates; while a check is pending a call only returns its promise.
CheckForUpdates ==
    /\ alive /\ ~checking
    /\ checking' = TRUE
    /\ UNCHANGED <<cacheVars, updateInfoAndProvider, installVars, app>>

\* The provider answers with release r: doCheckForUpdates remembers it and, with
\* autoDownload, starts a download of its own.
CheckAnswers(r) ==
    /\ checking
    /\ checking' = FALSE
    /\ IF IsUpdateAvailable(r)
       THEN /\ updateInfoAndProvider' = r
            /\ IF autoDownload
               THEN \E d \in Downloads : StartDownload(d, r)
               ELSE UNCHANGED cacheVars
       ELSE UNCHANGED <<cacheVars, updateInfoAndProvider>>
    /\ UNCHANGED <<installVars, app>>

CheckFails ==
    /\ checking
    /\ checking' = FALSE
    /\ UNCHANGED <<cacheVars, updateInfoAndProvider, installVars, app>>

\* downloadUpdate called by the application ("Please check update first").
DownloadUpdate ==
    /\ alive
    /\ updateInfoAndProvider # None
    /\ \E d \in Downloads : StartDownload(d, updateInfoAndProvider)
    /\ UNCHANGED <<checkVars, installVars, app>>

-----------------------------------------------------------------------------
\* The download, and update-downloaded at its end

Announces(d) == pc[d] # "done" /\ pc'[d] = "done"

Download(d) ==
    /\ alive
    /\ DownloadStep(d) \/ Cancel(d) \/ LateRespond(d) \/ LateEnd(d)
    /\ IF Announces(d) THEN Inst!AddQuitHandler ELSE UNCHANGED installVars
    /\ UNCHANGED <<checkVars, app>>

-----------------------------------------------------------------------------
\* The installation

\* What becomes of the application when the file at the held path is run.
Result == IF \E r \in Releases : Complete(file, r) THEN "updated" ELSE "damaged"

\* NsisUpdater.doInstall reports success whatever happens: a missing installer
\* cannot be spawned, which it only hears of later.
NsisInstall(outcome) ==
    /\ outcome = "started"
    /\ app' = IF updateFile[file] = None THEN app ELSE Result
    /\ UNCHANGED updateFile

\* AppImageUpdater.doInstall throws first if APPIMAGE is not set; else it unlinks
\* the application and moves the update file in its place, which throws without
\* an update file, and runs it, which may throw too.
AppImageInstall(outcome) ==
    \/ outcome = "threw" /\ UNCHANGED <<app, updateFile>>
    \/ /\ outcome = "threw" /\ updateFile[file] = None
       /\ app' = "gone" /\ UNCHANGED updateFile
    \/ /\ updateFile[file] # None
       /\ app' = Result
       /\ updateFile' = [updateFile EXCEPT ![file] = None]

DoInstall(outcome) ==
    IF outcome \in {"started", "threw"}
    THEN IF platform = "appImage" THEN AppImageInstall(outcome) ELSE NsisInstall(outcome)
    ELSE UNCHANGED <<app, updateFile>>

\* Mutant: an ignored call leaves the flag set.
QuitAndInstallKeepsFlag(outcome) ==
    /\ alive /\ calls < MaxCalls /\ calls' = calls + 1
    /\ Inst!Install(outcome)
    /\ quitAndInstallCalled' = (outcome \in {"started", "ignored"})
    /\ quitScheduled' = (quitScheduled \/ outcome = "started")
    /\ DoInstall(outcome)
    /\ UNCHANGED <<alive, quitHandlerAdded>>
    /\ UNCHANGED <<downloadVars, writerVars, tempFile, infoFile, helperVars, crashes, checkVars>>

QuitAndInstall(outcome) ==
    /\ Inst!QuitAndInstall(outcome)
    /\ DoInstall(outcome)
    /\ UNCHANGED <<downloadVars, writerVars, tempFile, infoFile, helperVars, crashes, checkVars>>

\* What the end of the process takes with it.
Forget == ProcessEnds /\ checking' = FALSE /\ updateInfoAndProvider' = None

Quit(exitCode, outcome) ==
    /\ Inst!Quit(exitCode, outcome)
    /\ DoInstall(outcome)
    /\ Forget
    /\ UNCHANGED <<tempFile, infoFile, crashes>>

Killed ==
    /\ Inst!Kill
    /\ crashes < MaxCrashes
    /\ crashes' = crashes + 1
    /\ Forget
    /\ UNCHANGED <<dirVars, app>>

\* The next launch, which is the application that was there before or, after a
\* complete installation, no longer this one.
Relaunch ==
    /\ app = "current"
    /\ ~alive
    /\ UNCHANGED <<cacheVars, checkVars, app>>
    /\ alive' = TRUE
    /\ quitAndInstallCalled' = FALSE /\ quitHandlerAdded' = FALSE
    /\ quitScheduled' = FALSE /\ calls' = 0 /\ launched' = 0

Step ==
    \/ CheckForUpdates \/ CheckFails \/ DownloadUpdate
    \/ \E r \in Releases : CheckAnswers(r)
    \/ \E d \in Downloads : Download(d)
    \/ \E outcome \in Inst!AllOutcomes :
          QuitAndInstall(outcome) \/ \E exitCode \in {0, 1} : Quit(exitCode, outcome)
    \/ Killed
    \/ Relaunch

Next == Step /\ UNCHANGED <<platform, autoDownload>>

Spec == Init /\ [][Next]_vars

-----------------------------------------------------------------------------
(***************************************************************************)
(* Whatever is started to replace the application is the complete file of  *)
(* some release: with one download at a time, no crash, failure or leftover*)
(* of the cache makes the updater run a partial installer.                 *)
(***************************************************************************)
NeverDamaged == app # "damaged"

\* The application quits cleanly, and quitAndInstall was not called before.
CleanQuit == calls = 0 /\ \E outcome \in Inst!AllOutcomes : Quit(0, outcome)

\* ... and the update is installed, or an AppImage found no way to (APPIMAGE).
InstalledBy == app' = "updated" \/ (platform = "appImage" /\ app' = app)

(***************************************************************************)
(* A downloaded update is automatically installed on app quit (if          *)
(* quitAndInstall was not called before).                                  *)
(***************************************************************************)
InstalledOnQuit == [][CleanQuit /\ quitHandlerAdded => InstalledBy]_vars

(***************************************************************************)
(* That holds of every quit that meets no download in progress, unless the *)
(* last download failed and took the update with it.                       *)
(***************************************************************************)
InstalledOnQuietQuit ==
    [][CleanQuit /\ quitHandlerAdded /\ Active = {} /\ Held => InstalledBy]_vars

(***************************************************************************)
(* BaseUpdater behaves as Installer says: the composition, in which the    *)
(* download side holds and drops updates, allows it nothing else.          *)
(***************************************************************************)
InstallerConforms == Inst!InstallerSpec
=============================================================================
