------------------------------ MODULE Installer ------------------------------
(***************************************************************************)
(* BaseUpdater: quitAndInstall, install and the handler that installs the  *)
(* update when the application quits.  What the download side does to it   *)
(* is reduced to whether it holds an update (DownloadedUpdateHelper.file   *)
(* and downloadedFileInfo are both set).                                   *)
(***************************************************************************)
EXTENDS Naturals

CONSTANTS
    AutoInstallOnAppQuit,  \* AppUpdater.autoInstallOnAppQuit
    MaxCalls               \* bound on the calls of quitAndInstall in a run

ASSUME InstallerAssumption ==
    /\ AutoInstallOnAppQuit \in BOOLEAN
    /\ MaxCalls \in Nat

VARIABLES
    held,                 \* an update is held: install() may start it
    alive,                \* the process runs
    quitAndInstallCalled, \* BaseUpdater.quitAndInstallCalled
    quitHandlerAdded,     \* BaseUpdater.quitHandlerAdded
    quitScheduled,        \* setImmediate(() => this.app.quit()) is pending
    calls,                \* calls of quitAndInstall in this run
    launched              \* installers started in this run

flagVars      == <<quitAndInstallCalled, quitHandlerAdded, quitScheduled>>
countVars     == <<calls, launched>>
installerVars == <<held, alive, flagVars, countVars>>

InstallerTypeOK ==
    /\ held \in BOOLEAN
    /\ alive \in BOOLEAN
    /\ quitAndInstallCalled \in BOOLEAN
    /\ quitHandlerAdded \in BOOLEAN
    /\ quitScheduled \in BOOLEAN
    /\ calls \in 0..MaxCalls
    /\ launched \in Nat

InstallerInit ==
    /\ held = FALSE
    /\ alive = TRUE
    /\ quitAndInstallCalled = FALSE
    /\ quitHandlerAdded = FALSE
    /\ quitScheduled = FALSE
    /\ calls = 0
    /\ launched = 0

-----------------------------------------------------------------------------
\* install(): ignored while the flag is set, an error when no update is held, and
\* else doInstall, which starts the installer or throws.
OutcomesUnguarded == IF ~held THEN {"noUpdate"} ELSE {"started", "threw"}  \* mutant: no flag
Outcomes == IF quitAndInstallCalled THEN {"ignored"}
            ELSE IF ~held THEN {"noUpdate"} ELSE {"started", "threw"}

Install(outcome) ==
    /\ outcome \in Outcomes
    /\ launched' = IF outcome = "started" THEN launched + 1 ELSE launched

AllOutcomes == {"ignored", "noUpdate", "started", "threw"}

\* quitAndInstall: a successful install schedules the quit, any other outcome
\* resets the flag.
QuitAndInstall(outcome) ==
    /\ alive
    /\ calls < MaxCalls
    /\ calls' = calls + 1
    /\ Install(outcome)
    /\ quitAndInstallCalled' = (outcome = "started")
    /\ quitScheduled' = (quitScheduled \/ outcome = "started")
    /\ UNCHANGED <<alive, quitHandlerAdded>>

\* done of BaseUpdater.executeDownload: dispatchUpdateDownloaded, addQuitHandler.
AddQuitHandler ==
    /\ alive
    /\ quitHandlerAdded' = (quitHandlerAdded \/ AutoInstallOnAppQuit)
    /\ UNCHANGED <<alive, quitAndInstallCalled, quitScheduled, countVars>>

\* The application quits by itself or through the scheduled app.quit(); the
\* handler, if there is one, runs on "quit", then the process is gone.
HandlerInstalls(exitCode) ==
    quitHandlerAdded /\ ~quitAndInstallCalled /\ exitCode = 0

Quit(exitCode, outcome) ==
    /\ alive
    /\ IF HandlerInstalls(exitCode)
       THEN /\ Install(outcome)
            /\ quitAndInstallCalled' = (outcome \in {"started", "threw"})
       ELSE outcome = "ignored" /\ UNCHANGED <<launched, quitAndInstallCalled>>
    /\ alive' = FALSE
    /\ quitScheduled' = FALSE
    /\ UNCHANGED <<quitHandlerAdded, calls>>

\* The process dies without a quit event.
Kill ==
    /\ alive
    /\ alive' = FALSE
    /\ quitScheduled' = FALSE
    /\ UNCHANGED <<quitAndInstallCalled, quitHandlerAdded, countVars>>

\* The next launch of the application.
Relaunch ==
    /\ ~alive
    /\ held' = FALSE
    /\ alive' = TRUE
    /\ quitAndInstallCalled' = FALSE
    /\ quitHandlerAdded' = FALSE
    /\ quitScheduled' = FALSE
    /\ calls' = 0
    /\ launched' = 0

\* setDownloadedFile or clear(), at any time while the process runs.
HoldOrDrop ==
    /\ alive
    /\ held' \in BOOLEAN
    /\ UNCHANGED <<alive, flagVars, countVars>>

InstallerNext ==
    \/ \E outcome \in AllOutcomes : QuitAndInstall(outcome) /\ UNCHANGED held
    \/ AddQuitHandler /\ held' = TRUE
    \/ \E outcome \in AllOutcomes, exitCode \in {0, 1} :
           Quit(exitCode, outcome) /\ held' = FALSE
    \/ Kill /\ held' = FALSE
    \/ Relaunch
    \/ HoldOrDrop

InstallerSpec == InstallerInit /\ [][InstallerNext]_installerVars

-----------------------------------------------------------------------------
(***************************************************************************)
(* install() sets quitAndInstallCalled "to prevent calling several times": *)
(* in one run of the application at most one installer is started.  This   *)
(* does not hold after a second call of quitAndInstall.                    *)
(***************************************************************************)
OneInstaller == launched <= 1

(***************************************************************************)
(* What the flag really gives: every second explicit call can start one    *)
(* more installer, since an ignored call resets the flag, and so can the   *)
(* quit handler after an ignored call.  Without a second call of           *)
(* quitAndInstall there is one installer at most.                          *)
(***************************************************************************)
LaunchBound == 2 * launched <= calls + 2
=============================================================================
