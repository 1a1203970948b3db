--------------------------- MODULE InstallerProofs ---------------------------
(***************************************************************************)
(* What is proved of Installer for every value of its constants.           *)
(*                                                                         *)
(* LaunchBound is not inductive: it does not say that a run which has used *)
(* up its installers has the flag set.  FlagBound adds it: the flag is     *)
(* worth one call to a process that is still alive.                        *)
(***************************************************************************)
EXTENDS Installer, TLAPS

FlagBound == alive => /\ 2 * launched <= calls + 1
                      /\ ~quitAndInstallCalled => 2 * launched <= calls

IInv == InstallerTypeOK /\ LaunchBound /\ FlagBound

LEMMA InstallerInitIInv == InstallerInit => IInv
<1> SUFFICES ASSUME InstallerInit PROVE IInv
  OBVIOUS
<1>1. calls \in 0..MaxCalls /\ launched \in Nat /\ 2 * launched <= calls
  BY InstallerAssumption DEF InstallerAssumption, InstallerInit
<1>2. 2 * launched <= calls + 1 /\ 2 * launched <= calls + 2
  BY DEF InstallerInit
<1> QED
  BY <1>1, <1>2 DEF InstallerInit, InstallerTypeOK, IInv, LaunchBound, FlagBound

\* What an outcome of install() adds to launched, and when it can add anything.
LEMMA InstallLaunches ==
  ASSUME InstallerTypeOK, NEW outcome, Install(outcome)
  PROVE  /\ launched' \in Nat
         /\ outcome = "started" => launched' = launched + 1 /\ ~quitAndInstallCalled
         /\ outcome # "started" => launched' = launched
         /\ quitAndInstallCalled => outcome = "ignored"
  BY DEF InstallerTypeOK, Install, Outcomes

\* One more installer in place of one that the flag still allows.
LEMMA OneMore ==
  ASSUME NEW n \in Nat, NEW m \in Nat, NEW c \in Nat,
         2 * n <= c, m = n \/ m = n + 1
  PROVE  2 * m <= c + 2
  OBVIOUS

LEMMA InstallerNextIInv == IInv /\ [InstallerNext]_installerVars => IInv'
<1> SUFFICES ASSUME IInv, [InstallerNext]_installerVars PROVE IInv'
  OBVIOUS
<1> USE InstallerAssumption DEF InstallerAssumption
<1>1. ASSUME NEW outcome \in AllOutcomes, QuitAndInstall(outcome), UNCHANGED held
      PROVE  IInv'
  <2>1. Install(outcome) /\ InstallerTypeOK /\ alive
    BY <1>1 DEF QuitAndInstall, IInv
  <2>2. InstallerTypeOK'
    BY <1>1, <2>1, InstallLaunches DEF QuitAndInstall, InstallerTypeOK
  <2>3. CASE outcome = "started"
    <3>1. 2 * launched <= calls
      BY <2>1, <2>3, InstallLaunches DEF IInv, FlagBound
    <3>2. 2 * launched' <= calls' + 1 /\ 2 * launched' <= calls' + 2
      BY <1>1, <2>1, <2>3, <3>1, InstallLaunches DEF QuitAndInstall, InstallerTypeOK
    <3>3. quitAndInstallCalled'
      BY <1>1, <2>3 DEF QuitAndInstall
    <3> QED
      BY <2>2, <3>2, <3>3 DEF IInv, LaunchBound, FlagBound
  <2>4. CASE outcome # "started"
    <3>1. 2 * launched <= calls + 1
      BY <2>1 DEF IInv, FlagBound
    <3>2. 2 * launched' <= calls' /\ 2 * launched' <= calls' + 1 /\ 2 * launched' <= calls' + 2
      BY <1>1, <2>1, <2>4, <3>1, InstallLaunches DEF QuitAndInstall, InstallerTypeOK
    <3> QED
      BY <2>2, <3>2 DEF IInv, LaunchBound, FlagBound
  <2> QED
    BY <2>3, <2>4
<1>2. ASSUME AddQuitHandler, held' = TRUE
      PROVE  IInv'
  BY <1>2 DEF AddQuitHandler, countVars, IInv, InstallerTypeOK, LaunchBound, FlagBound
<1>3. ASSUME NEW outcome \in AllOutcomes, NEW exitCode \in {0, 1},
             Quit(exitCode, outcome), held' = FALSE
      PROVE  IInv'
  <2>1. CASE HandlerInstalls(exitCode)
    <3>1. Install(outcome) /\ InstallerTypeOK /\ alive /\ ~quitAndInstallCalled /\ ~alive'
      BY <1>3, <2>1 DEF Quit, HandlerInstalls, IInv
    <3>2. launched' \in Nat /\ calls' = calls
      BY <1>3, <3>1, InstallLaunches DEF Quit
    <3>3. InstallerTypeOK'
      <4>1. quitAndInstallCalled' \in BOOLEAN
        BY <1>3, <2>1 DEF Quit
      <4> QED
        BY <1>3, <3>1, <3>2, <4>1 DEF Quit, InstallerTypeOK
    <3>4. 2 * launched <= calls
      BY <3>1 DEF IInv, FlagBound
    <3>5. launched' = launched \/ launched' = launched + 1
      BY <3>1, InstallLaunches
    <3>6. calls \in Nat /\ launched \in Nat
      BY <3>1 DEF InstallerTypeOK
    <3>7. 2 * launched' <= calls' + 2
      BY <3>2, <3>4, <3>5, <3>6, OneMore
    <3> QED
      BY <3>1, <3>3, <3>7 DEF IInv, LaunchBound, FlagBound
  <2>2. CASE ~HandlerInstalls(exitCode)
    BY <1>3, <2>2 DEF Quit, IInv, InstallerTypeOK, LaunchBound, FlagBound
  <2> QED
    BY <2>1, <2>2
<1>4. ASSUME Kill, held' = FALSE
      PROVE  IInv'
  BY <1>4 DEF Kill, countVars, IInv, InstallerTypeOK, LaunchBound, FlagBound
<1>5. CASE Relaunch
  <2>1. calls' \in 0..MaxCalls /\ launched' \in Nat /\ 2 * launched' <= calls'
    BY <1>5 DEF Relaunch
  <2>2. 2 * launched' <= calls' + 1 /\ 2 * launched' <= calls' + 2
    BY <1>5 DEF Relaunch
  <2> QED
    BY <1>5, <2>1, <2>2 DEF Relaunch, IInv, InstallerTypeOK, LaunchBound, FlagBound
<1>6. CASE HoldOrDrop
  BY <1>6 DEF HoldOrDrop, flagVars, countVars, IInv, InstallerTypeOK, LaunchBound, FlagBound
<1>7. CASE UNCHANGED installerVars
  BY <1>7 DEF installerVars, flagVars, countVars, IInv, InstallerTypeOK, LaunchBound, FlagBound
<1> QED
  BY <1>1, <1>2, <1>3, <1>4, <1>5, <1>6, <1>7 DEF InstallerNext

LEMMA InstallerInvariant == InstallerSpec => []IInv
  BY InstallerInitIInv, InstallerNextIInv, PTL DEF InstallerSpec

-----------------------------------------------------------------------------
(***************************************************************************)
(* Type correctness of the installer's flags, whatever the bound.          *)
(***************************************************************************)
THEOREM InstallerTypeCorrect == InstallerSpec => []InstallerTypeOK
<1>1. IInv => InstallerTypeOK
  BY DEF IInv
<1> QED
  BY <1>1, InstallerInvariant, PTL

(***************************************************************************)
(* quitAndInstallCalled keeps the installers of one run below half the     *)
(* calls of quitAndInstall plus one, for any number of calls.              *)
(***************************************************************************)
THEOREM InstallersAreBounded == InstallerSpec => []LaunchBound
<1>1. IInv => LaunchBound
  BY DEF IInv
<1> QED
  BY <1>1, InstallerInvariant, PTL

(***************************************************************************)
(* The promise of install(), "prevent calling several times", holds of an  *)
(* application that calls quitAndInstall at most once in a run.            *)
(***************************************************************************)
THEOREM OneCallOneInstaller == InstallerSpec => [](calls <= 1 => OneInstaller)
<1>1. IInv => (calls <= 1 => OneInstaller)
  BY DEF IInv, InstallerTypeOK, LaunchBound, OneInstaller
<1> QED
  BY <1>1, InstallerInvariant, PTL
=============================================================================
