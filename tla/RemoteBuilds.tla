---------------------------- MODULE RemoteBuilds ----------------------------
(***************************************************************************)
(* LinuxPackager on Windows: every target is a RemoteTarget, whose build   *)
(* only schedules it with the one RemoteBuilder of the platform, once its  *)
(* checkOptions has ended.  Packager.doBuild calls finishBuild of every    *)
(* target after the last architecture; the first that comes so far sends   *)
(* everything scheduled to the build service, one request per architecture *)
(* after the other, the rest return at once.                               *)
(*                                                                         *)
(* checkOptions of FpmTarget reads .git/config when package.json has no    *)
(* homepage, once for all; the others do not wait.                         *)
(***************************************************************************)
EXTENDS Integers, SequencesExt

CONSTANTS
    Archs,       \* sequence of the architectures of a build
    RemoteSettings, \* records: [targets |-> set, fpm |-> those that are FpmTargets,
                 \*   homepage |-> is it in package.json?]
    NoArch

ASSUME RemoteAssumption ==
    /\ Archs \in Seq(ToSet(Archs)) /\ IsInjective(Archs) /\ NoArch \notin ToSet(Archs)
    /\ \A s \in RemoteSettings :
           DOMAIN s = {"targets", "fpm", "homepage"} /\ s.fpm \subseteq s.targets

VARIABLES
    remoteSetting,
    packs,        \* how many architectures are packed
    repository,   \* repositoryInfo: "unread", "reading", "read"
    waiting,      \* <<target, architecture>> whose checkOptions waits for it
    toBuild,      \* of each architecture, the targets scheduled
    late,         \* those scheduled after RemoteBuilder.build began
    finish,       \* of each target, finishBuild: "none", "waiting", "building", "done",
                  \*   "failed"
    queue,        \* the architectures build has still to send, or NotStarted
    sending,      \* the architecture whose request runs, or NoArch
    requests      \* what was sent: [arch, targets]

remoteVars == <<remoteSetting, packs, repository, waiting, toBuild, late, finish, queue,
                sending, requests>>

NotStarted == {NoArch}
RemoteTargets == remoteSetting.targets

RemoteInit ==
    /\ remoteSetting \in RemoteSettings /\ packs = 0
    /\ repository = "unread" /\ waiting = {}
    /\ toBuild = [a \in ToSet(Archs) |-> {}] /\ late = {}
    /\ finish = [t \in RemoteTargets |-> "none"]
    /\ queue = NotStarted /\ sending = NoArch /\ requests = {}

-----------------------------------------------------------------------------
Waits(t) == t \in remoteSetting.fpm /\ ~remoteSetting.homepage /\ repository # "read"

\* A pack ends with build of every target.
PackArch ==
    /\ packs < Len(Archs) /\ packs' = packs + 1
    /\ LET a == Archs[packs']
           w == {t \in RemoteTargets : Waits(t)}
       IN /\ waiting' = waiting \union (w \X {a})
          /\ toBuild' = [toBuild EXCEPT ![a] = RemoteTargets \ w]
          /\ repository' = IF w # {} THEN "reading" ELSE repository
    /\ UNCHANGED <<remoteSetting, late, finish, queue, sending, requests>>

\* .git/config is read: every checkOptions goes on and schedules its target.
RepositoryRead ==
    /\ repository = "reading" /\ repository' = "read"
    /\ toBuild' = [a \in ToSet(Archs) |-> toBuild[a] \union {t \in RemoteTargets : <<t, a>> \in waiting}]
    /\ late' = IF queue = NotStarted THEN late ELSE late \union waiting
    /\ waiting' = {}
    /\ UNCHANGED <<remoteSetting, packs, finish, queue, sending, requests>>

\* finishBuild of all targets, which are then with their own buildTaskManager.
FinishAll ==
    /\ packs = Len(Archs) /\ \A t \in RemoteTargets : finish[t] = "none"
    /\ finish' = [t \in RemoteTargets |-> "waiting"]
    /\ UNCHANGED <<remoteSetting, packs, repository, waiting, toBuild, late, queue,
                   sending, requests>>

Scheduled == {a \in ToSet(Archs) : toBuild[a] # {}}
OwnTasksEnded(t) == \A a \in ToSet(Archs) : <<t, a>> \notin waiting

BuildsAgain(t) ==                                                          \* mutant
    /\ finish[t] = "waiting" /\ OwnTasksEnded(t) /\ queue \in {NotStarted, {}}
    /\ finish' = [finish EXCEPT ![t] = "building"]
    /\ queue' = Scheduled
    /\ UNCHANGED <<remoteSetting, packs, repository, waiting, toBuild, late, sending, requests>>

\* RemoteBuilder.build
FinishBuild(t) ==
    /\ finish[t] = "waiting" /\ OwnTasksEnded(t)
    /\ IF queue # NotStarted
       THEN finish' = [finish EXCEPT ![t] = "done"] /\ UNCHANGED queue
       ELSE /\ finish' = [finish EXCEPT ![t] = "building"]
            /\ queue' = Scheduled
    /\ UNCHANGED <<remoteSetting, packs, repository, waiting, toBuild, late, sending, requests>>

Building == {t \in RemoteTargets : finish[t] = "building"}

\* The keys of a Map are in the order they were set.
IsNext(a) == \A m, n \in DOMAIN Archs : Archs[m] = a /\ Archs[n] \in queue => m <= n

\* _build of the next architecture, with the targets its list has by then.
SendRequest ==
    /\ Building # {} /\ sending = NoArch
    /\ \E a \in queue :
           /\ IsNext(a) /\ sending' = a /\ queue' = queue \ {a}
           /\ requests' = requests \union
                  {[arch |-> a, targets |-> toBuild[a], number |-> Cardinality(requests)]}
    /\ UNCHANGED <<remoteSetting, packs, repository, waiting, toBuild, late, finish>>

\* The service has built it, or the promise is rejected and the rest not sent.
RequestEnds ==
    /\ sending # NoArch /\ sending' = NoArch
    /\ \/ UNCHANGED <<finish, queue>>
       \/ queue' = {} /\ finish' = [t \in RemoteTargets |-> IF t \in Building THEN "failed" ELSE finish[t]]
    /\ UNCHANGED <<remoteSetting, packs, repository, waiting, toBuild, late, requests>>

AllSent ==
    /\ Building # {} /\ sending = NoArch /\ queue = {}
    /\ finish' = [t \in RemoteTargets |-> IF t \in Building THEN "done" ELSE finish[t]]
    /\ UNCHANGED <<remoteSetting, packs, repository, waiting, toBuild, late, queue,
                   sending, requests>>

RemoteNext ==
    \/ PackArch \/ RepositoryRead \/ FinishAll \/ SendRequest \/ RequestEnds \/ AllSent
    \/ \E t \in RemoteTargets : FinishBuild(t)

RemoteSpec == RemoteInit /\ [][RemoteNext]_remoteVars

-----------------------------------------------------------------------------
(***************************************************************************)
(* When every finishBuild has succeeded, each target was sent to the build *)
(* service exactly once for each architecture; only one that was scheduled *)
(* after the requests began may be missing.                                *)
(***************************************************************************)
SentOnce ==
    (\A t \in RemoteTargets : finish[t] = "done") =>
        \A t \in RemoteTargets, a \in ToSet(Archs) :
            LET sent == {r \in requests : r.arch = a /\ t \in r.targets}
            IN  Cardinality(sent) = 1 \/ (sent = {} /\ <<t, a>> \in late)

(***************************************************************************)
(* linuxPackager.ts of RemoteTarget: "all must be scheduled in time (so,   *)
(* on finishBuild RemoteBuilder will have all targets added". This does not*)
(* hold without a homepage: finishBuild awaits the options of its own      *)
(* target only, and the build resolves without the others.                 *)
(***************************************************************************)
AllScheduledInTime ==
    (\A t \in RemoteTargets : finish[t] = "done") =>
        \A a \in ToSet(Archs) : \E r \in requests : r.arch = a /\ r.targets = RemoteTargets
=============================================================================
