------------------------------- MODULE Build -------------------------------
(***************************************************************************)
(* build() of app-builder-lib: Packager.doBuild packs the application per  *)
(* architecture and starts the builds of its targets, which go on while    *)
(* the next one is packed; PublishManager turns every artifact into        *)
(* uploads and update information; at the end the builds are awaited, the  *)
(* temporary files disposed of, the hook afterAllArtifactBuild called, the *)
(* uploads awaited, and only then the update information is written and    *)
(* published.  SIGINT may come at any time.                                *)
(***************************************************************************)
EXTENDS Integers, Sequences, FiniteSets

CONSTANTS
    Plans,      \* what may be built: for each pack an [async, sync, finish], the
                \* builds of targets that may run side by side, those that may not
                \* (in order), and finishBuild of each target after the last
                \* architecture of a platform
    WithInfo    \* the builds whose artifact gets update information

SeqSet(s) == {s[n] : n \in DOMAIN s}
JobsOf(p) == p.async \union SeqSet(p.sync) \union p.finish

UpdateInfo == <<"upload", "yml">>
Extra == <<"upload", "extra">>  \* an artifact afterAllArtifactBuild returns

ASSUME BuildAssumption ==
    \A p \in Plans :
        /\ Len(p) \in Nat /\ DOMAIN p = 1..Len(p)
        /\ \A i, j \in DOMAIN p : i # j => JobsOf(p[i]) \cap JobsOf(p[j]) = {}
        /\ \A i \in DOMAIN p : /\ DOMAIN p[i].sync \subseteq Nat
                               /\ {UpdateInfo[2], Extra[2]} \cap JobsOf(p[i]) = {}

VARIABLES
    plan,      \* one of Plans, and it does not change
    isPublish, cancelled,
    main, next, failed,  \* where build() is, the pack it is at, did something throw?
    job,                 \* of each build: "none", "running", "completing", "built" or "failed"
    groups,              \* packs whose targets are built by one task (sync # <<>>)
    tracked,             \* builds whose failure a task manager sees
    publishing,          \* the running tasks of PublishManager
    uploaded, infos,     \* what was uploaded; updateFileWriteTask
    bTasks, bList, bErrors, bAwait,  \* the task manager of doBuild
    pTasks, pList, pErrors, pAwait   \* the one of PublishManager

Jobs == UNION {JobsOf(plan[i]) : i \in DOMAIN plan}
Infos == WithInfo \cap Jobs

B == INSTANCE AsyncTaskManager WITH tasks <- bTasks, list <- bList, errors <- bErrors, await <- bAwait
P == INSTANCE AsyncTaskManager WITH tasks <- pTasks, list <- pList, errors <- pErrors, await <- pAwait

bVars == <<bTasks, bList, bErrors, bAwait>>
pVars == <<pTasks, pList, pErrors, pAwait>>
jobVars == <<job, groups, tracked>>
publishVars == <<publishing, uploaded, infos>>
mainVars == <<main, next, failed>>
buildVars == <<plan, isPublish, cancelled, mainVars, jobVars, publishVars, bVars, pVars>>

BuildInit ==
    /\ plan \in Plans
    /\ isPublish \in BOOLEAN /\ cancelled = FALSE
    /\ main = "pack" /\ next = 1 /\ failed = FALSE
    /\ job = [j \in Jobs |-> "none"] /\ groups = {} /\ tracked = {}
    /\ publishing = {} /\ uploaded = {} /\ infos = {}
    /\ B!ManagerInit /\ P!ManagerInit

RunningJobs == {j \in Jobs : job[j] \in {"running", "completing"}}
Running == RunningJobs \union groups
Start(js) == [j \in Jobs |-> IF j \in js THEN "running" ELSE job[j]]

-----------------------------------------------------------------------------
\* Packager.doBuild

StartPack ==
    /\ main = "pack"
    /\ IF next > Len(plan) \/ cancelled
       THEN main' = "awaitBuilds" /\ B!StartAwait({}, cancelled)
       ELSE main' = "packing" /\ UNCHANGED bVars
    /\ UNCHANGED <<isPublish, cancelled, next, failed, jobVars, publishVars, pVars>>

\* packageInDistributableFormat, and finishBuild after the last architecture of
\* a platform.  A build is started before addTask looks at the token; a group
\* and finishBuild are not started at all when cancelled.
Packed ==
    /\ main = "packing"
    /\ LET p == plan[next]
           group == p.sync # <<>>
           started == IF cancelled THEN IF group THEN {} ELSE p.async
                      ELSE p.async \union p.finish
           added == IF cancelled THEN {} ELSE started
       IN /\ job' = Start(started)
          /\ tracked' = tracked \union added
          /\ groups' = IF group /\ ~cancelled THEN groups \union {next} ELSE groups
          /\ B!AddTasks(IF group THEN {next} \union p.finish ELSE started, cancelled)
    /\ next' = next + 1 /\ main' = "pack"
    /\ UNCHANGED <<isPublish, cancelled, failed, publishVars, pVars>>

\* doBuild throws; nothing waits for the builds that were started.
PackFails ==
    /\ main = "packing"
    /\ main' = "dispose" /\ failed' = TRUE
    /\ UNCHANGED <<isPublish, cancelled, next, jobVars, publishVars, bVars, pVars>>

\* The task of a pack with targets that are not built side by side.
GroupJobs(i) == plan[i].async \union SeqSet(plan[i].sync)
AwaitedInOrder(i) == SeqSet(plan[i].sync)                            \* mutant
Awaited(i) == GroupJobs(i)

GroupStep(i) ==
    /\ i \in groups /\ Awaited(i) \cap RunningJobs = {}
    /\ LET rest == {n \in DOMAIN plan[i].sync : job[plan[i].sync[n]] = "none"}
           failing == \E j \in GroupJobs(i) : job[j] = "failed"
       IN \/ /\ failing
             /\ groups' = groups \ {i} /\ B!TaskFails /\ UNCHANGED job
          \/ /\ ~failing /\ rest = {}
             /\ groups' = groups \ {i} /\ UNCHANGED <<job, bVars>>
          \/ /\ ~failing
             /\ \E n \in rest : (\A k \in rest : n <= k) /\ job' = Start({plan[i].sync[n]})
             /\ UNCHANGED <<groups, bVars>>
    /\ UNCHANGED <<isPublish, cancelled, mainVars, tracked, publishVars, pVars>>

\* callArtifactBuildCompleted: PublishManager hears of the artifact, then the
\* hook artifactBuildCompleted is awaited.
ArtifactCreated(j) ==
    /\ job[j] = "running"
    /\ job' = [job EXCEPT ![j] = "completing"]
    /\ P!AddTasks({<<"artifact", j>>}, cancelled)
    /\ publishing' = IF cancelled THEN publishing ELSE publishing \union {<<"artifact", j>>}
    /\ UNCHANGED <<isPublish, cancelled, mainVars, groups, tracked, uploaded, infos, bVars>>

InGroup(j) == \E i \in DOMAIN plan : plan[i].sync # <<>> /\ j \in GroupJobs(i)

JobEnds(j) ==
    /\ \/ job[j] = "completing" /\ job' = [job EXCEPT ![j] = "built"] /\ UNCHANGED bVars
       \/ /\ job[j] \in {"running", "completing"}
          /\ job' = [job EXCEPT ![j] = "failed"]
          /\ IF j \in tracked /\ ~InGroup(j) THEN B!TaskFails ELSE UNCHANGED bVars
    /\ UNCHANGED <<isPublish, cancelled, mainVars, groups, tracked, publishVars, pVars>>

AwaitBuilds ==
    /\ main = "awaitBuilds"
    /\ \/ B!ContinueAwait(Running, cancelled) /\ UNCHANGED <<main, failed>>
       \/ bAwait \in {"returned", "threw"}
          /\ main' = "dispose" /\ failed' = (bAwait = "threw")
          /\ UNCHANGED bVars
    /\ UNCHANGED <<isPublish, cancelled, next, jobVars, publishVars, pVars>>

-----------------------------------------------------------------------------
\* build() of index.ts

Dispose ==
    /\ main = "dispose"
    /\ IF failed THEN main' = "rejected" /\ P!CancelTasks
                 ELSE main' = "hook" /\ UNCHANGED pVars
    /\ UNCHANGED <<isPublish, cancelled, next, failed, jobVars, publishVars, bVars>>

\* The uploads are awaited from here on.
HookEnds ==
    /\ main = "hook"
    /\ main' = "awaitUploads"
    /\ \E new \in IF isPublish /\ ~cancelled THEN {{}, {Extra}} ELSE {{}} :  \* what it returned
           publishing' = publishing \union new /\ P!StartAwait(new, cancelled)
    /\ UNCHANGED <<isPublish, cancelled, next, failed, jobVars, uploaded, infos, bVars>>

HookFails ==
    /\ main = "hook"
    /\ main' = "rejected" /\ P!CancelTasks
    /\ UNCHANGED <<isPublish, cancelled, next, failed, jobVars, publishVars, bVars>>

AwaitUploads ==
    /\ main = "awaitUploads"
    /\ \/ P!ContinueAwait(publishing, cancelled) /\ UNCHANGED main
       \/ /\ pAwait = "threw" /\ main' = "rejected" /\ UNCHANGED pVars
       \/ /\ pAwait = "returned" /\ UNCHANGED pVars
          /\ main' = IF cancelled \/ infos = {} THEN "resolved" ELSE "writeInfo"
    /\ UNCHANGED <<isPublish, cancelled, next, failed, jobVars, publishVars, bVars>>

\* writeUpdateInfoFiles: the file is written, its artifact event uploads it.
WriteInfo ==
    /\ main = "writeInfo"
    /\ \/ main' = "rejected" /\ UNCHANGED <<publishing, pVars>>
       \/ /\ main' = "awaitInfo"
          /\ LET new == IF isPublish /\ ~cancelled THEN {UpdateInfo} ELSE {}
             IN publishing' = publishing \union new /\ P!StartAwait(new, cancelled)
    /\ UNCHANGED <<isPublish, cancelled, next, failed, jobVars, uploaded, infos, bVars>>

AwaitInfo ==
    /\ main = "awaitInfo"
    /\ \/ P!ContinueAwait(publishing, cancelled) /\ UNCHANGED main
       \/ pAwait = "threw" /\ main' = "rejected" /\ UNCHANGED pVars
       \/ pAwait = "returned" /\ main' = "resolved" /\ UNCHANGED pVars
    /\ UNCHANGED <<isPublish, cancelled, next, failed, jobVars, publishVars, bVars>>

-----------------------------------------------------------------------------
\* PublishManager

\* artifactCreatedWithoutExplicitPublishConfig, after its await.
Follow(j) ==
    (IF isPublish THEN {<<"upload", j>>} ELSE {})
        \union (IF j \in WithInfo THEN {<<"info", j>>} ELSE {})

ArtifactTask(j) ==
    /\ <<"artifact", j>> \in publishing
    /\ LET follow == IF cancelled THEN {} ELSE Follow(j)
       IN /\ publishing' = (publishing \ {<<"artifact", j>>}) \union follow
          /\ P!AddTasks(follow, cancelled)
    /\ UNCHANGED <<isPublish, cancelled, mainVars, jobVars, uploaded, infos, bVars>>

UploadEnds(t) ==
    /\ t \in publishing /\ t[1] = "upload" /\ ~cancelled
    /\ publishing' = publishing \ {t} /\ uploaded' = uploaded \union {t[2]}
    /\ UNCHANGED <<isPublish, cancelled, mainVars, jobVars, infos, bVars, pVars>>

InfoEnds(j) ==
    /\ <<"info", j>> \in publishing
    /\ publishing' = publishing \ {<<"info", j>>} /\ infos' = infos \union {j}
    /\ UNCHANGED <<isPublish, cancelled, mainVars, jobVars, uploaded, bVars, pVars>>

PublishTaskFails(t) ==
    /\ t \in publishing
    /\ publishing' = publishing \ {t} /\ P!TaskFails
    /\ UNCHANGED <<isPublish, cancelled, mainVars, jobVars, uploaded, infos, bVars>>

-----------------------------------------------------------------------------
Ended == {"resolved", "rejected"}

\* The handler of SIGINT, removed when build() ends (not when an upload failed,
\* where it finds nothing left to cancel).
SigInt ==
    /\ ~cancelled /\ main \notin Ended
    /\ cancelled' = TRUE
    /\ P!CancelTasks
    /\ UNCHANGED <<isPublish, mainVars, jobVars, publishVars, bVars>>

Main ==
    StartPack \/ Packed \/ PackFails \/ AwaitBuilds \/ Dispose \/ HookEnds \/ HookFails
    \/ AwaitUploads \/ WriteInfo \/ AwaitInfo

JobStep(j) == ArtifactCreated(j) \/ JobEnds(j)
PublishTasks == ({"artifact", "info", "upload"} \X Jobs) \union {UpdateInfo, Extra}
PublishStep(t) ==
    UploadEnds(t) \/ PublishTaskFails(t)
    \/ \E j \in Jobs : t[2] = j /\ (ArtifactTask(j) \/ InfoEnds(j))

Work ==
    \/ \E i \in DOMAIN plan : GroupStep(i)
    \/ \E j \in Jobs : JobStep(j)
    \/ \E t \in PublishTasks : PublishStep(t)

BuildNext == (Main \/ Work \/ SigInt) /\ UNCHANGED plan

\* Builds and uploads end, well or not, and the event loop runs every
\* callback.  One conjunct will do: no step can be taken for ever.
BuildSpec ==
    /\ BuildInit /\ [][BuildNext]_buildVars
    /\ WF_buildVars((Main \/ Work) /\ UNCHANGED plan)

-----------------------------------------------------------------------------
Built == \A j \in Jobs : job[j] = "built"

(***************************************************************************)
(* build() resolves, and was not interrupted: every target was built, and  *)
(* if the build publishes, every artifact and the update information are   *)
(* uploaded.  No task that was added late or failed early is forgotten.    *)
(***************************************************************************)
ResolvedMeansDone ==
    main = "resolved" /\ ~cancelled =>
        /\ Built /\ infos = Infos
        /\ isPublish => Jobs \subseteq uploaded
        /\ isPublish /\ Infos # {} => UpdateInfo[2] \in uploaded

(***************************************************************************)
(* The update information goes out last: an updater that sees it finds     *)
(* every artifact of the release, and nothing that failed is announced.    *)
(***************************************************************************)
UpdateInfoLast ==
    UpdateInfo \in publishing \/ UpdateInfo[2] \in uploaded =>
        Built /\ infos = Infos /\ Jobs \subseteq uploaded

(***************************************************************************)
(* build() ends, whatever fails and whenever it is interrupted.            *)
(***************************************************************************)
BuildEnds == <>(main \in Ended)

(***************************************************************************)
(* configuration.ts of afterAllArtifactBuild: "run after all artifacts are *)
(* build".  This does not hold: SIGINT breaks doBuild off, which resolves. *)
(***************************************************************************)
HookAfterAllBuilt == main = "hook" => Built
=============================================================================
