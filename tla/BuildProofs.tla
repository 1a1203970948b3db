----------------------------- MODULE BuildProofs -----------------------------
(***************************************************************************)
(* What is proved of Build for any plans: that build() resolves only when  *)
(* all is done, and that the update information goes out last; of AppFiles *)
(* for any project and configuration: which files are packed, and that     *)
(* earlier output is not; and of Targets for any command line and          *)
(* configuration: that what is built is what was asked for.  The last two  *)
(* have a section each, after the one of Build.                            *)
(*                                                                         *)
(* Those of Build rest on the task managers forgetting nothing.            *)
(* BuildsSeen says it of doBuild: a build that runs, or the group it       *)
(* belongs to, is among the promises that are awaited, and what failed has *)
(* been seen or will be by its group.  UploadsSeen says it of              *)
(* PublishManager: what an artifact needs is running, and awaited, or      *)
(* done.  Both need a build that was not cancelled, and a manager that has *)
(* not kept an error.                                                      *)
(***************************************************************************)
EXTENDS Build, AppFiles, Targets, SequenceLemmas

MainStates == {"pack", "packing", "awaitBuilds", "dispose", "hook", "awaitUploads", "writeInfo",
               "awaitInfo", "resolved", "rejected"}
AwaitStates == {"none", "waiting", "returned", "threw"}

BuildTypeOK ==
    /\ plan \in Plans
    /\ isPublish \in BOOLEAN /\ cancelled \in BOOLEAN /\ failed \in BOOLEAN
    /\ main \in MainStates
    /\ next \in Nat \ {0} /\ (main = "packing" => next \in DOMAIN plan)
    /\ job \in [Jobs -> {"none", "running", "completing", "built", "failed"}]
    /\ groups \subseteq DOMAIN plan
    /\ publishing \subseteq ({"artifact", "upload"} \X Jobs) \cup ({"info"} \X Infos)
                            \cup {UpdateInfo, Extra}
    /\ infos \subseteq Infos
    /\ bErrors \in BOOLEAN /\ bAwait \in AwaitStates
    /\ pErrors \in BOOLEAN /\ pAwait \in AwaitStates

\* Nothing is awaited outside of a call of awaitTasks, which each manager's owner
\* makes when its time has come.
Awaiting ==
    /\ bAwait # "waiting" => bList = {}
    /\ pAwait # "waiting" => pList = {}
    /\ main \in {"pack", "packing"} => bAwait = "none"
    /\ main \in {"pack", "packing", "awaitBuilds", "dispose", "hook"} => pAwait = "none"
    /\ main = "writeInfo" => pAwait = "returned"

\* The packs before "next" are started, the others are not.
PacksStarted ==
    \A i \in DOMAIN plan :
        /\ i >= next => i \notin groups /\ \A j \in JobsOf(plan[i]) : job[j] = "none"
        /\ i < next => \A j \in plan[i].async \cup plan[i].finish : job[j] # "none"

BuildsSeen ==
    /\ \A j \in RunningJobs : ~InGroup(j) => j \in tracked /\ j \in bTasks \cup bList
    /\ groups \subseteq bTasks \cup bList
    /\ \A i \in DOMAIN plan : i < next /\ plan[i].sync # <<>> =>
           i \in groups \/ \A j \in GroupJobs(i) : job[j] = "built"
    /\ \A j \in Jobs : job[j] = "failed" => \E i \in groups : j \in GroupJobs(i)

\* A build of which all packs were started, and that was awaited.
BuiltWhenAwaited ==
    /\ main = "awaitBuilds" => next > Len(plan)
    /\ bAwait = "returned" => Built
    /\ main = "dispose" /\ ~failed => Built
    /\ main \in {"hook", "awaitUploads", "writeInfo", "awaitInfo", "resolved"} => Built

\* What becomes of the artifact of j.
Followed(j) ==
    \/ <<"artifact", j>> \in publishing
    \/ /\ isPublish => <<"upload", j>> \in publishing \/ j \in uploaded
       /\ j \in WithInfo => <<"info", j>> \in publishing \/ j \in infos

UploadsSeen ==
    /\ main # "rejected" /\ pAwait # "threw" => publishing \subseteq pTasks \cup pList
    /\ ~pErrors => \A j \in Jobs : job[j] \in {"completing", "built"} => Followed(j)

AllDone == infos = Infos /\ (isPublish => Jobs \subseteq uploaded)

DoneWhenAwaited ==
    /\ main \in {"awaitUploads", "awaitInfo"} /\ pAwait = "returned" => publishing = {} /\ ~pErrors
    /\ main = "writeInfo" => publishing = {} /\ ~pErrors /\ AllDone
    /\ main = "awaitInfo" =>
          /\ AllDone
          /\ publishing \subseteq {UpdateInfo}
          /\ isPublish /\ ~pErrors => UpdateInfo \in publishing \/ UpdateInfo[2] \in uploaded

\* The update information is uploaded when nothing is left to build, which
\* UpdateInfoLast needs once the build is cancelled.
Announced == UpdateInfo \in publishing \/ UpdateInfo[2] \in uploaded
AnnouncedLate == Announced => main \in {"awaitInfo", "resolved", "rejected"}

BuildInv ==
    /\ BuildTypeOK
    /\ Awaiting
    /\ ~cancelled => /\ PacksStarted
                     /\ ~bErrors => BuildsSeen
                     /\ BuiltWhenAwaited
                     /\ UploadsSeen
                     /\ DoneWhenAwaited
    /\ AnnouncedLate
    /\ ResolvedMeansDone
    /\ UpdateInfoLast

-----------------------------------------------------------------------------
\* The plan

LEMMA PlanFacts ==
  ASSUME plan \in Plans
  PROVE  /\ Len(plan) \in Nat /\ DOMAIN plan = 1..Len(plan)
         /\ \A i, k \in DOMAIN plan : i # k => JobsOf(plan[i]) \cap JobsOf(plan[k]) = {}
         /\ \A i \in DOMAIN plan : /\ DOMAIN plan[i].sync \subseteq Nat
                                  /\ JobsOf(plan[i]) \subseteq Jobs
                                  /\ GroupJobs(i) \subseteq JobsOf(plan[i])
                                  /\ plan[i].async \subseteq JobsOf(plan[i])
                                  /\ plan[i].finish \subseteq JobsOf(plan[i])
                                  /\ \A n \in DOMAIN plan[i].sync : plan[i].sync[n] \in GroupJobs(i)
         /\ \A j \in Jobs : \E i \in DOMAIN plan : j \in JobsOf(plan[i])
         /\ UpdateInfo[2] \notin Jobs /\ Extra[2] \notin Jobs
<1>1. /\ Len(plan) \in Nat /\ DOMAIN plan = 1..Len(plan)
      /\ \A i, k \in DOMAIN plan : i # k => JobsOf(plan[i]) \cap JobsOf(plan[k]) = {}
      /\ \A i \in DOMAIN plan : /\ DOMAIN plan[i].sync \subseteq Nat
                               /\ {UpdateInfo[2], Extra[2]} \cap JobsOf(plan[i]) = {}
  BY BuildAssumption DEF BuildAssumption
<1>2. \A i \in DOMAIN plan : JobsOf(plan[i]) \subseteq Jobs
  BY DEF Jobs
<1>3. \A i \in DOMAIN plan : /\ GroupJobs(i) \subseteq JobsOf(plan[i])
                             /\ plan[i].async \subseteq JobsOf(plan[i])
                             /\ plan[i].finish \subseteq JobsOf(plan[i])
                             /\ \A n \in DOMAIN plan[i].sync : plan[i].sync[n] \in GroupJobs(i)
  BY DEF GroupJobs, JobsOf, SeqSet
<1>4. \A j \in Jobs : \E i \in DOMAIN plan : j \in JobsOf(plan[i])
  BY DEF Jobs
<1>5. UpdateInfo[2] \notin Jobs /\ Extra[2] \notin Jobs
  BY <1>1, <1>4
<1> QED
  BY <1>1, <1>2, <1>3, <1>4, <1>5

LEMMA PlanKept ==
  ASSUME plan' = plan
  PROVE  /\ Jobs' = Jobs /\ Infos' = Infos
         /\ \A i : GroupJobs(i)' = GroupJobs(i)
         /\ \A j : InGroup(j)' <=> InGroup(j)
<1>1. Jobs' = Jobs /\ Infos' = Infos /\ \A i : GroupJobs(i)' = GroupJobs(i)
  BY DEF Jobs, Infos, GroupJobs
<1>2. \A j : InGroup(j)' <=> InGroup(j)
  BY DEF InGroup, GroupJobs
<1> QED
  BY <1>1, <1>2

-----------------------------------------------------------------------------
\* The task managers

\* What awaitTasks does with the promises added so far, and how it can end.
LEMMA BuildsAwaited ==
  ASSUME NEW ts, NEW running, B!StartAwait(ts, cancelled) \/ (B!ContinueAwait(running, cancelled) /\ ts = {})
  PROVE  /\ bErrors' = bErrors
         /\ bAwait' \in {"waiting", "returned", "threw"}
         /\ bAwait' # "waiting" => bList' = {} /\ bTasks' = {}
         /\ bAwait' = "waiting" => bTasks' = {} /\ bList' = bTasks \cup ts
         /\ bAwait' = "threw" => bErrors
         /\ bAwait' = "returned" => cancelled \/ (~bErrors /\ bTasks \cup ts = {})
<1>1. CASE B!StartAwait(ts, cancelled)
  BY <1>1 DEF B!StartAwait, B!Give, B!Take
<1>2. CASE B!ContinueAwait(running, cancelled) /\ ts = {}
  BY <1>2 DEF B!ContinueAwait, B!NextRound, B!Give, B!Take
<1> QED
  BY <1>1, <1>2

LEMMA UploadsAwaited ==
  ASSUME NEW ts, NEW running, P!StartAwait(ts, cancelled) \/ (P!ContinueAwait(running, cancelled) /\ ts = {})
  PROVE  /\ pErrors' = pErrors
         /\ pAwait' \in {"waiting", "returned", "threw"}
         /\ pAwait' # "waiting" => pList' = {} /\ pTasks' = {}
         /\ pAwait' = "waiting" => pTasks' = {} /\ pList' = pTasks \cup ts
         /\ pAwait' = "threw" => pErrors
         /\ pAwait' = "returned" => cancelled \/ (~pErrors /\ pTasks \cup ts = {})
<1>1. CASE P!StartAwait(ts, cancelled)
  BY <1>1 DEF P!StartAwait, P!Give, P!Take
<1>2. CASE P!ContinueAwait(running, cancelled) /\ ts = {}
  BY <1>2 DEF P!ContinueAwait, P!NextRound, P!Give, P!Take
<1> QED
  BY <1>1, <1>2

-----------------------------------------------------------------------------
\* Types

LEMMA InitTypeOK == BuildInit => BuildTypeOK
<1> SUFFICES ASSUME BuildInit PROVE BuildTypeOK
  OBVIOUS
<1>1. /\ isPublish \in BOOLEAN /\ cancelled \in BOOLEAN /\ failed \in BOOLEAN
      /\ bErrors \in BOOLEAN /\ pErrors \in BOOLEAN
  BY Zenon DEF BuildInit, B!ManagerInit, P!ManagerInit
<1>2. /\ plan \in Plans /\ main = "pack" /\ next = 1
      /\ job \in [Jobs -> {"none", "running", "completing", "built", "failed"}]
      /\ groups = {} /\ publishing = {} /\ infos = {} /\ bAwait = "none" /\ pAwait = "none"
  BY DEF BuildInit, B!ManagerInit, P!ManagerInit
<1> QED
  BY <1>1, <1>2 DEF BuildTypeOK, MainStates, AwaitStates

LEMMA NextTypeOK == BuildTypeOK /\ [BuildNext]_buildVars => BuildTypeOK'
<1> SUFFICES ASSUME BuildTypeOK, [BuildNext]_buildVars PROVE BuildTypeOK'
  OBVIOUS
<1>0. plan' = plan /\ plan \in Plans
  BY DEF BuildNext, buildVars, BuildTypeOK
<1> USE <1>0 DEF BuildTypeOK, MainStates, AwaitStates, mainVars, jobVars, publishVars, bVars, pVars
<1>1. /\ Len(plan) \in Nat /\ DOMAIN plan = 1..Len(plan) /\ Jobs' = Jobs /\ Infos' = Infos
      /\ \A i \in DOMAIN plan : /\ JobsOf(plan[i]) \subseteq Jobs
                               /\ \A n \in DOMAIN plan[i].sync : plan[i].sync[n] \in Jobs
  <2>1. \A i \in DOMAIN plan : \A n \in DOMAIN plan[i].sync : plan[i].sync[n] \in JobsOf(plan[i])
    BY PlanFacts
  <2> QED
    BY <2>1, PlanFacts, PlanKept
<1>2. ASSUME NEW js \in SUBSET Jobs
      PROVE  Start(js) \in [Jobs -> {"none", "running", "completing", "built", "failed"}]
  BY DEF Start
<1>3. CASE StartPack
  <2>1. CASE next > Len(plan) \/ cancelled
    BY <1>1, <1>3, <2>1, BuildsAwaited DEF StartPack
  <2>2. CASE ~(next > Len(plan) \/ cancelled)
    BY <1>1, <1>3, <2>2 DEF StartPack
  <2> QED
    BY <2>1, <2>2
<1>4. CASE Packed
  <2>1. PICK started \in SUBSET Jobs : job' = Start(started)
    <3>1. plan[next].async \cup plan[next].finish \subseteq Jobs
      BY <1>1, <1>4, PlanFacts DEF Packed
    <3> QED
      BY <1>4, <3>1 DEF Packed
  <2>2. groups' \subseteq DOMAIN plan
    BY <1>4 DEF Packed
  <2> QED
    <3>1. job' \in [Jobs -> {"none", "running", "completing", "built", "failed"}]
      BY <1>2, <2>1
    <3>2. /\ main' = "pack" /\ next' = next + 1
          /\ UNCHANGED <<isPublish, cancelled, failed, publishVars, pVars, bErrors, bAwait>>
      BY <1>4 DEF Packed, B!AddTasks
    <3> QED
      BY <1>1, <2>2, <3>1, <3>2
<1>5. CASE PackFails \/ Dispose \/ HookFails
  BY <1>1, <1>5 DEF PackFails, Dispose, HookFails, P!CancelTasks
<1>6. ASSUME NEW i \in DOMAIN plan, GroupStep(i) PROVE BuildTypeOK'
  <2>1. job' = job \/ \E j \in Jobs : job' = Start({j})
    BY <1>1, <1>6 DEF GroupStep
  <2>2. job' \in [Jobs -> {"none", "running", "completing", "built", "failed"}]
    <3>1. \A j \in Jobs : {j} \in SUBSET Jobs
      OBVIOUS
    <3> QED
      BY <1>2, <2>1, <3>1
  <2>3. groups' \subseteq groups /\ bErrors' \in BOOLEAN /\ bAwait' = bAwait
    BY <1>6 DEF GroupStep, B!TaskFails
  <2> QED
    BY <1>1, <1>6, <2>2, <2>3 DEF GroupStep
<1>7. ASSUME NEW j \in Jobs, ArtifactCreated(j) PROVE BuildTypeOK'
  BY <1>1, <1>7 DEF ArtifactCreated, P!AddTasks
<1>8. ASSUME NEW j \in Jobs, JobEnds(j) PROVE BuildTypeOK'
  <2>1. bErrors' \in BOOLEAN /\ bAwait' = bAwait
    BY <1>8 DEF JobEnds, B!TaskFails
  <2>2. job' \in [Jobs -> {"none", "running", "completing", "built", "failed"}]
    BY <1>8 DEF JobEnds
  <2> QED
    BY <1>1, <1>8, <2>1, <2>2 DEF JobEnds
<1>9. CASE AwaitBuilds
  <2>1. CASE B!ContinueAwait(Running, cancelled) /\ UNCHANGED <<main, failed>>
    BY <1>1, <1>9, <2>1, BuildsAwaited DEF AwaitBuilds
  <2>2. CASE ~(B!ContinueAwait(Running, cancelled) /\ UNCHANGED <<main, failed>>)
    BY <1>1, <1>9, <2>2 DEF AwaitBuilds
  <2> QED
    BY <2>1, <2>2
<1>10. CASE HookEnds
  <2>1. PICK new \in SUBSET {Extra} : publishing' = publishing \cup new /\ P!StartAwait(new, cancelled)
    BY <1>10 DEF HookEnds
  <2> QED
    BY <1>1, <1>10, <2>1, UploadsAwaited DEF HookEnds
<1>11. CASE AwaitUploads \/ AwaitInfo
  <2>1. CASE P!ContinueAwait(publishing, cancelled)
    BY <1>1, <1>11, <2>1, UploadsAwaited DEF AwaitUploads, AwaitInfo
  <2>2. CASE ~P!ContinueAwait(publishing, cancelled)
    BY <1>1, <1>11, <2>2 DEF AwaitUploads, AwaitInfo
  <2> QED
    BY <2>1, <2>2
<1>12. CASE WriteInfo
  <2>1. CASE UNCHANGED <<publishing, pVars>>
    BY <1>1, <1>12, <2>1 DEF WriteInfo
  <2>2. CASE ~UNCHANGED <<publishing, pVars>>
    <3>1. PICK new \in SUBSET {UpdateInfo} : publishing' = publishing \cup new /\ P!StartAwait(new, cancelled)
      BY <1>12, <2>2 DEF WriteInfo
    <3> QED
      BY <1>1, <1>12, <2>2, <3>1, UploadsAwaited DEF WriteInfo
  <2> QED
    BY <2>1, <2>2
<1>13. ASSUME NEW j \in Jobs, ArtifactTask(j) PROVE BuildTypeOK'
  <2>1. Follow(j) \subseteq ({"artifact", "upload"} \X Jobs) \cup ({"info"} \X Infos)
    BY DEF Follow, Infos
  <2> QED
    BY <1>1, <1>13, <2>1 DEF ArtifactTask, P!AddTasks
<1>14. ASSUME NEW t, UploadEnds(t) PROVE BuildTypeOK'
  BY <1>1, <1>14 DEF UploadEnds
<1>15. ASSUME NEW j \in Jobs, InfoEnds(j) PROVE BuildTypeOK'
  BY <1>1, <1>15 DEF InfoEnds, UpdateInfo, Extra
<1>16. ASSUME NEW t, PublishTaskFails(t) PROVE BuildTypeOK'
  BY <1>1, <1>16 DEF PublishTaskFails, P!TaskFails
<1>17. CASE SigInt
  BY <1>1, <1>17 DEF SigInt, P!CancelTasks
<1>18. CASE UNCHANGED buildVars
  BY <1>1, <1>18 DEF buildVars
<1> QED
  BY <1>3, <1>4, <1>5, <1>6, <1>7, <1>8, <1>9, <1>10, <1>11, <1>12, <1>13, <1>14, <1>15, <1>16,
     <1>17, <1>18 DEF BuildNext, Main, Work, JobStep, PublishStep

-----------------------------------------------------------------------------
\* The builds

LEMMA NextAwaiting == BuildTypeOK /\ Awaiting /\ [BuildNext]_buildVars => Awaiting'
<1> SUFFICES ASSUME BuildTypeOK, Awaiting, [BuildNext]_buildVars PROVE Awaiting'
  OBVIOUS
<1> USE DEF Awaiting, mainVars, jobVars, publishVars, bVars, pVars
<1>1. CASE StartPack
  <2>1. CASE next > Len(plan) \/ cancelled
    BY <1>1, <2>1, BuildsAwaited DEF StartPack
  <2>2. CASE ~(next > Len(plan) \/ cancelled)
    BY <1>1, <2>2 DEF StartPack
  <2> QED
    BY <2>1, <2>2
<1>2. CASE AwaitBuilds
  <2>1. CASE B!ContinueAwait(Running, cancelled) /\ UNCHANGED <<main, failed>>
    BY <1>2, <2>1, BuildsAwaited DEF AwaitBuilds
  <2>2. CASE ~(B!ContinueAwait(Running, cancelled) /\ UNCHANGED <<main, failed>>)
    BY <1>2, <2>2 DEF AwaitBuilds
  <2> QED
    BY <2>1, <2>2
<1>3. CASE Packed
  <2>1. main = "packing" /\ main' = "pack" /\ UNCHANGED <<bList, bAwait, pList, pAwait>>
    BY <1>3 DEF Packed, B!AddTasks
  <2> QED
    BY <2>1
<1>4. CASE PackFails \/ Dispose \/ HookFails \/ SigInt
  BY <1>4 DEF PackFails, Dispose, HookFails, SigInt, P!CancelTasks
<1>5. ASSUME NEW i \in DOMAIN plan, GroupStep(i) PROVE Awaiting'
  <2>1. UNCHANGED <<main, bList, bAwait, pList, pAwait>>
    BY <1>5 DEF GroupStep, B!TaskFails
  <2> QED
    BY <2>1
<1>6. ASSUME NEW j \in Jobs, JobStep(j) PROVE Awaiting'
  <2>1. UNCHANGED <<main, bList, bAwait, pList, pAwait>>
    BY <1>6 DEF JobStep, ArtifactCreated, JobEnds, B!TaskFails, P!AddTasks
  <2> QED
    BY <2>1
<1>7. CASE HookEnds
  <2>1. PICK new \in SUBSET {Extra} : P!StartAwait(new, cancelled)
    BY <1>7 DEF HookEnds
  <2> QED
    BY <1>7, <2>1, UploadsAwaited DEF HookEnds
<1>8. CASE AwaitUploads \/ AwaitInfo
  <2>1. CASE P!ContinueAwait(publishing, cancelled)
    BY <1>8, <2>1, UploadsAwaited DEF AwaitUploads, AwaitInfo, P!ContinueAwait
  <2>2. CASE ~P!ContinueAwait(publishing, cancelled)
    BY <1>8, <2>2 DEF AwaitUploads, AwaitInfo
  <2> QED
    BY <2>1, <2>2
<1>9. CASE WriteInfo
  <2>1. CASE main' = "rejected" /\ UNCHANGED <<publishing, pVars>>
    BY <1>9, <2>1 DEF WriteInfo
  <2>2. CASE ~(main' = "rejected" /\ UNCHANGED <<publishing, pVars>>)
    <3>1. PICK new \in SUBSET {UpdateInfo} : P!StartAwait(new, cancelled)
      BY <1>9, <2>2 DEF WriteInfo
    <3> QED
      BY <1>9, <2>2, <3>1, UploadsAwaited DEF WriteInfo
  <2> QED
    BY <2>1, <2>2
<1>10. ASSUME NEW t, PublishStep(t) PROVE Awaiting'
  BY <1>10 DEF PublishStep, UploadEnds, PublishTaskFails, ArtifactTask, InfoEnds, P!AddTasks,
               P!TaskFails
<1>11. CASE UNCHANGED buildVars
  BY <1>11 DEF buildVars
<1> QED
  BY <1>1, <1>2, <1>3, <1>4, <1>5, <1>6, <1>7, <1>8, <1>9, <1>10, <1>11 DEF BuildNext, Main, Work

BuildsInv ==
    /\ PacksStarted
    /\ ~bErrors => BuildsSeen
    /\ BuiltWhenAwaited

\* Steps that start and end no build.
LEMMA BuildsFrame ==
  ASSUME UNCHANGED <<plan, next, job, groups, tracked>>
  PROVE  /\ PacksStarted => PacksStarted'
         /\ bTasks' \cup bList' = bTasks \cup bList /\ BuildsSeen => BuildsSeen'
         /\ Built => Built'
<1>1. /\ Jobs' = Jobs /\ \A i : GroupJobs(i)' = GroupJobs(i)
      /\ \A j : InGroup(j)' <=> InGroup(j)
  BY PlanKept
<1>2. PacksStarted => PacksStarted'
  BY DEF PacksStarted
<1>3. bTasks' \cup bList' = bTasks \cup bList /\ BuildsSeen => BuildsSeen'
  BY <1>1 DEF BuildsSeen, RunningJobs
<1>4. Built => Built'
  BY <1>1 DEF Built
<1> QED
  BY <1>2, <1>3, <1>4

\* When nothing that is awaited is left, every target was built.
LEMMA AllBuilt ==
  ASSUME BuildTypeOK, PacksStarted, BuildsSeen, next > Len(plan), groups = {},
         \A j \in RunningJobs : InGroup(j)
  PROVE  Built
<1>1. SUFFICES ASSUME NEW j \in Jobs PROVE job[j] = "built"
  BY DEF Built
<1>2. PICK i \in DOMAIN plan : j \in JobsOf(plan[i])
  BY PlanFacts DEF BuildTypeOK
<1>3. i < next
  BY PlanFacts DEF BuildTypeOK
<1>4. CASE plan[i].sync # <<>> /\ j \in GroupJobs(i)
  BY <1>3, <1>4 DEF BuildsSeen
<1>5. CASE ~(plan[i].sync # <<>> /\ j \in GroupJobs(i))
  <2>1. j \in plan[i].async \cup plan[i].finish
    BY <1>2, <1>5 DEF JobsOf, SeqSet, GroupJobs
  <2>2. job[j] # "none" /\ job[j] # "failed"
    BY <1>3, <2>1 DEF PacksStarted, BuildsSeen
  <2>3. \A k \in DOMAIN plan : j \in GroupJobs(k) => k = i
    <3>1. \A k \in DOMAIN plan : GroupJobs(k) \subseteq JobsOf(plan[k])
      BY PlanFacts DEF BuildTypeOK
    <3> QED
      BY <1>2, <3>1, PlanFacts DEF BuildTypeOK
  <2>4. ~InGroup(j)
    BY <1>5, <2>3 DEF InGroup
  <2> QED
    BY <2>2, <2>4 DEF RunningJobs, BuildTypeOK
<1> QED
  BY <1>4, <1>5

LEMMA PackedBuilds ==
  ASSUME BuildTypeOK, Awaiting, BuildsInv, Packed, plan' = plan, ~cancelled
  PROVE  BuildsInv'
<1> DEFINE started == plan[next].async \cup plan[next].finish
           group == plan[next].sync # <<>>
<1>1. /\ main = "packing" /\ main' = "pack" /\ bAwait = "none" /\ bAwait' = bAwait
      /\ bErrors' = bErrors /\ bList' = bList
      /\ next \in DOMAIN plan /\ next \in Nat /\ next' = next + 1
      /\ job' = Start(started) /\ tracked' = tracked \cup started
      /\ group => groups' = groups \cup {next} /\ bTasks' = bTasks \cup {next} \cup plan[next].finish
      /\ ~group => groups' = groups /\ bTasks' = bTasks \cup started
  BY DEF Packed, B!AddTasks, Awaiting, BuildTypeOK
<1>2. /\ DOMAIN plan \subseteq Nat
      /\ \A i, k \in DOMAIN plan : i # k => JobsOf(plan[i]) \cap JobsOf(plan[k]) = {}
      /\ \A i \in DOMAIN plan : GroupJobs(i) \cup plan[i].async \cup plan[i].finish \subseteq JobsOf(plan[i])
      /\ \A i \in DOMAIN plan : JobsOf(plan[i]) \subseteq Jobs
      /\ Jobs' = Jobs /\ \A i : GroupJobs(i)' = GroupJobs(i)
      /\ \A j : InGroup(j)' <=> InGroup(j)
  BY PlanFacts, PlanKept DEF BuildTypeOK
<1>3. started \subseteq JobsOf(plan[next])
  BY <1>1, <1>2
<1>4. \A j \in Jobs : /\ j \in started => job'[j] = "running"
                      /\ j \notin started => job'[j] = job[j]
  BY <1>1 DEF Start
<1>5. \A i \in DOMAIN plan : i # next => \A j \in JobsOf(plan[i]) : job'[j] = job[j]
  BY <1>1, <1>2, <1>3, <1>4
<1>6. \A j \in started : j \in Jobs /\ job'[j] = "running"
  BY <1>1, <1>2, <1>3, <1>4
<1>7. plan[next].async \subseteq GroupJobs(next) /\ (group => next \in groups' \cap bTasks')
  BY <1>1 DEF GroupJobs
<1> HIDE DEF started
<1>8. PacksStarted'
  <2>1. SUFFICES ASSUME NEW i \in DOMAIN plan
                 PROVE  /\ i >= next + 1 => i \notin groups' /\ \A j \in JobsOf(plan[i]) : job'[j] = "none"
                        /\ i < next + 1 => \A j \in plan[i].async \cup plan[i].finish : job'[j] # "none"
    BY <1>1 DEF PacksStarted
  <2>2. CASE i = next
    <3>1. ~(i >= next + 1)
      BY <1>1, <2>2
    <3>2. \A j \in plan[i].async \cup plan[i].finish : job'[j] # "none"
      BY <1>6, <2>2 DEF started
    <3> QED
      BY <3>1, <3>2
  <2>3. CASE i # next
    BY <1>1, <1>2, <1>5, <2>1, <2>3 DEF BuildsInv, PacksStarted
  <2> QED
    BY <2>2, <2>3
<1>9. ASSUME ~bErrors, BuildsSeen PROVE BuildsSeen'
  <2>1. ASSUME NEW j \in Jobs, job'[j] \in {"running", "completing"}, ~InGroup(j)
        PROVE  j \in tracked' /\ j \in bTasks' \cup bList'
    <3>1. CASE j \in started
      <4>1. j \in plan[next].async => ~group
        BY <1>1, <1>7, <2>1 DEF InGroup
      <4> QED
        BY <1>1, <3>1, <4>1 DEF started
    <3>2. CASE j \notin started
      BY <1>1, <1>4, <1>9, <2>1, <3>2 DEF BuildsSeen, RunningJobs
    <3> QED
      BY <3>1, <3>2
  <2>2. groups' \subseteq bTasks' \cup bList'
    BY <1>1, <1>9 DEF BuildsSeen
  <2>3. ASSUME NEW i \in DOMAIN plan, i < next + 1, plan[i].sync # <<>>
        PROVE  i \in groups' \/ \A j \in GroupJobs(i) : job'[j] = "built"
    <3>1. CASE i = next
      BY <1>7, <2>3, <3>1
    <3>2. CASE i # next
      <4>1. groups \subseteq groups' /\ \A j \in GroupJobs(i) : job'[j] = job[j]
        BY <1>1, <1>2, <1>5, <3>2
      <4> QED
        BY <1>1, <1>2, <1>9, <2>3, <3>2, <4>1 DEF BuildsSeen
    <3> QED
      BY <3>1, <3>2
  <2>4. ASSUME NEW j \in Jobs, job'[j] = "failed" PROVE \E i \in groups' : j \in GroupJobs(i)
    BY <1>1, <1>4, <1>9, <2>4 DEF BuildsSeen
  <2> QED
    BY <1>1, <1>2, <2>1, <2>2, <2>3, <2>4 DEF BuildsSeen, RunningJobs
<1> QED
  BY <1>1, <1>8, <1>9 DEF BuildsInv, BuiltWhenAwaited

LEMMA GroupBuilds ==
  ASSUME BuildTypeOK, BuildsInv, NEW i \in DOMAIN plan, GroupStep(i), plan' = plan
  PROVE  BuildsInv'
<1>1. /\ DOMAIN plan \subseteq Nat /\ next \in Nat
      /\ \A k \in DOMAIN plan : i # k => JobsOf(plan[i]) \cap JobsOf(plan[k]) = {}
      /\ \A k \in DOMAIN plan : GroupJobs(k) \subseteq JobsOf(plan[k]) /\ GroupJobs(k) \subseteq Jobs
      /\ \A n \in DOMAIN plan[i].sync : plan[i].sync[n] \in GroupJobs(i)
      /\ Jobs' = Jobs /\ \A k : GroupJobs(k)' = GroupJobs(k)
      /\ \A j : InGroup(j)' <=> InGroup(j)
  BY PlanFacts, PlanKept DEF BuildTypeOK
<1>2. i \in groups /\ GroupJobs(i) \cap RunningJobs = {} /\ i < next
  BY <1>1 DEF GroupStep, Awaited, BuildsInv, PacksStarted
<1>3. UNCHANGED <<main, next, failed, tracked, bTasks, bList, bAwait>>
  BY DEF GroupStep, B!TaskFails, mainVars, bVars
<1>4. CASE groups' = groups \ {i} /\ B!TaskFails /\ UNCHANGED job
  <2>1. bErrors' /\ (Built => Built')
    BY <1>1, <1>4 DEF B!TaskFails, Built
  <2> QED
    BY <1>3, <1>4, <2>1 DEF BuildsInv, BuiltWhenAwaited, PacksStarted
<1>5. CASE /\ ~\E j \in GroupJobs(i) : job[j] = "failed"
           /\ {n \in DOMAIN plan[i].sync : job[plan[i].sync[n]] = "none"} = {}
           /\ groups' = groups \ {i} /\ UNCHANGED <<job, bVars>>
  <2>1. \A j \in GroupJobs(i) : job[j] = "built"
    <3>1. SUFFICES ASSUME NEW j \in GroupJobs(i) PROVE job[j] = "built"
      OBVIOUS
    <3>2. job[j] # "none"
      BY <1>2, <1>5 DEF GroupJobs, SeqSet, BuildsInv, PacksStarted
    <3>3. j \in Jobs /\ job[j] # "failed"
      BY <1>1, <1>5
    <3> QED
      BY <1>2, <3>2, <3>3 DEF BuildTypeOK, RunningJobs
  <2>2. (BuildsSeen => BuildsSeen') /\ (Built => Built') /\ bErrors' = bErrors
    BY <1>1, <1>3, <1>5, <2>1 DEF BuildsSeen, Built, RunningJobs, bVars
  <2> QED
    BY <1>3, <1>5, <2>2 DEF BuildsInv, BuiltWhenAwaited, PacksStarted
<1>6. ASSUME NEW n \in DOMAIN plan[i].sync, job[plan[i].sync[n]] = "none",
             job' = Start({plan[i].sync[n]}), UNCHANGED <<groups, bVars>>
      PROVE  BuildsInv'
  <2> DEFINE s == plan[i].sync[n]
  <2>1. s \in GroupJobs(i) /\ s \in Jobs /\ job[s] = "none" /\ job'[s] = "running"
    BY <1>1, <1>6 DEF Start
  <2>2. InGroup(s)
    <3>1. plan[i].sync # <<>>
      BY <1>6
    <3> QED
      BY <2>1, <3>1 DEF InGroup
  <2>3. \A j \in Jobs : j # s => job'[j] = job[j]
    BY <1>6 DEF Start
  <2>4. ~Built /\ UNCHANGED <<bErrors, groups>>
    BY <1>6, <2>1 DEF Built, bVars
  <2> HIDE DEF s
  <2>5. PacksStarted'
    <3>1. SUFFICES ASSUME NEW k \in DOMAIN plan
                   PROVE  /\ k >= next => k \notin groups /\ \A j \in JobsOf(plan[k]) : job'[j] = "none"
                          /\ k < next => \A j \in plan[k].async \cup plan[k].finish : job'[j] # "none"
      BY <1>3, <2>4 DEF PacksStarted
    <3>2. \A j \in plan[k].async \cup plan[k].finish : j \in JobsOf(plan[k])
      BY DEF JobsOf
    <3>3. JobsOf(plan[k]) \subseteq Jobs
      BY PlanFacts DEF BuildTypeOK
    <3>4. k >= next => s \notin JobsOf(plan[k])
      BY <1>1, <1>2, <2>1
    <3> QED
      BY <2>1, <2>3, <3>2, <3>3, <3>4 DEF BuildsInv, PacksStarted
  <2>6. BuildsSeen => BuildsSeen'
    <3> SUFFICES ASSUME BuildsSeen PROVE BuildsSeen'
      OBVIOUS
    <3>1. \A j \in RunningJobs' : ~InGroup(j) => j \in tracked /\ j \in bTasks \cup bList
      BY <1>1, <2>2, <2>3 DEF BuildsSeen, RunningJobs
    <3>2. ASSUME NEW k \in DOMAIN plan, k < next, plan[k].sync # <<>>
          PROVE  k \in groups \/ \A j \in GroupJobs(k) : job'[j] = "built"
      <4>1. CASE s \in GroupJobs(k)
        BY <2>1, <3>2, <4>1 DEF BuildsSeen
      <4>2. CASE s \notin GroupJobs(k)
        BY <1>1, <2>3, <3>2, <4>2 DEF BuildsSeen
      <4> QED
        BY <4>1, <4>2
    <3>3. \A j \in Jobs : job'[j] = "failed" => \E k \in groups : j \in GroupJobs(k)
      BY <2>1, <2>3 DEF BuildsSeen
    <3> QED
      BY <1>1, <1>3, <2>4, <3>1, <3>2, <3>3 DEF BuildsSeen
  <2> QED
    BY <1>3, <2>4, <2>5, <2>6 DEF BuildsInv, BuiltWhenAwaited
<1> QED
  BY <1>4, <1>5, <1>6 DEF GroupStep

LEMMA JobBuilds ==
  ASSUME BuildTypeOK, BuildsInv, NEW j \in Jobs, JobStep(j), plan' = plan
  PROVE  BuildsInv'
<1>1. /\ DOMAIN plan \subseteq Nat /\ next \in Nat
      /\ \A k \in DOMAIN plan : /\ GroupJobs(k) \subseteq JobsOf(plan[k])
                               /\ JobsOf(plan[k]) \subseteq Jobs
                               /\ plan[k].async \cup plan[k].finish \subseteq JobsOf(plan[k])
      /\ Jobs' = Jobs /\ \A k : GroupJobs(k)' = GroupJobs(k)
      /\ \A k : InGroup(k)' <=> InGroup(k)
  BY PlanFacts, PlanKept DEF BuildTypeOK
<1>2. /\ UNCHANGED <<main, next, failed, tracked, groups, bTasks, bList, bAwait>>
      /\ j \in RunningJobs
      /\ \E to \in {"completing", "built", "failed"} :
            /\ job' = [job EXCEPT ![j] = to]
            /\ to = "failed" /\ ~bErrors' => j \notin tracked \/ InGroup(j)
            /\ bErrors' # bErrors => bErrors'
  <2>1. CASE ArtifactCreated(j)
    BY <2>1 DEF ArtifactCreated, mainVars, bVars, RunningJobs
  <2>2. CASE JobEnds(j)
    BY <2>2, Zenon DEF JobEnds, mainVars, bVars, RunningJobs, B!TaskFails
  <2> QED
    BY <2>1, <2>2 DEF JobStep
<1>3. job[j] \in {"running", "completing"} /\ ~Built
  BY <1>2 DEF RunningJobs, Built
<1>4. PICK to \in {"completing", "built", "failed"} : job' = [job EXCEPT ![j] = to]
                   /\ (to = "failed" /\ ~bErrors' => j \notin tracked \/ InGroup(j))
  BY <1>2
<1>5. job'[j] = to /\ \A k \in Jobs : k # j => job'[k] = job[k]
  BY <1>4 DEF BuildTypeOK
<1>6. PacksStarted'
  <2>1. SUFFICES ASSUME NEW k \in DOMAIN plan
                 PROVE  /\ k >= next => k \notin groups /\ \A i \in JobsOf(plan[k]) : job'[i] = "none"
                        /\ k < next => \A i \in plan[k].async \cup plan[k].finish : job'[i] # "none"
    BY <1>2 DEF PacksStarted
  <2>2. ASSUME k >= next PROVE k \notin groups /\ \A i \in JobsOf(plan[k]) : i # j /\ job[i] = "none"
    BY <1>3, <2>2 DEF BuildsInv, PacksStarted
  <2>3. ASSUME k < next, NEW i \in plan[k].async \cup plan[k].finish PROVE job'[i] # "none"
    BY <1>1, <1>5, <2>3 DEF BuildsInv, PacksStarted
  <2> QED
    BY <1>1, <1>5, <2>2, <2>3
<1>7. ASSUME ~bErrors' PROVE BuildsSeen'
  <2>1. BuildsSeen
    BY <1>2, <1>7 DEF BuildsInv
  <2>2. \A k \in RunningJobs' : k \in RunningJobs
    BY <1>1, <1>2, <1>5 DEF RunningJobs
  <2>3. ASSUME NEW i \in DOMAIN plan, i < next, plan[i].sync # <<>>
        PROVE  i \in groups \/ \A k \in GroupJobs(i) : job'[k] = "built"
    <3>1. CASE i \in groups
      BY <3>1
    <3>2. CASE i \notin groups
      <4>1. \A k \in GroupJobs(i) : job[k] = "built"
        BY <2>1, <2>3, <3>2 DEF BuildsSeen
      <4> QED
        BY <1>1, <1>3, <1>5, <4>1
    <3> QED
      BY <3>1, <3>2
  <2>4. ASSUME NEW k \in Jobs, job'[k] = "failed" PROVE \E i \in groups : k \in GroupJobs(i)
    <3>1. CASE k # j
      BY <1>5, <2>1, <2>4, <3>1 DEF BuildsSeen
    <3>2. CASE k = j
      <4>1. InGroup(j)
        BY <1>2, <1>4, <1>5, <1>7, <2>1, <2>4, <3>2 DEF BuildsSeen
      <4>2. PICK i \in DOMAIN plan : plan[i].sync # <<>> /\ j \in GroupJobs(i)
        BY <4>1 DEF InGroup
      <4>3. i < next
        BY <1>1, <1>3, <4>2 DEF BuildsInv, PacksStarted
      <4> QED
        BY <1>3, <2>1, <3>2, <4>2, <4>3 DEF BuildsSeen
    <3> QED
      BY <3>1, <3>2
  <2> QED
    BY <1>1, <1>2, <2>1, <2>2, <2>3, <2>4 DEF BuildsSeen
<1> QED
  BY <1>2, <1>3, <1>6, <1>7 DEF BuildsInv, BuiltWhenAwaited

LEMMA NextBuilds ==
  BuildTypeOK /\ Awaiting /\ BuildsInv /\ ~cancelled /\ [BuildNext]_buildVars /\ ~cancelled' => BuildsInv'
<1> SUFFICES ASSUME BuildTypeOK, Awaiting, BuildsInv, ~cancelled, [BuildNext]_buildVars, ~cancelled'
             PROVE  BuildsInv'
  OBVIOUS
<1>0. plan' = plan /\ DOMAIN plan = 1..Len(plan) /\ Len(plan) \in Nat /\ bErrors \in BOOLEAN
  BY PlanFacts DEF BuildNext, buildVars, BuildTypeOK
\* The steps that no build starts or ends with, and that wait for none
<1>1. ASSUME UNCHANGED <<next, jobVars, bVars>>,
             main' \in {"pack", "awaitBuilds"} => main' = main,
             main' = "dispose" => (main = "dispose" /\ failed' = failed) \/ failed' \/ bAwait = "returned",
             main' \in {"hook", "awaitUploads", "writeInfo", "awaitInfo", "resolved"} =>
                 main \in {"hook", "awaitUploads", "writeInfo", "awaitInfo", "resolved"}
                 \/ (main = "dispose" /\ ~failed)
      PROVE  BuildsInv'
  <2>1. PacksStarted' /\ (~bErrors' => BuildsSeen') /\ (Built => Built')
    BY <1>0, <1>1, BuildsFrame DEF BuildsInv, jobVars, bVars
  <2>2. BuiltWhenAwaited'
    BY <1>0, <1>1, <2>1 DEF BuildsInv, BuiltWhenAwaited, bVars
  <2> QED
    BY <2>1, <2>2 DEF BuildsInv
\* awaitTasks gets on
<1>2. ASSUME UNCHANGED <<next, jobVars, failed>>, main' = "awaitBuilds", next > Len(plan),
             \/ B!StartAwait({}, cancelled) /\ bAwait = "none"
             \/ B!ContinueAwait(Running, cancelled)
      PROVE  BuildsInv'
  <2>1. /\ PacksStarted'
        /\ bTasks' \cup bList' = bTasks \cup bList /\ BuildsSeen => BuildsSeen'
        /\ Built => Built'
    BY <1>0, <1>2, BuildsFrame DEF jobVars, BuildsInv
  <2>2. /\ bErrors' = bErrors /\ bAwait' \in {"waiting", "returned", "threw"}
        /\ bAwait' # "waiting" => bList' = {} /\ bTasks' = {}
        /\ bAwait' = "waiting" => bTasks' = {} /\ bList' = bTasks
        /\ bAwait' = "threw" => bErrors
        /\ bAwait' = "returned" => ~bErrors /\ bTasks = {}
    <3>1. \A x : x \cup {} = x
      OBVIOUS
    <3> QED
      BY <1>2, <3>1, BuildsAwaited
  <2>3. bList \cap Running = {}
    BY <1>2 DEF Awaiting, B!ContinueAwait
  <2>4. ASSUME ~bErrors PROVE BuildsSeen' /\ (bAwait' = "returned" => Built)
    <3>1. BuildsSeen
      BY <2>4 DEF BuildsInv
    <3>2. \A j \in RunningJobs : ~InGroup(j) => j \in tracked /\ j \in bTasks
      BY <2>3, <3>1 DEF BuildsSeen, Running
    <3>3. groups \subseteq bTasks
      BY <2>3, <3>1 DEF BuildsSeen, Running
    <3>4. BuildsSeen'
      <4>1. bTasks \subseteq bTasks' \cup bList'
        BY <2>2, <2>4
      <4>2. /\ Jobs' = Jobs /\ \A k : GroupJobs(k)' = GroupJobs(k)
            /\ \A k : InGroup(k)' <=> InGroup(k)
        BY <1>0, PlanKept
      <4>3. RunningJobs' = RunningJobs
        BY <1>2, <4>2 DEF RunningJobs, jobVars
      <4> QED
        BY <1>0, <1>2, <3>1, <3>2, <3>3, <4>1, <4>2, <4>3 DEF BuildsSeen, jobVars
    <3>5. bAwait' = "returned" => Built
      BY <1>2, <2>2, <3>1, <3>2, <3>3, AllBuilt DEF BuildsInv
    <3> QED
      BY <3>4, <3>5
  <2>5. BuiltWhenAwaited'
    BY <1>0, <1>2, <2>1, <2>2, <2>4 DEF BuiltWhenAwaited
  <2> QED
    BY <1>0, <2>1, <2>2, <2>4, <2>5 DEF BuildsInv
<1>3. CASE StartPack
  <2>1. CASE next > Len(plan)
    BY <1>2, <1>3, <2>1 DEF StartPack, Awaiting, mainVars
  <2>2. CASE ~(next > Len(plan))
    BY <1>1, <1>3, <2>2 DEF StartPack
  <2> QED
    BY <2>1, <2>2
<1>4. CASE AwaitBuilds
  <2>1. CASE B!ContinueAwait(Running, cancelled) /\ UNCHANGED <<main, failed>>
    BY <1>2, <1>4, <2>1 DEF AwaitBuilds, BuildsInv, BuiltWhenAwaited
  <2>2. CASE ~(B!ContinueAwait(Running, cancelled) /\ UNCHANGED <<main, failed>>)
    BY <1>1, <1>4, <2>2 DEF AwaitBuilds
  <2> QED
    BY <2>1, <2>2
<1>5. CASE Packed
  BY <1>0, <1>5, PackedBuilds
<1>6. ASSUME NEW i \in DOMAIN plan, GroupStep(i) PROVE BuildsInv'
  BY <1>0, <1>6, GroupBuilds
<1>7. ASSUME NEW j \in Jobs, JobStep(j) PROVE BuildsInv'
  BY <1>0, <1>7, JobBuilds
<1>8. CASE PackFails
  BY <1>1, <1>8 DEF PackFails
<1>9. CASE Dispose
  BY <1>1, <1>9 DEF Dispose
<1>10. CASE HookEnds \/ HookFails
  BY <1>1, <1>10 DEF HookEnds, HookFails
<1>11. CASE AwaitUploads
  BY <1>1, <1>11 DEF AwaitUploads
<1>12. CASE WriteInfo \/ AwaitInfo
  BY <1>1, <1>12 DEF WriteInfo, AwaitInfo
<1>13. ASSUME NEW t, PublishStep(t) PROVE BuildsInv'
  <2>1. UNCHANGED <<mainVars, jobVars, bVars>>
    BY <1>13 DEF PublishStep, UploadEnds, PublishTaskFails, ArtifactTask, InfoEnds
  <2> QED
    BY <1>1, <2>1 DEF mainVars
<1>14. CASE UNCHANGED buildVars
  BY <1>1, <1>14 DEF buildVars, mainVars
<1>15. ~SigInt
  BY DEF SigInt
<1> QED
  BY <1>3, <1>4, <1>5, <1>6, <1>7, <1>8, <1>9, <1>10, <1>11, <1>12, <1>13, <1>14, <1>15
     DEF BuildNext, Main, Work

-----------------------------------------------------------------------------
\* The uploads

UploadsInv == UploadsSeen /\ DoneWhenAwaited

\* Steps of the builds and of build() that PublishManager takes no part in.
LEMMA UploadsFrame ==
  ASSUME UploadsInv, UNCHANGED <<plan, isPublish, publishVars, pVars>>,
         \A j \in Jobs : job'[j] \in {"completing", "built"} => job[j] \in {"completing", "built"},
         main = "rejected" => main' = "rejected",
         main' \in {"awaitUploads", "writeInfo", "awaitInfo"} => main' = main
  PROVE  UploadsInv'
<1>1. Jobs' = Jobs /\ Infos' = Infos
  BY PlanKept
<1>2. UploadsSeen'
  BY <1>1 DEF UploadsInv, UploadsSeen, Followed, publishVars, pVars
<1>3. DoneWhenAwaited'
  BY <1>1 DEF UploadsInv, DoneWhenAwaited, AllDone, publishVars, pVars
<1> QED
  BY <1>2, <1>3 DEF UploadsInv

\* What is awaited next, from a round of awaitTasks to another.
LEMMA UploadRound ==
  ASSUME UploadsInv, Awaiting, ~cancelled, main # "rejected",
         P!ContinueAwait(publishing, cancelled), UNCHANGED <<publishing, main>>
  PROVE  /\ pErrors' = pErrors
         /\ pAwait' # "threw" => publishing' \subseteq pTasks' \cup pList'
         /\ pAwait' = "returned" => publishing = {} /\ ~pErrors
<1>1. pAwait = "waiting" /\ pList \cap publishing = {}
  BY DEF P!ContinueAwait
<1>2. publishing \subseteq pTasks
  BY <1>1 DEF UploadsInv, UploadsSeen
<1>3. \A x : x \cup {} = x
  OBVIOUS
<1>4. /\ pErrors' = pErrors /\ pAwait' \in {"waiting", "returned", "threw"}
      /\ pAwait' = "waiting" => pList' = pTasks
      /\ pAwait' = "returned" => ~pErrors /\ pTasks = {}
  BY <1>3, UploadsAwaited
<1> QED
  BY <1>2, <1>4

\* The first round, in which the promise of a new upload is added.
LEMMA UploadStart ==
  ASSUME UploadsInv, Awaiting, ~cancelled, main \in {"hook", "writeInfo"}, NEW new,
         P!StartAwait(new, cancelled), publishing' = publishing \cup new
  PROVE  /\ pErrors' = pErrors
         /\ pAwait' # "threw" => publishing' \subseteq pTasks' \cup pList'
         /\ pAwait' = "returned" => publishing' = {} /\ ~pErrors
<1>1. pList = {} /\ pAwait \in {"none", "returned"}
  BY DEF Awaiting
<1>2. publishing \subseteq pTasks
  BY <1>1 DEF UploadsInv, UploadsSeen
<1>3. /\ pErrors' = pErrors /\ pAwait' \in {"waiting", "returned", "threw"}
      /\ pAwait' = "waiting" => pList' = pTasks \cup new
      /\ pAwait' = "returned" => ~pErrors /\ pTasks \cup new = {}
  BY UploadsAwaited
<1> QED
  BY <1>2, <1>3

\* Every artifact is dealt with, when all builds ended and no task is left.
LEMMA AllFollowed ==
  ASSUME BuildTypeOK, UploadsInv, Built, publishing = {}, ~pErrors
  PROVE  AllDone
<1>1. \A j \in Jobs : Followed(j)
  BY DEF UploadsInv, UploadsSeen, Built
<1>2. Infos \subseteq infos /\ (isPublish => Jobs \subseteq uploaded)
  BY <1>1 DEF Followed, Infos
<1> QED
  BY <1>2 DEF AllDone, BuildTypeOK

LEMMA MainUploads ==
  ASSUME BuildTypeOK, Awaiting, BuiltWhenAwaited, UploadsInv, ~cancelled, plan' = plan,
         HookEnds \/ AwaitUploads \/ WriteInfo \/ AwaitInfo
  PROVE  UploadsInv'
<1>1. /\ Jobs' = Jobs /\ Infos' = Infos /\ main # "rejected"
      /\ UNCHANGED <<isPublish, job, uploaded, infos>> /\ Built
  BY PlanKept DEF HookEnds, AwaitUploads, WriteInfo, AwaitInfo, jobVars, publishVars, BuiltWhenAwaited
\* It is enough to look at the list of promises and at the end of the wait.
<1>2. ASSUME publishing \subseteq publishing', pErrors' = pErrors,
             main' = "rejected" \/ (pAwait' # "threw" => publishing' \subseteq pTasks' \cup pList'),
             DoneWhenAwaited'
      PROVE  UploadsInv'
  BY <1>1, <1>2 DEF UploadsInv, UploadsSeen, Followed
<1>3. CASE HookEnds
  <2>1. PICK new : publishing' = publishing \cup new /\ P!StartAwait(new, cancelled)
    BY <1>3 DEF HookEnds
  <2>2. main = "hook" /\ main' = "awaitUploads"
    BY <1>3 DEF HookEnds
  <2>3. /\ pErrors' = pErrors
        /\ pAwait' # "threw" => publishing' \subseteq pTasks' \cup pList'
        /\ pAwait' = "returned" => publishing' = {} /\ ~pErrors
    BY <2>1, <2>2, UploadStart
  <2> QED
    BY <1>2, <2>1, <2>2, <2>3 DEF DoneWhenAwaited
<1>4. CASE AwaitUploads
  <2>1. CASE P!ContinueAwait(publishing, cancelled) /\ UNCHANGED main
    <3>1. main' = "awaitUploads" /\ UNCHANGED publishing
      BY <1>4, <2>1 DEF AwaitUploads, publishVars
    <3> QED
      BY <1>1, <1>2, <2>1, <3>1, UploadRound DEF DoneWhenAwaited
  <2>2. CASE pAwait = "threw" /\ main' = "rejected" /\ UNCHANGED pVars
    BY <1>2, <1>4, <2>2 DEF AwaitUploads, publishVars, pVars, DoneWhenAwaited
  <2>3. CASE pAwait = "returned" /\ main' \in {"resolved", "writeInfo"} /\ UNCHANGED pVars
    <3>1. publishing = {} /\ ~pErrors /\ UNCHANGED <<publishing, pErrors>>
      BY <1>4, <2>3 DEF AwaitUploads, UploadsInv, DoneWhenAwaited, publishVars, pVars
    <3>2. AllDone'
      BY <1>1, <3>1, AllFollowed DEF AllDone
    <3> QED
      BY <1>2, <2>3, <3>1, <3>2 DEF DoneWhenAwaited
  <2> QED
    BY <1>4, <2>1, <2>2, <2>3 DEF AwaitUploads
<1>5. CASE WriteInfo
  <2>1. main = "writeInfo" /\ publishing = {} /\ ~pErrors /\ AllDone'
    BY <1>1, <1>5 DEF WriteInfo, UploadsInv, DoneWhenAwaited, AllDone
  <2>2. CASE main' = "rejected" /\ UNCHANGED <<publishing, pVars>>
    BY <1>2, <2>2 DEF pVars, DoneWhenAwaited
  <2>3. CASE main' = "awaitInfo"
    <3>1. PICK new : /\ publishing' = publishing \cup new /\ P!StartAwait(new, cancelled)
                     /\ new = IF isPublish THEN {UpdateInfo} ELSE {}
      BY <1>5, <2>3 DEF WriteInfo
    <3>2. /\ pErrors' = pErrors
          /\ pAwait' # "threw" => publishing' \subseteq pTasks' \cup pList'
          /\ pAwait' = "returned" => publishing' = {} /\ ~pErrors
      BY <2>1, <3>1, UploadStart
    <3>3. publishing' \subseteq {UpdateInfo} /\ (isPublish => UpdateInfo \in publishing')
      BY <2>1, <3>1
    <3> QED
      BY <1>1, <1>2, <2>1, <2>3, <3>2, <3>3 DEF DoneWhenAwaited
  <2> QED
    BY <1>5, <2>2, <2>3 DEF WriteInfo
<1>6. CASE AwaitInfo
  <2>1. main = "awaitInfo" /\ UNCHANGED <<publishing, uploaded, infos>> /\ AllDone'
    BY <1>1, <1>6 DEF AwaitInfo, publishVars, UploadsInv, DoneWhenAwaited, AllDone
  <2>2. CASE P!ContinueAwait(publishing, cancelled) /\ UNCHANGED main
    <3>1. /\ pErrors' = pErrors
          /\ pAwait' # "threw" => publishing' \subseteq pTasks' \cup pList'
          /\ pAwait' = "returned" => publishing = {} /\ ~pErrors
      BY <1>1, <2>1, <2>2, UploadRound
    <3> QED
      BY <1>1, <1>2, <2>1, <2>2, <3>1 DEF DoneWhenAwaited, UploadsInv
  <2>3. CASE main' \in {"rejected", "resolved"} /\ UNCHANGED pVars
    BY <1>2, <1>6, <2>1, <2>3 DEF AwaitInfo, DoneWhenAwaited, UploadsInv, UploadsSeen, pVars
  <2> QED
    BY <1>6, <2>2, <2>3 DEF AwaitInfo
<1> QED
  BY <1>3, <1>4, <1>5, <1>6

LEMMA PublishUploads ==
  ASSUME BuildTypeOK, UploadsInv, ~cancelled, plan' = plan, NEW t \in PublishTasks, PublishStep(t)
  PROVE  UploadsInv'
<1>1. /\ Jobs' = Jobs /\ Infos' = Infos
      /\ UNCHANGED <<isPublish, job, main, pAwait, pList>>
  BY PlanKept DEF PublishStep, UploadEnds, PublishTaskFails, ArtifactTask, InfoEnds, jobVars, mainVars,
                  pVars, P!AddTasks, P!TaskFails
<1> USE DEF Followed
<1>2. CASE UploadEnds(t)
  <2>1. /\ t \in publishing /\ publishing' = publishing \ {t} /\ uploaded' = uploaded \cup {t[2]}
        /\ UNCHANGED <<infos, pTasks, pErrors>>
    BY <1>2 DEF UploadEnds, pVars
  <2>2. \A j \in Jobs : Followed(j) => Followed(j)'
    <3>1. t[1] = "upload"
      BY <1>2 DEF UploadEnds
    <3>2. \A j : t # <<"artifact", j>> /\ t # <<"info", j>> /\ (t = <<"upload", j>> => t[2] = j)
      BY <3>1
    <3> QED
      BY <1>1, <2>1, <3>2
  <2>3. UploadsSeen'
    BY <1>1, <2>1, <2>2 DEF UploadsInv, UploadsSeen
  <2>4. DoneWhenAwaited'
    BY <1>1, <2>1 DEF UploadsInv, DoneWhenAwaited, AllDone
  <2> QED
    BY <2>3, <2>4 DEF UploadsInv
<1>3. CASE PublishTaskFails(t)
  <2>1. /\ t \in publishing /\ publishing' = publishing \ {t} /\ pErrors' = TRUE
        /\ UNCHANGED <<uploaded, infos, pTasks>>
    BY <1>3, Zenon DEF PublishTaskFails, P!TaskFails
  <2>2. UploadsSeen'
    BY <1>1, <2>1 DEF UploadsInv, UploadsSeen
  <2>3. DoneWhenAwaited'
    BY <1>1, <2>1 DEF UploadsInv, DoneWhenAwaited, AllDone
  <2> QED
    BY <2>2, <2>3 DEF UploadsInv
<1>4. ASSUME NEW j \in Jobs, ArtifactTask(j) PROVE UploadsInv'
  <2>1. /\ <<"artifact", j>> \in publishing
        /\ publishing' = (publishing \ {<<"artifact", j>>}) \cup Follow(j)
        /\ pTasks' = pTasks \cup Follow(j) /\ UNCHANGED <<uploaded, infos, pErrors>>
    BY <1>4 DEF ArtifactTask, P!AddTasks
  <2>2. \A k \in Jobs : Followed(k) => Followed(k)'
    <3>1. Followed(j)'
      BY <1>1, <2>1 DEF Follow
    <3>2. \A k : k # j => <<"artifact", k>> # <<"artifact", j>>
      OBVIOUS
    <3>3. \A k : <<"upload", k>> # <<"artifact", j>> /\ <<"info", k>> # <<"artifact", j>>
      OBVIOUS
    <3> QED
      BY <1>1, <2>1, <3>1, <3>2, <3>3
  <2>3. UploadsSeen'
    BY <1>1, <2>1, <2>2 DEF UploadsInv, UploadsSeen
  <2>4. <<"artifact", j>> # UpdateInfo
    BY DEF UpdateInfo
  <2>5. DoneWhenAwaited'
    BY <1>1, <2>1, <2>4 DEF UploadsInv, DoneWhenAwaited, AllDone
  <2> QED
    BY <2>3, <2>5 DEF UploadsInv
<1>5. ASSUME NEW j \in Jobs, InfoEnds(j) PROVE UploadsInv'
  <2>1. /\ <<"info", j>> \in publishing
        /\ publishing' = publishing \ {<<"info", j>>} /\ infos' = infos \cup {j}
        /\ UNCHANGED <<uploaded, pTasks, pErrors>>
    BY <1>5 DEF InfoEnds, pVars
  <2>2. \A k \in Jobs : Followed(k) => Followed(k)'
    <3>1. \A k : /\ <<"upload", k>> # <<"info", j>> /\ <<"artifact", k>> # <<"info", j>>
                 /\ <<"info", k>> = <<"info", j>> => k = j
      OBVIOUS
    <3> QED
      BY <1>1, <2>1, <3>1
  <2>3. UploadsSeen'
    BY <1>1, <2>1, <2>2 DEF UploadsInv, UploadsSeen
  <2>4. <<"info", j>> # UpdateInfo
    BY DEF UpdateInfo
  <2>5. DoneWhenAwaited'
    BY <1>1, <2>1, <2>4 DEF UploadsInv, DoneWhenAwaited, AllDone
  <2> QED
    BY <2>3, <2>5 DEF UploadsInv
<1> QED
  BY <1>2, <1>3, <1>4, <1>5 DEF PublishStep

LEMMA NextUploads ==
  /\ BuildTypeOK /\ Awaiting /\ BuiltWhenAwaited /\ UploadsInv
  /\ ~cancelled /\ [BuildNext]_buildVars /\ ~cancelled'
  => UploadsInv'
<1> SUFFICES ASSUME BuildTypeOK, Awaiting, BuiltWhenAwaited, UploadsInv, ~cancelled,
                    [BuildNext]_buildVars, ~cancelled'
             PROVE  UploadsInv'
  OBVIOUS
<1>0. plan' = plan
  BY DEF BuildNext, buildVars
<1> USE DEF mainVars, jobVars
<1>1. CASE StartPack \/ PackFails \/ AwaitBuilds
  BY <1>0, <1>1, UploadsFrame DEF StartPack, PackFails, AwaitBuilds
<1>2. CASE Packed
  <2>1. \A js : \A j \in Jobs : Start(js)[j] \in {"completing", "built"} => Start(js)[j] = job[j]
    BY DEF Start
  <2>2. \A j \in Jobs : job'[j] \in {"completing", "built"} => job'[j] = job[j]
    BY <1>2, <2>1 DEF Packed
  <2>3. main = "packing" /\ main' = "pack" /\ UNCHANGED <<isPublish, publishVars, pVars>>
    BY <1>2 DEF Packed
  <2> QED
    BY <1>0, <2>2, <2>3, UploadsFrame
<1>3. ASSUME NEW i \in DOMAIN plan, GroupStep(i) PROVE UploadsInv'
  <2>1. \A js : \A j \in Jobs : Start(js)[j] \in {"completing", "built"} => Start(js)[j] = job[j]
    BY DEF Start
  <2>2. job' = job \/ \E js : job' = Start(js)
    BY <1>3 DEF GroupStep
  <2>3. \A j \in Jobs : job'[j] \in {"completing", "built"} => job'[j] = job[j]
    BY <2>1, <2>2
  <2> QED
    BY <1>0, <1>3, <2>3, UploadsFrame DEF GroupStep
<1>4. ASSUME NEW j \in Jobs, JobEnds(j) PROVE UploadsInv'
  <2>1. \A k \in Jobs : job'[k] \in {"completing", "built"} => job[k] \in {"completing", "built"}
    BY <1>4 DEF JobEnds, BuildTypeOK
  <2> QED
    BY <1>0, <1>4, <2>1, UploadsFrame DEF JobEnds
<1>5. ASSUME NEW j \in Jobs, ArtifactCreated(j) PROVE UploadsInv'
  <2>1. /\ job[j] = "running" /\ ~Built
        /\ \A k \in Jobs : k # j => job'[k] = job[k]
        /\ publishing' = publishing \cup {<<"artifact", j>>} /\ pTasks' = pTasks \cup {<<"artifact", j>>}
        /\ Jobs' = Jobs
        /\ UNCHANGED <<isPublish, main, uploaded, infos, pList, pErrors, pAwait>>
    BY <1>0, <1>5, PlanKept DEF ArtifactCreated, Built, P!AddTasks, BuildTypeOK
  <2>2. UploadsSeen'
    BY <2>1 DEF UploadsInv, UploadsSeen, Followed
  <2>3. DoneWhenAwaited'
    BY <2>1 DEF DoneWhenAwaited, BuiltWhenAwaited
  <2> QED
    BY <2>2, <2>3 DEF UploadsInv
<1>6. CASE Dispose \/ HookFails
  <2>1. CASE main' = "rejected" /\ pErrors' = pErrors
    <3>1. UNCHANGED <<isPublish, job, publishing, uploaded, infos>> /\ Jobs' = Jobs
      BY <1>0, <1>6, PlanKept DEF Dispose, HookFails, publishVars
    <3> QED
      BY <2>1, <3>1 DEF UploadsInv, UploadsSeen, Followed, DoneWhenAwaited
  <2>2. CASE ~(main' = "rejected" /\ pErrors' = pErrors)
    BY <1>0, <1>6, <2>2, UploadsFrame DEF Dispose, HookFails, P!CancelTasks
  <2> QED
    BY <2>1, <2>2
<1>7. CASE HookEnds \/ AwaitUploads \/ WriteInfo \/ AwaitInfo
  BY <1>0, <1>7, MainUploads
<1>8. ASSUME NEW t \in PublishTasks, PublishStep(t) PROVE UploadsInv'
  BY <1>0, <1>8, PublishUploads
<1>9. CASE UNCHANGED buildVars
  BY <1>0, <1>9, UploadsFrame DEF buildVars, publishVars, pVars
<1>10. ~SigInt
  BY DEF SigInt
<1> QED
  BY <1>1, <1>2, <1>3, <1>4, <1>5, <1>6, <1>7, <1>8, <1>9, <1>10
     DEF BuildNext, Main, Work, JobStep

-----------------------------------------------------------------------------
\* What build() and its update information stand for

\* Nothing is taken back once the builds ended.
LEMMA KeptWhenLate ==
  ASSUME BuildTypeOK, BuildTypeOK', [BuildNext]_buildVars
  PROVE  /\ infos \subseteq infos' /\ uploaded \subseteq uploaded' /\ isPublish' = isPublish
         /\ Infos' = Infos /\ Jobs' = Jobs
         /\ Built /\ main # "packing" => Built'
         /\ main \in {"awaitInfo", "resolved", "rejected"} =>
               main' \in {"awaitInfo", "resolved", "rejected"}
<1> USE DEF mainVars, jobVars, publishVars
<1>0. plan' = plan /\ Jobs' = Jobs /\ Infos' = Infos
  BY PlanKept DEF BuildNext, buildVars
<1>1. infos \subseteq infos' /\ uploaded \subseteq uploaded' /\ isPublish' = isPublish
  BY DEF BuildNext, Main, Work, StartPack, Packed, PackFails, AwaitBuilds, Dispose, HookEnds, HookFails,
         AwaitUploads, WriteInfo, AwaitInfo, GroupStep, JobStep, ArtifactCreated, JobEnds, PublishStep,
         UploadEnds, PublishTaskFails, ArtifactTask, InfoEnds, SigInt, buildVars
<1>2. main \in {"awaitInfo", "resolved", "rejected"} => main' \in {"awaitInfo", "resolved", "rejected"}
  BY DEF BuildNext, Main, Work, StartPack, Packed, PackFails, AwaitBuilds, Dispose, HookEnds, HookFails,
         AwaitUploads, WriteInfo, AwaitInfo, GroupStep, JobStep, ArtifactCreated, JobEnds, PublishStep,
         UploadEnds, PublishTaskFails, ArtifactTask, InfoEnds, SigInt, buildVars
<1>3. ASSUME Built, main # "packing" PROVE Built'
  <2>1. \A i \in DOMAIN plan : GroupStep(i) => UNCHANGED job
    <3>1. \A i \in DOMAIN plan : \A n \in DOMAIN plan[i].sync : job[plan[i].sync[n]] = "built"
      <4>1. \A i \in DOMAIN plan : \A n \in DOMAIN plan[i].sync : plan[i].sync[n] \in JobsOf(plan[i])
        BY PlanFacts DEF BuildTypeOK
      <4> QED
        BY <1>3, <4>1, PlanFacts DEF Built, BuildTypeOK
    <3> QED
      BY <3>1 DEF GroupStep
  <2>2. \A j \in Jobs : ~ArtifactCreated(j) /\ ~JobEnds(j)
    BY <1>3 DEF ArtifactCreated, JobEnds, Built
  <2>3. UNCHANGED job
    BY <1>3, <2>1, <2>2
       DEF BuildNext, Main, Work, StartPack, Packed, PackFails, AwaitBuilds, Dispose, HookEnds, HookFails,
           AwaitUploads, WriteInfo, AwaitInfo, JobStep, PublishStep,
           UploadEnds, PublishTaskFails, ArtifactTask, InfoEnds, SigInt, buildVars
  <2> QED
    BY <1>0, <1>3, <2>3 DEF Built
<1> QED
  BY <1>0, <1>1, <1>2, <1>3

\* The update information is uploaded by writeUpdateInfoFiles and nothing else.
LEMMA AnnouncedByWriteInfo ==
  ASSUME BuildTypeOK, [BuildNext]_buildVars, Announced', ~Announced
  PROVE  WriteInfo /\ main' = "awaitInfo" /\ isPublish /\ ~cancelled
<1> USE DEF mainVars, jobVars, publishVars
<1>1. UpdateInfo # Extra
  BY DEF UpdateInfo, Extra
<1>2. UpdateInfo[2] \notin Jobs /\ UpdateInfo[2] # Extra[2]
  BY PlanFacts DEF UpdateInfo, Extra, BuildTypeOK
<1>3. ASSUME NEW j \in Jobs PROVE UpdateInfo \notin Follow(j)
  <2>1. <<"upload", j>> # UpdateInfo /\ <<"info", j>> # UpdateInfo
    BY <1>2 DEF UpdateInfo
  <2> QED
    BY <2>1 DEF Follow
<1>4. \A j : <<"artifact", j>> # UpdateInfo
  BY DEF UpdateInfo
<1>5. ASSUME NEW t, UploadEnds(t) PROVE FALSE
  <2>1. t \in publishing /\ t[2] = UpdateInfo[2]
    BY <1>5 DEF UploadEnds, Announced
  <2>2. \/ \E k \in {"artifact", "upload", "info"}, j \in Jobs : t = <<k, j>>
        \/ t \in {UpdateInfo, Extra}
    BY <2>1 DEF BuildTypeOK, Infos
  <2>3. t = UpdateInfo
    BY <1>2, <2>1, <2>2
  <2> QED
    BY <2>1, <2>3 DEF Announced
<1>6. ASSUME NEW j \in Jobs, ArtifactCreated(j) PROVE FALSE
  BY <1>4, <1>6 DEF ArtifactCreated, Announced
<1>7. ASSUME NEW j \in Jobs, ArtifactTask(j) \/ InfoEnds(j) PROVE FALSE
  BY <1>3, <1>7 DEF ArtifactTask, InfoEnds, Announced
<1>8. ASSUME NEW t, PublishTaskFails(t) PROVE FALSE
  BY <1>8 DEF PublishTaskFails, Announced
<1>9. ~HookEnds
  BY <1>1 DEF HookEnds, Announced
<1>10. ASSUME publishing' = publishing, uploaded' = uploaded PROVE FALSE
  BY <1>10 DEF Announced
<1>11. CASE WriteInfo
  BY <1>11 DEF WriteInfo, Announced
<1>12. \A j \in Jobs : JobEnds(j) => FALSE
  BY <1>10 DEF JobEnds
<1>13. \A i \in DOMAIN plan : GroupStep(i) => FALSE
  BY <1>10 DEF GroupStep
<1> QED
  BY <1>5, <1>6, <1>7, <1>8, <1>9, <1>10, <1>11, <1>12, <1>13
     DEF BuildNext, Main, Work, StartPack, Packed, PackFails, AwaitBuilds, Dispose, HookFails,
         AwaitUploads, AwaitInfo, JobStep, PublishStep, SigInt, buildVars

LEMMA NextLast ==
  /\ BuildTypeOK /\ BuildTypeOK' /\ [BuildNext]_buildVars
  /\ ~cancelled => BuiltWhenAwaited /\ DoneWhenAwaited
  /\ AnnouncedLate /\ UpdateInfoLast
  => AnnouncedLate' /\ UpdateInfoLast'
<1> SUFFICES ASSUME BuildTypeOK, BuildTypeOK', [BuildNext]_buildVars,
                    ~cancelled => BuiltWhenAwaited /\ DoneWhenAwaited,
                    AnnouncedLate, UpdateInfoLast, Announced'
             PROVE  /\ main' \in {"awaitInfo", "resolved", "rejected"}
                    /\ Built' /\ infos' = Infos' /\ Jobs' \subseteq uploaded'
  BY DEF AnnouncedLate, UpdateInfoLast, Announced
<1>1. infos' \subseteq Infos'
  BY DEF BuildTypeOK
<1>2. CASE Announced
  BY <1>1, <1>2, KeptWhenLate DEF AnnouncedLate, UpdateInfoLast, Announced
<1>3. CASE ~Announced
  <2>1. WriteInfo /\ main' = "awaitInfo" /\ isPublish /\ ~cancelled /\ main = "writeInfo"
    BY <1>3, AnnouncedByWriteInfo DEF WriteInfo
  <2>2. Built /\ AllDone
    BY <2>1 DEF BuiltWhenAwaited, DoneWhenAwaited
  <2> QED
    BY <1>1, <2>1, <2>2, KeptWhenLate DEF AllDone
<1> QED
  BY <1>2, <1>3

LEMMA NextResolved ==
  /\ BuildTypeOK /\ BuildTypeOK' /\ [BuildNext]_buildVars
  /\ ~cancelled => BuiltWhenAwaited /\ UploadsInv
  /\ ResolvedMeansDone
  => ResolvedMeansDone'
<1> SUFFICES ASSUME BuildTypeOK, BuildTypeOK', [BuildNext]_buildVars,
                    ~cancelled => BuiltWhenAwaited /\ UploadsInv,
                    ResolvedMeansDone, main' = "resolved", ~cancelled'
             PROVE  /\ Built' /\ infos' = Infos'
                    /\ isPublish' => Jobs' \subseteq uploaded'
                    /\ isPublish' /\ Infos' # {} => UpdateInfo[2] \in uploaded'
  BY DEF ResolvedMeansDone
<1>1. ~cancelled
  BY DEF BuildNext, Main, Work, StartPack, Packed, PackFails, AwaitBuilds, Dispose, HookEnds, HookFails,
         AwaitUploads, WriteInfo, AwaitInfo, GroupStep, JobStep, ArtifactCreated, JobEnds, PublishStep,
         UploadEnds, PublishTaskFails, ArtifactTask, InfoEnds, SigInt, buildVars
<1>2. infos' \subseteq Infos'
  BY DEF BuildTypeOK
<1>3. CASE main = "resolved"
  BY <1>1, <1>2, <1>3, KeptWhenLate DEF ResolvedMeansDone
<1>4. CASE main # "resolved"
  <2>1. (AwaitUploads \/ AwaitInfo) /\ pAwait = "returned"
    BY <1>4 DEF BuildNext, Main, Work, StartPack, Packed, PackFails, AwaitBuilds, Dispose, HookEnds,
                HookFails, AwaitUploads, WriteInfo, AwaitInfo, GroupStep, JobStep, ArtifactCreated,
                JobEnds, PublishStep, UploadEnds, PublishTaskFails, ArtifactTask, InfoEnds, SigInt,
                buildVars, mainVars
  <2>2. main \in {"awaitUploads", "awaitInfo"} /\ publishing = {} /\ ~pErrors /\ Built
    BY <1>1, <2>1 DEF AwaitUploads, AwaitInfo, UploadsInv, DoneWhenAwaited, BuiltWhenAwaited
  <2>3. AllDone
    BY <1>1, <2>2, AllFollowed
  <2>4. isPublish /\ Infos # {} => UpdateInfo[2] \in uploaded
    <3>1. CASE main = "awaitUploads"
      <4>1. infos = {}
        BY <1>1, <1>4, <2>1, <3>1 DEF AwaitUploads, AwaitInfo
      <4> QED
        BY <2>3, <4>1 DEF AllDone
    <3>2. CASE main = "awaitInfo"
      BY <1>1, <2>2, <3>2 DEF UploadsInv, DoneWhenAwaited
    <3> QED
      BY <2>2, <3>1, <3>2
  <2> QED
    BY <1>2, <2>2, <2>3, <2>4, KeptWhenLate DEF AllDone
<1> QED
  BY <1>3, <1>4

-----------------------------------------------------------------------------
LEMMA InitInv == BuildInit => BuildInv
<1> SUFFICES ASSUME BuildInit PROVE BuildInv
  OBVIOUS
<1>1. /\ plan \in Plans /\ main = "pack" /\ next = 1 /\ job = [j \in Jobs |-> "none"] /\ groups = {}
      /\ publishing = {} /\ uploaded = {} /\ bList = {} /\ pList = {} /\ bAwait = "none" /\ pAwait = "none"
  BY DEF BuildInit, B!ManagerInit, P!ManagerInit
<1>2. /\ DOMAIN plan = 1..Len(plan) /\ Len(plan) \in Nat
      /\ \A i \in DOMAIN plan : JobsOf(plan[i]) \subseteq Jobs
  BY <1>1, PlanFacts
<1>3. BuildTypeOK /\ Awaiting
  BY <1>1, InitTypeOK DEF Awaiting
<1>4. PacksStarted
  BY <1>1, <1>2 DEF PacksStarted
<1>5. BuildsSeen
  <2>1. \A i \in DOMAIN plan : ~(i < next)
    BY <1>1, <1>2
  <2> QED
    BY <1>1, <2>1 DEF BuildsSeen, RunningJobs
<1>6. BuiltWhenAwaited /\ UploadsSeen /\ DoneWhenAwaited
  BY <1>1 DEF BuiltWhenAwaited, UploadsSeen, DoneWhenAwaited
<1>7. AnnouncedLate /\ ResolvedMeansDone /\ UpdateInfoLast
  BY <1>1 DEF AnnouncedLate, Announced, ResolvedMeansDone, UpdateInfoLast
<1> QED
  BY <1>3, <1>4, <1>5, <1>6, <1>7 DEF BuildInv

LEMMA NextInv == BuildInv /\ [BuildNext]_buildVars => BuildInv'
<1> SUFFICES ASSUME BuildInv, [BuildNext]_buildVars PROVE BuildInv'
  OBVIOUS
<1>1. BuildTypeOK' /\ Awaiting'
  BY NextTypeOK, NextAwaiting DEF BuildInv
<1>2. ~cancelled' => ~cancelled
  BY DEF BuildNext, Main, Work, StartPack, Packed, PackFails, AwaitBuilds, Dispose, HookEnds, HookFails,
         AwaitUploads, WriteInfo, AwaitInfo, GroupStep, JobStep, ArtifactCreated, JobEnds, PublishStep,
         UploadEnds, PublishTaskFails, ArtifactTask, InfoEnds, SigInt, buildVars
<1>3. ~cancelled => BuildsInv /\ UploadsInv
  BY DEF BuildInv, BuildsInv, UploadsInv
<1>4. ~cancelled' => BuildsInv' /\ UploadsInv'
  BY <1>2, NextBuilds, NextUploads DEF BuildInv, BuildsInv, UploadsInv
<1>5. AnnouncedLate' /\ UpdateInfoLast' /\ ResolvedMeansDone'
  BY <1>1, <1>3, NextLast, NextResolved DEF BuildInv
<1> QED
  BY <1>1, <1>4, <1>5 DEF BuildInv, BuildsInv, UploadsInv

(***************************************************************************)
(* The invariant of a build for any plans: where the main line is, what is *)
(* started, built, published and awaited by each task manager, and that an *)
(* error is kept until it is thrown.                                       *)
(***************************************************************************)
THEOREM BuildInvariant == BuildSpec => []BuildInv
  BY InitInv, NextInv, PTL DEF BuildSpec

(***************************************************************************)
(* For any plans: when build() resolves and was not interrupted, every     *)
(* target was built and, if the build publishes, every artifact and the    *)
(* update information are uploaded.  The task managers of doBuild and of   *)
(* PublishManager lose no promise that is added while others are awaited,  *)
(* and no error, whatever the order builds and uploads end in.             *)
(***************************************************************************)
THEOREM ResolvesWhenDone == BuildSpec => []ResolvedMeansDone
<1>1. BuildInv => ResolvedMeansDone
  BY DEF BuildInv
<1> QED
  BY <1>1, BuildInvariant, PTL

(***************************************************************************)
(* For any plans: the update information is not uploaded before every      *)
(* artifact is, also when a build, an upload or the hook fails and SIGINT  *)
(* comes: an updater that reads it finds the whole release.                *)
(***************************************************************************)
THEOREM InfoGoesOutLast == BuildSpec => []UpdateInfoLast
<1>1. BuildInv => UpdateInfoLast
  BY DEF BuildInv
<1> QED
  BY <1>1, BuildInvariant, PTL

(***************************************************************************)
(* afterAllArtifactBuild runs after all targets were built, unless SIGINT  *)
(* came: the interruption is the only way to HookAfterAllBuilt's failure.  *)
(***************************************************************************)
THEOREM OnlySigIntLetsTheHookIn == BuildSpec => [](~cancelled => HookAfterAllBuilt)
<1>1. BuildInv => (~cancelled => HookAfterAllBuilt)
  BY DEF BuildInv, BuiltWhenAwaited, HookAfterAllBuilt
<1> QED
  BY <1>1, BuildInvariant, PTL

-----------------------------------------------------------------------------
(***************************************************************************)
(* AppFiles                                                                *)
(***************************************************************************)
\* A sequence of patterns is evaluated one after the other.
AllPatterns == [negate : BOOLEAN, base : Paths,
                glob : {"path", "under", "orUnder", "unpacked", "excluded", "nothing"}]
MatchStep(path, isDir, match, p) ==
    IF match # p.negate THEN match ELSE Matches(p, path, isDir /\ ~p.negate) # p.negate
MatchSteps(f, path, ps, isDir) ==
    /\ f \in [0..Len(ps) -> BOOLEAN] /\ f[0] = FALSE /\ f[Len(ps)] = MinimatchAll(path, ps, isDir)
    /\ \A k \in 1..Len(ps) : f[k] = MatchStep(path, isDir, f[k - 1], ps[k])

LEMMA PatternByPattern ==
  ASSUME NEW path, NEW isDir \in BOOLEAN, NEW ps \in Seq(AllPatterns)
  PROVE  \E f : MatchSteps(f, path, ps, isDir)
<1> DEFINE n == Len(ps)
           S(m, p) == MatchStep(path, isDir, m, p)
           step == [k \in 1..n |-> [m \in BOOLEAN |-> S(m, ps[k])]]
           IsIter(h) == h = [Q \in SUBSET (DOMAIN ps) |->
                                IF Q = {} THEN FALSE ELSE S(h[Q \ {Max(Q)}], ps[Max(Q)])]
           iter == CHOOSE h : IsIter(h)
<1>1. n \in Nat /\ DOMAIN ps = 1..n /\ \A k \in 1..n : ps[k] \in AllPatterns
  OBVIOUS
<1>2. MinimatchAll(path, ps, isDir) = iter[DOMAIN ps]
  BY DEF MinimatchAll, FoldLeft, MapThenFoldSet, MatchStep
<1>3. \A m \in BOOLEAN : \A k \in 1..n : S(m, ps[k]) \in BOOLEAN
  BY DEF MatchStep
<1> HIDE DEF S
<1>4. step \in StepsOn(BOOLEAN, n) /\ \A k \in 1..n : \A m \in BOOLEAN : step[k][m] = S(m, ps[k])
  BY <1>3 DEF StepsOn
<1> HIDE DEF step, n
<1>5. PICK h : FoldsTo(h, BOOLEAN, n, FALSE, step)
  BY <1>1, <1>4, FoldIs
<1>6. IsIter(h)
  <2>1. /\ h \in [SUBSET (1..n) -> BOOLEAN]
        /\ \A Q \in SUBSET (1..n) : h[Q] = IF Q = {} THEN FALSE ELSE step[Max(Q)][h[Q \ {Max(Q)}]]
    BY <1>5 DEF FoldsTo
  <2>2. ASSUME NEW Q \in SUBSET (1..n)
        PROVE  h[Q] = IF Q = {} THEN FALSE ELSE S(h[Q \ {Max(Q)}], ps[Max(Q)])
    <3>1. CASE Q = {}
      BY <2>1, <3>1
    <3>2. CASE Q # {}
      <4>1. Max(Q) \in 1..n
        BY <1>1, <3>2, GreatestIsThere
      <4>2. h[Q \ {Max(Q)}] \in BOOLEAN
        BY <2>1
      <4>3. h[Q] = step[Max(Q)][h[Q \ {Max(Q)}]]
        BY <2>1, <3>2
      <4> QED
        BY <1>4, <3>2, <4>1, <4>2, <4>3
    <3> QED
      BY <3>1, <3>2
  <2> QED
    BY <1>1, <2>1, <2>2
<1>7. IsIter(iter)
  <2> HIDE DEF IsIter
  <2> QED
    BY <1>6, Zenon
<1> HIDE DEF iter
<1>8. \A Q \in SUBSET (1..n) :
          iter[Q] = IF Q = {} THEN FALSE ELSE S(iter[Q \ {Max(Q)}], ps[Max(Q)])
  BY <1>1, <1>7
<1> DEFINE f == [k \in 0..n |-> iter[1..k]]
<1>9. f[0] = FALSE
  <2>1. 1..0 = {} /\ 1..0 \in SUBSET (1..n) /\ 0 \in 0..n
    BY <1>1
  <2>2. iter[1..0] = FALSE
    BY <1>8, <2>1
  <2> QED
    BY <2>1, <2>2
<1>10. ASSUME NEW k \in 1..n PROVE f[k] = S(f[k - 1], ps[k])
  <2>1. FirstOnes(k) /\ 1..k \in SUBSET (1..n)
    BY <1>1, FirstPositions
  <2>2. iter[1..k] = S(iter[1..(k - 1)], ps[k])
    BY <1>8, <2>1 DEF FirstOnes
  <2>3. k \in 0..n /\ k - 1 \in 0..n
    BY <1>1
  <2> QED
    BY <2>2, <2>3
<1>11. ASSUME NEW k \in 0..n PROVE f[k] \in BOOLEAN
  <2> HIDE DEF f
  <2> DEFINE K == {j \in 0..n : f[j] \in BOOLEAN}
  <2>1. 0 \in K
    <3>1. 0 \in 0..n
      BY <1>1
    <3>2. FALSE \in BOOLEAN
      OBVIOUS
    <3>3. f[0] \in BOOLEAN
      BY <1>9, <3>2, Zenon
    <3> QED
      BY <3>1, <3>3
  <2>2. ASSUME NEW j \in 0..(n - 1), j \in K PROVE j + 1 \in K
    <3> DEFINE i == j + 1
    <3>1. i \in 1..n /\ i \in 0..n /\ i - 1 = j
      BY <1>1
    <3> HIDE DEF i
    <3>2. f[i] = S(f[j], ps[i])
      BY <1>10, <3>1
    <3> QED
      BY <1>3, <2>2, <3>1, <3>2 DEF i
  <2> HIDE DEF K
  <2>3. \A j \in 0..(n - 1) : j \in K => j + 1 \in K
    BY <2>2
  <2>4. \A j \in 0..n : j \in K
    BY <1>1, <2>1, <2>3, UpTo
  <2> QED
    BY <2>4 DEF K
<1>12. f[n] = MinimatchAll(path, ps, isDir) /\ f \in [0..n -> BOOLEAN]
  <2>1. n \in 0..n
    BY <1>1
  <2>2. f[n] = iter[1..n]
    BY <2>1
  <2>3. f = [k \in 0..n |-> f[k]]
    OBVIOUS
  <2> HIDE DEF f
  <2> QED
    BY <1>1, <1>2, <1>11, <2>2, <2>3
<1> HIDE DEF f
<1>13. \A k \in 1..n : f[k] = MatchStep(path, isDir, f[k - 1], ps[k])
  BY <1>10 DEF S
<1> QED
  BY <1>9, <1>12, <1>13 DEF MatchSteps, n

\* The last pattern that lets the path in, if no later one takes it out again.
LetsIn(path, ps, isDir, i) == ~ps[i].negate /\ Matches(ps[i], path, isDir)
TakesOut(path, ps, j) == ps[j].negate /\ Matches(ps[j], path, FALSE)
Decided(path, ps, isDir, n) ==
    \E i \in 1..n : LetsIn(path, ps, isDir, i) /\ \A j \in (i + 1)..n : ~TakesOut(path, ps, j)

LEMMA LastDecides ==
  ASSUME NEW path, NEW isDir \in BOOLEAN, NEW ps \in Seq(AllPatterns)
  PROVE  MinimatchAll(path, ps, isDir) <=> Decided(path, ps, isDir, Len(ps))
<1> DEFINE n == Len(ps)
<1>1. PICK f : MatchSteps(f, path, ps, isDir)
  BY PatternByPattern
<1>2. /\ f \in [0..n -> BOOLEAN] /\ f[0] = FALSE /\ f[n] = MinimatchAll(path, ps, isDir)
      /\ \A k \in 1..n : f[k] = MatchStep(path, isDir, f[k - 1], ps[k])
  BY <1>1 DEF MatchSteps
<1>3. n \in Nat /\ \A k \in 1..n : ps[k] \in AllPatterns
  OBVIOUS
<1> HIDE DEF n
<1> DEFINE S == {k \in 0..n : f[k] = TRUE <=> Decided(path, ps, isDir, k)}
<1>4. 0 \in S
  BY <1>2, <1>3 DEF Decided
<1>5. ASSUME NEW k \in 0..(n - 1), k \in S PROVE k + 1 \in S
  <2> DEFINE i == k + 1
  <2>1. i \in 1..n /\ i \in 0..n /\ i - 1 = k /\ k \in 0..n
    BY <1>3
  <2>2. /\ \A j \in 1..i : j = i \/ j \in 1..k
        /\ \A j \in 1..k : i \in (j + 1)..i /\ (j + 1)..k \subseteq (j + 1)..i
        /\ \A j \in 1..k : \A l \in (j + 1)..i : l = i \/ l \in (j + 1)..k
        /\ (i + 1)..i = {} /\ i \in 1..i /\ 1..k \subseteq 1..i
    BY <1>3
  <2> HIDE DEF i
  <2>3. Decided(path, ps, isDir, i)
        <=> LetsIn(path, ps, isDir, i) \/ (Decided(path, ps, isDir, k) /\ ~TakesOut(path, ps, i))
    <3>1. ASSUME Decided(path, ps, isDir, i)
          PROVE  LetsIn(path, ps, isDir, i) \/ (Decided(path, ps, isDir, k) /\ ~TakesOut(path, ps, i))
      BY <2>2, <3>1 DEF Decided
    <3>2. ASSUME LetsIn(path, ps, isDir, i) PROVE Decided(path, ps, isDir, i)
      BY <2>2, <3>2 DEF Decided
    <3>3. ASSUME Decided(path, ps, isDir, k), ~TakesOut(path, ps, i) PROVE Decided(path, ps, isDir, i)
      BY <2>2, <3>3 DEF Decided
    <3> QED
      BY <3>1, <3>2, <3>3
  <2>4. f[i] = MatchStep(path, isDir, f[k], ps[i])
    BY <1>2, <2>1
  <2>5. f[k] \in BOOLEAN /\ ps[i] \in AllPatterns
    BY <1>2, <1>3, <2>1
  <2>6. CASE ps[i].negate = TRUE
    <3>1. f[i] = IF f[k] # TRUE THEN f[k] ELSE Matches(ps[i], path, FALSE) # TRUE
      BY <2>4, <2>6 DEF MatchStep
    <3>2. Matches(ps[i], path, FALSE) \in BOOLEAN
      BY DEF Matches
    <3>3. TakesOut(path, ps, i) <=> Matches(ps[i], path, FALSE)
      BY <2>6 DEF TakesOut
    <3>4. ~LetsIn(path, ps, isDir, i)
      BY <2>6 DEF LetsIn
    <3>5. f[i] = TRUE <=> f[k] = TRUE /\ ~TakesOut(path, ps, i)
      BY <2>5, <3>1, <3>2, <3>3
    <3> QED
      BY <1>5, <2>1, <2>3, <3>4, <3>5 DEF i
  <2>7. CASE ps[i].negate = FALSE
    <3>1. f[i] = IF f[k] # FALSE THEN f[k] ELSE Matches(ps[i], path, isDir) # FALSE
      BY <2>4, <2>7 DEF MatchStep
    <3>2. Matches(ps[i], path, isDir) \in BOOLEAN
      BY DEF Matches
    <3>3. LetsIn(path, ps, isDir, i) <=> Matches(ps[i], path, isDir)
      BY <2>7 DEF LetsIn
    <3>4. ~TakesOut(path, ps, i)
      BY <2>7 DEF TakesOut
    <3>5. f[i] = TRUE <=> f[k] = TRUE \/ LetsIn(path, ps, isDir, i)
      BY <2>5, <3>1, <3>2, <3>3
    <3> QED
      BY <1>5, <2>1, <2>3, <3>4, <3>5 DEF i
  <2> QED
    BY <2>5, <2>6, <2>7 DEF AllPatterns
<1>6. n \in S
  <2> HIDE DEF S
  <2>1. \A k \in 0..(n - 1) : k \in S => k + 1 \in S
    BY <1>5
  <2>2. \A k \in 0..n : k \in S
    BY <1>3, <1>4, <2>1, UpTo
  <2> QED
    BY <1>3, <2>2
<1>7. MinimatchAll(path, ps, isDir) \in BOOLEAN
  <2>1. f[n] \in BOOLEAN
    BY <1>2, <1>3
  <2> QED
    BY <1>2, <2>1
<1>8. f[n] = TRUE <=> Decided(path, ps, isDir, n)
  BY <1>6
<1> QED
  BY <1>2, <1>7, <1>8 DEF n

-----------------------------------------------------------------------------
\* What parsing leaves of a pattern.
IsParsed(s, p) ==
    /\ s \in Seq(AllPatterns)
    /\ \A i \in 1..Len(s) : s[i] = p \/ (p.glob = "path" /\ s[i] = [p EXCEPT !.glob = "under"])

LEMMA ParsedIs ==
  ASSUME NEW p \in AllPatterns
  PROVE  IsParsed(ParsedPattern(p), p) /\ (p.glob # "path" => ParsedPattern(p) = <<p>>)
<1> DEFINE u == [p EXCEPT !.glob = "under"]
<1>1. u \in AllPatterns
  BY DEF AllPatterns
<1> HIDE DEF u
<1>2. IsParsed(<<p>>, p)
  BY DEF IsParsed
<1>3. CASE p.glob = "path" /\ ToSet(p.base) \intersect Dotted = {}
  <2>1. ParsedPattern(p) = <<p, u>>
    BY <1>3 DEF ParsedPattern, u
  <2>2. <<p, u>> \in Seq(AllPatterns) /\ \A i \in 1..Len(<<p, u>>) : <<p, u>>[i] = p \/ <<p, u>>[i] = u
    BY <1>1
  <2> QED
    BY <1>3, <2>1, <2>2 DEF IsParsed, u
<1>4. CASE ~(p.glob = "path" /\ ToSet(p.base) \intersect Dotted = {})
  <2>1. ParsedPattern(p) = <<p>>
    BY <1>4 DEF ParsedPattern
  <2> QED
    BY <1>2, <2>1
<1> QED
  BY <1>3, <1>4

LEMMA ParsedType ==
  ASSUME NEW ps \in Seq(AllPatterns)
  PROVE  /\ [i \in DOMAIN ps |-> ParsedPattern(ps[i])] \in Seq(Seq(AllPatterns))
         /\ Len([i \in DOMAIN ps |-> ParsedPattern(ps[i])]) = Len(ps)
         /\ Parsed(ps) \in Seq(AllPatterns)
<1> DEFINE n == Len(ps)
           seqs == [i \in DOMAIN ps |-> ParsedPattern(ps[i])]
<1>1. n \in Nat /\ DOMAIN ps = 1..n /\ \A i \in 1..n : ps[i] \in AllPatterns
  OBVIOUS
<1>2. \A i \in 1..n : ParsedPattern(ps[i]) \in Seq(AllPatterns)
  BY <1>1, ParsedIs DEF IsParsed
<1>3. seqs \in [1..n -> Seq(AllPatterns)]
  BY <1>1, <1>2
<1> HIDE DEF n, seqs
<1>4. seqs \in Seq(Seq(AllPatterns)) /\ Len(seqs) = n
  BY <1>1, <1>3, SeqDef
<1>5. FlattenSeq(seqs) \in Seq(AllPatterns)
  BY <1>4, FlattenElements
<1> QED
  BY <1>4, <1>5 DEF Parsed, seqs, n

\* What a pattern matches is at its base or below.
Placed == {"path", "under", "orUnder", "unpacked"}

LEMMA MatchesAtBase ==
  ASSUME NEW p \in AllPatterns, NEW path \in Paths, p.glob \in Placed, Matches(p, path, FALSE)
  PROVE  Starts(p.base, path)
<1>1. p.base \in Seq(FileNames) /\ path \in Seq(FileNames)
  BY DEF AllPatterns, Paths
<1>2. IsPrefix(p.base, path) <=> Starts(p.base, path)
  BY <1>1, PrefixIs
<1>3. IsStrictPrefix(p.base, path) => Starts(p.base, path)
  BY <1>2 DEF IsStrictPrefix
<1>4. path = p.base => Starts(p.base, path)
  BY <1>1 DEF Starts
<1> QED
  BY <1>2, <1>3, <1>4 DEF Matches, Placed

-----------------------------------------------------------------------------
(***************************************************************************)
(* The output of earlier builds                                            *)
(***************************************************************************)
Apart(p) == ~Starts(OutDir, p.base) /\ ~Starts(p.base, OutDir)
Harmless == {p \in AllPatterns : p.negate \/ (p.glob \in Placed /\ Apart(p))}
Clean == {p \in AllPatterns : p \in Harmless \/ StartsWithAny(p)}
NotOutput == Not(OutDir, "orUnder")

LEMMA OutDirIs == OutDir \in Seq(FileNames) /\ Len(OutDir) \in Nat \ {0}
<1>1. OutDir \in Seq(FileNames) /\ OutDir # <<>>
  BY AppFilesAssumption DEF Paths
<1> QED
  BY <1>1

LEMMA PackageJsonIsHarmless == PackageJson \in Harmless
<1> DEFINE base == <<"package.json">>
<1>1. base \in Seq(FileNames) /\ Len(base) = 1 /\ base[1] = "package.json"
  <2>1. "package.json" \in FileNames
    BY AppFilesAssumption
  <2> DEFINE name == "package.json"
  <2> HIDE DEF name
  <2>2. <<name>> \in Seq(FileNames) /\ Len(<<name>>) = 1 /\ <<name>>[1] = name
    BY <2>1 DEF name
  <2> QED
    BY <2>2 DEF name
<1> HIDE DEF base
<1>2. OutDir[1] # "package.json"
  BY AppFilesAssumption
<1>3. 1 \in 1..Len(OutDir) /\ 1 \in 1..Len(base)
  BY <1>1, OutDirIs
<1>4. ~Starts(OutDir, base) /\ ~Starts(base, OutDir)
  BY <1>1, <1>2, <1>3 DEF Starts
<1>5. PackageJson = [negate |-> FALSE, base |-> base, glob |-> "path"]
  BY DEF PackageJson, Glob, base
<1> QED
  BY <1>1, <1>4, <1>5 DEF Harmless, Apart, AllPatterns, Placed, Paths

\* Below the output directory nothing matches after the pattern that excludes it.
LEMMA OutputExcluded ==
  ASSUME NEW ps \in Seq(AllPatterns), EndsOut(ps, {NotOutput}, Harmless),
         NEW path \in Paths, Starts(OutDir, path)
  PROVE  ~MinimatchAll(path, Parsed(ps), FALSE)
<1> DEFINE N == {p \in AllPatterns : p.negate /\ Matches(p, path, FALSE)}
           H == {p \in AllPatterns : p.negate \/ ~Matches(p, path, FALSE)}
           seqs == [i \in DOMAIN ps |-> ParsedPattern(ps[i])]
           n == Len(ps)
           q == Parsed(ps)
<1>1. n \in Nat /\ DOMAIN ps = 1..n /\ \A i \in 1..n : ps[i] \in AllPatterns
  OBVIOUS
<1>2. /\ seqs \in Seq(Seq(AllPatterns)) /\ Len(seqs) = n /\ q \in Seq(AllPatterns)
      /\ \A i \in 1..n : seqs[i] = ParsedPattern(ps[i])
  BY <1>1, ParsedType
<1>3. q = FlattenSeq(seqs)
  BY DEF Parsed
<1>4. PICK i \in 1..n : ps[i] = NotOutput /\ \A j \in (i + 1)..n : ps[j] \in Harmless
  BY DEF EndsOut
<1> HIDE DEF n, seqs, q
<1>5. NotOutput \in AllPatterns /\ NotOutput.negate /\ NotOutput.glob = "orUnder" /\ NotOutput.base = OutDir
  BY OutDirIs DEF NotOutput, Not, AllPatterns, Paths
<1>6. EndsOut(seqs[i], N, H)
  <2>1. seqs[i] = <<NotOutput>>
    BY <1>2, <1>4, <1>5, ParsedIs
  <2>2. IsPrefix(OutDir, path)
    BY OutDirIs, PrefixIs DEF Paths
  <2>3. NotOutput \in N
    BY <1>5, <2>2 DEF Matches
  <2> HIDE DEF N, H
  <2>4. Len(<<NotOutput>>) = 1 /\ <<NotOutput>>[1] = NotOutput /\ 2..1 = {} /\ 1 \in 1..1
    OBVIOUS
  <2> QED
    BY <2>1, <2>3, <2>4 DEF EndsOut
<1>7. ASSUME NEW j \in (i + 1)..n PROVE seqs[j] \in Seq(H)
  <2> DEFINE p == ps[j]
  <2>1. j \in 1..n
    BY <1>1
  <2>2. p \in Harmless /\ p \in AllPatterns
    BY <1>1, <1>4, <2>1
  <2>3. seqs[j] \in Seq(AllPatterns) /\ IsParsed(seqs[j], p)
    BY <1>2, <2>1, <2>2, ParsedIs DEF IsParsed
  <2> HIDE DEF p
  <2>4. ASSUME NEW k \in 1..Len(seqs[j]) PROVE seqs[j][k] \in H
    <3> DEFINE e == seqs[j][k]
    <3>1. e \in AllPatterns
      BY <2>3
    <3>2. e = p \/ (p.glob = "path" /\ e = [p EXCEPT !.glob = "under"])
      BY <2>3 DEF IsParsed
    <3> HIDE DEF e
    <3>3. e.negate = p.negate /\ e.base = p.base /\ (p.glob \in Placed => e.glob \in Placed)
      BY <2>2, <3>2 DEF Placed, AllPatterns
    <3>4. ASSUME ~p.negate PROVE ~Matches(e, path, FALSE)
      <4>1. p.glob \in Placed /\ Apart(p)
        BY <2>2, <3>4 DEF Harmless
      <4> SUFFICES ASSUME Matches(e, path, FALSE) PROVE FALSE
        OBVIOUS
      <4>2. Starts(p.base, path)
        BY <3>1, <3>3, <4>1, MatchesAtBase
      <4>3. p.base \in Seq(FileNames) /\ Len(p.base) \in Nat
        BY <2>2 DEF AllPatterns, Paths
      <4>4. Len(p.base) <= Len(OutDir) \/ Len(OutDir) <= Len(p.base)
        BY <4>3, OutDirIs
      <4> QED
        BY <4>1, <4>2, <4>3, <4>4, OutDirIs, BothStart DEF Apart
    <3> QED
      BY <3>1, <3>3, <3>4 DEF e
  <2> HIDE DEF H
  <2>5. DOMAIN seqs[j] = 1..Len(seqs[j]) /\ Len(seqs[j]) \in Nat
    BY <2>3
  <2>6. seqs[j] \in [1..Len(seqs[j]) -> H]
    <3>1. seqs[j] = [k \in 1..Len(seqs[j]) |-> seqs[j][k]]
      BY <2>3
    <3> QED
      BY <2>4, <3>1
  <2> QED
    BY <2>5, <2>6, SeqDef
<1>8. EndsOut(q, N, H)
  <2> HIDE DEF N, H
  <2>1. i \in 1..Len(seqs) /\ \A j \in (i + 1)..Len(seqs) : seqs[j] \in Seq(H)
    BY <1>2, <1>7
  <2> QED
    BY <1>2, <1>3, <1>6, <2>1, EndsOutFlattened
<1>9. MinimatchAll(path, q, FALSE) <=> Decided(path, q, FALSE, Len(q))
  BY <1>2, LastDecides
<1>10. ASSUME Decided(path, q, FALSE, Len(q)) PROVE FALSE
  <2>1. PICK k \in 1..Len(q) : q[k] \in N /\ \A j \in (k + 1)..Len(q) : q[j] \in H
    BY <1>8 DEF EndsOut
  <2>2. PICK l \in 1..Len(q) : LetsIn(path, q, FALSE, l) /\ \A j \in (l + 1)..Len(q) : ~TakesOut(path, q, j)
    BY <1>10 DEF Decided
  <2>3. Len(q) \in Nat
    BY <1>2
  <2>4. CASE l > k
    <3>1. l \in (k + 1)..Len(q)
      BY <2>3, <2>4
    <3> QED
      BY <2>1, <2>2, <3>1 DEF LetsIn
  <2>5. CASE l = k
    BY <2>1, <2>2, <2>5 DEF LetsIn
  <2>6. CASE l < k
    <3>1. k \in (l + 1)..Len(q)
      BY <2>3, <2>6
    <3> QED
      BY <2>1, <2>2, <3>1 DEF TakesOut
  <2> QED
    BY <2>3, <2>4, <2>5, <2>6
<1> QED
  BY <1>9, <1>10 DEF q

\* The pattern that excludes a directory, if there is one.
LEMMA ExcludingIs ==
  ASSUME NEW from \in Paths, NEW dir \in Paths, NEW glob, NEW Q,
         \A path \in Paths : Not(path, glob) \in Q
  PROVE  /\ Excluding(from, dir, glob) \in Seq(Q)
         /\ from = <<>> /\ dir # <<>> /\ dir[1] \notin Hidden =>
                Excluding(from, dir, glob) = <<Not(dir, glob)>>
<1>1. from \in Seq(FileNames) /\ dir \in Seq(FileNames) /\ Len(from) \in Nat /\ Len(dir) \in Nat
  BY DEF Paths
<1>2. ASSUME IsStrictPrefix(from, dir) PROVE RelativePath(from, dir) \in Paths
  <2>1. Len(from) \in 0..Len(dir)
    BY <1>1, <1>2, PrefixIs
  <2> QED
    BY <1>1, <2>1, FirstAndRest DEF RelativePath, Paths
<1>3. Excluding(from, dir, glob) \in Seq(Q)
  <2>1. <<>> \in Seq(Q)
    OBVIOUS
  <2>2. \A x \in Q : <<x>> \in Seq(Q)
    OBVIOUS
  <2> QED
    BY <1>2, <2>1, <2>2 DEF Excluding
<1>4. ASSUME from = <<>>, dir # <<>>, dir[1] \notin Hidden
      PROVE  Excluding(from, dir, glob) = <<Not(dir, glob)>>
  <2>1. Len(from) = 0 /\ Len(dir) > 0
    BY <1>1, <1>4
  <2>2. Starts(from, dir)
    BY <1>1, <2>1 DEF Starts
  <2>3. IsStrictPrefix(from, dir)
    BY <1>1, <2>1, <2>2, PrefixIs
  <2>4. RelativePath(from, dir) = dir
    <3>1. SubSeq(dir, 1, Len(dir)) = dir
      BY <1>1
    <3> QED
      BY <2>1, <3>1 DEF RelativePath
  <2> QED
    BY <1>4, <2>1, <2>3, <2>4 DEF Excluding
<1> QED
  BY <1>3, <1>4

\* The default patterns exclude the output, unless its name begins with a dot.
LEMMA DefaultsExclude ==
  ASSUME AppDir \in Paths,
         NEW C \in SUBSET AllPatterns, NEW H \in SUBSET AllPatterns, NEW ps \in Seq(C),
         PackageJson \in C, Not(<<>>, "excluded") \in H, \A p \in C : p \in H \/ StartsWithAny(p)
  PROVE  /\ WithDefaults(ps) \in Seq(AllPatterns)
         /\ OutDir[1] \notin Hidden => EndsOut(WithDefaults(ps), {NotOutput}, H)
<1> DEFINE own == IF OnlyIgnore(ps) \/ Contains(ps, PackageJson) THEN ps ELSE Append(ps, PackageJson)
           x == IF OnlyIgnore(ps) THEN <<All>> ELSE <<>>
           y == Excluding(AppDir, BuildResources, "orUnder")
           z == Excluding(<<>>, OutDir, "orUnder")
           first == x \o y \o z
           visible == OutDir[1] \notin Hidden
           n == SelectLastInSeq(own, StartsWithAny)
           m == Len(own)
           c == <<Not(<<>>, "excluded")>>
           u == SubSeq(own, 1, n)
           v == SubSeq(own, n + 1, m)
<1>1. WithDefaults(ps) = u \o first \o v \o c
  BY DEF WithDefaults
<1>2. own \in Seq(C) /\ m \in Nat
  <2>1. Append(ps, PackageJson) \in Seq(C)
    OBVIOUS
  <2> QED
    BY <2>1
<1>3. NotOutput \in AllPatterns /\ c \in Seq(AllPatterns) /\ c \in Seq(H)
  <2>1. Not(<<>>, "excluded") \in AllPatterns
    OBVIOUS
  <2>3. NotOutput \in AllPatterns
    BY OutDirIs DEF NotOutput, Not, AllPatterns, Paths
  <2> QED
    BY <2>1, <2>3
<1>4. x \in Seq(AllPatterns) /\ y \in Seq(AllPatterns) /\ z \in Seq(AllPatterns)
  <2>1. All \in AllPatterns
    <3>1. <<>> \in Paths
      BY DEF Paths
    <3> QED
      BY <3>1 DEF All, Glob, AllPatterns
  <2>2. \A path \in Paths : Not(path, "orUnder") \in AllPatterns
    BY DEF Not, AllPatterns
  <2>3. BuildResources \in Paths /\ OutDir \in Paths /\ <<>> \in Paths
    BY AppFilesAssumption DEF Paths
  <2>4. y \in Seq(AllPatterns) /\ z \in Seq(AllPatterns)
    BY <2>2, <2>3, ExcludingIs
  <2> QED
    BY <2>1, <2>4
<1>13. visible => z = <<NotOutput>>
  <2>1. OutDir \in Paths /\ <<>> \in Paths /\ OutDir # <<>>
    BY AppFilesAssumption DEF Paths
  <2> DEFINE Q == {Not(path, "orUnder") : path \in Paths}
             none == <<>>
  <2>2. \A path \in Paths : Not(path, "orUnder") \in Q
    OBVIOUS
  <2> HIDE DEF Q, none
  <2>3. none \in Paths /\ none = <<>>
    BY <2>1 DEF none
  <2>4. OutDir[1] \notin Hidden => Excluding(none, OutDir, "orUnder") = <<Not(OutDir, "orUnder")>>
    BY <2>1, <2>2, <2>3, ExcludingIs
  <2> QED
    BY <2>4 DEF NotOutput, none
<1> HIDE DEF own, x, y, z, c
<1>5. n \in 0..m /\ \A j \in (n + 1)..m : ~StartsWithAny(own[j])
  <2> DEFINE I == {j \in 1..m : StartsWithAny(own[j])}
  <2>1. n = IF I # {} THEN Max(I) ELSE 0
    BY DEF SelectLastInSeq
  <2>2. I \in SUBSET (1..m)
    OBVIOUS
  <2> HIDE DEF I
  <2>3. I # {} => Max(I) \in I /\ \A j \in I : j <= Max(I)
    BY <1>2, <2>2, GreatestIsThere
  <2> HIDE DEF n, m
  <2>4. n \in 0..m
    <3>1. m \in Nat /\ \A j \in 1..m : j \in 0..m
      BY <1>2
    <3>2. CASE I = {}
      BY <2>1, <3>1, <3>2
    <3>3. CASE I # {}
      <4>1. n \in 1..m
        BY <2>1, <2>2, <2>3, <3>3
      <4> QED
        BY <3>1, <4>1
    <3> QED
      BY <3>2, <3>3
  <2>5. ASSUME NEW j \in (n + 1)..m, j \in I PROVE FALSE
    <3>1. j <= n
      BY <2>1, <2>3, <2>5
    <3> QED
      BY <2>4, <3>1
  <2>6. \A j \in (n + 1)..m : j \in 1..m
    BY <2>4
  <2> QED
    BY <2>4, <2>5, <2>6 DEF I
<1> HIDE DEF n
<1>6. /\ u \in Seq(C) /\ v \in Seq(C) /\ Len(v) = m - n
      /\ \A p \in 1..(m - n) : v[p] = own[n + p]
  BY <1>2, <1>5, FirstAndRest
<1> HIDE DEF u, v, m
<1>7. u \in Seq(AllPatterns) /\ v \in Seq(AllPatterns)
  BY <1>6
<1>8. v \in Seq(H)
  <2>1. ASSUME NEW p \in 1..Len(v) PROVE v[p] \in H
    <3>1. p \in 1..(m - n) /\ n + p \in (n + 1)..m
      BY <1>2, <1>5, <1>6
    <3>2. v[p] \in C /\ ~StartsWithAny(v[p])
      BY <1>5, <1>6, <3>1
    <3> QED
      BY <3>2
  <2> QED
    BY <1>6, <2>1
<1>9. first \in Seq(AllPatterns) /\ (visible => EndsOut(first, {NotOutput}, H))
  <2> DEFINE xy == x \o y
  <2>1. z \in Seq(AllPatterns) /\ (visible => Len(z) = 1 /\ z[1] = NotOutput)
    BY <1>4, <1>13
  <2>2. visible => EndsOut(z, {NotOutput}, H)
    BY <2>1 DEF EndsOut
  <2>3. xy \in Seq(AllPatterns)
    BY <1>4, EndsOutJoined
  <2> HIDE DEF xy
  <2>4. xy \o z \in Seq(AllPatterns) /\ (visible => EndsOut(xy \o z, {NotOutput}, H))
    BY <2>1, <2>2, <2>3, EndsOutJoined
  <2> QED
    BY <2>4 DEF xy
<1> HIDE DEF first, visible
<1>10. u \o first \in Seq(AllPatterns) /\ (visible => EndsOut(u \o first, {NotOutput}, H))
  BY <1>7, <1>9, EndsOutJoined
<1> DEFINE w == u \o first
<1> HIDE DEF w
<1>11. w \o v \in Seq(AllPatterns) /\ (visible => EndsOut(w \o v, {NotOutput}, H))
  BY <1>7, <1>8, <1>10, EndsOutJoined DEF w
<1> DEFINE r == w \o v
<1> HIDE DEF r
<1>12. r \o c \in Seq(AllPatterns) /\ (visible => EndsOut(r \o c, {NotOutput}, H))
  BY <1>3, <1>11, EndsOutJoined DEF r
<1> QED
  BY <1>1, <1>12 DEF r, w, visible

-----------------------------------------------------------------------------
\* normalizeFiles, item by item.
LEMMA NormalizedIn ==
  ASSUME NEW T, NEW I, NEW items \in Seq(I), <<>> \in T,
         \A sets \in T : \A item \in I : AddItem(sets, item) \in T
  PROVE  NormalizeFiles(items) \in T
<1> DEFINE n == Len(items)
           step == [k \in 1..n |-> [m \in T |-> AddItem(m, items[k])]]
           IsIter(h) == h = [Q \in SUBSET (DOMAIN items) |->
                                IF Q = {} THEN <<>> ELSE AddItem(h[Q \ {Max(Q)}], items[Max(Q)])]
           iter == CHOOSE h : IsIter(h)
           a == <<>>
<1>1. n \in Nat /\ DOMAIN items = 1..n /\ \A k \in 1..n : items[k] \in I
  OBVIOUS
<1>2. NormalizeFiles(items) = iter[DOMAIN items]
  BY DEF NormalizeFiles, FoldLeft, MapThenFoldSet
<1>3. \A m \in T : \A k \in 1..n : AddItem(m, items[k]) \in T
  BY <1>1
<1>4. step \in StepsOn(T, n) /\ \A k \in 1..n : \A m \in T : step[k][m] = AddItem(m, items[k])
  BY <1>3 DEF StepsOn
<1> HIDE DEF step, n
<1>5. PICK h : FoldsTo(h, T, n, a, step)
  <2>1. a \in T
    OBVIOUS
  <2> HIDE DEF a
  <2> QED
    BY <1>1, <1>4, <2>1, FoldIs
<1>6. IsIter(h)
  <2>1. /\ h \in [SUBSET (1..n) -> T]
        /\ \A Q \in SUBSET (1..n) : h[Q] = IF Q = {} THEN a ELSE step[Max(Q)][h[Q \ {Max(Q)}]]
    BY <1>5 DEF FoldsTo
  <2>2. ASSUME NEW Q \in SUBSET (1..n)
        PROVE  h[Q] = IF Q = {} THEN <<>> ELSE AddItem(h[Q \ {Max(Q)}], items[Max(Q)])
    <3>1. CASE Q = {}
      BY <2>1, <3>1
    <3>2. CASE Q # {}
      <4>1. Max(Q) \in 1..n
        BY <1>1, <3>2, GreatestIsThere
      <4>2. h[Q \ {Max(Q)}] \in T
        BY <2>1
      <4>3. h[Q] = step[Max(Q)][h[Q \ {Max(Q)}]]
        BY <2>1, <3>2
      <4> QED
        BY <1>4, <3>2, <4>1, <4>2, <4>3
    <3> QED
      BY <3>1, <3>2
  <2> QED
    BY <1>1, <2>1, <2>2
<1>7. IsIter(iter)
  <2> HIDE DEF IsIter
  <2> QED
    BY <1>6, Zenon
<1> HIDE DEF iter
<1>8. \A Q \in SUBSET (1..n) :
          iter[Q] = IF Q = {} THEN <<>> ELSE AddItem(iter[Q \ {Max(Q)}], items[Max(Q)])
  BY <1>1, <1>7
<1> DEFINE K == {k \in 0..n : iter[1..k] \in T}
<1>9. 0 \in K
  <2>1. 1..0 = {} /\ 1..0 \in SUBSET (1..n) /\ 0 \in 0..n
    BY <1>1
  <2>2. iter[1..0] = <<>>
    BY <1>8, <2>1
  <2> QED
    BY <2>1, <2>2
<1>10. ASSUME NEW j \in 0..(n - 1), j \in K PROVE j + 1 \in K
  <2> DEFINE i == j + 1
  <2>1. i \in 1..n /\ i \in 0..n /\ i - 1 = j
    BY <1>1
  <2> HIDE DEF i
  <2>2. FirstOnes(i) /\ 1..i \in SUBSET (1..n)
    BY <1>1, <2>1, FirstPositions
  <2>3. iter[1..i] = AddItem(iter[1..j], items[i])
    BY <1>8, <2>1, <2>2 DEF FirstOnes
  <2>4. iter[1..i] \in T
    BY <1>3, <1>10, <2>1, <2>3
  <2> QED
    BY <2>1, <2>4 DEF i
<1>11. n \in K
  <2> HIDE DEF K
  <2>1. \A j \in 0..(n - 1) : j \in K => j + 1 \in K
    BY <1>10
  <2>2. \A j \in 0..n : j \in K
    BY <1>1, <1>9, <2>1, UpTo
  <2> QED
    BY <1>1, <2>2
<1> QED
  BY <1>1, <1>2, <1>11

\* Any items, and strings only.
LEMMA NormalizedType ==
  ASSUME NEW items \in Seq(Patterns \union FileSetItems)
  PROVE  NormalizeFiles(items) \in Seq(FileSetItems)
<1> DEFINE T == Seq(FileSetItems)
           I == Patterns \union FileSetItems
<1>1. <<>> \in T
  OBVIOUS
<1>2. ASSUME NEW sets \in T, NEW item \in I PROVE AddItem(sets, item) \in T
  <2>1. CASE IsFileSet(item)
    <3>1. item \in FileSetItems
      BY <2>1 DEF IsFileSet, Patterns
    <3> QED
      BY <2>1, <3>1 DEF AddItem
  <2>2. CASE ~IsFileSet(item)
    <3>1. item \in Patterns
      BY <2>2 DEF IsFileSet, FileSetItems
    <3>2. CASE sets # <<>> /\ Last(sets).from = NoFrom
      <4> DEFINE n == Len(sets)
                 new == [sets[n] EXCEPT !.filter = Append(@, item)]
      <4>1. n \in 1..n /\ DOMAIN sets = 1..n /\ sets[n] \in FileSetItems
        BY <3>2
      <4>2. new \in FileSetItems
        <5>1. sets[n].filter \in Seq(Patterns)
          BY <4>1 DEF FileSetItems
        <5>2. Append(sets[n].filter, item) \in Seq(Patterns)
          BY <3>1, <5>1
        <5> QED
          BY <4>1, <5>2 DEF FileSetItems
      <4>3. AddItem(sets, item) = [sets EXCEPT ![n] = new]
        BY <2>2, <3>2 DEF AddItem
      <4> HIDE DEF new, n
      <4>4. [sets EXCEPT ![n] = new] \in T
        BY <4>1, <4>2, ExceptSeq
      <4> QED
        BY <4>3, <4>4
    <3>3. CASE ~(sets # <<>> /\ Last(sets).from = NoFrom)
      <4>1. AddItem(sets, item) = Append(sets, FileSet(NoFrom, <<item>>))
        BY <2>2, <3>3 DEF AddItem
      <4>2. <<item>> \in Seq(Patterns)
        BY <3>1
      <4>3. FileSet(NoFrom, <<item>>) \in FileSetItems
        BY <4>2 DEF FileSet, FileSetItems
      <4> QED
        BY <4>1, <4>3
    <3> QED
      BY <3>2, <3>3
  <2> QED
    BY <2>1, <2>2
<1> HIDE DEF T, I
<1>3. NormalizeFiles(items) \in T
  <2>1. items \in Seq(I)
    BY DEF I
  <2> QED
    BY <1>1, <1>2, <2>1, NormalizedIn
<1> QED
  BY <1>3 DEF T

LEMMA NormalizedStrings ==
  ASSUME NEW C, NEW items \in Seq(C), \A p \in C : ~IsFileSet(p)
  PROVE  /\ NormalizeFiles(items) = <<>> \/ \E q \in Seq(C) : NormalizeFiles(items) = <<FileSet(NoFrom, q)>>
         /\ items = <<>> => NormalizeFiles(items) = <<>>
<1>1. ASSUME NEW D, NEW s \in Seq(D), \A p \in D : ~IsFileSet(p)
      PROVE  NormalizeFiles(s) = <<>> \/ \E q \in Seq(D) : NormalizeFiles(s) = <<FileSet(NoFrom, q)>>
  <2> DEFINE T == {<<>>} \union {<<FileSet(NoFrom, q)>> : q \in Seq(D)}
  <2>1. <<>> \in T
    OBVIOUS
  <2>2. ASSUME NEW sets \in T, NEW item \in D PROVE AddItem(sets, item) \in T
    <3>1. CASE sets = <<>>
      <4>1. AddItem(sets, item) = <<FileSet(NoFrom, <<item>>)>>
        BY <1>1, <3>1 DEF AddItem
      <4>2. <<item>> \in Seq(D)
        OBVIOUS
      <4> QED
        BY <4>1, <4>2
    <3>2. ASSUME NEW q \in Seq(D), sets = <<FileSet(NoFrom, q)>> PROVE AddItem(sets, item) \in T
      <4> DEFINE r == Append(q, item)
      <4>1. r \in Seq(D)
        OBVIOUS
      <4>2. sets # <<>> /\ Len(sets) = 1 /\ Last(sets) = FileSet(NoFrom, q) /\ sets[1] = FileSet(NoFrom, q)
        BY <3>2 DEF Last
      <4>3. AddItem(sets, item) = [sets EXCEPT ![1].filter = Append(@, item)]
        BY <1>1, <4>2 DEF AddItem, FileSet
      <4>4. [FileSet(NoFrom, q) EXCEPT !.filter = Append(@, item)] = FileSet(NoFrom, r)
        <5>1. FileSet(NoFrom, q).filter = q
          BY DEF FileSet
        <5> HIDE DEF r
        <5>2. [FileSet(NoFrom, q) EXCEPT !.filter = r] = FileSet(NoFrom, r)
          BY DEF FileSet
        <5> QED
          BY <5>1, <5>2 DEF r
      <4> DEFINE x == FileSet(NoFrom, q)
                 y == FileSet(NoFrom, r)
      <4> HIDE DEF r
      <4>5. AddItem(sets, item) = [<<x>> EXCEPT ![1] = y]
        BY <3>2, <4>3, <4>4
      <4> HIDE DEF x, y
      <4>6. [<<x>> EXCEPT ![1] = y] = <<y>>
        OBVIOUS
      <4> QED
        BY <4>1, <4>5, <4>6 DEF y
    <3> QED
      BY <3>1, <3>2
  <2> HIDE DEF T
  <2>3. NormalizeFiles(s) \in T
    BY <2>1, <2>2, NormalizedIn
  <2> QED
    BY <2>3 DEF T
<1>2. ASSUME items = <<>> PROVE NormalizeFiles(items) = <<>>
  <2> DEFINE D == {}
  <2>1. items \in Seq(D) /\ \A q \in Seq(D) : q = <<>>
    BY <1>2
  <2> DEFINE T == {<<>>}
  <2>2. NormalizeFiles(items) \in T
    <3>1. <<>> \in T /\ \A sets \in T : \A item \in D : AddItem(sets, item) \in T
      OBVIOUS
    <3> HIDE DEF T, D
    <3> QED
      BY <2>1, <3>1, NormalizedIn
  <2> QED
    BY <2>2
<1>3. NormalizeFiles(items) = <<>> \/ \E q \in Seq(C) : NormalizeFiles(items) = <<FileSet(NoFrom, q)>>
  BY <1>1
<1> QED
  BY <1>2, <1>3

-----------------------------------------------------------------------------
\* The matchers of a list of items, whose patterns are in Q.
MatchersOf(isMain, Q) == [main : {isMain}, from : Paths, patterns : Seq(Q)]

LEMMA FileMatchersType ==
  ASSUME NEW isMain, NEW items \in Seq(Patterns \union FileSetItems), NEW strings \in Seq(Patterns),
         NEW src \in Paths, NEW Q, Patterns \subseteq Q,
         strings # <<>> => \A path \in Paths : Not(path, "unpacked") \in Q
  PROVE  FileMatchers(isMain, items, strings, src) \in Seq(MatchersOf(isMain, Q))
<1> DEFINE sets == NormalizeFiles(items)
           n == Len(sets)
           from(i) == IF sets[i].from = NoFrom THEN src ELSE src \o sets[i].from
           matchers == [i \in DOMAIN sets |-> Matcher(isMain, from(i), sets[i].filter)]
           last == Excluding(src, OutDir, "unpacked")
           default == Matcher(isMain, src, strings \o last)
           M == MatchersOf(isMain, Q)
<1>1. sets \in Seq(FileSetItems)
  BY NormalizedType
<1>2. FileMatchers(isMain, items, strings, src) = IF strings = <<>> THEN matchers ELSE <<default>> \o matchers
  BY DEF FileMatchers
<1> HIDE DEF sets
<1>3. n \in Nat /\ DOMAIN sets = 1..n /\ \A i \in 1..n : sets[i] \in FileSetItems
  BY <1>1
<1>4. ASSUME NEW i \in 1..n PROVE Matcher(isMain, from(i), sets[i].filter) \in M
  <2>1. sets[i].from \in Paths \union {NoFrom} /\ sets[i].filter \in Seq(Patterns)
    BY <1>3 DEF FileSetItems
  <2>2. sets[i].filter \in Seq(Q)
    BY <2>1
  <2>3. from(i) \in Paths
    <3>1. CASE sets[i].from = NoFrom
      BY <3>1
    <3>2. CASE sets[i].from # NoFrom
      <4>1. src \o sets[i].from \in Paths
        BY <2>1, <3>2, ConcatProperties DEF Paths
      <4> QED
        BY <3>2, <4>1
    <3> QED
      BY <3>1, <3>2
  <2> HIDE DEF from
  <2> QED
    BY <2>2, <2>3 DEF Matcher, MatchersOf
<1>5. matchers \in Seq(M)
  <2>1. matchers \in [1..n -> M]
    BY <1>3, <1>4
  <2> HIDE DEF M, matchers
  <2> QED
    BY <1>3, <2>1, SeqDef
<1>6. ASSUME strings # <<>> PROVE default \in M
  <2>1. last \in Seq(Q)
    BY <1>6, AppFilesAssumption, ExcludingIs
  <2>2. strings \in Seq(Q)
    OBVIOUS
  <2> DEFINE t == last
  <2> HIDE DEF t
  <2>3. strings \o t \in Seq(Q)
    BY <2>1, <2>2, ConcatProperties DEF t
  <2> QED
    BY <2>3 DEF Matcher, MatchersOf, t
<1> HIDE DEF M, matchers, default
<1>7. ASSUME strings # <<>> PROVE <<default>> \o matchers \in Seq(M)
  <2>1. <<default>> \in Seq(M)
    BY <1>6, <1>7
  <2> DEFINE d == <<default>>
  <2> HIDE DEF d
  <2> QED
    BY <1>5, <2>1, ConcatProperties DEF d
<1> QED
  BY <1>2, <1>5, <1>7 DEF M

\* What is assumed of a setting.
LEMMA SettingIs ==
  ASSUME fileSetting \in FileSettings
  PROVE  /\ AppDir \in Paths /\ fileSetting.platformFiles \in Seq(Patterns)
         /\ fileSetting.files \in Seq(Patterns \union FileSetItems)
         /\ fileSetting.resources \in Seq(Patterns \union FileSetItems)
         /\ fileSetting.extraFiles \in Seq(Patterns \union FileSetItems)
         /\ fileSetting.tree \subseteq Paths \ {<<>>}
         /\ \A f, g \in fileSetting.tree : ~IsStrictPrefix(f, g)
  BY AppFilesAssumption DEF AppDir

LEMMA KnownPatterns ==
  /\ Patterns \subseteq AllPatterns /\ <<>> \in Paths
  /\ \A path \in Paths : Not(path, "unpacked") \in AllPatterns /\ Not(path, "unpacked").negate
  /\ All \in AllPatterns /\ All \in Patterns
  /\ PackageJson \in AllPatterns
  /\ Not(<<>>, "excluded") \in AllPatterns /\ Not(<<>>, "excluded").negate
<1>1. Patterns \subseteq AllPatterns
  BY DEF Patterns, AllPatterns
<1>2. <<>> \in Paths
  BY DEF Paths
<1>3. ASSUME NEW path \in Paths
      PROVE  Not(path, "unpacked") \in AllPatterns /\ Not(path, "unpacked").negate
  BY DEF Not, AllPatterns
<1>4. All \in AllPatterns /\ All \in Patterns
  BY <1>2 DEF All, Glob, AllPatterns, Patterns
<1>5. PackageJson \in AllPatterns
  BY PackageJsonIsHarmless DEF Harmless
<1>6. Not(<<>>, "excluded") \in AllPatterns /\ Not(<<>>, "excluded").negate
  BY <1>2 DEF Not, AllPatterns
<1> QED
  BY <1>1, <1>2, <1>3, <1>4, <1>5, <1>6

LEMMA MainMatchersType ==
  ASSUME fileSetting \in FileSettings
  PROVE  MainMatchers \in Seq(MatchersOf(TRUE, AllPatterns)) /\ Len(MainMatchers) > 0
<1> DEFINE M == MatchersOf(TRUE, AllPatterns)
           given == FileMatchers(TRUE, fileSetting.files, fileSetting.platformFiles, AppDir)
           one == Matcher(TRUE, AppDir, <<>>)
           matchers == IF given = <<>> THEN <<one>> ELSE given
           first == [matchers[1] EXCEPT !.patterns = WithDefaults(@)]
<1>1. MainMatchers = IF matchers[1].from # AppDir THEN matchers ELSE [matchers EXCEPT ![1] = first]
  BY DEF MainMatchers
<1>2. given \in Seq(M)
  BY SettingIs, KnownPatterns, FileMatchersType
<1>3. one \in M
  BY SettingIs DEF Matcher, MatchersOf
<1> HIDE DEF M, given, one
<1>4. matchers \in Seq(M) /\ Len(matchers) > 0
  <2>1. <<one>> \in Seq(M) /\ Len(<<one>>) > 0
    BY <1>3
  <2>2. given # <<>> => Len(given) > 0
    BY <1>2
  <2> QED
    BY <1>2, <2>1, <2>2
<1> HIDE DEF matchers
<1>5. matchers[1] \in M /\ 1 \in 1..Len(matchers)
  BY <1>4
<1>6. first \in M
  <2> DEFINE ps == matchers[1].patterns
             H == AllPatterns
  <2>1. ps \in Seq(AllPatterns)
    BY <1>5 DEF M, MatchersOf
  <2> HIDE DEF ps, H
  <2>2. WithDefaults(ps) \in Seq(AllPatterns)
    BY <2>1, SettingIs, KnownPatterns, DefaultsExclude
  <2> QED
    BY <1>5, <2>2 DEF M, MatchersOf, ps
<1> HIDE DEF first
<1>7. [matchers EXCEPT ![1] = first] \in Seq(M) /\ Len([matchers EXCEPT ![1] = first]) = Len(matchers)
  BY <1>4, <1>5, <1>6, ExceptSeq
<1> QED
  BY <1>1, <1>4, <1>7 DEF M

LEMMA ExtraMatchersType ==
  ASSUME fileSetting \in FileSettings
  PROVE  ExtraMatchers \in Seq(MatchersOf(FALSE, Patterns))
<1> DEFINE M == MatchersOf(FALSE, Patterns)
           s == FileMatchers(FALSE, fileSetting.resources, <<>>, <<>>)
           t == FileMatchers(FALSE, fileSetting.extraFiles, <<>>, <<>>)
<1>1. <<>> \in Seq(Patterns)
  OBVIOUS
<1>2. s \in Seq(M) /\ t \in Seq(M)
  BY <1>1, SettingIs, KnownPatterns, FileMatchersType
<1> HIDE DEF M, s, t
<1>3. s \o t \in Seq(M)
  BY <1>2, ConcatProperties
<1> QED
  BY <1>3 DEF ExtraMatchers, s, t, M

\* With strings only, of either list, there is one main matcher, which gets the default patterns.
LEMMA OneMainMatcher ==
  ASSUME fileSetting \in FileSettings, NEW C \in SUBSET AllPatterns,
         NEW f, f = fileSetting.files, NEW p, p = fileSetting.platformFiles, f = <<>> \/ p = <<>>,
         f \in Seq(C), p \in Seq(C), \A i \in DOMAIN f : ~IsFileSet(f[i]),
         \A path \in Paths : Not(path, "unpacked") \in C
  PROVE  \E ps \in Seq(C) : MainMatchers = <<Matcher(TRUE, AppDir, WithDefaults(ps))>>
<1> DEFINE given == FileMatchers(TRUE, f, p, AppDir)
           matchers == IF given = <<>> THEN <<Matcher(TRUE, AppDir, <<>>)>> ELSE given
           first == [matchers[1] EXCEPT !.patterns = WithDefaults(@)]
           sets == NormalizeFiles(f)
           last == Excluding(AppDir, OutDir, "unpacked")
<1>1. MainMatchers = IF matchers[1].from # AppDir THEN matchers ELSE [matchers EXCEPT ![1] = first]
  BY DEF MainMatchers
<1>2. \A q \in C : ~IsFileSet(q)
  BY DEF IsFileSet, AllPatterns
<1>3. /\ sets = <<>> \/ \E q \in Seq(C) : sets = <<FileSet(NoFrom, q)>>
      /\ f = <<>> => sets = <<>>
  BY <1>2, NormalizedStrings
<1>4. ASSUME sets = <<>>
      PROVE  given = <<>> \/ \E q \in Seq(C) : given = <<Matcher(TRUE, AppDir, q)>>
  <2> DEFINE none == [i \in DOMAIN sets |->
                Matcher(TRUE, IF sets[i].from = NoFrom THEN AppDir ELSE AppDir \o sets[i].from, sets[i].filter)]
             q == p \o last
  <2>1. none = <<>>
    BY <1>4
  <2>2. given = IF p = <<>> THEN none ELSE <<Matcher(TRUE, AppDir, q)>> \o none
    BY DEF FileMatchers
  <2>3. last \in Seq(C)
    BY SettingIs, AppFilesAssumption, ExcludingIs
  <2> DEFINE t == last
  <2> HIDE DEF t
  <2>4. p \o t \in Seq(C)
    BY <2>3, ConcatProperties DEF t
  <2> DEFINE x == Matcher(TRUE, AppDir, q)
  <2> HIDE DEF x
  <2>5. <<x>> \o <<>> = <<x>>
    BY ConcatEmptySeq
  <2> HIDE DEF given, none
  <2> QED
    BY <2>1, <2>2, <2>4, <2>5 DEF x, t
<1>5. ASSUME NEW q \in Seq(C), sets = <<FileSet(NoFrom, q)>>
      PROVE  given = <<Matcher(TRUE, AppDir, q)>>
  <2>1. p = <<>>
    BY <1>3, <1>5
  <2>2. DOMAIN sets = {1} /\ sets[1].from = NoFrom /\ sets[1].filter = q
    BY <1>5 DEF FileSet
  <2> HIDE DEF sets
  <2>3. given = [i \in DOMAIN sets |->
                Matcher(TRUE, IF sets[i].from = NoFrom THEN AppDir ELSE AppDir \o sets[i].from, sets[i].filter)]
    BY <2>1 DEF FileMatchers, sets
  <2> DEFINE x == Matcher(TRUE, AppDir, q)
  <2>4. given = [i \in {1} |-> x]
    BY <2>2, <2>3
  <2> HIDE DEF x, given
  <2>5. [i \in {1} |-> x] = <<x>>
    OBVIOUS
  <2> QED
    BY <2>4, <2>5 DEF x
<1> HIDE DEF given
<1>6. PICK ps \in Seq(C) : matchers = <<Matcher(TRUE, AppDir, ps)>>
  <2>1. CASE given = <<>>
    <3>1. <<>> \in Seq(C)
      OBVIOUS
    <3> QED
      BY <2>1, <3>1
  <2>2. CASE given # <<>>
    <3>1. PICK q \in Seq(C) : given = <<Matcher(TRUE, AppDir, q)>>
      BY <1>3, <1>4, <1>5, <2>2
    <3> QED
      BY <2>2, <3>1
  <2> QED
    BY <2>1, <2>2
<1> HIDE DEF matchers
<1> DEFINE x == Matcher(TRUE, AppDir, ps)
           y == Matcher(TRUE, AppDir, WithDefaults(ps))
<1>7. x.from = AppDir /\ [x EXCEPT !.patterns = WithDefaults(@)] = y
  <2> DEFINE w == WithDefaults(ps)
  <2>1. x.patterns = ps /\ x.from = AppDir
    BY DEF Matcher
  <2>2. [x EXCEPT !.patterns = WithDefaults(@)] = [x EXCEPT !.patterns = w]
    BY <2>1
  <2> HIDE DEF w
  <2>3. [x EXCEPT !.patterns = w] = Matcher(TRUE, AppDir, w)
    <3> DEFINE isMain == TRUE
               d == AppDir
    <3>1. x = [main |-> isMain, from |-> d, patterns |-> ps]
      BY DEF Matcher
    <3> HIDE DEF isMain, d
    <3>2. [[main |-> isMain, from |-> d, patterns |-> ps] EXCEPT !.patterns = w]
            = [main |-> isMain, from |-> d, patterns |-> w]
      OBVIOUS
    <3> QED
      BY <3>1, <3>2, Zenon DEF Matcher, isMain, d
  <2> QED
    BY <2>1, <2>2, <2>3 DEF w
<1>8. matchers = <<x>>
  BY <1>6
<1> HIDE DEF x, y
<1>9. matchers[1] = x /\ [matchers EXCEPT ![1] = y] = <<y>>
  BY <1>8
<1> QED
  BY <1>1, <1>7, <1>9 DEF y

-----------------------------------------------------------------------------
\* The walks there are, and what depends on the setting only.
AllMatchers == MainMatchers \o ExtraMatchers
AllWalks == [i \in DOMAIN AllMatchers |-> Walk(AllMatchers[i])]
WalkType == [main : BOOLEAN, from : Paths, patterns : Seq(AllPatterns)]

LEMMA SameSetting ==
  ASSUME fileSetting' = fileSetting
  PROVE  /\ AppDir' = AppDir /\ AllWalks' = AllWalks /\ MainWalks' = MainWalks
         /\ \A w, path, isDir : Accepts(w, path, isDir)' = Accepts(w, path, isDir)
         /\ \A dir : Children(dir)' = Children(dir)
<1>1. AppDir' = AppDir
  BY DEF AppDir
<1>2. \A ps : WithDefaults(ps)' = WithDefaults(ps)
  BY <1>1 DEF WithDefaults
<1>3. MainMatchers' = MainMatchers
  BY <1>1, <1>2 DEF MainMatchers
<1>4. ExtraMatchers' = ExtraMatchers
  BY DEF ExtraMatchers
<1>5. AllWalks' = AllWalks
  BY <1>3, <1>4 DEF AllWalks, AllMatchers
<1>6. MainWalks' = MainWalks
  BY <1>3 DEF MainWalks
<1>7. ExcludePatterns' = ExcludePatterns
  BY <1>4 DEF ExcludePatterns
<1>8. \A w, path, isDir : Accepts(w, path, isDir)' = Accepts(w, path, isDir)
  BY <1>7 DEF Accepts
<1>9. \A dir : Children(dir)' = Children(dir)
  BY DEF Children
<1> QED
  BY <1>1, <1>5, <1>6, <1>8, <1>9

LEMMA WalkIs ==
  ASSUME NEW isMain, NEW Q \in SUBSET AllPatterns, NEW m \in MatchersOf(isMain, Q)
  PROVE  /\ Walk(m).main = isMain /\ Walk(m).from = m.from /\ Walk(m).patterns = AddAllPattern(m.patterns)
         /\ Walk(m).from \in Paths /\ Walk(m).patterns \in Seq(AllPatterns)
         /\ isMain \in BOOLEAN => Walk(m) \in WalkType
<1> DEFINE ps == m.patterns
           qs == AddAllPattern(ps)
<1>1. ps \in Seq(AllPatterns) /\ m.main = isMain /\ m.from \in Paths
  BY DEF MatchersOf
<1>2. qs \in Seq(AllPatterns)
  <2>1. <<All>> \in Seq(AllPatterns)
    BY KnownPatterns
  <2> DEFINE a == <<All>>
  <2> HIDE DEF a, ps
  <2>2. a \o ps \in Seq(AllPatterns)
    BY <1>1, <2>1, ConcatProperties DEF a
  <2> QED
    BY <1>1, <2>2 DEF AddAllPattern, a
<1>3. Walk(m) = [m EXCEPT !.patterns = qs]
  BY DEF Walk
<1> HIDE DEF ps, qs
<1>4. m = [main |-> isMain, from |-> m.from, patterns |-> ps]
  BY DEF MatchersOf, ps
<1>5. Walk(m) = [main |-> isMain, from |-> m.from, patterns |-> qs]
  BY <1>3, <1>4 DEF MatchersOf
<1> QED
  BY <1>1, <1>2, <1>5 DEF WalkType, qs, ps

LEMMA AllWalksAre ==
  ASSUME fileSetting \in FileSettings
  PROVE  /\ AllWalks \in Seq(WalkType) /\ Len(AllWalks) > 0
         /\ DOMAIN AllWalks = 1..Len(AllWalks) /\ DOMAIN AllMatchers = 1..Len(AllWalks)
         /\ \A i \in 1..Len(AllWalks) : AllWalks[i].main => AllWalks[i] \in MainWalks
         /\ \A w \in MainWalks : w.main /\ \E i \in 1..Len(AllWalks) : AllWalks[i] = w
         /\ \A j \in 1..Len(ExtraMatchers) : \E i \in 1..Len(AllWalks) : AllWalks[i] = Walk(ExtraMatchers[j])
<1> DEFINE ms == MainMatchers
           es == ExtraMatchers
           a == Len(ms)
           b == Len(es)
           all == AllMatchers
           W == AllWalks
           M == MatchersOf(TRUE, AllPatterns)
           E == MatchersOf(FALSE, Patterns)
<1>1. ms \in Seq(M) /\ a > 0 /\ es \in Seq(E)
  BY MainMatchersType, ExtraMatchersType
<1>2. Patterns \in SUBSET AllPatterns /\ AllPatterns \in SUBSET AllPatterns
  BY KnownPatterns
<1>3. all = ms \o es
  BY DEF AllMatchers
<1>0. /\ \A m \in M : Walk(m).main = TRUE /\ Walk(m) \in WalkType
      /\ \A m \in E : Walk(m).main = FALSE /\ Walk(m) \in WalkType
  BY <1>2, WalkIs
<1> HIDE DEF ms, es, all, M, E
<1>4. /\ a \in Nat /\ b \in Nat
      /\ \A p \in 1..a : ms[p] \in M
      /\ \A q \in 1..b : es[q] \in E
  BY <1>1
<1>5. DOMAIN all = 1..(a + b) /\ \A p \in 1..(a + b) : all[p] = IF p <= a THEN ms[p] ELSE es[p - a]
  BY <1>1, <1>3
<1>6. W = [p \in 1..(a + b) |-> Walk(all[p])]
  BY <1>5 DEF AllWalks, all
<1> HIDE DEF W, a, b
<1>7. ASSUME NEW p \in 1..a
      PROVE  p \in 1..(a + b) /\ W[p] = Walk(ms[p]) /\ W[p].main = TRUE /\ W[p] \in WalkType
  <2>1. p \in 1..(a + b) /\ p <= a /\ ms[p] \in M
    BY <1>4
  <2>2. W[p] = Walk(ms[p])
    BY <1>5, <1>6, <2>1
  <2>3. Walk(ms[p]).main = TRUE /\ Walk(ms[p]) \in WalkType
    BY <1>0, <2>1
  <2> QED
    BY <2>1, <2>2, <2>3
<1>8. ASSUME NEW q \in 1..b
      PROVE  /\ a + q \in 1..(a + b) /\ W[a + q] = Walk(es[q])
             /\ W[a + q].main = FALSE /\ W[a + q] \in WalkType
  <2> DEFINE p == a + q
  <2>1. p \in 1..(a + b) /\ ~(p <= a) /\ p - a = q /\ es[q] \in E
    BY <1>4
  <2> HIDE DEF p
  <2>2. W[p] = Walk(es[q])
    BY <1>5, <1>6, <2>1
  <2>3. Walk(es[q]).main = FALSE /\ Walk(es[q]) \in WalkType
    BY <1>0, <2>1
  <2> QED
    BY <2>1, <2>2, <2>3 DEF p
<1>9. ASSUME NEW p \in 1..(a + b) PROVE p \in 1..a \/ \E q \in 1..b : p = a + q
  <2>1. CASE p <= a
    BY <1>4, <2>1
  <2>2. CASE ~(p <= a)
    <3>1. p - a \in 1..b /\ p = a + (p - a)
      BY <1>4, <2>2
    <3> QED
      BY <3>1
  <2> QED
    BY <2>1, <2>2
<1>10. MainWalks = {Walk(ms[i]) : i \in 1..a}
  <2>1. DOMAIN ms = 1..a
    BY <1>1 DEF a
  <2> QED
    BY <2>1 DEF MainWalks, ms
<1>11. W \in Seq(WalkType) /\ Len(W) = a + b
  <2>1. \A p \in 1..(a + b) : W[p] \in WalkType
    BY <1>7, <1>8, <1>9
  <2>2. W \in [1..(a + b) -> WalkType]
    BY <1>6, <2>1
  <2> QED
    BY <1>4, <2>2, SeqDef
<1>12. ASSUME NEW p \in 1..(a + b), W[p].main PROVE W[p] \in MainWalks
  <2>1. CASE p \in 1..a
    BY <1>7, <1>10, <2>1
  <2>2. CASE p \notin 1..a
    <3>1. PICK q \in 1..b : p = a + q
      BY <1>9, <2>2
    <3>2. W[p].main = FALSE
      BY <1>8, <3>1
    <3> QED
      BY <1>12, <3>2
  <2> QED
    BY <2>1, <2>2
<1>13. \A w \in MainWalks : w.main /\ \E i \in 1..(a + b) : W[i] = w
  BY <1>7, <1>10
<1>14. \A j \in 1..b : \E i \in 1..(a + b) : W[i] = Walk(es[j])
  BY <1>8
<1>15. DOMAIN W = 1..(a + b)
  BY <1>6
<1>16. a + b > 0
  BY <1>1, <1>4
<1> QED
  BY <1>5, <1>11, <1>12, <1>13, <1>14, <1>15, <1>16 DEF W, a, b, es, ms, all

-----------------------------------------------------------------------------
\* What a walk is to take, and has taken.
ToTake(w, f) ==
    \/ ~w.main /\ f = w.from
    \/ /\ Starts(w.from, f) /\ Len(w.from) < Len(f)
       /\ \A n \in (Len(w.from) + 1)..(Len(f) - 1) : Accepts(w, SubSeq(f, 1, n), TRUE)
       /\ Accepts(w, f, FALSE)
TakenBy(w) == IF w.main THEN appFiles ELSE copiedFiles
Finished(w) == \A f \in fileSetting.tree : ToTake(w, f) => f \in TakenBy(w)

\* A directory still to be read from which the walk gets to the file.
Ahead(w, d, f) == (Starts(d, f) /\ Len(d) < Len(f)) \/ (~w.main /\ d = f)
OnTheWay(w) ==
    /\ \A d \in dirs : Starts(w.from, d)
    /\ \A f \in fileSetting.tree :
          ToTake(w, f) => f \in TakenBy(w) \/ \E d \in dirs : Ahead(w, d, f)

\* The first k walks are finished.
Remaining(k) ==
    /\ walks \in Seq(WalkType) /\ Len(walks) = Len(AllWalks) - k
    /\ \A p \in 1..(Len(AllWalks) - k) : walks[p] = AllWalks[k + p]
Walked(k) ==
    /\ Remaining(k)
    /\ \A j \in 1..k : Finished(AllWalks[j])
    /\ k < Len(AllWalks) => OnTheWay(AllWalks[k + 1])

FilesTypes ==
    /\ fileSetting \in FileSettings /\ dirs \subseteq Paths
    /\ appFiles \subseteq fileSetting.tree /\ copiedFiles \subseteq fileSetting.tree
TakenAccepted ==
    \A a \in appFiles : \E w \in MainWalks : Starts(w.from, a) /\ Accepts(w, a, FALSE)
FilesInv ==
    /\ FilesTypes /\ TakenAccepted
    /\ walks = <<NoFrom>> \/ \E k \in 0..Len(AllWalks) : Walked(k)

LEMMA FilesInitInv == FilesInit => FilesInv
  BY DEF FilesInit, FilesInv, FilesTypes, TakenAccepted

\* The part of a path up to the directory below another one.
LEMMA NextOnPath ==
  ASSUME NEW d \in Paths, NEW f \in fileSetting.tree, f \in Paths, Starts(d, f), Len(d) < Len(f),
         NEW c, c = SubSeq(f, 1, Len(d) + 1)
  PROVE  /\ c \in Children(d) /\ c \in Paths /\ Len(c) = Len(d) + 1 /\ Starts(c, f) /\ Starts(d, c)
         /\ c # f => Len(c) < Len(f)
<1>1. d \in Seq(FileNames) /\ f \in Seq(FileNames)
  BY DEF Paths
<1>2. Len(d) \in Nat /\ Len(f) \in Nat /\ Len(d) + 1 \in 0..Len(f)
  BY <1>1
<1> DEFINE n == Len(d) + 1
<1> HIDE DEF n
<1>3. n \in 0..Len(f) /\ c = SubSeq(f, 1, n) /\ n = Len(d) + 1
  BY <1>2 DEF n
<1>4. c \in Seq(FileNames) /\ Len(c) = n /\ Starts(c, f)
  BY <1>1, <1>3, FirstAndRest
<1>5. Starts(d, c)
  <2>1. Len(d) <= Len(c)
    BY <1>2, <1>3, <1>4
  <2> QED
    BY <1>1, <1>4, <2>1, BothStart
<1>6. IsStrictPrefix(d, f)
  BY <1>1, PrefixIs
<1>7. c \in Children(d)
  BY <1>3, <1>6 DEF Children
<1>8. c # f => Len(c) < Len(f)
  <2>1. IsPrefix(c, f)
    BY <1>1, <1>4, PrefixIs
  <2> QED
    BY <1>1, <1>4, <2>1, PrefixIs DEF IsStrictPrefix
<1> QED
  BY <1>3, <1>4, <1>5, <1>7, <1>8 DEF Paths

LEMMA ChildIsPath ==
  ASSUME fileSetting \in FileSettings, NEW d \in Paths, NEW c \in Children(d)
  PROVE  c \in Paths /\ Starts(d, c)
<1>1. PICK f \in fileSetting.tree : IsStrictPrefix(d, f) /\ c = SubSeq(f, 1, Len(d) + 1)
  BY DEF Children
<1>2. f \in Paths /\ d \in Seq(FileNames) /\ f \in Seq(FileNames)
  BY SettingIs DEF Paths
<1>3. Starts(d, f) /\ Len(d) < Len(f)
  BY <1>1, <1>2, PrefixIs
<1> QED
  BY <1>1, <1>2, <1>3, NextOnPath

LEMMA MatchersKeep ==
  ASSUME FilesInv, GetMatchers
  PROVE  FilesInv'
<1>1. fileSetting' = fileSetting /\ appFiles' = appFiles /\ copiedFiles' = copiedFiles
  BY DEF GetMatchers
<1>2. fileSetting \in FileSettings
  BY DEF FilesInv, FilesTypes
<1>3. walks' = AllWalks /\ dirs' = {AllMatchers[1].from}
  BY DEF GetMatchers, AllWalks, AllMatchers
<1>4. /\ AllWalks \in Seq(WalkType) /\ Len(AllWalks) > 0
      /\ DOMAIN AllWalks = 1..Len(AllWalks) /\ DOMAIN AllMatchers = 1..Len(AllWalks)
  BY <1>2, AllWalksAre
<1>5. 1 \in 1..Len(AllWalks) /\ Len(AllWalks) \in Nat
  BY <1>4
<1>6. AllMatchers[1].from = AllWalks[1].from
  <2> DEFINE M == MatchersOf(TRUE, AllPatterns)
             E == MatchersOf(FALSE, Patterns)
             s == MainMatchers
             t == ExtraMatchers
  <2>1. s \in Seq(M) /\ Len(s) > 0 /\ t \in Seq(E)
    BY <1>2, MainMatchersType, ExtraMatchersType
  <2>2. AllPatterns \in SUBSET AllPatterns
    OBVIOUS
  <2>3. \A m \in M : Walk(m).from = m.from
    <3> SUFFICES ASSUME NEW m \in M PROVE Walk(m).from = m.from
      OBVIOUS
    <3> DEFINE isMain == TRUE
    <3>1. m \in MatchersOf(isMain, AllPatterns)
      OBVIOUS
    <3> HIDE DEF isMain
    <3> QED
      BY <2>2, <3>1, WalkIs
  <2> HIDE DEF M, E, s, t
  <2>4. s \in Seq(M \union E) /\ t \in Seq(M \union E) /\ 1 \in 1..(Len(s) + Len(t)) /\ 1 <= Len(s)
    BY <2>1
  <2>5. (s \o t)[1] = s[1] /\ s[1] \in M
    BY <2>1, <2>4, ConcatProperties
  <2>6. AllWalks[1] = Walk(AllMatchers[1])
    BY <1>4, <1>5 DEF AllWalks
  <2> QED
    BY <2>3, <2>5, <2>6 DEF AllMatchers, s, t
<1>7. PICK w : w = AllWalks[1]
  OBVIOUS
<1>15. w \in WalkType /\ dirs' = {w.from} /\ w.from \in Paths
  <2>1. w \in WalkType
    BY <1>4, <1>5, <1>7
  <2> QED
    BY <1>3, <1>6, <1>7, <2>1 DEF WalkType
<1>8. FilesTypes'
  BY <1>1, <1>15 DEF FilesInv, FilesTypes
<1>9. TakenAccepted'
  BY <1>1, SameSetting DEF FilesInv, TakenAccepted
<1>10. AllWalks' = AllWalks
  BY <1>1, SameSetting
<1>11. Remaining(0)'
  BY <1>3, <1>4, <1>5, <1>10 DEF Remaining
<1>12. OnTheWay(w)'
  <2>1. Starts(w.from, w.from)
    BY <1>15 DEF Starts, Paths
  <2>2. \A f : ToTake(w, f)' => Ahead(w, w.from, f)
    BY DEF ToTake, Ahead
  <2> QED
    BY <1>15, <2>1, <2>2 DEF OnTheWay
<1>13. Walked(0)'
  <2>1. OnTheWay(AllWalks[0 + 1])'
    BY <1>7, <1>10, <1>12
  <2> QED
    BY <1>11, <2>1 DEF Walked
<1>14. 0 \in 0..Len(AllWalks)'
  BY <1>5, <1>10
<1> QED
  BY <1>8, <1>9, <1>13, <1>14 DEF FilesInv

\* The walk that goes on, of a state in which one does.
LEMMA CurrentWalk ==
  ASSUME FilesInv, Walking
  PROVE  \E k \in 0..(Len(AllWalks) - 1) :
             /\ Walked(k) /\ Head(walks) = AllWalks[k + 1] /\ OnTheWay(AllWalks[k + 1])
             /\ AllWalks[k + 1] \in WalkType
             /\ AllWalks[k + 1].main => AllWalks[k + 1] \in MainWalks
<1>1. PICK k \in 0..Len(AllWalks) : Walked(k)
  BY DEF FilesInv, Walking
<1>2. /\ AllWalks \in Seq(WalkType)
      /\ \A i \in 1..Len(AllWalks) : AllWalks[i].main => AllWalks[i] \in MainWalks
  BY AllWalksAre DEF FilesInv, FilesTypes
<1>3. Len(AllWalks) \in Nat
  BY <1>2
<1>4. /\ walks \in Seq(WalkType) /\ Len(walks) = Len(AllWalks) - k
      /\ \A p \in 1..(Len(AllWalks) - k) : walks[p] = AllWalks[k + p]
  BY <1>1 DEF Walked, Remaining
<1>5. walks # <<>>
  BY DEF Walking
<1>6. Len(walks) > 0
  BY <1>4, <1>5
<1> DEFINE n == Len(AllWalks)
<1>7. n \in Nat /\ k \in 0..n /\ n - k > 0
  BY <1>3, <1>4, <1>6
<1> HIDE DEF n
<1>8. k \in 0..(n - 1) /\ 1 \in 1..(n - k) /\ k + 1 \in 1..n /\ k < n
  BY <1>7
<1>9. Head(walks) = walks[1] /\ walks[1] = AllWalks[k + 1]
  <2>1. Head(walks) = walks[1]
    BY <1>4, <1>5
  <2> QED
    BY <1>4, <1>8, <2>1 DEF n
<1>10. OnTheWay(AllWalks[k + 1])
  BY <1>1, <1>8 DEF Walked, n
<1>11. AllWalks[k + 1] \in WalkType
  BY <1>2, <1>8 DEF n
<1> QED
  BY <1>1, <1>2, <1>8, <1>9, <1>10, <1>11 DEF n

\* More is taken, nothing else becomes of the walks that are finished.
LEMMA StayFinished ==
  ASSUME fileSetting' = fileSetting, appFiles \subseteq appFiles', copiedFiles \subseteq copiedFiles',
         NEW w, Finished(w)
  PROVE  Finished(w)'
<1>1. \A f : ToTake(w, f)' => ToTake(w, f)
  BY SameSetting DEF ToTake
<1>2. \A f : f \in TakenBy(w) => f \in TakenBy(w)'
  BY DEF TakenBy
<1> QED
  BY <1>1, <1>2 DEF Finished

LEMMA DirectoryKeeps ==
  ASSUME FilesInv, WalkDirectory
  PROVE  FilesInv'
<1>1. PICK k \in 0..(Len(AllWalks) - 1) :
          /\ Walked(k) /\ Head(walks) = AllWalks[k + 1] /\ OnTheWay(AllWalks[k + 1])
          /\ AllWalks[k + 1] \in WalkType
          /\ AllWalks[k + 1].main => AllWalks[k + 1] \in MainWalks
  BY CurrentWalk DEF WalkDirectory
<1>2. PICK w : w = AllWalks[k + 1]
  OBVIOUS
<1>3. PICK dir : dir = CHOOSE d \in dirs : TRUE
  OBVIOUS
<1> DEFINE tree == fileSetting.tree
           files == Children(dir) \intersect tree
           more == {d \in Children(dir) \ files : Accepts(w, d, TRUE)}
           isFile == ~w.main /\ dir \in tree
           taken == IF isFile THEN {dir} ELSE {f \in files : Accepts(w, f, FALSE)}
<1>4. dir \in dirs /\ dirs' = (dirs \ {dir}) \union more
  BY <1>1, <1>2, <1>3 DEF WalkDirectory
<1>5. /\ appFiles' = IF w.main THEN appFiles \union taken ELSE appFiles
      /\ copiedFiles' = IF w.main THEN copiedFiles ELSE copiedFiles \union taken
  BY <1>1, <1>2, <1>3 DEF WalkDirectory, Take
<1>6. fileSetting' = fileSetting /\ walks' = walks
  BY DEF WalkDirectory
<1>7. /\ fileSetting \in FileSettings /\ dirs \subseteq Paths /\ appFiles \subseteq tree
      /\ copiedFiles \subseteq tree /\ tree \subseteq Paths
      /\ \A f, g \in tree : ~IsStrictPrefix(f, g)
  BY SettingIs DEF FilesInv, FilesTypes
<1>8. taken \subseteq tree
  OBVIOUS
<1>9. dir \in Paths /\ \A c \in Children(dir) : c \in Paths /\ Starts(dir, c)
  BY <1>4, <1>7, ChildIsPath
<1>10. w \in WalkType /\ OnTheWay(w) /\ (w.main => w \in MainWalks)
  BY <1>1, <1>2
<1>11. FilesTypes'
  <2>1. dirs' \subseteq Paths
    BY <1>4, <1>7, <1>9
  <2> QED
    BY <1>5, <1>6, <1>7, <1>8, <2>1 DEF FilesTypes
<1>12. TakenAccepted'
  <2>2. ASSUME w.main, NEW f \in taken PROVE Starts(w.from, f) /\ Accepts(w, f, FALSE)
    <3>1. f \in Children(dir) /\ Accepts(w, f, FALSE)
      BY <2>2
    <3>2. f \in Paths /\ Starts(dir, f) /\ Starts(w.from, dir) /\ w.from \in Paths
      BY <1>4, <1>9, <1>10, <3>1 DEF OnTheWay, WalkType
    <3> QED
      BY <1>9, <3>1, <3>2, StartsOn DEF Paths
  <2>1. \A a \in appFiles' : \E v \in MainWalks : Starts(v.from, a) /\ Accepts(v, a, FALSE)
    BY <1>5, <1>10, <2>2 DEF FilesInv, TakenAccepted
  <2> QED
    BY <1>6, <2>1, SameSetting DEF TakenAccepted
<1>13. AllWalks' = AllWalks /\ appFiles \subseteq appFiles' /\ copiedFiles \subseteq copiedFiles'
  BY <1>5, <1>6, SameSetting
<1>14. TakenBy(w)' = TakenBy(w) \union taken
  BY <1>5 DEF TakenBy
<1>15. \A f : ToTake(w, f)' <=> ToTake(w, f)
  BY <1>6, SameSetting DEF ToTake
<1>16. ASSUME NEW f \in tree, ToTake(w, f), f \notin taken, Ahead(w, dir, f)
       PROVE  \E d \in more : Ahead(w, d, f)
  <2>1. f \in Paths /\ f \in Seq(FileNames) /\ dir \in Seq(FileNames)
    BY <1>7, <1>9 DEF Paths
  <2>2. CASE ~w.main /\ dir = f
    BY <1>16, <2>2
  <2>3. CASE Starts(dir, f) /\ Len(dir) < Len(f)
    <3>1. IsStrictPrefix(dir, f)
      BY <2>1, <2>3, PrefixIs
    <3>2. dir \notin tree
      BY <1>7, <3>1
    <3>3. PICK c : c = SubSeq(f, 1, Len(dir) + 1)
      OBVIOUS
    <3>4. /\ c \in Children(dir) /\ c \in Paths /\ Len(c) = Len(dir) + 1 /\ Starts(c, f)
          /\ c # f => Len(c) < Len(f)
      BY <1>9, <2>1, <2>3, <3>3, NextOnPath
    <3>5. Starts(w.from, dir) /\ w.from \in Seq(FileNames)
      BY <1>4, <1>10 DEF OnTheWay, WalkType, Paths
    <3>6. Len(w.from) <= Len(dir) /\ Len(w.from) \in Nat /\ Len(dir) \in Nat /\ Len(f) \in Nat
      BY <2>1, <3>5 DEF Starts
    <3>7. f # w.from
      BY <2>3, <3>6
    <3>8. /\ \A n \in (Len(w.from) + 1)..(Len(f) - 1) : Accepts(w, SubSeq(f, 1, n), TRUE)
          /\ Accepts(w, f, FALSE)
      BY <1>16, <3>7 DEF ToTake
    <3>9. CASE c = f
      <4>1. f \in files
        BY <3>4, <3>9
      <4> QED
        BY <1>16, <3>2, <3>8, <4>1
    <3>10. CASE c # f
      <4>1. IsStrictPrefix(c, f)
        BY <2>1, <3>4, <3>10, PrefixIs DEF Paths
      <4>2. c \notin tree
        BY <1>7, <4>1
      <4>3. Len(dir) + 1 \in (Len(w.from) + 1)..(Len(f) - 1)
        BY <3>4, <3>6, <3>10
      <4>4. Accepts(w, c, TRUE)
        BY <3>3, <3>8, <4>3
      <4> QED
        BY <3>4, <3>10, <4>2, <4>4 DEF Ahead
    <3> QED
      BY <3>9, <3>10
  <2> QED
    BY <1>16, <2>2, <2>3 DEF Ahead
<1>17. OnTheWay(w)'
  <2>1. ASSUME NEW d \in dirs' PROVE Starts(w.from, d)
    <3>1. CASE d \in dirs
      BY <1>10, <3>1 DEF OnTheWay
    <3>2. CASE d \notin dirs
      <4>1. d \in Paths /\ Starts(dir, d)
        BY <1>4, <1>9, <3>2
      <4>2. w.from \in Seq(FileNames) /\ dir \in Seq(FileNames) /\ d \in Seq(FileNames)
        BY <1>9, <1>10, <4>1 DEF WalkType, Paths
      <4>3. Starts(w.from, dir)
        BY <1>4, <1>10 DEF OnTheWay
      <4> QED
        BY <4>1, <4>2, <4>3, StartsOn
    <3> QED
      BY <3>1, <3>2
  <2>2. ASSUME NEW f \in tree, ToTake(w, f)
        PROVE  f \in TakenBy(w)' \/ \E d \in dirs' : Ahead(w, d, f)
    <3> HIDE DEF taken, more
    <3>1. CASE f \in TakenBy(w)
      BY <1>14, <3>1
    <3>2. CASE f \notin TakenBy(w)
      <4>1. PICK d \in dirs : Ahead(w, d, f)
        BY <1>10, <2>2, <3>2 DEF OnTheWay
      <4>2. CASE d = dir
        BY <1>4, <1>14, <1>16, <2>2, <4>1, <4>2
      <4>3. CASE d # dir
        BY <1>4, <4>1, <4>3
      <4> QED
        BY <4>2, <4>3
    <3> QED
      BY <3>1, <3>2
  <2>3. \A f \in tree : ToTake(w, f)' => f \in TakenBy(w)' \/ \E d \in dirs' : Ahead(w, d, f)
    BY <1>15, <2>2
  <2> QED
    BY <1>6, <2>1, <2>3 DEF OnTheWay
<1>18. Walked(k)'
  <2>1. Remaining(k) /\ \A j \in 1..k : Finished(AllWalks[j])
    BY <1>1 DEF Walked
  <2>2. Remaining(k)'
    BY <1>6, <1>13, <2>1 DEF Remaining
  <2>3. ASSUME NEW j \in 1..k PROVE Finished(AllWalks[j])'
    <3>1. PICK v : v = AllWalks[j]
      OBVIOUS
    <3>2. Finished(v)'
      BY <1>6, <1>13, <2>1, <3>1, StayFinished
    <3> QED
      BY <1>13, <3>1, <3>2
  <2>4. OnTheWay(AllWalks[k + 1])'
    BY <1>2, <1>13, <1>17
  <2> QED
    BY <2>2, <2>3, <2>4 DEF Walked
<1>19. k \in 0..Len(AllWalks)'
  <2>1. Len(AllWalks) \in Nat
    BY <1>7, AllWalksAre
  <2> QED
    BY <1>13, <2>1
<1> QED
  BY <1>11, <1>12, <1>18, <1>19 DEF FilesInv

LEMMA NextMatcherKeeps ==
  ASSUME FilesInv, NextMatcher
  PROVE  FilesInv'
<1>1. PICK k \in 0..(Len(AllWalks) - 1) :
          /\ Walked(k) /\ Head(walks) = AllWalks[k + 1] /\ OnTheWay(AllWalks[k + 1])
          /\ AllWalks[k + 1] \in WalkType
          /\ AllWalks[k + 1].main => AllWalks[k + 1] \in MainWalks
  BY CurrentWalk DEF NextMatcher
<1>2. /\ fileSetting' = fileSetting /\ appFiles' = appFiles /\ copiedFiles' = copiedFiles
      /\ dirs = {} /\ walks # <<>> /\ walks' = Tail(walks)
      /\ dirs' = IF Len(walks) = 1 THEN {} ELSE {walks[2].from}
  BY DEF NextMatcher, Walking
<1> DEFINE n == Len(AllWalks)
<1>3. AllWalks' = AllWalks /\ n \in Nat /\ AllWalks \in Seq(WalkType) /\ n' = n
  BY <1>2, SameSetting, AllWalksAre DEF FilesInv, FilesTypes
<1>4. /\ walks \in Seq(WalkType) /\ Len(walks) = n - k
      /\ \A p \in 1..(n - k) : walks[p] = AllWalks[k + p]
  BY <1>1 DEF Walked, Remaining
<1>5. /\ Tail(walks) \in Seq(WalkType) /\ Len(Tail(walks)) = Len(walks) - 1
      /\ \A p \in 1..(Len(walks) - 1) : Tail(walks)[p] = walks[p + 1]
  BY <1>2, <1>4
<1>6. k \in 0..(n - 1)
  BY <1>1
<1> HIDE DEF n
<1> DEFINE i == k + 1
<1>7. i \in 0..n /\ i \in 1..n /\ n - i = n - k - 1
  BY <1>3, <1>6
<1>8. \A p \in 1..(n - i) : p \in 1..(n - k - 1) /\ p + 1 \in 1..(n - k) /\ k + (p + 1) = i + p
  BY <1>3, <1>6
<1>9. Remaining(i)'
  <2> HIDE DEF i
  <2>1. walks' \in Seq(WalkType) /\ Len(walks') = n - i
    BY <1>2, <1>4, <1>5, <1>7
  <2>2. ASSUME NEW p \in 1..(n - i) PROVE walks'[p] = AllWalks[i + p]
    <3> DEFINE q == p + 1
    <3>1. q \in 1..(n - k) /\ k + q = i + p /\ p \in 1..(Len(walks) - 1)
      BY <1>4, <1>8
    <3>2. walks'[p] = walks[q]
      BY <1>2, <1>5, <3>1
    <3> HIDE DEF q
    <3>3. walks[q] = AllWalks[k + q]
      BY <1>4, <3>1
    <3> QED
      BY <3>1, <3>2, <3>3
  <2> QED
    BY <1>3, <2>1, <2>2 DEF Remaining, n
<1>10. \A j \in 1..i : Finished(AllWalks[j])
  <2>1. \A j \in 1..k : Finished(AllWalks[j])
    BY <1>1 DEF Walked
  <2>2. Finished(AllWalks[i])
    <3>1. OnTheWay(AllWalks[i])
      BY <1>1
    <3> QED
      BY <1>2, <3>1 DEF OnTheWay, Finished
  <2>3. \A j \in 1..i : j = i \/ j \in 1..k
    BY <1>6
  <2> HIDE DEF i
  <2> QED
    BY <2>1, <2>2, <2>3
<1>11. ASSUME NEW j \in 1..i PROVE Finished(AllWalks[j])'
  <2>1. PICK v : v = AllWalks[j]
    OBVIOUS
  <2>2. Finished(v)'
    BY <1>2, <1>10, <2>1, StayFinished
  <2> QED
    BY <1>3, <2>1, <2>2
<1>12. ASSUME i < n PROVE OnTheWay(AllWalks[i + 1])' /\ dirs' \subseteq Paths
  <2>1. 2 \in 1..(n - k) /\ n - k # 1 /\ k + 2 = i + 1 /\ i + 1 \in 1..n
    BY <1>3, <1>6, <1>12
  <2>2. PICK v : v = AllWalks[i + 1]
    OBVIOUS
  <2>3. walks[2] = v /\ v \in WalkType
    BY <1>3, <1>4, <2>1, <2>2 DEF n
  <2>4. dirs' = {v.from} /\ v.from \in Paths
    BY <1>2, <1>4, <2>1, <2>3 DEF WalkType
  <2>5. Starts(v.from, v.from)
    BY <2>4 DEF Starts, Paths
  <2>6. \A f : ToTake(v, f)' => Ahead(v, v.from, f)
    BY DEF ToTake, Ahead
  <2>7. OnTheWay(v)'
    BY <2>4, <2>5, <2>6 DEF OnTheWay
  <2> QED
    BY <1>3, <2>2, <2>4, <2>7
<1>13. Walked(i)'
  <2> HIDE DEF i
  <2> QED
    BY <1>3, <1>9, <1>11, <1>12 DEF Walked, n
<1>14. FilesTypes'
  <2>1. dirs' \subseteq Paths
    <3>1. CASE i < n
      BY <1>12, <3>1
    <3>2. CASE ~(i < n)
      <4>1. n - k = 1
        BY <1>3, <1>6, <3>2
      <4> QED
        BY <1>2, <1>4, <4>1
    <3> QED
      BY <3>1, <3>2
  <2> QED
    BY <1>2, <2>1 DEF FilesInv, FilesTypes
<1>15. TakenAccepted'
  BY <1>2, SameSetting DEF FilesInv, TakenAccepted
<1>16. i \in 0..Len(AllWalks)'
  BY <1>3, <1>7 DEF n
<1> HIDE DEF i
<1> QED
  BY <1>13, <1>14, <1>15, <1>16 DEF FilesInv

LEMMA FilesNextInv ==
  ASSUME FilesInv, [FilesNext]_filesVars
  PROVE  FilesInv'
<1>1. CASE UNCHANGED filesVars
  <2>1. /\ fileSetting' = fileSetting /\ walks' = walks /\ dirs' = dirs
        /\ appFiles' = appFiles /\ copiedFiles' = copiedFiles
    BY <1>1 DEF filesVars
  <2>2. AllWalks' = AllWalks
    BY <2>1, SameSetting
  <2>3. FilesTypes' /\ TakenAccepted'
    BY <2>1, SameSetting DEF FilesInv, FilesTypes, TakenAccepted
  <2>4. ASSUME NEW k \in 0..Len(AllWalks), Walked(k) PROVE Walked(k)'
    <3>1. \A w, f : ToTake(w, f)' <=> ToTake(w, f)
      BY <2>1, SameSetting DEF ToTake
    <3>2. \A w : TakenBy(w)' = TakenBy(w)
      BY <2>1 DEF TakenBy
    <3>3. \A w : Finished(w)' <=> Finished(w)
      BY <2>1, <3>1, <3>2 DEF Finished
    <3>4. \A w : OnTheWay(w)' <=> OnTheWay(w)
      BY <2>1, <3>1, <3>2 DEF OnTheWay
    <3>5. Remaining(k)' <=> Remaining(k)
      BY <2>1, <2>2 DEF Remaining
    <3> QED
      BY <2>2, <2>4, <3>3, <3>4, <3>5 DEF Walked
  <2> QED
    BY <2>1, <2>2, <2>3, <2>4 DEF FilesInv
<1>2. CASE FilesNext
  BY <1>2, MatchersKeep, DirectoryKeeps, NextMatcherKeeps DEF FilesNext
<1> QED
  BY <1>1, <1>2

-----------------------------------------------------------------------------
\* Items that do not name the output are clean.
LEMMA CleanItems ==
  ASSUME NEW items \in Seq(Patterns \union FileSetItems), ~NamesOutput(items)
  PROVE  items \in Seq(Clean) /\ \A i \in DOMAIN items : ~IsFileSet(items[i])
<1>1. \A i \in DOMAIN items : ~IsFileSet(items[i])
  BY DEF NamesOutput
<1>2. ASSUME NEW i \in 1..Len(items) PROVE items[i] \in Clean
  <2> DEFINE p == items[i]
  <2>1. i \in DOMAIN items /\ p \in Patterns \union FileSetItems
    OBVIOUS
  <2>2. p \in Patterns
    BY <1>1, <2>1 DEF IsFileSet, FileSetItems
  <2>3. p.negate \/ StartsWithAny(p) \/ (~IsPrefix(OutDir, p.base) /\ ~IsPrefix(p.base, OutDir))
    BY <2>1 DEF NamesOutput
  <2> HIDE DEF p
  <2>4. p.base \in Seq(FileNames) /\ p \in AllPatterns /\ p.glob \in Placed
    BY <2>2, KnownPatterns DEF Patterns, Paths, Placed
  <2>5. (~IsPrefix(OutDir, p.base) /\ ~IsPrefix(p.base, OutDir)) => Apart(p)
    BY <2>4, OutDirIs, PrefixIs DEF Apart
  <2> QED
    BY <2>3, <2>4, <2>5 DEF Clean, Harmless, p
<1> QED
  BY <1>1, <1>2

LEMMA CleanDefaults ==
  /\ Clean \in SUBSET AllPatterns /\ Harmless \in SUBSET AllPatterns /\ PackageJson \in Clean
  /\ Not(<<>>, "excluded") \in Harmless /\ \A path \in Paths : Not(path, "unpacked") \in Clean
  /\ \A p \in Clean : p \in Harmless \/ StartsWithAny(p)
<1>1. Clean \in SUBSET AllPatterns /\ Harmless \in SUBSET AllPatterns
  BY DEF Clean, Harmless
<1>2. Not(<<>>, "excluded") \in Harmless /\ \A path \in Paths : Not(path, "unpacked") \in Harmless
  BY KnownPatterns DEF Harmless
<1>3. PackageJson \in Clean /\ \A path \in Paths : Not(path, "unpacked") \in Clean
  BY <1>1, <1>2, PackageJsonIsHarmless DEF Clean
<1> QED
  BY <1>1, <1>2, <1>3 DEF Clean

LEMMA FilesInvStaysOut == FilesInv => OutputStaysOut
<1> SUFFICES ASSUME FilesInv PROVE OutputStaysOut
  OBVIOUS
<1>1. PICK f : f = fileSetting.files
  OBVIOUS
<1>2. PICK p : p = fileSetting.platformFiles
  OBVIOUS
<1> DEFINE apart == ~IsPrefix(AppDir, OutDir) /\ ~IsPrefix(OutDir, AppDir)
           inProject == AppDir = <<>> /\ OutDir[1] \notin Hidden
<1> SUFFICES ASSUME f = <<>> \/ p = <<>>, ~NamesOutput(f), ~NamesOutput(p), apart \/ inProject,
                    NEW a \in appFiles, IsPrefix(OutDir, a)
             PROVE  FALSE
  BY <1>1, <1>2 DEF OutputStaysOut
<1>3. /\ fileSetting \in FileSettings /\ f \in Seq(Patterns \union FileSetItems) /\ p \in Seq(Patterns)
      /\ a \in Paths /\ AppDir \in Paths
  BY <1>1, <1>2, SettingIs DEF FilesInv, FilesTypes
<1>4. p \in Seq(Patterns \union FileSetItems)
  BY <1>3
<1>5. f \in Seq(Clean) /\ p \in Seq(Clean) /\ \A i \in DOMAIN f : ~IsFileSet(f[i])
  BY <1>3, <1>4, CleanItems
<1> DEFINE C == Clean
<1>6. PICK ps \in Seq(C) : MainMatchers = <<Matcher(TRUE, AppDir, WithDefaults(ps))>>
  <2>1. /\ C \in SUBSET AllPatterns /\ f \in Seq(C) /\ p \in Seq(C)
        /\ \A path \in Paths : Not(path, "unpacked") \in C
    BY <1>5, CleanDefaults
  <2> HIDE DEF C
  <2> QED
    BY <1>1, <1>2, <1>3, <1>5, <2>1, OneMainMatcher
<1>7. PICK q : q = WithDefaults(ps)
  OBVIOUS
<1>8. q \in Seq(AllPatterns) /\ (inProject => EndsOut(q, {NotOutput}, Harmless))
  BY <1>3, <1>7, CleanDefaults, DefaultsExclude
<1>9. PICK r : r = AddAllPattern(q)
  OBVIOUS
<1>10. r \in Seq(AllPatterns) /\ (inProject => EndsOut(r, {NotOutput}, Harmless))
  <2> DEFINE s == <<All>>
  <2>1. s \in Seq(AllPatterns)
    BY KnownPatterns
  <2>2. r = q \/ r = s \o q
    BY <1>9 DEF AddAllPattern
  <2> HIDE DEF s
  <2>3. s \o q \in Seq(AllPatterns) /\ (inProject => EndsOut(s \o q, {NotOutput}, Harmless))
    BY <1>8, <2>1, EndsOutJoined
  <2> QED
    BY <1>8, <2>2, <2>3
<1>11. PICK w \in MainWalks : Starts(w.from, a) /\ Accepts(w, a, FALSE)
  BY DEF FilesInv, TakenAccepted
<1>12. w.from = AppDir /\ w.patterns = r
  <2> DEFINE m == Matcher(TRUE, AppDir, q)
  <2>1. MainMatchers = <<m>>
    BY <1>6, <1>7
  <2>2. m.from = AppDir /\ m.patterns = q
    BY DEF Matcher
  <2>3. Walk(m) = [m EXCEPT !.patterns = r]
    BY <1>9, <2>2 DEF Walk
  <2>4. Walk(m).from = AppDir /\ Walk(m).patterns = r
    BY <2>3 DEF Matcher
  <2> HIDE DEF m
  <2>5. w = Walk(m)
    BY <2>1 DEF MainWalks
  <2> QED
    BY <2>4, <2>5
<1>13. AppDir \in Seq(FileNames) /\ a \in Seq(FileNames) /\ OutDir \in Seq(FileNames)
  BY <1>3, OutDirIs DEF Paths
<1>14. Starts(OutDir, a) /\ Starts(AppDir, a)
  BY <1>11, <1>12, <1>13, PrefixIs
\* The one walk does not leave the application's directory.
<1>15. CASE apart
  <2>1. ~Starts(AppDir, OutDir) /\ ~Starts(OutDir, AppDir)
    BY <1>13, <1>15, PrefixIs
  <2>2. Len(AppDir) <= Len(OutDir) \/ Len(OutDir) <= Len(AppDir)
    <3>1. Len(AppDir) \in Nat /\ Len(OutDir) \in Nat
      BY <1>13
    <3> QED
      BY <3>1
  <2> QED
    BY <1>13, <1>14, <2>1, <2>2, BothStart
\* Its patterns exclude the output.
<1>16. CASE inProject
  <2>1. RelativePath(AppDir, a) = a
    <3>1. Len(AppDir) = 0
      BY <1>16
    <3>2. SubSeq(a, 1, Len(a)) = a
      BY <1>13
    <3> QED
      BY <3>1, <3>2 DEF RelativePath
  <2>2. ~MinimatchAll(a, Parsed(r), FALSE)
    BY <1>3, <1>10, <1>14, <1>16, OutputExcluded
  <2>3. MinimatchAll(a, Parsed(r), FALSE)
    BY <1>11, <1>12, <2>1 DEF Accepts
  <2> QED
    BY <2>2, <2>3
<1> QED
  BY <1>15, <1>16

\* The output of earlier builds does not get into the application (getMainFileMatchers, with
\* the walk of every matcher): whatever patterns "files" has that do not name the output, of
\* an application in the project's directory, or in one that is apart from the output.  Of
\* one in another directory with the output in it, this does not hold.
THEOREM EarlierOutputStaysOut == FilesSpec => []OutputStaysOut
<1>1. FilesInit => FilesInv
  BY FilesInitInv
<1>2. FilesInv /\ [FilesNext]_filesVars => FilesInv'
  BY FilesNextInv
<1>3. FilesInv => OutputStaysOut
  BY FilesInvStaysOut
<1> QED
  BY <1>1, <1>2, <1>3, PTL DEF FilesSpec

-----------------------------------------------------------------------------
\* What several lists of patterns one after the other let in, one of them lets in.
LEMMA DecidedInOne ==
  ASSUME NEW path, NEW isDir \in BOOLEAN, NEW seqs \in Seq(Seq(AllPatterns)), NEW s, s = FlattenSeq(seqs),
         Decided(path, s, isDir, Len(s))
  PROVE  \E i \in 1..Len(seqs) : Decided(path, seqs[i], isDir, Len(seqs[i]))
<1> DEFINE n == Len(seqs)
<1>1. PICK f : Joins(f, AllPatterns, seqs)
  BY Flattened
<1>2. s = f[n] /\ n \in Nat /\ \A i \in 1..n : seqs[i] \in Seq(AllPatterns)
  BY <1>1 DEF Joins
<1>3. PICK l \in 1..Len(s) : LetsIn(path, s, isDir, l) /\ \A j \in (l + 1)..Len(s) : ~TakesOut(path, s, j)
  BY DEF Decided
<1>4. ComesFrom(f, seqs, n, l)
  BY <1>1, <1>2, <1>3, JoinsEvery
<1> HIDE DEF n
<1>5. PICK i \in 1..n : \E q \in 1..Len(seqs[i]) : l = Len(f[i - 1]) + q /\ f[n][l] = seqs[i][q]
  BY <1>4 DEF ComesFrom
<1>6. PICK q \in 1..Len(seqs[i]) : l = Len(f[i - 1]) + q /\ f[n][l] = seqs[i][q]
  BY <1>5
<1> DEFINE t == seqs[i]
           a == Len(f[i - 1])
           m == Len(t)
<1>7. IsAt(f, t, n, i)
  BY <1>1, JoinsAt DEF n
<1>8. m \in Nat
  BY <1>2, <1>5
<1>9. /\ a \in Nat /\ Len(f[i]) = a + m /\ Len(f[i]) <= Len(f[n])
      /\ \A p \in 1..m : f[n][a + p] = t[p]
  BY <1>7 DEF IsAt
<1>10. Len(s) \in Nat
  <2>1. s \in Seq(AllPatterns)
    BY FlattenElements
  <2> QED
    BY <2>1
<1>11. q \in 1..m /\ l = a + q /\ s[l] = t[q]
  BY <1>2, <1>6
<1> HIDE DEF t, a, m
<1>12. LetsIn(path, t, isDir, q)
  BY <1>3, <1>11 DEF LetsIn
<1>13. ASSUME NEW j \in (q + 1)..m PROVE ~TakesOut(path, t, j)
  <2> DEFINE k == a + j
  <2>1. k \in (l + 1)..Len(s) /\ j \in 1..m
    BY <1>2, <1>8, <1>9, <1>10, <1>11
  <2>2. s[k] = t[j]
    BY <1>2, <1>9, <2>1
  <2> HIDE DEF k
  <2>3. ~TakesOut(path, s, k)
    BY <1>3, <2>1
  <2> QED
    BY <2>2, <2>3 DEF TakesOut
<1>14. Decided(path, t, isDir, m)
  BY <1>11, <1>12, <1>13 DEF Decided
<1> QED
  BY <1>14 DEF t, m, n

\* The globs of "files", "extraResources" and "extraFiles".
GivenGlobs == {"path", "under", "orUnder"}

\* A pattern that matches a file matches, for what may be below it, every directory on the way.
LEMMA PartlyMatches ==
  ASSUME NEW p \in AllPatterns, p.glob \in GivenGlobs, NEW d \in Paths, NEW f \in Paths,
         Matches(p, f, FALSE), Starts(d, f)
  PROVE  Matches(p, d, TRUE)
<1>1. p.base \in Seq(FileNames) /\ d \in Seq(FileNames) /\ f \in Seq(FileNames)
  BY DEF AllPatterns, Paths
<1> DEFINE b == p.base
<1>2. Starts(b, f) /\ (p.glob = "under" => Len(b) < Len(f)) /\ (p.glob = "path" => f = b)
  <2>1. Starts(b, f)
    BY MatchesAtBase DEF GivenGlobs, Placed
  <2>2. p.glob = "under" => IsStrictPrefix(b, f)
    BY DEF Matches
  <2>3. p.glob = "path" => f = b
    BY DEF Matches
  <2> QED
    BY <1>1, <2>1, <2>2, <2>3, PrefixIs
<1> HIDE DEF b
<1>3. b \in Seq(FileNames) /\ Len(b) \in Nat /\ Len(d) \in Nat
  BY <1>1 DEF b
<1>4. CASE Len(d) <= Len(b)
  <2>1. IsPrefix(d, b)
    BY <1>1, <1>2, <1>3, <1>4, BothStart, PrefixIs
  <2> QED
    BY <2>1 DEF Matches, b
<1>5. CASE ~(Len(d) <= Len(b))
  <2>1. Len(b) <= Len(d) /\ Len(b) < Len(d)
    BY <1>3, <1>5
  <2>2. IsPrefix(b, d) /\ IsStrictPrefix(b, d)
    BY <1>1, <1>2, <1>3, <2>1, BothStart, PrefixIs
  <2>3. p.glob # "path"
    <3>1. p.glob = "path" => Len(d) <= Len(b)
      BY <1>2 DEF Starts
    <3> QED
      BY <1>5, <3>1
  <2> QED
    BY <2>2, <2>3 DEF Matches, GivenGlobs, b
<1> QED
  BY <1>4, <1>5

\* Every parsed pattern is one of what parsing leaves of some pattern, and conversely.
LEMMA ParsedElements ==
  ASSUME NEW ps \in Seq(AllPatterns)
  PROVE  /\ \A k \in 1..Len(Parsed(ps)) : \E i \in 1..Len(ps) : Parsed(ps)[k] \in ToSet(ParsedPattern(ps[i]))
         /\ \A i \in 1..Len(ps) : \A e \in ToSet(ParsedPattern(ps[i])) :
                \E k \in 1..Len(Parsed(ps)) : Parsed(ps)[k] = e
<1> DEFINE seqs == [i \in DOMAIN ps |-> ParsedPattern(ps[i])]
           q == Parsed(ps)
           n == Len(ps)
<1>1. seqs \in Seq(Seq(AllPatterns)) /\ Len(seqs) = n /\ q \in Seq(AllPatterns) /\ q = FlattenSeq(seqs)
  BY ParsedType DEF Parsed
<1>2. DOMAIN ps = 1..n
  OBVIOUS
<1>3. \A i \in 1..n : seqs[i] = ParsedPattern(ps[i])
  BY <1>2
<1> HIDE DEF seqs, q, n
<1>4. ToSet(q) = UNION {ToSet(seqs[i]) : i \in 1..n}
  BY <1>1, FlattenElements DEF ElementsJoin
<1>5. ToSet(q) = {q[k] : k \in 1..Len(q)}
  BY <1>1 DEF ToSet
<1>6. ASSUME NEW k \in 1..Len(q) PROVE \E i \in 1..n : q[k] \in ToSet(ParsedPattern(ps[i]))
  BY <1>3, <1>4, <1>5
<1>7. ASSUME NEW i \in 1..n, NEW e \in ToSet(ParsedPattern(ps[i])) PROVE \E k \in 1..Len(q) : q[k] = e
  <2>1. e \in ToSet(q)
    BY <1>3, <1>4
  <2> QED
    BY <1>5, <2>1
<1> QED
  BY <1>6, <1>7 DEF q, n

\* What is in the parsed form of one pattern.
LEMMA ParsedSet ==
  ASSUME NEW p \in AllPatterns
  PROVE  ToSet(ParsedPattern(p)) =
             {p} \union IF p.glob = "path" /\ ToSet(p.base) \intersect Dotted = {}
                        THEN {[p EXCEPT !.glob = "under"]} ELSE {}
<1> DEFINE u == [p EXCEPT !.glob = "under"]
<1>1. ToSet(<<p>>) = {p}
  BY DEF ToSet
<1> HIDE DEF u
<1>2. ToSet(<<p, u>>) = {p, u}
  <2>1. DOMAIN <<p, u>> = {1, 2} /\ <<p, u>>[1] = p /\ <<p, u>>[2] = u
    OBVIOUS
  <2> QED
    BY <2>1 DEF ToSet
<1>3. ParsedPattern(p) = IF p.glob = "path" /\ ToSet(p.base) \intersect Dotted = {}
                         THEN <<p, u>> ELSE <<p>>
  BY DEF ParsedPattern, u
<1> QED
  BY <1>1, <1>2, <1>3 DEF u

LEMMA ParsedGiven ==
  ASSUME NEW ps \in Seq(Patterns), NEW k \in 1..Len(Parsed(ps))
  PROVE  Parsed(ps)[k] \in AllPatterns /\ Parsed(ps)[k].glob \in GivenGlobs
<1> DEFINE q == Parsed(ps)
<1>1. ps \in Seq(AllPatterns)
  BY KnownPatterns
<1>2. q \in Seq(AllPatterns)
  BY <1>1, ParsedType
<1>3. PICK i \in 1..Len(ps) : q[k] \in ToSet(ParsedPattern(ps[i]))
  BY <1>1, ParsedElements
<1>4. ps[i] \in Patterns /\ ps[i] \in AllPatterns
  BY <1>1
<1> HIDE DEF q
<1>5. q[k] = ps[i] \/ q[k] = [ps[i] EXCEPT !.glob = "under"]
  BY <1>3, <1>4, ParsedSet
<1>6. q[k].glob \in GivenGlobs
  BY <1>4, <1>5 DEF Patterns, GivenGlobs
<1> QED
  BY <1>2, <1>6 DEF q

\* A negated pattern of a path that may be a directory is followed by what is below it.
LEMMA TwinFollows ==
  ASSUME NEW ps \in Seq(AllPatterns),
         \A i \in 1..Len(ps) : ps[i].negate => ToSet(ps[i].base) \intersect Dotted = {},
         NEW q, q = Parsed(ps), NEW k \in 1..Len(q), q[k].negate, q[k].glob = "path"
  PROVE  k + 1 \in 1..Len(q) /\ q[k + 1] = [q[k] EXCEPT !.glob = "under"]
<1> DEFINE seqs == [i \in DOMAIN ps |-> ParsedPattern(ps[i])]
           n == Len(ps)
<1>1. seqs \in Seq(Seq(AllPatterns)) /\ Len(seqs) = n /\ q \in Seq(AllPatterns) /\ q = FlattenSeq(seqs)
  BY ParsedType DEF Parsed
<1>2. n \in Nat /\ DOMAIN ps = 1..n /\ \A i \in 1..n : seqs[i] = ParsedPattern(ps[i])
  OBVIOUS
<1> HIDE DEF seqs, n
<1>3. PICK f : Joins(f, AllPatterns, seqs)
  BY <1>1, Flattened
<1>4. q = f[n]
  BY <1>1, <1>3 DEF Joins
<1>5. ComesFrom(f, seqs, n, k)
  BY <1>1, <1>3, <1>4, JoinsEvery
<1>6. PICK i \in 1..n : \E r \in 1..Len(seqs[i]) : k = Len(f[i - 1]) + r /\ f[n][k] = seqs[i][r]
  BY <1>5 DEF ComesFrom
<1>7. PICK r \in 1..Len(seqs[i]) : k = Len(f[i - 1]) + r /\ f[n][k] = seqs[i][r]
  BY <1>6
<1>8. IsAt(f, seqs[i], n, i)
  BY <1>1, <1>3, JoinsAt
<1> DEFINE p == ps[i]
           u == [p EXCEPT !.glob = "under"]
<1>9. p \in AllPatterns /\ (p.negate => ToSet(p.base) \intersect Dotted = {})
  BY <1>2, <1>6 DEF n
<1>10. u.negate = p.negate /\ u.glob = "under"
  BY <1>9 DEF AllPatterns
<1>11. seqs[i] = ParsedPattern(p)
  BY <1>2, <1>6
<1> HIDE DEF p
<1>12. q[k] = p \/ q[k] = u
  <2>1. IsParsed(seqs[i], p)
    BY <1>9, <1>11, ParsedIs
  <2> QED
    BY <1>4, <1>7, <2>1 DEF IsParsed
<1>13. q[k] = p /\ p.negate /\ p.glob = "path"
  BY <1>10, <1>12
<1>14. seqs[i] = <<p, u>>
  BY <1>9, <1>11, <1>13 DEF ParsedPattern
<1> HIDE DEF u
<1>15. Len(seqs[i]) = 2 /\ seqs[i][2] = u /\ seqs[i][1] = p
  BY <1>14
<1>16. r = 1
  <2>1. r \in 1..2
    BY <1>7, <1>15
  <2>2. p # u
    BY <1>10, <1>13
  <2>3. r # 2
    BY <1>4, <1>7, <1>13, <1>15, <2>2
  <2> QED
    BY <2>1, <2>3
<1>17. /\ Len(f[i - 1]) \in Nat /\ Len(f[i]) = Len(f[i - 1]) + 2 /\ Len(f[i]) <= Len(f[n])
       /\ \A j \in 1..2 : f[n][Len(f[i - 1]) + j] = seqs[i][j]
  BY <1>8, <1>15 DEF IsAt
<1> DEFINE a == Len(f[i - 1])
<1>18. a \in Nat /\ a + 2 <= Len(q) /\ k = a + 1 /\ q[a + 2] = u
  BY <1>4, <1>7, <1>15, <1>16, <1>17
<1> HIDE DEF a
<1>19. Len(q) \in Nat /\ k + 1 = a + 2
  BY <1>1, <1>18
<1> QED
  BY <1>13, <1>18, <1>19 DEF u

\* Patterns that let a file in, and take out nothing but what is below, let its directories in.
LEMMA DirectoriesToo ==
  ASSUME NEW ps \in Seq(Patterns),
         \A i \in 1..Len(ps) : ps[i].negate => ToSet(ps[i].base) \intersect Dotted = {},
         NEW q, q = Parsed(ps), NEW f \in Paths, Decided(f, q, FALSE, Len(q)),
         NEW d \in Paths, Starts(d, f)
  PROVE  Decided(d, q, TRUE, Len(q))
<1>1. ps \in Seq(AllPatterns) /\ \A k \in 1..Len(q) : q[k] \in AllPatterns /\ q[k].glob \in GivenGlobs
  <2>1. ps \in Seq(AllPatterns)
    BY KnownPatterns
  <2>2. \A k \in 1..Len(Parsed(ps)) : Parsed(ps)[k] \in AllPatterns /\ Parsed(ps)[k].glob \in GivenGlobs
    BY ParsedGiven
  <2> QED
    BY <2>1, <2>2
<1>2. q \in Seq(AllPatterns) /\ Len(q) \in Nat
  <2>1. ps \in Seq(AllPatterns)
    BY <1>1
  <2>2. Parsed(ps) \in Seq(AllPatterns)
    BY <2>1, ParsedType
  <2>3. q \in Seq(AllPatterns)
    BY <2>2
  <2> QED
    BY <2>3
<1>3. PICK l \in 1..Len(q) : LetsIn(f, q, FALSE, l) /\ \A j \in (l + 1)..Len(q) : ~TakesOut(f, q, j)
  BY DEF Decided
<1>4. LetsIn(d, q, TRUE, l)
  <2>1. ~q[l].negate /\ Matches(q[l], f, FALSE)
    BY <1>3 DEF LetsIn
  <2>2. Matches(q[l], d, TRUE)
    BY <1>1, <2>1, PartlyMatches
  <2> QED
    BY <2>1, <2>2 DEF LetsIn
<1>5. ASSUME NEW j \in (l + 1)..Len(q), TakesOut(d, q, j) PROVE FALSE
  <2> DEFINE p == q[j]
  <2>1. j \in 1..Len(q)
    BY <1>2
  <2>2. p \in AllPatterns /\ p.glob \in GivenGlobs /\ p.negate /\ Matches(p, d, FALSE) /\ ~Matches(p, f, FALSE)
    BY <1>1, <1>3, <1>5, <2>1 DEF TakesOut
  <2> HIDE DEF p
  <2>3. p.base \in Seq(FileNames) /\ d \in Seq(FileNames) /\ f \in Seq(FileNames)
    BY <2>2 DEF AllPatterns, Paths
  <2>4. Len(p.base) \in Nat /\ Len(d) \in Nat /\ Len(f) \in Nat
    BY <2>3
  <2>5. Starts(p.base, d)
    BY <2>2, MatchesAtBase DEF GivenGlobs, Placed
  <2>6. Starts(p.base, f) /\ Len(d) <= Len(f)
    BY <2>3, <2>5, StartsOn DEF Starts
  <2>7. p.glob # "orUnder"
    <3>1. IsPrefix(p.base, f)
      BY <2>3, <2>6, PrefixIs
    <3> QED
      BY <2>2, <3>1 DEF Matches
  <2>8. p.glob # "under"
    <3> SUFFICES ASSUME p.glob = "under" PROVE FALSE
      OBVIOUS
    <3>1. IsStrictPrefix(p.base, d)
      BY <2>2 DEF Matches
    <3>2. Len(p.base) < Len(d)
      BY <2>3, <3>1, PrefixIs
    <3>3. IsStrictPrefix(p.base, f)
      BY <2>3, <2>4, <2>6, <3>2, PrefixIs
    <3> QED
      BY <2>2, <3>3 DEF Matches
  <2>9. p.glob = "path"
    BY <2>2, <2>7, <2>8 DEF GivenGlobs
  <2>10. d = p.base /\ f # p.base
    BY <2>2, <2>9 DEF Matches
  <2>11. j + 1 \in 1..Len(q) /\ q[j + 1] = [p EXCEPT !.glob = "under"]
    <3>1. q[j].negate /\ q[j].glob = "path"
      BY <2>2, <2>9 DEF p
    <3>2. j + 1 \in 1..Len(q) /\ q[j + 1] = [q[j] EXCEPT !.glob = "under"]
      BY <1>1, <2>1, <3>1, TwinFollows
    <3> QED
      BY <3>2 DEF p
  <2> DEFINE m == j + 1
  <2>12. m \in (l + 1)..Len(q)
    BY <1>2, <2>1, <2>11
  <2> HIDE DEF m
  <2>13. q[m].negate /\ q[m].glob = "under" /\ q[m].base = p.base
    BY <2>2, <2>11 DEF m, AllPatterns
  <2>14. IsStrictPrefix(p.base, f)
    BY <2>3, <2>6, <2>10, PrefixIs DEF IsStrictPrefix
  <2>15. TakesOut(f, q, m)
    BY <2>13, <2>14 DEF TakesOut, Matches
  <2> QED
    BY <1>3, <2>12, <2>15
<1> QED
  BY <1>3, <1>4, <1>5 DEF Decided

LEMMA FromProjectIs ==
  ASSUME NEW p \in AllPatterns
  PROVE  Joined(<<>>, p) = p
<1>1. p.base \in Seq(FileNames)
  BY DEF AllPatterns, Paths
<1>2. <<>> \o p.base = p.base
  BY <1>1, ConcatEmptySeq
<1>3. [p EXCEPT !.base = p.base] = p
  BY DEF AllPatterns
<1> QED
  BY <1>2, <1>3 DEF Joined

\* A pattern below another directory.
LEMMA JoinedIs ==
  ASSUME NEW p \in Patterns, ~p.negate, NEW from \in Paths
  PROVE  /\ Joined(from, p) \in AllPatterns /\ ~Joined(from, p).negate /\ Joined(from, p).glob = p.glob
         /\ Joined(from, p).base = from \o p.base
<1>1. from \o p.base \in Paths
  <2>1. p.base \in Seq(FileNames) /\ from \in Seq(FileNames)
    BY DEF Patterns, Paths
  <2> DEFINE b == p.base
  <2> HIDE DEF b
  <2>2. from \o b \in Seq(FileNames)
    BY <2>1, ConcatProperties DEF b
  <2> QED
    BY <2>2 DEF Paths, b
<1> DEFINE b == from \o p.base
<1>2. Joined(from, p) = [p EXCEPT !.base = b]
  BY DEF Joined
<1>3. b \in Paths
  BY <1>1
<1> HIDE DEF b
<1>4. Joined(from, p) \in AllPatterns /\ Joined(from, p).negate = p.negate /\ Joined(from, p).glob = p.glob
      /\ Joined(from, p).base = b
  BY <1>2, <1>3 DEF Patterns, AllPatterns
<1> QED
  BY <1>4 DEF b

\* The part of a path below a directory, and the directories on the way.
LEMMA RelativeIs ==
  ASSUME NEW from \in Paths, NEW f \in Paths, Starts(from, f), NEW n \in Len(from)..Len(f),
         NEW r, r = RelativePath(from, f), NEW d, d = RelativePath(from, SubSeq(f, 1, n))
  PROVE  r \in Paths /\ Len(r) = Len(f) - Len(from) /\ d \in Paths /\ Starts(d, r)
<1> DEFINE a == Len(from)
           b == Len(f)
           u == SubSeq(f, 1, n)
<1>1. from \in Seq(FileNames) /\ f \in Seq(FileNames) /\ a \in Nat /\ b \in Nat /\ a <= b
  BY DEF Paths, Starts
<1>2. a \in 0..b /\ n \in 0..b /\ n \in Nat /\ a <= n
  BY <1>1
<1>3. /\ SubSeq(f, a + 1, b) \in Seq(FileNames) /\ Len(SubSeq(f, a + 1, b)) = b - a
      /\ \A p \in 1..(b - a) : SubSeq(f, a + 1, b)[p] = f[a + p]
  BY <1>1, <1>2, FirstAndRest
<1>4. u \in Seq(FileNames) /\ Len(u) = n /\ \A p \in 1..n : u[p] = f[p]
  BY <1>1, <1>2, FirstAndRest DEF Starts
<1> HIDE DEF u
<1>5. a \in 0..Len(u)
  BY <1>1, <1>2, <1>4
<1>6. /\ SubSeq(u, a + 1, Len(u)) \in Seq(FileNames) /\ Len(SubSeq(u, a + 1, Len(u))) = Len(u) - a
      /\ \A p \in 1..(Len(u) - a) : SubSeq(u, a + 1, Len(u))[p] = u[a + p]
  BY <1>4, <1>5, FirstAndRest
<1>7. r = SubSeq(f, a + 1, b) /\ d = SubSeq(u, a + 1, Len(u))
  BY DEF RelativePath, u
<1> HIDE DEF a, b
<1>8. d \in Seq(FileNames) /\ Len(d) = n - a /\ \A p \in 1..(n - a) : d[p] = u[a + p]
  BY <1>4, <1>6, <1>7
<1>9. r \in Seq(FileNames) /\ Len(r) = b - a /\ \A p \in 1..(b - a) : r[p] = f[a + p]
  BY <1>3, <1>7
<1>10. ASSUME NEW p \in 1..(n - a) PROVE r[p] = d[p]
  <2> DEFINE k == a + p
  <2>1. p \in 1..(b - a) /\ k \in 1..n
    BY <1>1, <1>2
  <2>2. r[p] = f[k] /\ d[p] = u[k]
    BY <1>8, <1>9, <2>1
  <2> HIDE DEF k
  <2> QED
    BY <1>4, <2>1, <2>2
<1>11. Starts(d, r)
  <2>1. n - a <= b - a
    BY <1>1, <1>2
  <2> QED
    BY <1>8, <1>9, <1>10, <2>1 DEF Starts
<1> QED
  BY <1>8, <1>9, <1>11 DEF Paths, a, b

\* What matches below a directory, matches from there.
LEMMA MatchesBelow ==
  ASSUME NEW from \in Paths, NEW f \in Paths, NEW j \in AllPatterns, NEW e \in AllPatterns,
         j.glob \in GivenGlobs, e.glob = j.glob, j.base = from \o e.base, Matches(j, f, FALSE)
  PROVE  Starts(from, f) /\ Matches(e, RelativePath(from, f), FALSE)
<1> DEFINE b == e.base
           r == RelativePath(from, f)
<1>1. from \in Seq(FileNames) /\ f \in Seq(FileNames) /\ b \in Seq(FileNames) /\ j.base \in Seq(FileNames)
  BY DEF AllPatterns, Paths
<1>2. Len(from) \in Nat /\ Len(f) \in Nat /\ Len(b) \in Nat
  BY <1>1
<1>3. j.base = from \o b
  OBVIOUS
<1>4. Starts(j.base, f)
  BY MatchesAtBase DEF GivenGlobs, Placed
<1> HIDE DEF b
<1>5. Starts(from, f) /\ Starts(b, SubSeq(f, Len(from) + 1, Len(f)))
  BY <1>1, <1>3, <1>4, JoinedStarts
<1>6. Len(j.base) = Len(from) + Len(b)
  BY <1>1, <1>3, ConcatProperties
<1>7. Starts(b, r)
  BY <1>5 DEF RelativePath
<1>8. r \in Seq(FileNames) /\ Len(r) = Len(f) - Len(from)
  <2>1. Len(f) \in Len(from)..Len(f)
    BY <1>2, <1>5 DEF Starts
  <2> QED
    BY <1>5, <2>1, RelativeIs DEF Paths
<1> HIDE DEF r
<1>9. j.glob = "path" => r = b
  <2> SUFFICES ASSUME j.glob = "path" PROVE r = b
    OBVIOUS
  <2>1. f = j.base
    BY DEF Matches
  <2>2. Len(r) = Len(b)
    BY <1>2, <1>6, <1>8, <2>1
  <2>3. \A p \in 1..Len(b) : r[p] = b[p]
    BY <1>7 DEF Starts
  <2> QED
    BY <1>1, <1>8, <2>2, <2>3, SeqEqual
<1>10. j.glob = "under" => IsStrictPrefix(b, r)
  <2> SUFFICES ASSUME j.glob = "under" PROVE IsStrictPrefix(b, r)
    OBVIOUS
  <2>1. IsStrictPrefix(j.base, f)
    BY DEF Matches
  <2>2. Len(j.base) < Len(f)
    BY <1>1, <2>1, PrefixIs
  <2>3. Len(b) < Len(r)
    BY <1>2, <1>6, <1>8, <2>2
  <2> QED
    BY <1>1, <1>7, <1>8, <2>3, PrefixIs
<1>11. IsPrefix(b, r)
  BY <1>1, <1>7, <1>8, PrefixIs
<1> QED
  BY <1>5, <1>9, <1>10, <1>11 DEF Matches, GivenGlobs, b, r

\* Patterns of a FileSet with a from, none negated, let in below it what they let in as patterns
\* relative to the project.
LEMMA LetInBelow ==
  ASSUME NEW ps \in Seq(Patterns), \A i \in 1..Len(ps) : ~ps[i].negate,
         NEW from \in Paths, NEW js, js = [i \in DOMAIN ps |-> Joined(from, ps[i])],
         NEW f \in Paths, Decided(f, Parsed(js), FALSE, Len(Parsed(js))),
         NEW q, q = Parsed(ps)
  PROVE  /\ Starts(from, f) /\ Decided(RelativePath(from, f), q, FALSE, Len(q))
         /\ \A d \in Paths : Starts(d, RelativePath(from, f)) => Decided(d, q, TRUE, Len(q))
<1> DEFINE n == Len(ps)
           t == Parsed(js)
           r == RelativePath(from, f)
<1>1. n \in Nat /\ DOMAIN ps = 1..n /\ \A i \in 1..n : ps[i] \in Patterns
  OBVIOUS
<1>2. \A i \in 1..n : ps[i] \in AllPatterns
  BY <1>1, KnownPatterns
<1>3. ps \in Seq(AllPatterns)
  BY KnownPatterns
<1>4. /\ \A i \in 1..n : js[i] = Joined(from, ps[i])
      /\ \A i \in 1..n : /\ js[i] \in AllPatterns /\ ~js[i].negate /\ js[i].glob = ps[i].glob
                         /\ js[i].base = from \o ps[i].base
  <2>1. \A i \in 1..n : js[i] = Joined(from, ps[i])
    BY <1>1
  <2> HIDE DEF n
  <2>2. ASSUME NEW i \in 1..n
        PROVE  /\ Joined(from, ps[i]) \in AllPatterns /\ ~Joined(from, ps[i]).negate
               /\ Joined(from, ps[i]).glob = ps[i].glob /\ Joined(from, ps[i]).base = from \o ps[i].base
    <3>1. ps[i] \in Patterns /\ ~ps[i].negate
      BY <1>1 DEF n
    <3> QED
      BY <3>1, JoinedIs
  <2> QED
    BY <2>1, <2>2
<1>5. js \in Seq(AllPatterns) /\ Len(js) = n
  <2>1. js \in [1..n -> AllPatterns]
    BY <1>1, <1>4
  <2> QED
    BY <1>1, <2>1, SeqDef
<1> HIDE DEF n, t, r
<1>6. PICK l \in 1..Len(t) : ~t[l].negate /\ Matches(t[l], f, FALSE)
  BY DEF Decided, LetsIn, t
<1>7. PICK i \in 1..n : t[l] \in ToSet(ParsedPattern(js[i]))
  BY <1>5, ParsedElements DEF t
<1> DEFINE p == ps[i]
           j == js[i]
<1>8. /\ p \in AllPatterns /\ p.glob \in GivenGlobs /\ ~p.negate /\ p.base \in Seq(FileNames)
      /\ j \in AllPatterns /\ j.glob = p.glob /\ j.base = from \o p.base
  BY <1>1, <1>2, <1>4 DEF Patterns, GivenGlobs, n, Paths
<1>9. t[l] \in ToSet(ParsedPattern(j))
  BY <1>7
<1> HIDE DEF p, j
<1> DEFINE e == [p EXCEPT !.glob = t[l].glob]
<1>10. t[l] = j \/ (t[l] = [j EXCEPT !.glob = "under"] /\ j.glob = "path" /\ ToSet(j.base) \intersect Dotted = {})
  BY <1>8, <1>9, ParsedSet
<1>11. t[l] \in AllPatterns /\ t[l].glob \in GivenGlobs /\ t[l].base = from \o p.base
  BY <1>8, <1>10 DEF AllPatterns, GivenGlobs
<1>12. e \in AllPatterns /\ e.glob = t[l].glob /\ e.base = p.base /\ ~e.negate
  BY <1>8, <1>11 DEF AllPatterns
<1>13. e \in ToSet(ParsedPattern(p))
  <2>1. CASE t[l] = j
    <3>1. e = p
      BY <1>8, <2>1 DEF AllPatterns
    <3> QED
      BY <1>8, <3>1, ParsedSet
  <2>2. CASE t[l] = [j EXCEPT !.glob = "under"] /\ j.glob = "path" /\ ToSet(j.base) \intersect Dotted = {}
    <3>1. t[l].glob = "under"
      BY <1>8, <2>2 DEF AllPatterns
    <3>2. ToSet(p.base) \subseteq ToSet(j.base)
      <4> DEFINE b == p.base
      <4> HIDE DEF b
      <4>1. b \in Seq(FileNames) /\ from \in Seq(FileNames) /\ j.base = from \o b
        BY <1>8 DEF b, Paths
      <4>2. /\ Len(from \o b) = Len(from) + Len(b) /\ from \o b \in Seq(FileNames)
            /\ \A k \in 1..(Len(from) + Len(b)) :
                  (from \o b)[k] = IF k <= Len(from) THEN from[k] ELSE b[k - Len(from)]
        BY <4>1, ConcatProperties
      <4>3. Len(from) \in Nat /\ Len(b) \in Nat /\ DOMAIN b = 1..Len(b)
            /\ DOMAIN (from \o b) = 1..Len(from \o b)
        BY <4>1, <4>2
      <4>4. ASSUME NEW k \in 1..Len(b) PROVE b[k] \in ToSet(from \o b)
        <5> DEFINE m == Len(from) + k
        <5>1. m \in 1..(Len(from) + Len(b)) /\ ~(m <= Len(from)) /\ m - Len(from) = k
          BY <4>3
        <5> HIDE DEF m
        <5>2. (from \o b)[m] = b[k] /\ m \in DOMAIN (from \o b)
          BY <4>2, <4>3, <5>1
        <5> QED
          BY <5>2 DEF ToSet
      <4>5. ToSet(b) = {b[k] : k \in 1..Len(b)}
        BY <4>3 DEF ToSet
      <4> QED
        BY <4>1, <4>4, <4>5 DEF b
    <3> QED
      BY <1>8, <2>2, <3>1, <3>2, ParsedSet
  <2> QED
    BY <1>10, <2>1, <2>2
<1> HIDE DEF e
<1>14. Starts(from, f) /\ Matches(e, r, FALSE)
  BY <1>6, <1>11, <1>12, MatchesBelow DEF r
<1>15. PICK k \in 1..Len(q) : q[k] = e
  BY <1>3, <1>13, ParsedElements DEF n, p
<1>16. ASSUME NEW m \in 1..Len(q) PROVE ~q[m].negate
  <2>1. PICK h \in 1..n : q[m] \in ToSet(ParsedPattern(ps[h]))
    BY <1>3, ParsedElements DEF n
  <2>2. ps[h] \in AllPatterns /\ ~ps[h].negate
    BY <1>2 DEF n
  <2>3. q[m] = ps[h] \/ q[m] = [ps[h] EXCEPT !.glob = "under"]
    BY <2>1, <2>2, ParsedSet
  <2> QED
    BY <2>2, <2>3 DEF AllPatterns
<1>17. Len(q) \in Nat
  <2>1. Parsed(ps) \in Seq(AllPatterns)
    BY <1>3, ParsedType
  <2>2. q \in Seq(AllPatterns)
    BY <2>1
  <2> QED
    BY <2>2
<1>18. r \in Paths
  <2>1. Len(f) \in Len(from)..Len(f)
    BY <1>14 DEF Paths, Starts
  <2> QED
    BY <1>14, <2>1, RelativeIs DEF r
<1>19. \A m \in (k + 1)..Len(q) : m \in 1..Len(q)
  BY <1>17
<1>20. Decided(r, q, FALSE, Len(q))
  BY <1>12, <1>14, <1>15, <1>16, <1>19 DEF Decided, LetsIn, TakesOut
<1>21. ASSUME NEW d \in Paths, Starts(d, r) PROVE Decided(d, q, TRUE, Len(q))
  <2>1. Matches(e, d, TRUE)
    BY <1>11, <1>12, <1>14, <1>18, <1>21, PartlyMatches
  <2> QED
    BY <1>12, <1>15, <1>16, <1>19, <2>1 DEF Decided, LetsIn, TakesOut
<1> QED
  BY <1>14, <1>20, <1>21 DEF r

LEMMA FromProject ==
  ASSUME NEW path \in Paths
  PROVE  RelativePath(<<>>, path) = path
<1>1. path \in Seq(FileNames) /\ Len(<<>>) + 1 = 1
  BY DEF Paths
<1>2. SubSeq(path, 1, Len(path)) = path
  BY <1>1
<1> QED
  BY <1>1, <1>2 DEF RelativePath

\* A path below a directory accepts what its relative path is let in for.
LEMMA ExtraAccepts ==
  ASSUME NEW w, w.main = FALSE, w.patterns \in Seq(AllPatterns), NEW path, NEW isDir \in BOOLEAN,
         NEW q, q = Parsed(w.patterns), Decided(RelativePath(w.from, path), q, isDir, Len(q))
  PROVE  Accepts(w, path, isDir)
<1>1. q \in Seq(AllPatterns)
  <2>1. Parsed(w.patterns) \in Seq(AllPatterns)
    BY ParsedType
  <2> QED
    BY <2>1
<1>2. MinimatchAll(RelativePath(w.from, path), q, isDir)
  BY <1>1, LastDecides
<1> QED
  BY <1>2 DEF Accepts

\* What an extra matcher excludes from the application it copies.
LEMMA ExtraTakes ==
  ASSUME NEW m \in MatchersOf(FALSE, Patterns), ExcludesAsCopied(m), NEW f \in Paths,
         NEW t, t = ParsedFromProject(m), Decided(f, t, FALSE, Len(t))
  PROVE  ToTake(Walk(m), f)
<1>1. PICK ps : ps = m.patterns
  OBVIOUS
<1>2. PICK from : from = m.from
  OBVIOUS
<1>3. PICK w : w = Walk(m)
  OBVIOUS
<1>4. w.main = FALSE /\ w.from = from /\ w.patterns = AddAllPattern(ps) /\ w.patterns \in Seq(AllPatterns)
  <2> DEFINE isMain == FALSE
  <2>1. m \in MatchersOf(isMain, Patterns)
    OBVIOUS
  <2> HIDE DEF isMain
  <2>2. Walk(m).main = isMain /\ Walk(m).from = m.from /\ Walk(m).patterns = AddAllPattern(m.patterns)
        /\ Walk(m).patterns \in Seq(AllPatterns)
    BY <2>1, KnownPatterns, WalkIs
  <2> QED
    BY <1>1, <1>2, <1>3, <2>2 DEF isMain
<1>5. ps \in Seq(Patterns) /\ from \in Paths
  BY <1>1, <1>2 DEF MatchersOf
<1>6. \A i \in 1..Len(ps) : ps[i].negate => from = <<>> /\ ToSet(ps[i].base) \intersect Dotted = {}
  BY <1>1, <1>2, <1>5 DEF ExcludesAsCopied
<1>7. ps \in Seq(AllPatterns)
  BY <1>5, KnownPatterns
<1>8. CASE ps = <<>>
  <2> DEFINE p == Glob(from, "path")
  <2>1. t = <<p>>
    BY <1>1, <1>2, <1>8 DEF ParsedFromProject
  <2>2. p.glob = "path" /\ p.base = from
    BY DEF Glob
  <2> HIDE DEF p
  <2>3. Len(t) = 1 /\ t[1] = p
    BY <2>1
  <2>4. Matches(p, f, FALSE)
    <3>1. PICK l \in 1..Len(t) : LetsIn(f, t, FALSE, l)
      BY DEF Decided
    <3>2. l = 1
      BY <2>3, <3>1
    <3> QED
      BY <2>3, <3>1, <3>2 DEF LetsIn
  <2>5. f = from
    BY <2>2, <2>4 DEF Matches
  <2> QED
    BY <1>3, <1>4, <2>5 DEF ToTake
<1>9. CASE ps # <<>>
  <2> DEFINE js == [i \in DOMAIN ps |-> Joined(from, ps[i])]
             q == Parsed(ps)
  <2>1. t = Parsed(js)
    BY <1>1, <1>2, <1>9 DEF ParsedFromProject
  <2>2. Len(ps) \in Nat /\ DOMAIN ps = 1..Len(ps) /\ \A i \in 1..Len(ps) : ps[i] \in AllPatterns
    BY <1>7
  <2>3. f \in Seq(FileNames) /\ Len(f) \in Nat
    BY DEF Paths
  <2>4. CASE from = <<>>
    <3>1. js = ps
      <4>1. \A i \in DOMAIN ps : Joined(from, ps[i]) = ps[i]
        BY <2>2, <2>4, FromProjectIs
      <4>2. ps = [i \in DOMAIN ps |-> ps[i]]
        BY <1>7
      <4> QED
        BY <4>1, <4>2
    <3>2. Decided(f, q, FALSE, Len(q))
      BY <2>1, <3>1
    <3> HIDE DEF q, js
    <3>3. PICK l \in 1..Len(q) : ~q[l].negate
      BY <3>2 DEF Decided, LetsIn
    <3>4. PICK i \in 1..Len(ps) : q[l] \in ToSet(ParsedPattern(ps[i]))
      BY <1>7, ParsedElements DEF q
    <3>5. q[l] = ps[i] \/ q[l] = [ps[i] EXCEPT !.glob = "under"]
      BY <2>2, <3>4, ParsedSet
    <3>6. ~ps[i].negate
      BY <2>2, <3>3, <3>5 DEF AllPatterns
    <3>7. w.patterns = ps
      BY <1>4, <2>2, <3>6 DEF AddAllPattern, OnlyIgnore
    <3>8. \A k \in 1..Len(ps) : ps[k].negate => ToSet(ps[k].base) \intersect Dotted = {}
      BY <1>6
    <3>9. ASSUME NEW n \in (Len(from) + 1)..(Len(f) - 1) PROVE Accepts(w, SubSeq(f, 1, n), TRUE)
      <4> DEFINE d == SubSeq(f, 1, n)
      <4>1. n \in 0..Len(f)
        BY <2>3, <2>4
      <4>2. d \in Paths /\ Starts(d, f)
        BY <2>3, <4>1, FirstAndRest DEF Paths
      <4> HIDE DEF d
      <4>3. Decided(d, q, TRUE, Len(q))
        BY <1>5, <3>2, <3>8, <4>2, DirectoriesToo DEF q
      <4>4. RelativePath(w.from, d) = d
        BY <1>4, <2>4, <4>2, FromProject
      <4>5. Accepts(w, d, TRUE)
        <5>1. Decided(RelativePath(w.from, d), q, TRUE, Len(q)) /\ q = Parsed(w.patterns)
          BY <3>7, <4>3, <4>4 DEF q
        <5> QED
          BY <1>4, <5>1, ExtraAccepts
      <4> QED
        BY <4>5 DEF d
    <3>10. Accepts(w, f, FALSE)
      <4>1. RelativePath(w.from, f) = f
        BY <1>4, <2>4, FromProject
      <4>2. Decided(RelativePath(w.from, f), q, FALSE, Len(q)) /\ q = Parsed(w.patterns)
        BY <3>2, <3>7, <4>1 DEF q
      <4> QED
        BY <1>4, <4>2, ExtraAccepts
    <3>11. CASE f = from
      BY <1>3, <1>4, <3>11 DEF ToTake
    <3>12. CASE f # from
      <4>1. Starts(from, f) /\ Len(from) < Len(f)
        <5>1. Len(f) > 0 /\ Len(from) = 0
          BY <2>3, <2>4, <3>12
        <5> QED
          BY <5>1 DEF Starts
      <4> QED
        BY <1>3, <1>4, <3>9, <3>10, <4>1 DEF ToTake
    <3> QED
      BY <3>11, <3>12
  <2>5. CASE from # <<>>
    <3>1. \A i \in 1..Len(ps) : ~ps[i].negate
      BY <1>6, <2>5
    <3>2. w.patterns = ps
      <4>1. 1 \in DOMAIN ps
        BY <1>9, <2>2
      <4>2. ~ps[1].negate
        BY <2>2, <3>1, <4>1
      <4> QED
        BY <1>4, <4>1, <4>2 DEF AddAllPattern, OnlyIgnore
    <3>3. Decided(f, Parsed(js), FALSE, Len(Parsed(js)))
      BY <2>1
    <3>4. /\ Starts(from, f) /\ Decided(RelativePath(from, f), q, FALSE, Len(q))
          /\ \A d \in Paths : Starts(d, RelativePath(from, f)) => Decided(d, q, TRUE, Len(q))
      <4> HIDE DEF q
      <4>1. PICK jj : jj = js
        OBVIOUS
      <4>2. jj = [i \in DOMAIN ps |-> Joined(from, ps[i])]
        BY <4>1
      <4>3. Decided(f, Parsed(jj), FALSE, Len(Parsed(jj)))
        BY <3>3, <4>1
      <4> HIDE DEF js
      <4> QED
        BY <1>5, <3>1, <4>2, <4>3, LetInBelow DEF q
    <3> HIDE DEF q, js
    <3>5. Len(from) \in Nat /\ Len(from) <= Len(f)
      BY <1>5, <3>4 DEF Starts, Paths
    <3>6. ASSUME NEW n \in (Len(from) + 1)..(Len(f) - 1) PROVE Accepts(w, SubSeq(f, 1, n), TRUE)
      <4>1. n \in Len(from)..Len(f)
        BY <2>3, <3>5
      <4>2. PICK d : d = RelativePath(from, SubSeq(f, 1, n))
        OBVIOUS
      <4>3. d \in Paths /\ Starts(d, RelativePath(from, f))
        BY <1>5, <3>4, <4>1, <4>2, RelativeIs
      <4>4. Decided(RelativePath(w.from, SubSeq(f, 1, n)), q, TRUE, Len(q)) /\ q = Parsed(w.patterns)
        BY <1>4, <3>2, <3>4, <4>2, <4>3 DEF q
      <4> QED
        BY <1>4, <4>4, ExtraAccepts
    <3>7. Accepts(w, f, FALSE)
      <4>1. Decided(RelativePath(w.from, f), q, FALSE, Len(q)) /\ q = Parsed(w.patterns)
        BY <1>4, <3>2, <3>4 DEF q
      <4> QED
        BY <1>4, <4>1, ExtraAccepts
    <3>8. CASE f = from
      BY <1>3, <1>4, <3>8 DEF ToTake
    <3>9. CASE f # from
      <4>1. Len(from) # Len(f)
        <5>1. from \in Seq(FileNames)
          BY <1>5 DEF Paths
        <5> SUFFICES ASSUME Len(from) = Len(f) PROVE from = f
          BY <3>9
        <5>2. \A p \in 1..Len(from) : f[p] = from[p]
          BY <3>4 DEF Starts
        <5> QED
          BY <2>3, <5>1, <5>2, SeqEqual
      <4>2. Len(from) < Len(f)
        BY <2>3, <3>5, <4>1
      <4> QED
        BY <1>3, <1>4, <3>4, <3>6, <3>7, <4>2 DEF ToTake
    <3> QED
      BY <3>8, <3>9
  <2> QED
    BY <2>4, <2>5
<1> QED
  BY <1>8, <1>9

\* A file is in what the patterns of the matchers beside the application let in.
LEMMA CopiedInstead ==
  ASSUME fileSetting \in FileSettings, NEW f \in Paths, MinimatchAll(f, ExcludePatterns, FALSE),
         \A m \in ToSet(ExtraMatchers) : ExcludesAsCopied(m)
  PROVE  \E j \in 1..Len(ExtraMatchers) : ToTake(Walk(ExtraMatchers[j]), f)
<1> DEFINE es == ExtraMatchers
           E == MatchersOf(FALSE, Patterns)
           seqs == [i \in DOMAIN es |-> ParsedFromProject(es[i])]
           s == ExcludePatterns
           n == Len(es)
<1>1. es \in Seq(E)
  BY ExtraMatchersType
<1>2. s = FlattenSeq(seqs)
  BY DEF ExcludePatterns
<1>3. \A m \in E : ParsedFromProject(m) \in Seq(AllPatterns)
  <2> SUFFICES ASSUME NEW m \in E PROVE ParsedFromProject(m) \in Seq(AllPatterns)
    OBVIOUS
  <2> DEFINE js == [i \in DOMAIN m.patterns |-> Joined(m.from, m.patterns[i])]
  <2>1. m.patterns \in Seq(Patterns) /\ m.from \in Paths
    BY DEF MatchersOf
  <2>2. \A p \in Patterns : Joined(m.from, p) \in AllPatterns
    <3> SUFFICES ASSUME NEW p \in Patterns PROVE Joined(m.from, p) \in AllPatterns
      OBVIOUS
    <3>1. p \in AllPatterns
      BY KnownPatterns
    <3>2. CASE m.from = <<>>
      BY <3>1, <3>2, FromProjectIs
    <3>3. CASE m.from # <<>> /\ p.negate
      BY <2>1, <3>3 DEF Joined, Glob, AllPatterns
    <3>4. CASE ~p.negate
      BY <2>1, <3>4, JoinedIs
    <3> QED
      BY <3>2, <3>3, <3>4
  <2>3. js \in Seq(AllPatterns)
    <3>1. Len(m.patterns) \in Nat /\ DOMAIN m.patterns = 1..Len(m.patterns)
      BY <2>1
    <3>2. js \in [1..Len(m.patterns) -> AllPatterns]
      BY <2>1, <2>2, <3>1
    <3> QED
      BY <3>1, <3>2, SeqDef
  <2> HIDE DEF js, E
  <2>4. Parsed(js) \in Seq(AllPatterns)
    BY <2>3, ParsedType
  <2>5. <<Glob(m.from, "path")>> \in Seq(AllPatterns)
    <3>1. Glob(m.from, "path") \in AllPatterns
      BY <2>1 DEF Glob, AllPatterns
    <3> QED
      BY <3>1
  <2> QED
    BY <2>4, <2>5 DEF ParsedFromProject, js
<1> HIDE DEF E
<1>4. n \in Nat /\ DOMAIN es = 1..n /\ \A i \in 1..n : es[i] \in E
  BY <1>1
<1> HIDE DEF es, n
<1>5. seqs \in Seq(Seq(AllPatterns)) /\ Len(seqs) = n
  <2>1. seqs \in [1..n -> Seq(AllPatterns)]
    BY <1>3, <1>4
  <2> QED
    BY <1>4, <2>1, SeqDef
<1>6. \A i \in 1..n : seqs[i] = ParsedFromProject(es[i])
  BY <1>4
<1> HIDE DEF seqs, s
<1>7. s \in Seq(AllPatterns)
  BY <1>2, <1>5, FlattenElements
<1>8. Decided(f, s, FALSE, Len(s))
  BY <1>7, LastDecides DEF s
<1>9. PICK j \in 1..n : Decided(f, seqs[j], FALSE, Len(seqs[j]))
  BY <1>2, <1>5, <1>8, DecidedInOne
<1>10. ExcludesAsCopied(es[j])
  <2>1. es[j] \in ToSet(es)
    BY <1>4 DEF ToSet
  <2> QED
    BY <2>1 DEF es
<1>11. es[j] \in MatchersOf(FALSE, Patterns)
  BY <1>4 DEF E
<1>12. seqs[j] = ParsedFromProject(es[j])
  BY <1>6
<1>13. ToTake(Walk(es[j]), f)
  BY <1>9, <1>10, <1>11, <1>12, ExtraTakes
<1> QED
  BY <1>13 DEF n, es

LEMMA FilesInvNothingLost == FilesInv => NoFileLost
<1> SUFFICES ASSUME FilesInv, walks = <<>>, \A m \in ToSet(ExtraMatchers) : ExcludesAsCopied(m),
                    NEW f \in fileSetting.tree, NEW w \in MainWalks, w.from = <<>>, TakenAlone(w, f)
             PROVE  f \in appFiles \union copiedFiles
  BY DEF NoFileLost
<1>1. fileSetting \in FileSettings
  BY DEF FilesInv, FilesTypes
<1>2. f \in Paths /\ f \in Seq(FileNames) /\ Len(f) \in Nat
  BY <1>1, SettingIs DEF Paths
<1>3. PICK k \in 0..Len(AllWalks) : Walked(k)
  <2>1. walks # <<NoFrom>>
    OBVIOUS
  <2> QED
    BY <2>1 DEF FilesInv
<1>4. AllWalks \in Seq(WalkType) /\ Len(AllWalks) \in Nat
  BY <1>1, AllWalksAre
<1>5. k = Len(AllWalks)
  <2>1. Len(AllWalks) - k = 0
    BY <1>3 DEF Walked, Remaining
  <2> QED
    BY <1>3, <1>4, <2>1
<1>6. \A j \in 1..Len(AllWalks) : Finished(AllWalks[j])
  BY <1>3, <1>5 DEF Walked
<1>7. w.main = TRUE /\ Finished(w)
  <2>1. w.main /\ \E i \in 1..Len(AllWalks) : AllWalks[i] = w
    BY <1>1, AllWalksAre
  <2>2. PICK i \in 1..Len(AllWalks) : AllWalks[i] = w
    BY <2>1
  <2>3. w \in WalkType
    BY <1>4, <2>2
  <2>4. w.main = TRUE
    BY <2>1, <2>3 DEF WalkType
  <2> QED
    BY <1>6, <2>2, <2>4
<1>8. CASE MinimatchAll(f, ExcludePatterns, FALSE)
  <2>1. PICK j \in 1..Len(ExtraMatchers) : ToTake(Walk(ExtraMatchers[j]), f)
    BY <1>1, <1>2, <1>8, CopiedInstead
  <2>2. PICK i \in 1..Len(AllWalks) : AllWalks[i] = Walk(ExtraMatchers[j])
    BY <1>1, AllWalksAre
  <2>3. f \in TakenBy(AllWalks[i])
    BY <1>6, <2>1, <2>2 DEF Finished
  <2> QED
    BY <2>3 DEF TakenBy
<1>9. CASE ~MinimatchAll(f, ExcludePatterns, FALSE)
  <2>1. RelativePath(w.from, f) = f
    BY <1>2, FromProject
  <2>2. Accepts(w, f, FALSE)
    BY <1>9, <2>1 DEF Accepts, TakenAlone
  <2>3. ASSUME NEW n \in (Len(w.from) + 1)..(Len(f) - 1) PROVE Accepts(w, SubSeq(f, 1, n), TRUE)
    <3> DEFINE d == SubSeq(f, 1, n)
    <3>1. n \in 1..Len(f) /\ n \in 0..Len(f)
      BY <1>2
    <3>2. d \in Seq(FileNames) /\ Len(d) = n /\ Starts(d, f)
      BY <1>2, <3>1, FirstAndRest
    <3>3. MinimatchAll(RelativePath(w.from, d), Parsed(w.patterns), TRUE)
      BY DEF TakenAlone
    <3> HIDE DEF d
    <3>4. Last(d) = f[n]
      BY <3>1, <3>2 DEF Last, Starts
    <3>5. f[n] \in ToSet(f)
      BY <1>2, <3>1 DEF ToSet
    <3>6. Last(d) # "node_modules"
      BY <3>4, <3>5 DEF TakenAlone
    <3>7. Accepts(w, d, TRUE)
      BY <3>3, <3>6 DEF Accepts
    <3> QED
      BY <3>7 DEF d
  <2>4. Starts(w.from, f) /\ Len(w.from) < Len(f)
    <3>1. IsStrictPrefix(w.from, f)
      BY DEF TakenAlone
    <3>2. w.from \in Seq(FileNames)
      OBVIOUS
    <3> QED
      BY <1>2, <3>1, <3>2, PrefixIs
  <2>5. ToTake(w, f)
    BY <2>2, <2>3, <2>4 DEF ToTake
  <2>6. f \in appFiles
    BY <1>7, <2>5 DEF Finished, TakenBy
  <2> QED
    BY <2>6
<1> QED
  BY <1>8, <1>9

\* No file is lost between the application and what is copied beside it (getFileMatchers,
\* computeParsedPatterns, createAppFilter, copyFiles): whatever the files and the patterns.
THEOREM NothingIsLost == FilesSpec => []NoFileLost
<1>1. FilesInit => FilesInv
  BY FilesInitInv
<1>2. FilesInv /\ [FilesNext]_filesVars => FilesInv'
  BY FilesNextInv
<1>3. FilesInv => NoFileLost
  BY FilesInvNothingLost
<1> QED
  BY <1>1, <1>2, <1>3, PTL DEF FilesSpec

-----------------------------------------------------------------------------
(***************************************************************************)
(* Targets                                                                 *)
(***************************************************************************)
-----------------------------------------------------------------------------
\* A Map of architectures to arrays of names.
ArchSet == ToSet(AllArchs)
Entries == [arch : ArchSet, array : Nat]
Maps == [map : Seq(Entries), arrays : Seq(Seq(KnownTargets))]
WellFormed(m) ==
    /\ m \in Maps
    /\ \A i \in 1..Len(m.map) : m.map[i].array \in 1..Len(m.arrays)
    /\ \A i, j \in 1..Len(m.map) : m.map[i].arch = m.map[j].arch => i = j
    /\ \A k \in 1..Len(m.arrays) : IsInjective(m.arrays[k])

ArchsIn(m) == {m.map[i].arch : i \in 1..Len(m.map)}
NamesAt(m, i) == ToSet(m.arrays[m.map[i].array])
NamesFor(m, a) == UNION {NamesAt(m, i) : i \in {i \in 1..Len(m.map) : m.map[i].arch = a}}

\* Only architectures of S share arrays.
Share(m, S) == \A i, j \in 1..Len(m.map) : m.map[i].array = m.map[j].array /\ i # j => m.map[i].arch \in S

\* The names of one architecture are those of its entry.
LEMMA NamesAre ==
  ASSUME NEW m, WellFormed(m), NEW i \in 1..Len(m.map)
  PROVE  NamesFor(m, m.map[i].arch) = NamesAt(m, i)
<1>1. {j \in 1..Len(m.map) : m.map[j].arch = m.map[i].arch} = {i}
  BY DEF WellFormed
<1> HIDE DEF NamesAt
<1> QED
  BY <1>1 DEF NamesFor

LEMMA NamesOfNone ==
  ASSUME NEW m, NEW a, a \notin ArchsIn(m)
  PROVE  NamesFor(m, a) = {}
BY DEF NamesFor, ArchsIn

\* What adding a name for the architectures of D does.
Added(m, D, name, r) ==
    /\ WellFormed(r) /\ ArchsIn(r) = ArchsIn(m) \union D /\ (D = {} => r = m)
    /\ \A S : Share(m, S) => Share(r, S)
    /\ \A b \in ArchSet : NamesFor(m, b) \subseteq NamesFor(r, b) /\ NamesFor(r, b) \subseteq NamesFor(m, b) \union {name}
    /\ \A b \in D : name \in NamesFor(r, b)
    /\ \A S : \A b \in ArchSet : Share(m, S) /\ b \notin S /\ b \notin D => NamesFor(r, b) = NamesFor(m, b)

LEMMA AddsNew ==
  ASSUME NEW m, WellFormed(m), NEW a \in ArchSet, NEW name \in KnownTargets, ~Has(m.map, a)
  PROVE  Added(m, {a}, name, AddValue(m, a, name))
<1> DEFINE n == Len(m.map)
           l == Len(m.arrays)
           e == [arch |-> a, array |-> l + 1]
           map == Append(m.map, e)
           arrs == Append(m.arrays, <<name>>)
           r == [map |-> map, arrays |-> arrs]
<1>1. AddValue(m, a, name) = r
  BY DEF AddValue
<1>2. /\ m.map \in Seq(Entries) /\ m.arrays \in Seq(Seq(KnownTargets)) /\ n \in Nat /\ l \in Nat
      /\ DOMAIN m.map = 1..n
  BY DEF WellFormed, Maps
<1>3. /\ \A i \in 1..n : m.map[i] \in Entries /\ m.map[i].array \in 1..l
      /\ \A i, j \in 1..n : m.map[i].arch = m.map[j].arch => i = j
      /\ \A k \in 1..l : IsInjective(m.arrays[k])
  BY <1>2 DEF WellFormed
<1>4. \A i \in 1..n : m.map[i].arch # a
  BY <1>2 DEF Has
<1>5. e \in Entries /\ e.arch = a /\ e.array = l + 1
  BY <1>2 DEF Entries
<1> DEFINE one == <<name>>
<1>6. one \in Seq(KnownTargets) /\ IsInjective(one) /\ ToSet(one) = {name}
  <2>1. Enumerates(<<name>>, {name})
    BY OneOrNone
  <2> QED
    BY <2>1 DEF Enumerates
<1> HIDE DEF e, one
<1>7. /\ map \in Seq(Entries) /\ Len(map) = n + 1 /\ map[n + 1] = e /\ \A i \in 1..n : map[i] = m.map[i]
  BY <1>2, <1>5
<1>8. /\ arrs \in Seq(Seq(KnownTargets)) /\ Len(arrs) = l + 1 /\ arrs[l + 1] = one
      /\ \A k \in 1..l : arrs[k] = m.arrays[k]
  BY <1>2, <1>6 DEF one
<1> DEFINE mm == m.map
           ma == m.arrays
<1> HIDE DEF n, l, map, arrs
<1>9. r.map = map /\ r.arrays = arrs /\ r \in Maps
  BY <1>7, <1>8 DEF Maps
<1> HIDE DEF r
<1>10. /\ \A i \in 1..(n + 1) : i = n + 1 \/ i \in 1..n
       /\ \A k \in 1..(l + 1) : k = l + 1 \/ k \in 1..l
       /\ n + 1 \in 1..(n + 1) /\ 1..n \subseteq 1..(n + 1) /\ 1..l \subseteq 1..(l + 1)
       /\ l + 1 \in 1..(l + 1) /\ l + 1 \notin 1..l /\ n + 1 \notin 1..n
  BY <1>2
<1>11. WellFormed(r)
  <2>1. \A i \in 1..(n + 1) : map[i].array \in 1..(l + 1)
    BY <1>3, <1>5, <1>7, <1>10
  <2>2. \A i, j \in 1..(n + 1) : map[i].arch = map[j].arch => i = j
    BY <1>3, <1>4, <1>5, <1>7, <1>10
  <2>3. \A k \in 1..(l + 1) : IsInjective(arrs[k])
    BY <1>3, <1>6, <1>8, <1>10
  <2> QED
    BY <1>7, <1>8, <1>9, <2>1, <2>2, <2>3 DEF WellFormed
<1>12. ArchsIn(r) = ArchsIn(m) \union {a}
  <2>1. ArchsIn(r) = {map[i].arch : i \in 1..(n + 1)} /\ ArchsIn(m) = {m.map[i].arch : i \in 1..n}
    BY <1>7, <1>9 DEF ArchsIn, n
  <2>2. \A i \in 1..n : i \in 1..(n + 1) /\ map[i].arch = m.map[i].arch
    BY <1>7, <1>10
  <2>3. ArchsIn(m) \subseteq ArchsIn(r)
    BY <2>1, <2>2
  <2>4. a \in ArchsIn(r)
    BY <1>5, <1>7, <1>10, <2>1
  <2>5. ArchsIn(r) \subseteq ArchsIn(m) \union {a}
    BY <1>5, <1>10, <2>1, <2>2, <1>7
  <2> QED
    BY <2>3, <2>4, <2>5
<1>13. ASSUME NEW S, Share(m, S) PROVE Share(r, S)
  <2>1. \A i, j \in 1..n : mm[i].array = mm[j].array /\ i # j => mm[i].arch \in S
    BY <1>13 DEF Share, n
  <2>2. \A i \in 1..n : map[i] = mm[i] /\ mm[i].array # l + 1
    BY <1>3, <1>7, <1>10
  <2> HIDE DEF mm
  <2>3. ASSUME NEW i \in 1..(n + 1), NEW j \in 1..(n + 1), map[i].array = map[j].array, i # j
        PROVE  map[i].arch \in S
    <3>1. i \in 1..n /\ j \in 1..n
      BY <1>5, <1>7, <1>10, <2>2, <2>3
    <3> QED
      BY <2>1, <2>2, <2>3, <3>1
  <2> QED
    BY <1>7, <1>9, <2>3 DEF Share
<1>14. \A i \in 1..n : NamesAt(r, i) = NamesAt(m, i)
  BY <1>3, <1>7, <1>8, <1>9 DEF NamesAt
<1>15. NamesAt(r, n + 1) = {name}
  BY <1>5, <1>6, <1>7, <1>8, <1>9 DEF NamesAt
<1>16. NamesFor(r, a) = {name} /\ NamesFor(m, a) = {}
  <2>1. {i \in 1..(n + 1) : map[i].arch = a} = {n + 1}
    BY <1>4, <1>5, <1>7, <1>10
  <2>2. a \notin ArchsIn(m)
    BY <1>4 DEF ArchsIn, n
  <2> QED
    BY <1>7, <1>9, <1>15, <2>1, <2>2, NamesOfNone DEF NamesFor
<1>17. ASSUME NEW b \in ArchSet, b # a PROVE NamesFor(r, b) = NamesFor(m, b)
  <2>1. {i \in 1..(n + 1) : map[i].arch = b} = {i \in 1..n : m.map[i].arch = b}
    BY <1>5, <1>7, <1>10, <1>17
  <2> DEFINE I == {i \in 1..n : m.map[i].arch = b}
  <2>2. NamesFor(r, b) = UNION {NamesAt(r, i) : i \in I}
    BY <1>7, <1>9, <2>1 DEF NamesFor
  <2>3. NamesFor(m, b) = UNION {NamesAt(m, i) : i \in I}
    BY DEF NamesFor, n
  <2>4. \A i \in I : NamesAt(r, i) = NamesAt(m, i)
    BY <1>14
  <2> HIDE DEF I
  <2> QED
    BY <2>2, <2>3, <2>4
<1> QED
  BY <1>1, <1>11, <1>12, <1>13, <1>16, <1>17 DEF Added

LEMMA AddsToOld ==
  ASSUME NEW m, WellFormed(m), NEW a \in ArchSet, NEW name \in KnownTargets, Has(m.map, a)
  PROVE  Added(m, {a}, name, AddValue(m, a, name))
<1> DEFINE n == Len(m.map)
           l == Len(m.arrays)
           k == Get(m.map, a)
           arrs == [m.arrays EXCEPT ![k] = Pushed(m.arrays[k], name)]
           r == AddValue(m, a, name)
<1>1. /\ m.map \in Seq(Entries) /\ m.arrays \in Seq(Seq(KnownTargets)) /\ n \in Nat /\ l \in Nat
      /\ DOMAIN m.map = 1..n /\ DOMAIN m.arrays = 1..l
      /\ m = [map |-> m.map, arrays |-> m.arrays]
  BY DEF WellFormed, Maps
<1>2. /\ \A i \in 1..n : m.map[i] \in Entries /\ m.map[i].array \in 1..l
      /\ \A i, j \in 1..n : m.map[i].arch = m.map[j].arch => i = j
      /\ \A j \in 1..l : IsInjective(m.arrays[j]) /\ m.arrays[j] \in Seq(KnownTargets)
  BY <1>1 DEF WellFormed
<1>3. PICK h \in 1..n : m.map[h].arch = a /\ k = m.map[h].array
  BY <1>1 DEF Has, Get
<1>4. k \in 1..l
  BY <1>2, <1>3
<1>5. r = [map |-> m.map, arrays |-> arrs]
  <2>1. r = [m EXCEPT !.arrays[k] = IF Contains(@, name) THEN @ ELSE Append(@, name)]
    BY DEF AddValue
  <2> QED
    BY <1>1, <2>1 DEF Pushed
<1> DEFINE old == m.arrays[k]
           new == Pushed(old, name)
<1>6. new \in Seq(KnownTargets) /\ IsInjective(new) /\ ToSet(new) = ToSet(old) \union {name}
  BY <1>2, <1>4, PushedIs
<1> HIDE DEF new
<1>7. arrs \in Seq(Seq(KnownTargets)) /\ Len(arrs) = l /\ arrs[k] = new
      /\ \A j \in 1..l : j # k => arrs[j] = m.arrays[j]
  BY <1>1, <1>4, <1>6, ExceptSeq DEF new
<1> HIDE DEF arrs, k
<1>8. r.map = m.map /\ r.arrays = arrs /\ r \in Maps
  BY <1>1, <1>5, <1>7 DEF Maps
<1> HIDE DEF r, n, l
<1>9. WellFormed(r)
  <2>1. \A j \in 1..l : IsInjective(arrs[j])
    BY <1>2, <1>6, <1>7
  <2> QED
    BY <1>2, <1>7, <1>8, <2>1 DEF WellFormed, n
<1>10. ArchsIn(r) = ArchsIn(m) \union {a} /\ a \in ArchsIn(m)
  <2>1. ArchsIn(r) = ArchsIn(m)
    BY <1>8 DEF ArchsIn
  <2>2. a \in ArchsIn(m)
    BY <1>3 DEF ArchsIn, n
  <2> QED
    BY <2>1, <2>2
<1>11. \A S : Share(m, S) => Share(r, S)
  BY <1>8 DEF Share
<1>12. ASSUME NEW i \in 1..n
       PROVE  NamesAt(r, i) = IF m.map[i].array = k THEN NamesAt(m, i) \union {name} ELSE NamesAt(m, i)
  <2>1. CASE m.map[i].array = k
    BY <1>6, <1>7, <1>8, <2>1 DEF NamesAt
  <2>2. CASE m.map[i].array # k
    BY <1>2, <1>7, <1>8, <2>2 DEF NamesAt
  <2> QED
    BY <2>1, <2>2
<1>13. ASSUME NEW b \in ArchSet
       PROVE  /\ NamesFor(m, b) \subseteq NamesFor(r, b) /\ NamesFor(r, b) \subseteq NamesFor(m, b) \union {name}
              /\ \A S : Share(m, S) /\ b \notin S /\ b # a => NamesFor(r, b) = NamesFor(m, b)
              /\ b = a => name \in NamesFor(r, b)
  <2>1. CASE b \notin ArchsIn(m)
    <3>1. b \notin ArchsIn(r) /\ b # a
      BY <1>10, <2>1
    <3> QED
      BY <2>1, <3>1, NamesOfNone
  <2>2. CASE b \in ArchsIn(m)
    <3>1. PICK i \in 1..n : m.map[i].arch = b
      BY <2>2 DEF ArchsIn, n
    <3>2. NamesFor(m, b) = NamesAt(m, i)
      BY <3>1, NamesAre DEF n
    <3>3. NamesFor(r, b) = NamesAt(r, i)
      BY <1>8, <1>9, <3>1, NamesAre DEF n
    <3>4. \A S : Share(m, S) /\ b \notin S /\ b # a => m.map[i].array # k
      <4> SUFFICES ASSUME NEW S, Share(m, S), b \notin S, b # a, m.map[i].array = k PROVE FALSE
        OBVIOUS
      <4>1. i # h
        BY <1>3, <3>1
      <4> QED
        BY <1>3, <3>1, <4>1 DEF Share, n
    <3>5. b = a => m.map[i].array = k
      BY <1>2, <1>3, <3>1
    <3>6. NamesAt(m, i) \subseteq NamesAt(r, i) /\ NamesAt(r, i) \subseteq NamesAt(m, i) \union {name}
          /\ (m.map[i].array = k => name \in NamesAt(r, i))
          /\ (m.map[i].array # k => NamesAt(r, i) = NamesAt(m, i))
      BY <1>12
    <3> QED
      BY <3>2, <3>3, <3>4, <3>5, <3>6
  <2> QED
    BY <2>1, <2>2
<1>14. Added(m, {a}, name, r)
  BY <1>9, <1>10, <1>11, <1>13 DEF Added
<1> QED
  BY <1>14 DEF r

LEMMA AddValueIs ==
  ASSUME NEW m, WellFormed(m), NEW a \in ArchSet, NEW name \in KnownTargets
  PROVE  Added(m, {a}, name, AddValue(m, a, name))
BY AddsNew, AddsToOld

LEMMA AddsMore ==
  ASSUME NEW m, NEW D \in SUBSET ArchSet, NEW name, NEW r, Added(m, D, name, r),
         NEW a \in ArchSet, NEW q, Added(r, {a}, name, q)
  PROVE  Added(m, D \union {a}, name, q)
<1>1. WellFormed(q) /\ ArchsIn(q) = ArchsIn(m) \union (D \union {a})
  BY DEF Added
<1>2. \A S : Share(m, S) => Share(r, S) /\ Share(q, S)
  BY DEF Added
<1>3. \A b \in ArchSet : /\ NamesFor(m, b) \subseteq NamesFor(r, b) /\ NamesFor(r, b) \subseteq NamesFor(m, b) \union {name}
                         /\ NamesFor(r, b) \subseteq NamesFor(q, b) /\ NamesFor(q, b) \subseteq NamesFor(r, b) \union {name}
  BY DEF Added
<1>4. \A b \in ArchSet : NamesFor(m, b) \subseteq NamesFor(q, b) /\ NamesFor(q, b) \subseteq NamesFor(m, b) \union {name}
  BY <1>3
<1>5. ASSUME NEW b \in D \union {a} PROVE name \in NamesFor(q, b)
  <2>1. b \in D => name \in NamesFor(r, b)
    BY DEF Added
  <2>2. b = a => name \in NamesFor(q, b)
    BY DEF Added
  <2> QED
    BY <1>3, <2>1, <2>2
<1>6. ASSUME NEW S, NEW b \in ArchSet, Share(m, S), b \notin S, b \notin D \union {a}
      PROVE  NamesFor(q, b) = NamesFor(m, b)
  <2>1. NamesFor(r, b) = NamesFor(m, b)
    BY <1>6 DEF Added
  <2>2. Share(r, S)
    BY <1>2, <1>6
  <2>3. NamesFor(q, b) = NamesFor(r, b)
    BY <1>6, <2>2 DEF Added
  <2> QED
    BY <2>1, <2>3
<1> QED
  BY <1>1, <1>2, <1>4, <1>5, <1>6 DEF Added

\* Adding a name for each architecture of a sequence.
LEMMA AddsForEach ==
  ASSUME NEW m, WellFormed(m), NEW archs \in Seq(ArchSet), NEW name \in KnownTargets
  PROVE  Added(m, ToSet(archs), name, AddForEach(m, archs, name))
<1> DEFINE n == Len(archs)
           T == {r \in Maps : WellFormed(r)}
           S(r, a) == AddValue(r, a, name)
           step == [k \in 1..n |-> [r \in T |-> S(r, archs[k])]]
           IsIter(h) == h = [Q \in SUBSET (DOMAIN archs) |->
                                IF Q = {} THEN m ELSE S(h[Q \ {Max(Q)}], archs[Max(Q)])]
           iter == CHOOSE h : IsIter(h)
<1>1. n \in Nat /\ DOMAIN archs = 1..n /\ \A k \in 1..n : archs[k] \in ArchSet
  OBVIOUS
<1>2. AddForEach(m, archs, name) = iter[DOMAIN archs]
  BY DEF AddForEach, FoldLeft, MapThenFoldSet
<1>3. \A r \in T : \A a \in ArchSet : S(r, a) \in T /\ Added(r, {a}, name, S(r, a))
  <2> SUFFICES ASSUME NEW r \in T, NEW a \in ArchSet
               PROVE  S(r, a) \in T /\ Added(r, {a}, name, S(r, a))
    OBVIOUS
  <2>1. WellFormed(r)
    OBVIOUS
  <2>2. Added(r, {a}, name, S(r, a))
    BY <2>1, AddValueIs
  <2>3. WellFormed(S(r, a))
    BY <2>2 DEF Added
  <2> QED
    BY <2>2, <2>3 DEF WellFormed
<1>4. m \in T
  BY DEF WellFormed
<1> HIDE DEF S, T
<1>5. step \in StepsOn(T, n) /\ \A k \in 1..n : \A r \in T : step[k][r] = S(r, archs[k])
  BY <1>1, <1>3 DEF StepsOn
<1> HIDE DEF step, n
<1>6. PICK h : FoldsTo(h, T, n, m, step)
  BY <1>1, <1>4, <1>5, FoldIs
<1>7. IsIter(h)
  <2>1. /\ h \in [SUBSET (1..n) -> T]
        /\ \A Q \in SUBSET (1..n) : h[Q] = IF Q = {} THEN m ELSE step[Max(Q)][h[Q \ {Max(Q)}]]
    BY <1>6 DEF FoldsTo
  <2>2. ASSUME NEW Q \in SUBSET (1..n)
        PROVE  h[Q] = IF Q = {} THEN m ELSE S(h[Q \ {Max(Q)}], archs[Max(Q)])
    <3>1. CASE Q = {}
      BY <2>1, <3>1
    <3>2. CASE Q # {}
      <4>1. Max(Q) \in 1..n
        BY <1>1, <3>2, GreatestIsThere
      <4>2. h[Q \ {Max(Q)}] \in T
        BY <2>1
      <4>3. h[Q] = step[Max(Q)][h[Q \ {Max(Q)}]]
        BY <2>1, <3>2
      <4> QED
        BY <1>5, <3>2, <4>1, <4>2, <4>3
    <3> QED
      BY <3>1, <3>2
  <2> QED
    BY <1>1, <2>1, <2>2
<1>8. IsIter(iter)
  <2> HIDE DEF IsIter
  <2> QED
    BY <1>7, Zenon
<1> HIDE DEF iter
<1>9. \A Q \in SUBSET (1..n) : iter[Q] = IF Q = {} THEN m ELSE S(iter[Q \ {Max(Q)}], archs[Max(Q)])
  BY <1>1, <1>8
<1> DEFINE f == [k \in 0..n |-> iter[1..k]]
           First(k) == {archs[i] : i \in 1..k}
           K == {k \in 0..n : Added(m, First(k), name, f[k])}
<1>10. 0 \in K
  <2>1. 1..0 = {} /\ 1..0 \in SUBSET (1..n) /\ 0 \in 0..n
    BY <1>1
  <2>2. f[0] = m /\ First(0) = {}
    BY <1>9, <2>1
  <2>3. Added(m, {}, name, m)
    BY DEF Added
  <2> HIDE DEF f, First
  <2> QED
    BY <2>1, <2>2, <2>3
<1>11. ASSUME NEW k \in 1..n PROVE f[k] = S(f[k - 1], archs[k])
  <2>1. FirstOnes(k) /\ 1..k \in SUBSET (1..n)
    BY <1>1, FirstPositions
  <2>2. iter[1..k] = S(iter[1..(k - 1)], archs[k])
    BY <1>9, <2>1 DEF FirstOnes
  <2>3. k \in 0..n /\ k - 1 \in 0..n
    BY <1>1
  <2> QED
    BY <2>2, <2>3
<1>12. f[n] = AddForEach(m, archs, name) /\ First(n) = ToSet(archs)
  <2>1. n \in 0..n
    BY <1>1
  <2>2. f[n] = iter[1..n]
    BY <2>1
  <2>3. First(n) = ToSet(archs)
    BY <1>1 DEF ToSet
  <2> QED
    BY <1>1, <1>2, <2>2, <2>3
<1> HIDE DEF f
<1>13. ASSUME NEW j \in 0..(n - 1), j \in K PROVE j + 1 \in K
  <2> DEFINE i == j + 1
  <2>1. i \in 1..n /\ i \in 0..n /\ i - 1 = j /\ 1..i = (1..j) \union {i} /\ 1..j \subseteq 1..n
    BY <1>1
  <2> HIDE DEF i
  <2>2. f[i] = S(f[j], archs[i])
    BY <1>11, <2>1
  <2>3. First(i) = First(j) \union {archs[i]}
    BY <2>1
  <2>4. First(j) \in SUBSET ArchSet /\ archs[i] \in ArchSet
    BY <1>1, <2>1
  <2>5. Added(m, First(j), name, f[j])
    BY <1>13
  <2>6. f[j] \in T
    BY <2>5 DEF Added, T, WellFormed
  <2> DEFINE g == f[j]
             e == f[i]
             b == archs[i]
             D == First(j)
  <2>7. Added(g, {b}, name, e)
    BY <1>3, <2>2, <2>4, <2>6
  <2> HIDE DEF First, g, e, b, D
  <2>8. Added(m, D \union {b}, name, e)
    BY <2>4, <2>5, <2>7, AddsMore DEF g, b, D
  <2>9. Added(m, First(i), name, f[i])
    BY <2>3, <2>8 DEF b, D, e
  <2> QED
    BY <2>1, <2>9 DEF i
<1> HIDE DEF K
<1>14. \A j \in 0..n : j \in K
  <2>1. \A j \in 0..(n - 1) : j \in K => j + 1 \in K
    BY <1>13
  <2> QED
    BY <1>1, <1>10, <2>1, UpTo
<1>15. n \in K
  BY <1>1, <1>14
<1>16. Added(m, First(n), name, f[n])
  BY <1>15 DEF K
<1> HIDE DEF First
<1> QED
  BY <1>12, <1>16

\* What the names are then, unless an array is shared by others.
LEMMA NamesAdded ==
  ASSUME NEW m, NEW D \in SUBSET ArchSet, NEW name, NEW r, Added(m, D, name, r),
         NEW S, Share(m, S), S \subseteq D \/ D = {}, NEW b \in ArchSet
  PROVE  NamesFor(r, b) = NamesFor(m, b) \union (IF b \in D THEN {name} ELSE {})
<1>1. CASE b \in D
  BY <1>1 DEF Added
<1>2. CASE b \notin D /\ D # {}
  <2>1. b \notin S
    BY <1>2
  <2> QED
    BY <1>2, <2>1 DEF Added
<1>3. CASE D = {}
  BY <1>3 DEF Added
<1> QED
  BY <1>1, <1>2, <1>3

-----------------------------------------------------------------------------
\* The architectures of the command line, or the current one.
LEMMA RequestTyped ==
  ASSUME targetRequest \in TargetRequests
  PROVE  /\ CurrentArch \in ArchSet /\ GivenArchs \in SUBSET ArchSet /\ "x64" \in ArchSet
         /\ targetRequest.host.arch \in ArchSet
         /\ targetRequest.types \in Seq(TargetItems) /\ targetRequest.target \in Seq(TargetItems)
         /\ \A t \in ToSet(targetRequest.types) : t.arch = Unspecified
BY TargetsAssumption DEF CurrentArch, GivenArchs, ArchSet

LEMMA CommonIs ==
  ASSUME targetRequest \in TargetRequests, NEW c \in BOOLEAN
  PROVE  /\ CommonArch(c) \in Seq(ArchSet) /\ IsInjective(CommonArch(c))
         /\ ToSet(CommonArch(c)) = IF GivenArchs = {} /\ c THEN {CurrentArch} ELSE GivenArchs
<1> DEFINE s == IF targetRequest.mac THEN <<"x64">> ELSE AllArchs
           F == targetRequest.flags
           one == <<"x64">>
           now == <<CurrentArch>>
           kept == Filtered(s, F)
<1>1. Enumerates(one, {"x64"}) /\ Enumerates(now, {CurrentArch})
  BY OneOrNone
<1>2. "x64" \in ArchSet /\ CurrentArch \in ArchSet /\ one \in Seq(ArchSet) /\ now \in Seq(ArchSet)
  <2>1. "x64" \in ArchSet /\ CurrentArch \in ArchSet
    BY RequestTyped
  <2> QED
    BY <2>1
<1>3. AllArchs \in Seq(ArchSet) /\ IsInjective(AllArchs) /\ ToSet(AllArchs) = ArchSet /\ F \subseteq ArchSet
  BY TargetsAssumption DEF ArchSet
<1>4. s = IF targetRequest.mac THEN one ELSE AllArchs
  OBVIOUS
<1>5. CommonArch(c) = IF kept = <<>> /\ c THEN now ELSE kept
  BY DEF CommonArch
<1> HIDE DEF one, now, s
<1>6. s \in Seq(ArchSet) /\ IsInjective(s) /\ ToSet(s) \cap F = GivenArchs
  BY <1>1, <1>2, <1>3, <1>4 DEF Enumerates, GivenArchs
<1>7. KeptIn(s, ArchSet, F, kept)
  BY <1>6, KeptIs
<1> HIDE DEF kept
<1>8. kept \in Seq(ArchSet) /\ IsInjective(kept) /\ ToSet(kept) = GivenArchs
  BY <1>6, <1>7 DEF KeptIn
<1>9. kept = <<>> <=> GivenArchs = {}
  BY <1>8, NoElements
<1> QED
  BY <1>1, <1>2, <1>5, <1>8, <1>9 DEF Enumerates

LEMMA RawIs ==
  ASSUME targetRequest \in TargetRequests
  PROVE  /\ RawArchs \in Seq(ArchSet)
         /\ ToSet(RawArchs) = IF GivenArchs = {} THEN {CurrentArch} ELSE GivenArchs
         /\ GivenArchs = {} => RawArchs[1] = CurrentArch
<1> DEFINE c == targetRequest.dir
           archs == CommonArch(c)
           now == <<CurrentArch>>
<1>1. RawArchs = IF archs # <<>> THEN archs ELSE now
  BY DEF RawArchs
<1>2. c \in BOOLEAN
  BY TargetsAssumption
<1> HIDE DEF c
<1>3. /\ archs \in Seq(ArchSet)
      /\ ToSet(archs) = IF GivenArchs = {} /\ c THEN {CurrentArch} ELSE GivenArchs
  BY <1>2, CommonIs
<1>4. Enumerates(now, {CurrentArch}) /\ now[1] = CurrentArch
  BY OneOrNone
<1>5. now \in Seq(ArchSet)
  <2>1. CurrentArch \in ArchSet
    BY RequestTyped
  <2> QED
    BY <2>1
<1> HIDE DEF archs, now
<1>6. archs = <<>> <=> ToSet(archs) = {}
  BY <1>3, NoElements
<1>7. ASSUME GivenArchs = {} PROVE RawArchs[1] = CurrentArch
  <2>1. CASE archs = <<>>
    BY <1>1, <1>4, <2>1
  <2>2. CASE archs # <<>>
    <3>1. ToSet(archs) = {CurrentArch}
      BY <1>3, <1>6, <1>7, <2>2
    <3>2. 1 \in DOMAIN archs
      BY <1>3, <2>2, EmptySeq
    <3>3. archs[1] \in ToSet(archs)
      BY <3>2 DEF ToSet
    <3> QED
      BY <1>1, <2>2, <3>1, <3>3
  <2> QED
    BY <2>1, <2>2
<1> QED
  BY <1>1, <1>3, <1>4, <1>5, <1>6, <1>7 DEF Enumerates

\* The architectures one target is for; U are those of a target that names none.
ArchsFor(t, U) ==
    IF OwnArchs(t) # {} THEN OwnArchs(t) ELSE IF t.arch = <<>> THEN {} ELSE U
Wanted(ts, k, b, U) == {ts[i].name : i \in {i \in 1..k : b \in ArchsFor(ts[i], U)}}
ForSome(ts, k, U) == UNION {ArchsFor(ts[i], U) : i \in 1..k}

\* A map with the names of the first k targets of a list.
Filled(m, ts, k, base, U) ==
    /\ ArchsIn(m) = base \union ForSome(ts, k, U)
    /\ \A b \in ArchSet : NamesFor(m, b) = Wanted(ts, k, b, U)

\* What the k-th target of the list adds.
Fills(m, ts, k, base, U, r) ==
    /\ WellFormed(r) /\ ArchsIn(r) = base \union ForSome(ts, k, U)
    /\ \A S : Share(m, S) /\ (S \subseteq ArchsFor(ts[k], U) \/ ArchsFor(ts[k], U) = {})
              /\ Filled(m, ts, k - 1, base, U) => Share(r, S) /\ Filled(r, ts, k, base, U)

LEMMA FillsOne ==
  ASSUME NEW m, WellFormed(m), NEW ts \in Seq(TargetItems), NEW k \in 1..Len(ts), NEW base, NEW U,
         ArchsIn(m) = base \union ForSome(ts, k - 1, U),
         NEW archs \in Seq(ArchSet), ToSet(archs) = ArchsFor(ts[k], U), NEW r,
         r = AddForEach(m, archs, ts[k].name)
  PROVE  Fills(m, ts, k, base, U, r)
<1> DEFINE t == ts[k]
           D == ToSet(archs)
           name == t.name
<1>0. t \in TargetItems
  OBVIOUS
<1>1. name \in KnownTargets
  BY <1>0 DEF TargetItems
<1>2. D \in SUBSET ArchSet
  <2>1. DOMAIN archs = 1..Len(archs) /\ \A i \in 1..Len(archs) : archs[i] \in ArchSet
    OBVIOUS
  <2> QED
    BY <2>1 DEF ToSet
<1>3. Added(m, D, name, r)
  BY <1>1, AddsForEach
<1>4. k \in Nat /\ 1..k = (1..(k - 1)) \union {k} /\ k \notin 1..(k - 1)
  OBVIOUS
<1>5. ForSome(ts, k, U) = ForSome(ts, k - 1, U) \union D
  BY <1>4 DEF ForSome
<1>6. WellFormed(r) /\ ArchsIn(r) = base \union ForSome(ts, k, U)
  BY <1>3, <1>5 DEF Added
<1>7. ASSUME NEW b \in ArchSet PROVE Wanted(ts, k, b, U) = Wanted(ts, k - 1, b, U) \union (IF b \in D THEN {name} ELSE {})
  <2> DEFINE I(j) == {i \in 1..j : b \in ArchsFor(ts[i], U)}
  <2>1. I(k) = I(k - 1) \union (IF b \in D THEN {k} ELSE {})
    BY <1>4
  <2>2. Wanted(ts, k, b, U) = {ts[i].name : i \in I(k)} /\ Wanted(ts, k - 1, b, U) = {ts[i].name : i \in I(k - 1)}
    BY DEF Wanted
  <2> HIDE DEF I
  <2> QED
    BY <2>1, <2>2
<1> HIDE DEF D
<1>8. ASSUME NEW S, Share(m, S), S \subseteq D \/ D = {}, Filled(m, ts, k - 1, base, U)
      PROVE  Share(r, S) /\ Filled(r, ts, k, base, U)
  <2>1. Share(r, S)
    BY <1>3, <1>8 DEF Added
  <2>2. ASSUME NEW b \in ArchSet PROVE NamesFor(r, b) = Wanted(ts, k, b, U)
    <3>1. NamesFor(r, b) = NamesFor(m, b) \union (IF b \in D THEN {name} ELSE {})
      BY <1>2, <1>3, <1>8, NamesAdded
    <3>2. NamesFor(m, b) = Wanted(ts, k - 1, b, U)
      BY <1>8 DEF Filled
    <3> QED
      BY <1>7, <3>1, <3>2
  <2> QED
    BY <1>6, <2>1, <2>2 DEF Filled
<1> QED
  BY <1>6, <1>8 DEF D, Fills

\* What normalizing makes of one name.
Expanded(x) == IF LowerCase[x] = "default" THEN ToSet(DefaultTargets) ELSE {LowerCase[x]}

\* No name stands for several targets, and no two for one.
OneSpelling(N) ==
    /\ \A x \in N : LowerCase[x] # "default"
    /\ \A x, y \in N : LowerCase[x] = LowerCase[y] => x = y

LEMMA NormalizedIs ==
  ASSUME NEW names \in Seq(KnownTargets)
  PROVE  /\ Normalized(names) \in Seq(KnownTargets)
         /\ ToSet(Normalized(names)) = UNION {Expanded(x) : x \in ToSet(names)}
         /\ IsInjective(names) /\ OneSpelling(ToSet(names)) => IsInjective(Normalized(names))
<1> DEFINE n == Len(names)
           low(i) == LowerCase[names[i]]
           seqs == [i \in DOMAIN names |-> IF low(i) = "default" THEN DefaultTargets ELSE <<low(i)>>]
<1>1. n \in Nat /\ DOMAIN names = 1..n /\ (\A i \in 1..n : names[i] \in KnownTargets)
      /\ ToSet(names) = {names[i] : i \in 1..n}
  BY ElementsAre
<1>2. DefaultTargets \in Seq(KnownTargets) /\ \A i \in 1..n : low(i) \in KnownTargets
  BY <1>1, TargetsAssumption
<1>3. seqs \in Seq(Seq(KnownTargets)) /\ Len(seqs) = n /\ DOMAIN seqs = 1..n
  <2>1. \A i \in 1..n : <<low(i)>> \in Seq(KnownTargets)
    BY <1>2
  <2>2. seqs \in [1..n -> Seq(KnownTargets)]
    BY <1>1, <1>2, <2>1
  <2> QED
    BY <1>1, <2>2, SeqDef
<1>4. \A i \in 1..n : seqs[i] = IF low(i) = "default" THEN DefaultTargets ELSE <<low(i)>>
  BY <1>1
<1>5. Normalized(names) = FlattenSeq(seqs)
  BY DEF Normalized
<1> HIDE DEF n, seqs
<1>6. \A i \in 1..n : low(i) # "default" => Enumerates(seqs[i], {low(i)})
  BY <1>4, OneOrNone
<1>7. \A i \in 1..n : ToSet(seqs[i]) = Expanded(names[i])
  BY <1>4, <1>6 DEF Expanded, Enumerates
<1>8. FlattenSeq(seqs) \in Seq(KnownTargets) /\ ToSet(FlattenSeq(seqs)) = UNION {ToSet(seqs[i]) : i \in 1..n}
  BY <1>3, FlattenElements DEF ElementsJoin
<1>9. ToSet(FlattenSeq(seqs)) = UNION {Expanded(x) : x \in ToSet(names)}
  BY <1>1, <1>7, <1>8
<1>10. ASSUME IsInjective(names), OneSpelling(ToSet(names)) PROVE IsInjective(FlattenSeq(seqs))
  <2>1. \A i \in 1..n : low(i) # "default"
    BY <1>1, <1>10 DEF OneSpelling
  <2>2. \A i \in 1..n : ToSet(seqs[i]) = {low(i)} /\ IsInjective(seqs[i])
    BY <1>6, <2>1 DEF Enumerates
  <2>3. ASSUME NEW i \in 1..n, NEW j \in 1..n, i # j PROVE low(i) # low(j)
    <3>1. names[i] # names[j]
      BY <1>1, <1>10, <2>3 DEF IsInjective
    <3>2. names[i] \in ToSet(names) /\ names[j] \in ToSet(names)
      BY <1>1
    <3> QED
      BY <1>10, <3>1, <3>2 DEF OneSpelling
  <2> HIDE DEF low
  <2>4. ASSUME NEW i \in 1..n, NEW j \in 1..n, i # j PROVE ToSet(seqs[i]) \cap ToSet(seqs[j]) = {}
    <3>1. ToSet(seqs[i]) = {low(i)} /\ ToSet(seqs[j]) = {low(j)} /\ low(i) # low(j)
      BY <2>2, <2>3, <2>4
    <3> QED
      BY <3>1
  <2>5. Disjoint(seqs)
    BY <1>3, <2>2, <2>4 DEF Disjoint
  <2> QED
    BY <1>3, <2>5, FlattenInjective
<1> QED
  BY <1>5, <1>8, <1>9, <1>10

-----------------------------------------------------------------------------
\* The targets of one entry of a map, and of the first k.
Chosen(m, i) ==
    IF m.arrays[m.map[i].array] = <<>> THEN DefaultTargets ELSE m.arrays[m.map[i].array]
ForEntry(m, i) == {m.map[i].arch} \X (ToSet(Normalized(Chosen(m, i))) \ {"dir"})
Plan(m, k) == UNION {ForEntry(m, i) : i \in 1..k}

\* The targets for an architecture some names are given for.
Outcome(N) == IF N = {} THEN ToSet(DefaultTargets) ELSE UNION {Expanded(x) : x \in N}

LEMMA ChosenIs ==
  ASSUME NEW m, WellFormed(m), NEW i \in 1..Len(m.map)
  PROVE  /\ Chosen(m, i) \in Seq(KnownTargets) /\ IsInjective(Chosen(m, i))
         /\ Normalized(Chosen(m, i)) \in Seq(KnownTargets)
         /\ ToSet(Normalized(Chosen(m, i))) = Outcome(NamesAt(m, i))
         /\ OneSpelling(NamesAt(m, i)) => IsInjective(Normalized(Chosen(m, i)))
         /\ m.map[i].arch \in ArchSet
<1> DEFINE a == m.map[i].array
           names == m.arrays[a]
           c == Chosen(m, i)
<1>1. a \in 1..Len(m.arrays) /\ m.arrays \in Seq(Seq(KnownTargets)) /\ m.map \in Seq(Entries)
  BY DEF WellFormed, Maps
<1>2. names \in Seq(KnownTargets) /\ IsInjective(names) /\ m.map[i] \in Entries
  BY <1>1 DEF WellFormed
<1>3. m.map[i].arch \in ArchSet
  BY <1>2 DEF Entries
<1>4. c = IF names = <<>> THEN DefaultTargets ELSE names
  BY DEF Chosen
<1>5. NamesAt(m, i) = ToSet(names)
  BY DEF NamesAt
<1>6. /\ DefaultTargets \in Seq(KnownTargets) /\ IsInjective(DefaultTargets)
      /\ \A x \in ToSet(DefaultTargets) : LowerCase[x] = x /\ x # "default"
  BY TargetsAssumption
<1> HIDE DEF names, c
<1>7. c \in Seq(KnownTargets) /\ IsInjective(c)
  BY <1>2, <1>4, <1>6
<1>8. names = <<>> <=> NamesAt(m, i) = {}
  BY <1>2, <1>5, NoElements
<1>9. /\ Normalized(c) \in Seq(KnownTargets)
      /\ ToSet(Normalized(c)) = UNION {Expanded(x) : x \in ToSet(c)}
      /\ IsInjective(c) /\ OneSpelling(ToSet(c)) => IsInjective(Normalized(c))
  BY <1>7, NormalizedIs
<1>10. ToSet(Normalized(c)) = Outcome(NamesAt(m, i))
  <2>1. CASE names = <<>>
    <3>1. ToSet(c) = ToSet(DefaultTargets) /\ \A x \in ToSet(c) : Expanded(x) = {x}
      BY <1>4, <1>6, <2>1 DEF Expanded
    <3>2. UNION {Expanded(x) : x \in ToSet(c)} = ToSet(DefaultTargets)
      BY <3>1
    <3> QED
      BY <1>8, <1>9, <2>1, <3>2 DEF Outcome
  <2>2. CASE names # <<>>
    BY <1>4, <1>5, <1>8, <1>9, <2>2 DEF Outcome
  <2> QED
    BY <2>1, <2>2
<1>11. OneSpelling(NamesAt(m, i)) => OneSpelling(ToSet(c))
  <2>1. OneSpelling(ToSet(DefaultTargets))
    BY <1>6 DEF OneSpelling
  <2> QED
    BY <1>4, <1>5, <2>1
<1> QED
  BY <1>3, <1>7, <1>9, <1>10, <1>11 DEF c

LEMMA PlanIs ==
  ASSUME NEW m, WellFormed(m)
  PROVE  Plan(m, Len(m.map)) = UNION {{a} \X (Outcome(NamesFor(m, a)) \ {"dir"}) : a \in ArchsIn(m)}
<1>1. \A i \in 1..Len(m.map) :
          ForEntry(m, i) = {m.map[i].arch} \X (Outcome(NamesFor(m, m.map[i].arch)) \ {"dir"})
  BY ChosenIs, NamesAre DEF ForEntry
<1>2. ArchsIn(m) = {m.map[i].arch : i \in 1..Len(m.map)}
  BY DEF ArchsIn
<1> DEFINE W(a) == {a} \X (Outcome(NamesFor(m, a)) \ {"dir"})
<1>3. \A i \in 1..Len(m.map) : ForEntry(m, i) = W(m.map[i].arch)
  BY <1>1
<1> HIDE DEF W
<1>4. UNION {ForEntry(m, i) : i \in 1..Len(m.map)} = UNION {W(a) : a \in ArchsIn(m)}
  BY <1>2, <1>3
<1> QED
  BY <1>4 DEF Plan, W

\* What a list of targets wants.
Proper(ts) == {t \in ToSet(ts) : t.arch # <<>>}
WantedPairs(G, U) == UNION {ArchsFor(t, U) \X Expanded(t.name) : t \in G}

LEMMA WantedIs ==
  ASSUME NEW ts \in Seq(TargetItems), NEW U
  PROVE  /\ ForSome(ts, Len(ts), U) = UNION {ArchsFor(t, U) : t \in Proper(ts)}
         /\ \A b : Wanted(ts, Len(ts), b, U) = {t.name : t \in {t \in Proper(ts) : b \in ArchsFor(t, U)}}
<1> DEFINE n == Len(ts)
<1>1. ToSet(ts) = {ts[i] : i \in 1..n}
  BY ElementsAre
<1>2. ASSUME NEW t, t.arch = <<>> PROVE ArchsFor(t, U) = {}
  <2>1. OwnArchs(t) = {}
    <3>1. t.arch # Unspecified /\ ToSet(<<>>) = {}
      BY <1>2, TargetsAssumption, OneOrNone DEF Enumerates
    <3> QED
      BY <1>2, <3>1 DEF OwnArchs
  <2> QED
    BY <1>2, <2>1 DEF ArchsFor
<1> HIDE DEF n
<1> DEFINE A(t) == ArchsFor(t, U)
<1>3. \A t : A(t) # {} => t.arch # <<>>
  BY <1>2
<1>4. ForSome(ts, n, U) = UNION {A(ts[i]) : i \in 1..n} /\ \A b : Wanted(ts, n, b, U) = {ts[i].name : i \in {i \in 1..n : b \in A(ts[i])}}
  BY DEF ForSome, Wanted
<1> HIDE DEF A
<1>5. UNION {A(ts[i]) : i \in 1..n} = UNION {A(t) : t \in Proper(ts)}
  BY <1>1, <1>3 DEF Proper
<1>6. ASSUME NEW b PROVE {ts[i].name : i \in {i \in 1..n : b \in A(ts[i])}} = {t.name : t \in {t \in Proper(ts) : b \in A(t)}}
  BY <1>1, <1>3 DEF Proper
<1>7. ForSome(ts, n, U) = UNION {A(t) : t \in Proper(ts)}
      /\ \A b : Wanted(ts, n, b, U) = {t.name : t \in {t \in Proper(ts) : b \in A(t)}}
  BY <1>4, <1>5, <1>6
<1> QED
  BY <1>7 DEF A, n

\* A map with the targets of G, for the architectures of base at least.
Holds(m, G, U, base) ==
    /\ ArchsIn(m) = base \union UNION {ArchsFor(t, U) : t \in G}
    /\ \A b \in ArchSet : NamesFor(m, b) = {t.name : t \in {t \in G : b \in ArchsFor(t, U)}}

LEMMA PlanOfGiven ==
  ASSUME NEW m, WellFormed(m), NEW G, NEW U, NEW base, Holds(m, G, U, base)
  PROVE  Plan(m, Len(m.map)) =
             Pairs(WantedPairs(G, U)
                     \union ((base \ {p[1] : p \in WantedPairs(G, U)}) \X ToSet(DefaultTargets)))
<1> DEFINE A(t) == ArchsFor(t, U)
           N == WantedPairs(G, U)
           D == ToSet(DefaultTargets)
           R == (base \ {p[1] : p \in N}) \X D
           Made == Plan(m, Len(m.map))
           I == ArchsIn(m)
           names(a) == {t.name : t \in {t \in G : a \in A(t)}}
<1>1. I \subseteq ArchSet
  <2>1. \A i \in 1..Len(m.map) : m.map[i].arch \in ArchSet
    BY ChosenIs
  <2> QED
    BY <2>1 DEF ArchsIn
<1>2. Made = UNION {{a} \X (Outcome(NamesFor(m, a)) \ {"dir"}) : a \in I}
  BY PlanIs
<1>3. \A a \in I : NamesFor(m, a) = names(a)
  BY <1>1 DEF Holds
<1>4. N = UNION {A(t) \X Expanded(t.name) : t \in G} /\ I = base \union UNION {A(t) : t \in G}
  BY DEF WantedPairs, Holds
<1> HIDE DEF A, N, D, R, Made, I
<1>5. \A a \in I : \A e : e \in Outcome(NamesFor(m, a)) <=>
          \/ \E t \in G : a \in A(t) /\ e \in Expanded(t.name)
          \/ e \in D /\ ~\E t \in G : a \in A(t)
  <2> SUFFICES ASSUME NEW a \in I, NEW e
               PROVE  e \in Outcome(names(a)) <=>
                        \/ \E t \in G : a \in A(t) /\ e \in Expanded(t.name)
                        \/ e \in D /\ ~\E t \in G : a \in A(t)
    BY <1>3
  <2>1. CASE \E t \in G : a \in A(t)
    <3>1. names(a) # {}
      BY <2>1
    <3>2. Outcome(names(a)) = UNION {Expanded(x) : x \in names(a)}
      BY <3>1 DEF Outcome
    <3> QED
      BY <2>1, <3>2
  <2>2. CASE ~\E t \in G : a \in A(t)
    <3>1. names(a) = {}
      BY <2>2
    <3>2. Outcome(names(a)) = D
      BY <3>1 DEF Outcome, D
    <3> QED
      BY <2>2, <3>2
  <2> QED
    BY <2>1, <2>2
<1>6. ASSUME NEW a, NEW e PROVE <<a, e>> \in Made <=> a \in I /\ e \in Outcome(NamesFor(m, a)) /\ e # "dir"
  BY <1>2
<1>7. ASSUME NEW a, NEW e PROVE <<a, e>> \in N <=> \E t \in G : a \in A(t) /\ e \in Expanded(t.name)
  BY <1>4
<1>8. ASSUME NEW a PROVE a \in {p[1] : p \in N} <=> \E t \in G : a \in A(t) /\ Expanded(t.name) # {}
  <2>1. ASSUME a \in {p[1] : p \in N} PROVE \E t \in G : a \in A(t) /\ Expanded(t.name) # {}
    <3>1. PICK p \in N : a = p[1]
      BY <2>1
    <3>2. PICK t \in G : p \in A(t) \X Expanded(t.name)
      BY <1>4
    <3>3. a \in A(t) /\ p[2] \in Expanded(t.name)
      BY <3>1, <3>2
    <3> QED
      BY <3>3
  <2>2. ASSUME NEW t \in G, a \in A(t), Expanded(t.name) # {} PROVE a \in {p[1] : p \in N}
    <3>1. PICK e : e \in Expanded(t.name)
      BY <2>2
    <3>2. <<a, e>> \in N
      BY <1>7, <2>2, <3>1
    <3>3. <<a, e>>[1] = a
      OBVIOUS
    <3> QED
      BY <3>2, <3>3
  <2> QED
    BY <2>1, <2>2
<1>9. ASSUME NEW x \in G, Expanded(x.name) = {} PROVE D = {}
  BY <1>9 DEF Expanded, D
<1>10. ASSUME NEW a, NEW e
       PROVE  <<a, e>> \in R <=> a \in base /\ e \in D /\ ~\E t \in G : a \in A(t)
  <2>1. <<a, e>> \in R <=> a \in base /\ e \in D /\ a \notin {p[1] : p \in N}
    BY DEF R
  <2>2. <<a, e>> \in R <=> a \in base /\ e \in D /\ ~\E t \in G : a \in A(t) /\ Expanded(t.name) # {}
    BY <1>8, <2>1
  <2>3. e \in D => \A t \in G : Expanded(t.name) # {}
    BY <1>9
  <2> QED
    BY <2>2, <2>3
<1>11. ASSUME NEW a, NEW e PROVE <<a, e>> \in Made <=> <<a, e>> \in N \union R /\ e # "dir"
  BY <1>4, <1>5, <1>6, <1>7, <1>10
<1>12. /\ \A p \in Made : p = <<p[1], p[2]>>
       /\ \A p \in N \union R : p = <<p[1], p[2]>>
  BY <1>2, <1>4 DEF R
<1>13. Pairs(N \union R) = {p \in N \union R : p[2] # "dir"}
  BY DEF Pairs
<1>14. Made = Pairs(N \union R)
  <2>1. ASSUME NEW p \in Made PROVE p \in Pairs(N \union R)
    <3>1. p = <<p[1], p[2]>>
      BY <1>12
    <3>2. <<p[1], p[2]>> \in N \union R /\ p[2] # "dir"
      BY <1>11, <3>1
    <3> QED
      BY <1>13, <3>1, <3>2
  <2>2. ASSUME NEW p \in Pairs(N \union R) PROVE p \in Made
    <3>1. p \in N \union R /\ p[2] # "dir"
      BY <1>13
    <3>2. p = <<p[1], p[2]>>
      BY <1>12, <3>1
    <3>3. <<p[1], p[2]>> \in N \union R
      BY <3>1, <3>2
    <3>4. <<p[1], p[2]>> \in Made
      BY <1>11, <3>1, <3>3
    <3> QED
      BY <3>2, <3>4
  <2> QED
    BY <2>1, <2>2
<1> QED
  BY <1>14 DEF Made, N, R, D

-----------------------------------------------------------------------------
\* What was asked for.
GivenList == IF targetRequest.types # <<>> THEN targetRequest.types ELSE targetRequest.target

LEMMA NamedIs ==
  ASSUME targetRequest \in TargetRequests
  PROVE  /\ GivenList \in Seq(TargetItems) /\ Given = Proper(GivenList)
         /\ Named = WantedPairs(Given, UsualArchs)
         /\ UsualArchs \in SUBSET ArchSet /\ UsualArchs # {}
<1>1. GivenList \in Seq(TargetItems)
  BY RequestTyped DEF GivenList
<1>2. Given = Proper(GivenList)
  BY DEF Given, Proper, GivenList
<1>3. Given \subseteq TargetItems
  BY <1>1, <1>2, ElementsAre DEF Proper
<1>4. ASSUME NEW t \in Given
      PROVE  /\ ArchsFor(t, UsualArchs) = IF OwnArchs(t) = {} THEN UsualArchs ELSE OwnArchs(t)
             /\ ToSet(Normalized(<<t.name>>)) = Expanded(t.name)
  <2>1. t.arch # <<>> /\ t.name \in KnownTargets
    BY <1>2, <1>3 DEF Proper, TargetItems
  <2> DEFINE one == <<t.name>>
  <2>2. one \in Seq(KnownTargets) /\ ToSet(one) = {t.name}
    BY <2>1, OneOrNone DEF Enumerates
  <2> HIDE DEF one
  <2>3. ToSet(Normalized(one)) = UNION {Expanded(x) : x \in {t.name}}
    BY <2>2, NormalizedIs
  <2>4. ToSet(Normalized(one)) = Expanded(t.name)
    BY <2>3
  <2> QED
    BY <2>1, <2>4 DEF ArchsFor, one
<1>5. Named = WantedPairs(Given, UsualArchs)
  <2> DEFINE U == UsualArchs
             W(t) == (IF OwnArchs(t) = {} THEN UsualArchs ELSE OwnArchs(t)) \X ToSet(Normalized(<<t.name>>))
             V(t) == ArchsFor(t, U) \X Expanded(t.name)
  <2>1. \A t \in Given : W(t) = V(t)
    BY <1>4
  <2>2. Named = UNION {W(t) : t \in Given} /\ WantedPairs(Given, U) = UNION {V(t) : t \in Given}
    BY DEF Named, WantedPairs
  <2> HIDE DEF W, V
  <2> QED
    BY <2>1, <2>2
<1>6. UsualArchs \in SUBSET ArchSet /\ UsualArchs # {}
  BY RequestTyped DEF UsualArchs
<1> QED
  BY <1>1, <1>2, <1>5, <1>6

LEMMA PlanFromTypes ==
  ASSUME targetRequest \in TargetRequests, targetRequest.types # <<>>, NEW m, WellFormed(m),
         Filled(m, targetRequest.types, Len(targetRequest.types), {}, UsualArchs)
  PROVE  Plan(m, Len(m.map)) = Pairs(Asked)
<1> DEFINE ts == targetRequest.types
           U == UsualArchs
           G == Given
<1>1. ts \in Seq(TargetItems) /\ G = Proper(ts) /\ Named = WantedPairs(G, U)
  BY NamedIs DEF GivenList
<1> HIDE DEF ts, U, G
<1>2. /\ ForSome(ts, Len(ts), U) = UNION {ArchsFor(t, U) : t \in G}
      /\ \A b : Wanted(ts, Len(ts), b, U) = {t.name : t \in {t \in G : b \in ArchsFor(t, U)}}
  BY <1>1, WantedIs
<1> DEFINE none == {}
<1>3. Holds(m, G, U, none)
  BY <1>2 DEF Holds, Filled, ts, U
<1>4. none = {}
  OBVIOUS
<1> HIDE DEF none
<1>5. Plan(m, Len(m.map)) = Pairs(WantedPairs(G, U)
          \union ((none \ {p[1] : p \in WantedPairs(G, U)}) \X ToSet(DefaultTargets)))
  BY <1>3, PlanOfGiven
<1>6. Asked = Named
  BY DEF Asked
<1> QED
  BY <1>1, <1>4, <1>5, <1>6

LEMMA PlanFromTarget ==
  ASSUME targetRequest \in TargetRequests, targetRequest.types = <<>>, ~targetRequest.dir,
         NEW m, WellFormed(m), ArchsIn(m) # {},
         Filled(m, targetRequest.target, Len(targetRequest.target), GivenArchs, UsualArchs)
  PROVE  Plan(m, Len(m.map)) = Pairs(Asked)
<1> DEFINE ts == targetRequest.target
           U == UsualArchs
           G == Given
           base == GivenArchs
<1>1. ts \in Seq(TargetItems) /\ G = Proper(ts) /\ Named = WantedPairs(G, U)
  BY NamedIs DEF GivenList
<1>0. base # {} => U = base
  BY DEF UsualArchs
<1>6. Asked = Named \union ByDefault
  BY DEF Asked
<1>7. ByDefault = ((IF G = {} THEN U ELSE base) \ {p[1] : p \in Named}) \X ToSet(DefaultTargets)
  BY DEF ByDefault
<1> HIDE DEF ts, U, G, base
<1>2. /\ ForSome(ts, Len(ts), U) = UNION {ArchsFor(t, U) : t \in G}
      /\ \A b : Wanted(ts, Len(ts), b, U) = {t.name : t \in {t \in G : b \in ArchsFor(t, U)}}
  BY <1>1, WantedIs
<1>3. Holds(m, G, U, base)
  BY <1>2 DEF Holds, Filled, ts, U, base
<1>5. Plan(m, Len(m.map)) = Pairs(WantedPairs(G, U)
          \union ((base \ {p[1] : p \in WantedPairs(G, U)}) \X ToSet(DefaultTargets)))
  BY <1>3, PlanOfGiven
<1>8. G = {} => base # {}
  BY <1>3 DEF Holds
<1>9. (IF G = {} THEN U ELSE base) = base
  BY <1>0, <1>8
<1> QED
  BY <1>1, <1>5, <1>6, <1>7, <1>9

\* A map whose architectures have one array.
OneArray(archs, names) ==
    [map |-> [i \in DOMAIN archs |-> [arch |-> archs[i], array |-> 1]], arrays |-> <<names>>]

LEMMA OneArrayIs ==
  ASSUME NEW archs \in Seq(ArchSet), IsInjective(archs),
         NEW names \in Seq(KnownTargets), IsInjective(names)
  PROVE  /\ WellFormed(OneArray(archs, names)) /\ ArchsIn(OneArray(archs, names)) = ToSet(archs)
         /\ Len(OneArray(archs, names).map) = Len(archs)
         /\ Share(OneArray(archs, names), ToSet(archs))
         /\ \A b \in ToSet(archs) : NamesFor(OneArray(archs, names), b) = ToSet(names)
<1> DEFINE n == Len(archs)
           map == [i \in DOMAIN archs |-> [arch |-> archs[i], array |-> 1]]
           arrs == <<names>>
           m == OneArray(archs, names)
<1>1. /\ n \in Nat /\ DOMAIN archs = 1..n /\ ToSet(archs) = {archs[i] : i \in 1..n}
      /\ \A i \in 1..n : archs[i] \in ArchSet
  BY ElementsAre
<1>2. \A i, j \in 1..n : archs[i] = archs[j] => i = j
  BY <1>1 DEF IsInjective
<1> HIDE DEF n
<1>3. \A i \in 1..n : [arch |-> archs[i], array |-> 1] \in Entries
  BY <1>1 DEF Entries
<1>4. map \in [1..n -> Entries]
  BY <1>1, <1>3
<1>5. map \in Seq(Entries) /\ Len(map) = n
  BY <1>1, <1>4, SeqDef
<1>6. \A i \in 1..n : map[i].arch = archs[i] /\ map[i].array = 1
  BY <1>1
<1>7. arrs \in Seq(Seq(KnownTargets)) /\ Len(arrs) = 1 /\ arrs[1] = names
  OBVIOUS
<1>8. m = [map |-> map, arrays |-> arrs]
  BY DEF OneArray
<1> HIDE DEF map, arrs, m
<1>9. m.map = map /\ m.arrays = arrs /\ m \in Maps
  BY <1>5, <1>7, <1>8 DEF Maps
<1>10. WellFormed(m)
  <2>1. \A k \in 1..1 : k = 1
    OBVIOUS
  <2>2. \A k \in 1..Len(arrs) : IsInjective(arrs[k])
    BY <1>7, <2>1
  <2>3. \A i \in 1..n : map[i].array \in 1..Len(arrs)
    BY <1>6, <1>7
  <2>4. \A i, j \in 1..n : map[i].arch = map[j].arch => i = j
    BY <1>2, <1>6
  <2> QED
    BY <1>5, <1>9, <2>2, <2>3, <2>4 DEF WellFormed
<1>11. ArchsIn(m) = ToSet(archs)
  BY <1>1, <1>5, <1>6, <1>9 DEF ArchsIn
<1>12. Share(m, ToSet(archs))
  BY <1>1, <1>5, <1>6, <1>9 DEF Share
<1>13. ASSUME NEW b \in ToSet(archs) PROVE NamesFor(m, b) = ToSet(names)
  <2>1. PICK i \in 1..n : b = archs[i]
    BY <1>1
  <2>2. i \in 1..Len(m.map) /\ m.map[i].arch = b
    BY <1>5, <1>6, <1>9, <2>1
  <2>3. NamesFor(m, b) = NamesAt(m, i)
    BY <1>10, <2>2, NamesAre
  <2>4. NamesAt(m, i) = ToSet(names)
    BY <1>6, <1>7, <1>9, <2>1 DEF NamesAt
  <2> QED
    BY <2>3, <2>4
<1> QED
  BY <1>5, <1>9, <1>10, <1>11, <1>12, <1>13 DEF m, n

LEMMA ShareNone ==
  ASSUME NEW m, WellFormed(m), NEW S, Share(m, S), \A x, y \in S : x = y
  PROVE  Share(m, {})
<1> SUFFICES ASSUME NEW i \in 1..Len(m.map), NEW j \in 1..Len(m.map), m.map[i].array = m.map[j].array, i # j
             PROVE  FALSE
  BY DEF Share
<1>1. m.map[i].arch \in S /\ m.map[j].arch \in S
  BY DEF Share
<1>2. m.map[i].arch = m.map[j].arch
  BY <1>1
<1> QED
  BY <1>2 DEF WellFormed

LEMMA UsualIs ==
  ASSUME targetRequest \in TargetRequests, Given # {}
  PROVE  UsualArchs = IF GivenArchs = {} THEN {CurrentArch} ELSE GivenArchs
BY DEF UsualArchs, CurrentArch

LEMMA TypeArchs ==
  ASSUME targetRequest \in TargetRequests, NEW t \in ToSet(targetRequest.types),
         NEW archs, archs = IF t.suffix # Unspecified THEN <<t.suffix>> ELSE CommonArch(TRUE)
  PROVE  archs \in Seq(ArchSet) /\ ToSet(archs) = ArchsFor(t, UsualArchs) /\ ArchsFor(t, UsualArchs) # {}
<1>1. targetRequest.types \in Seq(TargetItems) /\ t.arch = Unspecified
  BY RequestTyped
<1>2. t \in TargetItems /\ targetRequest.types # <<>>
  BY <1>1, ElementsAre, NoElements
<1>3. t.suffix \in ArchSet \union {Unspecified} /\ Unspecified # <<>>
  BY <1>2, TargetsAssumption DEF TargetItems, ArchSet
<1>4. OwnArchs(t) = {t.suffix} \ {Unspecified}
  BY <1>1 DEF OwnArchs
<1>5. CASE t.suffix # Unspecified
  <2>1. archs = <<t.suffix>> /\ t.suffix \in ArchSet
    BY <1>3, <1>5
  <2> DEFINE x == t.suffix
  <2>2. archs \in Seq(ArchSet) /\ ToSet(archs) = {x}
    <3> HIDE DEF x
    <3>1. archs = <<x>> /\ x \in ArchSet
      BY <2>1 DEF x
    <3>2. Enumerates(<<x>>, {x})
      BY OneOrNone
    <3>3. <<x>> \in Seq(ArchSet)
      BY <3>1
    <3>4. ToSet(<<x>>) = {x}
      BY <3>2 DEF Enumerates
    <3> QED
      BY <3>1, <3>3, <3>4, Zenon
  <2>3. ArchsFor(t, UsualArchs) = {t.suffix}
    BY <1>4, <1>5 DEF ArchsFor
  <2> QED
    BY <2>2, <2>3
<1>6. CASE t.suffix = Unspecified
  <2>1. archs = CommonArch(TRUE)
    BY <1>6
  <2> DEFINE c == TRUE
  <2>2. c \in BOOLEAN /\ c
    OBVIOUS
  <2>3. archs = CommonArch(c)
    BY <2>1
  <2> HIDE DEF c
  <2>4. archs \in Seq(ArchSet) /\ ToSet(archs) = IF GivenArchs = {} /\ c THEN {CurrentArch} ELSE GivenArchs
    BY <2>2, <2>3, CommonIs
  <2>5. ArchsFor(t, UsualArchs) = UsualArchs
    BY <1>1, <1>3, <1>4, <1>6 DEF ArchsFor
  <2>6. t \in Given
    BY <1>1, <1>2, <1>3 DEF Given
  <2>7. UsualArchs = IF GivenArchs = {} THEN {CurrentArch} ELSE GivenArchs
    BY <2>6, UsualIs
  <2>8. UsualArchs # {}
    BY NamedIs
  <2> QED
    BY <2>2, <2>4, <2>5, <2>7, <2>8
<1> QED
  BY <1>5, <1>6

LEMMA TargetArchs ==
  ASSUME targetRequest \in TargetRequests, targetRequest.types = <<>>,
         NEW t \in ToSet(targetRequest.target)
  PROVE  ForArchs(t, RawArchs) \in Seq(ArchSet) /\ ToSet(ForArchs(t, RawArchs)) = ArchsFor(t, UsualArchs)
<1> DEFINE archs == ForArchs(t, RawArchs)
<1>1. t \in TargetItems
  BY RequestTyped, ElementsAre
<1>2. /\ t.suffix \in ArchSet \union {Unspecified} /\ t.arch \in Seq(ArchSet) \union {Unspecified}
      /\ Unspecified # <<>>
  BY <1>1, TargetsAssumption DEF TargetItems, ArchSet
<1>3. archs = IF t.arch # Unspecified THEN t.arch ELSE IF t.suffix # Unspecified THEN <<t.suffix>> ELSE RawArchs
  BY DEF ForArchs
<1> HIDE DEF archs
<1>4. CASE t.arch # Unspecified
  <2>1. archs = t.arch /\ archs \in Seq(ArchSet) /\ OwnArchs(t) = ToSet(archs)
    BY <1>2, <1>3, <1>4 DEF OwnArchs
  <2>2. ToSet(archs) = {} <=> archs = <<>>
    BY <2>1, NoElements
  <2>3. ArchsFor(t, UsualArchs) = ToSet(archs)
    BY <2>1, <2>2 DEF ArchsFor
  <2> QED
    BY <2>1, <2>3 DEF archs
<1>5. CASE t.arch = Unspecified /\ t.suffix # Unspecified
  <2>1. archs = <<t.suffix>> /\ t.suffix \in ArchSet
    BY <1>2, <1>3, <1>5
  <2> DEFINE x == t.suffix
  <2>2. archs \in Seq(ArchSet) /\ ToSet(archs) = {x}
    <3> HIDE DEF x
    <3>1. archs = <<x>> /\ x \in ArchSet
      BY <2>1 DEF x
    <3>2. Enumerates(<<x>>, {x})
      BY OneOrNone
    <3>3. <<x>> \in Seq(ArchSet)
      BY <3>1
    <3>4. ToSet(<<x>>) = {x}
      BY <3>2 DEF Enumerates
    <3> QED
      BY <3>1, <3>3, <3>4, Zenon
  <2>3. OwnArchs(t) = {t.suffix}
    BY <1>5 DEF OwnArchs
  <2>4. ArchsFor(t, UsualArchs) = {t.suffix}
    BY <2>3 DEF ArchsFor
  <2> QED
    BY <2>2, <2>4 DEF archs
<1>6. CASE t.arch = Unspecified /\ t.suffix = Unspecified
  <2>1. archs = RawArchs
    BY <1>3, <1>6
  <2>2. archs \in Seq(ArchSet) /\ ToSet(archs) = IF GivenArchs = {} THEN {CurrentArch} ELSE GivenArchs
    BY <2>1, RawIs
  <2>3. OwnArchs(t) = {}
    BY <1>6 DEF OwnArchs
  <2>4. ArchsFor(t, UsualArchs) = UsualArchs
    BY <1>2, <1>6, <2>3 DEF ArchsFor
  <2>5. t \in Given
    BY <1>2, <1>6 DEF Given
  <2>6. UsualArchs = IF GivenArchs = {} THEN {CurrentArch} ELSE GivenArchs
    BY <2>5, UsualIs
  <2> QED
    BY <2>2, <2>4, <2>6 DEF archs
<1> QED
  BY <1>4, <1>5, <1>6

\* The Map of the state.
Now == [map |-> archToType, arrays |-> arrays]

LEMMA AnyNamedIs ==
  ASSUME WellFormed(Now)
  PROVE  AnyNamed <=> \E b \in ArchSet : NamesFor(Now, b) # {}
<1> DEFINE m == Now
           n == Len(archToType)
<1>1. /\ m.map = archToType /\ m.arrays = arrays /\ archToType \in Seq(Entries) /\ n \in Nat
      /\ arrays \in Seq(Seq(KnownTargets)) /\ DOMAIN archToType = 1..n
  BY DEF WellFormed, Maps, Now
<1>2. ASSUME NEW i \in 1..n
      PROVE  /\ arrays[archToType[i].array] # <<>> <=> NamesAt(m, i) # {}
             /\ NamesFor(m, archToType[i].arch) = NamesAt(m, i) /\ archToType[i].arch \in ArchSet
  <2>1. archToType[i].array \in 1..Len(arrays)
    BY <1>1 DEF WellFormed
  <2>2. arrays[archToType[i].array] \in Seq(KnownTargets)
    BY <1>1, <2>1
  <2>3. NamesAt(m, i) = ToSet(arrays[archToType[i].array])
    BY <1>1 DEF NamesAt
  <2>4. NamesFor(m, archToType[i].arch) = NamesAt(m, i) /\ archToType[i].arch \in ArchSet
    BY <1>1, NamesAre, ChosenIs
  <2> QED
    BY <2>2, <2>3, <2>4, NoElements
<1>3. ASSUME NEW b \in ArchSet, NamesFor(m, b) # {} PROVE \E i \in 1..n : NamesAt(m, i) # {}
  BY <1>1, <1>3 DEF NamesFor
<1> HIDE DEF m
<1>4. AnyNamed <=> \E i \in 1..n : arrays[archToType[i].array] # <<>>
  BY <1>1 DEF AnyNamed
<1> QED
  BY <1>2, <1>3, <1>4 DEF m

-----------------------------------------------------------------------------
\* The names of the targets there are.
NamedTargets == [name : KnownTargets, outDir : ArchSet]
NamesIn(l) == {l[i].name : i \in 1..Len(l)}
WithTarget(l, arch, x) ==
    IF \E i \in DOMAIN l : l[i].name = x THEN l ELSE Append(l, [name |-> x, outDir |-> arch])

LEMMA WithTargetIs ==
  ASSUME NEW l \in Seq(NamedTargets), NEW arch \in ArchSet, NEW x \in KnownTargets
  PROVE  WithTarget(l, arch, x) \in Seq(NamedTargets) /\ NamesIn(WithTarget(l, arch, x)) = NamesIn(l) \union {x}
<1> DEFINE n == Len(l)
           e == [name |-> x, outDir |-> arch]
           r == Append(l, e)
<1>1. n \in Nat /\ DOMAIN l = 1..n /\ e \in NamedTargets /\ e.name = x
  BY DEF NamedTargets
<1> HIDE DEF e
<1>2. r \in Seq(NamedTargets) /\ Len(r) = n + 1 /\ r[n + 1] = e /\ \A i \in 1..n : r[i] = l[i]
  BY <1>1
<1>3. CASE \E i \in 1..n : l[i].name = x
  BY <1>1, <1>3 DEF WithTarget, NamesIn
<1>4. CASE ~\E i \in 1..n : l[i].name = x
  <2>1. WithTarget(l, arch, x) = r
    BY <1>1, <1>4 DEF WithTarget, e
  <2> HIDE DEF r, n
  <2>2. 1..(n + 1) = (1..n) \union {n + 1}
    BY <1>1
  <2>3. NamesIn(r) = {r[i].name : i \in 1..(n + 1)} /\ NamesIn(l) = {l[i].name : i \in 1..n}
    BY <1>2 DEF NamesIn, n
  <2>4. NamesIn(r) = NamesIn(l) \union {x}
    BY <1>1, <1>2, <2>2, <2>3
  <2> QED
    BY <1>2, <2>1, <2>4
<1> QED
  BY <1>3, <1>4

LEMMA WithTargetsIs ==
  ASSUME NEW l \in Seq(NamedTargets), NEW names \in Seq(KnownTargets), NEW arch \in ArchSet
  PROVE  /\ WithTargets(l, names, arch) \in Seq(NamedTargets)
         /\ NamesIn(WithTargets(l, names, arch)) = NamesIn(l) \union ToSet(names)
<1> DEFINE n == Len(names)
           T == Seq(NamedTargets)
           S(r, x) == WithTarget(r, arch, x)
           step == [k \in 1..n |-> [r \in T |-> S(r, names[k])]]
           IsIter(h) == h = [Q \in SUBSET (DOMAIN names) |->
                                IF Q = {} THEN l ELSE S(h[Q \ {Max(Q)}], names[Max(Q)])]
           iter == CHOOSE h : IsIter(h)
<1>1. n \in Nat /\ DOMAIN names = 1..n /\ \A k \in 1..n : names[k] \in KnownTargets
  OBVIOUS
<1>2. WithTargets(l, names, arch) = iter[DOMAIN names]
  BY DEF WithTargets, FoldLeft, MapThenFoldSet, WithTarget
<1>3. \A r \in T : \A x \in KnownTargets : S(r, x) \in T /\ NamesIn(S(r, x)) = NamesIn(r) \union {x}
  BY WithTargetIs
<1>4. l \in T
  OBVIOUS
<1> HIDE DEF S, T
<1>5. step \in StepsOn(T, n) /\ \A k \in 1..n : \A r \in T : step[k][r] = S(r, names[k])
  BY <1>1, <1>3 DEF StepsOn
<1> HIDE DEF step, n
<1>6. PICK h : FoldsTo(h, T, n, l, step)
  BY <1>1, <1>4, <1>5, FoldIs
<1>7. IsIter(h)
  <2>1. /\ h \in [SUBSET (1..n) -> T]
        /\ \A Q \in SUBSET (1..n) : h[Q] = IF Q = {} THEN l ELSE step[Max(Q)][h[Q \ {Max(Q)}]]
    BY <1>6 DEF FoldsTo
  <2>2. ASSUME NEW Q \in SUBSET (1..n)
        PROVE  h[Q] = IF Q = {} THEN l ELSE S(h[Q \ {Max(Q)}], names[Max(Q)])
    <3>1. CASE Q = {}
      BY <2>1, <3>1
    <3>2. CASE Q # {}
      <4>1. Max(Q) \in 1..n
        BY <1>1, <3>2, GreatestIsThere
      <4>2. h[Q \ {Max(Q)}] \in T
        BY <2>1
      <4>3. h[Q] = step[Max(Q)][h[Q \ {Max(Q)}]]
        BY <2>1, <3>2
      <4> QED
        BY <1>5, <3>2, <4>1, <4>2, <4>3
    <3> QED
      BY <3>1, <3>2
  <2> QED
    BY <1>1, <2>1, <2>2
<1>8. IsIter(iter)
  <2> HIDE DEF IsIter
  <2> QED
    BY <1>7, Zenon
<1> HIDE DEF iter
<1>9. \A Q \in SUBSET (1..n) : iter[Q] = IF Q = {} THEN l ELSE S(iter[Q \ {Max(Q)}], names[Max(Q)])
  BY <1>1, <1>8
<1> DEFINE f == [k \in 0..n |-> iter[1..k]]
           First(k) == {names[i] : i \in 1..k}
           K == {k \in 0..n : f[k] \in T /\ NamesIn(f[k]) = NamesIn(l) \union First(k)}
<1>10. 0 \in K
  <2>1. 1..0 = {} /\ 1..0 \in SUBSET (1..n) /\ 0 \in 0..n
    BY <1>1
  <2>2. f[0] = l /\ First(0) = {}
    BY <1>9, <2>1
  <2> HIDE DEF f, First
  <2> QED
    BY <1>4, <2>1, <2>2
<1>11. ASSUME NEW k \in 1..n PROVE f[k] = S(f[k - 1], names[k])
  <2>1. FirstOnes(k) /\ 1..k \in SUBSET (1..n)
    BY <1>1, FirstPositions
  <2>2. iter[1..k] = S(iter[1..(k - 1)], names[k])
    BY <1>9, <2>1 DEF FirstOnes
  <2>3. k \in 0..n /\ k - 1 \in 0..n
    BY <1>1
  <2> QED
    BY <2>2, <2>3
<1>12. f[n] = WithTargets(l, names, arch) /\ First(n) = ToSet(names)
  <2>1. n \in 0..n
    BY <1>1
  <2>2. f[n] = iter[1..n]
    BY <2>1
  <2>3. First(n) = ToSet(names)
    BY <1>1 DEF ToSet
  <2> QED
    BY <1>1, <1>2, <2>2, <2>3
<1> HIDE DEF f
<1>13. ASSUME NEW j \in 0..(n - 1), j \in K PROVE j + 1 \in K
  <2> DEFINE i == j + 1
  <2>1. i \in 1..n /\ i \in 0..n /\ i - 1 = j /\ 1..i = (1..j) \union {i}
    BY <1>1
  <2> HIDE DEF i
  <2>2. f[i] = S(f[j], names[i])
    BY <1>11, <2>1
  <2>3. First(i) = First(j) \union {names[i]}
    BY <2>1
  <2>4. f[j] \in T /\ NamesIn(f[j]) = NamesIn(l) \union First(j)
    BY <1>13
  <2> HIDE DEF First
  <2>5. f[i] \in T /\ NamesIn(f[i]) = NamesIn(l) \union First(i)
    BY <1>1, <1>3, <2>1, <2>2, <2>3, <2>4
  <2> QED
    BY <2>1, <2>5 DEF i
<1> HIDE DEF K
<1>14. \A j \in 0..n : j \in K
  <2>1. \A j \in 0..(n - 1) : j \in K => j + 1 \in K
    BY <1>13
  <2> QED
    BY <1>1, <1>10, <2>1, UpTo
<1>15. f[n] \in T /\ NamesIn(f[n]) = NamesIn(l) \union First(n)
  <2>1. n \in K
    BY <1>1, <1>14
  <2> QED
    BY <2>1 DEF K
<1> HIDE DEF First
<1> QED
  BY <1>12, <1>15 DEF T

BuiltItems == [arch : ArchSet, name : KnownTargets]
PairsOf(bs) == {<<b.arch, b.name>> : b \in ToSet(bs)}

\* What building a list of targets for an architecture adds.
Builds(bs, arch, list, r) ==
    /\ r \in Seq(BuiltItems) /\ PairsOf(r) = PairsOf(bs) \union ({arch} \X ToSet(list))
    /\ IsInjective(bs) /\ IsInjective(list) /\ (\A p \in PairsOf(bs) : p[1] # arch) => IsInjective(r)

LEMMA BuildsMore ==
  ASSUME NEW bs \in Seq(BuiltItems), NEW arch \in ArchSet, NEW list \in Seq(KnownTargets),
         NEW r, r = bs \o [i \in DOMAIN list |-> [arch |-> arch, name |-> list[i]]]
  PROVE  Builds(bs, arch, list, r)
<1> DEFINE n == Len(list)
           It(x) == [arch |-> arch, name |-> x]
           more == [i \in DOMAIN list |-> It(list[i])]
<1>0. n \in Nat /\ DOMAIN list = 1..n /\ \A i \in 1..n : list[i] \in KnownTargets
  OBVIOUS
<1>1. /\ n \in Nat /\ DOMAIN list = 1..n /\ ToSet(list) = {list[i] : i \in 1..n}
      /\ \A i \in 1..n : list[i] \in KnownTargets
  BY <1>0 DEF ToSet
<1>2. \A x \in KnownTargets : It(x) \in BuiltItems /\ It(x).arch = arch /\ It(x).name = x
  BY DEF BuiltItems
<1> HIDE DEF n
<1>3. more \in [1..n -> BuiltItems]
  BY <1>1, <1>2
<1>4. more \in Seq(BuiltItems) /\ Len(more) = n /\ DOMAIN more = 1..n
  BY <1>1, <1>3, SeqDef
<1>5. \A i \in 1..n : more[i] = It(list[i])
  BY <1>1
<1>6. r = bs \o more
  OBVIOUS
<1> HIDE DEF It, more
<1>7. ToSet(more) = {It(x) : x \in ToSet(list)}
  BY <1>1, <1>4, <1>5 DEF ToSet
<1>8. r \in Seq(BuiltItems) /\ ToSet(r) = ToSet(bs) \union ToSet(more)
  <2>1. bs \o more \in Seq(BuiltItems) /\ ToSet(bs \o more) = ToSet(bs) \union ToSet(more)
    BY <1>4, JoinElements
  <2> QED
    BY <1>6, <2>1
<1>9. ToSet(list) \subseteq KnownTargets
  BY <1>1
<1>10. PairsOf(more) = {arch} \X ToSet(list)
  <2>1. PairsOf(more) = {<<It(x).arch, It(x).name>> : x \in ToSet(list)}
    BY <1>7 DEF PairsOf
  <2>2. \A x \in ToSet(list) : It(x).arch = arch /\ It(x).name = x
    BY <1>2, <1>9
  <2>3. PairsOf(more) = {<<arch, x>> : x \in ToSet(list)}
    BY <2>1, <2>2
  <2> QED
    BY <2>3
<1>11. PairsOf(r) = PairsOf(bs) \union PairsOf(more)
  BY <1>8 DEF PairsOf
<1>12. ASSUME IsInjective(bs), IsInjective(list), \A p \in PairsOf(bs) : p[1] # arch
       PROVE  IsInjective(r)
  <2>1. IsInjective(more)
    <3>1. \A i, j \in 1..n : list[i] = list[j] => i = j
      BY <1>1, <1>12 DEF IsInjective
    <3>2. \A i \in 1..n : more[i].name = list[i]
      BY <1>1, <1>2, <1>5
    <3>3. \A i, j \in 1..n : more[i] = more[j] => i = j
      BY <3>1, <3>2
    <3> QED
      BY <1>4, <3>3 DEF IsInjective
  <2>2. ASSUME NEW e \in ToSet(bs), e \in ToSet(more) PROVE FALSE
    <3>1. e.arch = arch
      BY <1>2, <1>7, <1>9, <2>2
    <3>2. <<e.arch, e.name>> \in PairsOf(bs)
      BY <2>2 DEF PairsOf
    <3>3. <<e.arch, e.name>>[1] = e.arch
      OBVIOUS
    <3> QED
      BY <1>12, <3>1, <3>2, <3>3
  <2> DEFINE A == ToSet(bs)
             More == ToSet(more)
  <2>3. Enumerates(bs, A) /\ Enumerates(more, More)
    BY <1>12, <2>1 DEF Enumerates
  <2>4. A \cap More = {}
    BY <2>2
  <2> HIDE DEF A, More
  <2>5. Enumerates(bs \o more, A \cup More)
    BY <1>4, <2>3, <2>4, JoinIs
  <2> QED
    BY <1>6, <2>5 DEF Enumerates
<1> QED
  BY <1>8, <1>10, <1>11, <1>12 DEF Builds

-----------------------------------------------------------------------------
\* The invariant, phase by phase.
Types == targetRequest.types
SharedSet ==
    IF \A t \in ToSet(targetRequest.target) : OwnArchs(t) = {} THEN GivenArchs ELSE {}

TypesSoFar ==
    /\ upNext \in 1..(Len(Types) + 1)
    /\ Share(Now, {}) /\ Filled(Now, Types, upNext - 1, {}, UsualArchs)

FromTypes == Types # <<>> /\ upNext = 1 /\ Filled(Now, Types, Len(Types), {}, UsualArchs)
JustDir ==
    /\ Types = <<>> /\ targetRequest.dir /\ upNext = 1
    /\ ArchsIn(Now) # {} /\ \A b \in ArchsIn(Now) : NamesFor(Now, b) = {"dir"}
FromTarget ==
    /\ Types = <<>> /\ ~targetRequest.dir /\ upNext \in 1..(Len(targetRequest.target) + 1)
    /\ ArchsIn(Now) = GivenArchs \union ForSome(targetRequest.target, upNext - 1, UsualArchs)
    /\ ~ArraysShared =>
         /\ Share(Now, SharedSet)
         /\ Filled(Now, targetRequest.target, upNext - 1, GivenArchs, UsualArchs)

AllDiffer(m) == \A i \in 1..Len(m.map) : OneSpelling(NamesAt(m, i))
Planned ==
    ~ArraysShared => /\ Plan(Now, Len(archToType)) = Pairs(Asked)
                     /\ ~TwiceAsked => AllDiffer(Now)
BuiltSoFar ==
    /\ upNext \in 1..(Len(archToType) + 1)
    /\ built \in Seq(BuiltItems) /\ PairsOf(built) = Plan(Now, upNext - 1)
    /\ AllDiffer(Now) => IsInjective(built)
    /\ nameToTarget \in Seq(NamedTargets)
    /\ NamesIn(nameToTarget) = {p[2] : p \in PairsOf(built)}

TargetsInv ==
    /\ targetRequest \in TargetRequests /\ WellFormed(Now)
    /\ targetPhase \in {"types", "target", "build", "end"}
    /\ targetPhase \in {"types", "target"} => built = <<>> /\ nameToTarget = <<>>
    /\ targetPhase = "types" => TypesSoFar
    /\ targetPhase = "target" => FromTypes \/ JustDir \/ FromTarget
    /\ targetPhase \in {"build", "end"} => Planned /\ BuiltSoFar
    /\ targetPhase = "end" => upNext = Len(archToType) + 1

LEMMA SameRequest ==
  ASSUME targetRequest' = targetRequest
  PROVE  /\ UsualArchs' = UsualArchs /\ GivenArchs' = GivenArchs /\ Asked' = Asked
         /\ (ArraysShared' <=> ArraysShared) /\ (TwiceAsked' <=> TwiceAsked)
         /\ SharedSet' = SharedSet /\ Types' = Types
<1>1. GivenArchs' = GivenArchs /\ Given' = Given /\ (LinuxElsewhere' <=> LinuxElsewhere)
  BY DEF GivenArchs, Given, LinuxElsewhere
<1>2. UsualArchs' = UsualArchs
  BY <1>1 DEF UsualArchs
<1>3. Named' = Named
  BY <1>1, <1>2 DEF Named
<1>4. ByDefault' = ByDefault
  BY <1>1, <1>2, <1>3 DEF ByDefault
<1>5. Asked' = Asked
  BY <1>3, <1>4 DEF Asked
<1>6. ArraysShared' <=> ArraysShared
  BY <1>1 DEF ArraysShared
<1>7. TwiceAsked' <=> TwiceAsked
  BY <1>1 DEF TwiceAsked
<1>8. SharedSet' = SharedSet /\ Types' = Types
  BY <1>1 DEF SharedSet, Types
<1> QED
  BY <1>1, <1>2, <1>5, <1>6, <1>7, <1>8

\* Nothing is built yet.
LEMMA NothingBuilt ==
  ASSUME built = <<>>, nameToTarget = <<>>, upNext = 1, WellFormed(Now)
  PROVE  BuiltSoFar
<1>1. Len(archToType) \in Nat
  BY DEF WellFormed, Maps, Now
<1>2. built \in Seq(BuiltItems) /\ nameToTarget \in Seq(NamedTargets) /\ upNext - 1 = 0 /\ 1..0 = {}
      /\ Len(nameToTarget) = 0
  OBVIOUS
<1>3. ToSet(built) = {} /\ IsInjective(built)
  BY OneOrNone DEF Enumerates
<1>4. PairsOf(built) = {} /\ NamesIn(nameToTarget) = {}
  BY <1>2, <1>3 DEF PairsOf, NamesIn
<1>5. Plan(Now, upNext - 1) = {}
  BY <1>2 DEF Plan
<1>6. upNext \in 1..(Len(archToType) + 1)
  BY <1>1
<1>7. {p[2] : p \in PairsOf(built)} = {}
  BY <1>4
<1>8. PairsOf(built) = Plan(Now, upNext - 1) /\ NamesIn(nameToTarget) = {p[2] : p \in PairsOf(built)}
  BY <1>4, <1>5, <1>7
<1> QED
  BY <1>2, <1>3, <1>6, <1>8 DEF BuiltSoFar

\* What holds of the names that are given holds of those in each array.
LEMMA DifferentGiven ==
  ASSUME targetRequest \in TargetRequests, ~TwiceAsked, NEW m, WellFormed(m), NEW U, NEW base,
         Filled(m, GivenList, Len(GivenList), base, U)
  PROVE  AllDiffer(m)
<1>1. GivenList \in Seq(TargetItems) /\ Given = Proper(GivenList)
  BY NamedIs
<1>2. /\ \A t \in Given : LowerCase[t.name] # "default"
      /\ \A t, u \in Given : LowerCase[t.name] = LowerCase[u.name] => t.name = u.name
  BY DEF TwiceAsked
<1>3. ASSUME NEW b \in ArchSet PROVE OneSpelling(NamesFor(m, b))
  <2>1. NamesFor(m, b) = Wanted(GivenList, Len(GivenList), b, U)
    BY DEF Filled
  <2>2. Wanted(GivenList, Len(GivenList), b, U) = {t.name : t \in {t \in Given : b \in ArchsFor(t, U)}}
    BY <1>1, WantedIs
  <2>3. \A x \in NamesFor(m, b) : \E t \in Given : x = t.name
    BY <2>1, <2>2
  <2> QED
    BY <1>2, <2>3 DEF OneSpelling
<1>4. ASSUME NEW i \in 1..Len(m.map) PROVE OneSpelling(NamesAt(m, i))
  <2>1. NamesFor(m, m.map[i].arch) = NamesAt(m, i) /\ m.map[i].arch \in ArchSet
    BY NamesAre, ChosenIs
  <2> QED
    BY <1>3, <2>1
<1> QED
  BY <1>4 DEF AllDiffer

LEMMA TargetsStart == TargetsInit => TargetsInv
<1> SUFFICES ASSUME TargetsInit PROVE TargetsInv
  OBVIOUS
<1> DEFINE m == Now
           ts == Types
<1>1. /\ targetRequest \in TargetRequests /\ targetPhase = "types" /\ upNext = 1
      /\ built = <<>> /\ nameToTarget = <<>> /\ archToType = <<>> /\ arrays = <<>>
  BY DEF TargetsInit
<1>2. ts \in Seq(TargetItems)
  BY <1>1, RequestTyped DEF Types
<1>3. m.map = <<>> /\ m.arrays = <<>> /\ Len(m.map) = 0 /\ Len(m.arrays) = 0 /\ 1..0 = {}
  BY <1>1 DEF Now
<1>4. WellFormed(m)
  <2>1. m \in Maps
    BY <1>1 DEF Now, Maps
  <2> QED
    BY <1>3, <2>1 DEF WellFormed
<1> HIDE DEF m, ts
<1>5. Share(m, {}) /\ ArchsIn(m) = {} /\ \A b \in ArchSet : NamesFor(m, b) = {}
  BY <1>3 DEF Share, ArchsIn, NamesFor
<1>6. Filled(m, ts, 0, {}, UsualArchs)
  BY <1>3, <1>5 DEF Filled, ForSome, Wanted
<1>7. 1 \in 1..(Len(ts) + 1) /\ 1 - 1 = 0
  BY <1>2
<1>8. TypesSoFar
  BY <1>1, <1>5, <1>6, <1>7 DEF TypesSoFar, m, ts
<1> QED
  BY <1>1, <1>4, <1>8 DEF TargetsInv, m

LEMMA NoTypesStep == TargetsInv /\ ProcessNoTypes => TargetsInv'
<1> SUFFICES ASSUME TargetsInv, ProcessNoTypes PROVE TargetsInv'
  OBVIOUS
<1> DEFINE c == targetRequest.dir
           archs == CommonArch(c)
           names == IF c THEN <<"dir">> ELSE <<>>
           r == OneArray(archs, names)
           ts == targetRequest.target
<1>1. /\ targetRequest \in TargetRequests /\ targetPhase = "types" /\ Types = <<>> /\ upNext = 1
      /\ built = <<>> /\ nameToTarget = <<>>
  <2>1. Types = <<>> /\ TypesSoFar
    BY DEF TargetsInv, ProcessNoTypes, Types
  <2>2. upNext = 1
    BY <2>1 DEF TypesSoFar
  <2> QED
    BY <2>1, <2>2 DEF TargetsInv, ProcessNoTypes
<1>2. /\ targetRequest' = targetRequest /\ targetPhase' = "target" /\ upNext' = 1
      /\ built' = <<>> /\ nameToTarget' = <<>>
  BY <1>1 DEF ProcessNoTypes
<1>3. Now' = r
  <2>1. archToType' = [i \in DOMAIN archs |-> [arch |-> archs[i], array |-> 1]]
    BY DEF ProcessNoTypes
  <2>2. arrays' = <<names>>
    BY DEF ProcessNoTypes
  <2> HIDE DEF archs, names
  <2> QED
    BY <2>1, <2>2 DEF Now, OneArray
<1>4. c \in BOOLEAN /\ ts \in Seq(TargetItems)
  BY <1>1, TargetsAssumption
<1>5. /\ archs \in Seq(ArchSet) /\ IsInjective(archs)
      /\ ToSet(archs) = IF GivenArchs = {} /\ c THEN {CurrentArch} ELSE GivenArchs
  <2> HIDE DEF c
  <2> QED
    BY <1>1, <1>4, CommonIs
<1>6. names \in Seq(KnownTargets) /\ IsInjective(names) /\ ToSet(names) = IF c THEN {"dir"} ELSE {}
  <2>1. Enumerates(<<"dir">>, {"dir"}) /\ Enumerates(<<>>, {})
    BY OneOrNone
  <2>2. "dir" \in KnownTargets
    BY TargetsAssumption
  <2>3. <<"dir">> \in Seq(KnownTargets) /\ <<>> \in Seq(KnownTargets)
    BY <2>2
  <2> DEFINE one == <<"dir">>
             none == <<>>
  <2>4. names = IF c THEN one ELSE none
    OBVIOUS
  <2>5. /\ one \in Seq(KnownTargets) /\ none \in Seq(KnownTargets)
        /\ Enumerates(one, {"dir"}) /\ Enumerates(none, {})
    BY <2>1, <2>3
  <2> HIDE DEF names, one, none
  <2> QED
    BY <2>4, <2>5 DEF Enumerates
<1> HIDE DEF archs, names, c, ts
<1>7. /\ WellFormed(r) /\ ArchsIn(r) = ToSet(archs) /\ Share(r, ToSet(archs))
      /\ \A b \in ToSet(archs) : NamesFor(r, b) = ToSet(names)
  BY <1>5, <1>6, OneArrayIs
<1> HIDE DEF r
<1>8. /\ UsualArchs' = UsualArchs /\ GivenArchs' = GivenArchs
      /\ (ArraysShared' <=> ArraysShared) /\ SharedSet' = SharedSet /\ Types' = Types
  BY <1>2, SameRequest
<1>9. CASE c
  <2>1. ArchsIn(r) # {} /\ \A b \in ArchsIn(r) : NamesFor(r, b) = {"dir"}
    BY <1>5, <1>6, <1>7, <1>9
  <2>2. JustDir'
    BY <1>1, <1>2, <1>3, <1>8, <1>9, <2>1 DEF JustDir, c
  <2> QED
    BY <1>1, <1>2, <1>3, <1>7, <2>2 DEF TargetsInv
<1>10. CASE ~c
  <2>1. ToSet(archs) = GivenArchs /\ ToSet(names) = {}
    BY <1>5, <1>6, <1>10
  <2>2. \A b \in ArchSet : NamesFor(r, b) = {}
    BY <1>7, <2>1, NamesOfNone
  <2>3. ForSome(ts, 0, UsualArchs) = {} /\ \A b : Wanted(ts, 0, b, UsualArchs) = {}
    <3>1. 1..0 = {}
      OBVIOUS
    <3> QED
      BY <3>1 DEF ForSome, Wanted
  <2>4. ArchsIn(r) = GivenArchs \union ForSome(ts, 0, UsualArchs)
    BY <1>7, <2>1, <2>3
  <2>5. Filled(r, ts, 0, GivenArchs, UsualArchs)
    BY <2>2, <2>3, <2>4 DEF Filled
  <2>6. ASSUME ~ArraysShared PROVE Share(r, SharedSet)
    <3>1. CASE \A t \in ToSet(ts) : OwnArchs(t) = {}
      BY <1>7, <2>1, <3>1 DEF SharedSet, ts
    <3>2. CASE ~\A t \in ToSet(ts) : OwnArchs(t) = {}
      <4>1. ~(Cardinality(GivenArchs) > 1)
        BY <1>1, <2>6, <3>2 DEF ArraysShared, Types, ts
      <4>2. IsFiniteSet(GivenArchs)
        <5> DEFINE I == 1..Len(archs)
        <5>1. GivenArchs = {archs[i] : i \in I} /\ Len(archs) \in Nat /\ DOMAIN archs = I
          BY <1>5, <2>1, ElementsAre
        <5>2. IsFiniteSet(I)
          BY <5>1, FS_Interval
        <5> HIDE DEF I
        <5>3. archs = [i \in I |-> archs[i]]
          BY <1>5, <5>1
        <5>4. archs \in Surjection(I, GivenArchs)
          BY <5>1, <5>3 DEF Surjection
        <5> QED
          BY <5>2, <5>4, FS_Surjection
      <4>3. \A x, y \in GivenArchs : x = y
        <5> SUFFICES ASSUME NEW x \in GivenArchs, NEW y \in GivenArchs, x # y PROVE FALSE
          OBVIOUS
        <5>1. {x, y} \subseteq GivenArchs
          OBVIOUS
        <5>2. Cardinality({x, y}) <= Cardinality(GivenArchs)
          BY <4>2, <5>1, FS_Subset
        <5>3. IsFiniteSet({x}) /\ Cardinality({x}) = 1
          BY FS_Singleton
        <5>4. {x} \cup {y} = {x, y} /\ y \notin {x}
          OBVIOUS
        <5>5. Cardinality({x, y}) = 2
          BY <5>3, <5>4, FS_AddElement
        <5>6. Cardinality(GivenArchs) \in Nat
          BY <4>2, FS_CardinalityType
        <5> QED
          BY <4>1, <5>2, <5>5, <5>6
      <4>4. Share(r, {})
        BY <1>7, <2>1, <4>3, ShareNone
      <4>5. SharedSet = {}
        BY <3>2 DEF SharedSet, ts
      <4> QED
        BY <4>4, <4>5
    <3> QED
      BY <3>1, <3>2
  <2>7. 1 \in 1..(Len(ts) + 1) /\ 1 - 1 = 0
    BY <1>4
  <2>8. FromTarget'
    BY <1>1, <1>2, <1>3, <1>8, <1>10, <2>4, <2>5, <2>6, <2>7 DEF FromTarget, c, ts
  <2> QED
    BY <1>1, <1>2, <1>3, <1>7, <2>8 DEF TargetsInv
<1> QED
  BY <1>9, <1>10

LEMMA TypeStep == TargetsInv /\ ProcessType => TargetsInv'
<1> SUFFICES ASSUME TargetsInv, ProcessType PROVE TargetsInv'
  OBVIOUS
<1> DEFINE ts == Types
           k == upNext
           t == ts[k]
           archs == IF t.suffix # Unspecified THEN <<t.suffix>> ELSE CommonArch(TRUE)
           m == Now
           r == AddForEach(m, archs, t.name)
           U == UsualArchs
<1>1. /\ targetRequest \in TargetRequests /\ targetPhase = "types" /\ TypesSoFar /\ WellFormed(m)
      /\ built = <<>> /\ nameToTarget = <<>> /\ k <= Len(ts)
  BY DEF TargetsInv, ProcessType, Types
<1>2. ts \in Seq(TargetItems)
  BY <1>1, RequestTyped DEF Types
<1>3. Share(m, {}) /\ Filled(m, ts, k - 1, {}, U) /\ k \in 1..(Len(ts) + 1)
  BY <1>1 DEF TypesSoFar
<1>4. k \in 1..Len(ts) /\ k + 1 \in 1..(Len(ts) + 1) /\ (k + 1) - 1 = k
  BY <1>1, <1>2, <1>3
<1>5. AddTo(archs, t.name)
  BY DEF ProcessType, Types
<1>6. archToType' = r.map /\ arrays' = r.arrays
  BY <1>5 DEF AddTo, Now
<1>7. /\ targetRequest' = targetRequest /\ targetPhase' = "types" /\ upNext' = k + 1
      /\ built' = <<>> /\ nameToTarget' = <<>>
  BY <1>1 DEF ProcessType
<1> HIDE DEF k, m, ts, U
<1>8. t \in ToSet(ts)
  BY <1>2, <1>4, ElementsAre
<1> HIDE DEF t
<1>9. archs \in Seq(ArchSet) /\ ToSet(archs) = ArchsFor(t, U)
  BY <1>1, <1>8, TypeArchs DEF ts, Types, U
<1> HIDE DEF archs
<1>10. ArchsIn(m) = {} \union ForSome(ts, k - 1, U)
  BY <1>3 DEF Filled
<1> DEFINE e == {}
<1>11. /\ WellFormed(r)
       /\ \A S : Share(m, S) /\ (S \subseteq ArchsFor(t, U) \/ ArchsFor(t, U) = {})
                 /\ Filled(m, ts, k - 1, e, U) => Share(r, S) /\ Filled(r, ts, k, e, U)
  <2> HIDE DEF e, r
  <2>1. ArchsIn(m) = e \union ForSome(ts, k - 1, U)
    BY <1>10 DEF e
  <2>2. r = AddForEach(m, archs, ts[k].name) /\ ToSet(archs) = ArchsFor(ts[k], U) /\ t = ts[k]
    BY <1>9 DEF r, t
  <2>3. Fills(m, ts, k, e, U, r)
    BY <1>1, <1>2, <1>4, <1>9, <2>1, <2>2, FillsOne
  <2> QED
    BY <2>2, <2>3 DEF Fills
<1>12. Share(r, e) /\ Filled(r, ts, k, e, U)
  <2>1. Share(m, e) /\ e \subseteq ArchsFor(t, U) /\ Filled(m, ts, k - 1, e, U)
    BY <1>3
  <2> HIDE DEF e, r
  <2> QED
    BY <1>11, <2>1
<1> HIDE DEF r
<1>13. Now' = r
  <2>1. r = [map |-> r.map, arrays |-> r.arrays]
    BY <1>11 DEF WellFormed, Maps
  <2> QED
    BY <1>6, <2>1 DEF Now
<1>14. U' = U /\ ts' = ts
  BY <1>7, SameRequest DEF U, ts
<1>15. TypesSoFar'
  BY <1>4, <1>7, <1>12, <1>13, <1>14 DEF TypesSoFar, ts, U
<1> QED
  BY <1>1, <1>7, <1>11, <1>13, <1>15 DEF TargetsInv

LEMMA TypesProcessedStep == TargetsInv /\ TypesProcessed => TargetsInv'
<1> SUFFICES ASSUME TargetsInv, TypesProcessed PROVE TargetsInv'
  OBVIOUS
<1>1. /\ targetRequest \in TargetRequests /\ TypesSoFar /\ WellFormed(Now)
      /\ built = <<>> /\ nameToTarget = <<>> /\ Types # <<>> /\ upNext > Len(Types)
  BY DEF TargetsInv, TypesProcessed, Types
<1>2. /\ targetRequest' = targetRequest /\ targetPhase' = "target" /\ upNext' = 1
      /\ built' = <<>> /\ nameToTarget' = <<>> /\ Now' = Now
  BY <1>1 DEF TypesProcessed, Now
<1>3. Types \in Seq(TargetItems)
  BY <1>1, RequestTyped DEF Types
<1>4. upNext - 1 = Len(Types)
  BY <1>1, <1>3 DEF TypesSoFar
<1>5. Filled(Now, Types, Len(Types), {}, UsualArchs)
  BY <1>1, <1>4 DEF TypesSoFar
<1>6. UsualArchs' = UsualArchs /\ Types' = Types
  BY <1>2, SameRequest
<1>7. FromTypes'
  BY <1>1, <1>2, <1>5, <1>6 DEF FromTypes
<1> QED
  BY <1>1, <1>2, <1>7 DEF TargetsInv

\* A name was given on the command line.
LEMMA NamedThere ==
  ASSUME targetRequest \in TargetRequests, WellFormed(Now), FromTypes \/ JustDir
  PROVE  AnyNamed
<1>1. CASE FromTypes
  <2> DEFINE ts == Types
             U == UsualArchs
  <2>1. ts \in Seq(TargetItems) /\ ts # <<>> /\ Filled(Now, ts, Len(ts), {}, U)
    BY <1>1, RequestTyped DEF FromTypes, Types
  <2>2. Len(ts) \in Nat /\ 1 \in 1..Len(ts) /\ ts[1] \in ToSet(ts)
    <3>1. Len(ts) \in Nat /\ DOMAIN ts = 1..Len(ts) /\ 1 \in 1..Len(ts)
      BY <2>1, EmptySeq
    <3> QED
      BY <3>1 DEF ToSet
  <2> DEFINE t == ts[1]
             archs == IF t.suffix # Unspecified THEN <<t.suffix>> ELSE CommonArch(TRUE)
  <2>3. ArchsFor(t, U) # {} /\ ToSet(archs) = ArchsFor(t, U) /\ archs \in Seq(ArchSet)
    BY <2>2, TypeArchs DEF Types
  <2>4. ArchsFor(t, U) \subseteq ArchSet
    <3> HIDE DEF archs, t, U
    <3> QED
      BY <2>3, ElementsAre
  <2> HIDE DEF archs, ts, U
  <2>5. PICK b \in ArchSet : b \in ArchsFor(ts[1], U)
    BY <2>3, <2>4
  <2>6. ts[1].name \in Wanted(ts, Len(ts), b, U)
    BY <2>2, <2>5 DEF Wanted
  <2>7. NamesFor(Now, b) # {}
    BY <2>1, <2>6 DEF Filled
  <2> QED
    BY <2>7, AnyNamedIs
<1>2. CASE JustDir
  <2>1. PICK b \in ArchsIn(Now) : NamesFor(Now, b) = {"dir"}
    BY <1>2 DEF JustDir
  <2>2. b \in ArchSet
    BY ChosenIs DEF ArchsIn
  <2> QED
    BY <2>1, <2>2, AnyNamedIs
<1> QED
  BY <1>1, <1>2

LEMMA PlannedAlready ==
  ASSUME targetRequest \in TargetRequests, WellFormed(Now), FromTypes \/ JustDir
  PROVE  Planned
<1> DEFINE m == Now
<1>0. m.map = archToType
  BY DEF Now
<1>1. CASE FromTypes
  <2>1. Types # <<>> /\ Filled(m, Types, Len(Types), {}, UsualArchs) /\ GivenList = Types
    BY <1>1 DEF FromTypes, GivenList, Types
  <2> HIDE DEF m
  <2>2. Plan(m, Len(m.map)) = Pairs(Asked)
    BY <2>1, PlanFromTypes DEF Types, m
  <2>3. ~TwiceAsked => AllDiffer(m)
    BY <2>1, DifferentGiven DEF m
  <2> QED
    BY <1>0, <2>2, <2>3 DEF Planned, m
<1>2. CASE JustDir
  <2>1. Types = <<>> /\ targetRequest.dir /\ \A b \in ArchsIn(m) : NamesFor(m, b) = {"dir"}
    BY <1>2 DEF JustDir
  <2>2. Asked = {}
    BY <2>1 DEF Asked, Types
  <2>3. Outcome({"dir"}) = {"dir"}
    <3>1. Expanded("dir") = {"dir"}
      BY TargetsAssumption DEF Expanded
    <3>2. Outcome({"dir"}) = UNION {Expanded(x) : x \in {"dir"}}
      BY DEF Outcome
    <3> QED
      BY <3>1, <3>2
  <2> HIDE DEF m
  <2>4. Plan(m, Len(m.map)) = UNION {{a} \X (Outcome(NamesFor(m, a)) \ {"dir"}) : a \in ArchsIn(m)}
    BY PlanIs DEF m
  <2>5. \A a \in ArchsIn(m) : {a} \X (Outcome(NamesFor(m, a)) \ {"dir"}) = {}
    BY <2>1, <2>3
  <2>6. Plan(m, Len(m.map)) = {}
    BY <2>4, <2>5
  <2>7. Pairs(Asked) = {}
    BY <2>2 DEF Pairs
  <2>8. AllDiffer(m)
    <3>1. \A i \in 1..Len(m.map) : NamesAt(m, i) = NamesFor(m, m.map[i].arch) /\ m.map[i].arch \in ArchsIn(m)
      BY NamesAre DEF ArchsIn, m
    <3>2. OneSpelling({"dir"})
      BY TargetsAssumption DEF OneSpelling
    <3> QED
      BY <2>1, <3>1, <3>2 DEF AllDiffer
  <2> QED
    BY <1>0, <2>6, <2>7, <2>8 DEF Planned, m
<1> QED
  BY <1>1, <1>2

LEMMA RawStep == TargetsInv /\ RawIsReturned => TargetsInv'
<1> SUFFICES ASSUME TargetsInv, RawIsReturned PROVE TargetsInv'
  OBVIOUS
<1>1. /\ targetRequest \in TargetRequests /\ WellFormed(Now) /\ upNext = 1 /\ AnyNamed
      /\ built = <<>> /\ nameToTarget = <<>>
      /\ FromTypes \/ JustDir \/ FromTarget
  BY DEF TargetsInv, RawIsReturned
<1>2. /\ targetRequest' = targetRequest /\ targetPhase' = "build" /\ upNext' = upNext
      /\ built' = built /\ nameToTarget' = nameToTarget
      /\ archToType' = archToType /\ arrays' = arrays
  BY DEF RawIsReturned
<1>3. Planned
  <2>1. CASE FromTypes \/ JustDir
    BY <1>1, <2>1, PlannedAlready
  <2>2. CASE FromTarget
    <3>1. ASSUME ~ArraysShared PROVE FALSE
      <4>1. Filled(Now, targetRequest.target, 0, GivenArchs, UsualArchs)
        BY <1>1, <2>2, <3>1 DEF FromTarget
      <4>2. 1..0 = {}
        OBVIOUS
      <4>3. \A b \in ArchSet : NamesFor(Now, b) = {}
        BY <4>1, <4>2 DEF Filled, Wanted
      <4> QED
        BY <1>1, <4>3, AnyNamedIs
    <3> QED
      BY <3>1 DEF Planned
  <2> QED
    BY <1>1, <2>1, <2>2
<1>4. BuiltSoFar
  BY <1>1, NothingBuilt
<1>5. /\ (ArraysShared' <=> ArraysShared) /\ (TwiceAsked' <=> TwiceAsked) /\ Asked' = Asked
      /\ Now' = Now
  BY <1>2, SameRequest DEF Now
<1>6. Planned'
  BY <1>2, <1>3, <1>5 DEF Planned
<1>7. BuiltSoFar'
  BY <1>2, <1>4, <1>5 DEF BuiltSoFar
<1> QED
  BY <1>1, <1>2, <1>5, <1>6, <1>7 DEF TargetsInv

LEMMA TargetStep == TargetsInv /\ ProcessTarget => TargetsInv'
<1> SUFFICES ASSUME TargetsInv, ProcessTarget PROVE TargetsInv'
  OBVIOUS
<1> DEFINE ts == targetRequest.target
           k == upNext
           t == ts[k]
           archs == ForArchs(t, RawArchs)
           m == Now
           r == AddForEach(m, archs, t.name)
           U == UsualArchs
           base == GivenArchs
           S == SharedSet
<1>1. /\ targetRequest \in TargetRequests /\ targetPhase = "target" /\ WellFormed(m)
      /\ built = <<>> /\ nameToTarget = <<>> /\ k <= Len(ts) /\ (k = 1 => ~AnyNamed)
      /\ FromTypes \/ JustDir \/ FromTarget
  BY DEF TargetsInv, ProcessTarget
<1>2. FromTarget
  BY <1>1, NamedThere DEF FromTypes, JustDir
<1>3. /\ Types = <<>> /\ ~targetRequest.dir /\ k \in 1..(Len(ts) + 1)
      /\ ArchsIn(m) = base \union ForSome(ts, k - 1, U)
      /\ ~ArraysShared => Share(m, S) /\ Filled(m, ts, k - 1, base, U)
  BY <1>2 DEF FromTarget
<1>4. ts \in Seq(TargetItems)
  BY <1>1, RequestTyped
<1>5. k \in 1..Len(ts) /\ k + 1 \in 1..(Len(ts) + 1) /\ (k + 1) - 1 = k
  BY <1>1, <1>3, <1>4
<1>6. AddTo(archs, t.name)
  BY DEF ProcessTarget
<1>7. archToType' = r.map /\ arrays' = r.arrays
  BY <1>6 DEF AddTo, Now
<1>8. /\ targetRequest' = targetRequest /\ targetPhase' = "target" /\ upNext' = k + 1
      /\ built' = <<>> /\ nameToTarget' = <<>>
  BY <1>1 DEF ProcessTarget
<1> HIDE DEF k, m, U, base, S
<1> DEFINE tt == targetRequest.target
<1>9. t \in ToSet(tt)
  <2> HIDE DEF tt
  <2>1. ToSet(tt) = {tt[i] : i \in 1..Len(tt)}
    BY <1>4, ElementsAre DEF tt
  <2> QED
    BY <1>5, <2>1 DEF tt
<1>10. archs \in Seq(ArchSet) /\ ToSet(archs) = ArchsFor(t, U)
  BY <1>1, <1>3, <1>9, TargetArchs DEF Types, U
<1>11. S \subseteq ArchsFor(t, U) \/ ArchsFor(t, U) = {}
  <2>1. CASE \A x \in ToSet(tt) : OwnArchs(x) = {}
    <3>1. S = base /\ OwnArchs(t) = {}
      BY <1>9, <2>1 DEF SharedSet, S, base
    <3>2. ArchsFor(t, U) = {} \/ ArchsFor(t, U) = U
      BY <3>1 DEF ArchsFor
    <3>3. base = {} \/ U = base
      BY DEF U, base, UsualArchs
    <3> QED
      BY <3>1, <3>2, <3>3
  <2>2. CASE ~\A x \in ToSet(tt) : OwnArchs(x) = {}
    BY <2>2 DEF SharedSet, S
  <2> QED
    BY <2>1, <2>2
<1> HIDE DEF tt, archs
<1>12. Fills(m, ts, k, base, U, r)
  <2> HIDE DEF r, ts, t
  <2>1. r = AddForEach(m, archs, ts[k].name) /\ ToSet(archs) = ArchsFor(ts[k], U)
    BY <1>10 DEF r, t
  <2> QED
    BY <1>1, <1>3, <1>4, <1>5, <1>10, <2>1, FillsOne
<1> HIDE DEF ts, t, r
<1>13. WellFormed(r) /\ ArchsIn(r) = base \union ForSome(ts, k, U)
  BY <1>12 DEF Fills
<1>14. ~ArraysShared => Share(r, S) /\ Filled(r, ts, k, base, U)
  <2>1. S \subseteq ArchsFor(ts[k], U) \/ ArchsFor(ts[k], U) = {}
    BY <1>11 DEF t
  <2> QED
    BY <1>3, <1>12, <2>1 DEF Fills
<1>15. Now' = r
  <2>1. r = [map |-> r.map, arrays |-> r.arrays]
    BY <1>13 DEF WellFormed, Maps
  <2> QED
    BY <1>7, <2>1 DEF Now
<1>16. /\ U' = U /\ base' = base /\ S' = S /\ Types' = Types /\ (ArraysShared' <=> ArraysShared)
       /\ ts' = ts
  BY <1>8, SameRequest DEF U, base, S, ts
<1>17. FromTarget'
  BY <1>3, <1>5, <1>8, <1>13, <1>14, <1>15, <1>16 DEF FromTarget, ts, U, base, S
<1> QED
  BY <1>1, <1>8, <1>13, <1>15, <1>17 DEF TargetsInv

\* An empty map gets the default targets.
LEMMA PlannedByDefault ==
  ASSUME targetRequest \in TargetRequests, Types = <<>>, ~targetRequest.dir, WellFormed(Now),
         ArchsIn(Now) = {},
         ArchsIn(Now) = GivenArchs \union ForSome(targetRequest.target, Len(targetRequest.target), UsualArchs),
         NEW x, x = IF LinuxElsewhere THEN "x64" ELSE RawArchs[1],
         NEW m, m = OneArray(<<x>>, DefaultTargets)
  PROVE  WellFormed(m) /\ Len(m.map) = 1 /\ Plan(m, Len(m.map)) = Pairs(Asked) /\ AllDiffer(m)
<1> DEFINE ts == targetRequest.target
           U == UsualArchs
           D == ToSet(DefaultTargets)
           one == <<x>>
<1>1. ts \in Seq(TargetItems) /\ Given = Proper(ts) /\ Named = WantedPairs(Given, U)
  BY NamedIs DEF GivenList, Types
<1>2. GivenArchs = {} /\ ForSome(ts, Len(ts), U) = {}
  OBVIOUS
<1>3. Given = {}
  <2>1. UNION {ArchsFor(t, U) : t \in Given} = {}
    <3> HIDE DEF ts, U
    <3> QED
      BY <1>1, <1>2, WantedIs
  <2>2. ASSUME NEW t \in Given PROVE ArchsFor(t, U) # {}
    <3>1. t.arch # <<>> /\ U # {}
      BY NamedIs DEF Given
    <3> QED
      BY <3>1 DEF ArchsFor
  <2> QED
    BY <2>1, <2>2
<1>4. U = {x}
  <2>1. RawArchs[1] = CurrentArch
    BY <1>2, RawIs
  <2> QED
    BY <1>2, <1>3, <2>1 DEF UsualArchs, CurrentArch
<1>5. Asked = {x} \X D
  <2>1. Named = {}
    BY <1>1, <1>3 DEF WantedPairs
  <2>2. ByDefault = {x} \X D
    BY <1>3, <1>4, <2>1 DEF ByDefault
  <2> QED
    BY <2>1, <2>2 DEF Asked, Types
<1>6. x \in ArchSet
  BY <1>4, NamedIs
<1>7. one \in Seq(ArchSet) /\ IsInjective(one) /\ ToSet(one) = {x} /\ DOMAIN one = {1}
  <2>1. Enumerates(<<x>>, {x})
    BY OneOrNone
  <2>2. <<x>> \in Seq(ArchSet) /\ DOMAIN <<x>> = {1}
    BY <1>6
  <2> QED
    BY <2>1, <2>2 DEF Enumerates
<1>8. DefaultTargets \in Seq(KnownTargets) /\ IsInjective(DefaultTargets) /\ OneSpelling(D)
  BY TargetsAssumption DEF OneSpelling
<1>9. m = OneArray(one, DefaultTargets)
  OBVIOUS
<1>10. Len(one) = 1
  OBVIOUS
<1> HIDE DEF one
<1>11. /\ WellFormed(m) /\ ArchsIn(m) = {x} /\ Len(m.map) = 1 /\ \A b \in {x} : NamesFor(m, b) = D
  <2> DEFINE q == OneArray(one, DefaultTargets)
  <2>1. WellFormed(q) /\ ArchsIn(q) = ToSet(one) /\ Len(q.map) = Len(one)
    BY <1>7, <1>8, OneArrayIs
  <2>2. \A b \in ToSet(one) : NamesFor(q, b) = ToSet(DefaultTargets)
    BY <1>7, <1>8, OneArrayIs
  <2> HIDE DEF q
  <2>3. m = q
    BY <1>9 DEF q
  <2> QED
    BY <1>7, <1>10, <2>1, <2>2, <2>3
<1>12. Outcome(D) = D
  <2>1. \A y \in D : Expanded(y) = {y}
    BY TargetsAssumption DEF Expanded
  <2>2. UNION {Expanded(y) : y \in D} = D
    BY <2>1
  <2> QED
    BY <2>2 DEF Outcome
<1> HIDE DEF D
<1>13. Plan(m, Len(m.map)) = {x} \X (D \ {"dir"})
  <2>1. Plan(m, Len(m.map)) = UNION {{a} \X (Outcome(NamesFor(m, a)) \ {"dir"}) : a \in {x}}
    BY <1>11, PlanIs
  <2> QED
    BY <1>11, <1>12, <2>1
<1>14. Pairs({x} \X D) = {x} \X (D \ {"dir"})
  BY DEF Pairs
<1>15. AllDiffer(m)
  <2>1. \A i \in 1..Len(m.map) : NamesAt(m, i) = NamesFor(m, m.map[i].arch) /\ m.map[i].arch \in ArchsIn(m)
    BY <1>11, NamesAre DEF ArchsIn
  <2> QED
    BY <1>8, <1>11, <2>1 DEF AllDiffer, D
<1> QED
  BY <1>5, <1>11, <1>13, <1>14, <1>15

LEMMA TargetsProcessedStep == TargetsInv /\ TargetsProcessed => TargetsInv'
<1> SUFFICES ASSUME TargetsInv, TargetsProcessed PROVE TargetsInv'
  OBVIOUS
<1> DEFINE ts == targetRequest.target
           n == Len(archToType)
<1>1. /\ targetRequest \in TargetRequests /\ targetPhase = "target" /\ WellFormed(Now)
      /\ built = <<>> /\ nameToTarget = <<>> /\ upNext > Len(ts) /\ (upNext = 1 => ~AnyNamed)
      /\ FromTypes \/ JustDir \/ FromTarget
  BY DEF TargetsInv, TargetsProcessed
<1>2. FromTarget
  BY <1>1, NamedThere DEF FromTypes, JustDir
<1>3. ts \in Seq(TargetItems)
  BY <1>1, RequestTyped
<1>4. upNext - 1 = Len(ts)
  BY <1>1, <1>2, <1>3 DEF FromTarget
<1>5. /\ Types = <<>> /\ ~targetRequest.dir
      /\ ArchsIn(Now) = GivenArchs \union ForSome(ts, Len(ts), UsualArchs)
      /\ ~ArraysShared => Filled(Now, ts, Len(ts), GivenArchs, UsualArchs)
  BY <1>2, <1>4 DEF FromTarget
<1>6. /\ targetRequest' = targetRequest /\ targetPhase' = "build" /\ upNext' = 1
      /\ built' = <<>> /\ nameToTarget' = <<>>
  BY <1>1 DEF TargetsProcessed
<1>7. (ArraysShared' <=> ArraysShared) /\ (TwiceAsked' <=> TwiceAsked) /\ Asked' = Asked
  BY <1>6, SameRequest
<1>8. archToType \in Seq(Entries) /\ Now.map = archToType
  BY <1>1 DEF WellFormed, Maps, Now
<1>9. WellFormed(Now') /\ Planned'
  <2>1. CASE archToType # <<>>
    <3>1. Now' = Now /\ archToType' = archToType
      BY <2>1 DEF TargetsProcessed, Now
    <3>2. ArchsIn(Now) # {}
      <4>1. 1 \in 1..Len(archToType)
        BY <1>8, <2>1, EmptySeq
      <4> QED
        BY <1>8, <4>1 DEF ArchsIn
    <3>3. ASSUME ~ArraysShared
          PROVE  Plan(Now, Len(Now.map)) = Pairs(Asked) /\ (~TwiceAsked => AllDiffer(Now))
      <4>1. Filled(Now, ts, Len(ts), GivenArchs, UsualArchs)
        BY <1>5, <3>3
      <4>2. GivenList = ts
        BY <1>5 DEF GivenList, Types
      <4>3. Plan(Now, Len(Now.map)) = Pairs(Asked)
        BY <1>1, <1>5, <3>2, <4>1, PlanFromTarget DEF Types
      <4>4. ~TwiceAsked => AllDiffer(Now)
        BY <1>1, <4>1, <4>2, DifferentGiven
      <4> QED
        BY <4>3, <4>4
    <3> QED
      BY <1>1, <1>7, <1>8, <3>1, <3>3 DEF Planned
  <2>2. CASE archToType = <<>>
    <3> DEFINE x == IF LinuxElsewhere THEN "x64" ELSE RawArchs[1]
               m == OneArray(<<x>>, DefaultTargets)
    <3>1. archToType' = <<[arch |-> x, array |-> 1]>> /\ arrays' = <<DefaultTargets>>
      BY <2>2 DEF TargetsProcessed
    <3> HIDE DEF x
    <3>2. <<[arch |-> x, array |-> 1]>> = [i \in DOMAIN <<x>> |-> [arch |-> <<x>>[i], array |-> 1]]
      OBVIOUS
    <3>3. Now' = m
      BY <3>1, <3>2 DEF Now, OneArray
    <3>4. ArchsIn(Now) = {}
      <4>1. Len(Now.map) = 0 /\ 1..0 = {}
        BY <1>8, <2>2
      <4> QED
        BY <4>1 DEF ArchsIn
    <3> HIDE DEF m
    <3>5. WellFormed(m) /\ Len(m.map) = 1 /\ Plan(m, Len(m.map)) = Pairs(Asked) /\ AllDiffer(m)
      BY <1>1, <1>5, <3>4, PlannedByDefault DEF x, m
    <3>6. m.map = archToType'
      BY <3>3 DEF Now
    <3> QED
      BY <1>7, <3>3, <3>5, <3>6 DEF Planned
  <2> QED
    BY <2>1, <2>2
<1>10. BuiltSoFar'
  <2>1. Len(archToType') \in Nat
    BY <1>9 DEF WellFormed, Maps, Now
  <2>2. upNext' - 1 = 0 /\ 1..0 = {} /\ upNext' \in 1..(Len(archToType') + 1)
    BY <1>6, <2>1
  <2>3. <<>> \in Seq(BuiltItems) /\ <<>> \in Seq(NamedTargets) /\ Len(<<>>) = 0
    OBVIOUS
  <2>4. ToSet(<<>>) = {} /\ IsInjective(<<>>)
    BY OneOrNone DEF Enumerates
  <2>5. PairsOf(<<>>) = {} /\ NamesIn(<<>>) = {}
    BY <2>2, <2>3, <2>4 DEF PairsOf, NamesIn
  <2>6. {p[2] : p \in PairsOf(<<>>)} = {}
    BY <2>5
  <2>7. Plan(Now', upNext' - 1) = {}
    BY <2>2 DEF Plan
  <2> QED
    BY <1>6, <2>2, <2>3, <2>4, <2>5, <2>6, <2>7 DEF BuiltSoFar
<1> QED
  BY <1>1, <1>6, <1>9, <1>10 DEF TargetsInv

LEMMA CreateStep == TargetsInv /\ CreateTargets => TargetsInv'
<1> SUFFICES ASSUME TargetsInv, CreateTargets PROVE TargetsInv'
  OBVIOUS
<1> DEFINE k == upNext
           m == Now
           arch == archToType[k].arch
           names == Normalized(TargetNames(k))
           K == ToSet(names) \ {"dir"}
           list == Filtered(names, K)
           n == Len(archToType)
<1>1. /\ targetRequest \in TargetRequests /\ targetPhase = "build" /\ WellFormed(m)
      /\ Planned /\ BuiltSoFar /\ k <= n
  BY DEF TargetsInv, CreateTargets
<1>2. /\ targetRequest' = targetRequest /\ targetPhase' = "build" /\ upNext' = k + 1
      /\ archToType' = archToType /\ arrays' = arrays
      /\ nameToTarget' = WithTargets(nameToTarget, list, arch)
      /\ built' = built \o [i \in DOMAIN list |-> [arch |-> arch, name |-> list[i]]]
  BY <1>1 DEF CreateTargets
<1>3. /\ k \in 1..(n + 1) /\ built \in Seq(BuiltItems) /\ PairsOf(built) = Plan(m, k - 1)
      /\ (AllDiffer(m) => IsInjective(built)) /\ nameToTarget \in Seq(NamedTargets)
      /\ NamesIn(nameToTarget) = {p[2] : p \in PairsOf(built)}
  BY <1>1 DEF BuiltSoFar
<1>4. n \in Nat /\ m.map = archToType
  BY <1>1 DEF WellFormed, Maps, Now
<1>5. k \in 1..n /\ k + 1 \in 1..(n + 1) /\ (k + 1) - 1 = k /\ 1..k = (1..(k - 1)) \union {k}
      /\ 1..(k - 1) \subseteq 1..n /\ k \notin 1..(k - 1)
  BY <1>1, <1>3, <1>4
<1>6. TargetNames(k) = Chosen(m, k) /\ arch = m.map[k].arch
  BY DEF TargetNames, Chosen, Now
<1> HIDE DEF m, k, n
<1>7. /\ names \in Seq(KnownTargets) /\ arch \in ArchSet
      /\ ForEntry(m, k) = {arch} \X (ToSet(names) \ {"dir"})
      /\ AllDiffer(m) => IsInjective(names)
  <2>1. k \in 1..Len(m.map)
    BY <1>4, <1>5 DEF n
  <2>2. /\ Normalized(Chosen(m, k)) \in Seq(KnownTargets) /\ m.map[k].arch \in ArchSet
        /\ OneSpelling(NamesAt(m, k)) => IsInjective(Normalized(Chosen(m, k)))
    BY <1>1, <2>1, ChosenIs
  <2> QED
    BY <1>6, <2>1, <2>2 DEF ForEntry, AllDiffer
<1> HIDE DEF names, arch, K
<1>8. list \in Seq(KnownTargets) /\ ToSet(list) = K /\ (IsInjective(names) => IsInjective(list))
  <2>1. KeptIn(names, KnownTargets, K, list)
    BY <1>7, KeptIs
  <2>2. ToSet(names) \cap K = K
    BY DEF K
  <2> QED
    BY <2>1, <2>2 DEF KeptIn
<1> HIDE DEF list
<1>9. /\ built' \in Seq(BuiltItems) /\ PairsOf(built') = PairsOf(built) \union ({arch} \X K)
      /\ IsInjective(built) /\ IsInjective(list) /\ (\A p \in PairsOf(built) : p[1] # arch)
           => IsInjective(built')
  <2> DEFINE r == built'
  <2>1. r = built \o [i \in DOMAIN list |-> [arch |-> arch, name |-> list[i]]]
    BY <1>2
  <2> HIDE DEF r
  <2>2. Builds(built, arch, list, r)
    BY <1>3, <1>7, <1>8, <2>1, BuildsMore
  <2> QED
    BY <1>8, <2>2 DEF r, Builds
<1>10. PairsOf(built') = Plan(m, k)
  <2>1. Plan(m, k) = Plan(m, k - 1) \union ForEntry(m, k)
    BY <1>5 DEF Plan
  <2> QED
    BY <1>3, <1>7, <1>9, <2>1 DEF K
<1>11. \A p \in PairsOf(built) : p[1] # arch
  <2> SUFFICES ASSUME NEW p \in Plan(m, k - 1) PROVE p[1] # arch
    BY <1>3
  <2>1. PICK i \in 1..(k - 1) : p \in ForEntry(m, i)
    BY DEF Plan
  <2>2. p[1] = m.map[i].arch
    BY <2>1 DEF ForEntry
  <2>3. i \in 1..Len(m.map) /\ k \in 1..Len(m.map) /\ i # k
    BY <1>4, <1>5 DEF n
  <2>4. m.map[i].arch # m.map[k].arch
    BY <1>1, <2>3 DEF WellFormed
  <2> QED
    BY <1>6, <2>2, <2>4
<1>12. AllDiffer(m) => IsInjective(built')
  BY <1>3, <1>7, <1>8, <1>9, <1>11
<1>13. /\ nameToTarget' \in Seq(NamedTargets)
       /\ NamesIn(nameToTarget') = NamesIn(nameToTarget) \union K
  BY <1>2, <1>3, <1>7, <1>8, WithTargetsIs
<1>14. {p[2] : p \in PairsOf(built')} = {p[2] : p \in PairsOf(built)} \union K
  <2> DEFINE More == PairsOf(built)
             C == {arch} \X K
  <2>1. {p[2] : p \in C} = K
    <3>1. \A y \in K : <<arch, y>> \in C /\ <<arch, y>>[2] = y
      OBVIOUS
    <3>2. \A p \in C : p[2] \in K
      OBVIOUS
    <3> HIDE DEF C
    <3> QED
      BY <3>1, <3>2
  <2>2. PairsOf(built') = More \union C
    BY <1>9
  <2> HIDE DEF More, C
  <2>3. {p[2] : p \in More \union C} = {p[2] : p \in More} \union {p[2] : p \in C}
    OBVIOUS
  <2> QED
    BY <2>1, <2>2, <2>3 DEF More
<1>15. /\ m' = m /\ (ArraysShared' <=> ArraysShared) /\ (TwiceAsked' <=> TwiceAsked) /\ Asked' = Asked
  BY <1>2, SameRequest DEF m, Now
<1>16. Planned'
  BY <1>1, <1>2, <1>15 DEF Planned, m
<1>17. BuiltSoFar'
  BY <1>2, <1>3, <1>5, <1>9, <1>10, <1>12, <1>13, <1>14, <1>15 DEF BuiltSoFar, m, k, n
<1> QED
  BY <1>1, <1>2, <1>15, <1>16, <1>17 DEF TargetsInv, m

LEMMA FinishStep == TargetsInv /\ FinishBuilds => TargetsInv'
<1> SUFFICES ASSUME TargetsInv, FinishBuilds PROVE TargetsInv'
  OBVIOUS
<1>1. /\ targetRequest \in TargetRequests /\ WellFormed(Now) /\ Planned /\ BuiltSoFar
      /\ upNext > Len(archToType)
  BY DEF TargetsInv, FinishBuilds
<1>2. /\ targetRequest' = targetRequest /\ targetPhase' = "end" /\ upNext' = upNext
      /\ built' = built /\ nameToTarget' = nameToTarget
      /\ archToType' = archToType /\ arrays' = arrays
  BY DEF FinishBuilds
<1>3. /\ (ArraysShared' <=> ArraysShared) /\ (TwiceAsked' <=> TwiceAsked) /\ Asked' = Asked
      /\ Now' = Now
  BY <1>2, SameRequest DEF Now
<1>4. Planned'
  BY <1>1, <1>2, <1>3 DEF Planned
<1>5. BuiltSoFar'
  BY <1>1, <1>2, <1>3 DEF BuiltSoFar
<1>6. upNext = Len(archToType) + 1
  <2>1. Len(archToType) \in Nat
    BY <1>1 DEF WellFormed, Maps, Now
  <2> QED
    BY <1>1, <2>1 DEF BuiltSoFar
<1> QED
  BY <1>1, <1>2, <1>3, <1>4, <1>5, <1>6 DEF TargetsInv

\* Every reachable state satisfies the invariant of its phase.
THEOREM TargetsInvariant == TargetsSpec => []TargetsInv
<1>1. TargetsInv /\ [TargetsNext]_targetsVars => TargetsInv'
  <2> SUFFICES ASSUME TargetsInv, [TargetsNext]_targetsVars PROVE TargetsInv'
    OBVIOUS
  <2>1. CASE TargetsNext
    BY <2>1, NoTypesStep, TypeStep, TypesProcessedStep, RawStep, TargetStep, TargetsProcessedStep,
       CreateStep, FinishStep DEF TargetsNext
  <2>2. CASE UNCHANGED targetsVars
    <3>1. /\ targetRequest' = targetRequest /\ targetPhase' = targetPhase /\ upNext' = upNext
          /\ built' = built /\ nameToTarget' = nameToTarget
          /\ archToType' = archToType /\ arrays' = arrays
      BY <2>2 DEF targetsVars
    <3>2. Now' = Now /\ UsualArchs' = UsualArchs /\ GivenArchs' = GivenArchs /\ Asked' = Asked
          /\ (ArraysShared' <=> ArraysShared) /\ (TwiceAsked' <=> TwiceAsked)
          /\ SharedSet' = SharedSet /\ Types' = Types
      BY <3>1, SameRequest DEF Now
    <3>3. (TypesSoFar' <=> TypesSoFar) /\ (FromTypes' <=> FromTypes) /\ (JustDir' <=> JustDir)
          /\ (FromTarget' <=> FromTarget) /\ (Planned' <=> Planned) /\ (BuiltSoFar' <=> BuiltSoFar)
      BY <3>1, <3>2 DEF TypesSoFar, FromTypes, JustDir, FromTarget, Planned, BuiltSoFar
    <3> QED
      BY <3>1, <3>2, <3>3 DEF TargetsInv
  <2> QED
    BY <2>1, <2>2
<1> QED
  BY <1>1, TargetsStart, PTL DEF TargetsSpec

(***************************************************************************)
(* What is built at the end are the pairs of an architecture and a target  *)
(* that the command line asks for or, if it names no target, the           *)
(* configuration; each once, unless "default" or two spellings of a name   *)
(* are among them, and each name has a target (normalizeOptions,           *)
(* computeArchToTargetNamesMap and createTargets).  It is not stated of    *)
(* architectures that share an array while the configuration has targets   *)
(* of its own for some of them (ArraysShared).                             *)
(***************************************************************************)
THEOREM BuiltAsAsked == TargetsSpec => []TargetsAsAsked
<1>1. TargetsInv => TargetsAsAsked
  <2> SUFFICES ASSUME TargetsInv, targetPhase = "end", ~ArraysShared
               PROVE  /\ BuiltPairs = Pairs(Asked)
                      /\ ~TwiceAsked => IsInjective(built)
                      /\ ToSet([i \in DOMAIN nameToTarget |-> nameToTarget[i].name])
                           = {p[2] : p \in BuiltPairs}
    BY DEF TargetsAsAsked
  <2>1. Planned /\ BuiltSoFar /\ upNext = Len(archToType) + 1 /\ WellFormed(Now)
    BY DEF TargetsInv
  <2>2. upNext - 1 = Len(archToType)
    <3>1. Len(archToType) \in Nat
      BY <2>1 DEF WellFormed, Maps, Now
    <3> QED
      BY <2>1, <3>1
  <2>3. BuiltPairs = PairsOf(built)
    BY DEF BuiltPairs, PairsOf
  <2>4. BuiltPairs = Pairs(Asked) /\ (~TwiceAsked => IsInjective(built))
    BY <2>1, <2>2, <2>3 DEF Planned, BuiltSoFar
  <2>5. ToSet([i \in DOMAIN nameToTarget |-> nameToTarget[i].name]) = NamesIn(nameToTarget)
    <3>1. DOMAIN nameToTarget = 1..Len(nameToTarget)
      BY <2>1 DEF BuiltSoFar
    <3> QED
      BY <3>1 DEF ToSet, NamesIn
  <2> QED
    BY <2>1, <2>3, <2>4, <2>5 DEF BuiltSoFar
<1> QED
  BY <1>1, TargetsInvariant, PTL
=============================================================================
