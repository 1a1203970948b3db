----------------------------- MODULE Publishing -----------------------------
(***************************************************************************)
(* PublishManager: what a build publishes, and where.  Four places decide  *)
(* it from the "publish" options, at different times: the handler after    *)
(* packing, which writes into the application where to look for updates    *)
(* (app-update.yml); the handler of an artifact; the update information of *)
(* the artifacts, at the end; and the web installer, which holds the url   *)
(* of its packages.                                                        *)
(*                                                                         *)
(* Cancellation and the order of the tasks are of module Build, the names  *)
(* in an update information of UpdateInfo, an upload to GitHub of          *)
(* GitHubPublisher.  A build that fails is not followed further.           *)
(***************************************************************************)
EXTENDS Integers, SequencesExt

CONSTANTS
    PublishSettings, \* records: [policy, and the conditions release, tag, ci, pullRequest,
                     \*   forced of the environment, tokens, repository, windows, archs,
                     \*   targets, global, platform, and own |-> "publish" of each target,
                     \*   extra |-> whether afterAllArtifactBuild returns a file]
    NotSet, Null,    \* undefined and null of JavaScript
    AnyArch

\* An option of "publish": named |-> it says which repository, or needs none; perArch |->
\* ${arch} is in it; info |-> publishAutoUpdate.
Options(publish) == IF publish \in {NotSet, Null} THEN {} ELSE ToSet(publish)

ASSUME PublishingAssumption ==
    \A s \in PublishSettings :
        /\ s.policy \in {NotSet, "onTag", "onTagOrDraft", "always", "never"}
        /\ s.tokens \subseteq {"github", "bintray"}
        /\ s.repository \in {Null, "github", "other"}
        /\ s.windows \/ "nsis-web" \notin s.targets
        /\ \A l \in {s.global, s.platform} \ {NotSet, Null} : l \in Seq(ToSet(l))
        /\ \A o \in Options(s.global) \union Options(s.platform) :
               o.named \/ o.provider \in {"github", "bintray"}

VARIABLES
    publishSetting,
    publishStage, \* "building", "awaiting", "writing", "published" or "failed"
    appUpdate,    \* of each architecture: NotSet, or a sequence of at most one
                  \*   configuration, which its app-update.yml holds
    created,      \* artifacts whose event was emitted
    scheduled,    \* those whose publish configurations are resolved
    withInfo,     \* those that await createUpdateInfoTasks
    infoTasks,    \* updateFileWriteTask: <<update information, artifact>>
    infoWritten,  \* update informations that are written
    onDisk,       \* those that are still what their file holds
    infoAt,       \* <<configuration, the update information that arrived there last>>
    packageUrl,   \* APP_PACKAGE_URL of the web installer
    uploads,      \* <<configuration, file>> that a publisher was given
    arrived       \* those of them that are done

infoFileVars == <<onDisk, infoAt>>
publishingVars == <<publishSetting, publishStage, appUpdate, created, scheduled, withInfo,
                    infoTasks, infoWritten, infoFileVars, packageUrl, uploads, arrived>>

-----------------------------------------------------------------------------
\* Artifacts: an installer for all architectures, a file for each.
Installers == {"nsis", "nsis-web", "portable"}

Artifact(t, arch, kind) == [target |-> t, arch |-> arch, kind |-> kind]

ArtifactsOf(t) ==
    LET archs == publishSetting.archs
        one == IF Cardinality(archs) = 1 THEN CHOOSE a \in archs : TRUE ELSE AnyArch
        files == {Artifact(t, a, IF t = "nsis-web" THEN "package" ELSE "archive") : a \in archs}
    IN  (IF t \in Installers THEN {Artifact(t, one, "installer")} ELSE {})
        \union (IF t \in {"nsis", "portable"} THEN {} ELSE files)

\* What afterAllArtifactBuild returns
ExtraFile == Artifact("all", AnyArch, "extra")

\* An update information is of a configuration, in a file that the first configuration of
\* an artifact has in the output directory, the others and Bintray in one of the provider;
\* the file tells the channel, but no architecture on Windows and macOS.
ChannelInfo(dir, c) == [dir |-> dir, config |-> c]
DirOf(c, isFirst) == IF isFirst /\ c.provider # "bintray" THEN "out" ELSE c.provider
FirstInfo(c) == ChannelInfo(DirOf(c, TRUE), c)
InfoFile(dir) == Artifact(dir, AnyArch, "info")

BuiltFiles == UNION {ArtifactsOf(t) : t \in publishSetting.targets}

\* isSuitableWindowsTarget, and "dmg" and "zip" for macOS
Suitable(t) == t \in (IF publishSetting.windows THEN {"nsis", "nsis-web"} ELSE {"dmg", "zip"})
WritesInfo(f) == Suitable(f.target) /\ f.kind # "package"

-----------------------------------------------------------------------------
\* The constructor
Policy ==
    LET s == publishSetting
        byDefault == IF s.release THEN "always" ELSE IF s.tag THEN "onTag"
                     ELSE IF s.ci THEN "onTagOrDraft" ELSE NotSet
    IN  IF s.policy # NotSet THEN s.policy ELSE byDefault

IsPublish ==
    /\ publishSetting.pullRequest => publishSetting.forced
    /\ Policy \notin {NotSet, "never"}
    /\ Policy = "onTag" => publishSetting.tag

-----------------------------------------------------------------------------
\* getPublishConfigs and what it calls

\* The most specific one; null ends the search like a value does.
Publishers(own) ==
    IF own # NotSet THEN own
    ELSE IF publishSetting.platform # NotSet THEN publishSetting.platform
    ELSE publishSetting.global

DetectedAs(provider) == [provider |-> provider, named |-> FALSE, perArch |-> FALSE, info |-> TRUE]

ByToken ==
    IF "github" \in publishSetting.tokens THEN <<DetectedAs("github")>>
    ELSE IF "bintray" \in publishSetting.tokens THEN <<DetectedAs("bintray")>> ELSE <<>>

ListOf(publishers) == IF publishers = NotSet THEN ByToken ELSE publishers

Unknown(o) == ~o.named /\ publishSetting.repository = Null

\* Null for an unknown repository; it is an error if the build publishes.
Resolved(o, arch) ==
    IF Unknown(o) THEN Null
    ELSE [provider |-> o.provider, named |-> o.named, info |-> o.info,
          arch |-> IF o.perArch THEN arch ELSE AnyArch]

\* Of publishers that are not null.
Configs(publishers, arch) ==
    [i \in DOMAIN ListOf(publishers) |-> Resolved(ListOf(publishers)[i], arch)]

Unresolvable(publishers, errorIfCannot) ==
    errorIfCannot /\ publishers # Null /\ \E o \in ToSet(ListOf(publishers)) : Unknown(o)

\* "file should be generated regardless of publish state"
ForUpdateInfo(configs) ==
    IF configs = <<>> /\ publishSetting.repository = "github"
    THEN <<Resolved(DetectedAs("github"), AnyArch)>> ELSE configs

\* getGlobalPublishConfigurations takes null for undefined.
GlobalPublishers ==
    IF publishSetting.global = Null THEN NotSet ELSE publishSetting.global

-----------------------------------------------------------------------------
\* scheduleUpload
HasPublisher(c) ==
    /\ c.provider # "generic"
    /\ Policy = "onTagOrDraft" /\ ~publishSetting.tag => c.provider \in {"github", "bintray"}

\* The constructor of a publisher throws.
NoToken(c) == c.provider \in {"github", "bintray"} \ publishSetting.tokens

CannotSchedule(configs) == IsPublish /\ \E c \in configs : NoToken(c)

Schedule(configs, file) ==
    uploads' = uploads \union
        {<<c, file>> : c \in {d \in configs : IsPublish /\ HasPublisher(d)}}

-----------------------------------------------------------------------------
PublishingInit ==
    /\ publishSetting \in PublishSettings
    /\ publishStage = "building" /\ packageUrl = NotSet
    /\ appUpdate = [a \in publishSetting.archs |-> NotSet]
    /\ created = {} /\ scheduled = {} /\ withInfo = {} /\ infoTasks = {} /\ infoWritten = {}
    /\ onDisk = {} /\ infoAt = {}
    /\ uploads = {} /\ arrived = {}

FailBuild ==
    /\ publishStage' = "failed"
    /\ UNCHANGED <<publishSetting, appUpdate, created, scheduled, withInfo, infoTasks,
                   infoWritten, infoFileVars, packageUrl, uploads, arrived>>

AppConfigsOfAll(arch) == ForUpdateInfo(Configs(Publishers(NotSet), AnyArch))  \* mutant

AppConfigs(arch) == ForUpdateInfo(Configs(Publishers(NotSet), arch))

\* The handler after packing
WriteAppUpdate(arch) ==
    LET aware == \E t \in publishSetting.targets : Suitable(t)
        without == ~aware \/ Publishers(NotSet) = Null \/ AppConfigs(arch) = <<>>
    IN  /\ publishStage = "building" /\ appUpdate[arch] = NotSet
        /\ IF aware /\ Unresolvable(Publishers(NotSet), IsPublish)
           THEN FailBuild
           ELSE /\ appUpdate' = [appUpdate EXCEPT
                       ![arch] = IF without THEN <<>> ELSE <<AppConfigs(arch)[1]>>]
                /\ UNCHANGED <<publishSetting, publishStage, created, scheduled, withInfo,
                               infoTasks, infoWritten, infoFileVars, packageUrl, uploads,
                               arrived>>

\* WebInstallerTarget hands on the whole configuration for the options of the target.
WebPublishers == Publishers(publishSetting.global)
WebConfigs == ForUpdateInfo(Configs(WebPublishers, AnyArch))

BuildArtifact(f) ==
    /\ publishStage = "building" /\ f \in BuiltFiles \ created
    /\ \A a \in publishSetting.archs : f.arch \in {a, AnyArch} => appUpdate[a] # NotSet
    /\ LET web == f.target = "nsis-web" /\ f.kind = "installer"
       IN  IF web /\ (WebPublishers = Null \/ WebConfigs = <<>> \/ Null \in ToSet(WebConfigs))
           THEN FailBuild
           ELSE /\ created' = created \union {f}
                /\ packageUrl' = IF web THEN WebConfigs[1] ELSE packageUrl
                /\ UNCHANGED <<publishSetting, publishStage, appUpdate, scheduled, withInfo,
                               infoTasks, infoWritten, infoFileVars, uploads, arrived>>

PublishersOf(f) == Publishers(publishSetting.own[f.target])
InfoConfigs(f) == ForUpdateInfo(Configs(PublishersOf(f), f.arch))

\* artifactCreatedWithoutExplicitPublishConfig, once the configurations are there
ScheduleArtifact(f) ==
    LET publishers == PublishersOf(f)
        places == IF publishers = Null THEN {} ELSE ToSet(Configs(publishers, f.arch))
    IN  /\ publishStage # "failed" /\ f \in created \ scheduled
        /\ IF Unresolvable(publishers, IsPublish) \/ CannotSchedule(places)
           THEN FailBuild
           ELSE /\ scheduled' = scheduled \union {f}
                /\ Schedule(places, f)
                /\ withInfo' = IF WritesInfo(f) /\ publishers # Null
                               THEN withInfo \union {f} ELSE withInfo
                /\ UNCHANGED <<publishSetting, publishStage, appUpdate, created, infoTasks,
                               infoWritten, infoFileVars, packageUrl, arrived>>

\* createdFiles: of configurations with one file, the first has it.
InfosOf(f) ==
    LET configs == InfoConfigs(f)
        dir(n) == DirOf(configs[n], n = 1)
    IN  {ChannelInfo(dir(n), configs[n]) :
             n \in {m \in DOMAIN configs : \A k \in 1..(m - 1) : dir(k) # dir(m)}}

\* createUpdateInfoTasks
AddInfoTasks(f) ==
    /\ publishStage # "failed" /\ f \in withInfo
    /\ IF Null \in ToSet(InfoConfigs(f))
       THEN FailBuild
       ELSE /\ withInfo' = withInfo \ {f}
            /\ infoTasks' = infoTasks \union {<<i, f>> : i \in InfosOf(f)}
            /\ UNCHANGED <<publishSetting, publishStage, appUpdate, created, scheduled,
                           infoWritten, infoFileVars, packageUrl, uploads, arrived>>

\* Packager.build has resolved: what afterAllArtifactBuild returns is published as well.
EndBuild ==
    LET configs == IF publishSetting.extra /\ IsPublish
                   THEN ToSet(Configs(GlobalPublishers, AnyArch)) ELSE {}
    IN  /\ publishStage = "building" /\ created = BuiltFiles
        /\ \A a \in publishSetting.archs : appUpdate[a] # NotSet
        /\ IF Null \in configs \/ CannotSchedule(configs)
           THEN FailBuild
           ELSE /\ publishStage' = "awaiting"
                /\ Schedule(configs, ExtraFile)
                /\ UNCHANGED <<publishSetting, appUpdate, created, scheduled, withInfo,
                               infoTasks, infoWritten, infoFileVars, packageUrl, arrived>>

\* S3 and Spaces are given the path of a file, the others what was to be written there.
UploadsByPath(c) == c.provider \notin {"github", "bintray"}

Sent(c, dir) ==
    IF UploadsByPath(c) THEN CHOOSE i \in onDisk : i.dir = dir ELSE ChannelInfo(dir, c)

EndUpload(u) ==
    /\ publishStage # "failed" /\ u \in uploads \ arrived
    /\ \/ FailBuild
       \/ /\ arrived' = arrived \union {u}
          /\ infoAt' = IF u[2].kind # "info" THEN infoAt
                       ELSE {x \in infoAt : x[1] # u[1]} \union {<<u[1], Sent(u[1], u[2].target)>>}
          /\ UNCHANGED <<publishSetting, publishStage, appUpdate, created, scheduled,
                         withInfo, infoTasks, infoWritten, onDisk, packageUrl, uploads>>

\* awaitTasks
Advance ==
    /\ publishStage \in {"awaiting", "writing"}
    /\ created = scheduled /\ withInfo = {} /\ uploads = arrived
    /\ \/ publishStage = "awaiting" /\ infoTasks # {} /\ publishStage' = "writing"
       \/ /\ \A t \in infoTasks : t[1].config.info => t[1] \in infoWritten
          /\ publishStage = "awaiting" => infoTasks = {}
          /\ publishStage' = "published"
    /\ UNCHANGED <<publishSetting, appUpdate, created, scheduled, withInfo, infoTasks,
                   infoWritten, infoFileVars, packageUrl, uploads, arrived>>

\* writeUpdateInfoFiles: an update information is written, over what its file may hold of
\* another configuration, and, as an artifact with an explicit configuration, uploaded.
PublishInfo(i) ==
    /\ publishStage = "writing" /\ i.config.info /\ i \notin infoWritten
    /\ IF CannotSchedule({i.config})
       THEN FailBuild
       ELSE /\ infoWritten' = infoWritten \union {i}
            /\ onDisk' = {j \in onDisk : j.dir # i.dir} \union {i}
            /\ Schedule({i.config}, InfoFile(i.dir))
            /\ UNCHANGED <<publishSetting, publishStage, appUpdate, created, scheduled,
                           withInfo, infoTasks, infoAt, packageUrl, arrived>>

PublishingNext ==
    \/ \E a \in publishSetting.archs : WriteAppUpdate(a)
    \/ \E f \in BuiltFiles : BuildArtifact(f) \/ ScheduleArtifact(f) \/ AddInfoTasks(f)
    \/ EndBuild \/ Advance
    \/ \E u \in uploads : EndUpload(u)
    \/ \E t \in infoTasks : PublishInfo(t[1])

PublishingSpec == PublishingInit /\ [][PublishingNext]_publishingVars

-----------------------------------------------------------------------------
\* Files for a place get there: the build publishes, something uploads to the provider,
\* and it has drafts or there is a tag.
IsUploadedTo(c) ==
    /\ IsPublish /\ c.provider # "generic"
    /\ publishSetting.tag \/ Policy # "onTagOrDraft" \/ c.provider \in {"github", "bintray"}

\* Another update information goes to the same place, or into the file the place gets.
Shared(i) ==
    \E t \in infoTasks :
        /\ t[1] # i /\ t[1].config.info
        /\ t[1].config = i.config \/ (t[1].dir = i.dir /\ UploadsByPath(i.config))

(***************************************************************************)
(* What an installed application looks for is there: the place in          *)
(* app-update.yml gets the artifact and an update information that lists   *)
(* it (if its publishAutoUpdate is not false: "Auto update relies only on  *)
(* the first provider in the list"), and without an app-update.yml there   *)
(* is no update information.  The exceptions:                              *)
(*   - the target has a "publish" of its own;                              *)
(*   - one installer is for architectures that the options tell apart;     *)
(*   - of an empty list of publishers, the artifact has no place to go to, *)
(*     but GitHub is in app-update.yml if the repository is there;         *)
(*   - update informations share a file or a place, as those of two        *)
(*     architectures do with ${arch} in the options of S3: they are all    *)
(*     written to one latest-mac.yml, and the place of one gets whichever  *)
(*     is there when it is uploaded.                                       *)
(***************************************************************************)
UpdatesAreFound ==
    publishStage = "published" =>
        \A arch \in publishSetting.archs : \A f \in BuiltFiles :
            /\ WritesInfo(f) /\ publishSetting.own[f.target] = NotSet
            /\ f.arch \in {arch, AnyArch}
            => IF appUpdate[arch] = <<>>
               THEN \A t \in infoTasks : t[2] # f
               ELSE LET c == appUpdate[arch][1]
                        i == FirstInfo(c)
                        goes == IsUploadedTo(c) /\ Publishers(NotSet) # <<>>
                    IN  f.arch = arch \/ c.arch = AnyArch =>
                            /\ c.info => i \in infoWritten /\ <<i, f>> \in infoTasks
                            /\ goes => <<c, f>> \in arrived
                            /\ goes /\ c.info /\ ~Shared(i) =>
                                   \E t \in infoTasks : t[2] = f /\ <<c, t[1]>> \in infoAt

\* The following do not hold.

(***************************************************************************)
(* The url of its packages in a web installer, "by default computed using  *)
(* publish configuration" (nsisOptions.ts:189), is where they are.         *)
(***************************************************************************)
PackagesAreFound ==
    publishStage = "published" /\ packageUrl # NotSet /\ IsUploadedTo(packageUrl) =>
        \A u \in arrived : u[2].kind = "package" => <<packageUrl, u[2]>> \in arrived

(***************************************************************************)
(* A build that is told not to publish does not fail because of what it    *)
(* would publish to: "error should be ignored because publish: never"      *)
(* (PublishManagerTest.ts:101).  A web installer needs it.                 *)
(***************************************************************************)
NeverFailsToPublish ==
    publishSetting.policy = "never" /\ "nsis-web" \notin publishSetting.targets =>
        publishStage # "failed"

(***************************************************************************)
(* "if explicitly set to null - do not publish" (PublishManager.ts:361).   *)
(***************************************************************************)
NullMeansNothing ==
    publishSetting.global = Null /\ publishSetting.platform = NotSet
    /\ (\A t \in publishSetting.targets : publishSetting.own[t] = NotSet) => uploads = {}
=============================================================================
