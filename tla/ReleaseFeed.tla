----------------------------- MODULE ReleaseFeed -----------------------------
(***************************************************************************)
(* From the builder to the updater: the update information that builds     *)
(* publish, release after release, and the check of an application that    *)
(* an earlier build made.  Both compute names of files and channels from   *)
(* the publish configuration, each in its own way.  The server is          *)
(* external; it keeps files under one address (generic, s3) or by release  *)
(* (github, private, bintray).                                             *)
(***************************************************************************)
EXTENDS Integers, FiniteSetsExt, Sequences

CONSTANTS
    Publications,  \* sequences of releases: [version |-> rank in semver's order, channel |->
                   \*   the prerelease component or "latest", prerelease |-> marked as such?]
    FeedSettings,  \* records: [provider, channel |-> or Unset, detect |-> detectUpdateChannel,
                   \*   all |-> generateUpdatesFilesForAllChannels, drafts |-> releaseType,
                   \*   os, archs |-> what is built, arch |-> that of the application]
    UserChannels,  \* the channels the application may set
    MaxRefusals,   \* bound on refused connections in one check
    Unset

Flat == {"generic", "s3"}
Github == {"github", "private"}

ASSUME ReleaseFeedAssumption ==
    /\ \A p \in Publications :
           /\ Len(p) \in Nat \ {0} /\ DOMAIN p = 1..Len(p)
           /\ \A n \in DOMAIN p : p[n].version \in Int /\ p[n].channel # Unset
           /\ \A m, n \in DOMAIN p : m # n => p[m].version # p[n].version
    /\ \A s \in FeedSettings :
           /\ s.provider \in Flat \union Github \union {"bintray"}
           /\ s.os \in {"win", "mac", "linux"} /\ s.arch \in s.archs
           /\ s.provider \notin Flat => s.channel = Unset

VARIABLES
    publication, feedSetting,
    begun,       \* the releases whose build has begun to upload
    assets,      \* what each release has on the server
    visible,     \* the releases that are no drafts (any more)
    installed,   \* the release the application is of
    userChannel, \* AppUpdater._channel
    check,       \* [at, attempt, release |-> the one it has found]
    refusals,
    quiet        \* nothing was published since the check began

feedServerVars == <<begun, assets, visible>>
appVars == <<installed, userChannel>>
feedVars == <<publication, feedSetting, feedServerVars, appVars, check, refusals, quiet>>

Provider == feedSetting.provider
Releases == DOMAIN publication
NoCheck == [at |-> "idle", attempt |-> 0, release |-> 0]

-----------------------------------------------------------------------------
\* The builder

\* getResolvedPublishConfig, and checkAndResolveOptions of S3Publisher
ResolvedChannel(r) ==
    IF feedSetting.channel # Unset THEN feedSetting.channel
    ELSE IF Provider \in Flat /\ feedSetting.detect /\ publication[r].channel # "latest"
         THEN publication[r].channel
    ELSE Unset

OwnChannelOnly(r) == {IF ResolvedChannel(r) = Unset THEN "latest" ELSE ResolvedChannel(r)} \* mutant

ChannelNames(r) ==
    LET current == IF ResolvedChannel(r) = Unset THEN "latest" ELSE ResolvedChannel(r)
    IN  {current} \union
        (IF current = "alpha" \/ Provider \in Github \/ ~feedSetting.all THEN {}
         ELSE IF current = "beta" THEN {"alpha"}
         ELSE IF current = "latest" THEN {"alpha", "beta"}
         ELSE {})

\* The name of an update file: its channel, system and architecture.
ArchPrefix(arch) ==
    IF feedSetting.os # "linux" \/ arch = "x64" THEN ""
    ELSE IF arch = "armv7l" THEN "arm" ELSE arch
OsSuffix == IF feedSetting.os = "win" THEN "" ELSE feedSetting.os
UpdateInfoFileName(channel, arch) == <<channel, OsSuffix, ArchPrefix(arch)>>

UpdateFiles(r) == {UpdateInfoFileName(c, a) : c \in ChannelNames(r), a \in feedSetting.archs}
Artifact(arch) == <<"artifact", arch>>
Files(r) == UpdateFiles(r) \union {Artifact(a) : a \in feedSetting.archs}

Complete(r) == assets[r] = Files(r)

BeginRelease ==
    /\ begun < Len(publication) /\ (begun > 0 => Complete(begun))
    /\ begun' = begun + 1
    /\ visible' = IF feedSetting.drafts THEN visible ELSE visible \union {begun + 1}
    /\ quiet' = FALSE
    /\ UNCHANGED <<publication, feedSetting, assets, appVars, check, refusals>>

\* Update files go last, where the builder uploads.
Upload(f) ==
    /\ begun > 0 /\ f \in Files(begun) \ assets[begun]
    /\ f \in UpdateFiles(begun) /\ Provider # "generic" =>
           Files(begun) \ UpdateFiles(begun) \subseteq assets[begun]
    /\ assets' = [assets EXCEPT ![begun] = @ \union {f}]
    /\ quiet' = FALSE
    /\ UNCHANGED <<publication, feedSetting, begun, visible, appVars, check, refusals>>

\* The author publishes a draft.
PublishDraft(r) ==
    /\ r \in 1..begun \ visible /\ Complete(r)
    /\ visible' = visible \union {r}
    /\ quiet' = FALSE
    /\ UNCHANGED <<publication, feedSetting, begun, assets, appVars, check, refusals>>

-----------------------------------------------------------------------------
\* The server

\* Which release a file under one address is of (0 if there is none).
ServedFile(f) == LET rs == {r \in 1..begun : f \in assets[r]} IN IF rs = {} THEN 0 ELSE Max(rs)
IsPrerelease(r) == r \in visible /\ publication[r].prerelease

-----------------------------------------------------------------------------
\* The updater

\* process.arch
ProcessArch == IF feedSetting.arch = "armv7l" THEN "arm" ELSE feedSetting.arch
ChannelFilePrefix ==
    IF feedSetting.os = "linux" THEN <<"linux", IF ProcessArch = "x64" THEN "" ELSE ProcessArch>>
    ELSE <<IF feedSetting.os = "mac" THEN "mac" ELSE "", "">>
CustomChannelName(channel) == <<channel>> \o ChannelFilePrefix

\* app-update.yml has the configuration that was resolved for the installed release.
ChannelFile ==
    CustomChannelName(
        IF Provider \notin Flat THEN "latest"
        ELSE IF userChannel # Unset THEN userChannel
        ELSE IF ResolvedChannel(installed) # Unset THEN ResolvedChannel(installed)
        ELSE "latest")

AllowPrerelease == publication[installed].channel # "latest"
AllowDowngrade == userChannel # Unset

Going == check.at \notin {"idle", "offered", "notAvailable", "error"}
Ends(at) == check' = [check EXCEPT !.at = at]
Goes(at, r) == check' = [check EXCEPT !.at = at, !.release = r]

\* isUpdateAvailable
Answer(r) ==
    LET new == publication[r].version
        current == publication[installed].version
    IN  check' = [check EXCEPT !.release = r,
                    !.at = IF new > current \/ (AllowDowngrade /\ new < current)
                           THEN "offered" ELSE "notAvailable"]

OnServer == UNCHANGED <<publication, feedSetting, feedServerVars, appVars, refusals, quiet>>

SetChannel(channel) ==
    /\ ~Going /\ Provider \in Flat
    /\ userChannel' = channel /\ check' = NoCheck
    /\ UNCHANGED <<publication, feedSetting, feedServerVars, installed, refusals, quiet>>

StartCheck ==
    /\ ~Going
    /\ check' = [NoCheck EXCEPT !.at = CASE Provider \in Flat -> "file"
                                         [] Provider = "github" -> "feed"
                                         [] Provider = "private" -> "releases"
                                         [] Provider = "bintray" -> "version"]
    /\ refusals' = 0 /\ quiet' = TRUE
    /\ UNCHANGED <<publication, feedSetting, feedServerVars, appVars>>

\* ECONNREFUSED: GenericProvider tries again, up to three times.
Refused ==
    /\ Going /\ refusals < MaxRefusals
    /\ refusals' = refusals + 1
    /\ IF Provider \in Flat /\ check.attempt < 3
       THEN check' = [check EXCEPT !.attempt = @ + 1]
       ELSE Ends("error")
    /\ UNCHANGED <<publication, feedSetting, feedServerVars, appVars, quiet>>

\* GenericProvider.getLatestVersion
RequestFile ==
    /\ check.at = "file"
    /\ IF ServedFile(ChannelFile) = 0 THEN Ends("error") ELSE Answer(ServedFile(ChannelFile))
    /\ OnServer

\* GitHubProvider.getLatestVersion: the feed, the latest release, and its channel file
ReadFeed ==
    /\ check.at = "feed"
    /\ IF visible = {} THEN Ends("error")
       ELSE IF AllowPrerelease THEN Goes("asset", Max(visible)) ELSE Goes("latest", 0)
    /\ OnServer

ReadLatest ==
    /\ check.at = "latest"
    /\ LET rs == {r \in visible : ~IsPrerelease(r)}
       IN  IF rs = {} THEN Ends("error") ELSE Goes("asset", Max(rs))
    /\ OnServer

\* PrivateGitHubProvider.getLatestVersionInfo: the list has drafts as well.
ReadReleases ==
    /\ check.at = "releases"
    /\ LET rs == IF ~AllowPrerelease THEN {r \in visible : ~IsPrerelease(r)}
                 ELSE IF \E r \in 1..begun : IsPrerelease(r) THEN {r \in 1..begun : IsPrerelease(r)}
                 ELSE 1..begun
       IN  IF rs = {} \/ ChannelFile \notin assets[Max(rs)] THEN Ends("error")
           ELSE Goes("asset", Max(rs))
    /\ OnServer

\* BintrayProvider.getLatestVersion: the version, its files, the channel file
ReadVersion ==
    /\ check.at = "version"
    /\ IF visible = {} THEN Ends("error") ELSE Goes("files", Max(visible))
    /\ OnServer

ReadVersionFiles ==
    /\ check.at = "files"
    /\ IF ChannelFile \notin assets[check.release] THEN Ends("error")
       ELSE Goes("asset", check.release)
    /\ OnServer

ReadAsset ==
    /\ check.at = "asset"
    /\ IF ChannelFile \in assets[check.release] THEN Answer(check.release) ELSE Ends("error")
    /\ OnServer

\* The release that was offered is downloaded and installed; it is another process.
InstallOffered ==
    /\ check.at = "offered"
    /\ installed' = check.release /\ userChannel' = Unset /\ check' = NoCheck
    /\ UNCHANGED <<publication, feedSetting, feedServerVars, refusals, quiet>>

FeedInit ==
    /\ publication \in Publications /\ feedSetting \in FeedSettings
    /\ begun = 1 /\ visible = {1}
    /\ assets = [r \in Releases |-> IF r = 1 THEN Files(1) ELSE {}]
    /\ installed = 1 /\ userChannel = Unset
    /\ check = NoCheck /\ refusals = 0 /\ quiet = TRUE

FeedNext ==
    \/ BeginRelease \/ (\E r \in Releases : PublishDraft(r))
    \/ \E f \in UNION {Files(r) : r \in Releases} : Upload(f)
    \/ \E c \in UserChannels : SetChannel(c)
    \/ StartCheck \/ Refused \/ RequestFile \/ ReadFeed \/ ReadLatest
    \/ ReadReleases \/ ReadVersion \/ ReadVersionFiles \/ ReadAsset \/ InstallOffered

FeedSpec == FeedInit /\ [][FeedNext]_feedVars

-----------------------------------------------------------------------------
\* What a release is for: "if this is a beta version, we need to generate both the alpha
\* and beta .yml file; if this is a stable version, all".

Stability(channel) == CASE channel = "latest" -> 0 [] channel = "beta" -> 1
                        [] channel = "alpha" -> 2 [] OTHER -> 3

ChannelOf(r) ==
    IF feedSetting.channel # Unset THEN feedSetting.channel
    ELSE IF feedSetting.detect THEN publication[r].channel ELSE "latest"

IsFor(r, channel) ==
    \/ channel = ChannelOf(r)
    \/ feedSetting.all /\ Stability(ChannelOf(r)) < Stability(channel) /\ Stability(channel) < 3

AppChannel == IF userChannel # Unset THEN userChannel ELSE ChannelOf(installed)

\* The releases an application has to be offered the last of.
Eligible ==
    CASE Provider \in Flat -> {r \in 1..begun : IsFor(r, AppChannel)}
      [] Provider \in Github /\ ~AllowPrerelease -> {r \in visible : ~publication[r].prerelease}
      [] OTHER -> visible

IsOffered(r) ==
    LET new == publication[r].version  current == publication[installed].version
    IN  new > current \/ (AllowDowngrade /\ new # current)

\* Private repositories: a prerelease is preferred to a newer release, and a draft is listed.
PrivatePrerelease == Provider = "private" /\ AllowPrerelease

(***************************************************************************)
(* An application finds what was published for it.  A check that no        *)
(* upload interferes with, and that is not refused too often, ends with    *)
(* the last release of its channel, or of a more stable one if files for   *)
(* all channels are generated; it fails only if there is none.  And at     *)
(* any time what a check offers is on the server, with the artifact for    *)
(* this application, if the builder did the uploading.                     *)
(***************************************************************************)
ReleaseIsFound ==
    /\ check.at = "offered" /\ Provider # "generic" =>
           Artifact(feedSetting.arch) \in assets[check.release]
    /\ quiet /\ Complete(begun) /\ ~Going /\ check.at # "idle" /\ ~PrivatePrerelease =>
           IF Eligible = {} \/ refusals > (IF Provider \in Flat THEN 3 ELSE 0)
           THEN check.at = "error"
           ELSE /\ check.release = Max(Eligible)
                /\ check.at = IF IsOffered(Max(Eligible)) THEN "offered" ELSE "notAvailable"

(***************************************************************************)
(* What is offered is no draft.  This does not hold for private            *)
(* repositories, whose list of releases has drafts for a token that may    *)
(* write.                                                                  *)
(***************************************************************************)
DraftsStayHidden == check.at = "offered" /\ Provider \notin Flat => check.release \in visible
=============================================================================
