--------------------------- MODULE MCBuilderParts ---------------------------
(***************************************************************************)
(* Parts of the builder that are checked each by itself: a behaviour is    *)
(* one of a single part, the others stay in an initial state of theirs.    *)
(***************************************************************************)
EXTENDS Requests, UpdateInfo, GitHubPublisher, AsarPackager, NsisTargets, WindowsSigning,
        Packing, RemoteBuilds, Targets, AppFiles, MacSigning, Publishing

CONSTANTS upload, query, zip, dmg, installer, updateInfo, older, mac1, mac2, k1, k2

VARIABLE part

TwoCalls == {upload, query}
OneOwn == {upload}

Both == {zip, dmg}
OneZip == {zip}
OneToThree == {<<"github">>, <<"s3">>, <<"bintray">>, <<"github", "generic">>,
               <<"s3", "bintray">>, <<"generic", "github", "spaces">>, <<"github", "s3", "s3">>}
SomeChannels == {<<"latest", FALSE>>, <<"latest", TRUE>>, <<"beta", TRUE>>, <<"alpha", TRUE>>}

NewFiles == {installer, updateInfo}
OldFiles == {older}

-----------------------------------------------------------------------------
\* Applications: a main file, a package in node_modules and one below it.
F(dir, name, kind, size) ==
    [dir |-> dir, name |-> name, kind |-> kind, size |-> size, data |-> NoData, unpack |-> FALSE]
Matched(f) == [f EXCEPT !.unpack = TRUE]
Replaced(f, n) == [f EXCEPT !.data = n]

Either(dir, name, kinds) == {<<>>} \union {<<F(dir, name, k, 2)>> : k \in kinds}
OrMatched(ss) == ss \union {<<Matched(s[1])>> : s \in ss \ {<<>>}}

Pkg == <<"nm", "p">>
SubPkg == <<"nm", "p", "nm", "q">>

\* The walk of a package takes the files of a directory first, then its last
\* subdirectory.
MainFiles == {<<F(<<>>, "main", "text", 1)>>, <<Replaced(F(<<>>, "main", "text", 1), 3)>>}
PackageFiles == {a \o b \o c \o d : a \in Either(Pkg, "index", {"text", "link"}),
                     b \in OrMatched(Either(Pkg \o <<"lib">>, "a", {"text", "binary"})),
                     c \in OrMatched(Either(Pkg \o <<"d">>, "b", {"text", "binary"})),
                     d \in Either(Pkg \o <<"bin">>, "tool", {"text", "binary"})}
NestedFiles == Either(SubPkg, "c", {"text", "binary", "link"})

NonEmpty(sets) == SelectSeq(sets, LAMBDA s : s # <<>>)
SmallApps == {NonEmpty(<<m, p, n>>) : m \in MainFiles, p \in PackageFiles, n \in NestedFiles}

\* Two architectures for all three, another target first asked for with the
\* second, and all three for one.
SmallOrders == {<<{"nsis", "portable"}, {"nsis", "web"}>>,
                <<{"nsis", "portable", "web"}, {"nsis", "portable"}>>,
                <<{"nsis"}, {"nsis", "portable"}>>,
                <<{"nsis", "portable", "web"}>>}

-----------------------------------------------------------------------------
TwoHashes == <<"sha1", "sha256">>

\* With a certificate, the cache enabled or not; without one, required or not.
SomeSignSettings == [force : {TRUE}, csc : {TRUE}, cached : BOOLEAN]
                    \union [force : BOOLEAN, csc : {FALSE}, cached : {TRUE}]

Targeting(mac, targets) == [mac |-> mac, targets |-> targets]
SomePacks == {Targeting(FALSE, <<"zip", "nsis">>), Targeting(TRUE, <<"zip">>),
              Targeting(TRUE, <<"mas">>), Targeting(TRUE, <<"mas", "zip", "mas-dev">>)}

TwoArchs == <<"x64", "arm64">>
ThreeRemote == [targets : {{"deb", "snap", "rpm"}}, fpm : {{"deb", "rpm"}}, homepage : BOOLEAN]

-----------------------------------------------------------------------------
\* Lists of up to two targets, on the command line or in the configuration.
T(name, suffix, arch) == [name |-> name, suffix |-> suffix, arch |-> arch]
U == Unspecified
TypeTargets == {T("zip", U, U), T("nsis", U, U), T("zip", "ia32", U), T("default", U, U),
                T("dir", "x64", U), T("NSIS", U, U)}
ConfiguredTargets == {T("zip", U, U), T("default", U, U), T("nsis", "ia32", U),
                      T("deb", "ia32", <<"x64">>), T("deb", U, <<"arm64", "ia32">>),
                      T("deb", U, <<>>), T("Zip", "x64", U)}
TargetNamesKnown == {"zip", "Zip", "nsis", "NSIS", "deb", "appimage", "default", "dir"}
InLowerCase == [n \in TargetNamesKnown |-> CASE n = "Zip" -> "zip" [] n = "NSIS" -> "nsis"
                                             [] OTHER -> n]
UpToTwo(S) == {<<>>} \union {<<a>> : a \in S} \union (S \X S)

\* The configuration is read when the command line names no target.  Linux may be built
\* for on another system.
SmallRequests ==
    {r \in [mac : BOOLEAN, linux : BOOLEAN, host : [arch : {"ia32"}, linux : BOOLEAN],
            flags : SUBSET {"x64", "ia32"}, dir : BOOLEAN,
            types : UpToTwo(TypeTargets), target : UpToTwo(ConfiguredTargets)] :
        /\ ~(r.mac /\ r.linux)
        /\ r.types # <<>> => r.target = <<>> /\ ~r.dir
        /\ r.dir => Len(r.target) <= 1
        /\ r.host.linux = r.linux \/ (r.linux /\ r.types = <<>>)}
ThreeArchs == <<"x64", "arm64", "ia32">>
TwoDefaults == <<"nsis", "appimage">>

-----------------------------------------------------------------------------
\* A project with assets, what an earlier build left in app/dist, and applications in app/ and
\* in src/.
Dist == <<"app", "dist">>
Project == {<<"main">>, <<"package.json">>, <<"assets", "x">>, <<"assets", "main">>,
            <<"assets", "sub", "y">>,
            <<"assets", "b.d", "z">>, <<"assets", "node_modules", "m">>, <<"assets", ".git", "w">>,
            Dist \o <<"linux-unpacked", "o">>, Append(Dist, "bundle"), <<"build", "icon">>,
            <<"app", "main">>, <<"app", "assets", "x">>, <<"src", "main">>}
ProjectNames == UNION {ToSet(f) : f \in Project}
Assets == Glob(<<"assets">>, "path")
X == <<"assets", "x">>

FilesItems == {All, Assets, Not(<<"assets">>, "path"), Not(<<"assets", "sub">>, "orUnder"),
               Glob(Append(Dist, "bundle"), "path"), FileSet(NoFrom, <<All>>),
               FileSet(<<"assets">>, <<>>)}
PlatformStrings == {<<>>, <<Not(<<"assets">>, "path")>>, <<All>>}
ResourceItems == {Assets, Glob(X, "path"), Not(X, "path"), Not(<<"assets", "b.d">>, "path"),
                  FileSet(<<"assets">>, <<>>), FileSet(<<"assets">>, <<All, Not(<<"x">>, "path")>>),
                  FileSet(<<"main">>, <<>>)}

\* Two entries in one of the lists at a time.
SmallProjects ==
    {r \in [appDir : {<<>>, <<"app">>, <<"src">>}, tree : {Project}, files : UpToTwo(FilesItems),
            platformFiles : PlatformStrings, resources : UpToTwo(ResourceItems),
            extraFiles : {<<>>, <<Glob(<<"main">>, "path")>>}] :
        /\ r.appDir # <<>> => Len(r.files) < 2 /\ Len(r.resources) + Len(r.platformFiles) < 2
        /\ Len(r.files) = 2 => Len(r.resources) < 2 /\ r.extraFiles = <<>>
        /\ r.platformFiles # <<>> => Len(r.resources) < 2}
BuildDir == <<"build">>

-----------------------------------------------------------------------------
\* A build by itself with one or two signers, and two builds of one project or of two.
TwoMacBuilds == {mac1, mac2}
OneBuild == mac1 :> k1
SameProject == mac1 :> k1 @@ mac2 :> k1
OtherProject == mac1 :> k1 @@ mac2 :> k2
Key(project, apps, certificates, types, id, force) ==
    [project |-> project, apps |-> apps, certificates |-> certificates,
     type |-> [main |-> types[1], mas |-> types[2]], identity |-> id, force |-> force]
TwoApps == {"main", "mas"}
WithInstaller == <<{"Developer ID", "3rd Party"}, {"3rd Party Installer"}>>
Developer == {"Mac Developer"}
SomeKeySettings ==
    {Key(OneBuild, TwoApps, WithInstaller, <<"unset", "unset">>, "auto", TRUE),
     Key(OneBuild, TwoApps, <<{"custom"} \union Developer>>, <<"distribution", "development">>,
         "auto", FALSE),
     Key(OneBuild, {"main"}, <<Developer>>, <<"distribution", "unset">>, "auto", FALSE),
     Key(OneBuild, TwoApps, <<{"3rd Party"} \union Developer>>, <<"unset", "distribution">>,
         "null", FALSE),
     Key(SameProject, {"main"}, <<Developer>>, <<"unset", "unset">>, "auto", FALSE),
     Key(OtherProject, {"main"}, <<{"Developer ID"}>>, <<"distribution", "unset">>, "auto", TRUE)}

-----------------------------------------------------------------------------
\* Publish options of the project, a platform and a target.
Option(provider, named, perArch, withInfos) ==
    [provider |-> provider, named |-> named, perArch |-> perArch, info |-> withInfos]
GitHub == Option("github", TRUE, FALSE, TRUE)
S3PerArch == Option("s3", TRUE, TRUE, TRUE)
Server == Option("generic", TRUE, FALSE, TRUE)
QuietS3 == Option("s3", TRUE, FALSE, FALSE)

Globals == {NotSet, Null, <<DetectedAs("github")>>, <<S3PerArch>>, <<GitHub, QuietS3>>,
            <<QuietS3, DetectedAs("bintray")>>, <<Server>>}
Platforms == {NotSet, Null, <<GitHub>>, <<S3PerArch>>}
Owns == {NotSet, Null, <<QuietS3>>}

Environment(policy, env, tokens, repo) ==
    [policy |-> policy, release |-> "release" \in env, tag |-> "tag" \in env, ci |-> "ci" \in env,
     pullRequest |-> "pullRequest" \in env, forced |-> "forced" \in env,
     tokens |-> tokens, repository |-> repo]
PublishBuild(windows, archs, targets) == [windows |-> windows, archs |-> archs, targets |-> targets]

\* An environment to publish from; and each of its parts otherwise.
Ready == Environment("always", {}, {"github", "bintray"}, "github")
Environments ==
    {Ready, Environment("never", {}, {}, "github"), Environment("never", {}, {}, Null),
     Environment("always", {}, {}, Null)}
    \union {Environment("always", {}, t, r) :
               t \in SUBSET {"github", "bintray"}, r \in {"github", "other"}}
    \union {Environment(p, {"ci"} \union e, {"github"}, "github") :
               p \in {NotSet, "onTag"}, e \in SUBSET {"tag", "pullRequest", "forced"}}
    \union {Environment(NotSet, e, {"bintray"}, "other") : e \in {{}, {"release"}, {"ci"}}}
Builds ==
    {PublishBuild(TRUE, {"x64"}, {"nsis", "portable"}),
     PublishBuild(TRUE, {"x64", "ia32"}, {"nsis"}), PublishBuild(TRUE, {"x64"}, {"nsis-web"}),
     PublishBuild(TRUE, {"x64"}, {"zip"}), PublishBuild(FALSE, {"x64", "arm64"}, {"zip"}),
     PublishBuild(FALSE, {"x64"}, {"dmg", "zip"})}

PublishSetting(e, b, global, platform, own, extra) ==
    e @@ b @@ [global |-> global, platform |-> platform, extra |-> extra,
               own |-> [t \in b.targets |-> IF t \in {"nsis", "zip"} THEN own ELSE NotSet]]

SomePublishSettings ==
    {PublishSetting(e, b, g, NotSet, NotSet, b.targets = {"nsis", "portable"}) :
         e \in Environments, b \in Builds, g \in Globals}
    \union {PublishSetting(Ready, b, g, p, o, FALSE) :
                b \in Builds, g \in Globals \union {<<>>}, p \in Platforms, o \in Owns}

-----------------------------------------------------------------------------
\* One initial state of each part, for the behaviours of the others.
RequestsIdle == electron
InfoIdle == providers = <<"github">> /\ channel = <<"latest", FALSE>> /\ safe = {} /\ muted = {}
GitHubIdle == releases = <<>>
AsarIdle == fileSets = <<<<F(<<>>, "main", "text", 1)>>>>
NsisIdle == Len(order) = 1
SigningIdle == ~signSetting.csc /\ signSetting.force /\ input = CHOOSE i \in Inputs : TRUE
PackingIdle == Len(packSetting.targets) = 2
RemoteIdle == remoteSetting.homepage
NoTarget == [mac |-> FALSE, linux |-> TRUE, host |-> [arch |-> "ia32", linux |-> TRUE],
             flags |-> {}, dir |-> FALSE, types |-> <<>>, target |-> <<>>]
TargetsIdle == targetRequest = NoTarget
NoProject == [appDir |-> <<>>, tree |-> Project, files |-> <<>>, platformFiles |-> <<>>,
              resources |-> <<>>, extraFiles |-> <<>>]
FilesIdle == fileSetting = NoProject
MacIdle == keySetting.identity = "null"
PublishingIdle == publishSetting = PublishSetting(
    Ready, PublishBuild(TRUE, {"x64"}, {"zip"}), NotSet, NotSet, NotSet, FALSE)

partsVars == <<part, requestsVars, infoVars, githubVars, asarVars, nsisVars, signingVars,
               packingVars, remoteVars, targetsVars, filesVars, macSigningVars, publishingVars>>

PartsInit ==
    /\ part \in {"requests", "info", "github", "asar", "nsis", "signing", "packing", "remote",
                "targets", "files", "macsigning", "publishing"}
    /\ (part = "publishing" \/ PublishingIdle) /\ PublishingInit
    /\ RequestsInit /\ (part = "requests" \/ RequestsIdle)
    /\ (part = "info" \/ InfoIdle) /\ UpdateInfoInit
    /\ (part = "github" \/ GitHubIdle) /\ GitHubInit
    /\ (part = "asar" \/ AsarIdle) /\ AsarInit
    /\ NsisInit /\ (part = "nsis" \/ NsisIdle)
    /\ SigningInit /\ (part = "signing" \/ SigningIdle)
    /\ PackingInit /\ (part = "packing" \/ PackingIdle)
    /\ RemoteInit /\ (part = "remote" \/ RemoteIdle)
    /\ (part = "targets" \/ TargetsIdle) /\ TargetsInit
    /\ (part = "files" \/ FilesIdle) /\ FilesInit
    /\ MacSigningInit /\ (part = "macsigning" \/ MacIdle)

Only(p) ==
    /\ part = p /\ UNCHANGED part
    /\ p # "requests" => UNCHANGED requestsVars
    /\ p # "info" => UNCHANGED infoVars
    /\ p # "github" => UNCHANGED githubVars
    /\ p # "asar" => UNCHANGED asarVars
    /\ p # "nsis" => UNCHANGED nsisVars
    /\ p # "signing" => UNCHANGED signingVars
    /\ p # "packing" => UNCHANGED packingVars
    /\ p # "remote" => UNCHANGED remoteVars
    /\ p # "targets" => UNCHANGED targetsVars
    /\ p # "files" => UNCHANGED filesVars
    /\ p # "macsigning" => UNCHANGED macSigningVars
    /\ p # "publishing" => UNCHANGED publishingVars

PartsNext ==
    \/ Only("requests") /\ RequestsNext
    \/ Only("info") /\ UpdateInfoNext
    \/ Only("github") /\ GitHubNext
    \/ Only("asar") /\ AsarNext
    \/ Only("nsis") /\ NsisNext
    \/ Only("signing") /\ SigningNext
    \/ Only("packing") /\ PackingNext
    \/ Only("remote") /\ RemoteNext
    \/ Only("targets") /\ TargetsNext
    \/ Only("files") /\ FilesNext
    \/ Only("macsigning") /\ MacSigningNext
    \/ Only("publishing") /\ PublishingNext

\* The fairness of GitHubSpec.
PartsSpec ==
    /\ PartsInit /\ [][PartsNext]_partsVars
    /\ WF_githubVars(part = "github" /\ List) /\ WF_githubVars(part = "github" /\ Create)
    /\ \A u \in Uploads : WF_githubVars(part = "github" /\ UploadStep(u))
=============================================================================
