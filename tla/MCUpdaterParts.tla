--------------------------- MODULE MCUpdaterParts ---------------------------
(***************************************************************************)
(* Parts of the updater that are checked each by itself: a behaviour is    *)
(* one of a single part, the others stay in an initial state of theirs.    *)
(***************************************************************************)
EXTENDS Installer, DownloadPlan, DataSplitter, DifferentialDownload, MacUpdater,
        ReleaseFeed

VARIABLE part

\* Up to four tasks; adjoining tasks of one kind are possible for copies only.
SmallLists ==
    {p \in UNION {[1..n -> [kind : {"copy", "download"}, size : {1, 3}]] : n \in 2..4} :
        \A t \in 1..(Len(p) - 1) : p[t].kind = "copy" \/ p[t + 1].kind = "copy"}

\* Up to two tasks of every kind, and one after a batch that is full.
SmallPlans == UNION {[1..n -> {"copy", "download"}] : n \in 1..2}
              \union {<<"download", "download", "copy">>}

Setting(multiRange, metadata, publisherName, opens) ==
    [multiRange |-> multiRange, metadata |-> metadata,
     publisherName |-> publisherName, appOpens |-> opens]

\* One request per range, multiple ranges and an embedded block map, and a signature
\* to verify; the application may open a file in each of them.
ThreeSettings == {Setting(FALSE, FALSE, FALSE, 1), Setting(TRUE, TRUE, FALSE, 1),
                  Setting(FALSE, FALSE, TRUE, 1)}

Release(version, channel) ==
    [version |-> version, channel |-> channel, prerelease |-> channel # "latest"]

UnmarkedSecond == <<Release(1, "latest"), [Release(2, "alpha") EXCEPT !.prerelease = FALSE],
                    Release(3, "latest")>>

\* Channels one after another, a patch after a prerelease, and a prerelease that was
\* not marked as one.
ThreePublications == {
    <<Release(1, "alpha"), Release(2, "beta"), Release(3, "latest")>>,
    <<Release(1, "latest"), Release(3, "beta"), Release(2, "latest")>>,
    UnmarkedSecond}

Feed(provider, channel, detect, all, drafts, os, archs, arch) ==
    [provider |-> provider, channel |-> channel, detect |-> detect, all |-> all,
     drafts |-> drafts, os |-> os, archs |-> archs, arch |-> arch]

EightFeeds == {
    Feed("generic", Unset, TRUE, TRUE, FALSE, "linux", {"armv7l"}, "armv7l"),
    Feed("generic", Unset, FALSE, FALSE, FALSE, "mac", {"x64"}, "x64"),
    Feed("s3", Unset, TRUE, FALSE, FALSE, "win", {"x64", "ia32"}, "ia32"),
    Feed("s3", "beta", TRUE, TRUE, FALSE, "win", {"x64"}, "x64"),
    Feed("github", Unset, TRUE, TRUE, TRUE, "linux", {"x64", "ia32"}, "ia32"),
    Feed("github", Unset, TRUE, FALSE, FALSE, "mac", {"x64"}, "x64"),
    Feed("private", Unset, TRUE, FALSE, TRUE, "win", {"x64"}, "x64"),
    Feed("bintray", Unset, TRUE, FALSE, FALSE, "linux", {"x64"}, "x64")}

-----------------------------------------------------------------------------
OneOffset == CHOOSE x \in Offsets : TRUE
EmptyFile == [offset |-> OneOffset, blocks |-> <<>>]
TwoParts == [t \in 1..3 |-> [kind |-> IF t = 2 THEN "copy" ELSE "download", size |-> 1]]

\* One initial state of each part that has several, for the behaviours of the others.
PlanIdle == oldFile = EmptyFile /\ newFile = EmptyFile
SplitterIdle == taskList = TwoParts
DifferentialIdle ==
    setting = Setting(FALSE, FALSE, FALSE, 1) /\ tasks = <<"copy">> /\ oldMatches
FeedIdle ==
    /\ publication = UnmarkedSecond
    /\ feedSetting = Feed("generic", Unset, FALSE, FALSE, FALSE, "mac", {"x64"}, "x64")

partsVars == <<part, installerVars, planVars, splitterVars, differentialVars, macVars,
               feedVars>>

PartsInit ==
    /\ part \in {"installer", "plan", "splitter", "differential", "mac", "feed"}
    /\ InstallerInit /\ MacInit
    /\ PlanInit /\ (part = "plan" \/ PlanIdle)
    /\ SplitterInit /\ (part = "splitter" \/ SplitterIdle)
    /\ DifferentialInit /\ (part = "differential" \/ DifferentialIdle)
    /\ (part = "feed" \/ FeedIdle) /\ FeedInit

Only(p) ==
    /\ part = p /\ UNCHANGED part
    /\ p # "installer" => UNCHANGED installerVars
    /\ p # "plan" => UNCHANGED planVars
    /\ p # "splitter" => UNCHANGED splitterVars
    /\ p # "differential" => UNCHANGED differentialVars
    /\ p # "mac" => UNCHANGED macVars
    /\ p # "feed" => UNCHANGED feedVars

PartsNext ==
    \/ Only("installer") /\ InstallerNext
    \/ Only("plan") /\ PlanBlock
    \/ Only("splitter") /\ SplitterNext
    \/ Only("differential") /\ DifferentialNext
    \/ Only("mac") /\ MacNext
    \/ Only("feed") /\ FeedNext

\* The fairness of DifferentialSpec and of MacSpec.
PartsSpec ==
    /\ PartsInit /\ [][PartsNext]_partsVars
    /\ WF_differentialVars(part = "differential" /\ Start)
    /\ WF_differentialVars(part = "differential" /\ ExecutorStep)
    /\ WF_differentialVars(part = "differential" /\ FileOutStep)
    /\ WF_differentialVars(part = "differential" /\ CallerStep)
    /\ \A d \in MacDownloads : WF_macVars(part = "mac" /\ MacStep(d))
=============================================================================
