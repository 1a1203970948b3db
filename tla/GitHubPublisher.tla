-------------------------- MODULE GitHubPublisher --------------------------
(***************************************************************************)
(* GitHubPublisher: several uploads of one publisher share its release,    *)
(* which the first of them finds or creates.  A failed upload is retried,  *)
(* one whose file name is taken deletes the old asset first.  GitHub is    *)
(* modelled by what the publisher sees of it: a request may take effect    *)
(* though its answer is lost, and a list of assets is one page of them.    *)
(***************************************************************************)
EXTENDS Integers, SequencesExt

CONSTANTS
    Uploads,      \* the files of the build, each with a name of its own
    Others,       \* assets the release may hold under other names
    PageSize,     \* assets in one answer (30 unless the request says otherwise)
    ReleaseType,  \* "draft", "prerelease" or "release"
    Creates,      \* publish is "always" or the build is on a tag
    MaxLosses     \* bound: answers that are lost

ASSUME GitHubAssumption ==
    /\ IsFiniteSet(Uploads) /\ IsFiniteSet(Others)
    /\ PageSize \in Nat \ {0} /\ MaxLosses \in Nat
    /\ ReleaseType \in {"draft", "prerelease", "release"}
    /\ Creates \in BOOLEAN

LastAttempt == 4  \* attemptNumber > 3

VARIABLES
    releases,     \* on the server, with the tag: "draft", "published" or "old"
    assets,       \* of the release: a sequence of [name, whole]
    release,      \* the Lazy: "none", "listing", "creating", "got", "null" or "failed"
    at, attempt,  \* of each upload
    losses

uploadVars == <<at, attempt>>
githubVars == <<releases, assets, release, uploadVars, losses>>

Names == {assets[n].name : n \in DOMAIN assets}
Asset(name, whole) == [name |-> name, whole |-> whole]
AssetsOf(names) == {s \in [1..Cardinality(names) -> {Asset(x, w) : x \in names, w \in BOOLEAN}] :
                       {s[n].name : n \in DOMAIN s} = names}

\* The release may be there from an earlier build, with assets of any name.
GitHubInit ==
    /\ releases \in {<<>>, <<"draft">>, <<"published">>, <<"old">>}
    /\ IF releases = <<>> THEN assets = <<>>
       ELSE \E left \in SUBSET (Uploads \union Others) : assets \in AssetsOf(left)
    /\ release = "none"
    /\ at = [u \in Uploads |-> "start"]
    /\ attempt = [u \in Uploads |-> 0]
    /\ losses = 0

At(u, where) == at' = [at EXCEPT ![u] = where]

-----------------------------------------------------------------------------
\* getOrCreateRelease

Unresolved == {"none", "listing", "creating"}
Started(lazy) == IF lazy = "none" THEN "listing" ELSE lazy

\* upload: stat of the file, then doUpload asks for the release.
Ask(u) ==
    /\ at[u] = "start"
    /\ release' = Started(release)
    /\ At(u, "ask")
    /\ UNCHANGED <<releases, assets, attempt, losses>>

Usable(kind) == kind = "draft" \/ (ReleaseType # "draft" /\ kind # "old")

FoundByTag == SelectSeq(releases, LAMBDA kind : kind # "draft")        \* mutant

\* The list of releases has the drafts too, which no tag leads to.
Found == releases

List ==
    /\ release = "listing"
    /\ release' \in {"failed",
           IF Found # <<>> THEN IF Usable(Found[1]) THEN "got" ELSE "null"
           ELSE IF Creates THEN "creating" ELSE "null"}
    /\ UNCHANGED <<releases, assets, uploadVars, losses>>

Create ==
    /\ release = "creating"
    /\ \/ /\ releases' = Append(releases, IF ReleaseType = "draft" THEN "draft" ELSE "published")
          /\ \/ release' = "got" /\ UNCHANGED losses
             \/ losses < MaxLosses /\ losses' = losses + 1 /\ release' = "failed"
       \/ release' = "failed" /\ UNCHANGED <<releases, losses>>
    /\ UNCHANGED <<assets, uploadVars>>

\* Whoever asked gets what the Lazy holds.
Released(u) ==
    /\ at[u] = "ask" /\ release \notin Unresolved
    /\ At(u, CASE release = "got" -> "post"
               [] release = "null" -> "skipped"
               [] release = "failed" -> "failed")
    /\ UNCHANGED <<releases, assets, release, attempt, losses>>

-----------------------------------------------------------------------------
\* doUploadFile

\* The catch: attempts are counted, but not those refused for the name.
FailAttempt(u) ==
    IF attempt[u] >= LastAttempt
    THEN At(u, "failed") /\ UNCHANGED attempt
    ELSE At(u, "delay") /\ attempt' = [attempt EXCEPT ![u] = @ + 1]

NewAssets(u) == {Append(assets, Asset(u, whole)) : whole \in BOOLEAN}

Post(u) ==
    /\ at[u] = "post"
    /\ \/ u \in Names /\ At(u, "list") /\ UNCHANGED <<assets, attempt, losses>>
       \/ /\ u \notin Names
          /\ assets' = Append(assets, Asset(u, TRUE))
          /\ At(u, "done") /\ UNCHANGED <<attempt, losses>>
       \* The upload breaks off, or its answer is lost; the asset may be there.
       \/ /\ losses < MaxLosses /\ losses' = losses + 1
          /\ assets' \in {assets} \union (IF u \in Names THEN {} ELSE NewAssets(u))
          /\ FailAttempt(u)
    /\ UNCHANGED <<releases, release>>

Delayed(u) ==
    /\ at[u] = "delay"
    /\ At(u, "post")
    /\ UNCHANGED <<releases, assets, release, attempt, losses>>

\* overwriteArtifact: the assets are listed; what fails here fails the upload.
Page == {n \in DOMAIN assets : n <= PageSize}

FindsNone(u) ==                                                      \* mutant
    /\ at[u] = "list"
    /\ At(u, "post")
    /\ UNCHANGED <<releases, assets, release, attempt, losses>>

ListAssets(u) ==
    /\ at[u] = "list"
    /\ At(u, IF \E n \in Page : assets[n].name = u THEN "delete" ELSE "post")
    /\ UNCHANGED <<releases, assets, release, attempt, losses>>

Without(u) == {RemoveAt(assets, n) : n \in {m \in DOMAIN assets : assets[m].name = u}}

TakesItForUploaded == "done"                                         \* mutant
AfterDelete == "post"

DeleteAsset(u) ==
    /\ at[u] = "delete"
    /\ assets' \in Without(u)
    /\ At(u, AfterDelete)
    /\ UNCHANGED <<releases, release, attempt, losses>>

\* The list or the delete fails, the delete perhaps with effect.
OverwriteFails(u) ==
    /\ at[u] \in {"list", "delete"}
    /\ losses < MaxLosses /\ losses' = losses + 1
    /\ assets' \in {assets} \union (IF at[u] = "delete" THEN Without(u) ELSE {})
    /\ At(u, "failed")
    /\ UNCHANGED <<releases, release, attempt>>

UploadStep(u) ==
    Ask(u) \/ Released(u) \/ Post(u) \/ Delayed(u) \/ ListAssets(u) \/ DeleteAsset(u)
    \/ OverwriteFails(u)

GitHubNext == List \/ Create \/ \E u \in Uploads : UploadStep(u)

\* Every request is answered or fails.
GitHubSpec ==
    /\ GitHubInit /\ [][GitHubNext]_githubVars
    /\ WF_githubVars(List) /\ WF_githubVars(Create)
    /\ \A u \in Uploads : WF_githubVars(UploadStep(u))

-----------------------------------------------------------------------------
Ended == {"done", "skipped", "failed"}

(***************************************************************************)
(* An upload that is done has left its whole file in the release, whatever *)
(* an earlier build or an attempt of its own that broke off left there     *)
(* under the name, and whatever the other uploads overwrite.               *)
(***************************************************************************)
UploadedIsThere ==
    \A u \in Uploads : at[u] = "done" =>
        \E n \in DOMAIN assets : assets[n] = Asset(u, TRUE)

(***************************************************************************)
(* The uploads of a publisher never make more than one release of a tag,   *)
(* however they are interleaved, and nothing goes to a release that is not *)
(* of the publishing type or too old.                                      *)
(***************************************************************************)
OneUsableRelease ==
    /\ Len(releases) <= 1
    /\ (\E u \in Uploads : at[u] \in {"post", "done"}) =>
           releases[1] # "old" /\ (ReleaseType = "draft" => releases[1] = "draft")

(***************************************************************************)
(* A begun upload ends: retries are counted, and "delete old artifact and    *)
(* re-upload" frees the name.                                              *)
(***************************************************************************)
UploadsEnd == \A u \in Uploads : at[u] = "ask" ~> at[u] \in Ended
=============================================================================
