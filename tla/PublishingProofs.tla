-------------------------- MODULE PublishingProofs --------------------------
(***************************************************************************)
(* What is proved of what a build and an updater have to do with servers:  *)
(* of GitHubPublisher, for any files, assets and page size, that an upload *)
(* that is done is in the release, and that there is one release; of       *)
(* RemoteBuilds, that all is sent once; of Publishing, that an application *)
(* finds its updates; of UpdateInfo, that the update information has all   *)
(* artifacts; of Requests, for any calls and any number of redirects, that *)
(* the handlers on the tokens are those of what is pending, and that a     *)
(* cancellation reaches every request.                                     *)
(***************************************************************************)
EXTENDS GitHubPublisher, RemoteBuilds, Publishing, UpdateInfo, Requests, SequenceLemmas,
        FiniteSetTheorems, SequenceTheorems, TLAPS

Lazies == Unresolved \cup {"got", "null", "failed"}
WithRelease == {"post", "list", "delete", "delay", "done"}

GitHubTypeOK ==
    /\ releases \in {<<>>, <<"draft">>, <<"published">>, <<"old">>}
    /\ assets \in Seq([name : Uploads \cup Others, whole : BOOLEAN])
    /\ release \in Lazies
    /\ at \in [Uploads -> {"start", "ask", "skipped", "failed"} \cup WithRelease]

\* A release is created when there was none, and uploads go to the one the Lazy got.
ReleaseHeld ==
    /\ release = "creating" => releases = <<>>
    /\ release = "got" => releases # <<>> /\ Usable(releases[1])
    /\ \A u \in Uploads : at[u] \in WithRelease => release = "got"

GitHubInv == GitHubTypeOK /\ ReleaseHeld /\ UploadedIsThere

-----------------------------------------------------------------------------
LEMMA InitInv == GitHubInit => GitHubInv
<1> SUFFICES ASSUME GitHubInit PROVE GitHubInv
  OBVIOUS
<1>1. assets \in Seq([name : Uploads \cup Others, whole : BOOLEAN])
  <2>1. CASE assets = <<>>
    BY <2>1
  <2>2. ASSUME NEW left \in SUBSET (Uploads \cup Others), assets \in AssetsOf(left)
        PROVE  assets \in Seq([name : Uploads \cup Others, whole : BOOLEAN])
    <3>1. IsFiniteSet(left)
      BY GitHubAssumption, FS_Union, FS_Subset DEF GitHubAssumption
    <3>2. Cardinality(left) \in Nat
      BY <3>1, FS_CardinalityType
    <3>3. assets \in [1..Cardinality(left) -> [name : Uploads \cup Others, whole : BOOLEAN]]
      BY <2>2 DEF AssetsOf, Asset
    <3>4. \A S, n : n \in Nat => [1..n -> S] \subseteq Seq(S)
      BY SeqDef
    <3> QED
      BY <3>2, <3>3, <3>4
  <2> QED
    BY <2>1, <2>2 DEF GitHubInit
<1> QED
  BY <1>1 DEF GitHubInit, GitHubInv, GitHubTypeOK, ReleaseHeld, UploadedIsThere, Lazies, Unresolved,
              WithRelease

\* What RemoveAt removes, and where it leaves the rest.
LEMMA Removed ==
  ASSUME NEW S, NEW s \in Seq(S), NEW d \in DOMAIN s
  PROVE  /\ RemoveAt(s, d) \in Seq(S)
         /\ Len(RemoveAt(s, d)) = Len(s) - 1
         /\ \A k \in 1..(d - 1) : RemoveAt(s, d)[k] = s[k]
         /\ \A k \in d..(Len(s) - 1) : RemoveAt(s, d)[k] = s[k + 1]
<1>1. d \in 1..Len(s) /\ Len(s) \in Nat
  OBVIOUS
<1> DEFINE before == SubSeq(s, 1, d - 1)
           after == SubSeq(s, d + 1, Len(s))
<1>2. before \in Seq(S) /\ Len(before) = d - 1 /\ \A k \in 1..(d - 1) : before[k] = s[k]
  BY <1>1
<1>3. after \in Seq(S) /\ Len(after) = Len(s) - d /\ \A k \in 1..(Len(s) - d) : after[k] = s[d + k]
  BY <1>1
<1> HIDE DEF before, after
<1>4. /\ before \o after \in Seq(S) /\ Len(before \o after) = Len(s) - 1
      /\ \A k \in 1..(d - 1) : (before \o after)[k] = before[k]
      /\ \A k \in d..(Len(s) - 1) : (before \o after)[k] = after[k - (d - 1)]
  BY <1>1, <1>2, <1>3
<1>5. ASSUME NEW k \in d..(Len(s) - 1) PROVE (before \o after)[k] = s[k + 1]
  <2>1. k - (d - 1) \in 1..(Len(s) - d) /\ d + (k - (d - 1)) = k + 1
    BY <1>1
  <2> QED
    BY <1>3, <1>4, <2>1
<1> QED
  BY <1>2, <1>4, <1>5 DEF RemoveAt, before, after

\* Deleting the asset of one name keeps those of the others.
LEMMA OthersKept ==
  ASSUME GitHubTypeOK, NEW v \in Uploads, NEW left \in Without(v)
  PROVE  /\ left \in Seq([name : Uploads \cup Others, whole : BOOLEAN])
         /\ \A u \in Uploads \ {v} :
               (\E n \in DOMAIN assets : assets[n] = Asset(u, TRUE))
                   => \E n \in DOMAIN left : left[n] = Asset(u, TRUE)
<1>1. PICK d \in DOMAIN assets : assets[d].name = v /\ left = RemoveAt(assets, d)
  BY DEF Without
<1>2. /\ left \in Seq([name : Uploads \cup Others, whole : BOOLEAN])
      /\ Len(left) = Len(assets) - 1
      /\ \A k \in 1..(d - 1) : left[k] = assets[k]
      /\ \A k \in d..Len(left) : left[k] = assets[k + 1]
  BY <1>1, Removed DEF GitHubTypeOK
<1>3. ASSUME NEW u \in Uploads \ {v}, NEW n \in DOMAIN assets, assets[n] = Asset(u, TRUE)
      PROVE  \E k \in DOMAIN left : left[k] = Asset(u, TRUE)
  <2>1. n # d
    BY <1>1, <1>3 DEF Asset
  <2>2. /\ Len(assets) \in Nat /\ n \in 1..Len(assets) /\ d \in 1..Len(assets)
        /\ DOMAIN left = 1..Len(left)
    BY <1>1, <1>2 DEF GitHubTypeOK
  <2>3. CASE n < d
    <3>1. n \in 1..(d - 1) /\ n \in DOMAIN left
      BY <1>2, <2>2, <2>3
    <3> QED
      BY <1>2, <1>3, <3>1
  <2>4. CASE n > d
    <3>1. n - 1 \in d..Len(left) /\ n - 1 \in DOMAIN left
      BY <1>2, <2>2, <2>4
    <3>2. left[n - 1] = assets[n]
      BY <1>2, <2>2, <3>1
    <3> QED
      BY <1>3, <3>1, <3>2
  <2>5. n < d \/ n > d
    BY <2>1, <2>2
  <2> QED
    BY <2>3, <2>4, <2>5
<1> QED
  BY <1>2, <1>3

\* An asset that is added leaves the others where they are.
LEMMA AssetAdded ==
  ASSUME GitHubTypeOK, NEW v \in Uploads, NEW whole \in BOOLEAN
  PROVE  LET more == Append(assets, Asset(v, whole)) IN
         /\ more \in Seq([name : Uploads \cup Others, whole : BOOLEAN])
         /\ \E n \in DOMAIN more : more[n] = Asset(v, whole)
         /\ \A a : (\E n \in DOMAIN assets : assets[n] = a) => \E n \in DOMAIN more : more[n] = a
<1> DEFINE more == Append(assets, Asset(v, whole))
<1>1. Asset(v, whole) \in [name : Uploads \cup Others, whole : BOOLEAN]
  BY DEF Asset
<1>2. /\ more \in Seq([name : Uploads \cup Others, whole : BOOLEAN])
      /\ Len(more) = Len(assets) + 1 /\ more[Len(more)] = Asset(v, whole)
      /\ \A n \in 1..Len(assets) : more[n] = assets[n]
      /\ DOMAIN assets = 1..Len(assets) /\ DOMAIN more = 1..Len(more) /\ Len(assets) \in Nat
  BY <1>1 DEF GitHubTypeOK
<1> QED
  BY <1>2

\* Steps of one upload, once it has its release
LEMMA NextInv == GitHubInv /\ [GitHubNext]_githubVars => GitHubInv'
<1> SUFFICES ASSUME GitHubInv, [GitHubNext]_githubVars PROVE GitHubInv'
  OBVIOUS
<1> USE DEF GitHubInv, WithRelease
\* What an upload does to the release, and to its own state, is either of these.
<1>1. ASSUME NEW v \in Uploads, NEW where, at' = [at EXCEPT ![v] = where],
             where \in {"start", "ask", "skipped", "failed"} \cup WithRelease,
             UNCHANGED <<releases, release>>,
             where \in WithRelease => release = "got",
             assets' \in Seq([name : Uploads \cup Others, whole : BOOLEAN]),
             \A u \in Uploads \ {v} :
                (\E n \in DOMAIN assets : assets[n] = Asset(u, TRUE))
                    => \E n \in DOMAIN assets' : assets'[n] = Asset(u, TRUE),
             where = "done" => \E n \in DOMAIN assets' : assets'[n] = Asset(v, TRUE)
      PROVE  GitHubInv'
  <2>1. at'[v] = where /\ \A u \in Uploads \ {v} : at'[u] = at[u]
    BY <1>1 DEF GitHubTypeOK
  <2>2. GitHubTypeOK'
    BY <1>1 DEF GitHubTypeOK
  <2>3. ReleaseHeld'
    BY <1>1, <2>1 DEF ReleaseHeld, Usable
  <2>4. UploadedIsThere'
    BY <1>1, <2>1 DEF UploadedIsThere
  <2> QED
    BY <2>2, <2>3, <2>4
<1>2. assets \in Seq([name : Uploads \cup Others, whole : BOOLEAN])
  BY DEF GitHubTypeOK
<1>3. \A v \in Uploads : at[v] \in WithRelease => release = "got"
  BY DEF ReleaseHeld
<1>4. ASSUME NEW v \in Uploads, Ask(v) PROVE GitHubInv'
  <2>1. CASE release = "none"
    BY <1>4, <2>1 DEF Ask, At, Started, GitHubTypeOK, ReleaseHeld, UploadedIsThere, Lazies, Unresolved
  <2>2. CASE release # "none"
    BY <1>1, <1>2, <1>4, <2>2 DEF Ask, At, Started
  <2> QED
    BY <2>1, <2>2
<1>5. CASE List
  <2>1. /\ release = "listing" /\ UNCHANGED <<releases, assets, at>>
        /\ release' \in {"failed", "got", "null", "creating"}
        /\ release' = "creating" => releases = <<>>
        /\ release' = "got" => releases # <<>> /\ Usable(releases[1])
    BY <1>5 DEF List, Found, uploadVars
  <2>2. \A u \in Uploads : at[u] \notin WithRelease
    BY <2>1 DEF ReleaseHeld
  <2> QED
    BY <2>1, <2>2 DEF GitHubTypeOK, ReleaseHeld, UploadedIsThere, Lazies, Unresolved, Usable
<1>6. CASE Create
  <2>1. /\ release = "creating" /\ releases = <<>> /\ UNCHANGED <<assets, at>>
        /\ release' \in {"got", "failed"}
        /\ release' = "got" => releases' # releases
        /\ releases' \in {releases, Append(releases, IF ReleaseType = "draft" THEN "draft" ELSE "published")}
    BY <1>6 DEF Create, uploadVars, ReleaseHeld
  <2>2. releases' \in {<<>>, <<IF ReleaseType = "draft" THEN "draft" ELSE "published">>}
    BY <2>1
  <2>3. \A u \in Uploads : at[u] \notin WithRelease
    BY <2>1 DEF ReleaseHeld
  <2>4. release' = "got" => releases' # <<>> /\ Usable(releases'[1])
    BY <2>1, <2>2 DEF Usable
  <2> QED
    BY <2>1, <2>2, <2>3, <2>4 DEF GitHubTypeOK, ReleaseHeld, UploadedIsThere, Lazies, Usable
<1>7. ASSUME NEW v \in Uploads, Released(v) PROVE GitHubInv'
  BY <1>1, <1>2, <1>7 DEF Released, At, GitHubTypeOK, Lazies
<1>8. ASSUME NEW v \in Uploads, Delayed(v) \/ ListAssets(v) PROVE GitHubInv'
  BY <1>1, <1>2, <1>3, <1>8 DEF Delayed, ListAssets, At
<1>9. ASSUME NEW v \in Uploads, Post(v) PROVE GitHubInv'
  <2>1. release = "got" /\ UNCHANGED <<releases, release>>
    BY <1>3, <1>9 DEF Post
  <2>2. PICK where \in {"list", "done", "failed", "delay"} :
           /\ at' = [at EXCEPT ![v] = where]
           /\ where = "done" => assets' = Append(assets, Asset(v, TRUE))
    BY <1>9 DEF Post, At, FailAttempt
  <2>3. assets' = assets \/ \E whole \in BOOLEAN : assets' = Append(assets, Asset(v, whole))
    BY <1>9 DEF Post, NewAssets
  <2>4. CASE assets' = assets /\ where # "done"
    BY <1>1, <1>2, <2>1, <2>2, <2>4
  <2>5. ASSUME NEW whole \in BOOLEAN, assets' = Append(assets, Asset(v, whole)),
               where = "done" => whole = TRUE
        PROVE  GitHubInv'
    <3> DEFINE more == Append(assets, Asset(v, whole))
    <3>1. /\ more \in Seq([name : Uploads \cup Others, whole : BOOLEAN])
          /\ \E n \in DOMAIN more : more[n] = Asset(v, whole)
          /\ \A a : (\E n \in DOMAIN assets : assets[n] = a) => \E n \in DOMAIN more : more[n] = a
      BY AssetAdded
    <3>2. assets' = more
      BY <2>5
    <3> HIDE DEF more
    <3> QED
      BY <1>1, <2>1, <2>2, <2>5, <3>1, <3>2
  <2> QED
    BY <2>2, <2>3, <2>4, <2>5
<1>10. ASSUME NEW v \in Uploads, DeleteAsset(v) \/ OverwriteFails(v) PROVE GitHubInv'
  <2>1. release = "got" /\ UNCHANGED <<releases, release>>
    BY <1>3, <1>10 DEF DeleteAsset, OverwriteFails
  <2>2. PICK where \in {"post", "failed"} : at' = [at EXCEPT ![v] = where]
    BY <1>10 DEF DeleteAsset, OverwriteFails, At, AfterDelete
  <2>3. assets' = assets \/ assets' \in Without(v)
    BY <1>10 DEF DeleteAsset, OverwriteFails
  <2> QED
    BY <1>1, <1>2, <2>1, <2>2, <2>3, OthersKept
<1>11. CASE UNCHANGED githubVars
  BY <1>11 DEF githubVars, uploadVars, GitHubTypeOK, ReleaseHeld, UploadedIsThere, Usable
<1> QED
  BY <1>4, <1>5, <1>6, <1>7, <1>8, <1>9, <1>10, <1>11 DEF GitHubNext, UploadStep

(***************************************************************************)
(* The invariant of a GitHub publisher: uploads go to the release that the *)
(* Lazy got, which is usable, and one that is done is there as a whole.    *)
(***************************************************************************)
THEOREM GitHubInvariant == GitHubSpec => []GitHubInv
  BY InitInv, NextInv, PTL DEF GitHubSpec

(***************************************************************************)
(* For any files of the build and any assets an earlier one left, of any   *)
(* number and names: an upload that is done has its whole file in the      *)
(* release, however attempts break off, are retried and overwrite, and     *)
(* whatever the other uploads delete.                                      *)
(***************************************************************************)
THEOREM DoneIsInTheRelease == GitHubSpec => []UploadedIsThere
<1>1. GitHubInv => UploadedIsThere
  BY DEF GitHubInv
<1> QED
  BY <1>1, GitHubInvariant, PTL

(***************************************************************************)
(* For any number of uploads that ask for the release at the same time: no *)
(* second one is made, and a file goes to a release of the publishing type *)
(* that is not too old.                                                    *)
(***************************************************************************)
THEOREM UploadsShareTheRelease == GitHubSpec => []OneUsableRelease
<1>1. GitHubInv => OneUsableRelease
  <2> SUFFICES ASSUME GitHubInv PROVE OneUsableRelease
    OBVIOUS
  <2>1. Len(releases) <= 1
    <3>1. \A kind : Len(<<kind>>) = 1
      OBVIOUS
    <3>2. releases = <<>> \/ \E kind : releases = <<kind>>
      BY DEF GitHubInv, GitHubTypeOK
    <3>3. Len(<<>>) = 0
      OBVIOUS
    <3>4. CASE releases = <<>>
      BY <3>3, <3>4
    <3>5. ASSUME NEW kind, releases = <<kind>> PROVE Len(releases) <= 1
      BY <3>1, <3>5
    <3> QED
      BY <3>2, <3>4, <3>5
  <2>2. (\E u \in Uploads : at[u] \in {"post", "done"}) => release = "got"
    BY DEF GitHubInv, ReleaseHeld, WithRelease
  <2>3. Usable(releases[1]) => releases[1] # "old" /\ (ReleaseType = "draft" => releases[1] = "draft")
    BY DEF Usable
  <2> QED
    BY <2>1, <2>2, <2>3 DEF GitHubInv, ReleaseHeld, OneUsableRelease
<1> QED
  BY <1>1, GitHubInvariant, PTL

-----------------------------------------------------------------------------
\* RemoteBuilds

RemoteStates == {"none", "waiting", "building", "done", "failed"}

RemoteTypeOK ==
    /\ remoteSetting \in RemoteSettings
    /\ packs \in 0..Len(Archs)
    /\ repository \in {"unread", "reading", "read"}
    /\ waiting \subseteq RemoteTargets \X ToSet(Archs)
    /\ toBuild \in [ToSet(Archs) -> SUBSET RemoteTargets]
    /\ finish \in [RemoteTargets -> RemoteStates]
    /\ queue = NotStarted \/ queue \subseteq ToSet(Archs)
    /\ sending \in ToSet(Archs) \union {NoArch}
    /\ \A r \in requests : r.arch \in ToSet(Archs)

\* A target of an architecture that is packed is scheduled, or waits for the repository.
PackedAreScheduled ==
    \A n \in 1..packs : \A t \in RemoteTargets :
        t \in toBuild[Archs[n]] \/ <<t, Archs[n]>> \in waiting

\* finishBuild comes after all architectures, and goes on when its own tasks have ended.
FinishedAfterPack ==
    \A t \in RemoteTargets :
        /\ finish[t] # "none" => packs = Len(Archs)
        /\ finish[t] \in {"building", "done", "failed"} =>
               queue # NotStarted /\ \A a \in ToSet(Archs) : <<t, a>> \notin waiting

\* Who sends is building until all is sent, or has failed.
BuildingUntilSent ==
    /\ queue = NotStarted => sending = NoArch /\ requests = {}
    /\ queue # NotStarted => packs = Len(Archs)
    /\ queue \notin {NotStarted, {}} \/ sending # NoArch => Building # {}

\* One request for an architecture, with all that was scheduled in time, unless one failed.
OneRequestEach ==
    /\ \A r, s \in requests : r.arch = s.arch => r = s
    /\ \A r \in requests : r.arch \notin queue
    /\ queue # NotStarted =>
           \/ \E t \in RemoteTargets : finish[t] = "failed"
           \/ \A a \in ToSet(Archs), t \in RemoteTargets :
                  t \in toBuild[a] =>
                      \/ <<t, a>> \in late \/ a \in queue
                      \/ \E r \in requests : r.arch = a /\ t \in r.targets

RemoteInv ==
    /\ RemoteTypeOK /\ PackedAreScheduled /\ FinishedAfterPack /\ BuildingUntilSent
    /\ OneRequestEach

LEMMA ArchsOfBuild ==
  /\ Archs \in Seq(ToSet(Archs)) /\ Len(Archs) \in Nat /\ DOMAIN Archs = 1..Len(Archs)
  /\ \A a \in ToSet(Archs) : \E n \in 1..Len(Archs) : Archs[n] = a
  /\ \A n \in 1..Len(Archs) : Archs[n] \in ToSet(Archs)
  /\ \A m, n \in 1..Len(Archs) : Archs[m] = Archs[n] => m = n
  /\ NoArch \notin ToSet(Archs)
<1>1. Archs \in Seq(ToSet(Archs)) /\ IsInjective(Archs) /\ NoArch \notin ToSet(Archs)
  BY RemoteAssumption DEF RemoteAssumption
<1>2. Len(Archs) \in Nat /\ DOMAIN Archs = 1..Len(Archs)
  BY <1>1
<1> QED
  BY <1>1, <1>2 DEF ToSet, IsInjective

LEMMA RemoteInitInv ==
  ASSUME RemoteInit
  PROVE  RemoteInv
BY ArchsOfBuild DEF RemoteInit, RemoteInv, RemoteTypeOK, RemoteStates, PackedAreScheduled,
   FinishedAfterPack, BuildingUntilSent, OneRequestEach, RemoteTargets, NotStarted

\* Packing goes on before any finishBuild, so that nothing was sent.
LEMMA PackArchInv ==
  ASSUME RemoteInv, PackArch
  PROVE  RemoteInv'
<1> DEFINE a == Archs[packs + 1]
           w == {t \in RemoteTargets : Waits(t)}
<1>1. /\ packs \in Nat /\ packs < Len(Archs) /\ packs' = packs + 1
      /\ waiting' = waiting \union (w \X {a})
      /\ toBuild' = [toBuild EXCEPT ![a] = RemoteTargets \ w]
      /\ repository' = IF w # {} THEN "reading" ELSE repository
      /\ UNCHANGED <<remoteSetting, late, finish, queue, sending, requests>>
  BY ArchsOfBuild DEF PackArch, RemoteInv, RemoteTypeOK
<1>2. a \in ToSet(Archs) /\ w \subseteq RemoteTargets
  BY <1>1, ArchsOfBuild
<1>3. RemoteTargets' = RemoteTargets
  BY <1>1 DEF RemoteTargets
<1> HIDE DEF w
<1>10. packs # Len(Archs)
  <2>1. packs \in Nat /\ packs < Len(Archs) /\ Len(Archs) \in Nat
    BY <1>1, ArchsOfBuild, Zenon
  <2> QED BY <2>1
<1>4. \A t \in RemoteTargets : finish[t] = "none"
  BY <1>10 DEF RemoteInv, FinishedAfterPack
<1>5. queue = NotStarted /\ sending = NoArch /\ requests = {}
  BY <1>10 DEF RemoteInv, BuildingUntilSent
<1>6. RemoteTypeOK'
  BY <1>1, <1>2, <1>3, ArchsOfBuild DEF RemoteInv, RemoteTypeOK
<1>7. PackedAreScheduled'
  <2> SUFFICES ASSUME NEW n \in 1..(packs + 1), NEW t \in RemoteTargets
               PROVE  t \in toBuild'[Archs[n]] \/ <<t, Archs[n]>> \in waiting'
    BY <1>1, <1>3 DEF PackedAreScheduled
  <2>1. CASE n = packs + 1
    BY <1>1, <1>2, <2>1 DEF RemoteInv, RemoteTypeOK
  <2>2. CASE n \in 1..packs
    <3>1. Archs[n] # a
      BY <1>1, <2>2, ArchsOfBuild
    <3>2. toBuild'[Archs[n]] = toBuild[Archs[n]]
      BY <1>1, <2>2, <3>1, ArchsOfBuild DEF RemoteInv, RemoteTypeOK
    <3> QED BY <1>1, <2>2, <3>2 DEF RemoteInv, PackedAreScheduled
  <2> QED BY <1>1, <2>1, <2>2
<1>8. FinishedAfterPack'
  BY <1>1, <1>3, <1>4 DEF FinishedAfterPack
<1>9. BuildingUntilSent' /\ OneRequestEach'
  BY <1>1, <1>5 DEF BuildingUntilSent, OneRequestEach
<1> QED
  BY <1>6, <1>7, <1>8, <1>9 DEF RemoteInv

LEMMA RepositoryReadInv ==
  ASSUME RemoteInv, RepositoryRead
  PROVE  RemoteInv'
<1>1. /\ repository' = "read" /\ waiting' = {}
      /\ toBuild' = [a \in ToSet(Archs) |->
                        toBuild[a] \union {t \in RemoteTargets : <<t, a>> \in waiting}]
      /\ queue # NotStarted => late' = late \union waiting
      /\ UNCHANGED <<remoteSetting, packs, finish, queue, sending, requests>>
  BY DEF RepositoryRead
<1>2. RemoteTargets' = RemoteTargets /\ Building' = Building
  BY <1>1 DEF RemoteTargets, Building
<1>3. RemoteTypeOK'
  BY <1>1, <1>2 DEF RemoteInv, RemoteTypeOK
<1>4. PackedAreScheduled'
  BY <1>1, <1>2, ArchsOfBuild DEF RemoteInv, RemoteTypeOK, PackedAreScheduled
<1>5. FinishedAfterPack' /\ BuildingUntilSent'
  BY <1>1, <1>2 DEF RemoteInv, FinishedAfterPack, BuildingUntilSent
<1>6. OneRequestEach'
  BY <1>1, <1>2 DEF RemoteInv, RemoteTypeOK, OneRequestEach
<1> QED
  BY <1>3, <1>4, <1>5, <1>6 DEF RemoteInv

LEMMA FinishAllInv ==
  ASSUME RemoteInv, FinishAll
  PROVE  RemoteInv'
<1>1. /\ packs = Len(Archs) /\ \A t \in RemoteTargets : finish[t] = "none"
      /\ finish' = [t \in RemoteTargets |-> "waiting"]
      /\ UNCHANGED <<remoteSetting, packs, repository, waiting, toBuild, late, queue, sending,
                     requests>>
  BY DEF FinishAll
<1>2. RemoteTargets' = RemoteTargets /\ Building = {}
  BY <1>1 DEF RemoteTargets, Building
<1>3. RemoteTypeOK' /\ PackedAreScheduled' /\ FinishedAfterPack'
  BY <1>1, <1>2 DEF RemoteInv, RemoteTypeOK, RemoteStates, PackedAreScheduled, FinishedAfterPack
<1>4. BuildingUntilSent' /\ OneRequestEach'
  BY <1>1, <1>2 DEF RemoteInv, RemoteTypeOK, BuildingUntilSent, OneRequestEach
<1> QED
  BY <1>3, <1>4 DEF RemoteInv

\* The first finishBuild begins with the architectures that have something scheduled; after
\* it none begins.
LEMMA FinishBuildInv ==
  ASSUME RemoteInv, NEW t \in RemoteTargets, FinishBuild(t)
  PROVE  RemoteInv'
<1>1. /\ finish[t] = "waiting" /\ OwnTasksEnded(t)
      /\ UNCHANGED <<remoteSetting, packs, repository, waiting, toBuild, late, sending, requests>>
  BY DEF FinishBuild
<1>2. /\ finish \in [RemoteTargets -> RemoteStates] /\ RemoteTargets' = RemoteTargets
      /\ packs = Len(Archs) /\ Scheduled \subseteq ToSet(Archs)
      /\ NotStarted \subseteq ToSet(Archs) => FALSE
  BY <1>1, ArchsOfBuild DEF RemoteInv, RemoteTypeOK, RemoteTargets, FinishedAfterPack, Scheduled,
     NotStarted
<1>3. CASE queue # NotStarted
  <2>1. finish' = [finish EXCEPT ![t] = "done"] /\ queue' = queue
    BY <1>3 DEF FinishBuild
  <2>2. Building' = Building
    BY <1>1, <1>2, <2>1 DEF Building
  <2>3. RemoteTypeOK' /\ PackedAreScheduled'
    BY <1>1, <1>2, <2>1 DEF RemoteInv, RemoteTypeOK, RemoteStates, PackedAreScheduled
  <2>4. FinishedAfterPack'
    BY <1>1, <1>2, <1>3, <2>1 DEF RemoteInv, FinishedAfterPack, OwnTasksEnded
  <2>5. BuildingUntilSent'
    BY <1>1, <2>1, <2>2 DEF RemoteInv, BuildingUntilSent
  <2>6. OneRequestEach'
    BY <1>1, <1>2, <2>1 DEF RemoteInv, OneRequestEach
  <2> QED BY <2>3, <2>4, <2>5, <2>6 DEF RemoteInv
<1>4. CASE queue = NotStarted
  <2>1. finish' = [finish EXCEPT ![t] = "building"] /\ queue' = Scheduled
    BY <1>4 DEF FinishBuild
  <2>2. t \in Building' /\ queue' # NotStarted /\ requests = {} /\ sending = NoArch
    BY <1>1, <1>2, <1>4, <2>1 DEF Building, RemoteInv, BuildingUntilSent
  <2>3. RemoteTypeOK' /\ PackedAreScheduled'
    BY <1>1, <1>2, <2>1 DEF RemoteInv, RemoteTypeOK, RemoteStates, PackedAreScheduled
  <2>4. FinishedAfterPack'
    BY <1>1, <1>2, <1>4, <2>1, <2>2 DEF RemoteInv, FinishedAfterPack, OwnTasksEnded
  <2>5. BuildingUntilSent'
    BY <1>1, <1>2, <2>1, <2>2 DEF RemoteInv, BuildingUntilSent
  <2>6. \A a \in ToSet(Archs) : \A u \in RemoteTargets : u \in toBuild[a] => a \in Scheduled
    BY DEF Scheduled
  <2>7. OneRequestEach'
    BY <1>1, <1>2, <2>1, <2>2, <2>6 DEF OneRequestEach
  <2> QED BY <2>3, <2>4, <2>5, <2>7 DEF RemoteInv
<1> QED
  BY <1>3, <1>4

LEMMA SendRequestInv ==
  ASSUME RemoteInv, SendRequest
  PROVE  RemoteInv'
<1>1. /\ Building # {} /\ sending = NoArch
      /\ UNCHANGED <<remoteSetting, packs, repository, waiting, toBuild, late, finish>>
  BY DEF SendRequest
<1>2. PICK a \in queue :
         /\ sending' = a /\ queue' = queue \ {a}
         /\ requests' = requests \union
                {[arch |-> a, targets |-> toBuild[a], number |-> Cardinality(requests)]}
  BY DEF SendRequest
<1>3. PICK r : /\ r.arch = a /\ r.targets = toBuild[a]
               /\ requests' = requests \union {r}
  BY <1>2
<1>4. /\ RemoteTargets' = RemoteTargets /\ Building' = Building
      /\ queue # NotStarted /\ queue' # NotStarted /\ a \in ToSet(Archs)
  <2>1. RemoteTargets' = RemoteTargets /\ Building' = Building
    BY <1>1 DEF RemoteTargets, Building
  <2>2. PICK t \in RemoteTargets : finish[t] = "building"
    BY <1>1 DEF Building
  <2>3. queue # NotStarted
    BY <2>2 DEF RemoteInv, FinishedAfterPack
  <2>4. queue \subseteq ToSet(Archs)
    BY <2>3 DEF RemoteInv, RemoteTypeOK
  <2> QED BY <1>2, <2>1, <2>3, <2>4, ArchsOfBuild DEF NotStarted
<1>5. RemoteTypeOK'
  BY <1>1, <1>2, <1>3, <1>4 DEF RemoteInv, RemoteTypeOK
<1>6. PackedAreScheduled' /\ FinishedAfterPack' /\ BuildingUntilSent'
  BY <1>1, <1>4 DEF RemoteInv, PackedAreScheduled, FinishedAfterPack, BuildingUntilSent
<1>7. OneRequestEach'
  <2>1. /\ \A q, s \in requests : q.arch = s.arch => q = s
        /\ \A q \in requests : q.arch \notin queue
    BY DEF RemoteInv, OneRequestEach
  <2>2. /\ \A q, s \in requests' : q.arch = s.arch => q = s
        /\ \A q \in requests' : q.arch \notin queue'
    BY <1>2, <1>3, <2>1
  <2>3. \/ \E t \in RemoteTargets : finish[t] = "failed"
        \/ \A b \in ToSet(Archs), t \in RemoteTargets :
               t \in toBuild[b] =>
                   \/ <<t, b>> \in late \/ b \in queue
                   \/ \E q \in requests : q.arch = b /\ t \in q.targets
    BY <1>4 DEF RemoteInv, OneRequestEach
  <2>4. ASSUME NEW b \in ToSet(Archs), NEW t \in RemoteTargets, t \in toBuild[b], b \in queue
        PROVE  b \in queue' \/ \E q \in requests' : q.arch = b /\ t \in q.targets
    BY <1>2, <1>3, <2>4
  <2> QED BY <1>1, <1>3, <1>4, <2>2, <2>3, <2>4 DEF OneRequestEach
<1> QED
  BY <1>5, <1>6, <1>7 DEF RemoteInv

LEMMA RequestEndsInv ==
  ASSUME RemoteInv, RequestEnds
  PROVE  RemoteInv'
<1>1. /\ sending # NoArch /\ sending' = NoArch
      /\ UNCHANGED <<remoteSetting, packs, repository, waiting, toBuild, late, requests>>
  BY DEF RequestEnds
<1>2. RemoteTargets' = RemoteTargets
  BY <1>1 DEF RemoteTargets
<1>3. CASE UNCHANGED <<finish, queue>>
  <2>1. Building' = Building
    BY <1>2, <1>3 DEF Building
  <2> QED
    BY <1>1, <1>2, <1>3, <2>1 DEF RemoteInv, RemoteTypeOK, PackedAreScheduled, FinishedAfterPack,
       BuildingUntilSent, OneRequestEach
<1>4. CASE /\ queue' = {}
           /\ finish' = [t \in RemoteTargets |-> IF t \in Building THEN "failed" ELSE finish[t]]
  <2>1. PICK t \in RemoteTargets : finish[t] = "building"
    BY <1>1 DEF RemoteInv, BuildingUntilSent, Building
  <2>2. finish'[t] = "failed" /\ queue # NotStarted /\ queue' # NotStarted
    BY <1>4, <2>1 DEF RemoteInv, FinishedAfterPack, Building, NotStarted
  <2>3. RemoteTypeOK' /\ PackedAreScheduled'
    BY <1>1, <1>2, <1>4 DEF RemoteInv, RemoteTypeOK, RemoteStates, PackedAreScheduled
  <2>4. FinishedAfterPack'
    BY <1>1, <1>2, <1>4, <2>2 DEF RemoteInv, FinishedAfterPack, Building
  <2>5. BuildingUntilSent' /\ OneRequestEach'
    BY <1>1, <1>2, <1>4, <2>2 DEF RemoteInv, BuildingUntilSent, OneRequestEach
  <2> QED BY <2>3, <2>4, <2>5 DEF RemoteInv
<1> QED
  BY <1>3, <1>4 DEF RequestEnds

LEMMA AllSentInv ==
  ASSUME RemoteInv, AllSent
  PROVE  RemoteInv'
<1>1. /\ sending = NoArch /\ queue = {} /\ Building # {}
      /\ finish' = [t \in RemoteTargets |-> IF t \in Building THEN "done" ELSE finish[t]]
      /\ UNCHANGED <<remoteSetting, packs, repository, waiting, toBuild, late, queue, sending,
                     requests>>
  BY DEF AllSent
<1>2. RemoteTargets' = RemoteTargets /\ queue # NotStarted
  BY <1>1 DEF RemoteTargets, NotStarted
<1>3. RemoteTypeOK' /\ PackedAreScheduled'
  BY <1>1, <1>2 DEF RemoteInv, RemoteTypeOK, RemoteStates, PackedAreScheduled
<1>4. FinishedAfterPack'
  BY <1>1, <1>2 DEF RemoteInv, FinishedAfterPack, Building
<1>5. \A t \in RemoteTargets : finish[t] = "failed" => finish'[t] = "failed"
  BY <1>1 DEF Building
<1>6. BuildingUntilSent' /\ OneRequestEach'
  BY <1>1, <1>2, <1>5 DEF RemoteInv, BuildingUntilSent, OneRequestEach
<1> QED
  BY <1>3, <1>4, <1>6 DEF RemoteInv

LEMMA RemoteNextInv ==
  ASSUME RemoteInv, [RemoteNext]_remoteVars
  PROVE  RemoteInv'
<1>1. CASE UNCHANGED remoteVars
  BY <1>1 DEF remoteVars, RemoteInv, RemoteTypeOK, PackedAreScheduled, FinishedAfterPack,
     BuildingUntilSent, OneRequestEach, RemoteTargets, Building
<1> QED
  BY <1>1, PackArchInv, RepositoryReadInv, FinishAllInv, FinishBuildInv, SendRequestInv,
     RequestEndsInv, AllSentInv DEF RemoteNext

\* When all are done, every target was scheduled for every architecture.
LEMMA SentWhenDone ==
  ASSUME RemoteInv
  PROVE  SentOnce
<1> SUFFICES ASSUME \A t \in RemoteTargets : finish[t] = "done",
                    NEW t \in RemoteTargets, NEW a \in ToSet(Archs)
             PROVE  LET sent == {r \in requests : r.arch = a /\ t \in r.targets}
                    IN  Cardinality(sent) = 1 \/ (sent = {} /\ <<t, a>> \in late)
  BY DEF SentOnce
<1> DEFINE sent == {r \in requests : r.arch = a /\ t \in r.targets}
<1>1. /\ queue # NotStarted /\ packs = Len(Archs) /\ <<t, a>> \notin waiting
      /\ sending = NoArch /\ queue = {}
  BY DEF RemoteInv, FinishedAfterPack, BuildingUntilSent, Building
<1>2. t \in toBuild[a]
  BY <1>1, ArchsOfBuild DEF RemoteInv, PackedAreScheduled
<1>3. <<t, a>> \in late \/ sent # {}
  BY <1>1, <1>2 DEF RemoteInv, OneRequestEach
<1>4. ASSUME NEW r \in sent PROVE Cardinality(sent) = 1
  <2>1. sent = {r}
    BY DEF RemoteInv, OneRequestEach
  <2> QED BY <2>1, FS_Singleton
<1> QED
  BY <1>3, <1>4

(***************************************************************************)
(* Every target is sent to the build service once for each architecture    *)
(* when all finishBuild have succeeded, or was scheduled too late: for any *)
(* targets and architectures, whichever finishBuild comes first and        *)
(* whenever the repository is read.                                        *)
(***************************************************************************)
THEOREM TargetsAreSentOnce == RemoteSpec => []SentOnce
<1>1. RemoteInit => RemoteInv
  BY RemoteInitInv
<1>2. RemoteInv /\ [RemoteNext]_remoteVars => RemoteInv'
  BY RemoteNextInv
<1>3. RemoteInv => SentOnce
  BY SentWhenDone
<1> QED
  BY <1>1, <1>2, <1>3, PTL DEF RemoteSpec

-----------------------------------------------------------------------------
\* Publishing

\* What app-update.yml of an architecture holds.
AppUpdateOf(arch) ==
    IF \/ ~\E t \in publishSetting.targets : Suitable(t)
       \/ Publishers(NotSet) = Null \/ AppConfigs(arch) = <<>>
    THEN <<>> ELSE <<AppConfigs(arch)[1]>>

\* Where the files that are for a configuration, and those of an artifact, go to.
Goes(c) == IsPublish /\ HasPublisher(c)
PlacesOf(f) ==
    IF PublishersOf(f) = Null THEN {} ELSE ToSet(Configs(PublishersOf(f), f.arch))
InfoPlacesOf(f) == ToSet(InfoConfigs(f))

AppUpdateKnown ==
    \A a \in publishSetting.archs : appUpdate[a] # NotSet => appUpdate[a] = AppUpdateOf(a)

\* The update informations of an artifact are with the tasks, or they will be.
InfoOfScheduled ==
    /\ \A f \in scheduled :
           WritesInfo(f) /\ PublishersOf(f) # Null =>
               \/ f \in withInfo
               \/ Null \notin InfoPlacesOf(f) /\ InfosOf(f) \X {f} \subseteq infoTasks
    /\ \A f \in withInfo : PublishersOf(f) # Null
    /\ \A t \in infoTasks : PublishersOf(t[2]) # Null /\ t[1] \in InfosOf(t[2])

\* Where there is a publisher, what was scheduled was given to it.
UploadsOfScheduled ==
    /\ \A f \in scheduled : \A c \in PlacesOf(f) : Goes(c) => <<c, f>> \in uploads
    /\ \A i \in infoWritten :
           /\ ~CannotSchedule({i.config})
           /\ Goes(i.config) => <<i.config, InfoFile(i.dir)>> \in uploads

\* The files of update informations: each holds one that was written to it, and only for such
\* a one does an upload begin.
InfoFiles ==
    /\ \A i \in infoWritten : i.config.info /\ \E t \in infoTasks : t[1] = i
    /\ onDisk \subseteq infoWritten
    /\ \A i \in infoWritten : \E j \in onDisk : j.dir = i.dir
    /\ arrived \subseteq uploads
    /\ \A u \in uploads : u[2].kind = "info" =>
           \E i \in infoWritten : u = <<i.config, InfoFile(i.dir)>>

\* The place of an update information that shares neither place nor file has got it.
InfoArrived ==
    \A i \in infoWritten :
        ~Shared(i) /\ <<i.config, InfoFile(i.dir)>> \in arrived => <<i.config, i>> \in infoAt

\* After the build, all artifacts are there; at the end, nothing is left to do.
NothingLeft ==
    /\ publishStage \notin {"building", "failed"} =>
           created = BuiltFiles /\ \A a \in publishSetting.archs : appUpdate[a] # NotSet
    /\ publishStage = "published" =>
           /\ created = scheduled /\ withInfo = {} /\ uploads = arrived
           /\ \A t \in infoTasks : t[1].config.info => t[1] \in infoWritten

PublishingInv ==
    /\ publishSetting \in PublishSettings /\ DOMAIN appUpdate = publishSetting.archs
    /\ AppUpdateKnown /\ InfoOfScheduled /\ UploadsOfScheduled /\ NothingLeft
    /\ InfoFiles /\ InfoArrived

LEMMA PublisherLists ==
  ASSUME publishSetting \in PublishSettings, Publishers(NotSet) # Null, NEW a
  PROVE  /\ Len(ListOf(Publishers(NotSet))) \in Nat
         /\ DOMAIN Configs(Publishers(NotSet), a) = 1..Len(ListOf(Publishers(NotSet)))
         /\ Configs(Publishers(NotSet), a) = <<>> <=> Len(ListOf(Publishers(NotSet))) = 0
         /\ \A i \in 1..Len(ListOf(Publishers(NotSet))) :
                Configs(Publishers(NotSet), a)[i] = Resolved(ListOf(Publishers(NotSet))[i], a)
<1> DEFINE p == Publishers(NotSet)
           l == ListOf(p)
<1>1. l \in Seq(ToSet(l))
  <2>1. CASE p = NotSet
    <3>1. \A x : <<x>> \in Seq({x}) /\ ToSet(<<x>>) = {x}
      BY DEF ToSet
    <3>2. <<>> \in Seq(ToSet(<<>>))
      OBVIOUS
    <3> QED BY <2>1, <3>1, <3>2 DEF ListOf, ByToken
  <2>2. CASE p # NotSet
    <3>1. p \in {publishSetting.global, publishSetting.platform} \ {NotSet, Null}
      BY <2>2 DEF Publishers
    <3>2. p \in Seq(ToSet(p))
      BY <3>1, PublishingAssumption DEF PublishingAssumption
    <3> QED BY <2>2, <3>2 DEF ListOf
  <2> QED BY <2>1, <2>2
<1>2. Len(l) \in Nat /\ DOMAIN l = 1..Len(l)
  BY <1>1
<1>3. Configs(p, a) = [i \in 1..Len(l) |-> Resolved(l[i], a)]
  BY <1>2 DEF Configs
<1> HIDE DEF l
<1>4. Configs(p, a) = <<>> <=> Len(l) = 0
  <2>1. Configs(p, a) \in Seq({Resolved(l[i], a) : i \in 1..Len(l)}) /\ Len(Configs(p, a)) = Len(l)
    BY <1>2, <1>3
  <2> QED BY <1>2, <2>1
<1> QED
  BY <1>2, <1>3, <1>4 DEF l

\* What is derived from the options does not change.
LEMMA PublishingDerived ==
  ASSUME publishSetting' = publishSetting
  PROVE  /\ BuiltFiles' = BuiltFiles
         /\ \A f : /\ PublishersOf(f)' = PublishersOf(f) /\ PlacesOf(f)' = PlacesOf(f)
                   /\ InfoPlacesOf(f)' = InfoPlacesOf(f) /\ InfosOf(f)' = InfosOf(f)
                   /\ WritesInfo(f)' = WritesInfo(f)
         /\ \A c : Goes(c)' = Goes(c) /\ CannotSchedule({c})' = CannotSchedule({c})
         /\ \A a : AppUpdateOf(a)' = AppUpdateOf(a)
<1>1. /\ BuiltFiles' = BuiltFiles
      /\ \A f : /\ PublishersOf(f)' = PublishersOf(f) /\ PlacesOf(f)' = PlacesOf(f)
                /\ InfoConfigs(f)' = InfoConfigs(f) /\ WritesInfo(f)' = WritesInfo(f)
      /\ \A c : Goes(c)' = Goes(c) /\ CannotSchedule({c})' = CannotSchedule({c})
      /\ \A a : AppUpdateOf(a)' = AppUpdateOf(a)
  BY DEF BuiltFiles, ArtifactsOf, Artifact, PublishersOf, PlacesOf, InfoConfigs, WritesInfo,
     Suitable, Goes, CannotSchedule, IsPublish, Policy, HasPublisher, NoToken, AppUpdateOf,
     AppConfigs, Publishers, Configs, ListOf, ByToken, Resolved, Unknown, ForUpdateInfo, DetectedAs
<1>2. \A f : InfoPlacesOf(f)' = InfoPlacesOf(f) /\ InfosOf(f)' = InfosOf(f)
  BY <1>1 DEF InfoPlacesOf, InfosOf, ChannelInfo, DirOf
<1> QED
  BY <1>1, <1>2

LEMMA ScheduledFiles ==
  ASSUME NEW configs, NEW file, Schedule(configs, file)
  PROVE  /\ uploads \subseteq uploads'
         /\ \A c \in configs : Goes(c) => <<c, file>> \in uploads'
        /\ \A u \in uploads' \ uploads : u[2] = file /\ u[1] \in configs /\ u = <<u[1], u[2]>>
BY DEF Schedule, Goes

LEMMA InfosAreInfos ==
  ASSUME NEW f, NEW i \in InfosOf(f)
  PROVE  i = ChannelInfo(i.dir, i.config)
<1>1. PICK dir, config : i = ChannelInfo(dir, config)
  BY DEF InfosOf
<1>2. i.dir = dir /\ i.config = config
  BY <1>1 DEF ChannelInfo
<1> QED
  BY <1>1, <1>2

\* Update informations that are added can only be more that share a file.
LEMMA StillShared ==
  ASSUME infoTasks \subseteq infoTasks', NEW i, Shared(i)
  PROVE  Shared(i)'
BY DEF Shared, UploadsByPath

\* A step that leaves the update informations alone, and uploads at most other files.
LEMMA InfoFilesStay ==
  ASSUME InfoFiles, InfoArrived, infoTasks \subseteq infoTasks',
         UNCHANGED <<infoWritten, onDisk, infoAt, arrived>>, uploads \subseteq uploads',
         \A u \in uploads' \ uploads : u[2].kind # "info"
  PROVE  InfoFiles' /\ InfoArrived'
<1>1. \A d : InfoFile(d)' = InfoFile(d)
  BY DEF InfoFile, Artifact
<1> QED
  BY <1>1, StillShared DEF InfoFiles, InfoArrived

LEMMA FailBuildInv ==
  ASSUME PublishingInv, FailBuild
  PROVE  PublishingInv'
BY PublishingDerived, InfoFilesStay DEF FailBuild, infoFileVars, PublishingInv, AppUpdateKnown,
   InfoOfScheduled, UploadsOfScheduled, NothingLeft, InfoFile, Artifact

LEMMA WriteAppUpdateInv ==
  ASSUME PublishingInv, NEW a \in publishSetting.archs, WriteAppUpdate(a)
  PROVE  PublishingInv'
<1>1. CASE FailBuild
  BY <1>1, FailBuildInv
<1>2. CASE ~FailBuild
  <2>1. /\ publishStage = "building"
        /\ appUpdate' = [appUpdate EXCEPT ![a] = AppUpdateOf(a)]
        /\ UNCHANGED <<publishSetting, publishStage, created, scheduled, withInfo, infoTasks,
                       infoWritten, onDisk, infoAt, packageUrl, uploads, arrived>>
    BY <1>2 DEF WriteAppUpdate, AppUpdateOf, infoFileVars
  <2>2. AppUpdateKnown' /\ DOMAIN appUpdate' = publishSetting.archs
    BY <2>1, PublishingDerived DEF PublishingInv, AppUpdateKnown
  <2>3. InfoOfScheduled' /\ UploadsOfScheduled' /\ NothingLeft'
    BY <2>1, PublishingDerived DEF PublishingInv, InfoOfScheduled, UploadsOfScheduled,
       NothingLeft, InfoFile, Artifact
  <2>4. InfoFiles' /\ InfoArrived'
    BY <2>1, InfoFilesStay DEF PublishingInv
  <2> QED BY <2>1, <2>2, <2>3, <2>4 DEF PublishingInv
<1> QED
  BY <1>1, <1>2

LEMMA BuildArtifactInv ==
  ASSUME PublishingInv, NEW f \in BuiltFiles, BuildArtifact(f)
  PROVE  PublishingInv'
<1>1. CASE FailBuild
  BY <1>1, FailBuildInv
<1>2. CASE ~FailBuild
  <2>1. /\ publishStage = "building"
        /\ UNCHANGED <<publishSetting, publishStage, appUpdate, scheduled, withInfo, infoTasks,
                       infoWritten, onDisk, infoAt, uploads, arrived>>
    BY <1>2 DEF BuildArtifact, infoFileVars
  <2>2. InfoFiles' /\ InfoArrived'
    BY <2>1, InfoFilesStay DEF PublishingInv
  <2> QED
    BY <2>1, <2>2, PublishingDerived DEF PublishingInv, AppUpdateKnown, InfoOfScheduled,
       UploadsOfScheduled, NothingLeft, InfoFile, Artifact
<1> QED
  BY <1>1, <1>2

LEMMA ScheduleArtifactInv ==
  ASSUME PublishingInv, NEW f \in BuiltFiles, ScheduleArtifact(f)
  PROVE  PublishingInv'
<1>1. CASE FailBuild
  BY <1>1, FailBuildInv
<1>2. CASE ~FailBuild
  <2>1. /\ f \in created \ scheduled
        /\ scheduled' = scheduled \union {f} /\ Schedule(PlacesOf(f), f)
        /\ withInfo' = IF WritesInfo(f) /\ PublishersOf(f) # Null
                       THEN withInfo \union {f} ELSE withInfo
        /\ UNCHANGED <<publishSetting, publishStage, appUpdate, created, infoTasks, infoWritten,
                       onDisk, infoAt, packageUrl, arrived>>
    BY <1>2 DEF ScheduleArtifact, PlacesOf, infoFileVars
  <2>2. /\ uploads \subseteq uploads'
        /\ \A c \in PlacesOf(f) : Goes(c) => <<c, f>> \in uploads'
        /\ \A u \in uploads' \ uploads : u[2] = f
    BY <2>1, ScheduledFiles
  <2>3. AppUpdateKnown'
    BY <2>1, PublishingDerived DEF PublishingInv, AppUpdateKnown
  <2>4. InfoOfScheduled'
    BY <2>1, PublishingDerived DEF PublishingInv, InfoOfScheduled
  <2>5. UploadsOfScheduled'
    BY <2>1, <2>2, PublishingDerived DEF PublishingInv, UploadsOfScheduled, InfoFile, Artifact
  <2>6. NothingLeft'
    BY <2>1, PublishingDerived DEF PublishingInv, NothingLeft
  <2>7. InfoFiles' /\ InfoArrived'
    <3>1. f.kind # "info"
      BY DEF BuiltFiles, ArtifactsOf, Artifact
    <3> QED BY <2>1, <2>2, <3>1, InfoFilesStay DEF PublishingInv
  <2> QED BY <2>1, <2>3, <2>4, <2>5, <2>6, <2>7 DEF PublishingInv
<1> QED
  BY <1>1, <1>2

LEMMA AddInfoTasksInv ==
  ASSUME PublishingInv, NEW f \in BuiltFiles, AddInfoTasks(f)
  PROVE  PublishingInv'
<1>1. CASE FailBuild
  BY <1>1, FailBuildInv
<1>2. CASE ~FailBuild
  <2>1. /\ f \in withInfo /\ Null \notin InfoPlacesOf(f)
        /\ withInfo' = withInfo \ {f}
        /\ infoTasks' = infoTasks \union {<<i, f>> : i \in InfosOf(f)}
        /\ UNCHANGED <<publishSetting, publishStage, appUpdate, created, scheduled, infoWritten,
                       onDisk, infoAt, packageUrl, uploads, arrived>>
    BY <1>2 DEF AddInfoTasks, InfoPlacesOf, infoFileVars
  <2>2. InfoOfScheduled'
    <3>1. PublishersOf(f) # Null /\ InfosOf(f) \X {f} \subseteq infoTasks'
      BY <2>1 DEF PublishingInv, InfoOfScheduled
    <3>2. ASSUME NEW t \in infoTasks'
          PROVE  PublishersOf(t[2]) # Null /\ t[1] \in InfosOf(t[2])
      BY <2>1, <3>1 DEF PublishingInv, InfoOfScheduled
    <3>3. ASSUME NEW g \in scheduled, WritesInfo(g), PublishersOf(g) # Null
          PROVE  \/ g \in withInfo'
                 \/ Null \notin InfoPlacesOf(g) /\ InfosOf(g) \X {g} \subseteq infoTasks'
      BY <2>1, <3>1, <3>3 DEF PublishingInv, InfoOfScheduled
    <3> QED BY <2>1, <3>2, <3>3, PublishingDerived DEF PublishingInv, InfoOfScheduled
  <2>3. AppUpdateKnown' /\ UploadsOfScheduled'
    BY <2>1, PublishingDerived DEF PublishingInv, AppUpdateKnown, UploadsOfScheduled, InfoFile,
       Artifact
  <2>4. NothingLeft'
    BY <2>1, PublishingDerived DEF PublishingInv, NothingLeft
  <2>5. InfoFiles' /\ InfoArrived'
    BY <2>1, InfoFilesStay DEF PublishingInv
  <2> QED BY <2>1, <2>2, <2>3, <2>4, <2>5 DEF PublishingInv
<1> QED
  BY <1>1, <1>2

LEMMA EndBuildInv ==
  ASSUME PublishingInv, EndBuild
  PROVE  PublishingInv'
<1>1. CASE FailBuild
  BY <1>1, FailBuildInv
<1>2. CASE ~FailBuild
  <2>1. /\ publishStage' = "awaiting" /\ created = BuiltFiles
        /\ \A a \in publishSetting.archs : appUpdate[a] # NotSet
        /\ \E configs : Schedule(configs, ExtraFile)
        /\ UNCHANGED <<publishSetting, appUpdate, created, scheduled, withInfo, infoTasks,
                       infoWritten, onDisk, infoAt, packageUrl, arrived>>
    BY <1>2 DEF EndBuild, infoFileVars
  <2>2. uploads \subseteq uploads' /\ \A u \in uploads' \ uploads : u[2] = ExtraFile
    BY <2>1, ScheduledFiles
  <2>3. InfoFiles' /\ InfoArrived'
    BY <2>1, <2>2, InfoFilesStay DEF PublishingInv, ExtraFile, Artifact
  <2> QED
    BY <2>1, <2>2, <2>3, PublishingDerived DEF PublishingInv, AppUpdateKnown, InfoOfScheduled,
       UploadsOfScheduled, NothingLeft, InfoFile, Artifact
<1> QED
  BY <1>1, <1>2

\* What is uploaded of an update information that shares no file is this update information.
LEMMA SentInfo ==
  ASSUME InfoOfScheduled, InfoFiles, NEW i \in infoWritten, ~Shared(i)
  PROVE  Sent(i.config, i.dir) = i
<1>1. CASE UploadsByPath(i.config)
  <2>1. \A j \in onDisk : j.dir = i.dir => j = i
    <3> SUFFICES ASSUME NEW j \in onDisk, j.dir = i.dir, j # i PROVE FALSE
      OBVIOUS
    <3>1. j.config.info /\ \E t \in infoTasks : t[1] = j
      BY DEF InfoFiles
    <3> QED BY <1>1, <3>1 DEF Shared
  <2>2. \E j \in onDisk : j.dir = i.dir
    BY DEF InfoFiles
  <2> QED BY <1>1, <2>1, <2>2 DEF Sent
<1>2. CASE ~UploadsByPath(i.config)
  <2>1. PICK t \in infoTasks : t[1] = i
    BY DEF InfoFiles
  <2>2. i = ChannelInfo(i.dir, i.config)
    BY <2>1, InfosAreInfos DEF InfoOfScheduled
  <2>3. Sent(i.config, i.dir) = ChannelInfo(i.dir, i.config)
    BY <1>2 DEF Sent
  <2> QED BY <2>2, <2>3
<1> QED
  BY <1>1, <1>2

LEMMA EndUploadInv ==
  ASSUME PublishingInv, NEW u \in uploads, EndUpload(u)
  PROVE  PublishingInv'
<1>1. CASE FailBuild
  BY <1>1, FailBuildInv
<1>2. CASE ~FailBuild
  <2>1. /\ u \in uploads \ arrived /\ arrived' = arrived \union {u}
        /\ infoAt' = IF u[2].kind # "info" THEN infoAt
                     ELSE {x \in infoAt : x[1] # u[1]}
                              \union {<<u[1], Sent(u[1], u[2].target)>>}
        /\ UNCHANGED <<publishSetting, publishStage, appUpdate, created, scheduled, withInfo,
                       infoTasks, infoWritten, onDisk, uploads>>
    BY <1>2 DEF EndUpload
  <2>2. publishStage # "published"
    BY <2>1 DEF PublishingInv, NothingLeft
  <2>3. InfoFiles'
    BY <2>1 DEF PublishingInv, InfoFiles, InfoFile, Artifact
  <2>4. InfoArrived'
    <3>1. \A i : Shared(i)' = Shared(i) /\ InfoFile(i.dir)' = InfoFile(i.dir)
      BY <2>1 DEF Shared, UploadsByPath, InfoFile, Artifact
    <3> SUFFICES ASSUME NEW i \in infoWritten, ~Shared(i),
                        <<i.config, InfoFile(i.dir)>> \in arrived'
                 PROVE  <<i.config, i>> \in infoAt'
      BY <2>1, <3>1 DEF InfoArrived
    <3>2. CASE u = <<i.config, InfoFile(i.dir)>>
      <4>1. u[2].kind = "info" /\ u[1] = i.config /\ u[2].target = i.dir
        BY <3>2 DEF InfoFile, Artifact
      <4>2. Sent(i.config, i.dir) = i
        BY SentInfo DEF PublishingInv
      <4> QED BY <2>1, <4>1, <4>2
    <3>3. CASE u # <<i.config, InfoFile(i.dir)>>
      <4>1. <<i.config, i>> \in infoAt
        BY <2>1, <3>3 DEF PublishingInv, InfoArrived
      <4>2. u[2].kind = "info" => u[1] # i.config
        <5> SUFFICES ASSUME u[2].kind = "info", u[1] = i.config PROVE FALSE
          OBVIOUS
        <5>1. PICK j \in infoWritten : u = <<j.config, InfoFile(j.dir)>>
          BY DEF PublishingInv, InfoFiles
        <5>2. j # i /\ j.config = i.config
          BY <3>3, <5>1
        <5>3. j.config.info /\ \E t \in infoTasks : t[1] = j
          BY DEF PublishingInv, InfoFiles
        <5> QED BY <5>2, <5>3 DEF Shared
      <4>3. <<i.config, i>>[1] = i.config
        OBVIOUS
      <4> QED BY <2>1, <4>1, <4>2, <4>3
    <3> QED BY <3>2, <3>3
  <2> QED
    BY <2>1, <2>2, <2>3, <2>4, PublishingDerived DEF PublishingInv, AppUpdateKnown,
       InfoOfScheduled, UploadsOfScheduled, NothingLeft, InfoFile, Artifact
<1> QED
  BY <1>1, <1>2

LEMMA AdvanceInv ==
  ASSUME PublishingInv, Advance
  PROVE  PublishingInv'
<1>1. /\ publishStage \in {"awaiting", "writing"} /\ publishStage' \in {"writing", "published"}
      /\ created = scheduled /\ withInfo = {} /\ uploads = arrived
      /\ UNCHANGED <<publishSetting, appUpdate, created, scheduled, withInfo, infoTasks,
                     infoWritten, onDisk, infoAt, packageUrl, uploads, arrived>>
  BY DEF Advance, infoFileVars
<1>2. publishStage' = "published" => \A t \in infoTasks : t[1].config.info => t[1] \in infoWritten
  BY DEF Advance
<1>3. NothingLeft'
  BY <1>1, <1>2, PublishingDerived DEF PublishingInv, NothingLeft
<1>4. InfoFiles' /\ InfoArrived'
  BY <1>1, InfoFilesStay DEF PublishingInv
<1> QED
  BY <1>1, <1>3, <1>4, PublishingDerived DEF PublishingInv, AppUpdateKnown, InfoOfScheduled,
     UploadsOfScheduled, InfoFile, Artifact

LEMMA PublishInfoInv ==
  ASSUME PublishingInv, NEW t \in infoTasks, PublishInfo(t[1])
  PROVE  PublishingInv'
<1>1. CASE FailBuild
  BY <1>1, FailBuildInv
<1>2. CASE ~FailBuild
  <2> DEFINE i == t[1]
  <2>1. /\ publishStage = "writing" /\ ~CannotSchedule({i.config})
        /\ i.config.info /\ i \notin infoWritten
        /\ infoWritten' = infoWritten \union {i}
        /\ onDisk' = {j \in onDisk : j.dir # i.dir} \union {i}
        /\ Schedule({i.config}, InfoFile(i.dir))
        /\ UNCHANGED <<publishSetting, publishStage, appUpdate, created, scheduled, withInfo,
                       infoTasks, infoAt, packageUrl, arrived>>
    BY <1>2 DEF PublishInfo
  <2>2. /\ uploads \subseteq uploads'
        /\ Goes(i.config) => <<i.config, InfoFile(i.dir)>> \in uploads'
        /\ \A u \in uploads' \ uploads : u = <<i.config, InfoFile(i.dir)>>
    BY <2>1, ScheduledFiles
  <2>3. \A d : InfoFile(d)' = InfoFile(d)
    BY DEF InfoFile, Artifact
  <2>4. \E x \in infoTasks : x[1] = i
    OBVIOUS
  <2>5. i = ChannelInfo(i.dir, i.config)
    BY InfosAreInfos DEF PublishingInv, InfoOfScheduled
  <2> HIDE DEF i
  <2>6. UploadsOfScheduled'
    BY <2>1, <2>2, <2>3, PublishingDerived DEF PublishingInv, UploadsOfScheduled
  <2>7. InfoFiles'
    BY <2>1, <2>2, <2>3, <2>4 DEF PublishingInv, InfoFiles
  <2>8. InfoArrived'
    <3>1. <<i.config, InfoFile(i.dir)>> \notin arrived
      <4> SUFFICES ASSUME <<i.config, InfoFile(i.dir)>> \in arrived PROVE FALSE
        OBVIOUS
      <4>1. InfoFile(i.dir).kind = "info" /\ \A d : InfoFile(d).target = d
        BY DEF InfoFile, Artifact
      <4>2. PICK j \in infoWritten : /\ j.config = i.config
                                     /\ InfoFile(j.dir) = InfoFile(i.dir)
        BY <4>1 DEF PublishingInv, InfoFiles
      <4>3. j.dir = i.dir
        BY <4>1, <4>2
      <4>4. j = ChannelInfo(j.dir, j.config)
        BY InfosAreInfos DEF PublishingInv, InfoFiles, InfoOfScheduled
      <4> QED BY <2>1, <2>5, <4>2, <4>3, <4>4
    <3>2. \A j : Shared(j)' = Shared(j)
      BY <2>1 DEF Shared, UploadsByPath
    <3> QED BY <2>1, <2>3, <3>1, <3>2 DEF PublishingInv, InfoArrived
  <2> QED
    BY <2>1, <2>6, <2>7, <2>8, PublishingDerived DEF PublishingInv, AppUpdateKnown,
       InfoOfScheduled, NothingLeft
<1> QED
  BY <1>1, <1>2

LEMMA PublishingNextInv ==
  ASSUME PublishingInv, [PublishingNext]_publishingVars
  PROVE  PublishingInv'
<1>1. CASE UNCHANGED publishingVars
  <2>1. InfoFiles' /\ InfoArrived'
    BY <1>1, InfoFilesStay DEF publishingVars, infoFileVars, PublishingInv
  <2> QED
    BY <1>1, <2>1, PublishingDerived DEF publishingVars, PublishingInv, AppUpdateKnown,
       InfoOfScheduled, UploadsOfScheduled, NothingLeft, InfoFile, Artifact
<1> QED
  BY <1>1, WriteAppUpdateInv, BuildArtifactInv, ScheduleArtifactInv, AddInfoTasksInv, EndBuildInv,
     EndUploadInv, AdvanceInv, PublishInfoInv DEF PublishingNext

\* A configuration that does not tell architectures apart is the same for all.
LEMMA SamePlace ==
  ASSUME NEW o, NEW a, NEW b, ~Unknown(o), a = b \/ (b = AnyArch /\ Resolved(o, a).arch = AnyArch)
  PROVE  Resolved(o, a) = Resolved(o, b)
BY DEF Resolved

\* The first configuration of an artifact has an update information of its own.
LEMMA FirstOfInfos ==
  ASSUME NEW f, NEW n \in Nat \ {0}, DOMAIN InfoConfigs(f) = 1..n
  PROVE  FirstInfo(InfoConfigs(f)[1]) \in InfosOf(f)
<1> DEFINE configs == InfoConfigs(f)
           dir(k) == DirOf(configs[k], k = 1)
<1>1. 1 \in DOMAIN configs /\ \A k \in 1..(1 - 1) : dir(k) # dir(1)
  OBVIOUS
<1>2. FirstInfo(configs[1]) = ChannelInfo(dir(1), configs[1])
  BY DEF FirstInfo, DirOf
<1> QED
  BY <1>1, <1>2 DEF InfosOf

\* At the end, what app-update.yml of an architecture names is where the artifact is.
LEMMA FoundAtTheEnd ==
  ASSUME PublishingInv
  PROVE  UpdatesAreFound
<1> SUFFICES ASSUME publishStage = "published",
                    NEW arch \in publishSetting.archs, NEW f \in BuiltFiles,
                    WritesInfo(f), publishSetting.own[f.target] = NotSet,
                    f.arch \in {arch, AnyArch}
             PROVE  IF appUpdate[arch] = <<>>
                    THEN \A t \in infoTasks : t[2] # f
                    ELSE LET c == appUpdate[arch][1]
                             i == FirstInfo(c)
                             goes == IsUploadedTo(c) /\ Publishers(NotSet) # <<>>
                         IN  f.arch = arch \/ c.arch = AnyArch =>
                                 /\ c.info => i \in infoWritten /\ <<i, f>> \in infoTasks
                                 /\ goes => <<c, f>> \in arrived
                                 /\ goes /\ c.info /\ ~Shared(i) =>
                                        \E t \in infoTasks : t[2] = f /\ <<c, t[1]>> \in infoAt
  BY DEF UpdatesAreFound
<1> DEFINE p == Publishers(NotSet)
           l == ListOf(p)
<1>1. /\ publishSetting \in PublishSettings /\ appUpdate[arch] = AppUpdateOf(arch)
      /\ f \in scheduled /\ f \notin withInfo /\ PublishersOf(f) = p
      /\ \A t \in infoTasks : t[1].config.info => t[1] \in infoWritten
      /\ uploads = arrived
  BY DEF PublishingInv, NothingLeft, AppUpdateKnown, PublishersOf
<1>2. \E t \in publishSetting.targets : Suitable(t)
  BY DEF BuiltFiles, ArtifactsOf, Artifact, WritesInfo
<1>3. CASE p = Null
  <2>1. AppUpdateOf(arch) = <<>>
    BY <1>3 DEF AppUpdateOf
  <2>2. \A t \in infoTasks : t[2] # f
    BY <1>1, <1>3 DEF PublishingInv, InfoOfScheduled
  <2> QED BY <1>1, <2>1, <2>2
<1>4. CASE p # Null
  <2>1. /\ Len(l) \in Nat
        /\ \A a : /\ DOMAIN Configs(p, a) = 1..Len(l)
                  /\ Configs(p, a) = <<>> <=> Len(l) = 0
                  /\ \A i \in 1..Len(l) : Configs(p, a)[i] = Resolved(l[i], a)
    BY <1>1, <1>4, PublisherLists
  <2>2. InfosOf(f) \X {f} \subseteq infoTasks /\ Null \notin InfoPlacesOf(f)
    BY <1>1, <1>4 DEF PublishingInv, InfoOfScheduled
  <2>3. InfoConfigs(f) = ForUpdateInfo(Configs(p, f.arch)) /\ AppConfigs(arch) = ForUpdateInfo(Configs(p, arch))
    BY <1>1 DEF InfoConfigs, AppConfigs
  <2> HIDE DEF l
  <2>4. CASE Len(l) = 0
    <3>1. Configs(p, f.arch) = <<>> /\ Configs(p, arch) = <<>>
      BY <2>1, <2>4
    <3>2. CASE publishSetting.repository # "github"
      <4>1. AppUpdateOf(arch) = <<>> /\ InfosOf(f) = {}
        BY <2>3, <3>1, <3>2 DEF ForUpdateInfo, AppUpdateOf, InfoConfigs, InfosOf
      <4> QED BY <1>1, <4>1 DEF PublishingInv, InfoOfScheduled
    <3>3. CASE publishSetting.repository = "github"
      <4> DEFINE c == Resolved(DetectedAs("github"), AnyArch)
      <4>1. AppConfigs(arch) = <<c>> /\ InfoConfigs(f) = <<c>>
        BY <2>3, <3>1, <3>3 DEF ForUpdateInfo
      <4>2. AppUpdateOf(arch) = <<c>> /\ c \in InfoPlacesOf(f)
        <5>1. <<c>> # <<>> /\ <<c>>[1] = c /\ ToSet(<<c>>) = {c}
          BY DEF ToSet
        <5> HIDE DEF c
        <5> QED BY <1>2, <1>4, <4>1, <5>1 DEF AppUpdateOf, InfoPlacesOf
      <4>3. c # Null /\ <<FirstInfo(c), f>> \in infoTasks
        <5>1. <<c>>[1] = c /\ DOMAIN <<c>> = 1..1
          OBVIOUS
        <5> HIDE DEF c
        <5>2. DOMAIN InfoConfigs(f) = 1..1 /\ InfoConfigs(f)[1] = c /\ InfoConfigs(f) = <<c>>
          BY <4>1, <5>1
        <5>3. FirstInfo(c) \in InfosOf(f)
          <6>1. 1 \in Nat \ {0}
            OBVIOUS
          <6>2. FirstInfo(InfoConfigs(f)[1]) \in InfosOf(f)
            BY ONLY <5>2, <6>1, FirstOfInfos
          <6> QED BY <5>2, <6>2
        <5>4. ToSet(<<c>>) = {c}
          BY DEF ToSet
        <5>5. c # Null
          BY <2>2, <5>2, <5>4 DEF InfoPlacesOf
        <5> QED BY <2>2, <5>3, <5>5
      <4>4. c.info /\ c.provider = "github"
        BY <4>3 DEF Resolved, DetectedAs
      <4>5. FirstInfo(c) \in infoWritten /\ FirstInfo(c).config = c
        <5>1. <<FirstInfo(c), f>>[1] = FirstInfo(c) /\ FirstInfo(c).config = c
          BY DEF FirstInfo, ChannelInfo, DirOf
        <5> HIDE DEF c
        <5> QED BY <1>1, <4>3, <4>4, <5>1
      <4>6. p # <<>> => ~IsUploadedTo(c)
        <5>1. ~CannotSchedule({c})
          <6> HIDE DEF c
          <6> QED BY <4>5 DEF PublishingInv, UploadsOfScheduled
        <5>2. IsPublish => "github" \in publishSetting.tokens
          BY <4>4, <5>1 DEF CannotSchedule, NoToken
        <5>3. p = NotSet => ~("github" \in publishSetting.tokens)
          <6>1. p = NotSet /\ "github" \in publishSetting.tokens => Len(l) = 1
            BY DEF l, ListOf, ByToken
          <6> QED BY <2>4, <6>1
        <5>4. p # NotSet => p = <<>>
          <6> SUFFICES ASSUME p # NotSet PROVE p = <<>>
            OBVIOUS
          <6>1. p \in {publishSetting.global, publishSetting.platform} \ {NotSet, Null}
            BY <1>4 DEF Publishers
          <6>2. p \in Seq(ToSet(p))
            BY <1>1, <6>1, PublishingAssumption DEF PublishingAssumption
          <6>3. l = p
            BY DEF l, ListOf
          <6> QED BY <2>4, <6>2, <6>3
        <5> QED BY <5>2, <5>3, <5>4 DEF IsUploadedTo
      <4> HIDE DEF c
      <4> QED BY <1>1, <4>2, <4>3, <4>5, <4>6
    <3> QED BY <3>2, <3>3
  <2>5. CASE Len(l) # 0
    <3> DEFINE c == Resolved(l[1], arch)
               d == Resolved(l[1], f.arch)
    <3>1. /\ 1 \in 1..Len(l)
          /\ Configs(p, arch) # <<>> /\ Configs(p, arch)[1] = c
          /\ Configs(p, f.arch) # <<>> /\ Configs(p, f.arch)[1] = d
          /\ 1 \in DOMAIN Configs(p, f.arch)
      BY <2>1, <2>5
    <3>2. AppUpdateOf(arch) = <<c>>
      BY <1>2, <1>4, <2>3, <3>1 DEF AppUpdateOf, ForUpdateInfo
    <3>3. InfoPlacesOf(f) = ToSet(Configs(p, f.arch)) /\ PlacesOf(f) = ToSet(Configs(p, f.arch))
      BY <1>1, <1>4, <2>3, <3>1 DEF InfoPlacesOf, PlacesOf, ForUpdateInfo
    <3>4. d \in ToSet(Configs(p, f.arch))
      BY <3>1 DEF ToSet
    <3>5. ~Unknown(l[1])
      BY <2>2, <3>3, <3>4 DEF Resolved
    <3>6. f.arch = arch \/ c.arch = AnyArch => c = d
      BY <3>5, SamePlace
    <3> SUFFICES ASSUME f.arch = arch \/ c.arch = AnyArch
                 PROVE  /\ c.info => FirstInfo(c) \in infoWritten /\ <<FirstInfo(c), f>> \in infoTasks
                        /\ IsUploadedTo(c) => <<c, f>> \in arrived
                        /\ IsUploadedTo(c) /\ c.info /\ ~Shared(FirstInfo(c)) =>
                               \E t \in infoTasks : t[2] = f /\ <<c, t[1]>> \in infoAt
      <4>1. appUpdate[arch] # <<>> /\ appUpdate[arch][1] = c
        BY <1>1, <3>2
      <4> HIDE DEF c
      <4> QED BY <4>1
    <3>7. c \in PlacesOf(f) /\ FirstInfo(c) \in InfosOf(f)
      <4>1. DOMAIN InfoConfigs(f) = 1..Len(l) /\ InfoConfigs(f)[1] = c
        BY <2>1, <2>3, <3>1, <3>6 DEF ForUpdateInfo
      <4> HIDE DEF c, d
      <4> QED BY <2>1, <2>5, <3>3, <3>4, <3>6, <4>1, FirstOfInfos
    <3> HIDE DEF c, d
    <3> DEFINE i == FirstInfo(c)
    <3>8. i.config = c
      BY DEF FirstInfo, ChannelInfo, DirOf
    <3> HIDE DEF i
    <3>9. <<i, f>> \in infoTasks /\ <<i, f>>[1] = i /\ <<i, f>>[2] = f
      BY <2>2, <3>7 DEF i
    <3>10. c.info => i \in infoWritten
      BY <1>1, <3>8, <3>9
    <3>11. IsUploadedTo(c) => Goes(c)
      BY DEF IsUploadedTo, Goes, HasPublisher
    <3>12. IsUploadedTo(c) => <<c, f>> \in arrived
      BY <1>1, <3>7, <3>11 DEF PublishingInv, UploadsOfScheduled
    <3>13. IsUploadedTo(c) /\ c.info /\ ~Shared(i) => <<c, i>> \in infoAt
      BY <1>1, <3>8, <3>10, <3>11 DEF PublishingInv, UploadsOfScheduled, InfoArrived
    <3> QED BY <3>9, <3>10, <3>12, <3>13 DEF i
  <2> QED BY <2>4, <2>5
<1> QED
  BY <1>3, <1>4

(***************************************************************************)
(* An installed application finds its updates where its app-update.yml     *)
(* says: the artifact, and an update information that lists it.  For any   *)
(* options, targets, architectures and tokens, in whatever order artifacts *)
(* are built, scheduled and uploaded, with the four exceptions of          *)
(* UpdatesAreFound: a "publish" of the target's own, one installer for     *)
(* architectures that have places of their own, an empty list of           *)
(* publishers, and update informations that share a file or a place.       *)
(***************************************************************************)
THEOREM ApplicationsFindUpdates == PublishingSpec => []UpdatesAreFound
<1>1. PublishingInit => PublishingInv
  BY DEF PublishingInit, PublishingInv, AppUpdateKnown, InfoOfScheduled, UploadsOfScheduled,
     NothingLeft, InfoFiles, InfoArrived
<1>2. PublishingInv /\ [PublishingNext]_publishingVars => PublishingInv'
  BY PublishingNextInv
<1>3. PublishingInv => UpdatesAreFound
  BY FoundAtTheEnd
<1> QED
  BY <1>1, <1>2, <1>3, PTL DEF PublishingSpec


-----------------------------------------------------------------------------
(***************************************************************************)
(* The requests that servers are asked.  CancelEndsCalls needs to know     *)
(* which requests can be open at all.  That is OneOpen: a call has one     *)
(* open request, its last, and the promise of an open request is pending,  *)
(* so a handler for it is on the token.                                    *)
(***************************************************************************)
Handlers == Calls \X Levels

RequestsTypeOK ==
    /\ electron \in BOOLEAN
    /\ flags \in [Tokens -> BOOLEAN]
    /\ linked \in BOOLEAN
    /\ disposed \in BOOLEAN
    /\ listeners \in [Tokens -> SUBSET (Handlers \cup {Link})]
    /\ promise \in [Calls -> [Levels -> {"none", "pending", "resolved", "rejected", "cancelled"}]]
    /\ request \in [Calls -> [Levels -> {"none", "open", "followed", "ended", "aborted"}]]

\* A handler is on the token its call was made with, and the link on the parent.
OnOwnToken ==
    /\ \A t \in Tokens, c \in Calls, l \in Levels : <<c, l>> \in listeners[t] => t = Token(c)
    /\ Link \notin listeners["own"]

\* The parent tells its child, until it has told it or the child is disposed of.
LinkKept ==
    ~disposed => /\ linked
                 /\ Link \in listeners["app"] \/ (flags["app"] /\ flags["own"])

OneOpen ==
    \A c \in Calls :
        /\ promise[c][0] = "none" => \A l \in Levels : request[c][l] = "none"
        /\ \A l \in Levels : request[c][l] = "open" =>
               /\ promise[c][l] = "pending"
               /\ \A k \in Levels : k > l => request[c][k] = "none"

RequestsInv ==
    /\ RequestsTypeOK
    /\ OnOwnToken
    /\ HandlersOfPending
    /\ LinkKept
    /\ OneOpen
    /\ CancelEndsCalls

-----------------------------------------------------------------------------
\* What a step does to the handlers

LEMMA LinkIsNoHandler == Link \notin Handlers
  BY RequestsAssumption DEF RequestsAssumption, Link, Handlers

\* The promises of c up to level l settle and take their handlers off the token.
LEMMA SettleEffect ==
  ASSUME RequestsTypeOK, NEW c \in Calls, NEW l \in Levels,
         NEW how \in {"resolved", "rejected", "cancelled"}, Settle(c, l, how)
  PROVE  /\ promise' \in [Calls -> [Levels -> {"none", "pending", "resolved", "rejected", "cancelled"}]]
         /\ \A d \in Calls \ {c} : promise'[d] = promise[d]
         /\ \A k \in Levels : promise'[c][k] = IF k <= l /\ promise[c][k] = "pending"
                                               THEN how ELSE promise[c][k]
         /\ listeners' \in [Tokens -> SUBSET (Handlers \cup {Link})]
         /\ \A t \in Tokens : listeners'[t] \subseteq listeners[t]
         /\ \A t \in Tokens : Link \in listeners[t] => Link \in listeners'[t]
         /\ \A d \in Calls, k \in Levels :
               <<d, k>> \in listeners'[Token(d)] <=>
                  <<d, k>> \in listeners[Token(d)] /\ (d = c => promise'[d][k] = promise[d][k])
<1>1. Token(c) \in Tokens /\ \A k \in 0..l : k \in Levels
  BY RequestsAssumption DEF Token, Tokens, Levels, RequestsAssumption
<1>2. PendingTo(promise, c, l) = {k \in Levels : k <= l /\ promise[c][k] = "pending"}
  BY <1>1, RequestsAssumption DEF PendingTo, Levels, RequestsAssumption
<1>3. /\ promise' = [promise EXCEPT ![c] = [k \in Levels |->
                        IF k <= l /\ promise[c][k] = "pending" THEN how ELSE promise[c][k]]]
      /\ listeners' = [listeners EXCEPT ![Token(c)] = @ \ ({c} \X PendingTo(promise, c, l))]
  BY <1>2 DEF Settle, Settled, WithoutHandlers
<1>4. /\ promise' \in [Calls -> [Levels -> {"none", "pending", "resolved", "rejected", "cancelled"}]]
      /\ \A d \in Calls \ {c} : promise'[d] = promise[d]
      /\ \A k \in Levels : promise'[c][k] = IF k <= l /\ promise[c][k] = "pending"
                                               THEN how ELSE promise[c][k]
  BY <1>3 DEF RequestsTypeOK
<1>5. /\ listeners' \in [Tokens -> SUBSET (Handlers \cup {Link})]
      /\ \A t \in Tokens : listeners'[t] \subseteq listeners[t]
  BY <1>1, <1>3 DEF RequestsTypeOK
<1>6. \A t \in Tokens : Link \in listeners[t] => Link \in listeners'[t]
  <2>1. Link \notin {c} \X PendingTo(promise, c, l)
    BY RequestsAssumption DEF RequestsAssumption, Link
  <2> QED
    BY <1>1, <1>3, <2>1 DEF RequestsTypeOK
<1>7. ASSUME NEW d \in Calls, NEW k \in Levels
      PROVE  <<d, k>> \in listeners'[Token(d)] <=>
                <<d, k>> \in listeners[Token(d)] /\ (d = c => promise'[d][k] = promise[d][k])
  <2>1. Token(d) \in Tokens
    BY DEF Token, Tokens
  <2>2. CASE d = c
    <3>1. <<d, k>> \in {c} \X PendingTo(promise, c, l) <=> promise'[d][k] # promise[d][k]
      BY <1>2, <1>4, <2>2
    <3> QED
      BY <1>3, <2>1, <2>2, <3>1 DEF RequestsTypeOK
  <2>3. CASE d # c
    <3>1. <<d, k>> \notin {c} \X PendingTo(promise, c, l)
      BY <2>3
    <3> QED
      BY <1>3, <2>1, <2>3, <3>1 DEF RequestsTypeOK
  <2> QED
    BY <2>2, <2>3
<1> QED
  BY <1>4, <1>5, <1>6, <1>7

\* A chain settles up to a level, above which it may go on.
LEMMA SettlesChain ==
  ASSUME RequestsInv, NEW c \in Calls, NEW l \in Levels,
         NEW how \in {"resolved", "rejected", "cancelled"}, Settle(c, l, how),
         UNCHANGED tokenVars,
         request' \in [Calls -> [Levels -> {"none", "open", "followed", "ended", "aborted"}]],
         \A d \in Calls \ {c} : request'[d] = request[d],
         promise[c][0] # "none",
         \A k \in Levels : /\ request'[c][k] = "open" => request[c][k] = "open" /\ k > l
                           /\ request[c][k] = "none" => request'[c][k] = "none"
  PROVE  RequestsInv'
<1> USE DEF tokenVars
<1>0. /\ RequestsTypeOK /\ OnOwnToken /\ HandlersOfPending /\ LinkKept /\ OneOpen /\ CancelEndsCalls
      /\ 0 \in Levels /\ \A k \in Levels : k \in Nat
  BY RequestsAssumption DEF RequestsInv, RequestsAssumption, Levels
<1>1. /\ promise' \in [Calls -> [Levels -> {"none", "pending", "resolved", "rejected", "cancelled"}]]
      /\ \A d \in Calls \ {c} : promise'[d] = promise[d]
      /\ \A k \in Levels : promise'[c][k] = IF k <= l /\ promise[c][k] = "pending"
                                            THEN how ELSE promise[c][k]
  BY <1>0, SettleEffect
<1>2. /\ listeners' \in [Tokens -> SUBSET (Handlers \cup {Link})]
      /\ \A t \in Tokens : listeners'[t] \subseteq listeners[t]
      /\ \A t \in Tokens : Link \in listeners[t] => Link \in listeners'[t]
      /\ \A d \in Calls, k \in Levels :
            <<d, k>> \in listeners'[Token(d)] <=>
               <<d, k>> \in listeners[Token(d)] /\ (d = c => promise'[d][k] = promise[d][k])
  BY <1>0, SettleEffect
<1>3. RequestsTypeOK'
  BY <1>0, <1>1, <1>2 DEF RequestsTypeOK
<1>4. OnOwnToken' /\ LinkKept'
  BY <1>0, <1>2 DEF OnOwnToken, LinkKept, Token, Tokens
<1>5. HandlersOfPending'
  <2>1. ASSUME NEW d \in Calls, NEW k \in Levels
        PROVE  /\ <<d, k>> \in listeners'[Token(d)] => promise'[d][k] = "pending"
               /\ promise'[d][k] = "pending" => <<d, k>> \in listeners'[Token(d)] \/ disposed
    <3>1. \/ promise'[d][k] = promise[d][k]
          \/ d = c /\ promise'[d][k] # promise[d][k] /\ promise'[d][k] # "pending"
      BY <1>1
    <3> QED
      BY <1>0, <1>2, <3>1 DEF HandlersOfPending
  <2> QED
    BY <2>1 DEF HandlersOfPending, Token
<1>6. OneOpen'
  <2>1. ASSUME NEW d \in Calls, promise'[d][0] = "none", NEW k \in Levels
        PROVE  request'[d][k] = "none"
    BY <1>0, <1>1, <2>1 DEF OneOpen
  <2>2. ASSUME NEW d \in Calls, NEW k \in Levels, request'[d][k] = "open"
        PROVE  /\ request[d][k] = "open" /\ promise'[d][k] = promise[d][k]
               /\ \A j \in Levels : request[d][j] = "none" => request'[d][j] = "none"
    BY <1>0, <1>1, <2>2
  <2> QED
    BY <1>0, <2>1, <2>2 DEF OneOpen
<1>7. CancelEndsCalls'
  BY <1>0, <1>1 DEF CancelEndsCalls, Cancelled, Token
<1> QED
  BY <1>3, <1>4, <1>5, <1>6, <1>7 DEF RequestsInv

\* A request is opened at the end of its chain.
LEMMA OpensRequest ==
  ASSUME RequestsInv, NEW c \in Calls, NEW l \in Levels, ~Cancelled(Token(c)),
         UNCHANGED tokenVars,
         promise' = [promise EXCEPT ![c][l] = "pending"],
         listeners' = Registered(c, l),
         NEW after \in [Calls -> [Levels -> {"none", "open", "followed", "ended", "aborted"}]],
         request' = [after EXCEPT ![c][l] = "open"],
         \A d \in Calls \ {c} : after[d] = request[d],
         \A k \in Levels : after[c][k] # "open" /\ (k > l => after[c][k] = "none"),
         l = 0 \/ promise[c][0] # "none"
  PROVE  RequestsInv'
<1> USE DEF tokenVars
<1>0. /\ RequestsTypeOK /\ OnOwnToken /\ HandlersOfPending /\ LinkKept /\ OneOpen /\ CancelEndsCalls
      /\ 0 \in Levels /\ Token(c) \in Tokens
      /\ \A k \in Levels : k \in Nat
  BY RequestsAssumption DEF RequestsInv, RequestsAssumption, Levels, Token, Tokens
<1>1. /\ promise' \in [Calls -> [Levels -> {"none", "pending", "resolved", "rejected", "cancelled"}]]
      /\ promise'[c][l] = "pending"
      /\ \A d \in Calls, k \in Levels : <<d, k>> # <<c, l>> => promise'[d][k] = promise[d][k]
  BY <1>0 DEF RequestsTypeOK
<1>2. /\ request' \in [Calls -> [Levels -> {"none", "open", "followed", "ended", "aborted"}]]
      /\ request'[c][l] = "open"
      /\ \A k \in Levels \ {l} : request'[c][k] = after[c][k]
      /\ \A d \in Calls \ {c} : request'[d] = request[d]
  OBVIOUS
<1>3. /\ listeners' \in [Tokens -> SUBSET (Handlers \cup {Link})]
      /\ listeners'[Token(c)] = listeners[Token(c)] \cup {<<c, l>>}
      /\ \A t \in Tokens \ {Token(c)} : listeners'[t] = listeners[t]
  BY <1>0 DEF Registered, RequestsTypeOK, Handlers
<1>4. RequestsTypeOK'
  BY <1>0, <1>1, <1>2, <1>3 DEF RequestsTypeOK
<1>5. OnOwnToken' /\ LinkKept'
  <2>1. <<c, l>> # Link
    BY LinkIsNoHandler DEF Handlers
  <2> QED
    BY <1>0, <1>3, <2>1 DEF OnOwnToken, LinkKept, Tokens
<1>6. HandlersOfPending'
  <2>1. ASSUME NEW d \in Calls, NEW k \in Levels
        PROVE  /\ <<d, k>> \in listeners'[Token(d)] => promise'[d][k] = "pending"
               /\ promise'[d][k] = "pending" => <<d, k>> \in listeners'[Token(d)] \/ disposed
    <3>1. Token(d) \in Tokens
      BY DEF Token, Tokens
    <3>2. CASE d = c /\ k = l
      BY <1>1, <1>3, <3>2
    <3>3. CASE ~(d = c /\ k = l)
      <4>1. <<d, k>> \in listeners'[Token(d)] <=> <<d, k>> \in listeners[Token(d)]
        BY <1>3, <3>1, <3>3
      <4> QED
        BY <1>0, <1>1, <3>3, <4>1 DEF HandlersOfPending
    <3> QED
      BY <3>2, <3>3
  <2> QED
    BY <2>1 DEF HandlersOfPending, Token
<1>7. OneOpen'
  BY <1>0, <1>1, <1>2 DEF OneOpen
<1>8. CancelEndsCalls'
  BY <1>0, <1>1, <1>2 DEF CancelEndsCalls, Cancelled
<1> QED
  BY <1>4, <1>5, <1>6, <1>7, <1>8 DEF RequestsInv

-----------------------------------------------------------------------------
\* The invariant

LEMMA InitRequestsInv == RequestsInit => RequestsInv
<1> SUFFICES ASSUME RequestsInit PROVE RequestsInv
  OBVIOUS
<1>1. RequestsTypeOK
  BY DEF RequestsInit, RequestsTypeOK, Tokens
<1>2. OnOwnToken
  BY LinkIsNoHandler DEF RequestsInit, OnOwnToken, Handlers, Tokens
<1>3. HandlersOfPending
  BY LinkIsNoHandler DEF RequestsInit, HandlersOfPending, Handlers, Token, Tokens
<1>4. LinkKept /\ OneOpen /\ CancelEndsCalls
  BY DEF RequestsInit, LinkKept, OneOpen, CancelEndsCalls, Tokens
<1> QED
  BY <1>1, <1>2, <1>3, <1>4 DEF RequestsInv

\* The next level of a chain, or its first.
LEMMA RequestKeeps ==
  ASSUME RequestsInv, NEW c \in Calls, NEW l \in Levels,
         UNCHANGED tokenVars,
         NEW after \in [Calls -> [Levels -> {"none", "open", "followed", "ended", "aborted"}]],
         Request(c, l, after),
         \A d \in Calls \ {c} : after[d] = request[d],
         \A k \in Levels : /\ after[c][k] # "open" /\ (k > l => after[c][k] = "none")
                           /\ request[c][k] = "none" => after[c][k] = "none",
         promise[c][0] # "none"
  PROVE  RequestsInv'
<1>1. CASE Cancelled(Token(c))
  <2>1. Settle(c, l, "cancelled") /\ request' = after
    BY <1>1 DEF Request
  <2> QED
    BY <2>1, SettlesChain
<1>2. CASE ~Cancelled(Token(c))
  <2>1. /\ promise' = [promise EXCEPT ![c][l] = "pending"]
        /\ listeners' = Registered(c, l)
        /\ request' = [after EXCEPT ![c][l] = "open"]
    BY <1>2 DEF Request
  <2> QED
    BY <1>2, <2>1, OpensRequest
<1> QED
  BY <1>1, <1>2

LEMMA CancelKeeps ==
  ASSUME RequestsInv, NEW t \in Tokens, Cancel(t)
  PROVE  RequestsInv'
<1> DEFINE Linked == Link \in listeners[t]
           fired == listeners[t] \cup (IF Linked THEN listeners["own"] ELSE {})
           tokens == {t} \cup (IF Linked THEN {"own"} ELSE {})
<1>0. /\ RequestsTypeOK /\ OnOwnToken /\ HandlersOfPending /\ LinkKept /\ OneOpen /\ CancelEndsCalls
      /\ 0 \in Levels
      /\ \A c \in Calls : Token(c) \in Tokens
  BY RequestsAssumption DEF RequestsInv, RequestsAssumption, Levels, Token, Tokens
<1>1. /\ flags' = [u \in Tokens |-> flags[u] \/ u \in tokens]
      /\ listeners' = [u \in Tokens |-> listeners[u] \ fired]
      /\ promise' = [c \in Calls |-> [l \in Levels |->
             IF <<c, l>> \in fired THEN "cancelled" ELSE promise[c][l]]]
      /\ request' = [c \in Calls |-> [l \in Levels |->
             IF <<c, l>> \in fired /\ request[c][l] \in {"open", "followed"}
             THEN "aborted" ELSE request[c][l]]]
      /\ UNCHANGED <<electron, linked, disposed>>
  BY DEF Cancel
<1>2. Linked => t = "app"
  BY <1>0 DEF OnOwnToken, Tokens
<1>3. tokens \subseteq Tokens
  BY DEF Tokens
<1> HIDE DEF fired, tokens
<1>4. \A u \in Tokens : listeners'[u] = listeners[u] \ fired
  BY <1>1
<1>5. /\ \A c \in Calls, l \in Levels :
            /\ promise'[c][l] = IF <<c, l>> \in fired THEN "cancelled" ELSE promise[c][l]
            /\ request'[c][l] = IF <<c, l>> \in fired /\ request[c][l] \in {"open", "followed"}
                                THEN "aborted" ELSE request[c][l]
  BY <1>1
<1>6. RequestsTypeOK'
  <2>1. flags' \in [Tokens -> BOOLEAN]
    BY <1>0, <1>1 DEF RequestsTypeOK
  <2>2. listeners' \in [Tokens -> SUBSET (Handlers \cup {Link})]
    BY <1>0, <1>1 DEF RequestsTypeOK
  <2>3. /\ promise' \in [Calls -> [Levels -> {"none", "pending", "resolved", "rejected", "cancelled"}]]
        /\ request' \in [Calls -> [Levels -> {"none", "open", "followed", "ended", "aborted"}]]
    BY <1>0, <1>1 DEF RequestsTypeOK
  <2> QED
    BY <1>0, <1>1, <2>1, <2>2, <2>3 DEF RequestsTypeOK
<1>7. OnOwnToken'
  BY <1>0, <1>4 DEF OnOwnToken, Token, Tokens
<1>8. HandlersOfPending'
  <2>1. ASSUME NEW c \in Calls, NEW l \in Levels
        PROVE  /\ <<c, l>> \in listeners'[Token(c)] => promise'[c][l] = "pending"
               /\ promise'[c][l] = "pending" => <<c, l>> \in listeners'[Token(c)] \/ disposed
    BY <1>0, <1>4, <1>5 DEF HandlersOfPending
  <2> QED
    BY <1>1, <2>1 DEF HandlersOfPending, Token
<1>9. LinkKept'
  <2>1. CASE Linked
    BY <1>0, <1>1, <1>2, <2>1 DEF LinkKept, tokens, Tokens
  <2>2. CASE ~Linked
    <3>1. fired = listeners[t] /\ tokens = {t}
      BY <2>2 DEF fired, tokens
    <3>2. CASE t = "app"
      BY <1>0, <1>1, <2>2, <3>2 DEF LinkKept, Tokens
    <3>3. CASE t = "own"
      BY <1>0, <1>1, <3>1, <3>3 DEF LinkKept, OnOwnToken, Tokens
    <3> QED
      BY <3>2, <3>3 DEF Tokens
  <2> QED
    BY <2>1, <2>2
<1>10. OneOpen'
  <2>1. ASSUME NEW c \in Calls, NEW l \in Levels
        PROVE  /\ promise'[c][l] = "none" => promise[c][l] = "none"
               /\ request[c][l] = "none" => request'[c][l] = "none"
               /\ request'[c][l] = "open" => request[c][l] = "open" /\ <<c, l>> \notin fired
               /\ <<c, l>> \notin fired => promise'[c][l] = promise[c][l]
    BY <1>5
  <2>2. ASSUME NEW c \in Calls, promise'[c][0] = "none", NEW l \in Levels
        PROVE  request'[c][l] = "none"
    BY <1>0, <2>1, <2>2 DEF OneOpen
  <2>3. ASSUME NEW c \in Calls, NEW l \in Levels, request'[c][l] = "open"
        PROVE  /\ promise'[c][l] = "pending"
               /\ \A k \in Levels : k > l => request'[c][k] = "none"
    <3>1. request[c][l] = "open" /\ <<c, l>> \notin fired
      BY <2>1, <2>3
    <3>2. promise[c][l] = "pending" /\ \A k \in Levels : k > l => request[c][k] = "none"
      BY <1>0, <3>1 DEF OneOpen
    <3> QED
      BY <2>1, <3>1, <3>2
  <2> QED
    BY <2>2, <2>3 DEF OneOpen
<1>11. CancelEndsCalls'
  <2>1. ASSUME NEW c \in Calls, Cancelled(Token(c))', ~disposed', NEW l \in Levels,
               promise'[c][l] = "pending"
        PROVE  FALSE
    <3>1. promise[c][l] = "pending" /\ <<c, l>> \notin fired /\ ~disposed
      BY <1>1, <1>5, <2>1
    <3>2. <<c, l>> \in listeners[Token(c)] /\ ~Cancelled(Token(c))
      BY <1>0, <3>1 DEF HandlersOfPending, CancelEndsCalls
    <3>3. Token(c) # t /\ (Linked => Token(c) # "own")
      BY <3>1, <3>2 DEF fired
    <3>4. Token(c) = "own" /\ t = "app" /\ ~Linked
      <4>1. CASE Token(c) = "app"
        <5>1. flags'["app"] /\ ~flags["app"]
          BY <1>0, <2>1, <3>2, <4>1 DEF Cancelled, Token
        <5>2. "app" \in tokens
          BY <1>0, <1>1, <5>1 DEF RequestsTypeOK, Tokens
        <5> QED
          BY <3>3, <4>1, <5>2 DEF tokens
      <4>2. CASE Token(c) = "own"
        BY <1>0, <3>3, <4>2 DEF Tokens
      <4> QED
        BY <1>0, <4>1, <4>2 DEF Tokens
    <3> QED
      BY <1>0, <3>1, <3>2, <3>4 DEF LinkKept, Cancelled
  <2>2. ASSUME NEW c \in Calls, Cancelled(Token(c))', ~disposed', NEW l \in Levels
        PROVE  promise'[c][l] # "pending" /\ request'[c][l] # "open"
    BY <1>10, <2>1, <2>2 DEF OneOpen
  <2> QED
    BY <2>2 DEF CancelEndsCalls, Token
<1> QED
  BY <1>6, <1>7, <1>8, <1>9, <1>10, <1>11 DEF RequestsInv

LEMMA NextRequestsInv == RequestsInv /\ [RequestsNext]_requestsVars => RequestsInv'
<1> SUFFICES ASSUME RequestsInv, [RequestsNext]_requestsVars PROVE RequestsInv'
  OBVIOUS
<1>0. /\ RequestsTypeOK /\ OneOpen
      /\ 0 \in Levels /\ \A l \in Levels : l \in Nat
  BY RequestsAssumption DEF RequestsInv, RequestsAssumption, Levels
<1>1. ASSUME NEW c \in Calls, Call(c) PROVE RequestsInv'
  <2>1. /\ promise[c][0] = "none" /\ UNCHANGED tokenVars
        /\ \A k \in Levels : request[c][k] = "none"
    BY <1>0, <1>1 DEF Call, OneOpen
  <2>2. CASE Cancelled(Token(c))
    <3>1. /\ promise' = [promise EXCEPT ![c][0] = "cancelled"]
          /\ UNCHANGED <<tokenVars, listeners, request>>
      BY <1>1, <2>2 DEF Call
    <3>2. /\ promise' \in [Calls -> [Levels -> {"none", "pending", "resolved", "rejected", "cancelled"}]]
          /\ \A d \in Calls, k \in Levels : \/ promise'[d][k] = promise[d][k]
                                            \/ /\ promise[d][k] = "none"
                                               /\ promise'[d][k] = "cancelled"
      BY <1>0, <2>1, <3>1 DEF RequestsTypeOK
    <3>3. RequestsTypeOK' /\ OnOwnToken' /\ LinkKept'
      BY <1>0, <3>1, <3>2 DEF RequestsInv, RequestsTypeOK, OnOwnToken, LinkKept, tokenVars, Token
    <3>4. HandlersOfPending'
      <4>1. \A d \in Calls, k \in Levels : promise'[d][k] = "pending" <=> promise[d][k] = "pending"
        BY <3>2
      <4> QED
        BY <3>1, <4>1 DEF RequestsInv, HandlersOfPending, tokenVars, Token
    <3>5. OneOpen' /\ CancelEndsCalls'
      BY <1>0, <3>1, <3>2 DEF RequestsInv, OneOpen, CancelEndsCalls, Cancelled, Token, tokenVars
    <3> QED
      BY <3>3, <3>4, <3>5 DEF RequestsInv
  <2>3. CASE ~Cancelled(Token(c))
    <3>1. /\ promise' = [promise EXCEPT ![c][0] = "pending"]
          /\ listeners' = Registered(c, 0)
          /\ request' = [request EXCEPT ![c][0] = "open"]
      BY <1>1, <2>3 DEF Call, Request
    <3>2. /\ request \in [Calls -> [Levels -> {"none", "open", "followed", "ended", "aborted"}]]
          /\ \A k \in Levels : request[c][k] # "open" /\ (k > 0 => request[c][k] = "none")
      BY <1>0, <2>1 DEF RequestsTypeOK
    <3> QED
      BY <1>0, <2>1, <2>3, <3>1, <3>2, OpensRequest
  <2> QED
    BY <2>2, <2>3
<1>2. ASSUME NEW c \in Calls, NEW l \in Levels, Respond(c, l) \/ Fail(c, l) \/ TimeOut(c, l)
      PROVE  RequestsInv'
  <2>1. /\ request[c][l] \in {"open", "followed"}
        /\ \/ request' = [request EXCEPT ![c][l] = "ended"]  /\ request[c][l] = "open"
           \/ request' = [request EXCEPT ![c][l] = "aborted"]
        /\ UNCHANGED tokenVars
    BY <1>2 DEF Respond, Fail, TimeOut
  <2>2. PICK how \in {"resolved", "rejected", "cancelled"} : Settle(c, l, how)
    BY <1>2 DEF Respond, Fail, TimeOut
  <2>3. /\ request' \in [Calls -> [Levels -> {"none", "open", "followed", "ended", "aborted"}]]
        /\ \A d \in Calls \ {c} : request'[d] = request[d]
        /\ \A k \in Levels \ {l} : request'[c][k] = request[c][k]
        /\ request'[c][l] \notin {"open", "none"}
    <3>1. /\ request \in [Calls -> [Levels -> {"none", "open", "followed", "ended", "aborted"}]]
          /\ \E after \in {"ended", "aborted"} : request' = [request EXCEPT ![c][l] = after]
      BY <1>0, <2>1 DEF RequestsTypeOK
    <3> QED
      BY <3>1
  <2>4. promise[c][0] # "none"
    BY <1>0, <2>1 DEF OneOpen
  <2>5. \A k \in Levels : /\ request'[c][k] = "open" => request[c][k] = "open" /\ k > l
                          /\ request[c][k] = "none" => request'[c][k] = "none"
    BY <1>0, <2>1, <2>3 DEF OneOpen
  <2> QED
    BY <2>1, <2>2, <2>3, <2>4, <2>5, SettlesChain
<1>3. ASSUME NEW c \in Calls, NEW l \in Levels, Redirect(c, l)
      PROVE  RequestsInv'
  <2> DEFINE after == [request EXCEPT ![c][l] = IF electron THEN "aborted" ELSE "followed"]
  <2>1. /\ request[c][l] = "open" /\ l < MaxLevel /\ UNCHANGED tokenVars
        /\ Request(c, l + 1, after)
    BY <1>3, RequestsAssumption DEF Redirect, RedirectCount, RequestsAssumption
  <2>2. l + 1 \in Levels
    BY <2>1, RequestsAssumption DEF Levels, RequestsAssumption
  <2>3. /\ after \in [Calls -> [Levels -> {"none", "open", "followed", "ended", "aborted"}]]
        /\ \A d \in Calls \ {c} : after[d] = request[d]
        /\ \A k \in Levels \ {l} : after[c][k] = request[c][k]
        /\ after[c][l] \in {"aborted", "followed"}
    BY <1>0 DEF RequestsTypeOK
  <2> HIDE DEF after
  <2>4. promise[c][0] # "none" /\ \A k \in Levels : k > l => request[c][k] = "none"
    BY <1>0, <2>1 DEF OneOpen
  <2>5. \A k \in Levels : /\ after[c][k] # "open"
                          /\ k > l + 1 => after[c][k] = "none"
                          /\ request[c][k] = "none" => after[c][k] = "none"
    BY <1>0, <2>1, <2>3, <2>4 DEF OneOpen
  <2> QED
    BY <2>1, <2>2, <2>3, <2>4, <2>5, RequestKeeps
<1>4. ASSUME NEW t \in Tokens, Cancel(t) PROVE RequestsInv'
  BY <1>4, CancelKeeps
<1>5. CASE Dispose
  <2>1. /\ disposed' /\ linked' = FALSE /\ disposed' = TRUE
        /\ UNCHANGED <<electron, flags, promise, request>>
        /\ listeners' = [listeners EXCEPT !["app"] = @ \ {Link}, !["own"] = {}]
    BY <1>5 DEF Dispose
  <2>2. /\ listeners' \in [Tokens -> SUBSET (Handlers \cup {Link})]
        /\ \A t \in Tokens : listeners'[t] \subseteq listeners[t]
    BY <1>0, <2>1 DEF RequestsTypeOK, Tokens
  <2>3. RequestsTypeOK' /\ OnOwnToken' /\ LinkKept'
    BY <1>0, <2>1, <2>2 DEF RequestsInv, RequestsTypeOK, OnOwnToken, LinkKept, Token, Tokens
  <2>4. HandlersOfPending' /\ OneOpen' /\ CancelEndsCalls'
    BY <2>1, <2>2 DEF RequestsInv, HandlersOfPending, OneOpen, CancelEndsCalls, Token, Tokens
  <2> QED
    BY <2>3, <2>4 DEF RequestsInv
<1>6. CASE UNCHANGED requestsVars
  BY <1>6 DEF requestsVars, tokenVars, RequestsInv, RequestsTypeOK, OnOwnToken, HandlersOfPending,
              LinkKept, OneOpen, CancelEndsCalls, Cancelled
<1> QED
  BY <1>1, <1>2, <1>3, <1>4, <1>5, <1>6 DEF RequestsNext, RequestStep

LEMMA RequestsInvariant == RequestsSpec => []RequestsInv
  BY InitRequestsInv, NextRequestsInv, PTL DEF RequestsSpec

-----------------------------------------------------------------------------
(***************************************************************************)
(* The handlers on the tokens are those of pending promises, for any calls *)
(* and chains of redirects and in any order of answers, timeouts and       *)
(* cancellations: none is left behind, and none is missing.                *)
(***************************************************************************)
THEOREM NoHandlerIsLeft == RequestsSpec => []HandlersOfPending
<1>1. RequestsInv => HandlersOfPending
  BY DEF RequestsInv
<1> QED
  BY <1>1, RequestsInvariant, PTL

(***************************************************************************)
(* A token that was cancelled, itself or through its parent, leaves no     *)
(* promise pending and no request open, unless it was disposed of.         *)
(***************************************************************************)
THEOREM CancelReachesAll == RequestsSpec => []CancelEndsCalls
<1>1. RequestsInv => CancelEndsCalls
  BY DEF RequestsInv
<1> QED
  BY <1>1, RequestsInvariant, PTL

-----------------------------------------------------------------------------
(***************************************************************************)
(* Update information.  Tasks are merged one after the other, a fold; what *)
(* the first k of them were merged to is an invariant of it.               *)
(***************************************************************************)
\* What merging tasks for the files F with the arrays I goes through.
Merging(F, I) == [of : UNION {[D -> I] : D \in SUBSET F}, files : [I -> Seq(Artifacts)]]
MergeTasks(F, I) == [file : F, info : I]

LEMMA WithIs ==
  ASSUME NEW F, NEW I, NEW g \in UNION {[D -> I] : D \in SUBSET F}, NEW x \in F, NEW y \in I
  PROVE  With(g, x, y) \in UNION {[D -> I] : D \in SUBSET F}
<1>1. PICK D \in SUBSET F : g \in [D -> I]
  OBVIOUS
<1>2. With(g, x, y) \in [D \cup {x} -> I]
  BY <1>1 DEF With
<1> QED
  BY <1>2

LEMMA AddTaskType ==
  ASSUME NEW F, NEW I, NEW m \in Merging(F, I), NEW t \in MergeTasks(F, I)
  PROVE  AddTask(m, t) \in Merging(F, I)
<1>1. /\ t.file \in F /\ t.info \in I
      /\ m.files \in [I -> Seq(Artifacts)] /\ m.of \in UNION {[D -> I] : D \in SUBSET F}
  BY DEF Merging, MergeTasks
<1>2. CASE t.file \in DOMAIN m.of
  <2>1. m.of[t.file] \in I
    BY <1>1, <1>2
  <2>2. m.files[m.of[t.file]] \o m.files[t.info] \in Seq(Artifacts)
    BY <1>1, <2>1, ConcatProperties
  <2> DEFINE longer == [m.files EXCEPT ![m.of[t.file]] = @ \o m.files[t.info]]
  <2>3. longer \in [I -> Seq(Artifacts)]
    BY <1>1, <2>1, <2>2
  <2>4. AddTask(m, t) = [m EXCEPT !.files = longer]
    BY <1>1, <1>2 DEF AddTask
  <2> HIDE DEF longer
  <2> QED
    BY <2>3, <2>4 DEF Merging
<1>3. CASE t.file \notin DOMAIN m.of
  <2> DEFINE more == With(m.of, t.file, t.info)
  <2>1. more \in UNION {[D -> I] : D \in SUBSET F}
    BY <1>1, WithIs
  <2>2. AddTask(m, t) = [m EXCEPT !.of = more]
    BY <1>3 DEF AddTask
  <2> HIDE DEF more
  <2> QED
    BY <2>1, <2>2 DEF Merging
<1> QED
  BY <1>2, <1>3

\* Tasks are merged one after the other.
Merges(f, F, I, base, s) ==
    /\ f \in [0..Len(s) -> Merging(F, I)]
    /\ f[0] = base /\ \A k \in 1..Len(s) : f[k] = AddTask(f[k - 1], s[k])
    /\ FoldLeft(AddTask, base, s) = f[Len(s)]

LEMMA OneByOne ==
  ASSUME NEW F, NEW I, NEW s \in Seq(MergeTasks(F, I)), NEW base \in Merging(F, I)
  PROVE  \E f : Merges(f, F, I, base, s)
<1> DEFINE n == Len(s)
           T == Merging(F, I)
           step == [k \in 1..n |-> [m \in T |-> AddTask(m, s[k])]]
           IsIter(h) == h = [P \in SUBSET (DOMAIN s) |->
                                IF P = {} THEN base ELSE AddTask(h[P \ {Max(P)}], s[Max(P)])]
           iter == CHOOSE h : IsIter(h)
<1>1. n \in Nat /\ DOMAIN s = 1..n /\ \A k \in 1..n : s[k] \in MergeTasks(F, I)
  OBVIOUS
<1>2. FoldLeft(AddTask, base, s) = iter[DOMAIN s]
  BY DEF FoldLeft, MapThenFoldSet
<1>3. step \in StepsOn(T, n)
  <2>1. \A k \in 1..n : \A m \in T : AddTask(m, s[k]) \in T
    BY <1>1, AddTaskType
  <2> HIDE DEF T, n
  <2> QED
    BY <2>1 DEF StepsOn
<1>4. \A k \in 1..n : \A m \in T : step[k][m] = AddTask(m, s[k])
  OBVIOUS
<1> HIDE DEF step, n
<1>5. PICK h : FoldsTo(h, T, n, base, step)
  <2> HIDE DEF T
  <2>1. base \in T
    BY DEF T
  <2> QED
    BY <1>1, <1>3, <2>1, FoldIs
<1> HIDE DEF T
<1>6. IsIter(h)
  <2>1. /\ h \in [SUBSET (1..n) -> T]
        /\ \A P \in SUBSET (1..n) : h[P] = IF P = {} THEN base ELSE step[Max(P)][h[P \ {Max(P)}]]
    BY <1>5 DEF FoldsTo
  <2>2. ASSUME NEW P \in SUBSET (1..n)
        PROVE  h[P] = IF P = {} THEN base ELSE AddTask(h[P \ {Max(P)}], s[Max(P)])
    <3>1. CASE P = {}
      BY <2>1, <3>1
    <3>2. CASE P # {}
      <4>1. Max(P) \in 1..n
        BY <1>1, <3>2, GreatestIsThere
      <4>2. h[P \ {Max(P)}] \in T
        BY <2>1
      <4>3. h[P] = step[Max(P)][h[P \ {Max(P)}]]
        BY <2>1, <3>2
      <4> QED
        BY <1>4, <3>2, <4>1, <4>2, <4>3
    <3> QED
      BY <3>1, <3>2
  <2> QED
    BY <1>1, <2>1, <2>2
<1>7. IsIter(iter)
  <2> HIDE DEF IsIter
  <2> QED
    BY <1>6, Zenon
<1> HIDE DEF iter
<1>8. \A P \in SUBSET (1..n) :
          iter[P] = IF P = {} THEN base ELSE AddTask(iter[P \ {Max(P)}], s[Max(P)])
  BY <1>1, <1>7
<1> DEFINE f == [k \in 0..n |-> iter[1..k]]
<1>9. f[0] = base
  <2>1. 1..0 = {} /\ 1..0 \in SUBSET (1..n) /\ 0 \in 0..n
    BY <1>1
  <2>2. iter[1..0] = base
    BY <1>8, <2>1
  <2> QED
    BY <2>1, <2>2
<1>10. ASSUME NEW k \in 1..n PROVE f[k] = AddTask(f[k - 1], s[k])
  <2>1. FirstOnes(k) /\ 1..k \in SUBSET (1..n)
    BY <1>1, FirstPositions
  <2>2. iter[1..k] = AddTask(iter[1..(k - 1)], s[k])
    BY <1>8, <2>1 DEF FirstOnes
  <2>3. k \in 0..n /\ k - 1 \in 0..n
    BY <1>1
  <2> QED
    BY <2>2, <2>3
<1>11. ASSUME NEW k \in 0..n PROVE f[k] \in T
  <2> HIDE DEF f
  <2> DEFINE S == {j \in 0..n : f[j] \in T}
  <2>1. 0 \in S
    BY <1>1, <1>9 DEF T
  <2>2. ASSUME NEW j \in 0..(n - 1), j \in S PROVE j + 1 \in S
    <3> DEFINE i == j + 1
    <3>1. i \in 1..n /\ i \in 0..n /\ i - 1 = j
      BY <1>1
    <3> HIDE DEF i
    <3>2. f[i] = AddTask(f[j], s[i])
      BY <1>10, <3>1
    <3>3. AddTask(f[j], s[i]) \in T
      BY <1>1, <2>2, <3>1, AddTaskType DEF T
    <3> QED
      BY <3>1, <3>2, <3>3 DEF i
  <2> HIDE DEF S
  <2>3. \A j \in 0..(n - 1) : j \in S => j + 1 \in S
    BY <2>2
  <2>4. \A j \in 0..n : j \in S
    BY <1>1, <2>1, <2>3, UpTo
  <2> QED
    BY <2>4 DEF S
<1>12. f[n] = FoldLeft(AddTask, base, s) /\ f \in [0..n -> T]
  <2>1. n \in 0..n
    BY <1>1
  <2>2. f[n] = iter[1..n]
    BY <2>1
  <2>3. f = [k \in 0..n |-> f[k]]
    OBVIOUS
  <2> HIDE DEF f
  <2> QED
    BY <1>1, <1>2, <1>11, <2>2, <2>3
<1> HIDE DEF f
<1> QED
  BY <1>9, <1>10, <1>12 DEF Merges, n, T

\* The files that are written: that of a channel of a configuration, in the first
\* directory it is created in.
FilesToWrite == {f \in (DOMAIN providers) \X {"latest", "beta", "alpha"} :
              f[2] \in ToSet(ChannelNames(f[1])) /\ ~Created(f[1], f[2])}

TasksFor(S) == {Task(a, f[1], f[2]) : a \in S, f \in FilesToWrite}
Arrays(S) == (S \X {0}) \cup {Info(a, n) : a \in S, n \in DOMAIN providers}

UpdateInfoTypeOK ==
    /\ providers \in Configurations /\ channel \in Channels
    /\ done \subseteq Artifacts /\ safe \subseteq Artifacts
    /\ url = [a \in Artifacts |-> IF a \in done THEN Url(a) ELSE "own"]
    /\ files \in [Arrays(done) -> Seq(Artifacts)]
    /\ tasks \in Seq(MergeTasks(FilesToWrite, Arrays(done)))
    /\ Enumerates(tasks, TasksFor(done))

\* Until tasks are merged every array has the file of its artifact.
NotMerged == merged = <<>> /\ written = <<>> /\ \A x \in Arrays(done) : files[x] = <<x[1]>>

OneFile == Alone /\ Len(ChannelNames(1)) = 1

\* The array x, of all artifacts, the one it is named for first.
IsComplete(x) ==
    /\ Zips # {} => x[1] \in Zips
    /\ files[x][1] = x[1] /\ ToSet(files[x]) = Artifacts
    /\ OneFile => IsInjective(files[x])

Contents(x) == [files |-> [k \in DOMAIN files[x] |-> <<files[x][k], url[files[x][k]]>>], path |-> Path(x)]

Merged ==
    /\ done = Artifacts
    /\ merged \in [FilesToWrite -> Arrays(Artifacts)] /\ \A f \in FilesToWrite : IsComplete(merged[f])
    /\ DOMAIN written \subseteq FilesToWrite /\ \A f \in DOMAIN written : written[f] = Contents(merged[f])

UpdateInfoInv == UpdateInfoTypeOK /\ (NotMerged \/ Merged)

LEMMA ChannelsAre ==
  ASSUME channel \in Channels, NEW n
  PROVE  /\ ChannelNames(n) \in Seq({"latest", "beta", "alpha"})
         /\ IsInjective(ChannelNames(n))
<1>1. channel[1] \in {"latest", "beta", "alpha"}
  BY UpdateInfoAssumption
<1> DEFINE c == ChannelNames(n)
<1>2. c = <<channel[1]>> \/ c = <<"beta", "alpha">> \/ c = <<"latest", "alpha", "beta">>
  BY DEF ChannelNames
<1> HIDE DEF c
<1>3. IsInjective(c)
  <2>1. CASE c = <<channel[1]>>
    BY <2>1, OneOrNone DEF Enumerates
  <2>2. CASE c = <<"beta", "alpha">>
    <3>1. DOMAIN c = {1, 2} /\ c[1] = "beta" /\ c[2] = "alpha"
      BY <2>2
    <3> QED
      BY <3>1 DEF IsInjective
  <2>3. CASE c = <<"latest", "alpha", "beta">>
    <3>1. DOMAIN c = {1, 2, 3} /\ c[1] = "latest" /\ c[2] = "alpha" /\ c[3] = "beta"
      BY <2>3
    <3> QED
      BY <3>1 DEF IsInjective
  <2> QED
    BY <1>2, <2>1, <2>2, <2>3
<1>4. c \in Seq({"latest", "beta", "alpha"})
  BY <1>1, <1>2
<1> QED
  BY <1>3, <1>4 DEF c

\* An artifact adds one task for each file.
TasksAre(a) ==
    /\ Tasks(a) \in Seq(MergeTasks(FilesToWrite, Arrays({a})))
    /\ Enumerates(Tasks(a), TasksFor({a}))

LEMMA TasksOfArtifact ==
  ASSUME providers \in Configurations, channel \in Channels, NEW a
  PROVE  TasksAre(a)
<1> DEFINE A == MergeTasks(FilesToWrite, Arrays({a}))
           N == Len(providers)
<1>1. N \in Nat /\ DOMAIN providers = 1..N
  BY UpdateInfoAssumption
<1> DEFINE Here(n) == {ch \in ToSet(ChannelNames(n)) : ~Created(n, ch)}
           sets == [n \in 1..N |-> {Task(a, n, ch) : ch \in Here(n)}]
           seqs == [n \in DOMAIN providers |-> TasksOf(a, n)]
<1>2. ASSUME NEW n \in 1..N
      PROVE  TasksOf(a, n) \in Seq(A) /\ Enumerates(TasksOf(a, n), sets[n])
  <2> DEFINE c == ChannelNames(n)
             some == [k \in 1..Len(c) |-> IF Created(n, c[k]) THEN {} ELSE {Task(a, n, c[k])}]
             news == [k \in DOMAIN c |-> New(a, n, c[k])]
  <2>1. c \in Seq({"latest", "beta", "alpha"}) /\ IsInjective(c)
    BY ChannelsAre
  <2>2. Len(c) \in Nat /\ DOMAIN c = 1..Len(c) /\ \A k \in 1..Len(c) : c[k] \in {"latest", "beta", "alpha"}
    <3> HIDE DEF c
    <3> QED
      BY <2>1
  <2>3. ASSUME NEW k \in 1..Len(c)
        PROVE  New(a, n, c[k]) \in Seq(A) /\ Enumerates(New(a, n, c[k]), some[k])
    <3>1. CASE Created(n, c[k])
      <4>1. New(a, n, c[k]) = <<>> /\ some[k] = {}
        BY <3>1 DEF New
      <4>2. <<>> \in Seq(A)
        OBVIOUS
      <4> HIDE DEF A, c, some
      <4> QED
        BY <4>1, <4>2, OneOrNone
    <3>2. CASE ~Created(n, c[k])
      <4>1. New(a, n, c[k]) = <<Task(a, n, c[k])>> /\ some[k] = {Task(a, n, c[k])}
        BY <3>2 DEF New
      <4>2. <<n, c[k]>> \in FilesToWrite
        <5>1. c[k] \in ToSet(c)
          BY <2>2 DEF ToSet
        <5> QED
          BY <1>1, <2>2, <3>2, <5>1 DEF FilesToWrite
      <4>3. Task(a, n, c[k]) \in A
        BY <1>1, <4>2 DEF Task, MergeTasks, Arrays
      <4> HIDE DEF A, c, some
      <4> QED
        BY <4>1, <4>3, OneOrNone
    <3> QED
      BY <3>1, <3>2
  <2>4. \A i, j \in 1..Len(c) : i # j => some[i] \cap some[j] = {}
    <3>1. \A i, j \in 1..Len(c) : i # j => c[i] # c[j]
      BY <2>1, <2>2 DEF IsInjective
    <3>2. \A i, j \in 1..Len(c) : Task(a, n, c[i]) = Task(a, n, c[j]) => c[i] = c[j]
      BY DEF Task
    <3> HIDE DEF c
    <3> QED
      BY <3>1, <3>2
  <2>5. news \in Seq(Seq(A)) /\ Len(news) = Len(c) /\ \A k \in 1..Len(c) : news[k] = New(a, n, c[k])
    <3> HIDE DEF c, A
    <3>1. news \in [1..Len(c) -> Seq(A)]
      BY <2>2, <2>3
    <3> QED
      BY <2>2, <3>1, SeqDef
  <2>6. TasksOf(a, n) = FlattenSeq(news)
    BY DEF TasksOf
  <2>7. Joint(some, Len(c)) = sets[n]
    <3>1. ToSet(c) = {c[k] : k \in 1..Len(c)}
      BY <2>2 DEF ToSet
    <3>2. sets[n] = {Task(a, n, ch) : ch \in Here(n)}
      OBVIOUS
    <3>3. \A x : x \in sets[n] <=> \E k \in 1..Len(c) : ~Created(n, c[k]) /\ x = Task(a, n, c[k])
      BY <3>1, <3>2
    <3>4. \A x : x \in Joint(some, Len(c))
                    <=> \E k \in 1..Len(c) : ~Created(n, c[k]) /\ x = Task(a, n, c[k])
      BY DEF Joint
    <3> HIDE DEF sets, some, c
    <3> QED
      BY <3>3, <3>4
  <2> HIDE DEF news, some, c, A, sets
  <2>8. EachEnumerates(news, some)
    BY <2>3, <2>4, <2>5 DEF EachEnumerates
  <2>9. FlattenSeq(news) \in Seq(A) /\ Enumerates(FlattenSeq(news), Joint(some, Len(news)))
    BY <2>5, <2>8, FlattenIs
  <2> QED
    BY <2>5, <2>6, <2>7, <2>9
<1>3. \A i, j \in 1..N : i # j => sets[i] \cap sets[j] = {}
  BY DEF Task
<1>4. seqs \in Seq(Seq(A)) /\ Len(seqs) = N /\ \A n \in 1..N : seqs[n] = TasksOf(a, n)
  <2> HIDE DEF A, N
  <2>1. seqs \in [1..N -> Seq(A)]
    BY <1>1, <1>2
  <2> QED
    BY <1>1, <2>1, SeqDef
<1>5. Tasks(a) = FlattenSeq(seqs)
  BY DEF Tasks
<1>6. Joint(sets, N) = TasksFor({a})
  <2>1. ASSUME NEW n \in 1..N, NEW ch \in Here(n) PROVE <<n, ch>> \in FilesToWrite
    <3>1. ch \in {"latest", "beta", "alpha"}
      BY ChannelsAre DEF ToSet
    <3> QED
      BY <1>1, <3>1 DEF FilesToWrite
  <2>2. ASSUME NEW f \in FilesToWrite PROVE f[1] \in 1..N /\ f[2] \in Here(f[1]) /\ f = <<f[1], f[2]>>
    BY <1>1 DEF FilesToWrite
  <2>3. \A x : x \in Joint(sets, N) <=> \E n \in 1..N : \E ch \in Here(n) : x = Task(a, n, ch)
    BY DEF Joint
  <2>4. \A x : x \in TasksFor({a}) <=> \E f \in FilesToWrite : x = Task(a, f[1], f[2])
    BY DEF TasksFor
  <2> HIDE DEF sets, Here, N
  <2>5. \A x : x \in TasksFor({a}) => x \in Joint(sets, N)
    BY <2>2, <2>3, <2>4
  <2>6. ASSUME NEW n \in 1..N, NEW ch \in Here(n) PROVE Task(a, n, ch) \in TasksFor({a})
    <3> DEFINE f == <<n, ch>>
    <3>1. f[1] = n /\ f[2] = ch
      OBVIOUS
    <3> QED
      BY <2>1, <2>4, <3>1
  <2>7. \A n \in 1..N : \A ch \in Here(n) : Task(a, n, ch) \in TasksFor({a})
    BY <2>6
  <2>8. \A x : x \in Joint(sets, N) => x \in TasksFor({a})
    BY <2>3, <2>7
  <2> QED
    BY <2>5, <2>8
<1> HIDE DEF sets, seqs, A, N
<1>7. EachEnumerates(seqs, sets)
  BY <1>2, <1>3, <1>4 DEF EachEnumerates
<1>8. FlattenSeq(seqs) \in Seq(A) /\ Enumerates(FlattenSeq(seqs), Joint(sets, Len(seqs)))
  BY <1>4, <1>7, FlattenIs
<1> QED
  BY <1>4, <1>5, <1>6, <1>8 DEF TasksAre, A

LEMMA SeqOfMore ==
  ASSUME NEW A, NEW B, A \subseteq B, NEW s \in Seq(A)
  PROVE  s \in Seq(B)
<1>1. PICK n \in Nat : s \in [1..n -> A]
  BY SeqDef
<1>2. s \in [1..n -> B]
  BY <1>1
<1> QED
  BY <1>2, SeqDef

\* The tasks of zips come first.
ZipsFirst(s) == \E z \in 0..Len(s) : \A i \in 1..Len(s) : s[i].info[1] \in Zips <=> i <= z

LEMMA SortedIs ==
  ASSUME NEW A, NEW ts \in Seq(A), NEW S, Enumerates(ts, S)
  PROVE  Sorted(ts) \in Seq(A) /\ Enumerates(Sorted(ts), S) /\ ZipsFirst(Sorted(ts))
<1> DEFINE zips == {t \in ToSet(ts) : t.info[1] \in Zips}
           u == Filtered(ts, zips)
           v == Filtered(ts, ToSet(ts) \ zips)
<1>1. ToSet(ts) = S /\ IsInjective(ts)
  BY DEF Enumerates
<1>2. \A t \in zips : t \in S /\ t.info[1] \in Zips
  BY <1>1
<1>3. \A t \in S \ zips : t.info[1] \notin Zips
  BY <1>1
<1>4. Sorted(ts) = u \o v
  BY DEF Sorted
<1> HIDE DEF zips
<1>5. KeptIn(ts, A, zips, u) /\ KeptIn(ts, A, ToSet(ts) \ zips, v)
  BY KeptIs
<1> HIDE DEF u, v
<1>6. u \in Seq(A) /\ v \in Seq(A) /\ Enumerates(u, zips) /\ Enumerates(v, S \ zips)
  BY <1>1, <1>2, <1>5 DEF KeptIn, Enumerates
<1>7. u \o v \in Seq(A) /\ Enumerates(u \o v, S)
  <2>1. zips \cup (S \ zips) = S /\ zips \cap (S \ zips) = {}
    BY <1>2
  <2> QED
    BY <1>6, <2>1, JoinIs
<1>8. ZipsFirst(u \o v)
  <2>1. /\ Len(u) \in Nat /\ Len(v) \in Nat /\ Len(u \o v) = Len(u) + Len(v)
        /\ \A i \in 1..(Len(u) + Len(v)) : (u \o v)[i] = IF i <= Len(u) THEN u[i] ELSE v[i - Len(u)]
    BY <1>6, ConcatProperties
  <2>2. /\ \A i \in 1..Len(u) : u[i] \in zips
        /\ \A i \in 1..Len(v) : v[i] \in S \ zips
    <3>1. DOMAIN u = 1..Len(u) /\ DOMAIN v = 1..Len(v)
      BY <1>6
    <3> QED
      BY <1>6, <3>1 DEF Enumerates, ToSet
  <2>3. ASSUME NEW i \in 1..(Len(u) + Len(v)) PROVE (u \o v)[i].info[1] \in Zips <=> i <= Len(u)
    <3>1. CASE i <= Len(u)
      <4>1. i \in 1..Len(u) /\ (u \o v)[i] = u[i]
        BY <2>1, <3>1
      <4> QED
        BY <1>2, <2>2, <3>1, <4>1
    <3>2. CASE ~(i <= Len(u))
      <4>1. i - Len(u) \in 1..Len(v) /\ (u \o v)[i] = v[i - Len(u)]
        BY <2>1, <3>2
      <4> QED
        BY <1>3, <2>2, <3>2, <4>1
    <3> QED
      BY <3>1, <3>2
  <2>4. Len(u) \in 0..Len(u \o v)
    BY <2>1
  <2> QED
    BY <2>1, <2>3, <2>4 DEF ZipsFirst
<1> QED
  BY <1>4, <1>7, <1>8

-----------------------------------------------------------------------------
\* Tasks that can be merged: for each of their files there is one of every artifact;
\* "one" says that there is one file, and then that no artifact has two.
Mergeable(s, one) ==
    /\ IsInjective(s) /\ ZipsFirst(s)
    /\ \A i \in 1..Len(s) : \A a \in Artifacts :
           \E j \in 1..Len(s) : s[j].file = s[i].file /\ s[j].info[1] = a
    /\ one => \A i, j \in 1..Len(s) :
                  s[i].file = s[j].file /\ (s[i].info[1] = s[j].info[1] => i = j)

Named(s, k) == {s[i].info[1] : i \in 1..k}
Used(m) == {m.of[f] : f \in DOMAIN m.of}

\* What the first k tasks were merged to.
OfFirst(m, s, k) ==
    /\ DOMAIN m.of = {s[i].file : i \in 1..k}
    /\ Zips # {} => \A f \in DOMAIN m.of : m.of[f][1] \in Zips
    /\ \A i \in 1..k : s[i].info[1] \in ToSet(m.files[m.of[s[i].file]])
StartsOwn(m, I) == \A x \in I : m.files[x] # <<>> /\ m.files[x][1] = x[1]
OnceEach(m, I, s, k) ==
    \A x \in I : IF x \in Used(m) THEN Enumerates(m.files[x], Named(s, k))
                                  ELSE m.files[x] = <<x[1]>>
MergedTo(m, I, s, k, one) ==
    /\ OfFirst(m, s, k) /\ StartsOwn(m, I)
    /\ one => OnceEach(m, I, s, k)

LEMMA JoinedElements ==
  ASSUME NEW A, NEW u \in Seq(A), NEW v \in Seq(A), u # <<>>
  PROVE  /\ ToSet(u \o v) = ToSet(u) \cup ToSet(v)
         /\ u \o v # <<>> /\ (u \o v)[1] = u[1]
<1> DEFINE a == Len(u)
           b == Len(v)
           r == u \o v
<1>1. /\ r \in Seq(A) /\ a \in Nat /\ b \in Nat /\ Len(r) = a + b /\ a # 0
      /\ \A p \in 1..(a + b) : r[p] = IF p <= a THEN u[p] ELSE v[p - a]
  BY ConcatProperties, EmptySeq
<1>2. DOMAIN u = 1..a /\ DOMAIN v = 1..b /\ DOMAIN r = 1..(a + b)
  BY <1>1
<1> HIDE DEF a, b, r
<1>3. \A p \in 1..a : p \in 1..(a + b) /\ r[p] = u[p]
  BY <1>1
<1>4. ASSUME NEW p \in 1..b PROVE \E q \in 1..(a + b) : r[q] = v[p]
  <2> DEFINE q == a + p
  <2>1. q \in 1..(a + b) /\ ~(q <= a) /\ q - a = p
    BY <1>1
  <2> HIDE DEF q
  <2>2. r[q] = v[p]
    BY <1>1, <2>1
  <2> QED
    BY <2>1, <2>2
<1>5. ASSUME NEW p \in 1..(a + b) PROVE (\E q \in 1..a : r[p] = u[q]) \/ (\E q \in 1..b : r[p] = v[q])
  <2>1. CASE p <= a
    BY <1>1, <2>1
  <2>2. CASE ~(p <= a)
    <3>1. p - a \in 1..b /\ r[p] = v[p - a]
      BY <1>1, <2>2
    <3> QED
      BY <3>1
  <2> QED
    BY <2>1, <2>2
<1>6. {r[p] : p \in 1..(a + b)} = {u[p] : p \in 1..a} \cup {v[p] : p \in 1..b}
  BY <1>3, <1>4, <1>5
<1>7. ToSet(r) = ToSet(u) \cup ToSet(v)
  BY <1>2, <1>6 DEF ToSet
<1>8. 1 \in 1..a /\ 1 \in DOMAIN r
  BY <1>1, <1>2
<1>9. r # <<>> /\ r[1] = u[1]
  BY <1>3, <1>8
<1> QED
  BY <1>7, <1>9 DEF r

LEMMA FirstIsIn ==
  ASSUME NEW A, NEW u \in Seq(A), u # <<>>
  PROVE  u[1] \in ToSet(u)
<1>1. 1 \in DOMAIN u
  BY EmptySeq
<1> QED
  BY <1>1 DEF ToSet

\* A task whose file is there.
LEMMA AddToArray ==
  ASSUME NEW F, NEW I, NEW s \in Seq(MergeTasks(F, I)), NEW one, Mergeable(s, one),
         NEW k \in Nat, k + 1 \in 1..Len(s), NEW m \in Merging(F, I), MergedTo(m, I, s, k, one),
         \A x \in I : x[1] \in Artifacts,
         s[k + 1].file \in DOMAIN m.of
  PROVE  MergedTo(AddTask(m, s[k + 1]), I, s, k + 1, one)
<1> DEFINE i == k + 1
           t == s[i]
           y == m.of[t.file]
           u == m.files[y]
           v == m.files[t.info]
           w == AddTask(m, t)
<1>1. /\ t.file \in F /\ t.info \in I
      /\ m.files \in [I -> Seq(Artifacts)] /\ m.of \in UNION {[D -> I] : D \in SUBSET F}
  <2>1. t \in MergeTasks(F, I)
    OBVIOUS
  <2> HIDE DEF t
  <2> QED
    BY <2>1 DEF Merging, MergeTasks
<1>2. y \in I /\ y \in Used(m)
  BY <1>1 DEF Used
<1>3. u \in Seq(Artifacts) /\ v \in Seq(Artifacts)
  BY <1>1, <1>2
<1>4. w.of = m.of /\ w.files = [m.files EXCEPT ![y] = u \o v]
  BY <1>1 DEF AddTask, Merging
<1>5. w.files[y] = u \o v /\ \A x \in I : x # y => w.files[x] = m.files[x]
  BY <1>1, <1>2, <1>4
<1>6. OfFirst(m, s, k) /\ StartsOwn(m, I) /\ (one => OnceEach(m, I, s, k))
  BY DEF MergedTo
<1>7. u # <<>> /\ u[1] = y[1] /\ v # <<>> /\ v[1] = t.info[1]
  BY <1>1, <1>2, <1>6 DEF StartsOwn
<1>8. 1..i = 1..k \cup {i} /\ i \notin 1..k /\ 1..i \subseteq 1..Len(s) /\ i \in 1..Len(s)
  <2>1. Len(s) \in Nat
    OBVIOUS
  <2> QED
    BY <2>1
<1>10. t = s[i] /\ y = m.of[t.file] /\ t.file \in DOMAIN m.of /\ u = m.files[y] /\ v = m.files[t.info]
  OBVIOUS
<1> HIDE DEF u, v, w, y, t, i
<1>9. /\ ToSet(u \o v) = ToSet(u) \cup ToSet(v) /\ u \o v # <<>> /\ (u \o v)[1] = u[1]
      /\ v[1] \in ToSet(v) /\ u[1] \in ToSet(u)
  BY <1>3, <1>7, JoinedElements, FirstIsIn
<1>11. OfFirst(w, s, i)
  <2>1. DOMAIN w.of = {s[j].file : j \in 1..i}
    <3>1. DOMAIN m.of = {s[j].file : j \in 1..k}
      BY <1>6 DEF OfFirst
    <3>2. {s[j].file : j \in 1..i} = {s[j].file : j \in 1..k} \cup {s[i].file}
      BY <1>8
    <3> QED
      BY <1>4, <1>10, <3>1, <3>2
  <2>2. Zips # {} => \A f \in DOMAIN w.of : w.of[f][1] \in Zips
    BY <1>4, <1>6 DEF OfFirst
  <2>3. ASSUME NEW j \in 1..i PROVE s[j].info[1] \in ToSet(w.files[w.of[s[j].file]])
    <3>1. CASE j = i
      BY <1>4, <1>5, <1>7, <1>9, <1>10, <3>1
    <3>2. CASE j # i
      <4> DEFINE x == m.of[s[j].file]
      <4>1. s[j].info[1] \in ToSet(m.files[x]) /\ s[j].file \in DOMAIN m.of
        BY <1>6, <1>8, <3>2 DEF OfFirst
      <4>2. x \in I
        BY <1>1, <4>1
      <4> HIDE DEF x
      <4>3. s[j].info[1] \in ToSet(w.files[x])
        BY <1>5, <1>9, <1>10, <4>1, <4>2
      <4> QED
        BY <1>4, <4>3 DEF x
    <3> QED
      BY <3>1, <3>2
  <2> QED
    BY <2>1, <2>2, <2>3 DEF OfFirst
<1>12. StartsOwn(w, I)
  BY <1>5, <1>6, <1>7, <1>9, <1>10 DEF StartsOwn
<1>13. ASSUME one PROVE OnceEach(w, I, s, i)
  <2>1. \A j \in 1..k : s[j].info[1] # t.info[1]
    BY <1>8, <1>10, <1>13 DEF Mergeable
  <2>2. Enumerates(u, Named(s, k))
    BY <1>2, <1>6, <1>10, <1>13 DEF OnceEach
  <2>3. t.info[1] \notin Named(s, k) /\ Named(s, i) = Named(s, k) \cup {t.info[1]}
    BY <1>8, <1>10, <2>1 DEF Named
  <2>4. \A x \in Used(m) : x = y
    <3>1. ASSUME NEW f \in DOMAIN m.of PROVE f = t.file
      <4>1. PICK j \in 1..k : f = s[j].file
        BY <1>6 DEF OfFirst
      <4>2. j \in 1..Len(s)
        BY <1>8
      <4> QED
        BY <1>8, <1>10, <1>13, <4>1, <4>2 DEF Mergeable
    <3> QED
      BY <1>10, <3>1 DEF Used
  <2>5. t.info \notin Used(m)
    <3>1. u[1] \in Named(s, k)
      BY <1>9, <2>2 DEF Enumerates
    <3> QED
      BY <1>7, <2>3, <2>4, <3>1
  <2>6. v = <<t.info[1]>>
    BY <1>1, <1>6, <1>10, <1>13, <2>5 DEF OnceEach
  <2>7. Enumerates(v, {t.info[1]})
    BY <2>6, OneOrNone
  <2>8. Enumerates(u \o v, Named(s, i))
    <3>1. Named(s, k) \cap {t.info[1]} = {}
      BY <2>3
    <3>2. Enumerates(u \o v, Named(s, k) \cup {t.info[1]})
      BY <1>3, <2>2, <2>7, <3>1, JoinIs
    <3> QED
      BY <2>3, <3>2
  <2>9. Used(w) = Used(m)
    BY <1>4 DEF Used
  <2> QED
    BY <1>2, <1>5, <1>6, <1>13, <2>4, <2>8, <2>9 DEF OnceEach
<1> QED
  BY <1>11, <1>12, <1>13 DEF MergedTo, w, t, i

\* The first task of a file.
LEMMA AddFile ==
  ASSUME NEW F, NEW I, NEW s \in Seq(MergeTasks(F, I)), NEW one, Mergeable(s, one),
         NEW k \in Nat, k + 1 \in 1..Len(s), NEW m \in Merging(F, I), MergedTo(m, I, s, k, one),
         \A x \in I : x[1] \in Artifacts,
         s[k + 1].file \notin DOMAIN m.of
  PROVE  MergedTo(AddTask(m, s[k + 1]), I, s, k + 1, one)
<1> DEFINE i == k + 1
           t == s[i]
           w == AddTask(m, t)
<1>1. /\ t.file \in F /\ t.info \in I
      /\ m.files \in [I -> Seq(Artifacts)] /\ m.of \in UNION {[D -> I] : D \in SUBSET F}
  <2>1. t \in MergeTasks(F, I)
    OBVIOUS
  <2> HIDE DEF t
  <2> QED
    BY <2>1 DEF Merging, MergeTasks
<1>2. w = [m EXCEPT !.of = With(m.of, t.file, t.info)]
  BY DEF AddTask
<1>3. w.of = With(m.of, t.file, t.info) /\ w.files = m.files
  <2> HIDE DEF w
  <2> QED
    BY <1>2 DEF Merging
<1>4. OfFirst(m, s, k) /\ StartsOwn(m, I) /\ (one => OnceEach(m, I, s, k))
  BY DEF MergedTo
<1>5. /\ 1..i = 1..k \cup {i} /\ i \notin 1..k /\ 1..i \subseteq 1..Len(s) /\ i \in 1..Len(s)
      /\ k # 0 => 1 \in 1..k
  <2>1. Len(s) \in Nat
    OBVIOUS
  <2> QED
    BY <2>1
<1>6. t = s[i] /\ t.file \notin DOMAIN m.of
  OBVIOUS
<1>7. i = k + 1
  OBVIOUS
<1> HIDE DEF w, t, i
<1>8. /\ DOMAIN w.of = DOMAIN m.of \cup {t.file} /\ w.of[t.file] = t.info
      /\ \A f \in DOMAIN m.of : w.of[f] = m.of[f]
  BY <1>3, <1>6 DEF With
<1>9. m.files[t.info] # <<>> /\ m.files[t.info][1] = t.info[1] /\ m.files[t.info] \in Seq(Artifacts)
  BY <1>1, <1>4 DEF StartsOwn
<1>10. OfFirst(w, s, i)
  <2>1. DOMAIN w.of = {s[j].file : j \in 1..i}
    BY <1>4, <1>5, <1>6, <1>8 DEF OfFirst
  <2>2. ASSUME NEW z \in Zips PROVE t.info[1] \in Zips
    <3>1. z \in Artifacts
      BY UpdateInfoAssumption
    <3>2. PICK j \in 1..Len(s) : s[j].file = t.file /\ s[j].info[1] = z
      BY <1>5, <1>6, <3>1 DEF Mergeable
    <3>3. j \notin 1..k
      BY <1>4, <1>6, <3>2 DEF OfFirst
    <3>4. PICK l \in 0..Len(s) : \A r \in 1..Len(s) : s[r].info[1] \in Zips <=> r <= l
      BY DEF Mergeable, ZipsFirst
    <3>5. j <= l
      BY <3>2, <3>4
    <3>6. i <= l
      <4>1. Len(s) \in Nat
        OBVIOUS
      <4> QED
        BY <1>7, <3>3, <3>5, <4>1
    <3> QED
      BY <1>5, <1>6, <3>4, <3>6
  <2>3. Zips # {} => \A f \in DOMAIN w.of : w.of[f][1] \in Zips
    BY <1>4, <1>8, <2>2 DEF OfFirst
  <2>4. ASSUME NEW j \in 1..i PROVE s[j].info[1] \in ToSet(w.files[w.of[s[j].file]])
    <3>1. CASE j = i
      <4>1. t.info[1] \in ToSet(m.files[t.info])
        BY <1>9, FirstIsIn
      <4> QED
        BY <1>3, <1>6, <1>8, <3>1, <4>1
    <3>2. CASE j # i
      <4>1. s[j].info[1] \in ToSet(m.files[m.of[s[j].file]]) /\ s[j].file \in DOMAIN m.of
        BY <1>4, <1>5, <3>2 DEF OfFirst
      <4> QED
        BY <1>3, <1>8, <4>1
    <3> QED
      BY <3>1, <3>2
  <2> QED
    BY <2>1, <2>3, <2>4 DEF OfFirst
<1>11. StartsOwn(w, I)
  BY <1>3, <1>4 DEF StartsOwn
<1>12. ASSUME one PROVE OnceEach(w, I, s, i)
  <2>1. k = 0
    <3> SUFFICES ASSUME k # 0 PROVE FALSE
      OBVIOUS
    <3>1. 1 \in 1..k /\ 1 \in 1..Len(s)
      BY <1>5
    <3>2. s[1].file \in DOMAIN m.of
      BY <1>4, <3>1 DEF OfFirst
    <3> QED
      BY <1>5, <1>6, <1>12, <3>1, <3>2 DEF Mergeable
  <2>2. DOMAIN m.of = {} /\ Used(m) = {}
    BY <1>4, <2>1 DEF OfFirst, Used
  <2>3. Used(w) = {t.info}
    BY <1>8, <2>2 DEF Used
  <2>4. \A x \in I : w.files[x] = <<x[1]>>
    BY <1>3, <1>4, <1>12, <2>2 DEF OnceEach
  <2>5. Named(s, i) = {t.info[1]}
    BY <1>6, <1>7, <2>1 DEF Named
  <2>6. Enumerates(<<t.info[1]>>, {t.info[1]})
    BY OneOrNone
  <2> QED
    BY <1>1, <2>3, <2>4, <2>5, <2>6 DEF OnceEach
<1> QED
  BY <1>10, <1>11, <1>12 DEF MergedTo, w, t, i

\* All tasks, merged.
LEMMA AllMerged ==
  ASSUME NEW F, NEW I, NEW s \in Seq(MergeTasks(F, I)), NEW one, Mergeable(s, one),
         NEW b \in [I -> Seq(Artifacts)], \A x \in I : x[1] \in Artifacts /\ b[x] = <<x[1]>>,
         NEW m, m = FoldLeft(AddTask, [of |-> <<>>, files |-> b], s)
  PROVE  m \in Merging(F, I) /\ MergedTo(m, I, s, Len(s), one)
<1> DEFINE n == Len(s)
           base == [of |-> <<>>, files |-> b]
<1>0. <<>> \in [{} -> I]
  OBVIOUS
<1>1. base \in Merging(F, I)
  BY <1>0 DEF Merging
<1>2. MergedTo(base, I, s, 0, one)
  <2>1. base.of = <<>> /\ base.files = b /\ DOMAIN base.of = {}
    OBVIOUS
  <2> HIDE DEF base
  <2>2. \A x \in I : b[x] # <<>> /\ b[x][1] = x[1]
    OBVIOUS
  <2> QED
    BY <2>1, <2>2 DEF MergedTo, OfFirst, StartsOwn, OnceEach, Used
<1>3. PICK f : Merges(f, F, I, base, s)
  <2> HIDE DEF base
  <2> QED
    BY <1>1, OneByOne
<1>4. /\ f \in [0..n -> Merging(F, I)] /\ f[0] = base /\ m = f[n]
      /\ \A k \in 1..n : f[k] = AddTask(f[k - 1], s[k])
  BY <1>3 DEF Merges
<1>5. n \in Nat
  OBVIOUS
<1> HIDE DEF n
<1>6. n = Len(s)
  BY DEF n
<1> HIDE DEF base
<1> DEFINE S == {k \in 0..n : MergedTo(f[k], I, s, k, one)}
<1>7. 0 \in S
  BY <1>2, <1>4, <1>5
<1>8. ASSUME NEW k \in 0..(n - 1), k \in S PROVE k + 1 \in S
  <2>1. /\ k \in Nat /\ k + 1 \in 1..Len(s) /\ f[k] \in Merging(F, I) /\ MergedTo(f[k], I, s, k, one)
        /\ k + 1 \in 0..n
    BY <1>4, <1>5, <1>6, <1>8
  <2>2. f[k + 1] = AddTask(f[k], s[k + 1])
    <3>1. k + 1 \in 1..n /\ k + 1 - 1 = k
      BY <1>5
    <3> QED
      BY <1>4, <3>1
  <2>3. MergedTo(AddTask(f[k], s[k + 1]), I, s, k + 1, one)
    <3>1. CASE s[k + 1].file \in DOMAIN f[k].of
      BY <2>1, <3>1, AddToArray
    <3>2. CASE s[k + 1].file \notin DOMAIN f[k].of
      BY <2>1, <3>2, AddFile
    <3> QED
      BY <3>1, <3>2
  <2> QED
    BY <2>1, <2>2, <2>3
<1>9. n \in S
  <2> HIDE DEF S
  <2>1. \A k \in 0..(n - 1) : k \in S => k + 1 \in S
    BY <1>8
  <2>2. \A k \in 0..n : k \in S
    BY <1>5, <1>7, <2>1, UpTo
  <2> QED
    BY <1>5, <2>2
<1> QED
  BY <1>4, <1>5, <1>6, <1>9

-----------------------------------------------------------------------------
LEMMA InfoInitInv == UpdateInfoInit => UpdateInfoInv
<1> SUFFICES ASSUME UpdateInfoInit PROVE UpdateInfoInv
  OBVIOUS
<1>1. Arrays(done) = {} /\ TasksFor(done) = {}
  BY DEF UpdateInfoInit, Arrays, TasksFor
<1>2. files \in [{} -> Seq(Artifacts)] /\ tasks \in Seq(MergeTasks(FilesToWrite, Arrays(done)))
  BY DEF UpdateInfoInit
<1>3. Enumerates(tasks, {})
  BY OneOrNone DEF UpdateInfoInit
<1> QED
  BY <1>1, <1>2, <1>3 DEF UpdateInfoInit, UpdateInfoInv, UpdateInfoTypeOK, NotMerged

\* What tasks are about does not change.
SameSetup ==
    /\ FilesToWrite' = FilesToWrite
    /\ \A a, n : Info(a, n)' = Info(a, n)
    /\ \A a : Url(a)' = Url(a)
    /\ OneFile' <=> OneFile

LEMMA SetupKept ==
  ASSUME UNCHANGED setup
  PROVE  SameSetup
<1>1. providers' = providers /\ channel' = channel /\ safe' = safe
  BY DEF setup
<1>2. ASSUME NEW n PROVE ChannelNames(n)' = ChannelNames(n) /\ Dir(n)' = Dir(n)
  BY <1>1 DEF ChannelNames, Dir
<1>3. ASSUME NEW n, NEW ch PROVE Created(n, ch)' <=> Created(n, ch)
  BY <1>2 DEF Created
<1>4. FilesToWrite' = FilesToWrite
  BY <1>1, <1>2, <1>3 DEF FilesToWrite
<1>5. ASSUME NEW a, NEW n PROVE (Copies(a, n)' <=> Copies(a, n)) /\ Info(a, n)' = Info(a, n)
  BY <1>1 DEF Copies, Info
<1>6. ASSUME NEW a PROVE Url(a)' = Url(a)
  BY <1>1, <1>5 DEF Url
<1>7. OneFile' <=> OneFile
  BY <1>1, <1>2 DEF OneFile, Alone
<1> QED
  BY <1>4, <1>5, <1>6, <1>7 DEF SameSetup

LEMMA CreateTasksInv ==
  ASSUME UpdateInfoInv, NEW a \in Artifacts, CreateTasks(a)
  PROVE  UpdateInfoInv'
<1> DEFINE D == done \cup {a}
           A == MergeTasks(FilesToWrite, Arrays(D))
<1>1. /\ UpdateInfoTypeOK /\ a \notin done /\ done' = D /\ UNCHANGED setup
      /\ merged' = merged /\ written' = written /\ tasks' = tasks \o Tasks(a)
      /\ url' = [url EXCEPT ![a] = Url(a)]
      /\ files' = [i \in DOMAIN files \union {<<a, 0>>} \union {Info(a, n) : n \in DOMAIN providers} |->
                      IF i[1] = a THEN <<a>> ELSE files[i]]
  BY DEF UpdateInfoInv, CreateTasks
<1>2. NotMerged
  BY <1>1 DEF UpdateInfoInv, Merged
<1>3. SameSetup /\ providers' = providers /\ channel' = channel /\ safe' = safe
  BY <1>1, SetupKept DEF setup
<1>4. Arrays(D) = Arrays(done) \cup Arrays({a})
  BY DEF Arrays
<1>5. \A x \in Arrays(done) : x[1] \in done /\ x[1] # a
  BY <1>1 DEF Arrays, Info
<1>6. Arrays({a}) = {<<a, 0>>} \cup {Info(a, n) : n \in DOMAIN providers} /\ \A x \in Arrays({a}) : x[1] = a
  BY DEF Arrays, Info
<1>7. files' = [x \in Arrays(D) |-> IF x[1] = a THEN <<a>> ELSE files[x]]
  <2>1. DOMAIN files = Arrays(done)
    BY <1>1 DEF UpdateInfoTypeOK
  <2> QED
    BY <1>1, <1>4, <1>6, <2>1
<1>8. files' \in [Arrays(D) -> Seq(Artifacts)] /\ \A x \in Arrays(D) : files'[x] = <<x[1]>>
  <2>1. ASSUME NEW x \in Arrays(D)
        PROVE  (IF x[1] = a THEN <<a>> ELSE files[x]) = <<x[1]>> /\ x[1] \in Artifacts
    BY <1>1, <1>2, <1>4, <1>5, <1>6 DEF NotMerged, UpdateInfoTypeOK
  <2>2. \A x \in Arrays(D) : <<x[1]>> \in Seq(Artifacts)
    BY <2>1
  <2> QED
    BY <1>7, <2>1, <2>2
<1>9. tasks' \in Seq(A) /\ Enumerates(tasks', TasksFor(D))
  <2>1. TasksFor(D) = TasksFor(done) \cup TasksFor({a})
    BY DEF TasksFor
  <2>2. TasksFor(done) \cap TasksFor({a}) = {}
    BY <1>1 DEF TasksFor, Task, Info
  <2>3. TasksAre(a)
    BY <1>1, TasksOfArtifact DEF UpdateInfoTypeOK
  <2>4. /\ MergeTasks(FilesToWrite, Arrays(done)) \subseteq A
        /\ MergeTasks(FilesToWrite, Arrays({a})) \subseteq A
    BY <1>4 DEF MergeTasks
  <2> HIDE DEF A, D
  <2>5. tasks \in Seq(A) /\ Tasks(a) \in Seq(A)
    BY <1>1, <2>3, <2>4, SeqOfMore DEF UpdateInfoTypeOK, TasksAre
  <2>6. Enumerates(tasks, TasksFor(done)) /\ Enumerates(Tasks(a), TasksFor({a}))
    BY <1>1, <2>3 DEF UpdateInfoTypeOK, TasksAre
  <2>7. /\ tasks \o Tasks(a) \in Seq(A)
        /\ Enumerates(tasks \o Tasks(a), TasksFor(done) \cup TasksFor({a}))
    BY <2>2, <2>5, <2>6, JoinIs
  <2> QED
    BY <1>1, <2>1, <2>7
<1>10. url' = [b \in Artifacts |-> IF b \in D THEN Url(b) ELSE "own"]
  <2>1. url = [b \in Artifacts |-> IF b \in done THEN Url(b) ELSE "own"]
    BY <1>1 DEF UpdateInfoTypeOK
  <2> QED
    BY <1>1, <2>1
<1>11. /\ FilesToWrite' = FilesToWrite /\ Arrays(done)' = Arrays(D) /\ TasksFor(done)' = TasksFor(D)
       /\ \A b : Url(b)' = Url(b)
  <2>1. FilesToWrite' = FilesToWrite /\ (\A b, n : Info(b, n)' = Info(b, n)) /\ \A b : Url(b)' = Url(b)
    BY <1>3 DEF SameSetup
  <2>2. Arrays(done)' = Arrays(D)
    BY <1>1, <1>3, <2>1 DEF Arrays
  <2>3. TasksFor(done)' = TasksFor(D)
    BY <1>1, <2>1 DEF TasksFor, Task
  <2> QED
    BY <2>1, <2>2, <2>3
<1>12. D \subseteq Artifacts
  BY <1>1 DEF UpdateInfoTypeOK
<1> HIDE DEF D
<1>13. NotMerged'
  BY <1>1, <1>2, <1>8, <1>11 DEF NotMerged
<1>14. UpdateInfoTypeOK'
  <2>1. providers' \in Configurations /\ channel' \in Channels /\ safe' \subseteq Artifacts
    BY <1>1, <1>3 DEF UpdateInfoTypeOK
  <2>2. url' = [b \in Artifacts |-> IF b \in done' THEN Url(b)' ELSE "own"]
    BY <1>1, <1>10, <1>11
  <2>3. tasks' \in Seq(MergeTasks(FilesToWrite', Arrays(done)'))
    BY <1>9, <1>11
  <2> QED
    BY <1>1, <1>8, <1>9, <1>11, <1>12, <2>1, <2>2, <2>3 DEF UpdateInfoTypeOK
<1> QED
  BY <1>13, <1>14 DEF UpdateInfoInv

-----------------------------------------------------------------------------
IsTask(t, a, f) == t.file = f /\ t.info = Info(a, f[1]) /\ t.info[1] = a

\* The tasks of all artifacts can be merged.
LEMMA TasksMergeable ==
  ASSUME UpdateInfoTypeOK, done = Artifacts, NEW s,
         s \in Seq(MergeTasks(FilesToWrite, Arrays(done))), Enumerates(s, TasksFor(done)), ZipsFirst(s)
  PROVE  /\ Mergeable(s, OneFile)
         /\ {s[i].file : i \in 1..Len(s)} = {f \in FilesToWrite : Artifacts # {}}
         /\ Named(s, Len(s)) \subseteq Artifacts
<1> DEFINE n == Len(s)
<1>1. n \in Nat /\ DOMAIN s = 1..n
  OBVIOUS
<1> HIDE DEF n
<1>2. TasksFor(done) = {s[i] : i \in 1..n} /\ IsInjective(s)
  BY <1>1 DEF Enumerates, ToSet
<1>3. ASSUME NEW i \in 1..n
      PROVE  \E a \in Artifacts : \E f \in FilesToWrite : s[i] = Task(a, f[1], f[2])
  <2>1. s[i] \in TasksFor(done)
    BY <1>2
  <2> QED
    BY <2>1 DEF TasksFor
<1>4. ASSUME NEW f \in FilesToWrite PROVE f = <<f[1], f[2]>>
  BY DEF FilesToWrite
<1>5. ASSUME NEW a, NEW f \in FilesToWrite
      PROVE  IsTask(Task(a, f[1], f[2]), a, f)
  BY <1>4 DEF Task, Info, IsTask
<1>6. ASSUME NEW a \in Artifacts, NEW f \in FilesToWrite
      PROVE  \E i \in 1..n : s[i] = Task(a, f[1], f[2])
  <2>1. Task(a, f[1], f[2]) \in TasksFor(done)
    BY DEF TasksFor
  <2> QED
    BY <1>2, <2>1
<1>7. ASSUME NEW i \in 1..n
      PROVE  s[i].file \in FilesToWrite /\ s[i].info[1] \in Artifacts /\ s[i].info = Info(s[i].info[1], s[i].file[1])
  <2>1. PICK a \in Artifacts : \E f \in FilesToWrite : s[i] = Task(a, f[1], f[2])
    BY <1>3
  <2>2. PICK f \in FilesToWrite : s[i] = Task(a, f[1], f[2])
    BY <2>1
  <2>3. s[i].file = f /\ s[i].info = Info(a, f[1]) /\ s[i].info[1] = a
    <3>1. IsTask(s[i], a, f)
      BY <1>5, <2>2
    <3> QED
      BY <3>1 DEF IsTask
  <2> QED
    BY <2>3
<1>8. ASSUME NEW i \in 1..n, NEW a \in Artifacts
      PROVE  \E j \in 1..n : s[j].file = s[i].file /\ s[j].info[1] = a
  <2> DEFINE f == s[i].file
  <2>1. f \in FilesToWrite
    BY <1>7
  <2> HIDE DEF f
  <2>2. PICK j \in 1..n : s[j] = Task(a, f[1], f[2])
    BY <1>6, <2>1
  <2>3. s[j].file = f /\ s[j].info[1] = a
    <3>1. IsTask(s[j], a, f)
      BY <1>5, <2>1, <2>2
    <3> QED
      BY <3>1 DEF IsTask
  <2> QED
    BY <2>3 DEF f
<1>9. ASSUME OneFile, NEW i \in 1..n, NEW j \in 1..n
      PROVE  s[i].file = s[j].file /\ (s[i].info[1] = s[j].info[1] => i = j)
  <2>1. \A f, g \in FilesToWrite : f = g
    <3> DEFINE c == ChannelNames(1)
    <3>1. Len(providers) = 1 /\ Len(c) = 1 /\ c \in Seq({"latest", "beta", "alpha"})
      BY <1>9, ChannelsAre DEF OneFile, Alone, UpdateInfoTypeOK
    <3>2. DOMAIN c = {1}
      <4> HIDE DEF c
      <4> QED
        BY <3>1
    <3>3. DOMAIN providers = {1}
      <4>1. providers \in Seq(Providers)
        BY UpdateInfoAssumption DEF UpdateInfoTypeOK
      <4> QED
        BY <3>1, <4>1
    <3>4. ASSUME NEW f \in FilesToWrite PROVE f = <<1, c[1]>>
      <4>1. f[1] = 1 /\ f[2] \in ToSet(c)
        BY <3>3 DEF FilesToWrite
      <4>2. f[2] = c[1]
        BY <3>2, <4>1 DEF ToSet
      <4> QED
        BY <1>4, <4>1, <4>2
    <3> QED
      BY <3>4
  <2>2. s[i].file = s[j].file
    BY <1>7, <2>1
  <2>3. ASSUME s[i].info[1] = s[j].info[1] PROVE i = j
    <3>1. PICK a \in Artifacts, f \in FilesToWrite : s[i] = Task(a, f[1], f[2])
      BY <1>3
    <3>2. PICK b \in Artifacts, g \in FilesToWrite : s[j] = Task(b, g[1], g[2])
      BY <1>3
    <3>4. IsTask(s[i], a, f) /\ IsTask(s[j], b, g)
      BY <1>5, <3>1, <3>2
    <3>3. a = b /\ f = g
      BY <2>1, <2>3, <3>4 DEF IsTask
    <3> QED
      BY <1>1, <1>2, <3>1, <3>2, <3>3 DEF IsInjective
  <2> QED
    BY <2>2, <2>3
<1>10. Mergeable(s, OneFile)
  BY <1>2, <1>8, <1>9 DEF Mergeable, n
<1>11. {s[i].file : i \in 1..n} = {f \in FilesToWrite : Artifacts # {}}
  <2>1. ASSUME NEW f \in FilesToWrite, NEW a \in Artifacts PROVE \E i \in 1..n : f = s[i].file
    <3>1. PICK i \in 1..n : s[i] = Task(a, f[1], f[2])
      BY <1>6
    <3>2. IsTask(s[i], a, f)
      BY <1>5, <3>1
    <3> QED
      BY <3>2 DEF IsTask
  <2>2. ASSUME NEW i \in 1..n PROVE s[i].file \in FilesToWrite /\ Artifacts # {}
    BY <1>7
  <2>3. \A x : x \in {s[i].file : i \in 1..n} <=> \E i \in 1..n : x = s[i].file
    OBVIOUS
  <2>4. \A x : x \in {s[i].file : i \in 1..n} => x \in FilesToWrite /\ Artifacts # {}
    BY <2>2, <2>3
  <2>5. \A x \in FilesToWrite : Artifacts # {} => x \in {s[i].file : i \in 1..n}
    BY <2>1, <2>3
  <2> QED
    BY <2>4, <2>5
<1>12. Named(s, n) \subseteq Artifacts
  BY <1>7 DEF Named
<1> QED
  BY <1>10, <1>11, <1>12 DEF n

\* What the merge leaves, of all artifacts in any order.
LEMMA MergeLeaves ==
  ASSUME UpdateInfoTypeOK, done = Artifacts, Artifacts # {}, \A x \in Arrays(done) : files[x] = <<x[1]>>,
         NEW m, m = FoldLeft(AddTask, [of |-> <<>>, files |-> files], Sorted(tasks))
  PROVE  /\ m.of \in [FilesToWrite -> Arrays(done)]
         /\ m.files \in [Arrays(done) -> Seq(Artifacts)]
         /\ \A f \in FilesToWrite :
                LET x == m.of[f] IN
                /\ Zips # {} => x[1] \in Zips
                /\ m.files[x][1] = x[1] /\ ToSet(m.files[x]) = Artifacts
                /\ OneFile => IsInjective(m.files[x])
<1> DEFINE s == Sorted(tasks)
           I == Arrays(done)
           F == FilesToWrite
           n == Len(s)
<1>1. s \in Seq(MergeTasks(F, I)) /\ Enumerates(s, TasksFor(done)) /\ ZipsFirst(s)
  BY SortedIs DEF UpdateInfoTypeOK
<1> HIDE DEF s
<1>2. Mergeable(s, OneFile)
  BY <1>1, TasksMergeable
<1>3. {s[i].file : i \in 1..n} = F
  <2>1. {s[i].file : i \in 1..n} = {f \in FilesToWrite : Artifacts # {}}
    BY <1>1, TasksMergeable
  <2> QED
    BY <2>1
<1>4. Named(s, n) \subseteq Artifacts
  BY <1>1, TasksMergeable
<1>5. \A x \in I : x[1] \in Artifacts /\ files[x] = <<x[1]>>
  BY DEF Arrays, Info
<1>6. files \in [I -> Seq(Artifacts)]
  BY DEF UpdateInfoTypeOK
<1>7. m = FoldLeft(AddTask, [of |-> <<>>, files |-> files], s)
  BY DEF s
<1> HIDE DEF I, F
<1>8. m \in Merging(F, I) /\ MergedTo(m, I, s, n, OneFile)
  BY <1>1, <1>2, <1>5, <1>6, <1>7, AllMerged
<1>9. /\ m.files \in [I -> Seq(Artifacts)] /\ m.of \in UNION {[D -> I] : D \in SUBSET F}
  BY <1>8 DEF Merging
<1>10. DOMAIN m.of = F
  BY <1>3, <1>8 DEF MergedTo, OfFirst
<1>11. m.of \in [F -> I]
  BY <1>9, <1>10
<1>12. ASSUME NEW f \in F
       PROVE  /\ Zips # {} => m.of[f][1] \in Zips
              /\ m.files[m.of[f]][1] = m.of[f][1] /\ ToSet(m.files[m.of[f]]) = Artifacts
              /\ OneFile => IsInjective(m.files[m.of[f]])
  <2> DEFINE x == m.of[f]
             u == m.files[x]
  <2>1. x \in I /\ u \in Seq(Artifacts)
    BY <1>9, <1>11
  <2>2. Zips # {} => x[1] \in Zips
    BY <1>8, <1>10 DEF MergedTo, OfFirst
  <2>3. u[1] = x[1]
    BY <1>8, <2>1 DEF MergedTo, StartsOwn
  <2>4. ASSUME NEW a \in Artifacts PROVE a \in ToSet(u)
    <3>1. PICK i \in 1..n : s[i].file = f
      BY <1>3
    <3>3. \E j \in 1..n : s[j].file = s[i].file /\ s[j].info[1] = a
      BY <1>2 DEF Mergeable
    <3>2. PICK j \in 1..n : s[j].file = f /\ s[j].info[1] = a
      BY <3>1, <3>3
    <3> QED
      BY <1>8, <3>2 DEF MergedTo, OfFirst
  <2>5. ToSet(u) \subseteq Artifacts
    <3> HIDE DEF u
    <3> QED
      BY <2>1 DEF ToSet
  <2>6. OneFile => IsInjective(u)
    <3>1. x \in Used(m)
      BY <1>10 DEF Used
    <3> QED
      BY <1>8, <2>1, <3>1 DEF MergedTo, OnceEach, Enumerates
  <2> QED
    BY <2>2, <2>3, <2>4, <2>5, <2>6
<1> QED
  BY <1>9, <1>11, <1>12 DEF I, F

\* Nor does what there are tasks for.
SameTasks == SameSetup /\ Arrays(done)' = Arrays(done) /\ TasksFor(done)' = TasksFor(done)

LEMMA TasksKept ==
  ASSUME UNCHANGED setup, done' = done
  PROVE  SameTasks
<1>1. SameSetup /\ providers' = providers
  BY SetupKept DEF setup
<1>2. FilesToWrite' = FilesToWrite /\ \A b, n : Info(b, n)' = Info(b, n)
  BY <1>1 DEF SameSetup
<1>3. Arrays(done)' = Arrays(done)
  BY <1>1, <1>2 DEF Arrays
<1>4. TasksFor(done)' = TasksFor(done)
  BY <1>2 DEF TasksFor, Task
<1> QED
  BY <1>1, <1>3, <1>4 DEF SameTasks

LEMMA MergeInv ==
  ASSUME UpdateInfoInv, Merge
  PROVE  UpdateInfoInv'
<1> DEFINE m == FoldLeft(AddTask, [of |-> <<>>, files |-> files], Sorted(tasks))
<1>1. /\ UpdateInfoTypeOK /\ done = Artifacts /\ merged = <<>> /\ UNCHANGED setup
      /\ merged' = m.of /\ files' = m.files
      /\ done' = done /\ url' = url /\ tasks' = tasks /\ written' = written
  BY DEF UpdateInfoInv, Merge
<1> HIDE DEF m
<1>2. providers' = providers /\ channel' = channel /\ safe' = safe
  BY <1>1 DEF setup
<1>3. /\ FilesToWrite' = FilesToWrite /\ Arrays(done)' = Arrays(done) /\ TasksFor(done)' = TasksFor(done)
      /\ (\A b : Url(b)' = Url(b)) /\ (OneFile' <=> OneFile)
  BY <1>1, TasksKept DEF SameTasks, SameSetup
<1>4. ASSUME files' \in [Arrays(done) -> Seq(Artifacts)] PROVE UpdateInfoTypeOK'
  <2>1. url' = [b \in Artifacts |-> IF b \in done' THEN Url(b)' ELSE "own"]
    BY <1>1, <1>3 DEF UpdateInfoTypeOK
  <2>2. tasks' \in Seq(MergeTasks(FilesToWrite', Arrays(done)'))
    BY <1>1, <1>3 DEF UpdateInfoTypeOK
  <2> QED
    BY <1>1, <1>2, <1>3, <1>4, <2>1, <2>2 DEF UpdateInfoTypeOK
<1>5. CASE NotMerged /\ Artifacts # {}
  <2>1. \A x \in Arrays(done) : files[x] = <<x[1]>>
    BY <1>5 DEF NotMerged
  <2>2. /\ m.of \in [FilesToWrite -> Arrays(done)]
        /\ m.files \in [Arrays(done) -> Seq(Artifacts)]
        /\ \A f \in FilesToWrite :
                LET x == m.of[f] IN
                /\ Zips # {} => x[1] \in Zips
                /\ m.files[x][1] = x[1] /\ ToSet(m.files[x]) = Artifacts
                /\ OneFile => IsInjective(m.files[x])
    BY <1>1, <1>5, <2>1, MergeLeaves DEF m
  <2>3. \A f \in FilesToWrite : IsComplete(merged[f])'
    BY <1>1, <1>3, <2>2 DEF IsComplete
  <2>4. written' = <<>>
    BY <1>1, <1>5 DEF NotMerged
  <2>5. merged' \in [FilesToWrite' -> Arrays(Artifacts)']
    BY <1>1, <1>3, <2>2
  <2>6. DOMAIN written' = {}
    BY <2>4
  <2>7. Merged'
    BY <1>1, <1>3, <2>3, <2>5, <2>6 DEF Merged
  <2> QED
    BY <1>1, <1>4, <2>2, <2>7 DEF UpdateInfoInv
<1>6. CASE ~(NotMerged /\ Artifacts # {})
  <2>1. tasks = <<>>
    <3>1. TasksFor(done) = {}
      <4>1. CASE Artifacts = {}
        BY <1>1, <4>1 DEF TasksFor
      <4>2. CASE Artifacts # {}
        <5>1. Merged
          BY <1>6, <4>2 DEF UpdateInfoInv
        <5>2. FilesToWrite = {}
          <6>1. DOMAIN merged = FilesToWrite
            BY <5>1 DEF Merged
          <6> QED
            BY <1>1, <6>1
        <5> QED
          BY <5>2 DEF TasksFor
      <4> QED
        BY <4>1, <4>2
    <3>2. ToSet(tasks) = {} /\ tasks \in Seq(MergeTasks(FilesToWrite, Arrays(done)))
      BY <1>1, <3>1 DEF UpdateInfoTypeOK, Enumerates
    <3>3. DOMAIN tasks = {}
      BY <3>2 DEF ToSet
    <3> QED
      BY <3>2, <3>3, EmptySeq
  <2>2. Sorted(tasks) = <<>>
    <3>1. ToSet(Sorted(tasks)) = {} /\ Sorted(tasks) \in Seq({})
      <4>3. \A A : <<>> \in Seq(A)
        OBVIOUS
      <4>1. tasks \in Seq({}) /\ Enumerates(tasks, {})
        BY <2>1, <4>3, OneOrNone
      <4>2. Sorted(tasks) \in Seq({}) /\ Enumerates(Sorted(tasks), {})
        BY <4>1, SortedIs
      <4> QED
        BY <4>2 DEF Enumerates
    <3>2. DOMAIN Sorted(tasks) = {}
      BY <3>1 DEF ToSet
    <3> QED
      BY <3>1, <3>2, EmptySeq
  <2>3. m.of = <<>> /\ m.files = files
    <3> DEFINE base == [of |-> <<>>, files |-> files]
    <3>1. <<>> \in [{} -> Arrays(done)]
      OBVIOUS
    <3>2. base \in Merging({}, Arrays(done)) /\ <<>> \in Seq(MergeTasks({}, Arrays(done)))
      <4>1. <<>> \in UNION {[D -> Arrays(done)] : D \in SUBSET {}}
        BY <3>1
      <4>2. files \in [Arrays(done) -> Seq(Artifacts)]
        BY <1>1 DEF UpdateInfoTypeOK
      <4>3. base \in Merging({}, Arrays(done))
        BY <4>1, <4>2 DEF Merging
      <4>4. \A A : <<>> \in Seq(A)
        OBVIOUS
      <4> QED
        BY <4>3, <4>4
    <3>3. base.of = <<>> /\ base.files = files
      OBVIOUS
    <3>4. m = FoldLeft(AddTask, base, <<>>)
      BY <2>2 DEF m
    <3> HIDE DEF base
    <3>5. PICK f : Merges(f, {}, Arrays(done), base, <<>>)
      BY <3>2, OneByOne
    <3>6. Len(<<>>) = 0
      OBVIOUS
    <3>7. m = base
      BY <3>4, <3>5, <3>6 DEF Merges
    <3> QED
      BY <3>3, <3>7
  <2>4. merged' = merged /\ files' = files
    BY <1>1, <2>3
  <2>5. UpdateInfoTypeOK'
    BY <1>1, <1>4, <2>4 DEF UpdateInfoTypeOK
  <2>6. CASE NotMerged
    <3>1. NotMerged'
      BY <1>1, <1>3, <2>4, <2>6 DEF NotMerged
    <3> QED
      BY <2>5, <3>1 DEF UpdateInfoInv
  <2>7. CASE Merged
    <3>1. DOMAIN merged = FilesToWrite
      BY <2>7 DEF Merged
    <3>2. FilesToWrite = {}
      BY <1>1, <3>1
    <3>3. merged' \in [FilesToWrite' -> Arrays(Artifacts)'] /\ DOMAIN written' = {}
      BY <1>1, <1>3, <2>4, <2>7, <3>2 DEF Merged
    <3>4. Merged'
      BY <1>1, <1>3, <3>2, <3>3 DEF Merged
    <3> QED
      BY <2>5, <3>4 DEF UpdateInfoInv
  <2> QED
    BY <2>6, <2>7 DEF UpdateInfoInv
<1> QED
  BY <1>5, <1>6

LEMMA WriteInv ==
  ASSUME UpdateInfoInv, NEW f \in DOMAIN merged, Write(f)
  PROVE  UpdateInfoInv'
<1>1. /\ UpdateInfoTypeOK /\ UNCHANGED setup /\ written' = With(written, f, Contents(merged[f]))
      /\ done' = done /\ url' = url /\ files' = files /\ tasks' = tasks /\ merged' = merged
  BY DEF UpdateInfoInv, Write, Contents
<1>2. Merged
  <2>1. merged # <<>>
    OBVIOUS
  <2> QED
    BY <2>1 DEF UpdateInfoInv, NotMerged
<1>3. providers' = providers /\ channel' = channel /\ safe' = safe
  BY <1>1 DEF setup
<1>4. /\ FilesToWrite' = FilesToWrite /\ Arrays(done)' = Arrays(done) /\ TasksFor(done)' = TasksFor(done)
      /\ (\A b : Url(b)' = Url(b)) /\ (OneFile' <=> OneFile)
  BY <1>1, TasksKept DEF SameTasks, SameSetup
<1>5. UpdateInfoTypeOK'
  <2>1. url' = [b \in Artifacts |-> IF b \in done' THEN Url(b)' ELSE "own"]
    BY <1>1, <1>4 DEF UpdateInfoTypeOK
  <2>2. tasks' \in Seq(MergeTasks(FilesToWrite', Arrays(done)'))
    BY <1>1, <1>4 DEF UpdateInfoTypeOK
  <2> QED
    BY <1>1, <1>3, <1>4, <2>1, <2>2 DEF UpdateInfoTypeOK
<1>6. done = Artifacts /\ merged \in [FilesToWrite -> Arrays(Artifacts)] /\ f \in FilesToWrite
  BY <1>2 DEF Merged
<1>7. \A g \in FilesToWrite : IsComplete(merged[g])'
  BY <1>1, <1>2, <1>4 DEF Merged, IsComplete
<1>8. DOMAIN written' = DOMAIN written \cup {f}
  BY <1>1 DEF With
<1>9. ASSUME NEW g \in DOMAIN written' PROVE written'[g] = Contents(merged[g])'
  <2>1. Contents(merged[g])' = Contents(merged[g])
    BY <1>1 DEF Contents
  <2>2. written'[g] = Contents(merged[g])
    BY <1>1, <1>2, <1>8 DEF With, Merged
  <2> QED
    BY <2>1, <2>2
<1>10. Merged'
  BY <1>1, <1>2, <1>4, <1>6, <1>7, <1>8, <1>9 DEF Merged
<1> QED
  BY <1>5, <1>10 DEF UpdateInfoInv

LEMMA InfoNextInv == UpdateInfoInv /\ [UpdateInfoNext]_infoVars => UpdateInfoInv'
<1> SUFFICES ASSUME UpdateInfoInv, [UpdateInfoNext]_infoVars PROVE UpdateInfoInv'
  OBVIOUS
<1>1. ASSUME NEW a \in Artifacts, CreateTasks(a) PROVE UpdateInfoInv'
  BY <1>1, CreateTasksInv
<1>2. CASE Merge
  BY <1>2, MergeInv
<1>3. ASSUME NEW f \in DOMAIN merged, Write(f) PROVE UpdateInfoInv'
  BY <1>3, WriteInv
<1>4. CASE UNCHANGED infoVars
  <2>1. /\ providers' = providers /\ channel' = channel /\ safe' = safe /\ done' = done /\ url' = url
        /\ files' = files /\ tasks' = tasks /\ merged' = merged /\ written' = written
    BY <1>4 DEF infoVars, setup
  <2>2. /\ FilesToWrite' = FilesToWrite /\ Arrays(done)' = Arrays(done) /\ TasksFor(done)' = TasksFor(done)
        /\ (\A b : Url(b)' = Url(b)) /\ (OneFile' <=> OneFile)
    BY <1>4, <2>1, TasksKept DEF infoVars, SameTasks, SameSetup
  <2>3. UpdateInfoTypeOK'
    <3>1. url' = [b \in Artifacts |-> IF b \in done' THEN Url(b)' ELSE "own"]
      BY <2>1, <2>2 DEF UpdateInfoInv, UpdateInfoTypeOK
    <3>2. tasks' \in Seq(MergeTasks(FilesToWrite', Arrays(done)'))
      BY <2>1, <2>2 DEF UpdateInfoInv, UpdateInfoTypeOK
    <3> QED
      BY <2>1, <2>2, <3>1, <3>2 DEF UpdateInfoInv, UpdateInfoTypeOK
  <2>4. CASE NotMerged
    <3>1. NotMerged'
      BY <2>1, <2>2, <2>4 DEF NotMerged
    <3> QED
      BY <2>3, <3>1 DEF UpdateInfoInv
  <2>5. CASE Merged
    <3>1. \A x : Contents(x)' = Contents(x) /\ (IsComplete(x)' <=> IsComplete(x))
      BY <2>1, <2>2 DEF Contents, IsComplete
    <3>2. merged' \in [FilesToWrite' -> Arrays(Artifacts)']
      BY <2>1, <2>2, <2>5 DEF Merged
    <3>3. Merged'
      BY <2>1, <2>2, <2>5, <3>1, <3>2 DEF Merged
    <3> QED
      BY <2>3, <3>3 DEF UpdateInfoInv
  <2> QED
    BY <2>4, <2>5 DEF UpdateInfoInv
<1> QED
  BY <1>1, <1>2, <1>3, <1>4 DEF UpdateInfoNext

\* What is written, of a file by itself.
LEMMA WrittenIs ==
  ASSUME UpdateInfoInv, NEW f \in DOMAIN written
  PROVE  /\ Alone => \A k \in DOMAIN written[f].files :
                LET e == written[f].files[k] IN e[2] = ServedName(e[1], f[1])
         /\ written[f].path[1] = written[f].files[1][1]
         /\ Zips # {} => written[f].files[1][1] \in Zips
         /\ \A a \in Artifacts :
                  LET listed == {k \in DOMAIN written[f].files : written[f].files[k][1] = a} IN
                  listed # {} /\ (OneFile => Cardinality(listed) = 1)
<1> DEFINE x == merged[f]
           u == files[x]
           w == written[f]
<1>1. UpdateInfoTypeOK /\ Merged
  <2>1. written # <<>>
    OBVIOUS
  <2> QED
    BY <2>1 DEF UpdateInfoInv, NotMerged
<1>2. f \in FilesToWrite /\ w = Contents(x) /\ done = Artifacts /\ x \in Arrays(Artifacts) /\ IsComplete(x)
  BY <1>1 DEF Merged
<1>3. u \in Seq(Artifacts)
  BY <1>1, <1>2 DEF UpdateInfoTypeOK
<1>4. w = [files |-> [k \in DOMAIN u |-> <<u[k], url[u[k]]>>], path |-> Path(x)]
  BY <1>2 DEF Contents
<1>5. u[1] = x[1] /\ ToSet(u) = Artifacts /\ (Zips # {} => x[1] \in Zips) /\ (OneFile => IsInjective(u))
  BY <1>2 DEF IsComplete
<1>6. url = [b \in Artifacts |-> Url(b)]
  BY <1>1, <1>2 DEF UpdateInfoTypeOK
<1>7. x[1] \in Artifacts
  BY <1>2 DEF Arrays, Info
<1>8. f[1] \in DOMAIN providers /\ providers \in Seq(Providers)
  BY <1>1, <1>2, UpdateInfoAssumption DEF FilesToWrite, UpdateInfoTypeOK
<1> HIDE DEF x, u, w
<1>9. 1 \in DOMAIN u /\ DOMAIN w.files = DOMAIN u /\ \A k \in DOMAIN u : w.files[k] = <<u[k], url[u[k]]>>
  <2>1. u # <<>>
    <3> SUFFICES ASSUME u = <<>> PROVE FALSE
      OBVIOUS
    <3>1. DOMAIN u = {}
      OBVIOUS
    <3> QED
      BY <1>5, <1>7, <3>1 DEF ToSet
  <2>2. 1 \in DOMAIN u
    BY <1>3, <2>1, EmptySeq
  <2> QED
    BY <1>4, <2>2
<1>10. w.path[1] = w.files[1][1] /\ (Zips # {} => w.files[1][1] \in Zips)
  <2>1. w.path[1] = x[1]
    BY <1>4 DEF Path
  <2>2. w.files[1][1] = x[1]
    BY <1>5, <1>9
  <2> QED
    BY <1>5, <2>1, <2>2
<1>11. ASSUME NEW a \in Artifacts
       PROVE  LET listed == {k \in DOMAIN w.files : w.files[k][1] = a} IN
              listed # {} /\ (OneFile => Cardinality(listed) = 1)
  <2> DEFINE listed == {k \in DOMAIN w.files : w.files[k][1] = a}
  <2>1. PICK k \in DOMAIN u : u[k] = a
    BY <1>5 DEF ToSet
  <2>2. k \in listed
    BY <1>9, <2>1
  <2>3. ASSUME OneFile PROVE Cardinality(listed) = 1
    <3>1. \A l \in listed : l = k
      BY <1>5, <1>9, <2>1, <2>3 DEF IsInjective
    <3>2. listed = {k}
      BY <2>2, <3>1
    <3> QED
      BY <3>2, FS_Singleton
  <2> QED
    BY <2>2, <2>3
<1>12. ASSUME Alone, NEW k \in DOMAIN w.files PROVE w.files[k][2] = ServedName(w.files[k][1], f[1])
  <2>1. DOMAIN providers = {1} /\ f[1] = 1
    BY <1>8, <1>12 DEF Alone
  <2>2. k \in DOMAIN u /\ u[k] \in Artifacts /\ w.files[k] = <<u[k], url[u[k]]>>
    BY <1>3, <1>9, <1>12
  <2>3. w.files[k][2] = Url(u[k]) /\ w.files[k][1] = u[k]
    BY <1>6, <2>2
  <2> QED
    BY <2>1, <2>3 DEF Url, Copies, ServedName
<1> QED
  BY <1>10, <1>11, <1>12 DEF w

LEMMA ListedByInv == UpdateInfoInv => ListsArtifacts
<1> SUFFICES ASSUME UpdateInfoInv PROVE ListsArtifacts
  OBVIOUS
<1>1. Alone => UrlIsServedName
  BY WrittenIs DEF UrlIsServedName
<1>2. ASSUME NEW f \in DOMAIN written
      PROVE  /\ written[f].path[1] = written[f].files[1][1]
             /\ Zips # {} => written[f].files[1][1] \in Zips
             /\ \A a \in Artifacts :
                  LET listed == {k \in DOMAIN written[f].files : written[f].files[k][1] = a} IN
                  listed # {} /\ (Alone /\ Len(ChannelNames(1)) = 1 => Cardinality(listed) = 1)
  BY WrittenIs DEF OneFile
<1>3. ASSUME merged # <<>>, NEW n \in DOMAIN providers, NEW ch \in ToSet(ChannelNames(n)), HasOwnFiles(n)
      PROVE  <<n, ch>> \in DOMAIN merged
  <2>1. DOMAIN merged = FilesToWrite /\ channel \in Channels
    BY <1>3 DEF UpdateInfoInv, NotMerged, Merged, UpdateInfoTypeOK
  <2>2. ch \in {"latest", "beta", "alpha"}
    BY <2>1, ChannelsAre DEF ToSet
  <2>3. ~Created(n, ch)
    BY <1>3 DEF Created, HasOwnFiles
  <2> QED
    BY <2>1, <2>2, <2>3 DEF FilesToWrite
<1> QED
  BY <1>1, <1>2, <1>3 DEF ListsArtifacts

(***************************************************************************)
(* Every update information names all artifacts, the zip first, and its    *)
(* urls are those its provider serves if there is one: for any artifacts   *)
(* and configurations, in whichever order artifacts were hashed.           *)
(***************************************************************************)
THEOREM UpdateInformationIsComplete == UpdateInfoSpec => []ListsArtifacts
<1>1. UpdateInfoSpec => []UpdateInfoInv
  BY InfoInitInv, InfoNextInv, PTL DEF UpdateInfoSpec
<1> QED
  BY <1>1, ListedByInv, PTL

=============================================================================
