----------------------------- MODULE UpdateInfo -----------------------------
(***************************************************************************)
(* updateInfoBuilder: the update information an electron-updater reads,    *)
(* one file for each publish configuration and channel.  Every artifact    *)
(* adds its tasks when it has been hashed, in any order; at the end those  *)
(* of one file are merged and the files are written.  JavaScript shares    *)
(* objects: an artifact has one file object, and the tasks of its channels *)
(* have one array of file objects.                                         *)
(***************************************************************************)
EXTENDS Lists

CONSTANTS
    Artifacts, Zips,
    Configurations,  \* the lists of providers that "publish" may name
    Channels         \* the channels of a version, and whether all are generated:
                     \* a set of <<channel, generateUpdatesFilesForAllChannels>>

Providers == {"github", "bintray", "s3", "spaces", "generic", "custom", "snapStore"}

ASSUME UpdateInfoAssumption ==
    /\ Zips \subseteq Artifacts
    /\ Configurations \subseteq Seq(Providers)
    /\ Channels \subseteq {"latest", "beta", "alpha"} \X BOOLEAN

VARIABLES
    providers, channel, \* the configuration, which does not change
    safe,        \* the artifacts whose name GitHub would change (safeArtifactName)
    muted,       \* the configurations with publishAutoUpdate false
    done,        \* artifacts whose tasks were created
    url,         \* of each file object: the artifact's "own" name or the "safe" one
    files,       \* the arrays of file objects: <<a, 0>> the shared one of artifact a,
                 \* <<a, n>> the copy for configuration n
    tasks,       \* updateFileWriteTask: [file, info] records
    merged,      \* file |-> the info it is written from, once merged
    written      \* file |-> what was written

setup == <<providers, channel, safe, muted>>
infoVars == <<setup, done, url, files, tasks, merged, written>>

UpdateInfoInit ==
    /\ providers \in Configurations /\ channel \in Channels
    /\ safe \in SUBSET Artifacts /\ muted \in SUBSET DOMAIN providers
    /\ done = {} /\ tasks = <<>>
    /\ url = [a \in Artifacts |-> "own"]
    /\ files = [i \in {} |-> <<>>]
    /\ merged = <<>> /\ written = <<>>

-----------------------------------------------------------------------------
\* createUpdateInfoTasks

ChannelNames(n) ==
    IF channel[1] = "alpha" \/ providers[n] = "github" \/ ~channel[2]
    THEN <<channel[1]>>
    ELSE IF channel[1] = "beta" THEN <<"beta", "alpha">> ELSE <<"latest", "alpha", "beta">>

Dir(n) == IF n = 1 /\ providers[n] # "bintray" THEN "out" ELSE providers[n]

\* GitHub gets an array of its own, of the same file object.
Copies(a, n) == a \in safe /\ providers[n] = "github"

Info(a, n) == <<a, IF Copies(a, n) THEN n ELSE 0>>
Task(a, n, ch) == [file |-> <<n, ch>>, info |-> Info(a, n)]

\* A file that a configuration before it has is not created again.
Created(n, ch) == \E k \in 1..(n - 1) : Dir(k) = Dir(n) /\ ch \in ToSet(ChannelNames(k))

New(a, n, ch) == IF Created(n, ch) THEN <<>> ELSE <<Task(a, n, ch)>>
TasksOf(a, n) == FlattenSeq([k \in DOMAIN ChannelNames(n) |-> New(a, n, ChannelNames(n)[k])])
Tasks(a) == FlattenSeq([n \in DOMAIN providers |-> TasksOf(a, n)])

\* newFiles[0].url = event.safeArtifactName
Url(a) == IF \E n \in DOMAIN providers : Copies(a, n) THEN "safe" ELSE "own"

CreateTasks(a) ==
    /\ a \notin done /\ merged = <<>>
    /\ done' = done \union {a}
    /\ url' = [url EXCEPT ![a] = Url(a)]
    /\ files' = [i \in DOMAIN files \union {<<a, 0>>} \union {Info(a, n) : n \in DOMAIN providers} |->
                    IF i[1] = a THEN <<a>> ELSE files[i]]
    /\ tasks' = tasks \o Tasks(a)
    /\ UNCHANGED <<setup, merged, written>>

-----------------------------------------------------------------------------
\* writeUpdateInfoFiles

Unsorted(ts) == ts                                                   \* mutant

\* By files[0].url; the file object of an array is that of its artifact.
Sorted(ts) ==
    LET zips == {t \in ToSet(ts) : t.info[1] \in Zips}
    IN  Filtered(ts, zips) \o Filtered(ts, ToSet(ts) \ zips)

With(f, x, y) == [z \in DOMAIN f \union {x} |-> IF z = x THEN y ELSE f[z]]

\* The first task of a file stays, the array of each other is added to its array.
AddTask(m, t) ==
    IF t.file \in DOMAIN m.of
    THEN LET joined == [m.files EXCEPT ![m.of[t.file]] = @ \o m.files[t.info]]
         IN  [m EXCEPT !.files = joined]
    ELSE [m EXCEPT !.of = With(@, t.file, t.info)]

Merge ==
    /\ done = Artifacts /\ merged = <<>>
    /\ LET m == FoldLeft(AddTask, [of |-> <<>>, files |-> files], Sorted(tasks))
       IN merged' = m.of /\ files' = m.files
    /\ UNCHANGED <<setup, done, url, tasks, written>>

Path(info) == <<info[1], IF info[2] = 0 THEN "own" ELSE "safe">>

Write(f) ==
    /\ f \in DOMAIN merged \ DOMAIN written
    /\ f[1] \notin muted
    /\ LET own == files[merged[f]] IN
       written' = With(written, f, [files |-> [k \in DOMAIN own |-> <<own[k], url[own[k]]>>],
                                    path |-> Path(merged[f])])
    /\ UNCHANGED <<setup, done, url, files, tasks, merged>>

UpdateInfoNext ==
    \/ \E a \in Artifacts : CreateTasks(a)
    \/ Merge
    \/ \E f \in DOMAIN merged : Write(f)

UpdateInfoSpec == UpdateInfoInit /\ [][UpdateInfoNext]_infoVars

-----------------------------------------------------------------------------
\* The name an artifact is uploaded under: GitHubPublisher alone uses the safe one.
ServedName(a, n) == IF a \in safe /\ providers[n] = "github" THEN "safe" ELSE "own"

(***************************************************************************)
(* Every url of an update information is the name under which its provider *)
(* serves the artifact (HttpPublisher.upload), so that the updater finds   *)
(* what was published.                                                     *)
(***************************************************************************)
UrlIsServedName ==
    \A f \in DOMAIN written : \A k \in DOMAIN written[f].files :
        LET e == written[f].files[k] IN e[2] = ServedName(e[1], f[1])

Alone == Len(providers) = 1

\* No file of a configuration before n is in its directory.
HasOwnFiles(n) == \A k \in 1..(n - 1) : Dir(k) # Dir(n)

(***************************************************************************)
(* In whichever order artifacts were hashed, and whatever arrays were      *)
(* shared: no artifact is missing in a file; "zip must be first and zip    *)
(* info must be used for old path/sha512 properties", if there is one;     *)
(* every configuration has a file on every channel it generates, unless    *)
(* one before it writes to its directory (as the third of github, s3 and   *)
(* s3); with one configuration the urls are the names it serves; and with  *)
(* one configuration and one channel a file lists each artifact once (the  *)
(* channels of a version share an array of files, and so do providers but  *)
(* GitHub: each merge adds to it what it has already).                     *)
(***************************************************************************)
ListsArtifacts ==
    /\ Alone => UrlIsServedName
    /\ \A f \in DOMAIN written :
           /\ written[f].path[1] = written[f].files[1][1]
           /\ Zips # {} => written[f].files[1][1] \in Zips
           /\ \A a \in Artifacts :
                  LET listed == {k \in DOMAIN written[f].files : written[f].files[k][1] = a} IN
                  listed # {} /\ (Alone /\ Len(ChannelNames(1)) = 1 => Cardinality(listed) = 1)
    /\ merged # <<>> =>
           \A n \in DOMAIN providers : \A ch \in ToSet(ChannelNames(n)) :
               HasOwnFiles(n) => <<n, ch>> \in DOMAIN merged
=============================================================================
