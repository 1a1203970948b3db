# A verification project for deskgap-builder

`deskgap-builder` is a fork of electron-builder: a TypeScript monorepo that packs
an Electron (or DeskGap, Proton) application for every platform, publishes the
artifacts and the *update information* that describes them, and -- in
`electron-updater` -- runs inside the shipped application, where it checks for a
new release, downloads it and installs it. This directory holds TLA+ models of the
parts of it that have a state worth arguing about, TLC configurations that check
them on small instances, and theorems about nearly all of them that the TLA+ proof system
checks for every value of their constants.

Paths below are relative to `packages/` of the repository.

| module | models | checked by | proved in |
|---|---|---|---|
| `DownloadCache` | the cache directory of the updater and the downloads that share it | `cache`, `cache_settles`, `cache_cancel_retry` | `UpdaterProofs` |
| `Installer` | `quitAndInstall`, `install`, installation on quit | `updater_parts`, and `updater` as an abstract specification | `InstallerProofs` |
| `Updater` | the check, the cache and the installation together, over runs of the application | `updater`, `updater_quit` | `UpdaterProofs` |
| `DownloadPlan` | which ranges of a new file are copied and which are requested | `updater_parts` | `DownloadProofs` |
| `DataSplitter` | the parser of multipart responses | `updater_parts`, `splitter_split_header` | `SplitterProofs` |
| `DifferentialDownload` | the executor of a plan, its descriptors, the full download it falls back to | `updater_parts` | `DownloadProofs` |
| `MacUpdater` | the proxy server, the native updater's listeners and the event that waits | `updater_parts` | `DownloadProofs` |
| `ReleaseFeed` | the releases builds publish, and the check of each provider that looks for them | `updater_parts` | `DownloadProofs` |
| `Requests` | API requests, redirects, cancellation tokens | `builder_parts` | `PublishingProofs` |
| `AsyncTaskManager` | the list of promises a build waits for | `build` (two instances) | with `Build` |
| `Build` | packs, target builds, publishing tasks, SIGINT | `build` | `BuildProofs` |
| `Publishing` | what is published where: applications, artifacts, update information, the web installer | `builder_parts` | `PublishingProofs` |
| `UpdateInfo` | `latest.yml` and its siblings | `builder_parts`, `info_url` | `PublishingProofs` |
| `GitHubPublisher` | the shared release, uploads, overwriting, retries | `builder_parts` | `PublishingProofs` |
| `AsarPackager` | the header and the bytes of `app.asar`, what stays unpacked | `builder_parts`, `asar_short_name` | `PackagingProofs` |
| `NsisTargets` | the packages that Windows installers share | `builder_parts` | `PackagingProofs` |
| `Targets` | the targets and architectures a command line and a configuration ask for | `builder_parts` | `BuildProofs` |
| `AppFiles` | the files that get into the application, or are copied beside it | `builder_parts` | `BuildProofs` |
| `Packing` | the steps of a pack, and the packs of macOS targets side by side | `builder_parts` | `PackagingProofs` |
| `WindowsSigning` | editing and signing an executable, and the cache of signed ones | `builder_parts`, `windows_unsigned` | `PackagingProofs` |
| `MacSigning` | the keychains of macOS builds on one machine, and the identities found in them | `builder_parts` | `PackagingProofs` |
| `RemoteBuilds` | the build service that all Linux targets share on Windows | `builder_parts` | `PublishingProofs` |
| `Lists` | `Array.filter`, for `UpdateInfo` and `Targets` | with these | `SequenceLemmas` |

## 1. The system

### 1.1 Components

**The updater** (`electron-updater/src`), inside the application of a user:

* *Check* -- `AppUpdater.checkForUpdates`. State: `checkForUpdatesPromise` (a call
  while a check is pending gets the same promise) and `updateInfoAndProvider`. It
  asks a *provider* for the latest `UpdateInfo`, decides whether that is an update
  (`isUpdateAvailable`: version, staging percentage, downgrade) and, with
  `autoDownload`, starts a download.
* *Download cache* -- `AppUpdater.executeDownload` with `DownloadedUpdateHelper`.
  State on disk: `<cache>/pending/` with `temp-<name>`, `<name>` and
  `update-info.json`; in memory: `_file`, `versionInfo`, `fileInfo`,
  `_downloadedFileInfo`. A download first looks for a file it can reuse (one this
  instance remembers, or one `update-info.json` of an earlier run names and whose
  sha512 is right), else it writes the temporary file, renames it and saves the
  info.
* *Download* -- `HttpExecutor.doDownload` streams a response through a digest into
  the file; `DifferentialDownloader` builds the new file from ranges of the old one
  and ranges it requests, one by one or many in one multipart response
  (`DataSplitter`), following the plan of `computeOperations`; whatever goes wrong
  there, NSIS and AppImage fall back to a full download.
* *Installation* -- `BaseUpdater` (flags `quitAndInstallCalled`,
  `quitHandlerAdded`; a handler on quit) with `NsisUpdater.doInstall`, which spawns
  the installer, and `AppImageUpdater.doInstall`, which replaces the running file.
  `MacUpdater` hands the file to Squirrel.Mac through a server on 127.0.0.1 and announces
  it when Squirrel.Mac has it; one field holds the event to announce, for all downloads.
* *Providers* -- one class per kind of server, each with its own sequence of requests to
  find the latest release and its update file; the names it asks for are
  computed on both sides, by the builder when it publishes and here.

**The builder** (`app-builder-lib`, `electron-builder`, `builder-util`):

* *Orchestration* -- `build()` and `Packager.doBuild`: for each platform and
  architecture the application is packed (`doPack`), then the builds of its targets
  start and go on while the next architecture is packed. Promises are gathered by
  `AsyncTaskManager`; a `CancellationToken` is cancelled on SIGINT.
* *Configuration* -- `normalizeOptions` and `computeArchToTargetNamesMap` make of flags and
  lists the targets of each architecture, in arrays that architectures may share.
* *Packing* -- `PlatformPackager.doPack`: file matchers choose the files, walkers
  collect them, `AsarPackager` writes the archive, hooks and signing follow.
  `MacPackager.pack` does it once for each Mac App Store target and, side by side, once for
  all others.
* *Signing on Windows* -- `WinPackager.signAndEditResources`: edit, sign with every
  algorithm, retry; `BuildCacheManager` keeps the signed executable from build to build,
  under a digest of what it was made from.
* *Signing on macOS* -- `createKeychain` makes a keychain named after the project, puts it on the
  search list of the user and imports the certificates; `MacPackager.sign` looks for an identity
  in it; a disposer of the build removes it. Keychains and list are shared with all other builds.
* *Remote builds* -- on Windows, the Linux targets are scheduled with one `RemoteBuilder`, and
  the first that finishes sends all of them to a service.
* *Targets* -- NSIS, AppImage, snap, dmg, ...: mostly command lines of external tools.
  The NSIS targets share the packages of the application they embed
  (`AppPackageHelper`: a promise per architecture, a reference count).
* *Publishing* -- `PublishManager` hears of each artifact, schedules an upload per
  publish configuration and the creation of update information, which is written
  and uploaded when all uploads have ended. `GitHubPublisher` creates or finds a
  release that all uploads share; other publishers are one call.

**The runtime** (`builder-util-runtime`): HTTP requests with redirects, retries and
timeouts, cancellation tokens, version and hash helpers, used by both.

### 1.2 How they interact, and what is hard about it

Everything runs on one event loop, so nothing is preempted: the interleavings are those of callbacks and of code
after an `await`, and of several builds on one machine. What makes them hard is shared state on both sides of an
await (the cache directory and the helper's fields, the lists of the task managers, objects two update
informations share, file descriptors that were closed), work that nobody stops when its promise has been settled
(a cancelled request, the executor of a failed differential download, target builds after a failed pack), and
processes that end anywhere: a crash or a quit of the application during a download, SIGINT or a kill during a
build. And two computations have to agree that nobody runs together: the names a builder publishes and those an
updater asks for; the patterns that copy a file and those that leave it out of the application.

### 1.3 What makes each part correct

* Cache: what is announced and what is held is, on disk, the complete file of the
  release it is said to be (`AnnouncedComplete`, `HeldIsThere`); the check by
  existence only is sound (`InstanceCheckSound`); each download settles
  (`EveryDownloadSettles`).
* Installation: only a complete release is ever run (`NeverDamaged`), a held update
  is installed when the application quits (`InstalledOnQuit`, `InstalledOnQuietQuit`), not many times over
  (`LaunchBound`).
* macOS: what is announced is what Squirrel.Mac has (`MacAnnouncesServed`), nobody listens who
  is not waiting (`ListenersOfPending`), every download ends (`MacDownloadsEnd`).
* Releases: an application finds the last release that was published for it
  (`ReleaseIsFound`).
* Differential download: plan, splitter and executor each rebuild the new file
  (`PlanRebuilds`, `WritesTheTasks`, `DestinationIsNewFile`), and end
  (`CompletesAtEnd`, `DownloadEnds`).
* Requests: cancelling leaves nothing pending and no handler (`CancelEndsCalls`,
  `HandlersOfPending`).
* Build: success means that all was built and uploaded (`ResolvedMeansDone`),
  update information goes out last (`UpdateInfoLast`), the build ends
  (`BuildEnds`).
* Publishing: what was uploaded is there, in one release (`UploadedIsThere`,
  `OneUsableRelease`, `UploadsEnd`); update information lists every artifact, the
  zip first, under names that are served (`ListsArtifacts`); it is published where the application
  asks for it, and so is what it names (`UpdatesAreFound`).
* Configuration: what is built is what was asked for (`TargetsAsAsked`).
* Packing: no file is lost (`NoFileLost`), none of an earlier build gets in
  (`OutputStaysOut`), every target gets an application that is complete
  (`PackedWhole`) and signed as configured (`BuiltAsConfigured`;
  on macOS with the certificates of this build, `SignsWithOwnKeychain`), and is sent to the build
  service (`SentOnce`). The header of the archive leads to the bytes of every file
  (`EveryFileIsFound`); the user's keychains stay on the list, the build's does not stay behind
  (`KeychainsRestored`); a package is unpacked as a whole (`PackagesStayWhole`); a
  package that installers share is there while it is embedded (`PackagesWhileCompiling`)
  and at the end just when it is published (`PackagesAfterwards`).

## 2. How the modules correspond to the code

A definition is named after the function or the field it models wherever the code
has a name for it; `PROJECT.json` gives the file and the lines of each. A step of a
model is what the code does between two awaits or callbacks that something else can
come in between of; what no property tells apart (wording, hashes, URLs, versions
beyond their order) is a model value or left out.

**`DownloadCache`** (`AppUpdater.ts:532-622`, `DownloadedUpdateHelper.ts`,
`httpExecutor.ts`). A *download* is one call of `downloadUpdate`, and `pc[d]` is the
await it is at: `validate` and `exists` (the fields this instance remembers),
`readInfo`, `hash`, `clean` (what an earlier run left), `createTemp`, `request`,
`writing`, `rename` (the task), `renamed`, `saveInfo`, `saving` (`setDownloadedFile`),
`clearing`, `emptying`, `unlinking` (`removeFileIfAny`). Directory entries
(`tempFile`, `updateFile`) name the download that opened the inode last, and
`written` says how far that one came, so that a rename, a truncation or a late write
has the effect it has on a file system. `file`, `versionInfo` and
`downloadedFileInfo` are the fields of the helper. `Cancel` rejects the promise and
leaves the request alive (`late`), because `doDownload` registers no `onCancel`.
`Crash` forgets the memory and keeps the directory.

**`Installer`** (`BaseUpdater.ts`) has the three flags, counts calls and installers,
and reduces the download side to `held`. It is small because it is the abstract
specification of the installation: **`Updater`** extends `DownloadCache`, adds the check
(`checkForUpdates`, `isUpdateAvailable`, `autoDownload`), what `doInstall` does to the
application on Windows and Linux (`app`), and the runs of the application; its
property `InstallerConforms` is `Inst!InstallerSpec` with
`held <- file # None /\ downloadedFileInfo # None`: every step of the updater is a
step of the installer or leaves it alone.

**`DownloadPlan`** (`downloadPlanBuilder.ts`) plans one block of the new file per step;
block maps are sequences of checksums and sizes. Its properties compare the
operations with the bytes the two files have, computed from the block maps
themselves.

**`DataSplitter`** (`DataSplitter.ts`) reads the body of a multipart response in chunks
cut anywhere; a step is a turn of the loop in `handleData`. A byte is what the code can
tell of it: boundary, header, half of the `CRLFCRLF`, dash, or the byte of a range.
`out` is what was written to the new file.

**`DifferentialDownload`** (`DifferentialDownloader.ts`, `NsisUpdater.ts`,
`AppImageUpdater.ts`) models the executor (`at`, `index`, `piped`), the write stream
(`fileOut`, `written`), the promise, and the task of `executeDownload` (`caller`) that
closes the files and downloads the whole file when the promise rejects. A multipart response
that ends too early leaves the executor `unfinished`, with a promise nobody settles. Descriptors
are numbers, the lowest free one is given out, and a stream that goes on after its
descriptor was closed writes to whatever has that number now.

**`MacUpdater`** (`MacUpdater.ts`): a download is one call of `doDownloadUpdate`, `phase` its
place in it, `downloadPromise` its promise; `server` and `response` are what
`createServer` made, `errorListeners` the `reject`s that wait for `"error"` of `nativeUpdater`,
`pendingEvent` is `updateInfoForPendingUpdateDownloadedEvent`. Squirrel.Mac (`native`) is
external: it asks for the file and ends well or, at any time, not.

**`ReleaseFeed`** (`providers/*.ts`, `PublishManager.ts`, `updateInfoBuilder.ts`,
`s3Publisher.ts`) has a builder that uploads one release after another, file by file, and
an application that checks at any time, a request a step (`check.at`); `ChannelNames` and
`UpdateInfoFileName` are the names of the builder, `ChannelFile` is that of the updater.

**`Requests`** (`httpExecutor.ts`, `CancellationToken.ts`): calls with a promise and a
request for every level of redirects, two tokens ("app" and its child "own"), the
handlers on each. **`AsyncTaskManager`** is the manager's own state (`tasks`, `list`,
`errors`, `await`), with no promise of its own; **`Build`** instantiates it twice (for
`Packager.doBuild` and for `PublishManager`), and has the packs, the builds of the
targets (`job`), the publishing tasks, and the main line of `build()` (`main`).

**`UpdateInfo`** (`updateInfoBuilder.ts`) keeps the *objects*: `url` is the field of the
file object of an artifact, `files` the arrays, which tasks share as the code shares
them. **`GitHubPublisher`** (`gitHubPublisher.ts`, `publisher.ts`) has the lazily resolved
release, the state and attempts of each upload, and the server as the publisher sees it:
the releases with the tag and a sequence of assets, of which one page is listed.

**`AsarPackager`** (`asar/*.ts`) goes over the files three times, a file a step: to detect the
directories to unpack (`unpackedDirs`), to make the header (`nodes`, `nextOffset`)
and copy what is unpacked, and to write the bytes. **`NsisTargets`**
(`nsisUtil.ts`, `NsisTarget.ts`, `winPackager.ts`) has the targets, the branch of each for each
architecture, the promise of each package (`job`) and the package on the disk; a
helper is numbered by the architecture for which `createTargets` made it.

**`Publishing`** (`PublishManager.ts`, with the parts of `index.ts`, `updateInfoBuilder.ts` and
`WebInstallerTarget.ts` that call it): `Configs` is `getPublishConfigs` with what it calls, used four
times with the arguments of the four callers; `appUpdate` is the `app-update.yml` of each
architecture, `uploads` what a publisher was given, `infoTasks` the list `updateFileWriteTask`. An update information
has a configuration and a file; `onDisk` says what each file holds, `infoAt` what arrived where. The handlers are
actions of their own, since the configurations are awaited in each. Publish options are records of what
distinguishes them: provider, whether a repository has to be looked up, `${arch}`, `publishAutoUpdate`.

**`Targets`** (`builder.ts`, `targetFactory.ts`, `packager.ts`) is `normalizeOptions`, the map from architectures to
names and the loop that creates targets, one iteration a step. `arrays` holds the arrays of names: two architectures
may have the same one, and `addValue` pushes to it; names are compared as they were written, and are in lower case
(`Normalized`) only when targets are created. **`AppFiles`** (`fileMatcher.ts`, `filter.ts`, `AppFileWalker.ts`,
`fs.ts`) makes the matchers by operators named like the functions, and walks the project a directory a step. A
pattern is a base and what follows it; `MinimatchAll` is the code's loop over them.

**`Packing`** (`platformPackager.ts`, `macPackager.ts`): `app` and `steps` of each application that is packed,
`builds` what the targets were given. **`WindowsSigning`** (`winPackager.ts`, `windowsCodeSign.ts`,
`cacheManager.ts`) follows one executable (`exe`: what it was edited for, its signatures) over builds that may be
killed; `info` and `cacheFile` are the two files of the cache, and `saved` says whether they are of one save that
completed. **`MacSigning`** (`macCodeSign.ts`, `macPackager.ts`) has one or two builds; `keyStep` and
`securityCommands` are where `createKeychain` of each is, `listed` the keychains of the search list when it read it,
`signing` its calls of `sign`. A build that failed goes on with what it had begun. **`RemoteBuilds`**
(`linuxPackager.ts`, `FpmTarget`, `RemoteBuilder.ts`): `waiting` are the targets whose options are still computed,
`toBuild` the lists of the builder, `queue` the architectures it has to send and `sending` the one it sends.

## 3. The runs

| run | distinct states | what it asks | result |
|---|---|---|---|
| `cache` | 2 317 172 | three downloads of three releases, one after another, over two crashes and any cancellation and failure | holds |
| `cache_settles` | 128 586 | does each of two downloads, overlapping or not, settle? | holds |
| `updater` | 1 456 000 to 1 461 000 | check, download and installation of two releases, with one crash; is it an installer as specified? | holds |
| `updater_parts` | 591 327 | the installer with five calls; every plan; every response cut in every way; differential downloads with every failure; macOS; the check against releases as they are published | holds |
| `build` | 339 507 | two builds, with failures and SIGINT anywhere | holds |
| `builder_parts` | 414 966 | requests, update information, uploads, what is published where, archives, installers, targets, files, packs, signing on Windows and macOS and remote builds, each by itself | holds |
| `cache_cancel_retry` | | the claim that `update-downloaded` means a valid file, when a cancelled download is started again | violated |
| `updater_quit` | | the claim that a downloaded update is installed on quit | violated |
| `splitter_split_header` | | does the splitter end, if a chunk ends inside a `CRLFCRLF`? | violated |
| `info_url` | | are the urls in update information those that are served? | violated |
| `asar_short_name` | | the claim that all files of an unpacked package are unpacked | violated |
| `windows_unsigned` | | the claim that `forceCodeSigning` prevents an unsigned application | violated |

Two runs check several small modules side by side (`MCUpdaterParts`, `MCBuilderParts`): a
variable `part`, chosen at the start, says which of them a behaviour is of; the others
stay in one initial state. It is one run instead of many, and each module is
explored as it would be by itself.
The number of states of `updater` depends on which of several symmetric states TLC meets first.

### 3.1 What the properties say

*Cache.* `AnnouncedComplete` is about the step in which a download ends well: the file
at its path is, then, the complete file of the release it was started for. It
needs the interplay of all awaits: the two ways of finding an earlier file, the
truncated info file of a crash, the emptied directory of a failed check, names that
two releases share and files that two names share. `InstanceCheckSound` justifies
the check that looks at nothing but existence; `HeldIsThere` is what the installer
relies on between downloads.

*Updater.* `NeverDamaged`: whatever replaces the application is the complete file of some
release. `InstalledOnQuietQuit`: a quit with exit code 0 that finds the quit handler added,
`quitAndInstall` not called, an update held and no download in progress installs that
update (or, where an AppImage is not run from its file, leaves the application as it is).

*Differential download.* `PlanRebuilds`: the operations, executed,
give the new file byte by byte, and the ranges to request ascend without overlap, as a
multipart response needs. `WritesTheTasks`, `CompletesAtEnd`: the splitter writes that
file whatever the chunks, and has resolved when the response ends.
`DestinationIsNewFile`: a download that ends well left the new file, although the
failed executor may still be writing. Where no publisher is verified (always so of AppImage), it
excepts the case that the full download has the number of the descriptor the old stream writes to, which takes a
file that the application opened in between (`StreamMeetsFullDownload`). `DownloadEnds`: the download does end,
unless its multipart response ended before the splitter had finished (`WaitsForTheSplitter`).

*macOS.* `MacAnnouncesServed` relates the one field that holds the event to the file that
Squirrel.Mac was given, over two downloads and any failure of the file, the response or
Squirrel.Mac itself. `ListenersOfPending` says of the `"error"` listeners exactly whose they are:
one too many would reject a later download, one too few would leave a promise pending, which is
what `MacDownloadsEnd` excludes.

*Releases.* `ReleaseIsFound` is about both ends of the system: the builder resolves a channel and
names files, the updater computes the name to ask for, each from the publish configuration and
by code of its own; in between, a server whose files are replaced one by one. A check with no
upload during it has to end with the last release for the channel of the application; and at any
time a release that is offered has its artifact on the server, since update files go last.

*Requests.* `CancelEndsCalls` and `HandlersOfPending` are stated over all levels of a chain
of redirects and both tokens; between them they say that nothing is left waiting and
nothing leaks.

*Build.* `ResolvedMeansDone` and `UpdateInfoLast` speak of two task managers, the jobs and
the uploads; a task added late or failed early is what would break them.

*Publishing.* `UploadedIsThere` holds although an answer may be lost after its request
took effect; `OneUsableRelease` although all uploads ask for the release at once;
`UploadsEnd` although a name that is taken does not count as an attempt. `UpdatesAreFound` compares
what was put into the application, before there was an artifact, with what was uploaded at the end of
the build: four resolutions of the options, at different times and from different arguments, the policy,
the detection by tokens and repository and the rules of single providers have to agree, and the update information
in a place must be the one that was meant for it: of those that share a file or a place (`Shared`) nothing is said.

*Configuration.* `TargetsAsAsked` compares what the loops build with a definition of what was asked
for that knows nothing of maps and arrays: sets of pairs of an architecture and a target.

*Packing.* `NoFileLost` relates the walk of the application to the walks of all that is copied, whose patterns it
excludes: a file that the patterns of `files` take is in one or the other. `OutputStaysOut` needs the default
patterns to be in the right place of a list in which the last pattern that matches decides; it is about the output
directory of the project, wherever the application is, but for an output below an application directory of its own.
`PackedWhole` is about packs that run side by side, of which one may fail while the other goes on.
`BuiltAsConfigured` follows an executable over several builds: what a build signs, another may take from the cache,
after failures, retries and kills in between; it says nothing of a copy made after a save that was cut off, until
the next save completes, and nothing after three unresolved host names. `SignsWithOwnKeychain` and
`KeychainsRestored` are about the state of the machine that a build starts from, left by builds that failed, were
killed or are still at work. `SentOnce`: all targets finish, one sends for all. `EveryFileIsFound` relates three
passes over the files; `PackagesStayWhole` two of them. `PackagesWhileCompiling` and `PackagesAfterwards` are the
two sides of the reference count.

### 3.2 Bounds, and why they are enough

* Cache: three releases and three downloads. Two releases share a name, two share a
  content, and one differs in both, which are all the ways two releases can be related;
  the third download can meet what the second made of what the first left. Two
  crashes: one leaves a state, another interrupts the recovery from it.
  `MaxCrashes` is a guard of `Crash` only. Downloads are interchangeable, so the safety
  runs use symmetry; `cache_settles`, which checks liveness, does not.
* Updater: two releases, two downloads, one crash, two calls of `quitAndInstall`
  (`MaxCalls`); the second call is the first that can be ignored. The installer alone has
  five calls, and a proof for any number (section 5).
* Plans: two checksums in two sizes, an old file of up to two blocks and a new one of
  up to three, each at two offsets: blocks that repeat, move, vanish, and share a checksum with
  another size. Splitter: plans of up to four tasks with ranges of one or three bytes, a
  boundary of three bytes and a header of one; a chunk may be cut at every byte, so
  longer parts add no way of being cut.
* Differential download: all plans of one or two tasks and one of three, batches of two (the
  code's are of a thousand); one request per range, multiple ranges with an embedded block map, and a publisher to
  verify, each with a file that the application may open and close at any time. A batch that is full, one that is
  not, and a task after a batch occur.
* macOS: two downloads, which may overlap.
* Releases: three sequences of three releases (channels in turn, a patch after a prerelease, a
  prerelease not marked as one), eight settings with every provider, system and kind of
  architecture name, two channels the user may set, and four refused connections
  (`MaxRefusals`), one more than the retries.
* Requests: two calls, three levels with `MaxRedirects` of one: the limit is passed twice.
* Build: a platform with targets of both kinds and another one after it; a pack whose targets
  form a group. Update information: a zip and a dmg, up to three providers of different
  kinds, all channels.
* Publishing: seven `publish` values of the project with every environment (policies, tags, CI, pull requests,
  tokens, repositories) and, in one environment, with four of the platform and three of a target; six
  builds, with one and two architectures, one file for both or one for each.
* GitHub: two uploads, an asset of another name, a page of three assets, and five lost
  answers (`MaxLosses`), which exceeds the four attempts of an upload.
* Targets: three platforms, a host of another architecture, no, one or both of two flags, lists of up to two
  targets of every form (with an architecture in the name, in `arch`, in neither, or an empty `arch`; `default`;
  `dir`; a name in another spelling).
* Files: one project of fourteen files with each kind of path that some pattern treats
  differently, its output in `app/dist`, and the application in the project, in `app` (which has the output in it) or
  in `src` (apart from it); lists of up to two entries, strings or FileSets, one list at a time.
* Packs: targets none of which, one of which and two of which are for the Mac App Store. Signing on macOS: one
  build with every kind of certificate and application, and two builds of one project or of two, at the same
  time or one after the other, each killed anywhere. On Windows: two inputs, two algorithms, three builds
  (`MaxBuilds`: one fills the cache, one damages it, one uses it). Remote builds: two architectures, three
  targets of which two wait for `.git/config`.
* Archives: a main file, four places in a package (among them a directory with a name of one
  letter) and a nested package, every kind of file at each; up to two architectures and all three
  installers for the packages.

### 3.3 What was found

* `cache_cancel_retry`: `AppUpdater.downloadUpdate` is cancelled and started again. The
  cancelled promise has been rejected, but its request goes on: the late response
  truncates the temporary file of the second download, which is then renamed
  and announced, incomplete.
* `updater_quit`: a later check that finds another release empties the pending directory
  (`cleanCacheDirForPendingUpdate`) without clearing `_file` and `_downloadedFileInfo`. A quit
  before that download ends spawns an installer that is gone, and nothing is installed; on
  Linux `AppImageUpdater.ts:77` unlinks the application first, the move throws, and the
  application is gone.
* `splitter_split_header`: a chunk that ends between the two halves of `CRLFCRLF` makes the
  splitter wait for more for ever; the rest of the response is taken for the header.
* `info_url`: with GitHub next to another provider, the name that is safe for GitHub is
  written into the file object both share.
* `asar_short_name`: `filePathInArchive.length > (dir.length + 2)` leaves out a directory
  with a name of one letter right below an unpacked one.
* `windows_unsigned`: after three times "Couldn't resolve host name" the loop of
  `WinPackager.doSign` (`winPackager.ts`) ends without an error. The executable is unsigned, the build
  succeeds although `forceCodeSigning` is set, and the unsigned executable is cached.

## 4. Fairness

Only `cache_settles`, `updater_parts`, `build` and `builder_parts` assume fairness, always weak.

* `FairCacheSpec`: each download, by itself, takes its next step. The code's steps are
  callbacks of the file system, which always answers, and of a request, which ends
  with a response, an error or the timeout of `addTimeOutHandler` (60 s). Electron's `net`
  has no such timeout: there it is an assumption on the network stack. `Cancel`, `StartDownload`,
  `Crash` and the late requests have no fairness.
* `DifferentialSpec`: the start, the executor, the write stream and the caller each go on;
  they are driven by different events, so one of them cannot hold up another. Files of
  the application have no fairness.
* `MacSpec`: each download that was started goes on, and Squirrel.Mac ends what it was asked for, well or
  not. The latter is an assumption on a component outside the repository, without which
  nothing could be promised; starting a download has no fairness.
* `BuildSpec`: some step is taken as long as one is possible. No behaviour
  takes infinitely many steps (a job ends once, a task is published once), so this is
  all that is needed: builds and uploads end, well or not.
* GitHub: the release is listed and created, and each upload goes on.

Deadlock is not checked anywhere: all these systems may come to rest (a download that
settled, a build that ended). Where something must happen, a property says so.

## 5. What is proved

TLAPS checks the forty theorems that are listed here, in seven modules, with lemmas about sequences in an
eighth, for every value of the constants under the assumptions the modules name (`CacheAssumption`,
`BuildAssumption`, ...). These say what constants are: sequences, numbers, names that differ; what
they take from the code is listed at the end of the section. Every safety property of the passing
runs is a theorem, under the premises it states in its formula. Of each invariant, the typed part and what the
property itself says are not mentioned below; the other parts are why it is inductive.

**`InstallerProofs`.** `InstallerTypeCorrect`; `InstallersAreBounded` (`LaunchBound`: at most
half as many installers as calls, plus one); `OneCallOneInstaller`. `LaunchBound` is not
inductive, since it does not say that a process which has used up its installers has its
flag set. `FlagBound` adds that: as long as the process is alive the flag is worth one
call. The last theorem follows from the invariant by arithmetic.

**`UpdaterProofs`**, first about `DownloadCache`. `CacheTypeCorrect` holds for all constants. The other three,
`InstanceCheckIsSound`, `HeldIsComplete` and `WhatIsAnnouncedIsComplete`, assume
`OneAtATime == ~Overlap /\ ~LateWriters`: the application starts no download before the
last one has settled and its request has ended. Without it they are false
(`cache_cancel_retry`; with `Overlap = TRUE` two downloads share the temporary file). The
inductive invariant `IInv` has these parts:

* `Typed` -- types, and a download that began has a release and a name;
* `OneActive` -- at most one download is between its start and its end;
* `LateAlone` -- a request that outlives its download belongs to one that is on its
  way to fail, or failed, and no other download is running or late;
* `Relies` -- what a download relies on at its await: what it has written, and which
  entry names it;
* `WholeFiles` -- no file was written by two requests (`dirty`), and an entry under a final
  name was written completely by the download it names;
* `HelperAgrees` -- `file` and `versionInfo` are set and cleared together, and the file they
  name is missing only while a download is running;
* `InstanceCheckSound`.

`WholeFiles` is why a rename is safe, `HelperAgrees` why existence is enough of a check;
neither is inductive without the other parts, since only `OneActive` and `LateAlone` say that nobody
else opens the temporary file. `AnnouncedComplete` is an action property and
follows from the invariant with a case on the two steps that announce (`WhoAnnounces`).

Then about `Updater`, also under `OneAtATime`: `NothingDamages` (`NeverDamaged`), `QuietQuitInstalls`
(`InstalledOnQuietQuit`) and `UpdaterImplementsInstaller` (`InstallerConforms`: the initial states
are initial states of `Installer` under the mapping, and each action is an action of it or a
stutter). `OneCallStartsOneInstaller` is the theorem about `Installer` carried over to the updater
by that refinement. `IInv` is *not* an invariant of `Updater`: an AppImage moves the update file
away while the helper goes on holding it, so that `HelperAgrees` and `InstanceCheckSound` break. What
remains in any case is `WritingInv`, the part about what is written; `UntouchedWithoutCall` keeps the
whole of `IInv` until `quitAndInstall` is called in a run, and `NothingInMemory` gives it back
to the next run. `HoldsWhenSaving` says that a download about to be announced is held, which is why
a step that announces is a step of the abstract installer.

**`BuildProofs`**: `ResolvesWhenDone` and `InfoGoesOutLast`, for any plan of packs and targets. Both
rest on two task managers forgetting nothing. `BuildsSeen` says it of `doBuild`: a build that
runs, or its group, is among the promises to await, and a failure was seen or will be by the group.
`UploadsSeen` says it of `PublishManager`: what an artifact needs is running and awaited, or
done, or an error is kept. `PacksStarted`, `BuiltWhenAwaited` and `DoneWhenAwaited` carry that
along `build()`; `AnnouncedLate` covers the cancelled builds, of which all others say nothing.
`OnlySigIntLetsTheHookIn` says that SIGINT is the only way for `afterAllArtifactBuild` to run before all is
built (section 6).

`EarlierOutputStaysOut` (`OutputStaysOut`) and `NothingIsLost` (`NoFileLost`) are about `AppFiles`, for any trees,
patterns and file sets. What a list of patterns says of a path is a fold over it; `LastDecides` says it without one:
some pattern lets the path in, and none after it takes it out again (`Decided`). That is enough for the first
theorem (of an application in the project or apart from the output): only patterns that cannot let the output in
(`Harmless`) stand behind the one that excludes it, and what is in the application was accepted by a main walk
(`TakenAccepted`). The second needs the walks to be complete: `FilesInv` counts those that are done (`Walked`), each
of which has taken all it was to take (`Finished`), while for each file of the current one that is still missing, a
directory on the way to it is still to be read (`OnTheWay`). A file that only the exclusion of what is copied keeps
out of a main walk is accepted by the walk of the matcher that excludes it.

`BuiltAsAsked` (`TargetsAsAsked`) holds for any lists of targets, flags and hosts. `TargetsInv` goes phase by
phase. The map of architectures to arrays is `WellFormed` (an entry per architecture, no name twice in an
array); the names of an architecture are those wanted for it by the targets so far (`Filled`); and only the
architectures of a set `Share` an array -- the empty set, or that of the flags while no target of the list has
architectures of its own, where sharing makes no difference. When the map is done, its pairs are those asked for
(`Planned`), and what is built is what the entries passed say (`BuiltSoFar`), each once if no two names of an entry are
spellings of one, or `default` (`AllDiffer`). One step adds a target for several
architectures, which is a fold (`AddForEach`): the lemma about adding one name (`Added`) is carried through it
by `FoldIs`.

**`PublishingProofs`**: `DoneIsInTheRelease` (`UploadedIsThere`) and `UploadsShareTheRelease`
(`OneUsableRelease`) for any number of uploads and assets, of any page size, from `ReleaseHeld` (uploads are
under way only to the release the `Lazy` has) and lemmas on sequences of assets. `TargetsAreSentOnce`
(`SentOnce`), from `OneRequestEach` (a target in the lists is in the queue, in a request, or came late) and
`BuildingUntilSent` (somebody is building as long as something is to be sent). `ApplicationsFindUpdates`
(`UpdatesAreFound`) for any publish options: `AppUpdateKnown`, `InfoOfScheduled`, `UploadsOfScheduled` and
`NothingLeft` say what each of the four resolutions of the options has left; that they agree is the lemma on
`PublisherLists`, about operators. `InfoFiles` (a file holds an update information that was written to it) and
`InfoArrived` (the place of one that shares nothing has got it) are about the files. The four exceptions are in
the formula. `NoHandlerIsLeft` and `CancelReachesAll` are about `Requests`. `OneOpen` (a
call has one open request, the last, whose promise is pending) ties requests to promises, `OnOwnToken` and
`LinkKept` tie handlers to the tokens: without the link a child would not learn that its parent was cancelled.
`UpdateInformationIsComplete` (`ListsArtifacts`), for any artifacts, configurations and channels: the tasks are
one for each artifact and file to write (`TasksFor`, as a set that the sequence `Enumerates`), and before they
are merged each array has the file of its own artifact (`NotMerged`), afterwards the info of each file has all
of them, with the one it is named for, which is a zip if there is one, first (`Merged`). That arrays are shared,
as the code has it, is why `IsComplete` claims that no file is there twice for `OneFile` only.

**`DownloadProofs`**: `EachFileAnnouncedOnce` and `ListenersAreThoseNeeded`
(`MacAnnouncesServed`, `ListenersOfPending`) for any number of downloads; `EventsOnce` and `OneAtOnce` relate
the field with the event to what was announced, for downloads that overlap and those that do not.
`PlansRebuildFiles` (`PlanRebuilds`) holds for block maps of any length: `DownloadsBehind` keeps every requested
range behind what is planned, and each block that is added, as an operation of its own or to the end of the
last one, adds its own bytes to what the operations make of the files (`BlockIsAdded`). That the blocks of a map
lie one after the other at their offsets is induction over the map. It is done by the least number at which a
function over `0..n` goes wrong (`UpTo` in `SequenceLemmas`), as is what the fold of the community modules makes
of a sequence (`StepByStep`): the library's induction theorems take an operator, which no prover here can
instantiate, so the lemmas take a set of numbers in its place. `PlansSuitTheSplitter` ties the modules together: every
plan is a task list as `SplitterAssumption` and `DifferentialAssumption` have it, each range of at least one byte,
and within the old file or the new one (`RangesInFiles`). `DownloadLeavesTheNewFile`
(`DestinationIsNewFile`) holds for all settings. `OpenFor` and `Numbers` follow the descriptors: as long as the
application has opened nothing, the full download gets the number of the old file once `closeFiles` has run, so the
stream that goes on finds the number of the new one closed; `DestinationGrows` is what is in the file then, as long
as the two numbers differ. If they are one, either a signature is verified, or it is the exception of the property.
`ApplicationsFindReleases` (`ReleaseIsFound`) holds for any releases, settings and channels. The lemma `NamesAgree`
says that the builder and the updater compute one name for the update file of a channel;
`FilesInOrder` that all releases but the last are complete and that the artifacts come first; `FoundSoFar`
is what a check that nothing disturbed knows between its requests.

**`SplitterProofs`**: `SplitterWritesTheFile` (`WritesTheTasks`) and `SplitterFinishes`
(`CompletesAtEnd`), for task lists, boundaries and headers of any length and any chunks. They assume
`~SplitHeaders`: no chunk ends between the halves of a CRLFCRLF (`splitter_split_header` is the run for
chunks that do). Where parts and their data begin in the response, and how much of the new file is written by
then, is one *layout* (`IsLaidOut`); `LayoutIs` says that every task list has one, by recursion over the parts.
`SplitterInv` says for one layout where what was received ends -- in the boundary before a part
(`EndsInBoundary`), in its header, in its data, or in a chunk the loop is still at (`AtPart`, `AtData`) -- and that
what was written is in each case as much of the file as the layout says there. A chunk or a turn of the loop
leads from one case to another, with one lemma for each. That no byte is written twice, or between two others,
is part of it: what was written is always the beginning of the file.

**`SequenceLemmas`** has what these and other proofs about data need: induction and recursion over `0..n`
(`UpTo`, `StepByStep`), the least and the greatest position of a set, where `FlattenSeq` puts its sequences
(`Joins`), what a filter keeps (`KeptIs`), that a fold preserves what each of its steps does (`FoldIs`), when a
sequence has each element of a set once (`Enumerates`), and paths that start with others (`Starts`).

**`PackagingProofs`**: `EveryTargetGetsAWholeApp` (`PackedWhole`): only cancellation cuts a pack
(`CutByCancelOnly`), and the loop passes a MAS target when it is signed. `BuildsAsConfigured` (`BuiltAsConfigured`)
for any number of builds: `SignsItsInput` says which signatures the executable has after each algorithm, tried again
or not, and `CachePaired` that the two cache files belong together from the end of a save (of a signed executable)
to the first write of the next. The exceptions, three unresolved host names and a copy after a save that was cut
off, are in the formula. `PackagesThereWhileCompiling` and `PackagesRightAfterwards`: the count of a helper is that
of the targets which have not released it (`CountsUsers`), what it is to do with a package is settled by whoever got
it (`GotPackage`), and what it made stays while used and is gone afterwards (`StaysWhileUsed`, `GoneAfterUse`).
`SignersUseOwnKeychain` and `KeychainsAreRestored` for any builds on a machine: `ListIsWhole` (the list a build is
about to set has the user's keychain), `SignersWait`, `EndedInOrder`, `NoneLeft`, and `Alone`, which follows the
keychain of a build that runs by itself through `createKeychain`. `EveryFileIsWhereTheHeaderSays`
(`EveryFileIsFound`): there are starts (an existential over functions from positions, chosen as the header is made)
such that each node that is packed has the start of its file (`NodesAreRight`), the starts follow each other
(`StartsFollow`), and the bytes written so far are at them (`BytesInPlace`): the two loops agree since they leave
out the same files. `PackagesAreKeptWhole` (`PackagesStayWhole`) needs `KeptWhole`, and that the first pass has
found the packages before the second asks for them (`PackagesDetected`).

What the assumptions take from the code: names of files belong to releases (`CacheAssumption`); each build of a
target is of one pack (`BuildAssumption`); architectures are asked for once (`RemoteAssumption`); keychains of the
user are no project's (`MacSigningAssumption`); a link and a file of an application are not in one place, and the
files of a package are in one file set (`AsarAssumption`, `PackagesAssumption`); plans are sequences of copies and
downloads, batches are not empty (`DifferentialAssumption`), and each is of at least one byte (`SplitterAssumption`:
a block is never empty; `PlansSuitTheSplitter` proves it of the planner); no file is below another one, and the
output directory is not the project itself (`AppFilesAssumption`); default targets are distinct, in lower case, and
none is `default`, and the targets of a command line have no `arch` (`TargetsAssumption`). TLC evaluates all of them
on the runs' constants.

Some proofs corrected the models. `UpdatesAreFound` did not have its third exception, an empty `publish` list,
before its proof asked for it (section 6); the cases of which identity fits which purpose overlapped in
`MacSigning`; `GitHubPublisher` deleted an asset by its name and not by its id. `NoFileLost` did not except a
FileSet of `files` with a `from`, whose paths are compared with patterns relative to the project; `NamesOutput`
did not count a pattern for a directory the output is in; and a target with `arch: []`, which the loops build
for no architecture, had been asked for by `TargetsAsAsked`.

## 6. What is only model-checked, and what does not hold

Liveness is checked by TLC only, on the bounds of section 3.2: `EveryDownloadSettles`, `DownloadEnds`,
`MacDownloadsEnd`, `BuildEnds` and `UploadsEnd` need fairness and `ENABLED`, and neither is in the reach
of the provers here. So are the statements that runs show to be violated: a counterexample needs no proof.
`AsyncTaskManager` has no properties of its own: what the two managers of a build remember is part of `BuildInv`.

These statements do not hold. They are left out of the passing runs, or have a premise in them;
a formula is named if the module has it:

* two downloads at the same time (`Overlap = TRUE`): they share `temp-<name>`, so
  `AnnouncedComplete` fails as after a cancellation;
* `OneInstaller`: an ignored `quitAndInstall` resets the flag that made it be ignored;
* that a differential download without a publisher to verify always leaves the new file: after an error status the
  handler goes on to pipe (`DifferentialDownloader.ts:201`), into a descriptor number that was closed, which the
  full download may have got if the application opened a file in between. That is the setting of every AppImage and
  of NSIS applications that are not signed; `DestinationIsNewFile` excepts the case (`StreamMeetsFullDownload`);
* that a download always ends: if a multipart response is over before the splitter has finished, nothing happens any
  more, since only `error` is listened to (`multipleRangeDownloader.ts:94`) and the splitter has no `_final`.
  `DownloadEnds` excepts it (`WaitsForTheSplitter`); `splitter_split_header` is a response that leads there;
* `RedirectsBounded`: the count of redirects is handed on unchanged (`httpExecutor.ts:94`);
* `UploadsEnd` with more assets than fit on a page (`gitHubPublisher.ts:152`): the
  upload posts and lists for ever;
* `HookAfterAllBuilt`: after SIGINT the hook runs though not all was built (`index.ts:62`);
* that `ListsArtifacts` lists each file once, with more than one channel or provider: they share an
  array and each merge adds to it. A third configuration of the same provider gets no file
  at all (`updateInfoBuilder.ts:146-151`);
* `PackagesWhileCompiling` without `OneHelper`: if portable is first asked for
  with a later architecture than nsis, it has a helper of its own that writes the same file and
  deletes it;
* `MacAnnouncesServed` with downloads that overlap: the second resets the event, and
  Squirrel.Mac's `update-downloaded` for the first announces nothing, or the second;
* `DraftsStayHidden`, and `ReleaseIsFound` for prereleases from private repositories: the list of releases
  has drafts, and `find(it => it.prerelease) || version[0]` prefers any prerelease to a newer release
  (`PrivateGitHubProvider.ts`);
* that a target is built once however it is spelled: `nsis` and `NSIS` stay two names in `addValue` and are one
  target when `targetFactory.ts:71` has put them in lower case (`TwiceAsked`);
* `OnlyConfiguredArchs`: `--x64 --ia32` without a target share one array, so a target that is
  configured for one of them is built for the other as well;
* `NoFileLost` for an application, or a FileSet of `files`, in a directory of its own, whose paths are compared
  with patterns relative to the project; with a `!` in the filter of an extra FileSet that has a `from`
  (`path.join` leaves it in the middle); and with a `!` before an extra directory with a dot in its name;
* `OutputStaysOut` with a FileSet in `files`, or strings of the platform beside others: the default
  patterns go to the first matcher only. `["a", {from: ..}, "!b"]` even makes a FileSet of `!b` alone,
  which takes everything else. Nor of an application in a directory of its own with the output in it (`app/dist`):
  the pattern is relative to the project (`fileMatcher.ts:156`), the walk to the application, and the output gets
  in; so it does from a directory whose name begins with a dot;
* `PackedWhole` after SIGINT: `doPack` just returns, and its caller hands a half-packed
  application to the targets;
* `AllScheduledInTime` without a homepage: `finishBuild` waits for the options of its own target only;
* `EverySignerSigns`: of two builds that make keychains at a time, one takes that of the other off
  the search list (a comment in `macCodeSign.ts:92` says as much), and codesign fails;
* `CertificatesGone`: a keychain stays behind, with its certificates, if `createKeychain` fails after
  it was made, or is not done when a MAS application fails and ends the build;
* `UpdatesAreFound` for a target with a `publish` of its own: `app-update.yml` has that of the platform;
  for one installer of two architectures with `${arch}` in the options, which it gets without;
  and for `publish: []` in a GitHub repository with a token, where `app-update.yml` names GitHub and
  update information is uploaded, but no artifact: `getPublishConfigsForUpdateInfo`
  (`PublishManager.ts:248`) takes an empty list for one that names GitHub, and nobody else does. And for
  update informations that share a file: on Windows and macOS both architectures of a target have
  one `latest.yml` or `latest-mac.yml` (`updateInfoBuilder.ts:68, 146`). If `${arch}` in the options of S3 makes two
  configurations of them, the tasks are not merged (line 192) but written to that file side by side, and S3 and
  Spaces upload what is at its path (`BaseS3Publisher.ts:28`): the place of x64 can get the information
  that lists the arm64 zip;
* `BuiltAsConfigured` for a copy from a cache whose last save was cut off: `info.json` and the executable are written
  in parallel (`cacheManager.ts:70`), so a kill or an error leaves the digest beside a part of an executable, or
  beside that of another build, and a later build takes it;
* `ForcedMeansSigned` (section 3.3);
* `PackagesAreFound`: `WebInstallerTarget.ts:26` hands the whole configuration to `getPublishConfigs` as
  the options of the target, and no architecture. The url in the installer is of the `publish` of the
  project even if `win` or `nsisWeb` has another one, where the packages go; and `/${arch}` is dropped
  from it, while the path of the packages has it. `nsisOptions.ts:189` says that the url is computed
  from the publish configuration;
* `NeverFailsToPublish`: with `github` (or a token in the environment), an unknown repository and
  `publish: never`, the resolved configuration is `null`. `app-update.yml` gets no provider, and
  `createUpdateInfoTasks` fails the build with a `TypeError`, although "error should be ignored because
  publish: never" (`PublishManagerTest.ts:101`);
* `NullMeansNothing`: `getGlobalPublishConfigurations` takes `publish: null` for no `publish` and looks for
  tokens, so that what `afterAllArtifactBuild` returns is published, and nothing else, although
  `PublishManager.ts:361` says that null means not to publish.

Other things seen on the way and in no model: `allowDowngrade` admits older versions on any
channel (`AppUpdater.ts:329`, unlike its comment at line 50); a link
in a nested `node_modules` gets a target relative to that directory, while links in an
archive are resolved from its root (`AppFileWalker.ts:47`, `asar.ts:106`); differential
downloads do not look at the cancellation token. In code the modules map, but which no property
is about:

* an error of Squirrel.Mac rejects every download that listens, and is emitted by the updater
  besides; before the response has finished it leaves the server open (`MacUpdater.ts:119`); a failed
  `stat` leaves the event set;
* a kill during `BuildCacheManager.save` can leave a truncated `info.json`, which fails each later build until
  it is removed;
* `windowsCodeSign.ts:174` throws the error of the first attempt although the second one signed;
* `signAndEditExecutable: false` skips `forceCodeSigning` together with the signing;
* a MAS target that fails leaves `nonMasPromise` unawaited; `[mas, mas-dev]` packs an application that
  nothing uses; a MAS application is signed as a Developer ID application first, and `afterSign`
  runs before it is signed for the store;
* a target keeps the output directory of the first architecture that names it;
* `"!**/*.{exts"` (`fileMatcher.ts:171`) lacks its closing brace, so that the extensions to exclude are never
  excluded; a FileSet of a directory without a filter is both packed and copied;
* in CI, or with `publish: always`, a project of a GitHub repository without tokens and `publish` uploads no
  artifacts, but its update information has GitHub as its default: the build fails for the token that is
  missing, at its very end (in `Publishing`: `PublishInfo`);
* `repo: "owner/name"` without an owner takes the second part for the owner and leaves `repo` as it
  is (`PublishManager.ts:472-476, 513`).

## 7. Abstractions, and what is not modelled

* The file a web installer downloads beside itself (`packageFile`) is not in `DownloadCache`.
* Semver, the staging id, feeds and their parsing are data: a provider answers with a release.
* `DifferentialDownload` takes a multipart response apart in one step: all of its parts, other bytes, an error of the
  splitter, or a splitter that waits on. How a response leads to one of these is `DataSplitter`.
* `downloadToBuffer`, progress, proxies, and the digest inside a pipe are not modelled.
* `Build` has a pack as one step; its steps are in `Packing`, without their contents, and the files in
  `AppFiles`. Not modelled of these: node modules (an external tool collects them), symbolic links, transformers,
  `electron-compile`, a prepackaged application, macros in patterns, FileSets in the options of a platform,
  an explicit empty filter, the order of the files in a directory. Targets are jobs; what they run is
  outside the repository.
* `ReleaseFeed`: files are uploaded to a generic server by the author, in any order; parsing, release
  notes, the urls of files and staging are not modelled, and channels are set for
  generic and S3 only (the other providers ignore them).
* `RemoteBuilds`: the service and its download are a request that ends well or not. `WindowsSigning`: the
  sign tool is external, and only the executable is followed; its certificate is input. `MacSigning`
  has builds with a certificate of their own (`cscLink`): signing with what the user's keychains have,
  `CSC_NAME` and entitlements are not modelled.
* Reading a configuration and `extends` are not modelled.
* `Publishing` follows a build until it fails; cancelling it is in `Build`. Linux, whose AppImage
  writes `app-update.yml` by itself, options that a provider refuses, and publishers other than those of
  the repository are not modelled. An update information is written at once: a file in which two
  concurrent writes are mixed, or one that is read half-written, is not a state of the model; nor are
  the further files of `generateUpdatesFilesForAllChannels`.
* Two machines that publish at once are not modelled: each creates a draft.
* The temporary files of targets that run on after a failed pack are not modelled.
* Names of files are model values; that GitHub replaces characters in them is `safe`.
* S3, Spaces and the snap store are one call of a binary that is not in the
  repository. Forge makers are thin calls of `build()`.

## 8. Plan

What is left, the most consequential first:

1. *Proofs* -- no safety property of a run is left. What could still be proved is what the liveness properties
rest on: that the counts of retries, of `UploadsEnd` and of the requests of a download only go down. 2.
*Composition* -- a plan of `DownloadPlan` as the tasks of `DataSplitter`; `Publishing` with `GitHubPublisher` in
place of its one-step upload; an abstract "a build publishes what it made, information last" that `Build`
implements; `AppFiles` in front of `AsarPackager`. 3. *Updater* -- the package of a web installer in
`DownloadCache`. 4. *Configuration* -- merging a configuration with its parents; cancellation in `Publishing`.
5. *Packing* -- node modules, the elevate helper, which architectures of a build share.
