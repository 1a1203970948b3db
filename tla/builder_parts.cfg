SPECIFICATION PartsSpec
CONSTANTS
    upload = upload
    query = query
    Calls <- TwoCalls
    OwnCalls <- OneOwn
    MaxRedirects = 1
    MaxLevel = 3
    zip = zip
    dmg = dmg
    Artifacts <- Both
    Zips <- OneZip
    Configurations <- OneToThree
    Channels <- SomeChannels
    installer = installer
    updateInfo = updateInfo
    older = older
    Uploads <- NewFiles
    Others <- OldFiles
    PageSize = 3
    ReleaseType = "draft"
    Creates = TRUE
    MaxLosses = 5
    FileSets <- SmallApps
    ShortNames = {"d"}
    Orders <- SmallOrders
    Inputs = {"i1", "i2"}
    Hashes <- TwoHashes
    SignSettings <- SomeSignSettings
    MaxBuilds = 3
    Partial = Partial
    None = None
    PackSettings <- SomePacks
    MasTargets = {"mas", "mas-dev"}
    Archs <- TwoArchs
    RemoteSettings <- ThreeRemote
    NoArch = NoArch
    TargetRequests <- SmallRequests
    AllArchs <- ThreeArchs
    KnownTargets <- TargetNamesKnown
    LowerCase <- InLowerCase
    DefaultTargets <- TwoDefaults
    Unspecified = Unspecified
    FileSettings <- SmallProjects
    FileNames <- ProjectNames
    OutDir <- Dist
    BuildResources <- BuildDir
    Dotted = {"package.json", "b.d", ".git"}
    Hidden = {".git"}
    Unpacked = {"linux-unpacked"}
    ExcludedNames = {".git"}
    NoFrom = NoFrom
    mac1 = mac1
    mac2 = mac2
    k1 = k1
    k2 = k2
    MacBuilds <- TwoMacBuilds
    KeySettings <- SomeKeySettings
    Login = Login
    Roots = Roots
    Absent = Absent
    NotSet = NotSet
    Null = Null
    AnyArch = AnyArch
    PublishSettings <- SomePublishSettings
INVARIANTS CancelEndsCalls HandlersOfPending ListsArtifacts
INVARIANTS UploadedIsThere OneUsableRelease EveryFileIsFound PackagesStayWhole
INVARIANTS PackagesWhileCompiling PackagesAfterwards BuiltAsConfigured PackedWhole SentOnce
INVARIANTS TargetsAsAsked NoFileLost OutputStaysOut SignsWithOwnKeychain KeychainsRestored
INVARIANT UpdatesAreFound
PROPERTY UploadsEnd
CHECK_DEADLOCK FALSE
