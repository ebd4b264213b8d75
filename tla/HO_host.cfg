\* The control plane: starts, settings, engine operations, devices, event streams.
SPECIFICATION FairSpec
CONSTANTS
    Subjects = {"daemons", "config", "engine", "api", "devices", "events", "installs"}
    InstallSubjects = {"engine", "ffmpeg", "program", "bundles", "modules"}
    Daemons = {"d1", "d2"}
    MaxMint = 2
    MaxDeath = 1
    VoicePacks = {"en", "en2", "it"}
    PairPacks = {"en-it"}
    LangOf <- MCLangOf
    MaxCalls = 3
    Worlds = {"calm", "faulty", "edited"}
    Requests = {"r1", "r2"}
    Subscribers = {"page"}
    EventBuffer = 1
    MaxProgress = 1
    MaxCatalog = 2
    Registry = {"it", "en", "de"}
    Regions = {"CH"}
    SlugNames = {"a", "b", "c", "ui"}
    Reserved = {"ui"}
    MaxDelay = 3
    Wires <- MCWires
    Edits <- MCEdits
    Configs <- MCConfigs
    Clients = {"c1", "c2"}
    Room = 2
    MaxAsked = 3
    Arrays <- MCArrays
    LabelOf <- MCLabelOf
    Label = "Speakers"
    Rates = {44, 48}
    MaxMoves = 1
    Slugs = {"a", "b"}
    States = {"starting", "running"}
    SubscriberBuffer = 1
    MaxChanges = 3
    Packs = {"en", "fr"}
    EntryOf <- MCEntryOf
    Parts = {1, 2}
    MaxVer = 3
    ProtocolOf <- MCProtocolOf
    FaultPlans <- MCFaultPlans
    Installers = {"setup1", "setup2"}
    MaxCorrupt = 2
    MaxKill = 1
    Platforms = {"posix", "windows"}
    Latest = 3
    UpdateFaults <- MCKillOrOne
    Kinds <- MCKinds
    AudioKinds = 2
    Releases = 2
    DriverFaults <- MCKillOrTwo
    Modules <- MCModules
    Kernels = {61, 62}
    Payloads = 2
    MaxReboot = 1
    ModuleFaults <- MCKillOrFail
INVARIANTS OneDaemonServes ConfigurationIsConsistent ClientsSeeTheTruth LastGoodCopySurvives RecordsTellTheTruth
PROPERTIES  WaitsEnd DevicesAreFollowed
\* Nobody is obliged to call.
CHECK_DEADLOCK FALSE
