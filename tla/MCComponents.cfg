SPECIFICATION MCSpec
CONSTANTS
    m1 = m1
    m2 = m2
    m3 = m3
    VfnPtrs = {v1, v2}
    Ifaces = {i1}
    Plugins = {p1, p2}
    Handlers = {h1}
    FreeEntry = FreeEntry
    MaxIds = 3
    HookMans = {m1, m2, m3}
    Version <- MCVersion
    Orig = Orig
    NumPaths = 2
    Newest = 2
    MaxLevels = 3
    MaxRequests = 2
    Protos = {q1, q2}
    ThunkOwners = {t1, t2, t3, t4}
    PageSize = 6
    ThunkSize = 3
    ThunkAlign = 2
    Initial = 1
    MaxSize = 4
    MaxHolders = 2
    DigitCounts = {3}
    Versions = {0, 1, 2, 3, 5}
    Maxima = {0, 1, 2, 4}
    Elems = {1, 2}
    FirstSize = 2
    MaxLen = 4
    SectorSize = 2
    Objs = {1, 2}
    MaxNodes = 4
    HashKeys = {0, 1, 2}
    HashVals = {0, 1}
    DefaultVal = 0
    InitBuckets = 2
    MaxBuckets = 4
    EncRegs = {0, 1, 4, 5}
    Letters = {97}
    Space = 32
    MaxText = 3
    Names <- MCNames
    LineFiles <- MCLineFiles
    VdfDirs <- MCVdfDirs
    MaxCommands = 1
    Owner <- MCOwner
    Commands = {"say", "meta", "c1", "c2"}
    Engine = "engine"
    MetamodItself = "metamod"
    MaxListed = 2
    MaxLate = 1
    Functions = {"f", "g"}
    NULL = "NULL"
    ProtoInfos <- MCProtoInfos
    Users = {x, y, z}
INVARIANTS
    BoundedByPeak
    HookfuncFindsEntry OneServes HighestVersionServes
    CallsLandInLoadedCode ReadOncePerLevel
    LiveCodeExecutes
    EmittersEncode
    ReadingLoadsWhatIsNamed
    NoCommandStaysBehind
    FoundProtosFit
PROPERTIES
    ImplementsTable
    SwitchesOnlyUp
    ListenerArrives
    SearchAnswers
    ContainersImplement
    PointersStayValid
