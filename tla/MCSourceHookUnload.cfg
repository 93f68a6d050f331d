SPECIFICATION Spec
CONSTANTS
    v1 = v1
    v2 = v2
    i1 = i1
    p1 = p1
    p2 = p2
    m1 = m1
    m2 = m2
    VfnPtrs = {v1, v2}
    Objects = {i1}
    VP = VP
    Plugins = {p1, p2}
    Unloadable = {p2}
    Handlers = {h1}
    HookMans = {m1, m2}
    Version <- MCVersion
    OwnerOf <- MCOwner
    Orig = Orig
    FreeEntry = FreeEntry
    NoVfn = NoVfn
    None = None
    Odd = {v1}
    Sites <- PreSites
    IdleOps = {"add", "call", "shcall", "unload", "load"}
    HandlerOps = {"add", "call", "unload", "shcall", "recall", "unhooked shcall"}
    BodyOps = {"call"}
    MaxIds = 2
    MaxDepth = 3
INVARIANTS NoUseAfterFree NothingOfTheGone ContextsNest ThunkOutlivesLoop
PROPERTIES UnloadIsSafe ImplementsManagers
