SPECIFICATION Spec
CONSTANTS
    v1 = v1
    v2 = v2
    i1 = i1
    p1 = p1
    p2 = p2
    m1 = m1
    m2 = m2
    VfnPtrs = {v1}
    Objects = {i1}
    VP = VP
    Plugins = {p1}
    Unloadable = {p1}
    Handlers = {h1}
    HookMans = {m1}
    Version <- MCVersion
    OwnerOf <- MCOwner
    Orig = Orig
    FreeEntry = FreeEntry
    NoVfn = NoVfn
    None = None
    Odd = {v1}
    Sites <- OneList
    IdleOps = {"add", "call"}
    HandlerOps = {"remove"}
    BodyOps = {}
    MaxIds = 2
    MaxDepth = 2
INVARIANT CleanupRunsOnce
