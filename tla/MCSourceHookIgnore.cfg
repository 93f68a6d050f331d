SPECIFICATION Spec
CONSTANTS
    v1 = v1
    v2 = v2
    i1 = i1
    p1 = p1
    p2 = p2
    m1 = m1
    m2 = m2
    VfnPtrs = {v1, v2}
    Objects = {i1}
    VP = VP
    Plugins = {p1, p2}
    Unloadable = {p2}
    Handlers = {h1}
    HookMans = {m1, m2}
    Version <- MCVersion
    OwnerOf <- MCOwner
    Orig = Orig
    FreeEntry = FreeEntry
    NoVfn = NoVfn
    None = None
    Odd = {}
    Sites <- TwoPre
    IdleOps = {"add", "call", "shcall"}
    HandlerOps = {"unhooked shcall", "call"}
    BodyOps = {"call"}
    MaxIds = 1
    MaxDepth = 3
INVARIANT IgnoresOnlyItsFunction
