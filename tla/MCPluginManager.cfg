SPECIFICATION Spec
CONSTANTS
    f1 = f1
    f2 = f2
    Files = {f1, f2}
    Metamod = Metamod
    Outcomes <- MCOutcomes
    Permits = {}
    MaxObjects = 3
    MaxDepth = 3
INVARIANTS
    CodeStaysMapped
    LibrariesAccountedFor
    IdsNameOnePlugin
    InterfaceStaysUp
    AllPluginsLoadedOnce
    PausedWithItsHooks
