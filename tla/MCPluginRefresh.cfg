SPECIFICATION Spec
CONSTANTS
    f1 = f1
    f2 = f2
    Files = {f1}
    Metamod = Metamod
    Outcomes <- MCOutcomes
    Permits = {"read a file that is being unloaded"}
    MaxObjects = 2
    MaxDepth = 3
INVARIANT InterfaceStaysUp
