SPECIFICATION Spec
CONSTANTS
    f1 = f1
    f2 = f2
    Files = {f1, f2}
    Metamod = Metamod
    Outcomes <- MCOutcomes
    Permits = {"hook after retry"}
    MaxObjects = 2
    MaxDepth = 1
INVARIANT CodeStaysMapped
