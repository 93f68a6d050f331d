SPECIFICATION Spec
CONSTANTS
    VtblOffs = 4
    VtblIdx = 3
    Protos <- MCProtos
    Scenarios <- MCScenarios
    MaxHooks = 2
    Results = {0, 1, 2, 3}
INVARIANTS
    StackBalanced
    ArgumentsArrive
    HookSeesResults
    ReturnsWhatItShould
    ObjectsDestroyedOnce
    WritesInBounds
