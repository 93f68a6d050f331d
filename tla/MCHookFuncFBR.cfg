SPECIFICATION Spec
CONSTANTS
    VtblOffs = 4
    VtblIdx = 3
    Protos <- FBRProtos
    Scenarios <- FBRScenarios
    MaxHooks = 2
    Results = {0, 1, 2, 3}
INVARIANT ArgumentsArrive
