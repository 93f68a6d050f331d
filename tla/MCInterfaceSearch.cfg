SPECIFICATION SearchSpec
CONSTANTS
    DigitCounts = {3}
    Versions = {0, 1, 2, 3}
    Maxima = {1, 2}
INVARIANTS
    NoneBeyondMax
