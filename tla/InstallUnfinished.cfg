CONSTANTS
    Packages <- MCTorn
    FileOrder <- MCFileOrder
    Phones <- MCPhones
    MiB = 8
    Capacity = 12
    MaxCuts = 0
    MaxFaults = 0
SPECIFICATION Spec
INVARIANTS
    FinishedIsFlashed
