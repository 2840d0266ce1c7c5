CONSTANTS
    Packages <- MCPackages
    FileOrder <- MCFileOrder
    Phones <- MCPhones
    MiB = 8
    Capacity = 12
    MaxCuts = 1
    MaxFaults = 1
SPECIFICATION FairSpec
INVARIANTS
    TypeOK
    FinishedComplete
    OtherDeviceUntouched
    InactiveSlotKept
    AbortHasCause
    PackingTruthful
PROPERTIES
    RetryFinishes
