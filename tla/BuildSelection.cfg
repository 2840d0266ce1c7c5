CONSTANTS
    DefaultPartitions <- MCDefault
    Otas <- MCManyOtas
    Requests <- MCEvery
    MaxRuns = 1
SPECIFICATION Spec
INVARIANTS
    RecoveryKept
    ImagesUsedOnce
    ListingIrrelevant
    ListedIsBuilt
