CONSTANTS
    DefaultPartitions <- MCDefault
    Otas <- MCTwoOtas
    Requests <- MCReuse
    MaxRuns = 2
SPECIFICATION Spec
INVARIANTS
    TypeOK
    ZipFromThisOta
    RetryIsFresh
