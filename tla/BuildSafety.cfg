CONSTANTS
    Partitions <- MCPartitions
    Selected <- MCThree
    Workers = 3
    BrotliSlots = 2
    MaxInterrupts = 2
SPECIFICATION Spec
INVARIANTS
    TypeOK
    GateAccounting
    FirstFailureReported
    QuietWorkspace
    PackageInputs
    WorkspaceOutcome
    DisplayTruthful
    DisplayStopped
