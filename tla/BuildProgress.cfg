CONSTANTS
    Partitions <- MCPartitions
    Selected <- MCRepeated
    Workers = 2
    BrotliSlots = 1
    MaxInterrupts = 2
SPECIFICATION FairSpec
PROPERTIES
    BuildEnds
    ImplementsBuildJob
