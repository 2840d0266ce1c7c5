CONSTANTS
    DeviceGeometry <- MCTwoSlots
    TemplateGeometry <- MCTwoSlots
    LastUnit = 4
    InitialGeometries <- MCOnlyDevice
    InitialCopies <- MCFactory
    Invocations <- MCWipe
    MaxCuts = 2
    MaxFaults = 2
SPECIFICATION FairSpec
INVARIANTS
    DeviceKept
PROPERTIES
    RetrySucceeds
