CONSTANTS
    DeviceGeometry <- MCTwoBigSlots
    TemplateGeometry <- MCThreeSlots
    LastUnit = 7
    InitialGeometries <- MCOnlyDevice
    InitialCopies <- MCFactory
    Invocations <- MCAll
    MaxCuts = 2
    MaxFaults = 1
SPECIFICATION Spec
INVARIANTS
    SuccessConsistent
