CONSTANTS
    DeviceGeometry <- MCTwoSlots
    TemplateGeometry <- MCThreeSlots
    LastUnit = 5
    InitialGeometries <- MCOnlyDevice
    InitialCopies <- MCDamaged
    Invocations <- MCWipe
    MaxCuts = 0
    MaxFaults = 0
SPECIFICATION Spec
INVARIANTS
    TablePreserved
