CONSTANTS
    DeviceGeometry <- MCTwoSlots
    TemplateGeometry <- MCThreeSlots
    LastUnit = 5
    InitialGeometries <- MCOnlyDevice
    InitialCopies <- MCFactory
    Invocations <- MCFlash
    MaxCuts = 0
    MaxFaults = 1
SPECIFICATION Spec
INVARIANTS
    GeometryFlashed
