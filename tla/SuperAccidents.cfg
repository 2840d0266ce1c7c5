CONSTANTS
    DeviceGeometry <- MCTwoSlots
    TemplateGeometry <- MCTwoSlots
    LastUnit = 4
    InitialGeometries <- MCOnlyDevice
    InitialCopies <- MCFactory
    Invocations <- MCAll
    MaxCuts = 2
    MaxFaults = 2
SPECIFICATION Spec
INVARIANTS
    TypeOK
    SurvivesOneAccident
    SuccessComplete
