CONSTANTS
    Fills = {"zero", "ones"}
    Raws = {"x", "y"}
    Zero = "zero"
    ReadAhead = 1
    GroupBoundaries = 4
    ZeroLimit = 2
    SplitDivisor = 1
    Jobs <- MCJobs
    MaxLosses = 1
SPECIFICATION Spec
INVARIANTS
    TypeOK
    Delivered
    NeverRefused
    HeadTruthful
    FailureHasCause
    SplitFilesFit
    RangesAreSets
