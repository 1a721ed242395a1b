CONSTANTS
    Width = 6
    CoreShift = 1
    Geometries <- MCGeometries
    LargeLevels = 3
    FrameCount = 3
    Addresses = {0, 3, 7, 14, 15, 31, 47, 48, 59, 61, 63}
    MaxLength = 6
SPECIFICATION RangeSpec
INVARIANTS EachByteTranslated RangeOutcome
CHECK_DEADLOCK FALSE
