CONSTANTS
    Formats = {"raw", "elf", "lime", "kdmp", "bitmap", "rdmp", "manifest"}
    Limit = 6
    PageSize = 2
    MaxFile = 4
    FileLengths = {0, 3, 4}
    MaxMemory = 3
    MaxEntries = 3
    ElfOffsets = {1}
    MaxLength = 2
SPECIFICATION BundleSpec
INVARIANTS SegmentsExact ReadExact
CHECK_DEADLOCK FALSE
