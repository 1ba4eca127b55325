CONSTANTS
    NChunks = 3
    CHUNKSIZE = 32
    RUN_METASIZE = 8
    ZONE_HDR_SIZE = 6
    ZONE0_OFF = 2
    ALLOC_HDR_LEGACY_SIZE = 4
    ALLOC_HDR_COMPACT_SIZE = 1
    ADDR_MOD <- MCAddrMod
    UnitSizes <- MCUnitSizes
    Alignments <- MCAlignments
    AllocSizes <- MCAllocSizes
    RunDataFlagsCopied = FALSE

SPECIFICATION Spec

INVARIANT FromOffsetRoundTrip
