CONSTANTS
    RunKinds <- MCCompactRun
    NCells = 16
    SizeIdxs = {1, 2}
    Extras = {5}
    FlagValues = {0, 9}
    WORD_BITS = 16
    SIZE_SHIFT = 12

SPECIFICATION Spec

INVARIANT CompactPaddingZeroed
