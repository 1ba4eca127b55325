CONSTANTS
    Threads = {t1, t2}
    BITS_PER_VALUE <- MCBitsPerValue
    NWords <- MCNWords
    SizeIdxs <- MCSizeIdxs
    RunChunkId = c5
    NoLock = NoLock
    NoOwner = NoOwner

SPECIFICATION Spec

INVARIANT TypeOK
INVARIANT NoOverlappingAllocations
INVARIANT BitmapMatchesAllocations
INVARIANT RunGetStateCorrect
PROPERTY RunRefinesAlloc
