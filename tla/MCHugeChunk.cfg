CONSTANTS
    NChunks <- MCNChunks
    HeaderTypes <- MCOneType

SPECIFICATION Spec

INVARIANT TypeOK
INVARIANT CrashLeavesWalkableHeap
INVARIANT AllocationsDurable
INVARIANT RuntimeFootersConsistent
PROPERTY HugeRefinesHeap
