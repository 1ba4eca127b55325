CONSTANTS
    NChunks <- MCNChunks
    HeaderTypes <- MCTwoTypes

SPECIFICATION Spec

INVARIANT HeaderTypeAsEnsured
