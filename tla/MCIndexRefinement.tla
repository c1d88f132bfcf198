------------------------- MODULE MCIndexRefinement -------------------------
EXTENDS IndexRefinement, IndexProperties

MCChunkCount == <<2, 1, 2>>
MCChunkCount2 == <<2, 1>>
=============================================================================
