-------------------------- MODULE MCIndexPipeline --------------------------
(* Constants for checking IndexPipeline: versions that grow and shrink in   *)
(* chunks, so that records of an older, longer version can be left over.    *)
EXTENDS IndexProperties

MCChunkCount == <<2, 1, 2>>
MCChunkCount2 == <<2, 1>>
=============================================================================
