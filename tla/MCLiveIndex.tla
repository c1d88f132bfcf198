---------------------------- MODULE MCLiveIndex ----------------------------
(* Constants for checking LiveIndex: versions that grow and shrink.         *)
EXTENDS LiveIndex

MCChunkCount == <<2, 1, 2>>
=============================================================================
