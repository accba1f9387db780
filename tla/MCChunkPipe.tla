---------------------------- MODULE MCChunkPipe ----------------------------
(* The module the runs of ChunkPipe check; its constants are plain numbers. *)
EXTENDS ChunkPipe
=============================================================================
