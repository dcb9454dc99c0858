---------------------------- MODULE MCChunkStream ----------------------------
(* Instance of ChunkStream for TLC: an empty payload, one that ends within a *)
(* chunk, a multiple of the chunk size, and one of three chunks.             *)
EXTENDS ChunkStream

PayloadLengths == {0, 3, 4, 5}
===============================================================================
