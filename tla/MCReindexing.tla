---------------------------- MODULE MCReindexing ----------------------------
(* Reindexing with files of two versions, cut into two chunks and one.     *)
EXTENDS Reindexing

MCChunksOf == <<2, 1>>

=============================================================================
