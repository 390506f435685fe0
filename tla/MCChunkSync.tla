---------------------------- MODULE MCChunkSync ----------------------------
(* Instance of ChunkSync and its refinement for TLC: two texts, versions of up to four chunks,
   requests of two texts. *)
EXTENDS SyncRefinement, TLC

CONSTANTS a, b
TextSymmetry == Permutations(Texts)

=============================================================================
