---------------------------- MODULE MCBlobStore ----------------------------
(* Instances of BlobStore for TLC. *)
EXTENDS BlobStore, TLC

\* Inodes, puts and gets are interchangeable.
Symmetric == Permutations(Puts) \cup Permutations(Readers)

=============================================================================
