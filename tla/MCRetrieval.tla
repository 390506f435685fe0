---------------------------- MODULE MCRetrieval ----------------------------
(***************************************************************************)
(* Retrieval on every pair of rankings of a few chunks: two documents of   *)
(* one user, one of another.                                               *)
(***************************************************************************)
EXTENDS Retrieval

\* Chunk 3 is bob's, the others are ann's, in two documents.
OwnerOf == <<"ann", "ann", "bob", "ann">>
DocOf == <<"a1", "a1", "b1", "a2">>

=============================================================================
