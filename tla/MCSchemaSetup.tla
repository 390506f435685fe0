--------------------------- MODULE MCSchemaSetup ---------------------------
(* Instances of SchemaSetup for TLC: version 1 declares the index unique and
   one definition of the vector index, version 2 neither; the text index is the
   same in both. *)
EXTENDS SchemaSetup

TwoVersions == {1, 2}
UniqueInFirst == [v \in TwoVersions |-> v = 1]
TwoKinds == <<"vector", "text">>
VectorDrifts == [v \in TwoVersions |->
                   [vector |-> IF v = 1 THEN "old" ELSE "new", text |-> "only"]]

=============================================================================
