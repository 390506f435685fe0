----------------------------- MODULE MCIngestion -----------------------------
(* Instances of Ingestion for TLC. *)
EXTENDS Ingestion, TLC

CONSTANTS d1, d2, c1, c2, c3, q1, q2

\* Between two settings of the chunker one chunk goes, one moves, one comes.
OneDoc == {d1}
TwoSettings == {"v1", "v2"}
OneSetting == {"v1"}
Shifting ==
    [d \in Docs |-> [v \in Versions |->
        IF v = "v1" THEN (c1 :> 0) @@ (c2 :> 1) ELSE (c2 :> 0) @@ (c3 :> 1)]]

TwoDocs == {d1, d2}
OneChunk == [d \in Docs |-> [v \in Versions |-> (c1 :> 0)]]

RequestSymmetry == Permutations(Requests)

=============================================================================
