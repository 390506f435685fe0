--------------------------- MODULE SyncRefinement ---------------------------
(***************************************************************************)
(* The reconciliation as ChunkSync details it implements the one that      *)
(* Ingestion abstracts: real ids for chunk ids, texts for settings, and    *)
(* several embedding requests for one step.  The document is `doc`, and    *)
(* the call is that of its upload task.                                    *)
(***************************************************************************)
EXTENDS ChunkSync

ChunkIds == Texts \X (0..(MaxChunks - 1))
AllVersions == UNION {[1..n -> Texts] : n \in 0..MaxChunks}

\* Ingestion takes a boot's settings as what tells one set of rows from another.
LayoutOf(texts) ==
    LET rows == DesiredRows(texts)
        indexOf(id) == CHOOSE n \in 0..(Len(texts) - 1) : rows[n + 1].id = id
    IN [id \in IdsOf(rows) |-> indexOf(id)]

NoCall == [pc |-> "idle", doc |-> "none", stale |-> {}, moved |-> {}, missing |-> {}]

\* The call, as Ingestion sees it: one that was cut short is in its handler, one
\* that returned is over.
MappedCall ==
    IF pc = "done"
    THEN NoCall
    ELSE [pc |-> IF pc = "idle" THEN "handler" ELSE pc, doc |-> "doc",
          stale |-> plan.stale, moved |-> IdsOf(plan.reindex),
          missing |-> IdsOf(plan.insert)]

I == INSTANCE Ingestion
       WITH Docs <- {"doc"}, NoDoc <- "none", Requests <- {}, Sweeper <- "sweeper",
            Chunks <- ChunkIds, Indexes <- 0..(MaxChunks - 1),
            Versions <- AllVersions,
            Layout <- [d \in {"doc"} |-> [texts \in AllVersions |-> LayoutOf(texts)]],
            MaxAttempts <- 1, SweepLimit <- 1, DbErrors <- TRUE, MaxBoots <- 1,
            rec <- [d \in {"doc"} |-> [status |-> IF pc = "done" THEN "ready" ELSE "processing",
                                       attempts |-> 1]],
            rows <- [d \in {"doc"} |-> [id \in DOMAIN stored |-> stored[id].index]],
            blobs <- {"doc"}, up <- TRUE, boots <- 1, conf <- chunks,
            req <- [q \in {} |-> "none"],
            run <- [r \in {"doc", "sweeper"} |-> IF r = "doc" THEN MappedCall ELSE NoCall],
            sweep <- "off", snap <- [d \in {} |-> 0]

\* Between two calls anything may happen to the document but a change of its rows.
NextCall == pc \in {"idle", "done"} /\ pc' = "find" /\ UNCHANGED stored

ReconciliationStep ==
    \/ NextCall
    \/ I!FindExisting("doc") \/ I!Embed("doc")
    \/ \E id \in ChunkIds : \/ I!DeleteStale("doc", id) \/ I!Reindex("doc", id)
                            \/ I!InsertChunk("doc", id)
    \/ I!SetReady("doc") \/ I!StepRaises("doc")

\* Ingestion is right to plan by ids and positions alone, to take embedding for
\* one step, and to write row after row in this order: whatever batches, repeated
\* texts and interrupted calls there are, every step here is a step there.
Reconciles == [][ReconciliationStep]_I!vars

=============================================================================
