------------------------------ MODULE ChunkSync ------------------------------
(***************************************************************************)
(* sync_document_chunks on the chunks of one document: chunk ids from text *)
(* and occurrence, the plan against the stored rows, embedding in batches, *)
(* then deletes, re-indexes and inserts, any of which may raise or be cut  *)
(* short by a crash.  A later call, of the same text or an edited one,     *)
(* starts from whatever was left.                                          *)
(*                                                                         *)
(* Ingestion interleaves several of these calls over abstract ids; here    *)
(* the calls follow one another and the ids, texts and vectors are real.   *)
(***************************************************************************)
EXTENDS Naturals, FiniteSets, Sequences, SequencesExt, ListOps, EmbedBatches

CONSTANTS
    Texts,          \* chunk texts
    MaxChunks,      \* bound: chunks of one version of the document
    BatchTexts      \* texts per embedding request

ASSUME Parameters == MaxChunks \in Nat /\ BatchTexts \in Nat \ {0}

VARIABLES
    stored,   \* chunk id -> [index, vector]
    pc,       \* idle, find, embed, write or done
    chunks,   \* the texts of the call under way
    plan,     \* stale ids, rows to re-index, rows to insert
    batches,  \* embedding requests still to send
    vectors,  \* embeddings received and not yet written
    before    \* history: what was stored when the call began

vars == <<stored, pc, chunks, plan, batches, vectors, before>>

\* embed_documents: a vector is known by the text it embeds, and the texts are
\* of one token each.
EmbedRequests(texts) ==
    IterBatches(texts, [text \in Texts |-> 1], [texts |-> BatchTexts, tokens |-> BatchTexts])

-----------------------------------------------------------------------------
\* Slips: repeated texts share an id, or an id depends on the position.
NoOccurrence(texts, i) == 0
Position(texts, i) == i - 1

\* Earlier chunks with the same text as the i-th.
Occurrence(texts, i) == Cardinality({j \in 1..(i - 1) : texts[j] = texts[i]})

\* build_chunk_id digests (user, document, text, occurrence); a digest is taken
\* for the pair it stands for within one document.
ChunkId(text, occurrence) == <<text, occurrence>>

DesiredRows(texts) ==
    [i \in 1..Len(texts) |->
        [id |-> ChunkId(texts[i], Occurrence(texts, i)), index |-> i - 1, text |-> texts[i]]]

\* Slip: the difference is taken the wrong way round.
AbsentIds(ids) == ids \ DOMAIN stored

StaleIds(ids) == DOMAIN stored \ ids
IdsOf(rows) == {rows[i].id : i \in DOMAIN rows}
NoPlan == [stale |-> {}, reindex |-> <<>>, insert |-> <<>>]

Init ==
    /\ stored = [id \in {} |-> 0] /\ before = stored
    /\ pc = "idle" /\ chunks = <<>> /\ plan = NoPlan
    /\ batches = <<>> /\ vectors = <<>>

Call(texts) ==
    /\ pc \in {"idle", "done"}
    /\ pc' = "find" /\ chunks' = texts /\ before' = stored
    /\ plan' = NoPlan /\ batches' = <<>> /\ vectors' = <<>>
    /\ UNCHANGED stored

Find ==
    LET rows == DesiredRows(chunks)
        known == {row \in ToSet(rows) : row.id \in DOMAIN stored}
        moved == {row \in known : stored[row.id].index # row.index}
        insert == Only(rows, ToSet(rows) \ known)
    IN
    /\ pc = "find"
    /\ pc' = IF insert = <<>> THEN "write" ELSE "embed"
    /\ plan' = [stale |-> StaleIds(IdsOf(rows)),
                reindex |-> Only(rows, moved), insert |-> insert]
    /\ batches' = EmbedRequests([i \in DOMAIN insert |-> insert[i].text])
    /\ UNCHANGED <<stored, chunks, vectors, before>>

\* One request; a backend may answer with a vector too few.
EmbedBatch ==
    /\ pc = "embed" /\ batches # <<>>
    /\ \E answer \in {Head(batches), Front(Head(batches))} : vectors' = vectors \o answer
    /\ batches' = Tail(batches)
    /\ UNCHANGED <<stored, pc, chunks, plan, before>>

\* Slip: whatever came is paired with the rows, the rest is dropped.
EmbeddedUncounted ==
    /\ pc = "embed" /\ batches = <<>>
    /\ pc' = "write"
    /\ plan' = [plan EXCEPT !.insert = SubSeq(@, 1, Len(vectors))]
    /\ UNCHANGED <<stored, chunks, batches, vectors, before>>

\* The count must match, or embed_documents raises: see Raise.
Embedded ==
    /\ pc = "embed" /\ batches = <<>>
    /\ Len(vectors) = Len(plan.insert)
    /\ pc' = "write"
    /\ UNCHANGED <<stored, chunks, plan, batches, vectors, before>>

\* Slip: stale rows go before the new ones are embedded.
DeleteEagerly(id) ==
    /\ pc \in {"embed", "write"} /\ id \in plan.stale
    /\ stored' = [x \in DOMAIN stored \ {id} |-> stored[x]]
    /\ plan' = [plan EXCEPT !.stale = @ \ {id}]
    /\ UNCHANGED <<pc, chunks, batches, vectors, before>>

DeleteStale(id) ==
    /\ pc = "write" /\ id \in plan.stale
    /\ stored' = [x \in DOMAIN stored \ {id} |-> stored[x]]
    /\ plan' = [plan EXCEPT !.stale = @ \ {id}]
    /\ UNCHANGED <<pc, chunks, batches, vectors, before>>

Reindex ==
    /\ pc = "write" /\ plan.stale = {} /\ plan.reindex # <<>>
    /\ stored' = [stored EXCEPT ![Head(plan.reindex).id].index = Head(plan.reindex).index]
    /\ plan' = [plan EXCEPT !.reindex = Tail(@)]
    /\ UNCHANGED <<pc, chunks, batches, vectors, before>>

Insert ==
    LET row == Head(plan.insert) IN
    /\ pc = "write" /\ plan.stale = {} /\ plan.reindex = <<>> /\ plan.insert # <<>>
    /\ row.id \notin DOMAIN stored
    /\ stored' = [x \in DOMAIN stored \cup {row.id} |->
                    IF x = row.id THEN [index |-> row.index, vector |-> Head(vectors)]
                                  ELSE stored[x]]
    /\ plan' = [plan EXCEPT !.insert = Tail(@)]
    /\ vectors' = Tail(vectors)
    /\ UNCHANGED <<pc, chunks, batches, before>>

Return ==
    /\ pc = "write" /\ plan = NoPlan
    /\ pc' = "done"
    /\ UNCHANGED <<stored, chunks, plan, batches, vectors, before>>

\* Any awaited call raises, or the process dies: the rest is not done.
Raise ==
    /\ pc \in {"find", "embed", "write"}
    /\ pc' = "idle" /\ plan' = NoPlan
    /\ batches' = <<>> /\ vectors' = <<>>
    /\ UNCHANGED <<stored, chunks, before>>

Next ==
    \/ \E n \in 0..MaxChunks : \E texts \in [1..n -> Texts] : Call(texts)
    \/ Find \/ EmbedBatch \/ Embedded
    \/ \E id \in plan.stale : DeleteStale(id)
    \/ Reindex \/ Insert \/ Return \/ Raise

Spec == Init /\ [][Next]_vars

-----------------------------------------------------------------------------
(* Properties *)

Desired == DesiredRows(chunks)

\* Every variable keeps its type, and only stored rows are to be deleted.
TypeOK ==
    /\ DOMAIN stored \subseteq Texts \X (0..(MaxChunks - 1))
    /\ \A id \in DOMAIN stored :
          stored[id] \in [index : 0..(MaxChunks - 1), vector : Texts]
    /\ pc \in {"idle", "find", "embed", "write", "done"}
    /\ chunks \in Seq(Texts) /\ Len(chunks) <= MaxChunks
    /\ plan.stale \subseteq DOMAIN stored

\* A sync that returned left exactly the chunks it was given: one row for each,
\* repeated texts included, at its position, whatever half-finished calls came
\* before it.
DoneIsExact ==
    pc = "done" =>
        /\ DOMAIN stored = IdsOf(Desired) /\ Cardinality(DOMAIN stored) = Len(chunks)
        /\ \A i \in DOMAIN chunks :
              \E id \in DOMAIN stored : id[1] = chunks[i] /\ stored[id].index = i - 1

\* Every stored vector embeds its own text, though vectors arrive in batches, a
\* backend may drop one, and rows outlive the call that embedded them.
VectorsMatch == \A id \in DOMAIN stored : stored[id].vector = id[1]

\* Nothing is written before everything is embedded (chunk_storage_service.py:
\* 20-22), and from then on a chunk of both versions never leaves the search,
\* nor does one of neither enter it.
SearchableThroughout ==
    /\ pc \in {"find", "embed"} => stored = before
    /\ pc = "write" =>
          /\ DOMAIN before \cap IdsOf(Desired) \subseteq DOMAIN stored
          /\ DOMAIN stored \subseteq DOMAIN before \cup IdsOf(Desired)

CopiesOf(t) == Cardinality({i \in DOMAIN chunks : chunks[i] = t})
StoredCopiesOf(t) == Cardinality({id \in DOMAIN before : id[1] = t})
NoGap == \A id \in DOMAIN before : \A k \in 0..id[2] : <<id[1], k>> \in DOMAIN before

\* Of each text, as many copies are embedded as the new version has more of
\* than the stored one (chunk_storage_service.py:14-18): none for an unchanged
\* or merely shifted document.  Where the stored occurrences leave no gap.
EmbedsOnlyNew ==
    pc = "embed" /\ NoGap =>
        \A t \in Texts :
            Cardinality({i \in DOMAIN plan.insert : plan.insert[i].text = t})
              = IF CopiesOf(t) > StoredCopiesOf(t)
                THEN CopiesOf(t) - StoredCopiesOf(t) ELSE 0

=============================================================================
