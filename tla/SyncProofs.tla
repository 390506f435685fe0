----------------------------- MODULE SyncProofs -----------------------------
(***************************************************************************)
(* What holds of ChunkSync for any number of versions, chunks and texts,   *)
(* requests of any size, and calls cut short anywhere.                     *)
(*                                                                         *)
(* DoneIsExact, VectorsMatch and EmbedsOnlyNew speak of the rows alone,    *)
(* and from the rows alone no step can be shown to keep them: what Insert  *)
(* stores depends on a plan made when the rows were others and on vectors  *)
(* that came back a request at a time. SyncInv says what the plan still    *)
(* owes (PlanHolds: what is planned, together with what is stored, makes   *)
(* up the desired rows) and which text each vector is of (VectorsInOrder:  *)
(* the ones that came and the ones still asked for are those of the rows   *)
(* to insert). With them each property is inductive, and every step of the *)
(* call is a step of the reconciliation Ingestion abstracts.               *)
(***************************************************************************)
EXTENDS SyncRefinement, ListProofs, FiniteSetTheorems

-----------------------------------------------------------------------------
(* What the operators of ChunkSync return *)

\* embed_documents sends every text once, in order.
LEMMA RequestsHoldTexts ==
    ASSUME NEW texts \in Seq(Texts)
    PROVE  /\ EmbedRequests(texts) \in Seq(Seq(Texts))
           /\ FlattenSeq(EmbedRequests(texts)) = texts
<1> DEFINE tokens == [text \in Texts |-> 1]
           caps == [texts |-> BatchTexts, tokens |-> BatchTexts]
<1>1. Measured(Texts, tokens, caps)
  BY Parameters DEF Measured
<1>2. EmbedRequests(texts) = IterBatches(texts, tokens, caps)
  BY DEF EmbedRequests
<1> HIDE DEF tokens, caps
<1> QED
  BY <1>1, <1>2, RequestsHoldAll

\* The rows of a version, each at its position; none twice, in the order of the
\* chunks.
Rows == [id : ChunkIds, index : 0..(MaxChunks - 1), text : Texts]
InOrder(rows) ==
    \A i, j \in 1..Len(rows) : /\ rows[i].id = rows[j].id => i = j
                               /\ i < j => rows[i].index < rows[j].index

\* A comprehension over the rows keeps their order and no other row.
LEMMA OnlyChosen ==
    ASSUME NEW rows \in Seq(Rows), InOrder(rows), NEW chosen
    PROVE  /\ Only(rows, chosen) \in Seq(Rows) /\ InOrder(Only(rows, chosen))
           /\ ToSet(Only(rows, chosen)) = ToSet(rows) \cap chosen
<1> DEFINE kept == Only(rows, chosen)
<1>1. Kept(kept, rows, Len(rows), chosen, Rows)
  BY OnlyKeeps
<1> HIDE DEF kept
<1>2. kept \in Seq(Rows) /\ DOMAIN kept = 1..Len(kept) /\ DOMAIN rows = 1..Len(rows)
  BY <1>1 DEF Kept
<1>3. ToSet(kept) = ToSet(rows) \cap chosen
  <2>1. ASSUME NEW i \in 1..Len(kept) PROVE kept[i] \in ToSet(rows) \cap chosen
    BY <1>1, <1>2 DEF Kept, ToSet
  <2>2. ASSUME NEW m \in 1..Len(rows), rows[m] \in chosen PROVE rows[m] \in ToSet(kept)
    <3>1. PICK i \in 1..Len(kept) : kept[i] = rows[m]
      BY <1>1, <2>2 DEF Kept
    <3> QED
      BY <1>2, <3>1 DEF ToSet
  <2> QED
    BY <1>2, <2>1, <2>2 DEF ToSet
<1>4. ASSUME NEW i \in 1..Len(kept), NEW j \in 1..Len(kept), i < j
      PROVE  kept[i].index < kept[j].index /\ kept[i].id # kept[j].id
  <2>1. PICK m \in 1..Len(rows), n \in 1..Len(rows) :
           m < n /\ kept[i] = rows[m] /\ kept[j] = rows[n]
    BY <1>1, <1>4 DEF Kept
  <2> QED
    BY <2>1 DEF InOrder
<1>5. \A i, j \in 1..Len(kept) : i = j \/ i < j \/ j < i
  BY <1>2
<1> QED
  BY <1>2, <1>3, <1>4, <1>5 DEF InOrder, kept

\* Equal texts have growing occurrences: no two chunks of a version share an id.
LEMMA OccurrenceGrows ==
    ASSUME NEW texts \in Seq(Texts), NEW i \in 1..Len(texts)
    PROVE  /\ Occurrence(texts, i) \in 0..(i - 1)
           /\ \A j \in 1..Len(texts) :
                 i < j /\ texts[i] = texts[j] => Occurrence(texts, i) < Occurrence(texts, j)
<1> DEFINE Earlier(j) == {k \in 1..(j - 1) : texts[k] = texts[j]}
<1>1. ASSUME NEW j \in 1..Len(texts)
      PROVE  /\ IsFiniteSet(Earlier(j)) /\ Cardinality(Earlier(j)) \in 0..(j - 1)
             /\ Occurrence(texts, j) = Cardinality(Earlier(j))
  <2>1. 1 \in Int /\ j - 1 \in Int /\ j - 1 \in Nat
    OBVIOUS
  <2>2. IsFiniteSet(1..(j - 1)) /\ Cardinality(1..(j - 1)) = j - 1
    BY <2>1, FS_Interval
  <2>3. Earlier(j) \in SUBSET (1..(j - 1))
    OBVIOUS
  <2> HIDE DEF Earlier
  <2>4. IsFiniteSet(Earlier(j)) /\ Cardinality(Earlier(j)) <= Cardinality(1..(j - 1))
    BY <2>2, <2>3, FS_Subset
  <2>5. Cardinality(Earlier(j)) \in Nat
    BY <2>4, FS_CardinalityType
  <2> QED
    BY <2>1, <2>2, <2>4, <2>5 DEF Occurrence, Earlier
<1>2. ASSUME NEW j \in 1..Len(texts), i < j, texts[i] = texts[j]
      PROVE  Cardinality(Earlier(i)) < Cardinality(Earlier(j))
  <2>1. Earlier(i) \cup {i} \in SUBSET Earlier(j) /\ i \notin Earlier(i)
    BY <1>2
  <2> HIDE DEF Earlier
  <2>2. Cardinality(Earlier(i) \cup {i}) = Cardinality(Earlier(i)) + 1
    BY <1>1, <2>1, FS_AddElement
  <2>3. Cardinality(Earlier(i) \cup {i}) <= Cardinality(Earlier(j))
    BY <1>1, <2>1, FS_Subset
  <2>4. Cardinality(Earlier(i)) \in Int /\ Cardinality(Earlier(j)) \in Int
    BY <1>1
  <2> QED
    BY <2>2, <2>3, <2>4
<1> HIDE DEF Earlier
<1> QED
  BY <1>1, <1>2

\* Each chunk of a version has a row at its position, under an id of its own.
LEMMA DesiredType ==
    ASSUME NEW texts \in Seq(Texts), Len(texts) <= MaxChunks
    PROVE  /\ DesiredRows(texts) \in Seq(Rows) /\ Len(DesiredRows(texts)) = Len(texts)
           /\ \A i \in 1..Len(texts) :
                 /\ DesiredRows(texts)[i].index = i - 1 /\ DesiredRows(texts)[i].text = texts[i]
                 /\ DesiredRows(texts)[i].id = <<texts[i], Occurrence(texts, i)>>
           /\ InOrder(DesiredRows(texts))
<1> DEFINE n == Len(texts)
           row(i) == [id |-> ChunkId(texts[i], Occurrence(texts, i)), index |-> i - 1,
                      text |-> texts[i]]
<1>1. n \in Nat /\ MaxChunks \in Nat /\ \A i \in 1..n : texts[i] \in Texts
  BY Parameters
<1>2. \A i \in 1..n : row(i) \in Rows
  <2>1. ASSUME NEW i \in 1..n
        PROVE  Occurrence(texts, i) \in 0..(MaxChunks - 1) /\ i - 1 \in 0..(MaxChunks - 1)
    BY <1>1, OccurrenceGrows
  <2> QED
    BY <1>1, <2>1 DEF Rows, ChunkIds, ChunkId
<1>3. DesiredRows(texts) = [i \in 1..n |-> row(i)]
  BY DEF DesiredRows
<1>4. DesiredRows(texts) \in Seq(Rows) /\ Len(DesiredRows(texts)) = n
  <2> HIDE DEF row
  <2> QED
    BY <1>1, <1>2, <1>3
<1>5. \A i \in 1..n :
         /\ DesiredRows(texts)[i].index = i - 1 /\ DesiredRows(texts)[i].text = texts[i]
         /\ DesiredRows(texts)[i].id = <<texts[i], Occurrence(texts, i)>>
  BY <1>3 DEF ChunkId
<1>6. ASSUME NEW i \in 1..n, NEW j \in 1..n,
             DesiredRows(texts)[i].id = DesiredRows(texts)[j].id
      PROVE  i = j
  <2>1. texts[i] = texts[j] /\ Occurrence(texts, i) = Occurrence(texts, j)
    BY <1>5, <1>6
  <2>2. Occurrence(texts, i) \in Int /\ ~(i < j) /\ ~(j < i)
    BY <2>1, OccurrenceGrows
  <2> QED
    BY <1>1, <2>2
<1>7. \A i, j \in 1..n : i < j => DesiredRows(texts)[i].index < DesiredRows(texts)[j].index
  BY <1>1, <1>5
<1> QED
  BY <1>4, <1>5, <1>6, <1>7 DEF InOrder

-----------------------------------------------------------------------------
(* The inductive invariant *)

\* Rows as the collection holds them: by id.
Stores(rows) ==
    /\ DOMAIN rows \subseteq ChunkIds
    /\ \A id \in DOMAIN rows : rows[id] \in [index : 0..(MaxChunks - 1), vector : Texts]
    /\ rows = [id \in DOMAIN rows |-> rows[id]]
DesiredIds == IdsOf(Desired)
StateType ==
    /\ Stores(stored) /\ Stores(before)
    /\ pc \in {"idle", "find", "embed", "write", "done"}
    /\ chunks \in Seq(Texts) /\ Len(chunks) <= MaxChunks
    /\ plan \in [stale : SUBSET ChunkIds, reindex : Seq(Rows), insert : Seq(Rows)]
    /\ batches \in Seq(Seq(Texts)) /\ vectors \in Seq(Texts)

\* Between two calls, and before a call has read what is stored, nothing is planned.
Unplanned ==
    /\ pc \in {"idle", "find", "done"} => plan = NoPlan
    /\ pc = "find" => vectors = <<>>
    /\ pc \in {"find", "embed"} => stored = before

\* What is planned, together with what is stored, makes up the desired rows.
PlanHolds ==
    pc \in {"embed", "write"} =>
        /\ plan.stale = DOMAIN stored \ DesiredIds
        /\ InOrder(plan.insert) /\ InOrder(plan.reindex)
        /\ \A i \in 1..Len(plan.insert) :
              plan.insert[i] \in ToSet(Desired) /\ plan.insert[i].id \notin DOMAIN stored
        /\ \A i \in 1..Len(plan.reindex) :
              plan.reindex[i] \in ToSet(Desired) /\ plan.reindex[i].id \in DOMAIN stored
        /\ \A row \in ToSet(Desired) :
              \/ row \in ToSet(plan.insert)
              \/ /\ row.id \in DOMAIN stored
                 /\ stored[row.id].index = row.index \/ row \in ToSet(plan.reindex)

\* If none is missing, the vectors are those of the rows to insert, in order.
VectorsInOrder ==
    /\ pc = "embed" =>
          /\ Len(vectors) + Len(FlattenSeq(batches)) <= Len(plan.insert)
          /\ Len(vectors) + Len(FlattenSeq(batches)) = Len(plan.insert) =>
                \A i \in 1..Len(plan.insert) :
                    (vectors \o FlattenSeq(batches))[i] = plan.insert[i].text
    /\ pc = "write" =>
          /\ Len(vectors) = Len(plan.insert)
          /\ \A i \in 1..Len(plan.insert) : vectors[i] = plan.insert[i].text

\* A call that returned left the desired rows and no other.
SyncedRows ==
    pc = "done" =>
        /\ DOMAIN stored = DesiredIds
        /\ \A i \in 1..Len(chunks) : stored[Desired[i].id].index = Desired[i].index

SyncInv == StateType /\ Unplanned /\ PlanHolds /\ VectorsInOrder /\ SyncedRows
           /\ VectorsMatch /\ SearchableThroughout

-----------------------------------------------------------------------------
(* Each step keeps it *)

\* What the rows of the version are, said of the state.
LEMMA DesiredFacts ==
    ASSUME StateType
    PROVE  /\ Desired \in Seq(Rows) /\ Len(Desired) = Len(chunks) /\ InOrder(Desired)
           /\ ToSet(Desired) \subseteq Rows
           /\ DesiredIds = {row.id : row \in ToSet(Desired)} /\ DesiredIds \subseteq ChunkIds
           /\ \A row \in ToSet(Desired) : row.id[1] = row.text
           /\ \A row, other \in ToSet(Desired) : row.id = other.id => row = other
<1>1. /\ Desired \in Seq(Rows) /\ Len(Desired) = Len(chunks) /\ InOrder(Desired)
      /\ \A i \in 1..Len(chunks) : Desired[i].id[1] = Desired[i].text
  BY DesiredType DEF StateType, Desired
<1>2. DOMAIN Desired = 1..Len(Desired) /\ \A i \in 1..Len(Desired) : Desired[i] \in Rows
  BY <1>1
<1>3. ToSet(Desired) = {Desired[i] : i \in 1..Len(Desired)}
      /\ DesiredIds = {Desired[i].id : i \in 1..Len(Desired)}
  BY <1>2 DEF ToSet, DesiredIds, IdsOf
<1>4. DesiredIds = {row.id : row \in ToSet(Desired)}
  BY <1>3
<1>5. ToSet(Desired) \subseteq Rows /\ DesiredIds \subseteq ChunkIds
  BY <1>2, <1>3 DEF Rows
<1>6. \A row \in ToSet(Desired) : row.id[1] = row.text
  BY <1>1, <1>3
<1>7. \A row, other \in ToSet(Desired) : row.id = other.id => row = other
  BY <1>1, <1>3 DEF InOrder
<1> QED
  BY <1>1, <1>4, <1>5, <1>6, <1>7

\* Nothing is stored or planned at first.
LEMMA InitSync == Init => SyncInv
<1> SUFFICES ASSUME Init PROVE SyncInv
  OBVIOUS
<1> USE DEF Init
<1>1. StateType
  BY Parameters DEF StateType, Stores, NoPlan
<1>2. Unplanned /\ PlanHolds /\ VectorsInOrder /\ SyncedRows /\ VectorsMatch
      /\ SearchableThroughout
  BY DEF Unplanned, PlanHolds, VectorsInOrder, SyncedRows, VectorsMatch, SearchableThroughout
<1> QED
  BY <1>1, <1>2 DEF SyncInv

\* A call starts from what is stored, whatever the one before left.
LEMMA CallSync ==
    ASSUME SyncInv, NEW n \in 0..MaxChunks, NEW texts \in [1..n -> Texts], Call(texts)
    PROVE  SyncInv'
<1>1. texts \in Seq(Texts) /\ Len(texts) <= MaxChunks
  BY Parameters
<1>2. StateType'
  BY <1>1 DEF SyncInv, StateType, Call, NoPlan, Stores
<1>3. Unplanned' /\ PlanHolds' /\ VectorsInOrder' /\ SyncedRows' /\ VectorsMatch'
      /\ SearchableThroughout'
  BY DEF SyncInv, Call, Unplanned, PlanHolds, VectorsInOrder, SyncedRows, VectorsMatch,
         SearchableThroughout
<1> QED
  BY <1>2, <1>3 DEF SyncInv

\* What Find plans: the desired rows that are missing and those stored elsewhere.
LEMMA FindPlans ==
    ASSUME StateType, Find
    PROVE  /\ plan' = [stale |-> DOMAIN stored \ DesiredIds,
                       reindex |-> plan'.reindex, insert |-> plan'.insert]
           /\ plan'.insert \in Seq(Rows) /\ InOrder(plan'.insert)
           /\ ToSet(plan'.insert) = {row \in ToSet(Desired) : row.id \notin DOMAIN stored}
           /\ plan'.reindex \in Seq(Rows) /\ InOrder(plan'.reindex)
           /\ ToSet(plan'.reindex)
                = {row \in ToSet(Desired) : /\ row.id \in DOMAIN stored
                                            /\ stored[row.id].index # row.index}
           /\ batches' = EmbedRequests([i \in DOMAIN plan'.insert |-> plan'.insert[i].text])
<1> DEFINE known == {row \in ToSet(Desired) : row.id \in DOMAIN stored}
           moved == {row \in known : stored[row.id].index # row.index}
           insert == Only(Desired, ToSet(Desired) \ known)
           reindex == Only(Desired, moved)
<1>1. /\ plan' = [stale |-> DOMAIN stored \ DesiredIds, reindex |-> reindex, insert |-> insert]
      /\ batches' = EmbedRequests([i \in DOMAIN insert |-> insert[i].text])
  BY DEF Find, Desired, DesiredIds, StaleIds
<1>2. Desired \in Seq(Rows) /\ InOrder(Desired)
  BY DesiredFacts
<1>3. /\ insert \in Seq(Rows) /\ InOrder(insert)
      /\ ToSet(insert) = ToSet(Desired) \cap (ToSet(Desired) \ known)
      /\ reindex \in Seq(Rows) /\ InOrder(reindex)
      /\ ToSet(reindex) = ToSet(Desired) \cap moved
  <2> HIDE DEF known, moved
  <2> QED
    BY <1>2, OnlyChosen
<1> HIDE DEF insert, reindex
<1>4. plan'.insert = insert /\ plan'.reindex = reindex
  BY <1>1
<1> QED
  BY <1>1, <1>3, <1>4

\* What the plan owes when it is made.
LEMMA FindSync == ASSUME SyncInv, Find PROVE SyncInv'
<1> DEFINE insert == plan'.insert
           reindex == plan'.reindex
           texts == [i \in DOMAIN insert |-> insert[i].text]
<1>1. /\ pc = "find" /\ pc' = (IF insert = <<>> THEN "write" ELSE "embed")
      /\ UNCHANGED <<stored, chunks, vectors, before>>
  BY DEF Find
<1>2. StateType /\ stored = before /\ vectors = <<>>
  BY <1>1 DEF SyncInv, Unplanned
<1>3. /\ plan' = [stale |-> DOMAIN stored \ DesiredIds, reindex |-> reindex, insert |-> insert]
      /\ batches' = EmbedRequests(texts)
  BY <1>2, FindPlans
<1>4. /\ insert \in Seq(Rows) /\ InOrder(insert) /\ reindex \in Seq(Rows) /\ InOrder(reindex)
      /\ ToSet(insert) = {row \in ToSet(Desired) : row.id \notin DOMAIN stored}
      /\ ToSet(reindex) = {row \in ToSet(Desired) : /\ row.id \in DOMAIN stored
                                                    /\ stored[row.id].index # row.index}
  BY <1>2, FindPlans
<1> HIDE DEF insert, reindex
<1>5. /\ DOMAIN insert = 1..Len(insert) /\ Len(insert) \in Nat
      /\ \A i \in 1..Len(insert) : insert[i] \in ToSet(insert) /\ insert[i].text \in Texts
      /\ DOMAIN reindex = 1..Len(reindex)
      /\ \A i \in 1..Len(reindex) : reindex[i] \in ToSet(reindex)
      /\ (insert = <<>> => Len(insert) = 0)
  <2>1. \A rows \in Seq(Rows) : /\ DOMAIN rows = 1..Len(rows) /\ Len(rows) \in Nat
                                /\ \A i \in 1..Len(rows) : rows[i] \in Rows
                                /\ (rows = <<>> => Len(rows) = 0)
    OBVIOUS
  <2>2. \A rows \in Seq(Rows) : \A i \in 1..Len(rows) : rows[i] \in ToSet(rows)
    BY <2>1 DEF ToSet
  <2>3. \A row \in Rows : row.text \in Texts
    BY DEF Rows
  <2> QED
    BY <1>4, <2>1, <2>2, <2>3
<1>6. texts \in Seq(Texts) /\ Len(texts) = Len(insert)
      /\ \A i \in 1..Len(insert) : texts[i] = insert[i].text
  BY <1>5
<1> HIDE DEF texts
<1>7. batches' \in Seq(Seq(Texts)) /\ FlattenSeq(batches') = texts
  BY <1>3, <1>6, RequestsHoldTexts
<1>8. StateType'
  BY <1>1, <1>2, <1>3, <1>4, <1>7 DEF StateType, Stores
<1>9. UNCHANGED <<Desired, DesiredIds>>
  BY <1>1 DEF Desired, DesiredIds
<1>10. PlanHolds'
  <2>1. \A i \in 1..Len(insert) : insert[i] \in ToSet(Desired) /\ insert[i].id \notin DOMAIN stored
    BY <1>4, <1>5
  <2>2. \A i \in 1..Len(reindex) : reindex[i] \in ToSet(Desired) /\ reindex[i].id \in DOMAIN stored
    BY <1>4, <1>5
  <2>3. \A row \in ToSet(Desired) :
           \/ row \in ToSet(insert)
           \/ /\ row.id \in DOMAIN stored
              /\ stored[row.id].index = row.index \/ row \in ToSet(reindex)
    BY <1>4
  <2> QED
    BY <1>1, <1>3, <1>4, <1>9, <2>1, <2>2, <2>3 DEF PlanHolds
<1>11. VectorsInOrder'
  <2>1. Len(vectors) = 0 /\ vectors \o texts = texts /\ Len(texts) \in Nat
    BY <1>2, <1>6
  <2> QED
    BY <1>1, <1>3, <1>5, <1>6, <1>7, <2>1 DEF VectorsInOrder
<1>12. Unplanned' /\ SyncedRows' /\ VectorsMatch' /\ SearchableThroughout'
  BY <1>1, <1>2, <1>9 DEF SyncInv, Unplanned, SyncedRows, VectorsMatch, SearchableThroughout
<1> QED
  BY <1>8, <1>10, <1>11, <1>12 DEF SyncInv

\* What a backend may answer: the whole request, or one vector too few.
LEMMA FrontType ==
    ASSUME NEW S, NEW s \in Seq(S)
    PROVE  /\ Front(s) \in Seq(S) /\ Len(Front(s)) \in Nat
           /\ (Len(s) = 0 => Front(s) = s)
           /\ (Len(s) # 0 => Len(Front(s)) = Len(s) - 1)
<1>1. CASE Len(s) = 0
  <2>1. s = <<>>
    BY <1>1, EmptySeq
  <2>2. SubSeq(s, 1, Len(s) - 1) = <<>>
    BY <1>1, <2>1, SubSeqProperties
  <2> QED
    BY <1>1, <2>1, <2>2 DEF Front
<1>2. CASE Len(s) # 0
  <2> DEFINE n == Len(s) - 1
  <2>1. 1 \in Int /\ n \in Int /\ n \in Nat /\ \A k \in 1..n : s[k] \in S
    BY <1>2
  <2> HIDE DEF n
  <2>2. SubSeq(s, 1, n) \in Seq(S) /\ Len(SubSeq(s, 1, n)) = IF 1 <= n THEN n - 1 + 1 ELSE 0
    BY <2>1, SubSeqProperties
  <2>3. Len(SubSeq(s, 1, n)) = n
    BY <2>1, <2>2
  <2> QED
    BY <1>2, <2>1, <2>2, <2>3 DEF Front, n
<1> QED
  BY <1>1, <1>2

\* An answered request brings the next vectors, in full or one too few; whichever
\* it is, the count shows it in the end.
LEMMA EmbedBatchSync == ASSUME SyncInv, EmbedBatch PROVE SyncInv'
<1> DEFINE request == Head(batches)
           rest == FlattenSeq(batches')
<1>1. /\ pc = "embed" /\ batches # <<>> /\ batches' = Tail(batches)
      /\ UNCHANGED <<stored, pc, chunks, plan, before>>
  BY DEF EmbedBatch
<1>2. PICK answer \in {request, Front(request)} : vectors' = vectors \o answer
  BY DEF EmbedBatch
<1>3. StateType /\ vectors \in Seq(Texts) /\ batches \in Seq(Seq(Texts))
      /\ plan.insert \in Seq(Rows)
  BY DEF SyncInv, StateType
<1>4. /\ request \in Seq(Texts) /\ rest \in Seq(Texts)
      /\ FlattenSeq(batches) = request \o rest
  BY <1>1, <1>3, FlattenHead
<1>5. answer \in Seq(Texts) /\ Len(answer) \in Nat
  BY <1>2, <1>4, FrontType
<1>6. batches' \in Seq(Seq(Texts)) /\ vectors' \in Seq(Texts)
  BY <1>1, <1>2, <1>3, <1>5
<1>7. StateType'
  BY <1>1, <1>3, <1>6 DEF StateType, Stores
<1>8. UNCHANGED <<Desired, DesiredIds>>
  BY <1>1 DEF Desired, DesiredIds
<1>9. VectorsInOrder'
  <2>1. /\ Len(vectors') = Len(vectors) + Len(answer)
        /\ Len(FlattenSeq(batches)) = Len(request) + Len(rest)
        /\ Len(vectors) \in Nat /\ Len(request) \in Nat /\ Len(rest) \in Nat
        /\ Len(plan.insert) \in Nat
    <3> HIDE DEF request, rest
    <3>1. \A u, v \in Seq(Texts) : Len(u) \in Nat /\ Len(u \o v) = Len(u) + Len(v)
      OBVIOUS
    <3> QED
      BY <1>2, <1>3, <1>4, <1>5, <3>1
  <2>2. Len(vectors) + Len(FlattenSeq(batches)) <= Len(plan.insert)
    BY <1>1 DEF SyncInv, VectorsInOrder
  <2>3. CASE answer = request
    <3>1. vectors' \o rest = vectors \o FlattenSeq(batches)
      <4>1. \A x, y, z \in Seq(Texts) : (x \o y) \o z = x \o (y \o z)
        BY ConcatAssociative
      <4> HIDE DEF request, rest
      <4>2. vectors \in Seq(Texts) /\ request \in Seq(Texts) /\ rest \in Seq(Texts)
        BY <1>3, <1>4
      <4>3. (vectors \o request) \o rest = vectors \o (request \o rest)
        BY <4>1, <4>2, Zenon
      <4>4. vectors' = vectors \o request /\ request \o rest = FlattenSeq(batches)
        BY <1>2, <1>4, <2>3
      <4> QED
        BY <4>3, <4>4, Zenon
    <3>2. Len(vectors') + Len(rest) = Len(vectors) + Len(FlattenSeq(batches))
      BY <2>1, <2>3
    <3> HIDE DEF request
    <3> QED
      BY <1>1, <3>1, <3>2 DEF SyncInv, VectorsInOrder
  <2>4. CASE answer # request
    <3>1. Len(answer) = Len(request) - 1
      BY <1>2, <1>4, <2>4, FrontType
    <3>2. Len(vectors') + Len(rest) < Len(plan.insert)
      <4> HIDE DEF request, rest
      <4> QED
        BY <1>5, <2>1, <2>2, <3>1
    <3>3. Len(vectors') + Len(rest) \in Nat
      <4> HIDE DEF request, rest
      <4> QED
        BY <1>5, <2>1
    <3> QED
      BY <1>1, <2>1, <3>2, <3>3 DEF VectorsInOrder
  <2> QED
    BY <2>3, <2>4
<1>10. Unplanned' /\ PlanHolds' /\ SyncedRows' /\ VectorsMatch' /\ SearchableThroughout'
  BY <1>1, <1>8 DEF SyncInv, Unplanned, PlanHolds, SyncedRows, VectorsMatch,
                    SearchableThroughout, DesiredIds, Desired
<1> QED
  BY <1>7, <1>9, <1>10 DEF SyncInv

\* From here on there is a vector for each row to insert, and it is the right one.
LEMMA EmbeddedSync == ASSUME SyncInv, Embedded PROVE SyncInv'
<1>1. /\ pc = "embed" /\ batches = <<>> /\ Len(vectors) = Len(plan.insert) /\ pc' = "write"
      /\ UNCHANGED <<stored, chunks, plan, batches, vectors, before>>
  BY DEF Embedded
<1>2. StateType /\ vectors \in Seq(Texts)
  BY DEF SyncInv, StateType
<1>3. StateType'
  BY <1>1, <1>2 DEF StateType, Stores
<1>4. UNCHANGED <<Desired, DesiredIds>>
  BY <1>1 DEF Desired, DesiredIds
<1>5. VectorsInOrder'
  <2>1. FlattenSeq(batches) = <<>>
    BY <1>1 DEF FlattenSeq
  <2>2. Len(<<>>) = 0 /\ Len(vectors) \in Nat /\ vectors \o <<>> = vectors
    BY <1>2
  <2> QED
    BY <1>1, <2>1, <2>2 DEF SyncInv, VectorsInOrder
<1>6. PlanHolds'
  BY <1>1, <1>4 DEF SyncInv, PlanHolds
<1>7. Unplanned' /\ SyncedRows' /\ VectorsMatch'
  BY <1>1 DEF SyncInv, Unplanned, SyncedRows, VectorsMatch
<1>8. SearchableThroughout'
  BY <1>1, <1>4 DEF SyncInv, SearchableThroughout
<1> QED
  BY <1>3, <1>5, <1>6, <1>7, <1>8 DEF SyncInv

\* The row at the head of a part of the plan, and the rows after it.
LEMMA HeadAndTail ==
    ASSUME NEW rows \in Seq(Rows), rows # <<>>, InOrder(rows)
    PROVE  /\ Head(rows) \in Rows /\ Head(rows) = rows[1] /\ 1 \in 1..Len(rows)
           /\ Tail(rows) \in Seq(Rows) /\ InOrder(Tail(rows))
           /\ Len(rows) \in Nat /\ Len(Tail(rows)) = Len(rows) - 1
           /\ ToSet(rows) = ToSet(Tail(rows)) \cup {Head(rows)}
           /\ \A i \in 1..Len(rows) : Head(rows).index <= rows[i].index
           /\ \A i \in 1..Len(Tail(rows)) :
                 /\ i + 1 \in 1..Len(rows) /\ Tail(rows)[i] = rows[i + 1]
                 /\ Tail(rows)[i].id # Head(rows).id
<1> DEFINE n == Len(rows)
           rest == Tail(rows)
<1>1. /\ Head(rows) \in Rows /\ Head(rows) = rows[1] /\ n \in Nat /\ 1 \in 1..n
      /\ rest \in Seq(Rows) /\ Len(rest) = n - 1
      /\ \A i \in 1..(n - 1) : rest[i] = rows[i + 1]
  OBVIOUS
<1>2. DOMAIN rows = 1..n /\ DOMAIN rest = 1..(n - 1)
  BY <1>1
<1> HIDE DEF n, rest
<1>3. \A i \in 1..(n - 1) : i + 1 \in 1..n /\ i + 1 # 1
  BY <1>1
<1>4. ASSUME NEW i \in 1..(n - 1) PROVE rest[i].id # Head(rows).id
  BY <1>1, <1>3 DEF InOrder, n
<1>5. ASSUME NEW i \in 1..(n - 1), NEW j \in 1..(n - 1), rest[i].id = rest[j].id PROVE i = j
  <2>1. rows[i + 1].id = rows[j + 1].id /\ i + 1 \in 1..n /\ j + 1 \in 1..n
    BY <1>1, <1>3, <1>5
  <2>2. i + 1 = j + 1
    BY <2>1 DEF InOrder, n
  <2> QED
    BY <2>2
<1>6. ASSUME NEW i \in 1..(n - 1), NEW j \in 1..(n - 1), i < j PROVE rest[i].index < rest[j].index
  <2>1. i + 1 < j + 1 /\ i + 1 \in 1..n /\ j + 1 \in 1..n
    BY <1>3, <1>6
  <2> QED
    BY <1>1, <2>1 DEF InOrder, n
<1>7. \A i \in 1..n : Head(rows).index <= rows[i].index
  <2>1. \A i \in 1..n : i = 1 \/ 1 < i
    BY <1>1
  <2>2. \A i \in 1..n : rows[i].index \in Nat
    <3>1. \A row \in Rows : row.index \in Nat
      BY Parameters DEF Rows
    <3>2. \A i \in 1..n : rows[i] \in Rows
      BY DEF n
    <3> QED
      BY <3>1, <3>2
  <2> QED
    BY <1>1, <2>1, <2>2 DEF InOrder, n
<1>8. ToSet(rows) = ToSet(rest) \cup {Head(rows)}
  <2>1. ToSet(rows) = {rows[i] : i \in 1..n} /\ ToSet(rest) = {rest[i] : i \in 1..(n - 1)}
    BY <1>2 DEF ToSet
  <2>2. \A i \in 1..n : i = 1 \/ (i - 1 \in 1..(n - 1) /\ (i - 1) + 1 = i)
    BY <1>1
  <2>3. \A i \in 1..n : i = 1 \/ (i - 1 \in 1..(n - 1) /\ rest[i - 1] = rows[i])
    BY <1>1, <2>2
  <2>4. ASSUME NEW row \in ToSet(rows) PROVE row = Head(rows) \/ row \in ToSet(rest)
    <3>1. PICK i \in 1..n : row = rows[i]
      BY <2>1
    <3> QED
      BY <1>1, <2>1, <2>3, <3>1
  <2>5. Head(rows) \in ToSet(rows)
    BY <1>1, <2>1
  <2>6. ASSUME NEW row \in ToSet(rest) PROVE row \in ToSet(rows)
    <3>1. PICK i \in 1..(n - 1) : row = rest[i]
      BY <2>1
    <3> QED
      BY <1>1, <1>3, <2>1, <3>1
  <2> QED
    BY <2>4, <2>5, <2>6
<1> QED
  BY <1>1, <1>3, <1>4, <1>5, <1>6, <1>7, <1>8 DEF InOrder, n, rest

\* Deleting a row the version lacks takes away nothing it has.
LEMMA DeleteSync == ASSUME SyncInv, NEW id \in plan.stale, DeleteStale(id) PROVE SyncInv'
<1>1. /\ pc = "write" /\ stored' = [x \in DOMAIN stored \ {id} |-> stored[x]]
      /\ plan' = [plan EXCEPT !.stale = @ \ {id}]
      /\ UNCHANGED <<pc, chunks, batches, vectors, before>>
  BY DEF DeleteStale
<1>2. StateType /\ plan.stale = DOMAIN stored \ DesiredIds
  BY <1>1 DEF SyncInv, PlanHolds
<1>3. plan'.stale = plan.stale \ {id} /\ plan'.insert = plan.insert /\ plan'.reindex = plan.reindex
  BY <1>1, <1>2 DEF StateType
<1>4. /\ DOMAIN stored' = DOMAIN stored \ {id} /\ id \notin DesiredIds
      /\ \A x \in DOMAIN stored' : stored'[x] = stored[x]
  BY <1>1, <1>2
<1>5. UNCHANGED <<Desired, DesiredIds>>
  BY <1>1 DEF Desired, DesiredIds
<1>6. \A row \in ToSet(Desired) : row.id # id
  BY <1>2, <1>4, DesiredFacts
<1>7. StateType'
  BY <1>1, <1>2 DEF StateType, Stores
<1>8. PlanHolds'
  <2>1. plan'.stale = DOMAIN stored' \ DesiredIds
    BY <1>2, <1>3, <1>4
  <2>2. \A i \in 1..Len(plan.reindex) :
           plan.reindex[i] \in ToSet(Desired) /\ plan.reindex[i].id \in DOMAIN stored'
    BY <1>1, <1>4, <1>6 DEF SyncInv, PlanHolds
  <2>3. \A row \in ToSet(Desired) :
           \/ row \in ToSet(plan.insert)
           \/ /\ row.id \in DOMAIN stored'
              /\ stored'[row.id].index = row.index \/ row \in ToSet(plan.reindex)
    BY <1>1, <1>4, <1>6 DEF SyncInv, PlanHolds
  <2> QED
    BY <1>1, <1>3, <1>4, <1>5, <2>1, <2>2, <2>3 DEF SyncInv, PlanHolds
<1>9. VectorsInOrder' /\ Unplanned' /\ SyncedRows' /\ VectorsMatch'
  BY <1>1, <1>3, <1>4 DEF SyncInv, VectorsInOrder, Unplanned, SyncedRows, VectorsMatch
<1>10. SearchableThroughout'
  BY <1>1, <1>4, <1>5 DEF SyncInv, SearchableThroughout, DesiredIds
<1> QED
  BY <1>7, <1>8, <1>9, <1>10 DEF SyncInv

\* Moving the first row of the plan settles it, and no other.
LEMMA ReindexSync == ASSUME SyncInv, Reindex PROVE SyncInv'
<1> DEFINE row == Head(plan.reindex)
<1>1. /\ pc = "write" /\ plan.reindex # <<>>
      /\ stored' = [stored EXCEPT ![row.id].index = row.index]
      /\ plan' = [plan EXCEPT !.reindex = Tail(@)]
      /\ UNCHANGED <<pc, chunks, batches, vectors, before>>
  BY DEF Reindex
<1>2. StateType /\ PlanHolds /\ plan.reindex \in Seq(Rows) /\ InOrder(plan.reindex)
  BY <1>1 DEF SyncInv, StateType, PlanHolds
<1>3. /\ plan'.stale = plan.stale /\ plan'.insert = plan.insert
      /\ plan'.reindex = Tail(plan.reindex)
  BY <1>1, <1>2 DEF StateType
<1>4. /\ row \in Rows /\ row = plan.reindex[1] /\ 1 \in 1..Len(plan.reindex)
      /\ plan'.reindex \in Seq(Rows) /\ InOrder(plan'.reindex)
      /\ ToSet(plan.reindex) = ToSet(plan'.reindex) \cup {row}
      /\ \A i \in 1..Len(plan'.reindex) :
            i + 1 \in 1..Len(plan.reindex) /\ plan'.reindex[i] = plan.reindex[i + 1]
  BY <1>1, <1>2, <1>3, HeadAndTail
<1> HIDE DEF row
<1>5. row \in ToSet(Desired) /\ row.id \in DOMAIN stored
  BY <1>1, <1>2, <1>4 DEF PlanHolds
<1>6. /\ DOMAIN stored' = DOMAIN stored /\ stored'[row.id].index = row.index
      /\ \A x \in DOMAIN stored : stored'[x].vector = stored[x].vector
      /\ \A x \in DOMAIN stored : x # row.id => stored'[x] = stored[x]
  BY <1>1, <1>2, <1>5 DEF StateType, Stores
<1>7. UNCHANGED <<Desired, DesiredIds>>
  BY <1>1 DEF Desired, DesiredIds
<1>8. StateType'
  <2>1. stored'[row.id] \in [index : 0..(MaxChunks - 1), vector : Texts]
    BY <1>1, <1>2, <1>4, <1>5, ZenonT(30) DEF StateType, Stores, Rows
  <2>2. Stores(stored')
    BY <1>1, <1>2, <1>5, <1>6, <2>1, ZenonT(30) DEF StateType, Stores
  <2>3. Stores(before')
    BY <1>1, <1>2 DEF StateType
  <2>4. plan' \in [stale : SUBSET ChunkIds, reindex : Seq(Rows), insert : Seq(Rows)]
    BY <1>1, <1>2, <1>3, <1>4 DEF StateType
  <2> QED
    BY <1>1, <1>2, <2>2, <2>3, <2>4 DEF StateType
<1>9. PlanHolds'
  <2>1. \A i \in 1..Len(plan'.reindex) :
           plan'.reindex[i] \in ToSet(Desired) /\ plan'.reindex[i].id \in DOMAIN stored
    BY <1>1, <1>2, <1>4 DEF PlanHolds
  <2>2. ASSUME NEW other \in ToSet(Desired)
        PROVE  \/ other \in ToSet(plan.insert)
               \/ /\ other.id \in DOMAIN stored
                  /\ stored'[other.id].index = other.index \/ other \in ToSet(plan'.reindex)
    <3>1. CASE other.id = row.id
      <4>1. other = row
        BY <1>2, <1>5, <3>1, DesiredFacts
      <4> QED
        BY <1>5, <1>6, <4>1
    <3>2. CASE other.id # row.id
      <4>1. other \in ToSet(plan.reindex) => other \in ToSet(plan'.reindex)
        BY <1>4, <3>2
      <4> QED
        BY <1>1, <1>2, <1>6, <3>2, <4>1 DEF PlanHolds
    <3> QED
      BY <3>1, <3>2
  <2>3. /\ plan'.stale = DOMAIN stored' \ DesiredIds /\ InOrder(plan'.insert)
        /\ \A i \in 1..Len(plan'.insert) :
              plan'.insert[i] \in ToSet(Desired) /\ plan'.insert[i].id \notin DOMAIN stored'
    BY <1>1, <1>2, <1>3, <1>6 DEF PlanHolds
  <2> QED
    BY <1>3, <1>4, <1>6, <1>7, <2>1, <2>2, <2>3 DEF PlanHolds
<1>10. VectorsInOrder' /\ Unplanned' /\ SyncedRows' /\ VectorsMatch'
  BY <1>1, <1>3, <1>6 DEF SyncInv, VectorsInOrder, Unplanned, SyncedRows, VectorsMatch
<1>11. SearchableThroughout'
  BY <1>1, <1>6, <1>7 DEF SyncInv, SearchableThroughout, DesiredIds
<1> QED
  BY <1>8, <1>9, <1>10, <1>11 DEF SyncInv

\* Inserting the first row of the plan settles it, under the vector of its text.
LEMMA InsertSync == ASSUME SyncInv, Insert PROVE SyncInv'
<1> DEFINE row == Head(plan.insert)
           stores(x) == IF x = row.id THEN [index |-> row.index, vector |-> Head(vectors)]
                                      ELSE stored[x]
<1>1. /\ pc = "write" /\ plan.insert # <<>> /\ row.id \notin DOMAIN stored
      /\ stored' = [x \in DOMAIN stored \cup {row.id} |-> stores(x)]
      /\ plan' = [plan EXCEPT !.insert = Tail(@)] /\ vectors' = Tail(vectors)
      /\ UNCHANGED <<pc, chunks, batches, before>>
  BY DEF Insert
<1>2. StateType /\ PlanHolds /\ plan.insert \in Seq(Rows) /\ InOrder(plan.insert)
  BY <1>1 DEF SyncInv, StateType, PlanHolds
<1>3. /\ plan'.stale = plan.stale /\ plan'.reindex = plan.reindex
      /\ plan'.insert = Tail(plan.insert)
  BY <1>1, <1>2 DEF StateType
<1>4. /\ row \in Rows /\ row = plan.insert[1] /\ 1 \in 1..Len(plan.insert)
      /\ plan'.insert \in Seq(Rows) /\ InOrder(plan'.insert)
      /\ Len(plan.insert) \in Nat /\ Len(plan'.insert) = Len(plan.insert) - 1
      /\ ToSet(plan.insert) = ToSet(plan'.insert) \cup {row}
      /\ \A i \in 1..Len(plan'.insert) :
            /\ i + 1 \in 1..Len(plan.insert) /\ plan'.insert[i] = plan.insert[i + 1]
            /\ plan'.insert[i].id # row.id
  BY <1>1, <1>2, <1>3, HeadAndTail
<1>5. /\ vectors \in Seq(Texts) /\ Len(vectors) = Len(plan.insert)
      /\ \A i \in 1..Len(plan.insert) : vectors[i] = plan.insert[i].text
  BY <1>1, <1>2 DEF SyncInv, StateType, VectorsInOrder
<1>6. /\ Head(vectors) \in Texts /\ Head(vectors) = vectors[1]
      /\ Tail(vectors) \in Seq(Texts) /\ Len(Tail(vectors)) = Len(vectors) - 1
      /\ \A i \in 1..(Len(vectors) - 1) : Tail(vectors)[i] = vectors[i + 1]
  <2>1. vectors # <<>>
    BY <1>4, <1>5
  <2> QED
    BY <1>5, <2>1
<1>7. /\ DOMAIN stored' = DOMAIN stored \cup {row.id}
      /\ stored'[row.id] = [index |-> row.index, vector |-> Head(vectors)]
      /\ \A x \in DOMAIN stored : stored'[x] = stored[x]
  BY <1>1
<1> HIDE DEF row
<1>8. row \in ToSet(Desired) /\ row.id \in DesiredIds /\ row.id[1] = row.text
  BY <1>1, <1>2, <1>4, DesiredFacts DEF PlanHolds
<1>9. UNCHANGED <<Desired, DesiredIds>>
  BY <1>1 DEF Desired, DesiredIds
<1>10. StateType'
  <2>1. stored'[row.id] \in [index : 0..(MaxChunks - 1), vector : Texts] /\ row.id \in ChunkIds
    BY <1>4, <1>6, <1>7 DEF Rows
  <2>2. Stores(stored')
    BY <1>1, <1>2, <1>7, <2>1 DEF StateType, Stores
  <2>3. Stores(before')
    BY <1>1, <1>2 DEF StateType
  <2>4. plan' \in [stale : SUBSET ChunkIds, reindex : Seq(Rows), insert : Seq(Rows)]
    BY <1>1, <1>2, <1>3, <1>4 DEF StateType
  <2> QED
    BY <1>1, <1>2, <1>6, <2>2, <2>3, <2>4 DEF StateType
<1>11. PlanHolds'
  <2>1. \A i \in 1..Len(plan'.insert) :
           plan'.insert[i] \in ToSet(Desired) /\ plan'.insert[i].id \notin DOMAIN stored'
    BY <1>1, <1>2, <1>4, <1>7 DEF PlanHolds
  <2>2. ASSUME NEW other \in ToSet(Desired)
        PROVE  \/ other \in ToSet(plan'.insert)
               \/ /\ other.id \in DOMAIN stored'
                  /\ stored'[other.id].index = other.index \/ other \in ToSet(plan.reindex)
    <3>1. CASE other = row
      BY <1>7, <3>1
    <3>2. CASE other # row
      BY <1>1, <1>2, <1>4, <1>7, <3>2 DEF PlanHolds
    <3> QED
      BY <3>1, <3>2
  <2>3. /\ plan'.stale = DOMAIN stored' \ DesiredIds /\ InOrder(plan'.reindex)
        /\ \A i \in 1..Len(plan'.reindex) :
              plan'.reindex[i] \in ToSet(Desired) /\ plan'.reindex[i].id \in DOMAIN stored'
    BY <1>1, <1>2, <1>3, <1>7, <1>8 DEF PlanHolds
  <2> QED
    BY <1>3, <1>4, <1>9, <2>1, <2>2, <2>3 DEF PlanHolds
<1>12. VectorsInOrder'
  <2>1. ASSUME NEW i \in 1..Len(plan'.insert) PROVE vectors'[i] = plan'.insert[i].text
    <3>1. i \in 1..(Len(vectors) - 1)
      BY <1>4, <1>5
    <3> QED
      BY <1>1, <1>4, <1>5, <1>6, <3>1
  <2>2. Len(vectors') = Len(plan'.insert)
    BY <1>1, <1>4, <1>5, <1>6
  <2> QED
    BY <1>1, <2>1, <2>2 DEF VectorsInOrder
<1>13. VectorsMatch'
  BY <1>4, <1>5, <1>6, <1>7, <1>8 DEF SyncInv, VectorsMatch
<1>14. SearchableThroughout'
  BY <1>1, <1>7, <1>8, <1>9 DEF SyncInv, SearchableThroughout, DesiredIds
<1>15. Unplanned' /\ SyncedRows'
  BY <1>1 DEF Unplanned, SyncedRows
<1> QED
  BY <1>10, <1>11, <1>12, <1>13, <1>14, <1>15 DEF SyncInv

\* With nothing left to do, the rows are the desired ones.
LEMMA ReturnSync == ASSUME SyncInv, Return PROVE SyncInv'
<1>1. /\ pc = "write" /\ plan = NoPlan /\ pc' = "done"
      /\ UNCHANGED <<stored, chunks, plan, batches, vectors, before>>
  BY DEF Return
<1>2. StateType /\ PlanHolds /\ plan.stale = {} /\ plan.insert = <<>> /\ plan.reindex = <<>>
  BY <1>1 DEF SyncInv, NoPlan
<1>3. ToSet(<<>>) = {}
  BY DEF ToSet
<1>4. \A row \in ToSet(Desired) :
         row.id \in DOMAIN stored /\ stored[row.id].index = row.index
  BY <1>1, <1>2, <1>3 DEF PlanHolds
<1>5. DOMAIN stored = DesiredIds
  <2>1. DOMAIN stored \subseteq DesiredIds
    BY <1>1, <1>2 DEF PlanHolds
  <2> QED
    BY <1>2, <1>4, <2>1, DesiredFacts
<1>6. \A i \in 1..Len(chunks) : Desired[i] \in ToSet(Desired)
  BY <1>2, DesiredFacts DEF ToSet
<1>7. UNCHANGED <<Desired, DesiredIds>>
  BY <1>1 DEF Desired, DesiredIds
<1>8. SyncedRows'
  BY <1>1, <1>4, <1>5, <1>6, <1>7 DEF SyncedRows
<1>9. StateType'
  BY <1>1, <1>2 DEF StateType, Stores
<1>10. Unplanned' /\ PlanHolds' /\ VectorsInOrder' /\ VectorsMatch' /\ SearchableThroughout'
  BY <1>1 DEF SyncInv, Unplanned, PlanHolds, VectorsInOrder, VectorsMatch, SearchableThroughout
<1> QED
  BY <1>8, <1>9, <1>10 DEF SyncInv

\* A call cut short leaves rows the next one can start from.
LEMMA RaiseSync == ASSUME SyncInv, Raise PROVE SyncInv'
<1>1. /\ pc' = "idle" /\ plan' = NoPlan /\ batches' = <<>> /\ vectors' = <<>>
      /\ UNCHANGED <<stored, chunks, before>>
  BY DEF Raise
<1>2. StateType'
  BY <1>1 DEF SyncInv, StateType, Stores, NoPlan
<1>3. /\ Unplanned' /\ PlanHolds' /\ VectorsInOrder' /\ SyncedRows' /\ VectorsMatch'
      /\ SearchableThroughout'
  BY <1>1 DEF SyncInv, Unplanned, PlanHolds, VectorsInOrder, SyncedRows, VectorsMatch,
              SearchableThroughout
<1> QED
  BY <1>2, <1>3 DEF SyncInv

\* Every step keeps the invariant.
LEMMA NextSync == ASSUME SyncInv, [Next]_vars PROVE SyncInv'
<1>1. ASSUME NEW n \in 0..MaxChunks, NEW texts \in [1..n -> Texts], Call(texts) PROVE SyncInv'
  BY <1>1, CallSync
<1>2. ASSUME NEW id \in plan.stale, DeleteStale(id) PROVE SyncInv'
  BY <1>2, DeleteSync
<1>3. CASE UNCHANGED vars
  BY <1>3 DEF vars, SyncInv, StateType, Stores, Unplanned, PlanHolds, VectorsInOrder, SyncedRows,
              VectorsMatch, SearchableThroughout, DesiredIds, Desired
<1> QED
  BY <1>1, <1>2, <1>3, FindSync, EmbedBatchSync, EmbeddedSync, ReindexSync, InsertSync,
     ReturnSync, RaiseSync DEF Next

\* SyncInv is an invariant.
LEMMA Synchronizes == Spec => []SyncInv
  BY InitSync, NextSync, PTL DEF Spec

-----------------------------------------------------------------------------
(* Counting rows *)

\* f pairs the elements of S with those of T.
Pairs(f, S, T) ==
    /\ f \in [S -> T]
    /\ \A x, y \in S : f[x] = f[y] => x = y
    /\ \A y \in T : \E x \in S : f[x] = y

\* Sets whose elements pair off have the same size.
LEMMA SameSize ==
    ASSUME NEW S, NEW T, IsFiniteSet(S), NEW f, Pairs(f, S, T)
    PROVE  IsFiniteSet(T) /\ Cardinality(T) = Cardinality(S)
<1>1. f \in Bijection(S, T)
  BY DEF Pairs, Bijection, Injection, Surjection, IsInjective
<1>2. ExistsBijection(S, T)
  BY <1>1 DEF ExistsBijection
<1> QED
  BY <1>2, FS_Bijection

\* Occurrences that leave no gap are the numbers below their count.
LEMMA WithoutGap ==
    ASSUME NEW K \in SUBSET Nat, IsFiniteSet(K), \A k \in K : \A l \in 0..k : l \in K
    PROVE  Cardinality(K) \in Nat /\ K = 0..(Cardinality(K) - 1)
<1> DEFINE m == Cardinality(K)
<1>1. m \in Nat
  BY FS_CardinalityType
<1>2. ASSUME NEW k \in K PROVE k + 1 <= m
  <2>1. 0 \in Int /\ k \in Int /\ ~(0 > k) /\ k - 0 + 1 = k + 1
    OBVIOUS
  <2>2. Cardinality(0..k) = k + 1
    BY <2>1, FS_Interval
  <2>3. 0..k \in SUBSET K
    OBVIOUS
  <2> QED
    BY <2>2, <2>3, FS_Subset
<1> HIDE DEF m
<1>3. K \in SUBSET (0..(m - 1))
  BY <1>1, <1>2
<1>4. IsFiniteSet(0..(m - 1)) /\ Cardinality(0..(m - 1)) = m
  <2>1. 0 \in Int /\ m - 1 \in Int
    BY <1>1
  <2> QED
    BY <1>1, <2>1, FS_Interval
<1>5. K = 0..(m - 1)
  BY <1>3, <1>4, FS_Subset DEF m
<1> QED
  BY <1>1, <1>5 DEF m

\* Of a text with c copies, the desired ids are those of occurrences 0 to c - 1.
LEMMA CopyNumbers ==
    ASSUME StateType, NEW t \in Texts
    PROVE  /\ CopiesOf(t) \in Nat
           /\ \A k \in Nat : <<t, k>> \in DesiredIds <=> k < CopiesOf(t)
<1> DEFINE n == Len(chunks)
           S == {i \in 1..n : chunks[i] = t}
           c == CopiesOf(t)
           occurrence == [i \in S |-> Occurrence(chunks, i)]
<1>1. n \in Nat /\ DOMAIN chunks = 1..n /\ chunks \in Seq(Texts)
  BY DEF StateType
<1>2. IsFiniteSet(S) /\ c = Cardinality(S) /\ c \in Nat
  <2>1. IsFiniteSet(1..n)
    BY <1>1, FS_Interval
  <2>2. IsFiniteSet(S)
    BY <2>1, FS_Subset
  <2>3. c = Cardinality(S)
    BY <1>1 DEF CopiesOf
  <2> QED
    BY <2>2, <2>3, FS_CardinalityType
<1>3. ASSUME NEW i \in S PROVE Occurrence(chunks, i) \in 0..(c - 1)
  <2> DEFINE Earlier == {j \in 1..(i - 1) : chunks[j] = chunks[i]}
  <2>1. Earlier \cup {i} \in SUBSET S /\ i \notin Earlier /\ Earlier \in SUBSET S
    BY <1>1
  <2>2. Occurrence(chunks, i) = Cardinality(Earlier)
    BY DEF Occurrence
  <2> HIDE DEF Earlier, S
  <2>3. IsFiniteSet(Earlier) /\ Cardinality(Earlier) \in Nat
    BY <1>2, <2>1, FS_Subset, FS_CardinalityType
  <2>4. Cardinality(Earlier \cup {i}) = Cardinality(Earlier) + 1
    BY <2>1, <2>3, FS_AddElement
  <2>5. Cardinality(Earlier \cup {i}) <= c
    BY <1>2, <2>1, FS_Subset
  <2> QED
    BY <1>2, <2>2, <2>3, <2>4, <2>5
<1>4. occurrence \in Injection(S, 0..(c - 1))
  <2>1. occurrence \in [S -> 0..(c - 1)]
    <3> HIDE DEF c
    <3> QED
      BY <1>3
  <2>2. ASSUME NEW i \in S, NEW j \in S, Occurrence(chunks, i) = Occurrence(chunks, j)
        PROVE  i = j
    <3>1. /\ Occurrence(chunks, i) \in Int /\ ~(i < j) /\ ~(j < i)
      BY <1>1, <2>2, OccurrenceGrows
    <3> QED
      BY <1>1, <3>1
  <2> QED
    BY <2>1, <2>2 DEF Injection, IsInjective
<1>5. IsFiniteSet(0..(c - 1)) /\ Cardinality(0..(c - 1)) = c
  <2> HIDE DEF c
  <2>1. 0 \in Int /\ c - 1 \in Int
    BY <1>2
  <2> QED
    BY <1>2, <2>1, FS_Interval
<1>6. \A k \in 0..(c - 1) : \E i \in S : Occurrence(chunks, i) = k
  <2>1. occurrence \in Surjection(S, 0..(c - 1))
    <3> HIDE DEF occurrence, S, c
    <3> QED
      BY <1>2, <1>4, <1>5, FS_Injection
  <2>2. \A k \in 0..(c - 1) : \E i \in S : occurrence[i] = k
    <3> HIDE DEF occurrence
    <3> QED
      BY <2>1 DEF Surjection
  <2> QED
    BY <2>2
<1>7. \A k \in Nat : <<t, k>> \in DesiredIds <=>
                     \E i \in 1..n : chunks[i] = t /\ Occurrence(chunks, i) = k
  <2>1. /\ DOMAIN Desired = 1..n
        /\ \A i \in 1..n : Desired[i].id = <<chunks[i], Occurrence(chunks, i)>>
    <3>1. Desired \in Seq(Rows) /\ Len(Desired) = n
      BY DesiredFacts
    <3> QED
      BY <3>1, DesiredType DEF StateType, Desired
  <2>2. DesiredIds = {<<chunks[i], Occurrence(chunks, i)>> : i \in 1..n}
    BY <2>1 DEF DesiredIds, IdsOf
  <2> QED
    BY <2>2
<1> HIDE DEF c
<1>8. \A k \in Nat : <<t, k>> \in DesiredIds <=> k < c
  <2>1. ASSUME NEW k \in Nat, <<t, k>> \in DesiredIds PROVE k < c
    BY <1>2, <1>3, <1>7, <2>1
  <2>2. ASSUME NEW k \in Nat, k < c PROVE <<t, k>> \in DesiredIds
    BY <1>2, <1>6, <1>7, <2>2
  <2> QED
    BY <2>1, <2>2
<1> QED
  BY <1>2, <1>8 DEF c

\* The same of the stored ids, where they leave no gap.
LEMMA StoredNumbers ==
    ASSUME StateType, NoGap, NEW t \in Texts
    PROVE  /\ StoredCopiesOf(t) \in Nat
           /\ \A k \in Nat : <<t, k>> \in DOMAIN before <=> k < StoredCopiesOf(t)
<1> DEFINE K == {k \in Nat : <<t, k>> \in DOMAIN before}
           T == {id \in DOMAIN before : id[1] = t}
           pair == [k \in K |-> <<t, k>>]
           m == StoredCopiesOf(t)
<1>1. DOMAIN before \subseteq ChunkIds /\ MaxChunks \in Nat
  BY Parameters DEF StateType, Stores
<1>2. K \in SUBSET (0..(MaxChunks - 1))
  BY <1>1 DEF ChunkIds
<1>3. IsFiniteSet(K)
  <2>1. 0 \in Int /\ MaxChunks - 1 \in Int
    BY <1>1
  <2>2. IsFiniteSet(0..(MaxChunks - 1))
    BY <2>1, FS_Interval
  <2> HIDE DEF K
  <2> QED
    BY <1>2, <2>2, FS_Subset
<1>4. Pairs(pair, K, T)
  <2>1. \A id \in T : id[2] \in K /\ id = <<t, id[2]>>
    BY <1>1 DEF ChunkIds
  <2> QED
    BY <2>1 DEF Pairs
<1>5. m = Cardinality(K)
  <2>1. m = Cardinality(T)
    BY DEF StoredCopiesOf
  <2> HIDE DEF pair, K, T
  <2> QED
    BY <1>3, <1>4, <2>1, SameSize
<1>6. \A k \in K : \A l \in 0..k : l \in K
  BY DEF NoGap
<1>7. m \in Nat /\ K = 0..(m - 1)
  <2>1. K \in SUBSET Nat
    OBVIOUS
  <2> HIDE DEF K
  <2> QED
    BY <1>3, <1>5, <1>6, <2>1, WithoutGap
<1>8. \A k \in Nat : k \in K <=> k < m
  <2> HIDE DEF K, m
  <2> QED
    BY <1>7
<1> QED
  BY <1>7, <1>8

-----------------------------------------------------------------------------
(* What every sync keeps *)

\* ChunkSync keeps its types, for every set of texts, bound and batch size.
THEOREM TypeCorrect == Spec => []TypeOK
<1>1. SyncInv => TypeOK
  <2> SUFFICES ASSUME SyncInv PROVE TypeOK
    OBVIOUS
  <2>1. StateType
    BY DEF SyncInv
  <2>2. plan.stale \subseteq DOMAIN stored
    <3>1. CASE pc \in {"idle", "find", "done"}
      BY <3>1 DEF SyncInv, Unplanned, NoPlan
    <3>2. CASE pc \in {"embed", "write"}
      BY <3>2 DEF SyncInv, PlanHolds
    <3> QED
      BY <2>1, <3>1, <3>2 DEF StateType
  <2> QED
    BY <2>1, <2>2 DEF StateType, Stores, ChunkIds, TypeOK
<1> QED
  BY <1>1, Synchronizes, PTL

\* sync_document_chunks pairs every stored vector with its own text: in whatever
\* batches they are asked for and however many calls were cut short before.
THEOREM VectorsEmbedTheirTexts == Spec => []VectorsMatch
<1>1. SyncInv => VectorsMatch
  BY DEF SyncInv
<1> QED
  BY <1>1, Synchronizes, PTL

\* Until everything is embedded a sync changes no row; then it takes away only
\* rows the new version lacks and adds only rows it has.
THEOREM CommonChunksStaySearchable == Spec => []SearchableThroughout
<1>1. SyncInv => SearchableThroughout
  BY DEF SyncInv
<1> QED
  BY <1>1, Synchronizes, PTL

\* A sync that returned left one row for each chunk, at its position, and no
\* other: from whatever rows it started.
THEOREM SyncedIsExact == Spec => []DoneIsExact
<1>1. SyncInv => DoneIsExact
  <2> SUFFICES ASSUME SyncInv, pc = "done"
               PROVE  /\ DOMAIN stored = IdsOf(Desired)
                      /\ Cardinality(DOMAIN stored) = Len(chunks)
                      /\ \A i \in DOMAIN chunks :
                            \E id \in DOMAIN stored : id[1] = chunks[i] /\ stored[id].index = i - 1
    BY DEF DoneIsExact
  <2> DEFINE n == Len(chunks)
             ids == [i \in 1..n |-> Desired[i].id]
  <2>1. /\ StateType /\ DOMAIN stored = DesiredIds
        /\ \A i \in 1..n : stored[Desired[i].id].index = Desired[i].index
    BY DEF SyncInv, SyncedRows
  <2>2. n \in Nat /\ DOMAIN chunks = 1..n
    BY <2>1 DEF StateType
  <2>3. /\ \A i, j \in 1..n : Desired[i].id = Desired[j].id => i = j
        /\ DesiredIds = {Desired[i].id : i \in 1..n}
    <3>1. Desired \in Seq(Rows) /\ Len(Desired) = n /\ InOrder(Desired)
      BY <2>1, DesiredFacts
    <3>2. DOMAIN Desired = 1..n
      BY <3>1
    <3> QED
      BY <3>1, <3>2 DEF InOrder, DesiredIds, IdsOf
  <2>4. Cardinality(DOMAIN stored) = n
    <3>1. IsFiniteSet(1..n) /\ Cardinality(1..n) = n
      <4>1. 1 \in Int /\ n \in Int
        BY <2>2
      <4>2. IsFiniteSet(1..n) /\ Cardinality(1..n) = IF 1 > n THEN 0 ELSE n - 1 + 1
        BY <4>1, FS_Interval
      <4> QED
        BY <2>2, <4>2
    <3>2. Pairs(ids, 1..n, DesiredIds)
      BY <2>3 DEF Pairs
    <3> HIDE DEF ids
    <3> QED
      BY <2>1, <3>1, <3>2, SameSize
  <2>5. \A i \in 1..n : Desired[i].index = i - 1 /\ Desired[i].id[1] = chunks[i]
    BY <2>1, DesiredType DEF StateType, Desired
  <2>6. ASSUME NEW i \in 1..n
        PROVE  \E id \in DOMAIN stored : id[1] = chunks[i] /\ stored[id].index = i - 1
    <3>1. Desired[i].id \in DOMAIN stored
      BY <2>1, <2>3
    <3> WITNESS Desired[i].id \in DOMAIN stored
    <3> QED
      BY <2>1, <2>5
  <2> QED
    BY <2>1, <2>2, <2>4, <2>6 DEF DesiredIds
<1> QED
  BY <1>1, Synchronizes, PTL

\* Of each text, exactly as many copies are embedded as the new version has more
\* of than the stored one, if no call cut short left a gap in the stored ones.
THEOREM OnlyNewIsEmbedded == Spec => []EmbedsOnlyNew
<1>1. SyncInv => EmbedsOnlyNew
  <2> SUFFICES ASSUME SyncInv, pc = "embed", NoGap, NEW t \in Texts
               PROVE  Cardinality({i \in DOMAIN plan.insert : plan.insert[i].text = t})
                        = IF CopiesOf(t) > StoredCopiesOf(t)
                          THEN CopiesOf(t) - StoredCopiesOf(t) ELSE 0
    BY DEF EmbedsOnlyNew
  <2> DEFINE insert == plan.insert
             S == {i \in DOMAIN insert : insert[i].text = t}
             c == CopiesOf(t)
             m == StoredCopiesOf(t)
             number == [i \in S |-> insert[i].id[2]]
  <2>1. StateType /\ PlanHolds /\ stored = before /\ insert \in Seq(Rows)
    BY DEF SyncInv, Unplanned, StateType
  <2>2. /\ c \in Nat /\ m \in Nat
        /\ \A k \in Nat : <<t, k>> \in DesiredIds <=> k < c
        /\ \A k \in Nat : <<t, k>> \in DOMAIN before <=> k < m
    BY <2>1, CopyNumbers, StoredNumbers
  <2> HIDE DEF c, m
  <2>3. DOMAIN insert = 1..Len(insert) /\ Len(insert) \in Nat
    BY <2>1
  <2>4. ASSUME NEW i \in S
        PROVE  /\ insert[i] \in ToSet(Desired) /\ insert[i].id \notin DOMAIN before
               /\ insert[i].id = <<t, insert[i].id[2]>> /\ insert[i].id[2] \in Nat
               /\ insert[i].id \in DesiredIds
    <3>1. insert[i] \in ToSet(Desired) /\ insert[i].id \notin DOMAIN before
      BY <2>1, <2>3 DEF PlanHolds
    <3>2. insert[i].id[1] = t /\ insert[i].id \in ChunkIds /\ insert[i].id \in DesiredIds
      BY <2>1, <3>1, DesiredFacts
    <3> QED
      BY <3>1, <3>2, Parameters DEF ChunkIds
  <2>5. Pairs(number, S, m..(c - 1))
    <3>1. number \in [S -> m..(c - 1)]
      <4>1. ASSUME NEW i \in S PROVE insert[i].id[2] \in m..(c - 1)
        <5> DEFINE k == insert[i].id[2]
        <5>1. k \in Nat /\ <<t, k>> \in DesiredIds /\ <<t, k>> \notin DOMAIN before
          BY <2>4
        <5> HIDE DEF k, S
        <5>2. k \in m..(c - 1)
          BY <2>2, <5>1
        <5> QED
          BY <5>2 DEF k
      <4> QED
        BY <4>1
    <3>2. ASSUME NEW i \in S, NEW j \in S, insert[i].id[2] = insert[j].id[2] PROVE i = j
      <4>1. insert[i].id = insert[j].id
        BY <2>4, <3>2
      <4> QED
        BY <2>1, <2>3, <4>1 DEF PlanHolds, InOrder
    <3>3. ASSUME NEW k \in m..(c - 1) PROVE \E i \in S : insert[i].id[2] = k
      <4>1. k \in Nat /\ <<t, k>> \in DesiredIds /\ <<t, k>> \notin DOMAIN before
        BY <2>2
      <4>2. PICK row \in ToSet(Desired) : row.id = <<t, k>>
        BY <2>1, <4>1, DesiredFacts
      <4>3. row \in ToSet(insert)
        BY <2>1, <4>1, <4>2 DEF PlanHolds
      <4>4. PICK i \in DOMAIN insert : insert[i] = row
        BY <4>3 DEF ToSet
      <4>5. row.text = t
        BY <2>1, <4>2, DesiredFacts
      <4> QED
        BY <4>2, <4>4, <4>5
    <3> QED
      BY <3>1, <3>2, <3>3 DEF Pairs
  <2>6. IsFiniteSet(S) /\ Cardinality(S) = Cardinality(m..(c - 1))
    <3>1. IsFiniteSet(1..Len(insert))
      BY <2>3, FS_Interval
    <3>2. IsFiniteSet(S)
      BY <2>3, <3>1, FS_Subset
    <3> HIDE DEF S, number
    <3> QED
      BY <2>5, <3>2, SameSize
  <2>7. Cardinality(m..(c - 1)) = IF c > m THEN c - m ELSE 0
    <3>1. m \in Int /\ c - 1 \in Int
      BY <2>2
    <3>2. Cardinality(m..(c - 1)) = IF m > c - 1 THEN 0 ELSE (c - 1) - m + 1
      BY <3>1, FS_Interval
    <3> QED
      BY <2>2, <3>2
  <2> QED
    BY <2>6, <2>7 DEF c, m
<1> QED
  BY <1>1, Synchronizes, PTL

-----------------------------------------------------------------------------
(* ChunkSync implements the reconciliation of Ingestion *)

\* The layout a version has for Ingestion: each desired row at its index.
LEMMA LayoutIsDesired ==
    ASSUME StateType
    PROVE  /\ chunks \in AllVersions
           /\ DOMAIN LayoutOf(chunks) = DesiredIds
           /\ \A row \in ToSet(Desired) : LayoutOf(chunks)[row.id] = row.index
<1> DEFINE n == Len(chunks)
           indexOf(id) == CHOOSE k \in 0..(n - 1) : Desired[k + 1].id = id
<1>1. n \in Nat /\ n \in 0..MaxChunks /\ chunks \in [1..n -> Texts]
  BY Parameters DEF StateType
<1>2. chunks \in AllVersions
  BY <1>1 DEF AllVersions
<1>3. LayoutOf(chunks) = [id \in DesiredIds |-> indexOf(id)]
  BY DEF LayoutOf, Desired, DesiredIds
<1>4. ASSUME NEW i \in 1..n PROVE Desired[i].index = i - 1 /\ indexOf(Desired[i].id) = i - 1
  <2>1. Desired[i].index = i - 1 /\ InOrder(Desired) /\ Len(Desired) = n
    BY DesiredType DEF StateType, Desired
  <2>2. i - 1 \in 0..(n - 1) /\ (i - 1) + 1 = i /\ \A k \in 0..(n - 1) : k + 1 \in 1..n
    BY <1>1
  <2>3. \A k \in 0..(n - 1) : Desired[k + 1].id = Desired[i].id => k = i - 1
    <3>1. ASSUME NEW k \in 0..(n - 1), Desired[k + 1].id = Desired[i].id PROVE k = i - 1
      <4>1. k + 1 = i
        BY <2>1, <2>2, <3>1 DEF InOrder
      <4> QED
        BY <4>1
    <3> QED
      BY <3>1
  <2> QED
    BY <2>1, <2>2, <2>3
<1>5. ASSUME NEW row \in ToSet(Desired) PROVE \E i \in 1..n : row = Desired[i]
  <2>1. DOMAIN Desired = 1..n
    BY DesiredFacts
  <2> QED
    BY <2>1 DEF ToSet
<1>6. \A row \in ToSet(Desired) : row.id \in DesiredIds
  BY DesiredFacts
<1> HIDE DEF indexOf
<1>7. \A row \in ToSet(Desired) : LayoutOf(chunks)[row.id] = row.index
  BY <1>3, <1>4, <1>5, <1>6
<1> QED
  BY <1>2, <1>3, <1>7


\* The ids of a list are those of its rows.
LEMMA IdsAre ==
    ASSUME NEW rows \in Seq(Rows)
    PROVE  IdsOf(rows) = {row.id : row \in ToSet(rows)}
  BY DEF IdsOf, ToSet

\* Find makes the plan Ingestion makes of the same rows.
LEMMA FindMaps == ASSUME SyncInv, Find PROVE I!FindExisting("doc")
<1> DEFINE layout == LayoutOf(chunks)
           missing == DesiredIds \ DOMAIN stored
           moved == {id \in DOMAIN stored \cap DesiredIds : stored[id].index # layout[id]}
<1>1. /\ pc = "find" /\ pc' = (IF plan'.insert = <<>> THEN "write" ELSE "embed")
      /\ UNCHANGED <<stored, chunks, vectors, before>>
  BY DEF Find
<1>2. StateType
  BY DEF SyncInv
<1>3. /\ chunks \in AllVersions /\ DOMAIN layout = DesiredIds
      /\ \A row \in ToSet(Desired) : layout[row.id] = row.index
      /\ DesiredIds = {row.id : row \in ToSet(Desired)}
  BY <1>2, LayoutIsDesired, DesiredFacts
<1> HIDE DEF layout
<1>4. /\ plan'.stale = DOMAIN stored \ DesiredIds
      /\ plan'.insert \in Seq(Rows) /\ plan'.reindex \in Seq(Rows)
      /\ ToSet(plan'.insert) = {row \in ToSet(Desired) : row.id \notin DOMAIN stored}
      /\ ToSet(plan'.reindex) = {row \in ToSet(Desired) : /\ row.id \in DOMAIN stored
                                                          /\ stored[row.id].index # row.index}
  BY <1>2, FindPlans
<1>5. IdsOf(plan'.insert) = missing
  BY <1>3, <1>4, IdsAre
<1>6. IdsOf(plan'.reindex) = moved
  BY <1>3, <1>4, IdsAre
<1>7. missing = {} <=> plan'.insert = <<>>
  <2>1. ASSUME NEW rows \in Seq(Rows) PROVE rows = <<>> <=> IdsOf(rows) = {}
    <3>1. CASE rows = <<>>
      BY <3>1 DEF IdsOf
    <3>2. CASE rows # <<>>
      <4>1. 1 \in DOMAIN rows
        BY <3>2
      <4> QED
        BY <3>2, <4>1 DEF IdsOf
    <3> QED
      BY <3>1, <3>2
  <2> QED
    BY <1>4, <1>5, <2>1
<1>8. MappedCall = [pc |-> "find", doc |-> "doc", stale |-> plan.stale,
                    moved |-> IdsOf(plan.reindex), missing |-> IdsOf(plan.insert)]
  BY <1>1 DEF MappedCall
<1>9. MappedCall' = [pc |-> IF missing = {} THEN "write" ELSE "embed", doc |-> "doc",
                     stale |-> DOMAIN stored \ DesiredIds, moved |-> moved, missing |-> missing]
  <2> HIDE DEF missing, moved
  <2> QED
    BY <1>1, <1>4, <1>5, <1>6, <1>7 DEF MappedCall
<1> QED
  BY <1>1, <1>3, <1>8, <1>9 DEF I!FindExisting, I!At, I!MovedRows, I!store, I!process, layout

\* A plan with nothing left has no ids.
LEMMA NoIds == IdsOf(<<>>) = {}
  BY DEF IdsOf

\* The first id of a part of the plan leaves it with the first row.
LEMMA HeadIds ==
    ASSUME NEW rows \in Seq(Rows), rows # <<>>, InOrder(rows)
    PROVE  /\ Head(rows).id \in IdsOf(rows)
           /\ IdsOf(Tail(rows)) = IdsOf(rows) \ {Head(rows).id}
<1>1. /\ Tail(rows) \in Seq(Rows) /\ ToSet(rows) = ToSet(Tail(rows)) \cup {Head(rows)}
      /\ \A i \in 1..Len(Tail(rows)) : Tail(rows)[i].id # Head(rows).id
  BY HeadAndTail
<1>2. DOMAIN Tail(rows) = 1..Len(Tail(rows))
  BY <1>1
<1>3. \A row \in ToSet(Tail(rows)) : row.id # Head(rows).id
  BY <1>1, <1>2 DEF ToSet
<1>4. /\ IdsOf(rows) = {row.id : row \in ToSet(rows)}
      /\ IdsOf(Tail(rows)) = {row.id : row \in ToSet(Tail(rows))}
  BY <1>1, IdsAre
<1> QED
  BY <1>1, <1>3, <1>4

\* The head of a part of the plan is the row Ingestion takes next.
LEMMA HeadIsFirst ==
    ASSUME StateType, NEW rows \in Seq(Rows), rows # <<>>, InOrder(rows),
           \A i \in 1..Len(rows) : rows[i] \in ToSet(Desired)
    PROVE  I!FirstOf(Head(rows).id, IdsOf(rows), LayoutOf(chunks))
<1>1. Head(rows) = rows[1] /\ 1 \in 1..Len(rows)
      /\ \A i \in 1..Len(rows) : Head(rows).index <= rows[i].index
  BY HeadAndTail
<1>2. DOMAIN rows = 1..Len(rows)
  OBVIOUS
<1>3. \A i \in 1..Len(rows) : LayoutOf(chunks)[rows[i].id] = rows[i].index
  BY LayoutIsDesired
<1>4. LayoutOf(chunks)[Head(rows).id] = Head(rows).index
  BY <1>1, <1>3
<1> QED
  BY <1>1, <1>2, <1>3, <1>4, HeadIds DEF I!FirstOf, IdsOf

\* Ingestion does not see the requests.
LEMMA EmbedMaps == ASSUME SyncInv, EmbedBatch PROVE UNCHANGED I!vars
<1>1. UNCHANGED <<stored, pc, chunks, plan, before>>
  BY DEF EmbedBatch
<1>2. UNCHANGED MappedCall
  BY <1>1 DEF MappedCall
<1> QED
  BY <1>1, <1>2 DEF I!vars

\* When all of them are answered, its embedding step is done.
LEMMA EmbeddedMaps == ASSUME SyncInv, Embedded PROVE I!Embed("doc")
<1>1. pc = "embed" /\ pc' = "write" /\ UNCHANGED <<stored, chunks, plan>>
  BY DEF Embedded
<1>2. MappedCall' = [MappedCall EXCEPT !.pc = "write"] /\ MappedCall.pc = "embed"
  BY <1>1 DEF MappedCall
<1> HIDE DEF MappedCall
<1> QED
  BY <1>1, <1>2 DEF I!Embed, I!At, I!Goto, I!store, I!process

\* A deletion is a deletion there.
LEMMA DeleteMaps ==
    ASSUME SyncInv, NEW id \in plan.stale, DeleteStale(id)
    PROVE  I!DeleteStale("doc", id)
<1>1. /\ pc = "write" /\ stored' = [x \in DOMAIN stored \ {id} |-> stored[x]]
      /\ plan' = [plan EXCEPT !.stale = @ \ {id}] /\ UNCHANGED <<pc, chunks>>
  BY DEF DeleteStale
<1>2. /\ plan'.stale = plan.stale \ {id}
      /\ plan'.reindex = plan.reindex /\ plan'.insert = plan.insert
  BY <1>1 DEF SyncInv, StateType
<1> DEFINE moved == IdsOf(plan.reindex)
           missing == IdsOf(plan.insert)
<1>3. /\ MappedCall = [pc |-> "write", doc |-> "doc", stale |-> plan.stale,
                       moved |-> moved, missing |-> missing]
      /\ MappedCall' = [pc |-> "write", doc |-> "doc", stale |-> plan.stale \ {id},
                        moved |-> moved, missing |-> missing]
  BY <1>1, <1>2 DEF MappedCall
<1> HIDE DEF moved, missing
<1>4. [x \in DOMAIN stored' |-> stored'[x].index]
        = I!Drop([x \in DOMAIN stored |-> stored[x].index], id)
  BY <1>1 DEF I!Drop
<1> QED
  BY <1>1, <1>3, <1>4 DEF I!DeleteStale, I!At, I!process

\* So is a move, of the row that is first in order.
LEMMA ReindexMaps == ASSUME SyncInv, Reindex PROVE \E id \in ChunkIds : I!Reindex("doc", id)
<1> DEFINE row == Head(plan.reindex)
           layout == LayoutOf(chunks)
           indexes == [x \in DOMAIN stored |-> stored[x].index]
<1>1. /\ pc = "write" /\ plan.stale = {} /\ plan.reindex # <<>>
      /\ stored' = [stored EXCEPT ![row.id].index = row.index]
      /\ plan' = [plan EXCEPT !.reindex = Tail(@)] /\ UNCHANGED <<pc, chunks>>
  BY DEF Reindex
<1>2. StateType /\ PlanHolds /\ plan.reindex \in Seq(Rows) /\ InOrder(plan.reindex)
  BY <1>1 DEF SyncInv, StateType, PlanHolds
<1>3. /\ plan'.stale = plan.stale /\ plan'.insert = plan.insert
      /\ plan'.reindex = Tail(plan.reindex)
  BY <1>1, <1>2 DEF StateType
<1>4. \A i \in 1..Len(plan.reindex) :
         plan.reindex[i] \in ToSet(Desired) /\ plan.reindex[i].id \in DOMAIN stored
  BY <1>1, <1>2 DEF PlanHolds
<1>5. /\ IdsOf(plan'.reindex) = IdsOf(plan.reindex) \ {row.id}
      /\ I!FirstOf(row.id, IdsOf(plan.reindex), layout)
  BY <1>1, <1>2, <1>3, <1>4, HeadIds, HeadIsFirst
<1>6. row \in ToSet(Desired) /\ row.id \in DOMAIN stored /\ row \in Rows
  BY <1>1, <1>2, <1>4, HeadAndTail
<1>7. chunks \in AllVersions /\ layout[row.id] = row.index
  BY <1>2, <1>6, LayoutIsDesired
<1> HIDE DEF row, layout
<1>8. [x \in DOMAIN stored' |-> stored'[x].index] = I!Put(indexes, row.id, layout[row.id])
  <2>1. /\ DOMAIN stored' = DOMAIN stored /\ stored'[row.id].index = row.index
        /\ \A x \in DOMAIN stored : x # row.id => stored'[x] = stored[x]
    BY <1>1, <1>2, <1>6 DEF StateType, Stores
  <2> QED
    BY <1>6, <1>7, <2>1 DEF I!Put
<1> DEFINE missing == IdsOf(plan.insert)
<1>9. /\ MappedCall = [pc |-> "write", doc |-> "doc", stale |-> {},
                       moved |-> IdsOf(plan.reindex), missing |-> missing]
      /\ MappedCall' = [pc |-> "write", doc |-> "doc", stale |-> {},
                        moved |-> IdsOf(plan.reindex) \ {row.id}, missing |-> missing]
  BY <1>1, <1>3, <1>5 DEF MappedCall
<1> HIDE DEF missing
<1>10. PICK id \in ChunkIds : id = row.id
  BY <1>6 DEF Rows
<1>11. I!Reindex("doc", id)
  BY <1>1, <1>5, <1>6, <1>7, <1>8, <1>9, <1>10 DEF I!Reindex, I!At, I!process, layout, indexes
<1> QED
  BY <1>11

\* And an insertion.
LEMMA InsertMaps == ASSUME SyncInv, Insert PROVE \E id \in ChunkIds : I!InsertChunk("doc", id)
<1> DEFINE row == Head(plan.insert)
           layout == LayoutOf(chunks)
           indexes == [x \in DOMAIN stored |-> stored[x].index]
<1>1. /\ pc = "write" /\ plan.stale = {} /\ plan.reindex = <<>> /\ plan.insert # <<>>
      /\ row.id \notin DOMAIN stored
      /\ stored' = [x \in DOMAIN stored \cup {row.id} |->
                      IF x = row.id THEN [index |-> row.index, vector |-> Head(vectors)]
                                    ELSE stored[x]]
      /\ plan' = [plan EXCEPT !.insert = Tail(@)] /\ UNCHANGED <<pc, chunks>>
  BY DEF Insert
<1>2. StateType /\ PlanHolds /\ plan.insert \in Seq(Rows) /\ InOrder(plan.insert)
  BY <1>1 DEF SyncInv, StateType, PlanHolds
<1>3. /\ plan'.stale = plan.stale /\ plan'.reindex = plan.reindex
      /\ plan'.insert = Tail(plan.insert)
  BY <1>1, <1>2 DEF StateType
<1>4. \A i \in 1..Len(plan.insert) : plan.insert[i] \in ToSet(Desired)
  BY <1>1, <1>2 DEF PlanHolds
<1>5. /\ IdsOf(plan'.insert) = IdsOf(plan.insert) \ {row.id}
      /\ I!FirstOf(row.id, IdsOf(plan.insert), layout)
  BY <1>1, <1>2, <1>3, <1>4, HeadIds, HeadIsFirst
<1>6. row \in ToSet(Desired) /\ row \in Rows
  BY <1>1, <1>2, <1>4, HeadAndTail
<1>7. chunks \in AllVersions /\ layout[row.id] = row.index
  BY <1>2, <1>6, LayoutIsDesired
<1> HIDE DEF row, layout
<1>8. [x \in DOMAIN stored' |-> stored'[x].index] = I!Put(indexes, row.id, layout[row.id])
  BY <1>1, <1>7 DEF I!Put
<1>9. /\ MappedCall = [pc |-> "write", doc |-> "doc", stale |-> {}, moved |-> {},
                       missing |-> IdsOf(plan.insert)]
      /\ MappedCall' = [pc |-> "write", doc |-> "doc", stale |-> {}, moved |-> {},
                        missing |-> IdsOf(plan.insert) \ {row.id}]
  BY <1>1, <1>3, <1>5, NoIds DEF MappedCall
<1>10. PICK id \in ChunkIds : id = row.id
  BY <1>6 DEF Rows
<1>11. I!InsertChunk("doc", id)
  BY <1>1, <1>5, <1>7, <1>8, <1>9, <1>10 DEF I!InsertChunk, I!At, I!process, layout, indexes
<1> QED
  BY <1>11

\* The call returns, and the pipeline goes on to set `ready`.
LEMMA ReturnMaps == ASSUME SyncInv, Return PROVE I!SetReady("doc")
<1>1. pc = "write" /\ plan = NoPlan /\ pc' = "done" /\ UNCHANGED <<stored, chunks>>
  BY DEF Return
<1>2. MappedCall = [pc |-> "write", doc |-> "doc", stale |-> {}, moved |-> {}, missing |-> {}]
  BY <1>1, NoIds DEF MappedCall, NoPlan
<1>3. MappedCall' = NoCall
  BY <1>1 DEF MappedCall
<1> HIDE DEF MappedCall
<1> QED
  BY <1>1, <1>2, <1>3 DEF I!SetReady, I!At, I!Finish, I!Idle, I!Call, I!process, NoCall

\* The call raises, and process_document with it.
LEMMA RaiseMaps == ASSUME SyncInv, Raise PROVE I!StepRaises("doc")
<1>1. /\ pc \in {"find", "embed", "write"} /\ pc' = "idle" /\ plan' = NoPlan
      /\ UNCHANGED <<stored, chunks>>
  BY DEF Raise
<1>2. MappedCall.pc = pc /\ MappedCall.doc = "doc"
  BY <1>1 DEF MappedCall
<1>3. MappedCall' = I!Call("handler", "doc")
  BY <1>1, NoIds DEF MappedCall, NoPlan, I!Call
<1> HIDE DEF MappedCall
<1> QED
  BY <1>1, <1>2, <1>3 DEF I!StepRaises, I!At, I!Abort, I!store, I!process

\* Every step of a sync, with its batches, repeated texts and interrupted calls,
\* is a step of the reconciliation Ingestion abstracts, or none.
THEOREM SyncImplementsReconciliation == Spec => Reconciles
<1>1. ASSUME SyncInv, [Next]_vars PROVE [ReconciliationStep]_I!vars
  <2>1. CASE \E n \in 0..MaxChunks : \E texts \in [1..n -> Texts] : Call(texts)
    BY <2>1 DEF Call, NextCall, ReconciliationStep
  <2>2. CASE Find
    BY <1>1, <2>2, FindMaps DEF ReconciliationStep
  <2>3. CASE EmbedBatch
    BY <1>1, <2>3, EmbedMaps
  <2>4. CASE Embedded
    BY <1>1, <2>4, EmbeddedMaps DEF ReconciliationStep
  <2>5. ASSUME NEW id \in plan.stale, DeleteStale(id) PROVE ReconciliationStep
    <3>1. id \in ChunkIds
      BY <1>1 DEF SyncInv, StateType
    <3> QED
      BY <1>1, <2>5, <3>1, DeleteMaps DEF ReconciliationStep
  <2>6. CASE Reindex
    BY <1>1, <2>6, ReindexMaps DEF ReconciliationStep
  <2>7. CASE Insert
    BY <1>1, <2>7, InsertMaps DEF ReconciliationStep
  <2>8. CASE Return
    BY <1>1, <2>8, ReturnMaps DEF ReconciliationStep
  <2>9. CASE Raise
    BY <1>1, <2>9, RaiseMaps DEF ReconciliationStep
  <2>10. CASE UNCHANGED vars
    <3>1. UNCHANGED <<stored, pc, chunks, plan>>
      BY <2>10 DEF vars
    <3>2. UNCHANGED MappedCall
      BY <3>1 DEF MappedCall
    <3> QED
      BY <3>1, <3>2 DEF I!vars
  <2> QED
    BY <1>1, <2>1, <2>2, <2>3, <2>4, <2>5, <2>6, <2>7, <2>8, <2>9, <2>10 DEF Next
<1> QED
  BY <1>1, Synchronizes, PTL DEF Spec, Reconciles

=============================================================================
