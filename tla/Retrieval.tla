------------------------------ MODULE Retrieval ------------------------------
(***************************************************************************)
(* search: the three pipelines of retrieval_service, by what their stages  *)
(* do to the two rankings Atlas computes.  A ranking lists stored chunks,  *)
(* best first; $vectorSearch and $search are external, so any list is      *)
(* possible, and the two need not even know the same chunks (each index is *)
(* built on its own time).  What a ranking depends on, other users' chunks *)
(* included, is not modelled.  Fused scores are exact fractions <<n, d>>.  *)
(***************************************************************************)
EXTENDS Integers, FiniteSets, Sequences, SequencesExt, ListOps

CONSTANTS
    Chunks, Users, Documents, \* a chunk is its _id, a number
    Limits,                   \* what a request may ask for
    Owner, DocumentOf,        \* of each chunk
    NoLimit, NoDocument, NoMode, NoScore,
    DefaultLimit, MaxLimit,   \* settings.search_default_limit, _max_limit
    DefaultMode,              \* settings.search_default_mode
    FetchMultiplier,          \* settings.search_fetch_multiplier
    MaxFetchK,                \* _MAX_FETCH_K
    RrfK,                     \* settings.search_rrf_k
    VectorWeight, TextWeight  \* settings.search_*_weight, as multiples of some unit

Modes == {"vector", "text", "hybrid"}

\* config.py refuses any other default mode, but leaves the numbers to whoever sets
\* them; Atlas takes no limit below 1.
ASSUME Parameters ==
    /\ Chunks \subseteq Nat /\ Limits \subseteq Int \cup {NoLimit}
    /\ Owner \in [Chunks -> Users] /\ DocumentOf \in [Chunks -> Documents]
    /\ {DefaultLimit, MaxFetchK} \subseteq Nat \ {0}
    /\ {MaxLimit, FetchMultiplier, RrfK, VectorWeight, TextWeight} \subseteq Nat
    /\ DefaultMode \in Modes /\ NoMode \notin Modes
    /\ NoScore \notin {"vector", "text"} \X Chunks

Least(a, b) == IF a <= b THEN a ELSE b
Most(a, b) == IF a <= b THEN b ELSE a

ResolveLimit(limit) ==
    IF limit = NoLimit THEN DefaultLimit ELSE Most(1, Least(limit, MaxLimit))

\* Nothing is searched for a mode outside Modes: a ValueError.
ResolveMode(mode) == IF mode = NoMode THEN DefaultMode ELSE mode

\* What each leg fetches: more than is shown, up to a ceiling.
FetchK(limit) == Least(Most(limit, limit * FetchMultiplier), MaxFetchK)

-----------------------------------------------------------------------------
\* The stages.

First(n, ranking) == SubSeq(ranking, 1, Least(n, Len(ranking)))

\* _search_filter, and compound.filter of the lexical leg.
Scope(user, document) ==
    {c \in Chunks : Owner[c] = user /\ (document # NoDocument => DocumentOf[c] = document)}

\* Slip: the scope is a $match after the limit.
ScopeLast(ranking, user, document, n) == Only(First(n, ranking), Scope(user, document))

\* One leg: the search itself is scoped, and then limited.
Leg(ranking, user, document, n) == First(n, Only(ranking, Scope(user, document)))

RankIn(leg, c) == CHOOSE i \in DOMAIN leg : leg[i] = c

\* weight / (k + rank), or 0 from a leg that did not find the chunk.
Term(leg, weight, c) ==
    IF c \in ToSet(leg) THEN <<weight, RrfK + RankIn(leg, c)>> ELSE <<0, 1>>

Plus(x, y) == <<x[1] * y[2] + y[1] * x[2], x[2] * y[2]>>
Above(x, y) == x[1] * y[2] > y[1] * x[2]

\* Slips: a missing term makes the sum missing; the row keeps its first leg's
\* term only.
NullScore(vectorLeg, textLeg, c) ==
    IF c \in ToSet(vectorLeg) \cap ToSet(textLeg)
    THEN Plus(Term(vectorLeg, VectorWeight, c), Term(textLeg, TextWeight, c))
    ELSE <<0, 1>>
FirstScore(vectorLeg, textLeg, c) ==
    IF c \in ToSet(vectorLeg)
    THEN Term(vectorLeg, VectorWeight, c) ELSE Term(textLeg, TextWeight, c)

FusedScore(vectorLeg, textLeg, c) ==
    Plus(Term(vectorLeg, VectorWeight, c), Term(textLeg, TextWeight, c))

\* The score a leg gives a chunk in this answer, by whose score of what it is.  The
\* number, a cosine or a BM25 that depends on all of the corpus, is left out.
Native(leg, c) == <<leg, c>>

\* Which legs' rows of a chunk reach $group, and what stands in such a row's field
\* for the score of leg `name`: the other leg's row has none.
Copies(vectorLeg, textLeg, c) ==
    {leg \in {"vector", "text"} :
        c \in ToSet(IF leg = "vector" THEN vectorLeg ELSE textLeg)}
Field(name, copy, c) == IF copy = name THEN Native(name, c) ELSE NoScore

\* Slip: $first, the field as the vector leg's row has it, if there is one.
FirstScoreOf(name, copies, c) ==
    Field(name, IF "vector" \in copies THEN "vector" ELSE "text", c)

\* $max of the field over the rows of a chunk: a missing one counts for nothing.
CarriedScore(name, copies, c) ==
    LET present == {Field(name, copy, c) : copy \in copies} \ {NoScore}
    IN IF present = {} THEN NoScore ELSE CHOOSE score \in present : TRUE

Row(c, score, vectorScore, textScore) ==
    [id |-> c, score |-> score, vector_score |-> vectorScore, text_score |-> textScore]

FusedRow(vectorLeg, textLeg, c) ==
    LET copies == Copies(vectorLeg, textLeg, c)
    IN Row(c, FusedScore(vectorLeg, textLeg, c),
           CarriedScore("vector", copies, c), CarriedScore("text", copies, c))

\* Slip: the rows of the two legs are not grouped.
Ungrouped(vectorLeg, textLeg) ==
    {FusedRow(vectorLeg, <<>>, c) : c \in ToSet(vectorLeg)}
        \cup {FusedRow(<<>>, textLeg, c) : c \in ToSet(textLeg)}

\* $unionWith and $group: a chunk both legs found is one row, and the rows are in
\* no order.
Merged(vectorLeg, textLeg) ==
    {FusedRow(vectorLeg, textLeg, c) : c \in ToSet(vectorLeg) \cup ToSet(textLeg)}

\* {"score": -1, "_id": 1}.
Before(x, y) ==
    \/ Above(x.score, y.score)
    \/ ~Above(y.score, x.score) /\ x.id < y.id

\* $sort: fewer than k rows must stand before the k-th, and k may, itself included.
StandsAt(x, k, rows) ==
    /\ Cardinality({y \in rows : Before(y, x)}) < k
    /\ k <= Cardinality({y \in rows : ~Before(x, y)})
Sorted(rows) == [k \in 1..Cardinality(rows) |-> CHOOSE x \in rows : StandsAt(x, k, rows)]

-----------------------------------------------------------------------------
\* The pipelines, and search.

\* A single leg keeps its own order, and its score is `score`.
SingleLeg(name, ranking, user, document, limit) ==
    LET leg == Leg(ranking, user, document, limit)
    IN [i \in DOMAIN leg |-> Row(leg[i], Native(name, leg[i]), NoScore, NoScore)]

Hybrid(byVector, byText, user, document, limit) ==
    First(limit, Sorted(Merged(Leg(byVector, user, document, FetchK(limit)),
                               Leg(byText, user, document, FetchK(limit)))))

Search(byVector, byText, request) ==
    LET limit == ResolveLimit(request.limit)
        mode == ResolveMode(request.mode)
        user == request.user
        document == request.document
    IN CASE mode = "text" -> SingleLeg("text", byText, user, document, limit)
         [] mode = "vector" -> SingleLeg("vector", byVector, user, document, limit)
         [] OTHER -> Hybrid(byVector, byText, user, document, limit)

-----------------------------------------------------------------------------
\* POST /search.

\* SearchRequest; a document that is no ObjectId is left to the schema.
Valid(request) ==
    /\ ~request.empty
    /\ request.limit # NoLimit => request.limit >= 1
    /\ request.mode \in Modes \cup {NoMode}

\* search_chunks.  Without a vector for the query there is an error and no
\* answer from the other leg; text alone asks for none.
Respond(byVector, byText, request, embedderUp) ==
    CASE ~Valid(request) -> [status |-> 422]
      [] Valid(request) /\ ResolveMode(request.mode) # "text" /\ ~embedderUp ->
            [status |-> 500]
      [] OTHER -> [status |-> 200, mode |-> ResolveMode(request.mode),
                   results |-> Search(byVector, byText, request)]

-----------------------------------------------------------------------------
\* What the two indexes answer a query with: any rankings, grown chunk by chunk.

VARIABLES nearest, matching
rankings == <<nearest, matching>>

Init == nearest = <<>> /\ matching = <<>>
FoundByVector(c) ==
    /\ c \notin ToSet(nearest)
    /\ nearest' = Append(nearest, c) /\ UNCHANGED matching
FoundByText(c) ==
    /\ c \notin ToSet(matching)
    /\ matching' = Append(matching, c) /\ UNCHANGED nearest
Next == \E c \in Chunks : FoundByVector(c) \/ FoundByText(c)
Spec == Init /\ [][Next]_rankings

Requests ==
    [user : Users, document : Documents \cup {NoDocument}, empty : {FALSE},
     limit : Limits, mode : Modes \cup {NoMode}]
HybridRequests == {r \in Requests : ResolveMode(r.mode) = "hybrid"}

Ids(result) == [i \in DOMAIN result |-> result[i].id]

-----------------------------------------------------------------------------
(* Properties *)

\* The scope comes before the limit, in both legs (retrieval_service.py:39-42):
\* nothing out of scope is shown, and of two given rankings the chunks out of
\* scope take nobody's place, at the legs' limits or at the last one: the same
\* chunks are shown, in the same order, as if the rankings listed those in scope
\* alone.  It says nothing of scores, nor of what other users' chunks do to the
\* rankings: BM25 depends on the corpus (lines 19-20), which tenants share.
ScopeBeforeLimit ==
    \A r \in Requests :
        LET scope == Scope(r.user, r.document)
            shown == Ids(Search(nearest, matching, r))
        IN /\ ToSet(shown) \subseteq scope
           /\ shown = Ids(Search(Only(nearest, scope), Only(matching, scope), r))

\* A chunk appears once, the order is by score and then by id, so that equal
\* rankings give equal lists (retrieval_service.py:301-303, 345), as many as were
\* asked for are shown if there are, and nothing fetched and left out beats one.
BestFirst ==
    \A r \in HybridRequests :
        LET shown == Search(nearest, matching, r)
            limit == ResolveLimit(r.limit)
            found == (ToSet(nearest) \cup ToSet(matching)) \cap Scope(r.user, r.document)
            vectorLeg == Leg(nearest, r.user, r.document, FetchK(limit))
            textLeg == Leg(matching, r.user, r.document, FetchK(limit))
        IN /\ \A i, j \in DOMAIN shown : i < j =>
                 /\ shown[i].id # shown[j].id
                 /\ ~Above(shown[j].score, shown[i].score)
                 /\ Above(shown[i].score, shown[j].score) \/ shown[i].id < shown[j].id
           /\ Len(shown) = Least(Cardinality(found), limit)
           /\ \A c \in (ToSet(vectorLeg) \cup ToSet(textLeg)) \ ToSet(Ids(shown)) :
                 \A y \in ToSet(shown) : ~Above(FusedScore(vectorLeg, textLeg, c), y.score)

\* x is at least as well placed in a leg as y.
NotBehind(ranking, x, y) ==
    y \in ToSet(ranking) => x \in ToSet(ranking) /\ RankIn(ranking, x) <= RankIn(ranking, y)

\* Agreement of the legs compounds (retrieval_service.py:15-16): a chunk neither
\* leg places behind another is not behind it in the fusion either.
AgreementCompounds ==
    \A r \in HybridRequests :
        LET ids == Ids(Search(nearest, matching, r)) IN
        \A y \in ToSet(ids) :
            \A x \in ToSet(nearest) \cup ToSet(matching) :
                x \in Scope(r.user, r.document)
                /\ NotBehind(nearest, x, y) /\ NotBehind(matching, x, y)
                    => x \in ToSet(ids) /\ RankIn(ids, x) <= RankIn(ids, y)

\* Either leg alone can surface a chunk: where the other finds nothing, hybrid
\* lists exactly what the one leg lists, if the index ranks alike for both: hybrid
\* asks it for more candidates (line 147).
EitherLegSuffices ==
    \A r \in HybridRequests :
        /\ Ids(Search(nearest, <<>>, r))
             = Ids(Search(nearest, <<>>, [r EXCEPT !.mode = "vector"]))
        /\ Ids(Search(<<>>, matching, r))
             = Ids(Search(<<>>, matching, [r EXCEPT !.mode = "text"]))

\* Who reads the answer can tell from it how each row was found, by its mode and
\* scores alone (schemas/search.py:62-78): in hybrid mode a leg's score is there
\* if and only if the leg fetched the chunk, never none of the two; in the others
\* there is one score, that of the leg that ran.  Text search answers without the
\* embedder, and nothing answers with one leg in place of two.
AnswerTellsItsLegs ==
    \A r \in Requests, up \in BOOLEAN :
        LET answer == Respond(nearest, matching, r, up)
            fetched == FetchK(ResolveLimit(r.limit))
            in(leg, c) == c \in ToSet(Leg(leg, r.user, r.document, fetched))
        IN
        /\ answer.status = 500 => ~up /\ r.mode # "text"
        /\ answer.status = 200 =>
             \A row \in ToSet(answer.results) :
                IF answer.mode = "hybrid"
                THEN /\ up /\ (in(nearest, row.id) \/ in(matching, row.id))
                     /\ row.vector_score # NoScore <=> in(nearest, row.id)
                     /\ row.text_score # NoScore <=> in(matching, row.id)
                ELSE /\ up \/ answer.mode = "text"
                     /\ row.score = Native(answer.mode, row.id)
                     /\ row.vector_score = NoScore /\ row.text_score = NoScore

=============================================================================
