# Formal model of the document API

TLA+ specifications of this repository's service: users upload documents, the
service parses, chunks and embeds them into MongoDB, and answers searches over
the chunks. The modules are translated from `src/app`; TLC checks them on small
instances, and TLAPS proves every invariant those runs check, and their two
refinements, for every value of the constants. `PROJECT.json` maps each definition to the lines it models.

    tlasany M.tla                        parse a module
    tlc -workers 2 -config X.cfg M       model-check a run of the table below
    tlapm IngestionProofs.tla            check the proofs of a module; the others are
                                         AuthProofs, BlobProofs, ListProofs, RetrievalProofs,
                                         SchemaProofs, SyncProofs and TextProofs

## 1. Inventory

One uvicorn process (docker/Dockerfile, `restart: unless-stopped` in
docker-compose.yml), one asyncio event loop, worker threads for file I/O,
parsing and embedding. MongoDB (Atlas, for search) and a blob directory hold all
state that survives the process. Paths are under `src/app`.

| Component | State it keeps | Operations | What makes it correct |
|---|---|---|---|
| Document records (`services/document_service.py`, `models/document.py`) | `documents`: status, attempts, error, storage key; unique on (user, content hash) | create, get, list, claim, set status | a record never precedes its blob; an attempt is counted once per claim |
| Upload endpoint (`routers/documents.py`) | none | upload, list, read | exactly the request that inserted a record starts its ingestion; what it accepts can be processed |
| Parsing (`services/parsing_service.py`) | none | `parse_to_markdown` | a parser for every accepted type; no text is a failure, not an empty success |
| Cleaning (`services/cleaning_service.py`) | none (pure) | `clean_markdown` | what is not furniture stays, and so do the paragraphs; never nothing |
| Ingestion (`services/ingestion_service.py`) | none of its own | `process_document`; `recover_incomplete_documents` at every boot | ready means complete; claimed documents settle; retries are bounded |
| Chunk reconciliation (`services/chunk_storage_service.py`, `models/chunk.py`) | `chunks`: content-addressed rows with index and vector | `sync_document_chunks` | a finished sync leaves exactly the document's chunks; only new text is embedded; a failed one loses nothing |
| Chunker (`services/chunking_service.py`) | none (pure) | `chunk_markdown` | nothing lost, nothing too long, bounded overlap, blocks kept whole |
| Embedding (`services/embedding_service.py`) | a lazily built client | `embed_documents`, `embed_query` | batches keep the caps; vectors stay aligned with texts |
| Blob storage (`services/storage_service.py`) | files at `{user}/{sha256}`, a temporary file beside each | put, get, delete, exists | what a digest names is that content, always |
| Users (`services/user_service.py`, `routers/auth.py`) | `users`, unique on email and on username | register, get by id | a second registration changes nothing |
| Sessions (`services/auth_service.py`, `routers/auth.py`, `dependencies.py`) | `refresh_tokens`, `revoked_tokens`, both purged by TTL | login, refresh with rotation, logout, current user | logout holds; rotation loses no live token and revives no spent one; a refresh by an inactive account mints nothing |
| Retrieval (`services/retrieval_service.py`) | none | `search` in modes vector, text, hybrid | the scope comes before the limit; the fusion is ordered and monotonic |
| Search endpoint (`routers/search.py`, `schemas/search.py`) | none | `POST /search` | the answer says how each of its rows was found |
| Schema setup (`db/mongodb.py`) | collections, indexes, search indexes | `connect_to_mongo`, `_ensure_schema` | whatever an earlier boot left, a serving process has what the code declares |
| Lifespan (`main.py`) | the sweep's task | startup, shutdown | the sweep never blocks startup |
| Configuration, password hashing, rate limit, request ids, logging, health, other schemas | see `PROJECT.json` | | not modelled, see section 7 |

How they interact: `upload_document` calls `create_document` (blob, then record)
and schedules `process_document` as a background task; `lifespan` schedules the
sweep, which awaits `process_document` for one candidate after another; both
share the records, the chunk rows and the event loop, and nothing locks them.
`process_document` runs storage, parser, cleaner, chunker and the
reconciliation, which calls the embedder. Search reads the chunks through two
Atlas indexes that the schema setup maintains.

Hard to test, and what the properties are for: coroutines that interleave at
every `await`; a crash between any two of them and what the next boot finds;
writes that are applied and still raise; plans made from a snapshot and executed
minutes later; two threads on one temporary file; TTL purges beside expiry
checks; asynchronous index drops; equality cases in the batcher, the fusion and
the chunker. `PROJECT.json` lists each at its line under "hazards".

## 2. Modules

| Module | Models | State and actions |
|---|---|---|
| `Ingestion` | upload, `process_document` with the reconciliation inside it, the sweep, boots and crashes | one action per awaited call. `rec` and `rows` are the two collections, `blobs` the directory; `run` holds the calls of `process_document`, one per document for its upload task and one for the sweep; `snap` is the sweep's list of candidates |
| `DocumentPromise` | what the pipeline promises a polling client | five actions over `rec` and `rows` alone |
| `IngestionProofs` | theorems about `Ingestion` | |
| `ChunkSync` | `sync_document_chunks` alone, with real ids, texts, vectors and embedding requests | find, embed batch by batch, delete, re-index, insert; `Raise` at any point stands for an error or a crash |
| `SyncRefinement` | that `ChunkSync` implements the reconciliation inside `Ingestion` | a refinement mapping over `ChunkSync`, no state of its own |
| `SyncProofs` | theorems about `ChunkSync`, the refinement among them | |
| `Cleaning` | `clean_markdown` | pure, over lines; what a line is made of are parameters |
| `Chunking` | `chunk_markdown` | pure; `_atomize` level by level instead of piece by piece; a text is a sequence of runs between boundaries |
| `EmbedBatches` | `_iter_batches` | pure; used by `ChunkSync` and `TextPipeline` |
| `ListOps` | `sum` and list comprehensions | recursive functions, which the provers can unfold |
| `Intake` | the refusals of an upload, the registry of parsers | pure, over files given by name, sizes and what libmagic says of them |
| `TextPipeline` | the middle of `process_document`: `Cleaning`, `Chunking`, `EmbedBatches` one behind the other, behind `Intake` | `lines` is what the parser returned, built up line by line; `chunks` what the code makes of it |
| `TextProofs` | theorems about `TextPipeline` | |
| `ListProofs` | a theorem about `_iter_batches` alone, and the induction `SyncProofs`, `TextProofs` and `RetrievalProofs` rest on | lemmas: induction over positions and over lists, `FlattenSeq`, sums, comprehensions, lists in an order |
| `BlobStore` | `FilesystemStorage` on one key | system calls as actions: exists, mkdir where it raises, open and truncate, write a piece, rename, unlink; inodes are explicit because two puts may have one file open |
| `AuthSessions` | registration, login, refresh, logout, use of a token | one action per database call of each handler; the clock, the TTL monitor and deactivation are the environment |
| `AuthProofs`, `BlobProofs`, `SchemaProofs` | theorems about `AuthSessions`, `BlobStore`, `SchemaSetup` | |
| `Retrieval` | the three search pipelines and `POST /search` | each stage as what it does to a ranking, scores as exact fractions; `Respond` is the endpoint. The state is the two rankings the indexes answer with, grown chunk by chunk |
| `RetrievalProofs` | theorems about `Retrieval` | |
| `SchemaSetup` | `connect_to_mongo`, `_ensure_schema` | one action per call to the server; `code` is the version that boots |

Each `MC…` module instantiates one of these for TLC. Definitions marked "Slip"
are plausible mistakes next to the definition they would replace: with one of
them in its place the property named in `PROJECT.json` fails, which shows that
the property can see it.

Choices worth knowing:

* `Ingestion` keeps chunk ids abstract and `Layout[d][v]` gives the rows that
  settings `v` compute for document `d`; a boot may come up with other settings,
  which is when a stored row is stale or has moved. `ChunkSync` fills in what
  that abstracts, and `SyncRefinement` checks that it fits. `delete_many` and `insert_many` are one row at a time, since
  MongoDB does not make them atomic; updates and ordered inserts keep the code's
  order.
* A raising database call is modelled where its effect matters both as not
  applied and as applied (a lost answer). `DbErrors` turns it on.
* A graceful stop cancels the sweep wherever it awaits. It is the same as a crash
  that finds no upload running, and has no action of its own.
* Nothing deletes a document in this version of the code. The branch for a record
  that is gone is in the model and cannot be reached.
* A `put` writes in `Size` pieces at its own offset, which is what lets a
  half-written file exist.
* In `TextPipeline` a line is of a kind, which stands for its stripped text (two
  lines of a kind are equal to the cleaner), and starts at a character of the
  document, so that a chunk can be asked which characters it holds. White space
  is not counted, except where a length is.
* A token is the number of the pair it was issued in; hashes and signatures are
  taken to be right.
* The rankings that `$vectorSearch` and `$search` compute are external: every
  pair of lists is possible, and the two indexes need not know the same chunks.
  How a ranking comes about is left out, and so is the number a leg scores a chunk
  with (`Native` says only whose score it is): BM25 goes by statistics of the whole
  corpus (`retrieval_service.py:19-20`), so other users' chunks can change both.
  `ScopeBeforeLimit` is therefore about two rankings as given, and
  `EitherLegSuffices` assumes that the index ranks alike for the two requests it
  compares, of which one asks for more candidates (line 147).
* A crash is the death of the process: what the file system has accepted it keeps.
* The validator of a collection is the version whose validator it is: `create_collection`
  and `collMod` both put the booting version's in force.
* Fused rows are a set until `$sort`, and `Sorted` takes for the k-th of them the one
  that fewer than k stand before. That is a list of rows whatever they are; that it is
  in order, has each row once and is the only such list is for the proofs. Scores are
  exact where the server adds doubles: a tie is a tie.

## 3. Runs

| Run | Shows | Instance |
|---|---|---|
| `ingestion_rows` | types; the retry bound; `ready` means the rows of some settings, complete and in place; a record has its blob, and while `pending` no attempt and no rows; attempts count claims; refinement of `DocumentPromise` | 1 document, 2 requests, 2 settings between which one chunk goes, one moves and one comes; database calls may raise; 3 boots, 2 attempts |
| `ingestion_sweep` | nothing `processing` without an owner; every claimed document settles; a failed one with attempts left runs again | 2 documents, no raising call, fairness, 3 boots |
| `chunk_sync` | exact result, aligned vectors, searchable throughout, only new text embedded; refinement of the reconciliation in `Ingestion` | 2 texts, versions of up to 4 chunks, requests of 2 texts, any number of calls |
| `text_pipeline` | the chunks hold every character but the furniture, in order; the cleaner joins and cuts no paragraph; no chunk too long, bounded overlap, fitting blocks whole; whatever is accepted and has text ends with chunks; embedding requests within both caps, in order, none needlessly short | documents of up to 4 lines of 7 kinds (page number, longer number, dotted leader, one letter, header, two sentences' worth, longer than a chunk) with blank lines anywhere; 3 repeats make a header; chunk size 8, overlap 4; files of 8 types, 3 extensions and sizes around the cap |
| `blob_store` | whole blobs and no leftovers while puts do not overlap; a blob acknowledged since the last delete, by a put that delete did not overtake, is there even when they do | 2 puts, 1 get, 2 pieces, I/O errors, deletes, crashes |
| `auth_sessions` | logout holds until expiry; a refresh begun by an inactive account mints nothing (its access token is another matter); no live token vanishes unspent; a spent one is gone, crashes or not | 2 handlers, 2 token pairs, access life 1, refresh life 2, 3 ticks |
| `retrieval` | the scope before the limit in both legs; a total order with no duplicates and no better row left out; agreement compounds; either leg suffices; the answer shows how each row was found | every pair of rankings of 4 chunks, 2 users, 5 limits, 4 modes, k = 60 |
| `schema_setup` | own validator and declared indexes in force when serving; search indexes right or warned about; startup ends | 2 versions in release order, 2 search indexes, 2 polls, 4 boots |
| `pending_for_ever` | finding 1 | 1 document, fairness |
| `sweep_dies` | finding 2 | 1 document, raising calls |
| `blob_half_written` | finding 3 | 2 puts |
| `refresh_twice` | finding 4 | 2 handlers |

Bounds, and why they are enough. `MaxBoots` is the only bound of `Ingestion`: a
crash needs a boot left to follow it, so three boots give a crash during the
upload's own run, another during the sweep's, and a last boot that runs to its
end; with two attempts, the third boot is the one that finds the budget spent.
Two calls of `process_document` on one document is the most the code can have
(its upload task and the sweep), and two documents make the sweep's snapshot
old. `SweepLimit` does not bind in these runs (see section 6 for one in which it does). In `ChunkSync` four chunks over
two texts give up to four copies of a text and every gap in their occurrences. In `BlobStore`
two puts are the smallest race, and five inodes are more than can be open or
named at once. In `AuthSessions` the lives 1 and 2 let an access token expire
before its refresh token, and three ticks let both expire and be purged; two
pairs are one rotation, and `refresh_twice` has three; with three pairs
`auth_sessions` holds too (21.5 million states, five minutes). In `text_pipeline`
four lines are a header three times and one line more, and a line of 13
characters is cut into windows whose last one is short. In `retrieval` the fetch
limit (3) is below the number of chunks (4), so both legs truncate. In
`SchemaSetup` four boots are an install, an upgrade, and a retry of each.

Deadlock is checked in `ingestion_*`, `chunk_sync` and `blob_*`. It is not
checked where a behaviour really ends at a bound (time and pairs in
`auth_sessions`, boots in `schema_setup`) or where the state is an input built up
to a length (`text_pipeline`, `retrieval`).

Fairness. `Ingestion!FairSpec` has weak fairness of `Boot` (the restart policy),
of the sweep's own steps and of the steps of each call: the event loop runs every
coroutine whose awaited call has answered. It gives no fairness to uploads,
crashes or errors. `SchemaSetup!FairSpec` has the same for boots and for startup;
that an index drop completes is not assumed. Weak fairness of a whole call is
enough: each of its steps advances the call or ends it, so a call that can always
take some step reaches its end.

## 4. Refinement

`DocumentPromise` says what a client may see: a document is submitted once,
attempted at most `Bound` times, its rows change only while it is `processing` or
`failed`, and it becomes `ready` only over one complete set of rows. It has no
tasks, no sweep, no crash. `Ingestion` implements it with the identity on `rec`
and `rows` (`PromiseKept`, checked in `ingestion_rows`); everything else is
hidden. That rows never change while a document is `ready` is the part a reader
would doubt: the sweep and an upload task can both be in `sync_document_chunks`
for one document, and one publishes while the other still has writes to do. It
holds because both planned under the same settings, so what the other has still
to do is already done by then: deletes find nothing, moves put rows where they
are, and an insert of a row that is there raises before it changes anything.

`Ingestion` in its turn abstracts the reconciliation: chunk ids without texts, one
step for all embedding requests, and settings in place of what the chunker
returns. `SyncRefinement` maps `ChunkSync` to it: the rows are the stored ids with
their positions, the settings are the list of texts, a call cut short is one in
its handler. `Reconciles` (run `chunk_sync`) says that every step of `ChunkSync`
is then the step of that name in `Ingestion`, or none. What it rules out is that
the abstraction hides something: an order of writes that the code does not have,
a plan that needs more than ids and positions, an occurrence number that makes
two chunks one. The call alone is mapped; tasks, sweep and crashes are only in
`Ingestion`.

## 5. Proofs

What each theorem says, and from which assumptions:

| Module | Theorem | States | Beyond the constants' types |
|---|---|---|---|
| `IngestionProofs` | `TypeCorrect` | `TypeOK` | |
| | `RetryBound` | `AttemptsBounded` | |
| | `NothingBeforeClaim` | `PendingUntouched` | |
| | `ClaimsAreCounted` | `AttemptsCountClaims` | |
| | `ReadyMeansWhole` | `ReadyComplete` | |
| | `PipelineKeepsPromise` | `PromiseKept` (refinement) | |
| | `ProcessingHasOwner` | `ProcessingIsOwned` | `QuietDatabase` |
| `SyncProofs` | `TypeCorrect` | `TypeOK` | |
| | `VectorsEmbedTheirTexts` | `VectorsMatch` | |
| | `CommonChunksStaySearchable` | `SearchableThroughout` | |
| | `SyncedIsExact` | `DoneIsExact` | |
| | `OnlyNewIsEmbedded` | `EmbedsOnlyNew` | `NoGap`, inside the property |
| | `SyncImplementsReconciliation` | `Reconciles` (refinement) | |
| `ListProofs` | `RequestsHoldAll` | of `IterBatches` on every list | |
| `TextProofs` | `ChunksKeepSize` | `WithinSize` | |
| | `NoCharacterLost` | `NothingLost` | `Overlap` not negative (`Parameters`) |
| | `SharedWithinOverlap` | `OverlapBounded` | the same |
| | `NoParagraphCut` | `ParagraphsStay` | |
| | `FittingBlocksStay` | `FittingStaysWhole` | |
| | `RequestsKeepCaps` | `RequestsFillCaps` | `ChunksFitRequests` |
| | `ReadyCanBeFound` | `ReadyIsSearchable` | |
| `RetrievalProofs` | `ScopeComesFirst` | `ScopeBeforeLimit` | |
| | `FusionOrdered` | `BestFirst` | `FetchCoversLimit` |
| | `AgreementPays` | `AgreementCompounds` | `BothCount` |
| | `OneLegSurfaces` | `EitherLegSuffices` | `FetchCoversLimit`, `BothCount` |
| | `AnswersTell` | `AnswerTellsItsLegs` | |
| `AuthProofs` | `TypeCorrect`, `SpentIsGone`, `LiveTokensStay`, `InactiveGetsNothing`, `LogoutHolds` | the five properties of `auth_sessions` | |
| `BlobProofs` | `TypeCorrect`, `BlobsAreWhole`, `LeftoverIsHarmless`, `AcknowledgedStays` | the four properties of `blob_store` | |
| `SchemaProofs` | `TypeCorrect`, `DeclaredIndexInForce` | `TypeOK`, `IndexAsDeclared` | |
| | `DeclaredSearchInForce` | `SearchAsDeclared` | `ReleasesOnly` |

The types of the constants are the named assumptions of the modules (`Parameters`,
and `LinesAndCaps` of `TextPipeline`), which every run evaluates. The types
include one thing the configuration does not check: `Overlap` is a natural number,
where the validator at `config.py:153` accepts a negative one, with which windows skip
characters. The hypotheses in the last column are conditions under which the code
keeps its word:

* `QuietDatabase`: no database call raises and the query's 1000 is no limit. With
  raising calls the sweep can end early (finding 2), and with a limit that binds it
  starves documents (section 6). The run `ingestion_sweep` satisfies it.
* `NoGap`: of each text the stored occurrences are 0 to some number. A finished sync
  leaves them so. An interrupted `delete_many` may not, and of the sync after it
  `EmbedsOnlyNew` claims nothing: it may embed a copy that is stored under another
  number.
* `ReleasesOnly`: boots follow the order of release, and no version declares again
  what another one has replaced. The second half came out of the proof: three
  versions that declare old, new and old again, in order, are like a rollback, and
  TLC finds `SearchAsDeclared` violated for them. The run's two versions satisfy it.
* `ChunksFitRequests`: a chunk of the largest size fits a request. In the code it is
  at most 300 of 100 000 tokens with the default size. Without it a chunk goes out
  alone and over the cap, as `_iter_batches` says; `RequestsHoldAll` covers that case.
* `FetchCoversLimit`: what is shown is no more than the 200 a leg may fetch
  (`_MAX_FETCH_K`). With the defaults it is 20, but the configuration puts no bound on
  `search_max_limit` and `search_default_limit`. Above 200 hybrid may show fewer
  rows than there are, and a leg alone more than hybrid does.
* `BothCount`: the weight of either leg is above 0. The configuration does not check it
  either. With a weight of 0 all of a leg's chunks tie, so that their ids order them:
  one both legs place in front may come behind, and a leg does not keep its order.

Each proof of a step goes by one step per action; what an operator returns is a
lemma. The arguments:

**Ingestion, counts and order.** `TypeOK` is inductive as it stands: it
includes `RunsOK`, that an upload task works its own document and that a plan
names only chunks of the current layout. `AttemptsBounded` is not inductive, because
`Claim` looks at nothing. The invariant adds `PendingUncounted` (a document not yet
claimed counts 0), `UploadClaimsPending` (an upload task about to claim has a `pending`
document), `SnapExact` (the snapshot's counts are still the stored ones) and
`SweepClaimsInBudget` (the sweep's call about to claim is under the budget and
its document has left the snapshot). `SnapExact` is the heart: the sweep may
have awaited any number of ingestions since it read the count, but only an
upload task or the sweep's own call can have claimed the document since, an
upload task claims only what is `pending`, which the query does not return, and
the sweep takes each document from the list once. `PendingUntouched` adds `Storing`
(every document held by a request, a call or the snapshot is stored) and
`WorkIsClaimed` (a call past its claim works a document that has left
`pending`). `AttemptsCountClaims` needs `PendingUncounted` for the insert of a
record: it sets the count to 0, and it was 0.

**Ingestion, `ready`.** Two live calls on one document each work from a plan of rows
the other has changed since. `Toward` says what any write of either does: it loses
no row of the target, gains none outside it, and moves a row only to its place. Both
calls compute the same target, so a plan that holds (`PlansHold`: what is not to be
there is still to be deleted, what is not in its place is still to be moved or
inserted) survives the other's writes, and rows that have arrived stay. That gives
`ReadySettled`: a call still working a document that has become `ready` finds its
work done. `PromiseKept` is then step by step: a write of rows of a `ready` document
is a stutter, and `SetReady` publishes only what `PlansHold` says is whole.

**Ingestion, owners.** `ProcessingIsOwned` needs `FailedInSnapUnclaimed`: the sweep
drops a document its snapshot shows `failed` and out of attempts without looking at
the record, which is right only because nobody can have claimed it since the query.

**Reconciliation.** From the rows alone no step can be shown to keep anything: what
`Insert` stores depends on a plan made when the rows were others and on vectors that
came back request by request. `SyncInv` says what the plan still owes (`PlanHolds`:
planned and stored together make up the desired rows) and of which text each vector is
(`VectorsInOrder`: those that came and those still asked for are in the order of the
rows to insert, unless one is missing, and then the final count shows it).
`EmbedsOnlyNew` counts: occurrences leave no gap, so of a text with c copies exactly
the ids 0 to c - 1 are desired, and likewise stored. The refinement maps each step
from `SyncInv`; `FindMaps` is the one that is not immediate, since `Ingestion` plans
over ids and positions and the code over rows.

**Text, sizes and requests.** The work is in what the operators return. Each loop of
the code is shown to stay in a set that says what is wanted: `Atom`, the texts that fit
a chunk; `Chunk`, the lists of atoms that do when joined. That a long run is cut into
windows that fit, and at least one, is `WindowsType`; that a tail with the next atom
behind it fits or is dropped, `AddAtomType`. For the requests `Gathered` is the
invariant of the loop of `_iter_batches`: all texts so far, in order, every closed
request within the caps and without room for the first text of the next. For
`ReadyIsSearchable` every stage is shown to leave something of something.

**Text, places.** That nothing is lost or shared too often is about characters, so the
invariant `TextInv` says where they are: the chunks are those of the lines, every line
starts where those before it end or later, and none ends behind the document. From
there each stage keeps the runs *placed*, one behind the other (`TextOfPlaces`,
`SplitPlaces`, `LevelStep`), until the windows, which overlap but still start and end
in order (`WindowsInOrder`). So the atoms are in order, have all characters, and two
that share some are long ones cut from one run (`AtomizeInOrder`). The packing loop is
abstracted once, to what both theorems need of it: the chunks are *stretches* of the
list of atoms (`ChunksStretch`), each from a later atom to a later atom than the one
before, with none left out between and no more than the overlap in both. `NothingLost`
reads the ends of the stretches off the first and last atoms; `OverlapBounded` counts
the atoms two stretches have in both, and where a window is the last of one and its
successor the first of the next, the characters those two share.

**Text, blocks.** A block of the cleaned document that fits is a text of some level or
within an atom (`Reached`), and what fits is passed from level to level as it is
(`LevelsKeep`). For `ParagraphsStay` the text after each line is split into the
paragraphs a blank line has closed and the one still open: a line that is not blank
only adds its characters to the open one, a blank one closes it (`LineParagraphs`).
Doing that with the kept lines alone gives the same, less what is not kept
(`ChosenParagraphs`), because cleaning keeps every blank line and a dropped line shares
no character with a kept one (`LinesSorted`). It is where the order of the lines is
needed again.

**Retrieval.** The invariant is that the rankings hold chunks, each once. `ScopeComesFirst`
is that choosing what is in scope twice is choosing it once, before the limit, and that
everything shown comes from a leg. For the sort, `Before` is a
strict linear order of rows with different ids; in such an order exactly one row stands
at each place, so `Sorted` is defined, holds each row once and is in order. The
arithmetic of the fusion is that of fractions: `Above` is an order, a term grows when
its rank falls, and `Plus` keeps both. `AgreementCompounds` also has to follow a chunk
through the limits of the legs: one that is nowhere behind another is fetched by
every leg that fetched the other.

**Blobs.** Up to the first overlap of two puts a put is alone (`Calm`): a lone put has
written exactly the pieces before its position to a file no name and no reader has
yet, and the path and the temporary name are never in use together. `OkMeansStored`
needs none of that: `Linked` says that a put past its write without an error has
linked the blob, unless a delete overtook it, and only a delete unlinks it.

**Sessions.** `Base` is the types, that pairs are numbered from 1 as they are issued (so
that a new one is new), that their dates are numbers, and that what a handler has in
its hands was issued. `Spending` adds that a handler about to insert has deleted the
token it rotates. `LiveTokenStays` is inductive over `Base`: the purge goes by the
row's date, which is the token's. `Late` adds that an account inactive when the
refresh began is inactive when it is read, which needs the account to exist by then:
before registration no token was issued and no handler is busy. `LoggedOut` adds that
a logged-out token is on the denylist or expired.

**Schema.** `IndexInv`: once `_ensure_collection` is past the validator and
`_ensure_index` past the index, they are as declared and
nothing but the next boot touches it. For the search indexes `DroppedSince`: one on
its way out was dropped by a version that declares something else in its place; so a
version that finds its own definition finds one that stays.

**Induction.** The library's induction theorems take an operator as a parameter, which
the provers here cannot instantiate. `ListProofs` states induction over a set
of positions instead, and derives it from `<` being well-founded on the naturals; a
recursive function is shown to equal the one that unrolls it (`Recursion`,
`SameSteps`). On that rest the lemmas on `FlattenSeq`, `Total` and `Only`, and the
loops. What holds of a list as it grows is proved with `BuiltUp`, which is the same
with a set of lists for the property. It is why the models use recursive functions and
no `RECURSIVE` operator, fold, `SortSeq` or `SelectSeq` where something is proved about
them.

**Only model-checked.** `ProcessingSettles`, `FailedIsRetried` and `EndsServing` are
liveness, which these provers do not do; that two puts, two refreshes or a crash
can go wrong (the four runs that expect a violation) is a behaviour, which TLC shows.
What is proved is proved of the models: that they are the code is what `PROJECT.json`'s
line references and the mutants of the runs are for.

## 6. What the code does not do

1. **A document can stay `pending` for ever** (`pending_for_ever`).
   `ingestion_service.py:119` promises to re-run documents in a non-terminal
   state; the query (138-141) leaves out `pending`. A crash between `insert_one`
   and the claim is enough, and a re-upload does not help, because it finds the
   record.
2. **`process_document` can raise** (`sweep_dies`), although lines 12, 56 and
   158-160 say it cannot: the status write in its handler is outside the `try`.
   The sweep then ends early, and at shutdown the exception comes out of
   `await recovery_task` before `close_mongo_connection`.
3. **A crash can leave a half-written blob at its key** (`blob_half_written`)
   when two uploads of the same bytes by one user overlap: they share one
   temporary file. Without a crash the same overlap can fail one of them with a
   500.
4. **A refresh token can be exchanged twice** (`refresh_twice`) by two requests
   that both verify it before either deletes it.

Seen while modelling, and not runs of their own:

* `retrieval_service.py:28-29` says that first in one leg beats eighth in both.
  With k = 60 it is 1/61 < 2/68; it is so only for k below 6.
* `SchemaSetup` with `Rollbacks = TRUE`, or with a definition that returns in a later
  version (see `ReleasesOnly` above): the newer version drops a search index and is
  killed while it waits; the older one lists its own definition, keeps it
  (`mongodb.py:240-241`) and serves without a warning; then the drop completes, and
  there is no index. `SearchAsDeclared` fails. The run `schema_setup` excludes it.
* `SchemaSetup` with `Rollbacks` and `Duplicates` TRUE: a version that makes an
  index unique drops the old one first; over rows that share a key the create
  fails at every boot, and `EndsServing` fails.
* The sweep can run a document that a live upload task is working
  (`ingestion_service.py:123-124` says there is none): the query is awaited while
  the server already accepts uploads. `ReadyComplete`, `PromiseKept` and the
  retry bound hold all the same.
* With a limit that binds, the sweep starves a document: `ingestion_sweep` with
  `SweepLimit = 1` breaks `FailedIsRetried` and `ProcessingSettles`. A `failed`
  document with no attempts left is still a candidate (`ingestion_service.py:135-144`)
  and is returned at every boot in the place of one that could run. It takes 1000
  of them in the code.
* `schemas/search.py:19-21` says `limit` is bounded to 1..search-max by a 422. The
  field has `ge=1` only; a limit above the maximum is clamped by the service, and
  the 422 is for limits below 1. A default limit above the maximum is not clamped.
* A chunk's id digests its text, not the embedding model. After a change of
  `EMBEDDING_MODEL` a re-run keeps every vector whose text is unchanged, so that
  one index holds vectors of two models.
* `_CHARS_PER_TOKEN = 4` with integer division does not over-count
  (`embedding_service.py:38-39`); the margin of the cap absorbs it.
* A crash between the delete and the insert of a rotation ends the session, and a
  logout that overlaps a refresh leaves the new refresh token in place.

## 7. Not modelled

The configuration's reading of the environment (its limits are the constants of
the modules), password hashing, rate limiting (slowapi), request ids, logging,
health checks and the remaining schemas: they keep no state of the service, or
restate a library. What markitdown makes of a file, what libmagic says of one, the
rankings and the vectors are external and arbitrary. Of the users there is one
account, without roles. The lists and reads of documents change nothing; the list
shows the newest 100 and has no second page. More than one server process over one
database is outside every model: the deployment has one, and the retry bound would
not hold for two.

## 8. State of the work

The modules were written in this order: `Ingestion` and its runs, `DocumentPromise`,
`ChunkSync`, `BlobStore`, `AuthSessions`, `EmbedBatches`, `Retrieval`, `Chunking`,
`SchemaSetup`; then `Cleaning`, `Intake` and `TextPipeline`, which composes them with
the chunker and the batcher, `SyncRefinement`, the search endpoint in `Retrieval` and
registration in `AuthSessions`. The proofs followed the same order, those of the text
and of retrieval last. Every invariant, action property and refinement of a passing run
now has its theorem.

Open, should the code change that way: two server processes over one database, to state
which properties need there to be one; the deletion of documents, which this version
does not have; liveness, with a prover that does it.
