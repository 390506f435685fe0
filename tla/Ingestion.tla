------------------------------ MODULE Ingestion ------------------------------
(***************************************************************************)
(* The life of a document from POST /documents/upload to a terminal        *)
(* status: the upload request (blob, then record, then a background task), *)
(* process_document with the chunk reconciliation it calls, and the        *)
(* recovery sweep that lifespan starts on every boot.                      *)
(*                                                                         *)
(* One server process, as the Dockerfile runs it.  Its coroutines          *)
(* interleave at every await; each awaited database call is one action.    *)
(* MongoDB and the blob directory survive a crash, everything else dies.   *)
(***************************************************************************)
EXTENDS Naturals, FiniteSets

CONSTANTS
    Docs,        \* contents a user may upload; a record is keyed by its hash
    NoDoc,
    Requests,    \* upload requests that may be in flight together
    Sweeper,     \* the recovery sweep's own call of process_document
    Chunks,      \* content-addressed chunk ids
    Indexes,     \* positions a chunk may have in its document
    Versions,    \* parser / chunker settings a boot may come up with
    Layout,      \* Layout[d][v]: the chunk rows settings v compute for d
    MaxAttempts, \* settings.ingestion_max_attempts
    SweepLimit,  \* to_list(length=1000)
    DbErrors,    \* may a MongoDB call raise in this instance?
    MaxBoots     \* bound: boots of the process in one behaviour

\* Stored rows of one document: chunk id -> chunk_index.
Rows == UNION {[S -> Indexes] : S \in SUBSET Chunks}
NoRows == [c \in {} |-> 0]
Put(f, c, i) == [x \in DOMAIN f \cup {c} |-> IF x = c THEN i ELSE f[x]]
Drop(f, c) == [x \in DOMAIN f \ {c} |-> f[x]]
NoSnap == [d \in {} |-> 0]

ASSUME Parameters ==
    /\ NoDoc \notin Docs /\ Sweeper \notin Docs
    /\ Indexes \subseteq Nat
    /\ Layout \in [Docs -> [Versions -> Rows]]
    /\ MaxAttempts \in Nat /\ SweepLimit \in Nat /\ MaxBoots \in Nat
    /\ DbErrors \in BOOLEAN

VARIABLES
    rec,    \* `documents`: status and attempts of each record
    rows,   \* `chunks`: the rows of each document
    blobs,  \* documents whose bytes are in storage
    up,     \* is the server process running?
    boots,  \* how often it has started
    conf,   \* the settings it came up with
    req,    \* the document an upload request has stored and not yet recorded
    run,    \* the calls of process_document, by who awaits them
    sweep,  \* recover_incomplete_documents: off, list, scan or died
    snap    \* `candidates` not yet visited, as the query returned them

vars == <<rec, rows, blobs, up, boots, conf, req, run, sweep, snap>>
store == <<rec, rows, blobs>>
process == <<up, boots, conf>>

\* A document's upload task runs under the document, the sweep's under Sweeper.
Runs == Docs \cup {Sweeper}
Status == {"absent", "pending", "processing", "ready", "failed"}
Steps == {"idle", "start", "claim", "work", "find", "embed", "write", "handler"}

Call(pc, d) == [pc |-> pc, doc |-> d, stale |-> {}, moved |-> {}, missing |-> {}]
Idle == Call("idle", NoDoc)

Init ==
    /\ rec = [d \in Docs |-> [status |-> "absent", attempts |-> 0]]
    /\ rows = [d \in Docs |-> NoRows]
    /\ blobs = {}
    /\ up = FALSE /\ boots = 0 /\ conf \in Versions
    /\ req = [q \in Requests |-> NoDoc]
    /\ run = [r \in Runs |-> Idle]
    /\ sweep = "off" /\ snap = NoSnap

-----------------------------------------------------------------------------
\* Boot and crash.  A graceful stop cancels the sweep wherever it awaits and
\* is a crash that finds no upload task running.

Boot ==
    /\ ~up /\ boots < MaxBoots
    /\ up' = TRUE /\ boots' = boots + 1 /\ conf' \in Versions
    /\ sweep' = "list"
    /\ UNCHANGED <<store, req, run, snap>>

Crash ==
    /\ up /\ boots < MaxBoots
    /\ up' = FALSE
    /\ req' = [q \in Requests |-> NoDoc]
    /\ run' = [r \in Runs |-> Idle]
    /\ sweep' = "off" /\ snap' = NoSnap
    /\ UNCHANGED <<store, boots, conf>>

-----------------------------------------------------------------------------
\* The upload request.

\* Slip: the record would go in without waiting for the blob.
UploadUnstored(q, d) ==
    /\ up /\ req[q] = NoDoc
    /\ req' = [req EXCEPT ![q] = d]
    /\ UNCHANGED <<store, process, run, sweep, snap>>

\* create_document up to storage.put: the blob goes in before the record.
UploadPut(q, d) ==
    /\ up /\ req[q] = NoDoc
    /\ blobs' = blobs \cup {d}
    /\ req' = [req EXCEPT ![q] = d]
    /\ UNCHANGED <<rec, rows, process, run, sweep, snap>>

\* insert_one: the unique index lets one insert per content through, and only
\* that request schedules process_document.
UploadInsert(q) ==
    LET d == req[q] IN
    /\ up /\ d # NoDoc
    /\ req' = [req EXCEPT ![q] = NoDoc]
    /\ IF rec[d].status = "absent"
         THEN /\ rec' = [rec EXCEPT ![d] = [status |-> "pending", attempts |-> 0]]
              /\ run' = [run EXCEPT ![d] = Call("start", d)]
         ELSE UNCHANGED <<rec, run>>
    /\ UNCHANGED <<rows, blobs, process, sweep, snap>>

\* The insert raises, before or after the server applied it: the client gets a
\* 500 and no task is scheduled.
UploadInsertRaises(q) ==
    LET d == req[q] IN
    /\ DbErrors /\ up /\ d # NoDoc
    /\ req' = [req EXCEPT ![q] = NoDoc]
    /\ \/ UNCHANGED rec
       \/ /\ rec[d].status = "absent"
          /\ rec' = [rec EXCEPT ![d] = [status |-> "pending", attempts |-> 0]]
    /\ UNCHANGED <<rows, blobs, process, run, sweep, snap>>

-----------------------------------------------------------------------------
\* process_document.

At(r, pc) == up /\ run[r].pc = pc
Goto(r, pc) == run' = [run EXCEPT ![r].pc = pc]
Abort(r) == run' = [run EXCEPT ![r] = Call("handler", run[r].doc)]
Finish(r) == run' = [run EXCEPT ![r] = Idle]

\* get_document_record; a record that is gone ends the run silently.
GetRecord(r) ==
    /\ At(r, "start")
    /\ IF rec[run[r].doc].status = "absent" THEN Finish(r) ELSE Goto(r, "claim")
    /\ UNCHANGED <<store, process, req, sweep, snap>>

\* claim_document_for_processing: $set status and $inc attempts, whatever the
\* status was.
Claim(r) ==
    LET d == run[r].doc IN
    /\ At(r, "claim")
    /\ rec' = [rec EXCEPT ![d] =
                 [status |-> "processing", attempts |-> rec[d].attempts + 1]]
    /\ Goto(r, "work")
    /\ UNCHANGED <<rows, blobs, process, req, sweep, snap>>

\* storage.get, parse_to_markdown, clean_markdown, chunk_markdown.
Work(r) ==
    /\ At(r, "work") /\ run[r].doc \in blobs
    /\ Goto(r, "find")
    /\ UNCHANGED <<store, process, req, sweep, snap>>

\* Slips: a kept row never moves, or a stale one is re-indexed too.
NothingMoves(existing, target) == {}
StaleMoves(existing, target) ==
    {c \in DOMAIN existing : c \in DOMAIN target => existing[c] # target[c]}

\* Rows whose text is still in the document, at another position.
MovedRows(existing, target) ==
    {c \in DOMAIN existing \cap DOMAIN target : existing[c] # target[c]}

\* sync_document_chunks reads what is stored and plans from that snapshot.
FindExisting(r) ==
    LET d == run[r].doc
        existing == rows[d]
        target == Layout[d][conf]
        missing == DOMAIN target \ DOMAIN existing
    IN
    /\ At(r, "find")
    /\ run' = [run EXCEPT ![r] =
         [pc |-> IF missing = {} THEN "write" ELSE "embed",
          doc |-> d,
          stale |-> DOMAIN existing \ DOMAIN target,
          moved |-> MovedRows(existing, target),
          missing |-> missing]]
    /\ UNCHANGED <<store, process, req, sweep, snap>>

\* embed_documents returns one vector per missing chunk.
Embed(r) ==
    /\ At(r, "embed")
    /\ Goto(r, "write")
    /\ UNCHANGED <<store, process, req, sweep, snap>>

\* delete_many is not atomic across documents: one stale row at a time.
DeleteStale(r, c) ==
    LET d == run[r].doc IN
    /\ At(r, "write") /\ c \in run[r].stale
    /\ rows' = [rows EXCEPT ![d] = Drop(rows[d], c)]
    /\ run' = [run EXCEPT ![r].stale = @ \ {c}]
    /\ UNCHANGED <<rec, blobs, process, req, sweep, snap>>

\* c comes first in S by chunk_index.
FirstOf(c, S, layout) == c \in S /\ \A x \in S : layout[c] <= layout[x]

\* update_one of a moved row; a row that is gone is matched by nothing.
Reindex(r, c) ==
    LET d == run[r].doc
        target == Layout[d][conf]
    IN
    /\ At(r, "write") /\ run[r].stale = {}
    /\ FirstOf(c, run[r].moved, target)
    /\ IF c \in DOMAIN rows[d]
         THEN rows' = [rows EXCEPT ![d] = Put(rows[d], c, target[c])]
         ELSE UNCHANGED rows
    /\ run' = [run EXCEPT ![r].moved = @ \ {c}]
    /\ UNCHANGED <<rec, blobs, process, req, sweep, snap>>

\* insert_many is ordered: it stops at the first _id that is already there.
InsertChunk(r, c) ==
    LET d == run[r].doc
        target == Layout[d][conf]
    IN
    /\ At(r, "write") /\ run[r].stale = {} /\ run[r].moved = {}
    /\ FirstOf(c, run[r].missing, target)
    /\ IF c \in DOMAIN rows[d]
         THEN Abort(r) /\ UNCHANGED rows
         ELSE /\ rows' = [rows EXCEPT ![d] = Put(rows[d], c, target[c])]
              /\ run' = [run EXCEPT ![r].missing = @ \ {c}]
    /\ UNCHANGED <<rec, blobs, process, req, sweep, snap>>

\* Slip: the document is published before its new chunks are in.
SetReadyEarly(r) ==
    /\ At(r, "write") /\ run[r].stale = {}
    /\ rec' = [rec EXCEPT ![run[r].doc].status = "ready"]
    /\ Goto(r, "write")
    /\ UNCHANGED <<rows, blobs, process, req, sweep, snap>>

\* set_document_status(ready), once the sync has returned.  The write may be
\* applied and still raise.
SetReady(r) ==
    LET d == run[r].doc IN
    /\ At(r, "write")
    /\ run[r].stale = {} /\ run[r].moved = {} /\ run[r].missing = {}
    /\ rec' = [rec EXCEPT ![d].status = "ready"]
    /\ \/ Finish(r)
       \/ DbErrors /\ Abort(r)
    /\ UNCHANGED <<rows, blobs, process, req, sweep, snap>>

\* Any step of the try block raises.  Reading, parsing and embedding may fail
\* in every instance, a MongoDB call where DbErrors.
StepRaises(r) ==
    /\ \/ At(r, "work") \/ At(r, "embed")
       \/ DbErrors /\ (\/ At(r, "start") \/ At(r, "claim")
                       \/ At(r, "find") \/ At(r, "write"))
    /\ Abort(r)
    /\ UNCHANGED <<store, process, req, sweep, snap>>

\* Slip: a failure would count as an attempt of its own.
SetFailedCounting(r) ==
    LET d == run[r].doc IN
    /\ At(r, "handler")
    /\ rec' = [rec EXCEPT ![d] = [status |-> "failed", attempts |-> @.attempts + 1]]
    /\ Finish(r)
    /\ UNCHANGED <<rows, blobs, process, req, sweep, snap>>

\* except Exception: set_document_status(failed).
SetFailed(r) ==
    /\ At(r, "handler")
    /\ rec' = [rec EXCEPT ![run[r].doc].status = "failed"]
    /\ Finish(r)
    /\ UNCHANGED <<rows, blobs, process, req, sweep, snap>>

\* That write is outside the try: when it raises, applied or not, the exception
\* leaves process_document.  Under the sweep it leaves the sweep too.
HandlerRaises(r) ==
    /\ DbErrors /\ At(r, "handler")
    /\ \/ UNCHANGED rec
       \/ rec' = [rec EXCEPT ![run[r].doc].status = "failed"]
    /\ Finish(r)
    /\ IF r = Sweeper
         THEN sweep' = "died" /\ snap' = NoSnap
         ELSE UNCHANGED <<sweep, snap>>
    /\ UNCHANGED <<rows, blobs, process, req>>

Step(r) ==
    \/ GetRecord(r) \/ Claim(r) \/ Work(r) \/ FindExisting(r) \/ Embed(r)
    \/ \E c \in Chunks : DeleteStale(r, c) \/ Reindex(r, c) \/ InsertChunk(r, c)
    \/ SetReady(r) \/ StepRaises(r) \/ SetFailed(r) \/ HandlerRaises(r)

-----------------------------------------------------------------------------
\* recover_incomplete_documents.

\* Slips: only one of the two statuses is queried.
OnlyFailed == {d \in Docs : rec[d].status = "failed"}
OnlyProcessing == {d \in Docs : rec[d].status = "processing"}

Recoverable == {d \in Docs : rec[d].status \in {"failed", "processing"}}
Forget(d) == snap' = Drop(snap, d)

\* The query: at most SweepLimit candidates, and a query that raises gives none.
SweepList ==
    /\ up /\ sweep = "list"
    /\ sweep' = "scan"
    /\ \/ \E S \in SUBSET Recoverable :
            /\ Cardinality(S) = SweepLimit
                 \/ (Cardinality(S) < SweepLimit /\ S = Recoverable)
            /\ snap' = [d \in S |-> rec[d]]
       \/ DbErrors /\ UNCHANGED snap
    /\ UNCHANGED <<store, process, req, run>>

Scanning(d) ==
    /\ up /\ sweep = "scan" /\ run[Sweeper].pc = "idle"
    /\ d \in DOMAIN snap

\* Slip: one attempt too many.
LastIsFree(d) == snap[d].attempts <= MaxAttempts

AttemptsLeft(d) == snap[d].attempts < MaxAttempts

\* Attempts left in the snapshot: await process_document.
SweepRetry(d) ==
    /\ Scanning(d) /\ AttemptsLeft(d)
    /\ run' = [run EXCEPT ![Sweeper] = Call("start", d)]
    /\ Forget(d)
    /\ UNCHANGED <<store, process, req, sweep>>

\* Slip: an exhausted document is passed over whatever its status.
AbandonNothing(d) ==
    /\ Scanning(d) /\ ~AttemptsLeft(d)
    /\ Forget(d)
    /\ UNCHANGED <<store, process, req, run, sweep>>

\* Out of attempts: a document seen `processing` is abandoned as failed.
SweepAbandon(d) ==
    /\ Scanning(d) /\ ~AttemptsLeft(d)
    /\ snap[d].status = "processing"
    /\ rec' = [rec EXCEPT ![d].status = "failed"]
    /\ Forget(d)
    /\ UNCHANGED <<rows, blobs, process, req, run, sweep>>

\* That write raises, applied or not, and ends the sweep.
SweepAbandonRaises(d) ==
    /\ DbErrors
    /\ Scanning(d) /\ ~AttemptsLeft(d)
    /\ snap[d].status = "processing"
    /\ \/ UNCHANGED rec
       \/ rec' = [rec EXCEPT ![d].status = "failed"]
    /\ sweep' = "died" /\ snap' = NoSnap
    /\ UNCHANGED <<rows, blobs, process, req, run>>

\* Out of attempts and failed already: left alone.
SweepSkip(d) ==
    /\ Scanning(d) /\ ~AttemptsLeft(d)
    /\ snap[d].status = "failed"
    /\ Forget(d)
    /\ UNCHANGED <<store, process, req, run, sweep>>

SweepStep ==
    \/ SweepList
    \/ \E d \in Docs : \/ SweepRetry(d) \/ SweepAbandon(d)
                       \/ SweepAbandonRaises(d) \/ SweepSkip(d)

-----------------------------------------------------------------------------
Next ==
    \/ Boot \/ Crash
    \/ \E q \in Requests : \/ \E d \in Docs : UploadPut(q, d)
                           \/ UploadInsert(q) \/ UploadInsertRaises(q)
    \/ \E r \in Runs : Step(r)
    \/ SweepStep

Spec == Init /\ [][Next]_vars

\* The restart policy brings the process back, and the event loop runs every
\* task whose awaited call has answered.
FairSpec ==
    /\ Spec
    /\ WF_vars(Boot) /\ WF_vars(SweepStep)
    /\ \A r \in Runs : WF_vars(Step(r))

-----------------------------------------------------------------------------
(* Properties *)

\* Only a live process runs anything, a call works the document it was made
\* for, and it plans to write only rows the chunker computed.
RunsOK ==
    \A r \in Runs : run[r].pc # "idle" =>
        /\ up /\ run[r].doc \in Docs
        /\ r # Sweeper => run[r].doc = r
        /\ run[r].moved \cup run[r].missing \subseteq DOMAIN Layout[run[r].doc][conf]

\* Every variable keeps its type.
TypeOK ==
    /\ rec \in [Docs -> [status : Status, attempts : Nat]]
    /\ rows \in [Docs -> Rows]
    /\ blobs \subseteq Docs
    /\ up \in BOOLEAN /\ boots \in Nat /\ conf \in Versions
    /\ req \in [Requests -> Docs \cup {NoDoc}]
    /\ run \in [Runs -> [pc : Steps, doc : Docs \cup {NoDoc}, stale : SUBSET Chunks,
                         moved : SUBSET Chunks, missing : SUBSET Chunks]]
    /\ sweep \in {"off", "list", "scan", "died"}
    /\ DOMAIN snap \subseteq Docs
    /\ \A d \in DOMAIN snap : snap[d] \in [status : Status, attempts : Nat]
    /\ RunsOK

\* A document is claimed at most MaxAttempts times, once (at upload) if that is 0.
Bound == IF MaxAttempts = 0 THEN 1 ELSE MaxAttempts

\* The retry bound of ingestion_service.py:129-132 holds across crashes, boots
\* and lost writes although the sweep decides from a snapshot.
AttemptsBounded ==
    \A d \in Docs :
        rec[d].attempts <= Bound

\* A client that polls `ready` can rely on it: the stored rows, with their
\* positions, are exactly the ones some settings compute, although an upload
\* task and the sweep may be writing the same document together.
ReadyComplete ==
    \A d \in Docs : rec[d].status = "ready" =>
        \E v \in Versions : rows[d] = Layout[d][v]

\* A record never precedes its blob (document_service.py:148-149), and while it
\* is `pending` nothing has been spent on it: no attempt, no chunk.
PendingUntouched ==
    \A d \in Docs :
        /\ rec[d].status # "absent" => d \in blobs
        /\ rec[d].status \in {"absent", "pending"} =>
              rec[d].attempts = 0 /\ rows[d] = NoRows

\* d is worked by a live call that has claimed it.
Worked(d) ==
    \E r \in Runs : run[r].doc = d /\ run[r].pc \in {"work", "find", "embed", "write", "handler"}

\* d is still to be dealt with by this boot's sweep: the query is to come, d is
\* in its answer, or the sweep's call on d has not claimed it yet.
ToBeSwept(d) ==
    \/ sweep = "list" \/ d \in DOMAIN snap
    \/ run[Sweeper].doc = d /\ run[Sweeper].pc \in {"start", "claim"}

\* Nothing is left `processing` without somebody to finish it: a live task, the
\* sweep under way, or the sweep of the next boot (ingestion_service.py:123-124,
\* 164-167).  Where no database call raises and the query returns everything.
ProcessingIsOwned ==
    \A d \in Docs : up /\ rec[d].status = "processing" => Worked(d) \/ ToBeSwept(d)

\* A record that changes is not back to `pending`, and its count changes only by
\* the claim of a call that holds it.
CountsClaims(d) ==
    /\ rec[d].status # "absent" =>
          rec'[d].status \notin {"absent", "pending"} \/ UNCHANGED rec[d]
    /\ rec'[d].attempts # rec[d].attempts =>
          /\ rec'[d] = [status |-> "processing", attempts |-> rec[d].attempts + 1]
          /\ \E r \in Runs : run[r].doc = d /\ run[r].pc = "claim"

\* An attempt is counted exactly when a document is claimed, once per claim
\* (document_service.py:251-253), and nothing takes a count back or returns a
\* document to `pending`.
AttemptsCountClaims == [][\A d \in Docs : CountsClaims(d)]_vars

\* Whatever crashes, a claimed document ends `ready` or `failed`.
ProcessingSettles ==
    \A d \in Docs : rec[d].status = "processing" ~> rec[d].status \in {"ready", "failed"}

\* A boot that finds a document `failed` with attempts left runs it again
\* (ingestion_service.py:125-127), or a later boot does.
FailedIsRetried ==
    \A d \in Docs : \A n \in 0..MaxAttempts :
        (/\ sweep = "list" /\ rec[d] = [status |-> "failed", attempts |-> n]
         /\ n < MaxAttempts) ~> rec[d].attempts > n

-----------------------------------------------------------------------------
(* What the whole pipeline implements: DocumentPromise, over the records and
   the chunk rows alone. *)

Wholes(d) == {Layout[d][v] : v \in Versions}

Promise == INSTANCE DocumentPromise
             WITH Empty <- NoRows, AllRows <- Rows, Complete <- Wholes

\* Tasks, sweep, crashes and lost writes together show a client nothing but
\* steps of DocumentPromise.
PromiseKept == Promise!Spec

-----------------------------------------------------------------------------
(* What comments of the code say and the code does not do. *)

\* ingestion_service.py:119 "Re-run documents left in a non-terminal or failed
\* state": `pending` is not terminal either, so it should not be for ever.
PendingIsPickedUp ==
    \A d \in Docs : rec[d].status = "pending" ~> rec[d].status # "pending"

\* ingestion_service.py:158-160 "process_document never raises, so one bad
\* document can't stop the rest".
SweepSurvives == sweep # "died"
=============================================================================
