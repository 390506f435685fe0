--------------------------- MODULE IngestionProofs ---------------------------
(***************************************************************************)
(* What holds of Ingestion for every set of documents, settings and        *)
(* requests, every retry budget and any number of boots: first the types,  *)
(* the retry budget and what precedes a claim; then what a client that     *)
(* polls a document may rely on.  `ready` means whole, the pipeline shows  *)
(* nothing but steps of DocumentPromise, and, where the database answers,  *)
(* `processing` means that somebody is to finish it.                       *)
(*                                                                         *)
(* ReadyComplete is not inductive.  A document may have two live calls at  *)
(* once, its upload task and the sweep's, each working from a plan made of *)
(* rows the other has changed since.  What saves them is that both compute *)
(* the same rows, those of the settings the process came up with: a write  *)
(* of either only ever brings the stored rows nearer to these, so no plan  *)
(* goes out of date in a way that matters, and the writes of the slower    *)
(* call find nothing left to change in a document already `ready`.         *)
(***************************************************************************)
EXTENDS Ingestion, FiniteSetTheorems, TLAPS

-----------------------------------------------------------------------------
(* Types. *)

RunType ==
    [pc : Steps, doc : Docs \cup {NoDoc}, stale : SUBSET Chunks,
     moved : SUBSET Chunks, missing : SUBSET Chunks]

\* Writing or dropping one row leaves a set of rows.
LEMMA RowsType ==
    ASSUME NEW f \in Rows, NEW c \in Chunks
    PROVE  /\ Drop(f, c) \in Rows
           /\ \A i \in Indexes : Put(f, c, i) \in Rows
<1>1. PICK S \in SUBSET Chunks : f \in [S -> Indexes]
  BY DEF Rows
<1>2. /\ [x \in S \ {c} |-> f[x]] \in [S \ {c} -> Indexes]
      /\ \A i \in Indexes : [x \in S \cup {c} |-> IF x = c THEN i ELSE f[x]]
                              \in [S \cup {c} -> Indexes]
  BY <1>1
<1>3. S \ {c} \in SUBSET Chunks /\ S \cup {c} \in SUBSET Chunks
  BY <1>1
<1>4. DOMAIN f = S
  BY <1>1
<1> QED
  BY <1>1, <1>2, <1>3, <1>4 DEF Rows, Drop, Put

\* The rows of a document are chunks.
LEMMA RowsDomain == \A f \in Rows : DOMAIN f \subseteq Chunks
BY DEF Rows

\* A document starts without rows.
LEMMA NoRowsType == NoRows \in Rows
<1>1. NoRows \in [{} -> Indexes]
  BY DEF NoRows
<1> QED
  BY <1>1 DEF Rows

CallOK(pc, d) ==
    /\ Call(pc, d) \in RunType
    /\ Call(pc, d).pc = pc /\ Call(pc, d).doc = d
    /\ Call(pc, d).moved = {} /\ Call(pc, d).missing = {}

\* A fresh call of process_document has planned nothing.
LEMMA CallType == \A pc \in Steps, d \in Docs \cup {NoDoc} : CallOK(pc, d)
BY DEF CallOK, Call, RunType

\* So has a finished one.
LEMMA IdleType == Idle \in RunType /\ Idle.pc = "idle"
BY DEF Idle, Call, RunType, Steps

\* The types hold before the first boot.
LEMMA InitTypeOK == Init => TypeOK
<1> SUFFICES ASSUME Init PROVE TypeOK
  OBVIOUS
<1> USE Parameters
<1>1. rows \in [Docs -> Rows]
  BY NoRowsType DEF Init
<1>2. run \in [Runs -> RunType] /\ \A r \in Runs : run[r].pc = "idle"
  BY IdleType DEF Init
<1>3. rec \in [Docs -> [status : Status, attempts : Nat]]
  BY DEF Init, Status
<1> QED
  BY <1>1, <1>2, <1>3 DEF Init, TypeOK, RunsOK, RunType, NoSnap

\* What a step of process_document may do to the variables TypeOK speaks of,
\* whichever branch it takes: keep, abort or finish its call, or move it on.
LEMMA RunTyped ==
    ASSUME TypeOK, NEW r \in Runs, run[r].pc # "idle",
           \/ \E pc \in Steps : Goto(r, pc)
           \/ Abort(r)
           \/ Finish(r)
           \/ \E new \in RunType :
                 /\ new.doc = run[r].doc
                 /\ new.moved \cup new.missing \subseteq DOMAIN Layout[run[r].doc][conf]
                 /\ run' = [run EXCEPT ![r] = new],
           UNCHANGED <<up, conf>>
    PROVE  run' \in [Runs -> RunType] /\ RunsOK'
<1> USE DEF TypeOK, RunsOK
<1> DEFINE target == DOMAIN Layout[run[r].doc][conf]
           Fits(new) == /\ new.doc = run[r].doc
                        /\ new.moved \cup new.missing \subseteq target
<1>1. ASSUME NEW new \in RunType, Fits(new) \/ new.pc = "idle",
             run' = [run EXCEPT ![r] = new]
      PROVE  run' \in [Runs -> RunType] /\ RunsOK'
  BY <1>1 DEF RunType
<1>2. ASSUME NEW pc \in Steps, Goto(r, pc)
      PROVE  \E new \in RunType : Fits(new) /\ run' = [run EXCEPT ![r] = new]
  <2>1. [run[r] EXCEPT !.pc = pc] \in RunType /\ Fits([run[r] EXCEPT !.pc = pc])
    BY DEF RunType
  <2>2. run' = [run EXCEPT ![r] = [run[r] EXCEPT !.pc = pc]]
    BY <1>2 DEF Goto
  <2> QED
    BY <2>1, <2>2
<1>3. ASSUME Abort(r)
      PROVE  \E new \in RunType : Fits(new) /\ run' = [run EXCEPT ![r] = new]
  <2>1. CallOK("handler", run[r].doc)
    BY CallType DEF Steps
  <2> QED
    BY <1>3, <2>1 DEF Abort, CallOK
<1> QED
  BY <1>1, <1>2, <1>3, IdleType DEF Finish

\* Each step of process_document keeps the types.
LEMMA StepTypeOK == ASSUME TypeOK, NEW r \in Runs, Step(r) PROVE TypeOK'
<1> USE Parameters DEF store, process
<1> DEFINE d == run[r].doc
           target == DOMAIN Layout[d][conf]
           Replace(new) == /\ new.doc = d /\ new.moved \cup new.missing \subseteq target
                           /\ run' = [run EXCEPT ![r] = new]
<1>1. run[r].pc # "idle" /\ up
  BY DEF Step, GetRecord, Claim, Work, FindExisting, Embed, DeleteStale, Reindex,
         InsertChunk, SetReady, StepRaises, SetFailed, HandlerRaises, At
<1>2. /\ d \in Docs /\ d \in DOMAIN rec /\ d \in DOMAIN rows /\ run[r] \in RunType
      /\ run[r].moved \cup run[r].missing \subseteq target
  BY <1>1 DEF TypeOK, RunsOK, RunType
<1>3. \A c \in DOMAIN Layout[d][conf] :
         c \in Chunks /\ Layout[d][conf][c] \in Indexes
  <2>1. Layout[d][conf] \in Rows
    BY <1>2 DEF TypeOK
  <2>2. PICK S \in SUBSET Chunks : Layout[d][conf] \in [S -> Indexes]
    BY <2>1 DEF Rows
  <2> QED
    BY <2>2
<1>4. \/ \E pc \in Steps : Goto(r, pc)
      \/ Abort(r)
      \/ Finish(r)
      \/ \E new \in RunType : Replace(new)
  <2> USE DEF RunType
  <2>1. CASE GetRecord(r)
    BY <2>1 DEF GetRecord, Steps
  <2>2. CASE Claim(r)
    BY <2>2 DEF Claim, Steps
  <2>3. CASE Work(r)
    BY <2>3 DEF Work, Steps
  <2>4. CASE FindExisting(r)
    <3> DEFINE missing == target \ DOMAIN rows[d]
               new == [pc |-> IF missing = {} THEN "write" ELSE "embed", doc |-> d,
                       stale |-> DOMAIN rows[d] \ target,
                       moved |-> MovedRows(rows[d], Layout[d][conf]),
                       missing |-> missing]
    <3>1. DOMAIN rows[d] \subseteq Chunks
      <4>1. rows[d] \in Rows
        BY <1>2 DEF TypeOK
      <4> QED
        BY <4>1, RowsDomain
    <3>2. new \in RunType
      BY <1>2, <1>3, <3>1 DEF Steps, MovedRows
    <3>3. run' = [run EXCEPT ![r] = new]
      BY <2>4 DEF FindExisting
    <3>4. new.doc = d /\ new.moved \cup new.missing \subseteq target
      BY DEF MovedRows
    <3>5. Replace(new)
      BY <3>3, <3>4
    <3> QED
      BY <3>2, <3>5
  <2>5. CASE Embed(r)
    BY <2>5 DEF Embed, Steps
  <2>6. ASSUME NEW c \in Chunks, DeleteStale(r, c)
        PROVE \E new \in RunType : Replace(new)
    BY <1>2, <2>6 DEF DeleteStale
  <2>7. ASSUME NEW c \in Chunks, Reindex(r, c)
        PROVE \E new \in RunType : Replace(new)
    BY <1>2, <2>7 DEF Reindex
  <2>8. ASSUME NEW c \in Chunks, InsertChunk(r, c)
        PROVE \/ Abort(r)
              \/ \E new \in RunType : Replace(new)
    BY <1>2, <2>8 DEF InsertChunk
  <2> QED
    BY <2>1, <2>2, <2>3, <2>4, <2>5, <2>6, <2>7, <2>8
       DEF Step, SetReady, StepRaises, SetFailed, HandlerRaises
<1>5. UNCHANGED <<blobs, up, boots, conf, req>>
  BY DEF Step, GetRecord, Claim, Work, FindExisting, Embed, DeleteStale, Reindex,
         InsertChunk, SetReady, StepRaises, SetFailed, HandlerRaises
<1>6. run' \in [Runs -> RunType] /\ RunsOK'
  BY <1>1, <1>4, <1>5, RunTyped
<1>7. rec' \in [Docs -> [status : Status, attempts : Nat]]
  <2> USE <1>2 DEF TypeOK, Status
  <2>1. CASE Claim(r)
    BY <2>1 DEF Claim
  <2>2. CASE SetReady(r) \/ SetFailed(r) \/ HandlerRaises(r)
    BY <2>2 DEF SetReady, SetFailed, HandlerRaises
  <2> QED
    BY <2>1, <2>2 DEF Step, GetRecord, Work, FindExisting, Embed, DeleteStale,
       Reindex, InsertChunk, StepRaises
<1>8. rows' \in [Docs -> Rows]
  <2>1. rows[d] \in Rows /\ rows \in [Docs -> Rows]
    BY <1>2 DEF TypeOK
  <2>2. ASSUME NEW c \in Chunks, DeleteStale(r, c) PROVE rows' \in [Docs -> Rows]
    <3>1. Drop(rows[d], c) \in Rows
      BY <2>1, RowsType
    <3> QED
      BY <1>2, <2>1, <2>2, <3>1 DEF DeleteStale
  <2>3. ASSUME NEW c \in target PROVE Put(rows[d], c, Layout[d][conf][c]) \in Rows
    BY <1>3, <2>1, RowsType
  <2>4. ASSUME NEW c \in Chunks, Reindex(r, c) \/ InsertChunk(r, c)
        PROVE  rows' \in [Docs -> Rows]
    <3>1. c \in target
      BY <1>2, <2>4 DEF Reindex, InsertChunk, FirstOf
    <3> QED
      BY <1>2, <2>1, <2>3, <2>4, <3>1 DEF Reindex, InsertChunk
  <2> QED
    BY <2>1, <2>2, <2>4 DEF Step, GetRecord, Claim, Work, FindExisting, Embed,
       SetReady, StepRaises, SetFailed, HandlerRaises
<1>9. /\ sweep' \in {"off", "list", "scan", "died"}
      /\ DOMAIN snap' \subseteq Docs
      /\ \A x \in DOMAIN snap' : snap'[x] \in [status : Status, attempts : Nat]
  <2> USE DEF TypeOK
  <2>1. CASE HandlerRaises(r)
    BY <2>1 DEF HandlerRaises, NoSnap
  <2> QED
    BY <2>1 DEF Step, GetRecord, Claim, Work, FindExisting, Embed, DeleteStale,
       Reindex, InsertChunk, SetReady, StepRaises, SetFailed
<1> QED
  BY <1>5, <1>6, <1>7, <1>8, <1>9 DEF TypeOK, RunType

\* Each action keeps the types.
LEMMA NextTypeOK == TypeOK /\ [Next]_vars => TypeOK'
<1> SUFFICES ASSUME TypeOK, [Next]_vars PROVE TypeOK'
  OBVIOUS
<1> USE Parameters DEF TypeOK, RunsOK, store, process
<1>1. CASE Boot
  BY <1>1 DEF Boot
<1>2. CASE Crash
  <2>1. run' \in [Runs -> RunType] /\ \A r \in Runs : run'[r].pc = "idle"
    BY <1>2, IdleType DEF Crash
  <2> QED
    BY <1>2, <2>1 DEF Crash, RunType, NoSnap
<1>3. ASSUME NEW q \in Requests, NEW d \in Docs, UploadPut(q, d) PROVE TypeOK'
  BY <1>3 DEF UploadPut
<1>4. ASSUME NEW q \in Requests, UploadInsert(q) PROVE TypeOK'
  <2> DEFINE d == req[q]
  <2>1. d \in Docs
    BY <1>4 DEF UploadInsert
  <2>2. rec' \in [Docs -> [status : Status, attempts : Nat]]
    <3>1. [status |-> "pending", attempts |-> 0] \in [status : Status, attempts : Nat]
      BY DEF Status
    <3> QED
      BY <1>4, <2>1, <3>1, ZenonT(30) DEF UploadInsert
  <2>3. CallOK("start", d)
    BY <2>1, CallType DEF Steps
  <2>4. run' \in [Runs -> RunType]
    BY <1>4, <2>1, <2>3, ZenonT(30) DEF UploadInsert, RunType, CallOK
  <2>5. RunsOK'
    BY <1>4, <2>1, <2>3, ZenonT(30) DEF UploadInsert, Runs, RunsOK, CallOK
  <2> QED
    BY <1>4, <2>2, <2>4, <2>5 DEF UploadInsert, RunType
<1>5. ASSUME NEW q \in Requests, UploadInsertRaises(q) PROVE TypeOK'
  <2>1. [status |-> "pending", attempts |-> 0] \in [status : Status, attempts : Nat]
    BY DEF Status
  <2>2. rec' \in [Docs -> [status : Status, attempts : Nat]]
    BY <1>5, <2>1 DEF UploadInsertRaises
  <2>3. req' \in [Requests -> Docs \cup {NoDoc}]
    BY <1>5 DEF UploadInsertRaises
  <2> QED
    BY <1>5, <2>2, <2>3 DEF UploadInsertRaises
<1>6. ASSUME NEW r \in Runs, Step(r) PROVE TypeOK'
  BY <1>6, StepTypeOK
<1>7. CASE SweepStep
  <2>1. CASE SweepList
    BY <1>7, <2>1 DEF SweepList, Recoverable
  <2>2. ASSUME NEW d \in Docs, SweepRetry(d) PROVE TypeOK'
    <3>1. CallOK("start", d)
      BY CallType DEF Steps
    <3>2. run' \in [Runs -> RunType]
      BY <2>2, <3>1 DEF SweepRetry, RunType, CallOK
    <3>3. RunsOK'
      BY <2>2, <3>1 DEF SweepRetry, Scanning, Runs, RunsOK, CallOK
    <3>4. DOMAIN snap' \subseteq Docs
             /\ \A x \in DOMAIN snap' : snap'[x] \in [status : Status, attempts : Nat]
      BY <2>2 DEF SweepRetry, Forget, Drop
    <3> QED
      BY <2>2, <3>2, <3>3, <3>4 DEF SweepRetry, RunType
  <2>3. ASSUME NEW d \in Docs, SweepAbandon(d) PROVE TypeOK'
    BY <2>3 DEF SweepAbandon, Forget, Drop, Status
  <2>4. ASSUME NEW d \in Docs, SweepAbandonRaises(d) PROVE TypeOK'
    <3>1. /\ UNCHANGED <<rows, blobs, up, boots, conf, req, run>>
          /\ sweep' = "died" /\ DOMAIN snap' = {}
      BY <2>4 DEF SweepAbandonRaises, NoSnap
    <3>2. rec' \in [Docs -> [status : Status, attempts : Nat]]
      BY <2>4 DEF SweepAbandonRaises, Status
    <3> QED
      BY <3>1, <3>2
  <2>5. ASSUME NEW d \in Docs, SweepSkip(d) PROVE TypeOK'
    BY <2>5 DEF SweepSkip, Forget, Drop
  <2> QED
    BY <1>7, <2>1, <2>2, <2>3, <2>4, <2>5 DEF SweepStep
<1>8. CASE UNCHANGED vars
  BY <1>8 DEF vars
<1> QED
  BY <1>1, <1>2, <1>3, <1>4, <1>5, <1>6, <1>7, <1>8 DEF Next

\* Uploads, process_document, the sweep, crashes and raising calls keep every
\* variable in its type; in particular nothing runs while the process is down,
\* and a sync plans to write only rows the chunker computed for its document.
THEOREM TypeCorrect == Spec => []TypeOK
<1>1. Init => TypeOK
  BY InitTypeOK
<1>2. TypeOK /\ [Next]_vars => TypeOK'
  BY NextTypeOK
<1> QED
  BY <1>1, <1>2, PTL DEF Spec

-----------------------------------------------------------------------------
(* The retry bound.  AttemptsBounded alone is not inductive: a claim does not
   look at the count, so what bounds it is who may be about to claim.  An
   upload task claims a document that is still `pending` and so uncounted; the
   sweep claims one whose count in the snapshot was under the budget, and the
   snapshot is still exact because nobody else can have claimed it since. *)

Unclaimed == {"absent", "pending"}
BeforeClaim == {"start", "claim"}

PendingUncounted ==
    \A d \in Docs : rec[d].status \in Unclaimed => rec[d].attempts = 0

SnapExact ==
    \A d \in DOMAIN snap :
        rec[d].status \notin Unclaimed /\ snap[d].attempts = rec[d].attempts

UploadClaimsPending ==
    \A d \in Docs : run[d].pc \in BeforeClaim => rec[d].status = "pending"

SweepClaimsInBudget ==
    /\ sweep # "scan" => run[Sweeper].pc = "idle"
    /\ LET d == run[Sweeper].doc IN
       /\ run[Sweeper].pc # "idle" => rec[d].status \notin Unclaimed
       /\ run[Sweeper].pc \in BeforeClaim =>
             rec[d].attempts < MaxAttempts /\ d \notin DOMAIN snap

AttemptsInv ==
    /\ AttemptsBounded /\ PendingUncounted /\ SnapExact
    /\ UploadClaimsPending /\ SweepClaimsInBudget

\* Nothing is counted before the first boot.
LEMMA InitAttempts == Init => AttemptsInv
BY Parameters DEF Init, AttemptsInv, AttemptsBounded, Bound, PendingUncounted, SnapExact,
   UploadClaimsPending, SweepClaimsInBudget, NoSnap, Idle, Call, Runs, Unclaimed,
   BeforeClaim

\* A step of call r that counts nothing: it may set the status of its document,
\* to something claimed, and may drop the snapshot.
Uncounting(r) ==
    /\ \A s \in Runs \ {r} : run'[s] = run[s]
    /\ run'[r].pc \in BeforeClaim =>
          run[r].pc \in BeforeClaim /\ run'[r].doc = run[r].doc
    /\ run'[r].pc = "idle" \/ run'[r].doc = run[r].doc
    /\ \/ UNCHANGED rec
       \/ /\ run'[r].pc \notin BeforeClaim /\ run[r].pc \notin BeforeClaim
          /\ \E st \in Status \ Unclaimed :
                rec' = [rec EXCEPT ![run[r].doc].status = st]
    /\ \/ UNCHANGED <<sweep, snap>>
       \/ r = Sweeper /\ run'[r].pc = "idle" /\ snap' = NoSnap

\* Such a step takes nothing from the retry bound.
LEMMA UncountingKeeps ==
    ASSUME TypeOK, AttemptsInv, NEW r \in Runs, run[r].pc # "idle", Uncounting(r)
    PROVE  AttemptsInv'
<1> USE Parameters DEF AttemptsInv
<1> DEFINE d == run[r].doc
<1>1. d \in Docs /\ (r # Sweeper => d = r) /\ Sweeper \in Runs /\ Docs \subseteq Runs
  BY DEF TypeOK, RunsOK, Runs
<1>2. \A x \in Docs :
         /\ rec'[x].attempts = rec[x].attempts
         /\ rec'[x].status = rec[x].status \/ (x = d /\ rec'[x].status \notin Unclaimed)
  <2>1. rec \in [Docs -> [status : Status, attempts : Nat]]
    BY DEF TypeOK
  <2>2. ASSUME NEW st \in Status \ Unclaimed, rec' = [rec EXCEPT ![d].status = st],
               NEW x \in Docs
        PROVE  /\ rec'[x].attempts = rec[x].attempts
               /\ rec'[x].status = rec[x].status
                     \/ (x = d /\ rec'[x].status \notin Unclaimed)
    BY <1>1, <2>1, <2>2
  <2> QED
    BY <2>2 DEF Uncounting
<1>4. AttemptsBounded' /\ PendingUncounted'
  BY <1>2 DEF AttemptsBounded, Bound, PendingUncounted
<1>5. SnapExact'
  <2>1. DOMAIN snap \subseteq Docs /\ (snap' = snap \/ DOMAIN snap' = {})
    BY DEF Uncounting, NoSnap, TypeOK
  <2> QED
    BY <1>2, <2>1 DEF SnapExact
<1>6. UploadClaimsPending'
  <2> SUFFICES ASSUME NEW x \in Docs, run'[x].pc \in BeforeClaim
               PROVE  rec'[x].status = "pending"
    BY DEF UploadClaimsPending
  <2>1. rec[x].status = "pending"
    BY <1>1 DEF UploadClaimsPending, Uncounting
  <2>2. CASE x = r
    BY <2>1, <2>2 DEF Uncounting
  <2>3. CASE x # r
    <3>1. x # d
      BY <1>1, <2>1, <2>3 DEF SweepClaimsInBudget, Unclaimed
    <3> QED
      BY <1>2, <2>1, <3>1
  <2> QED
    BY <2>2, <2>3
<1>7. SweepClaimsInBudget'
  <2>1. sweep' # "scan" => run'[Sweeper].pc = "idle"
    BY <1>1 DEF SweepClaimsInBudget, Uncounting
  <2>2. run'[Sweeper].pc # "idle" =>
           /\ run[Sweeper].pc # "idle" /\ run'[Sweeper].doc = run[Sweeper].doc
           /\ snap' = snap
    BY <1>1 DEF Uncounting
  <2>3. run'[Sweeper].pc \in BeforeClaim => run[Sweeper].pc \in BeforeClaim
    BY <1>1 DEF Uncounting
  <2>4. run[Sweeper].pc # "idle" => run[Sweeper].doc \in Docs
    BY <1>1 DEF TypeOK, RunsOK
  <2>5. BeforeClaim \subseteq Steps \ {"idle"}
    BY DEF BeforeClaim, Steps
  <2> QED
    BY <1>2, <2>1, <2>2, <2>3, <2>4, <2>5 DEF SweepClaimsInBudget
<1> QED
  BY <1>4, <1>5, <1>6, <1>7

\* A claim counts, within the budget, and no snapshot still holds its document.
LEMMA ClaimAttempts ==
    ASSUME TypeOK, AttemptsInv, NEW r \in Runs, Claim(r)
    PROVE  AttemptsInv'
<1> USE Parameters DEF store, process
<1> DEFINE d == run[r].doc
<1>1. run[r].pc = "claim" /\ run \in [Runs -> RunType] /\ run[r] \in RunType
  BY DEF TypeOK, RunType, Claim, At
<1>2. d \in Docs /\ (r # Sweeper => d = r) /\ Sweeper \in Runs /\ Docs \subseteq Runs
  BY <1>1 DEF TypeOK, RunsOK, Runs
<1>3. /\ rec' = [rec EXCEPT ![d] = [status |-> "processing",
                                    attempts |-> rec[d].attempts + 1]]
      /\ rec \in [Docs -> [status : Status, attempts : Nat]]
      /\ UNCHANGED <<sweep, snap>>
  BY DEF Claim, TypeOK
<1>4. /\ \A s \in Runs \ {r} : run'[s] = run[s]
      /\ run'[r].pc = "work" /\ run'[r].doc = d
  BY <1>1 DEF Claim, Goto, RunType
<1>5. \/ r = d /\ rec[d].status = "pending" /\ rec[d].attempts = 0
      \/ r = Sweeper /\ rec[d].status \notin Unclaimed /\ rec[d].attempts < MaxAttempts
  BY <1>1, <1>2 DEF AttemptsInv, UploadClaimsPending, SweepClaimsInBudget, BeforeClaim,
     PendingUncounted, Unclaimed
<1>6. AttemptsBounded'
  BY <1>2, <1>3, <1>5 DEF AttemptsInv, AttemptsBounded, Bound
<1>7. PendingUncounted'
  BY <1>2, <1>3 DEF AttemptsInv, PendingUncounted, Unclaimed
<1>8. d \notin DOMAIN snap
  BY <1>1, <1>2, <1>5 DEF AttemptsInv, SnapExact, SweepClaimsInBudget, BeforeClaim,
     Unclaimed
<1>9. SnapExact'
  BY <1>2, <1>3, <1>8 DEF AttemptsInv, SnapExact, TypeOK
<1>10. UploadClaimsPending'
  <2> SUFFICES ASSUME NEW x \in Docs, run'[x].pc \in BeforeClaim
               PROVE  rec'[x].status = "pending"
    BY DEF UploadClaimsPending
  <2>1. x # r /\ rec[x].status = "pending"
    BY <1>2, <1>4 DEF AttemptsInv, UploadClaimsPending, BeforeClaim
  <2>2. x # d
    BY <1>5, <2>1 DEF Unclaimed
  <2> QED
    BY <1>2, <1>3, <2>1, <2>2
<1>11. SweepClaimsInBudget'
  <2> DEFINE e == run[Sweeper].doc
  <2>1. /\ run'[Sweeper].pc # "idle" => run[Sweeper].pc # "idle"
        /\ run'[Sweeper].doc = e
        /\ run'[Sweeper].pc \in BeforeClaim => run[Sweeper].pc \in BeforeClaim /\ r = d
    BY <1>1, <1>2, <1>4, <1>5 DEF BeforeClaim
  <2>2. CASE e = d
    <3>1. rec'[e].status \notin Unclaimed
      BY <1>2, <1>3, <2>2 DEF Unclaimed
    <3>2. run'[Sweeper].pc \notin BeforeClaim
      BY <1>2, <1>4, <1>5, <2>1, <2>2
         DEF AttemptsInv, SweepClaimsInBudget, BeforeClaim, Unclaimed
    <3>3. sweep' # "scan" => run'[Sweeper].pc = "idle"
      BY <1>1, <1>3, <2>1, <1>4 DEF AttemptsInv, SweepClaimsInBudget
    <3> QED
      BY <2>1, <3>1, <3>2, <3>3 DEF SweepClaimsInBudget
  <2>3. CASE e # d
    <3>1. r # Sweeper
      BY <2>3
    <3>2. run[Sweeper].pc # "idle" => e \in Docs /\ rec'[e] = rec[e]
      BY <1>2, <1>3, <2>3 DEF TypeOK, RunsOK
    <3> QED
      BY <1>2, <1>3, <1>4, <3>1, <3>2 DEF AttemptsInv, SweepClaimsInBudget, BeforeClaim
  <2> QED
    BY <2>2, <2>3
<1> QED
  BY <1>6, <1>7, <1>9, <1>10, <1>11 DEF AttemptsInv

\* Every step of process_document but the claim counts nothing.
LEMMA StepAttempts ==
    ASSUME TypeOK, AttemptsInv, NEW r \in Runs, Step(r)
    PROVE  AttemptsInv'
<1> USE Parameters DEF store, process
<1> DEFINE d == run[r].doc
<1>1. run[r].pc # "idle" /\ run \in [Runs -> RunType] /\ run[r] \in RunType
  BY DEF TypeOK, RunType, Step, GetRecord, Claim, Work, FindExisting, Embed, DeleteStale,
         Reindex, InsertChunk, SetReady, StepRaises, SetFailed, HandlerRaises, At
<1>2. d \in Docs /\ (r # Sweeper => d = r) /\ Sweeper \in Runs /\ Docs \subseteq Runs
  BY <1>1 DEF TypeOK, RunsOK, Runs
<1>3. \A pc \in Steps \ {"claim"} : Goto(r, pc) /\ UNCHANGED <<rec, sweep, snap>>
         /\ (pc # "start") => Uncounting(r)
  BY <1>1 DEF Goto, Uncounting, BeforeClaim, RunType
<1>4. Abort(r) \/ Finish(r)
        => /\ run'[r].pc \in {"handler", "idle"}
           /\ run'[r].pc = "idle" \/ run'[r].doc = d
           /\ \A s \in Runs \ {r} : run'[s] = run[s]
  BY <1>1 DEF Abort, Finish, Idle, Call
<1>5. CASE GetRecord(r)
  BY <1>1, <1>4, <1>5, UncountingKeeps
     DEF GetRecord, Goto, Uncounting, At, BeforeClaim, RunType
<1>6. CASE Claim(r)
  BY <1>6, ClaimAttempts
<1>7. CASE Work(r) \/ Embed(r)
  BY <1>1, <1>3, <1>7, UncountingKeeps DEF Work, Embed, Steps
<1>8. CASE FindExisting(r)
  BY <1>1, <1>8, UncountingKeeps DEF FindExisting, Uncounting, BeforeClaim
<1>9. ASSUME NEW c \in Chunks, DeleteStale(r, c) \/ Reindex(r, c) PROVE AttemptsInv'
  BY <1>1, <1>9, UncountingKeeps
     DEF DeleteStale, Reindex, Uncounting, BeforeClaim, RunType, At
<1>10. ASSUME NEW c \in Chunks, InsertChunk(r, c) PROVE AttemptsInv'
  BY <1>1, <1>4, <1>10, UncountingKeeps
     DEF InsertChunk, Uncounting, BeforeClaim, RunType, At
<1>11. CASE SetReady(r)
  BY <1>1, <1>4, <1>11, UncountingKeeps
     DEF SetReady, Uncounting, BeforeClaim, Status, Unclaimed, At
<1>12. CASE StepRaises(r)
  BY <1>1, <1>4, <1>12, UncountingKeeps DEF StepRaises, Uncounting, BeforeClaim
<1>13. CASE SetFailed(r)
  BY <1>1, <1>4, <1>13, UncountingKeeps
     DEF SetFailed, Uncounting, BeforeClaim, Status, Unclaimed, At
<1>14. CASE HandlerRaises(r)
  BY <1>1, <1>4, <1>14, UncountingKeeps
     DEF HandlerRaises, Uncounting, BeforeClaim, Status, Unclaimed, At, Finish, Idle, Call
<1> QED
  BY <1>5, <1>6, <1>7, <1>8, <1>9, <1>10, <1>11, <1>12, <1>13, <1>14 DEF Step

\* Each action keeps the retry bound and what it rests on.
LEMMA NextAttempts == TypeOK /\ AttemptsInv /\ [Next]_vars => AttemptsInv'
<1> SUFFICES ASSUME TypeOK, AttemptsInv, [Next]_vars PROVE AttemptsInv'
  OBVIOUS
<1> USE Parameters DEF store, process
<1> DEFINE pending == [status |-> "pending", attempts |-> 0]
<1>0. /\ rec \in [Docs -> [status : Status, attempts : Nat]]
      /\ Sweeper \in Runs /\ Sweeper \notin Docs /\ Docs \subseteq Runs
  BY DEF TypeOK, Runs
<1>1. CASE Boot
  <2>1. \A r \in Runs : run[r].pc = "idle"
    BY <1>1 DEF Boot, TypeOK, RunsOK
  <2> QED
    BY <1>0, <1>1, <2>1 DEF Boot, AttemptsInv, AttemptsBounded, PendingUncounted,
       SnapExact, UploadClaimsPending, SweepClaimsInBudget, BeforeClaim
<1>2. CASE Crash
  <2>1. \A r \in Runs : run'[r].pc = "idle"
    BY <1>2, IdleType DEF Crash
  <2> QED
    BY <1>0, <1>2, <2>1 DEF Crash, AttemptsInv, AttemptsBounded, PendingUncounted,
       SnapExact, UploadClaimsPending, SweepClaimsInBudget, BeforeClaim, NoSnap
<1>3. ASSUME NEW q \in Requests, NEW d \in Docs, UploadPut(q, d) PROVE AttemptsInv'
  BY <1>3 DEF UploadPut, AttemptsInv, AttemptsBounded, PendingUncounted,
     SnapExact, UploadClaimsPending, SweepClaimsInBudget
\* A record that appears was absent: no snapshot and no call knew it.
<1>4. ASSUME NEW d \in Docs, rec[d].status = "absent", UNCHANGED <<sweep, snap>>,
             rec' = [rec EXCEPT ![d] = pending],
             \/ UNCHANGED run
             \/ run' = [run EXCEPT ![d] = Call("start", d)]
      PROVE  AttemptsInv'
  <2>1. /\ \A x \in Docs \ {d} : rec'[x] = rec[x]
        /\ rec'[d].status = "pending" /\ rec'[d].attempts = 0
    BY <1>0, <1>4
  <2>2. \A r \in Runs \ {d} : run'[r] = run[r]
    BY <1>4 DEF TypeOK
  <2>3. run[Sweeper].pc # "idle" => run[Sweeper].doc \in Docs \ {d}
    BY <1>0, <1>4 DEF AttemptsInv, SweepClaimsInBudget, TypeOK, RunsOK, Unclaimed
  <2>4. d \notin DOMAIN snap
    BY <1>4 DEF AttemptsInv, SnapExact, Unclaimed
  <2>5. AttemptsBounded' /\ PendingUncounted'
    BY <2>1 DEF AttemptsInv, AttemptsBounded, PendingUncounted, Bound
  <2>6. SnapExact' /\ UploadClaimsPending'
    BY <1>4, <2>1, <2>2, <1>0, <2>4
       DEF AttemptsInv, SnapExact, UploadClaimsPending, TypeOK
  <2>7. SweepClaimsInBudget'
    BY <1>0, <1>4, <2>1, <2>2, <2>3
       DEF AttemptsInv, SweepClaimsInBudget, BeforeClaim
  <2> QED
    BY <2>5, <2>6, <2>7 DEF AttemptsInv
<1>5. ASSUME UNCHANGED <<rec, run, sweep, snap>> PROVE AttemptsInv'
  BY <1>5 DEF AttemptsInv, AttemptsBounded, PendingUncounted, SnapExact,
     UploadClaimsPending, SweepClaimsInBudget
<1>6. ASSUME NEW q \in Requests, UploadInsert(q) \/ UploadInsertRaises(q)
      PROVE  AttemptsInv'
  BY <1>4, <1>5, <1>6 DEF UploadInsert, UploadInsertRaises, TypeOK
<1>7. ASSUME NEW r \in Runs, Step(r) PROVE AttemptsInv'
  BY <1>7, StepAttempts
<1>8. CASE SweepStep
  <2> USE DEF AttemptsInv
  <2>1. CASE SweepList
    <3>1. run[Sweeper].pc = "idle" /\ UNCHANGED <<rec, run>> /\ sweep' = "scan"
      BY <2>1 DEF SweepList, SweepClaimsInBudget
    <3>2. SnapExact'
      BY <2>1, <3>1 DEF SweepList, SnapExact, Recoverable, Unclaimed
    <3> QED
      BY <3>1, <3>2 DEF AttemptsBounded, PendingUncounted, UploadClaimsPending,
         SweepClaimsInBudget, BeforeClaim
  <2>2. ASSUME NEW d \in Docs, SweepRetry(d) PROVE AttemptsInv'
    <3>1. /\ d \in DOMAIN snap /\ sweep = "scan" /\ UNCHANGED <<rec, sweep>>
          /\ rec[d].status \notin Unclaimed /\ rec[d].attempts < MaxAttempts
      BY <2>2 DEF SweepRetry, AttemptsLeft, Scanning, SnapExact
    <3>2. SnapExact' /\ d \notin DOMAIN snap'
      BY <2>2, <3>1 DEF SweepRetry, Forget, Drop, SnapExact
    <3>3. /\ \A x \in Docs : run'[x] = run[x]
          /\ run'[Sweeper].doc = d
      BY <1>0, <2>2 DEF SweepRetry, Call, TypeOK
    <3> QED
      BY <3>1, <3>2, <3>3 DEF AttemptsBounded, PendingUncounted, UploadClaimsPending,
         SweepClaimsInBudget
  \* The sweep gives a document of its snapshot up as failed.
  <2>3. ASSUME NEW d \in Docs, Scanning(d), UNCHANGED run,
               DOMAIN snap' \subseteq DOMAIN snap,
               \A x \in DOMAIN snap' : snap'[x] = snap[x],
               UNCHANGED rec \/ rec' = [rec EXCEPT ![d].status = "failed"]
        PROVE  AttemptsInv'
    <3>1. /\ \A x \in Docs : rec'[x].attempts = rec[x].attempts
          /\ \A x \in Docs \ {d} : rec'[x].status = rec[x].status
          /\ rec'[d].status \notin Unclaimed /\ rec[d].status \notin Unclaimed
      BY <1>0, <2>3 DEF Scanning, SnapExact, Unclaimed
    <3>2. run'[Sweeper].pc = "idle" /\ "idle" \notin BeforeClaim
      BY <2>3 DEF Scanning, BeforeClaim
    <3>3. AttemptsBounded' /\ PendingUncounted' /\ SweepClaimsInBudget'
      BY <3>1, <3>2 DEF AttemptsBounded, Bound, PendingUncounted, SweepClaimsInBudget
    <3>4. SnapExact'
      BY <2>3, <3>1 DEF SnapExact, TypeOK
    <3>5. UploadClaimsPending'
      BY <2>3, <3>1 DEF UploadClaimsPending, Unclaimed
    <3> QED
      BY <3>3, <3>4, <3>5
  <2>4. ASSUME NEW d \in Docs,
               SweepAbandon(d) \/ SweepAbandonRaises(d) \/ SweepSkip(d)
        PROVE  AttemptsInv'
    <3>1. DOMAIN snap' \subseteq DOMAIN snap /\ \A x \in DOMAIN snap' : snap'[x] = snap[x]
      BY <2>4 DEF SweepAbandon, SweepAbandonRaises, SweepSkip, Forget, Drop, NoSnap
    <3> QED
      BY <2>3, <2>4, <3>1 DEF SweepAbandon, SweepAbandonRaises, SweepSkip
  <2> QED
    BY <1>8, <2>1, <2>2, <2>4 DEF SweepStep
<1>9. CASE UNCHANGED vars
  BY <1>5, <1>9 DEF vars
<1> QED
  BY <1>1, <1>2, <1>3, <1>6, <1>7, <1>8, <1>9 DEF Next

\* However often the process crashes, a document is never claimed more often
\* than ingestion_max_attempts allows.
THEOREM RetryBound == Spec => []AttemptsBounded
<1>1. Init => TypeOK /\ AttemptsInv
  BY InitTypeOK, InitAttempts
<1>2. TypeOK /\ AttemptsInv /\ [Next]_vars => TypeOK' /\ AttemptsInv'
  BY NextTypeOK, NextAttempts
<1>3. AttemptsInv => AttemptsBounded
  BY DEF AttemptsInv
<1> QED
  BY <1>1, <1>2, <1>3, PTL DEF Spec

-----------------------------------------------------------------------------
(* PendingUntouched.  Which writes come before which: a record is written only
   after its blob, and rows only by a call that has claimed.  So whoever may
   still write a record (a request that is about to insert, a call, the sweep's
   snapshot) must be known to hold a stored document, and a call that may write
   rows to work one that has left `pending`. *)

Working == {"work", "find", "embed", "write"}

Storing ==
    /\ \A q \in Requests : req[q] # NoDoc => req[q] \in blobs
    /\ \A r \in Runs : run[r].pc # "idle" => run[r].doc \in blobs
    /\ DOMAIN snap \subseteq blobs

WorkIsClaimed ==
    \A r \in Runs : run[r].pc \in Working => rec[run[r].doc].status \notin Unclaimed

PendingRowless ==
    \A d \in Docs : rec[d].status \in Unclaimed => rows[d] = NoRows

RecordsStored == \A d \in Docs : rec[d].status # "absent" => d \in blobs

UntouchedInv == Storing /\ WorkIsClaimed /\ PendingRowless /\ RecordsStored

\* Nothing is stored before the first boot.
LEMMA InitUntouched == Init => UntouchedInv
BY Parameters DEF Init, UntouchedInv, Storing, WorkIsClaimed, PendingRowless,
   RecordsStored, NoSnap, Idle, Call, Runs, Working, Unclaimed

\* What the writers of records may do: they touch only stored documents, never
\* return one to `pending`, and write rows only of one that has been claimed.
Claiming ==
    /\ \A d \in Docs :
          \/ rec'[d].status = rec[d].status
          \/ d \in blobs /\ rec'[d].status \notin Unclaimed
    /\ \A d \in Docs : rows'[d] = rows[d] \/ rec[d].status \notin Unclaimed
    /\ UNCHANGED <<blobs, req>>
    /\ DOMAIN snap' \subseteq DOMAIN snap

\* Such a step keeps the invariant if the calls it moves are entitled to move.
LEMMA ClaimingKeeps ==
    ASSUME TypeOK, TypeOK', UntouchedInv, Claiming,
           \A r \in Runs : run'[r].pc # "idle" => run'[r].doc \in blobs,
           \A r \in Runs : run'[r].pc \in Working =>
               rec'[run'[r].doc].status \notin Unclaimed
    PROVE  UntouchedInv'
<1>1. Storing'
  BY DEF UntouchedInv, Claiming, Storing
<1>2. WorkIsClaimed'
  BY DEF WorkIsClaimed
<1>3. PendingRowless'
  BY DEF UntouchedInv, Claiming, PendingRowless
<1>4. RecordsStored'
  BY DEF UntouchedInv, Claiming, RecordsStored
<1> QED
  BY <1>1, <1>2, <1>3, <1>4 DEF UntouchedInv

\* Each step of process_document is such a step.
LEMMA StepUntouched ==
    ASSUME TypeOK, TypeOK', UntouchedInv, NEW r \in Runs, Step(r)
    PROVE  UntouchedInv'
<1> USE DEF store, process
<1> DEFINE d == run[r].doc
<1>1. /\ run[r].pc # "idle"
      /\ run \in [Runs -> RunType] /\ run[r] \in RunType
      /\ run' \in [Runs -> RunType]
      /\ rec \in [Docs -> [status : Status, attempts : Nat]]
      /\ rows \in [Docs -> Rows]
  BY DEF TypeOK, RunType, Step, GetRecord, Claim, Work, FindExisting, Embed, DeleteStale,
         Reindex, InsertChunk, SetReady, StepRaises, SetFailed, HandlerRaises, At
<1>2. d \in Docs /\ d \in blobs
  BY <1>1 DEF TypeOK, RunsOK, UntouchedInv, Storing
<1>3. run[r].pc \in Working => rec[d].status \notin Unclaimed
  BY DEF UntouchedInv, WorkIsClaimed
<1>4. /\ UNCHANGED <<blobs, req>>
      /\ DOMAIN snap' \subseteq DOMAIN snap
      /\ \A s \in Runs \ {r} : run'[s] = run[s]
  BY <1>1 DEF Step, GetRecord, Claim, Work, FindExisting, Embed, DeleteStale, Reindex,
     InsertChunk, SetReady, StepRaises, SetFailed, HandlerRaises, Goto, Abort, Finish,
     NoSnap
<1>5. \/ UNCHANGED rec
      \/ /\ rec'[d].status \notin Unclaimed
         /\ \A x \in Docs \ {d} : rec'[x] = rec[x]
  BY <1>1, <1>2 DEF Step, GetRecord, Claim, Work, FindExisting, Embed, DeleteStale,
     Reindex, InsertChunk, SetReady, StepRaises, SetFailed, HandlerRaises, Unclaimed
<1>6. \/ UNCHANGED rows
      \/ /\ run[r].pc = "write"
         /\ \A x \in Docs \ {d} : rows'[x] = rows[x]
  BY <1>1, <1>2 DEF Step, GetRecord, Claim, Work, FindExisting, Embed, DeleteStale,
     Reindex, InsertChunk, SetReady, StepRaises, SetFailed, HandlerRaises, At
<1>7. Claiming
  BY <1>2, <1>3, <1>4, <1>5, <1>6 DEF Claiming, Working
<1>8. run'[r].pc # "idle" => run'[r].doc = d
  BY <1>1 DEF Step, GetRecord, Claim, Work, FindExisting, Embed, DeleteStale, Reindex,
     InsertChunk, SetReady, StepRaises, SetFailed, HandlerRaises, Goto, Abort, Finish,
     Call, Idle, RunType
<1>9. run'[r].pc \in Working => rec'[d].status \notin Unclaimed
  <2>1. CASE Claim(r)
    BY <1>1, <1>2, <2>1 DEF Claim, Unclaimed
  <2>2. CASE ~Claim(r)
    <3>1. run'[r].pc \in Working => run[r].pc \in Working
      BY <1>1, <2>2 DEF Step, GetRecord, Work, FindExisting, Embed, DeleteStale, Reindex,
         InsertChunk, SetReady, StepRaises, SetFailed, HandlerRaises, Goto, Abort, Finish,
         Call, Idle, RunType, At, Working
    <3> QED
      BY <1>3, <1>5, <3>1
  <2> QED
    BY <2>1, <2>2
<1>10. \A s \in Runs : run'[s].pc # "idle" => run'[s].doc \in blobs
  BY <1>2, <1>4, <1>8 DEF UntouchedInv, Storing
<1>11. \A s \in Runs : run'[s].pc \in Working =>
          rec'[run'[s].doc].status \notin Unclaimed
  <2> SUFFICES ASSUME NEW s \in Runs, run'[s].pc \in Working
               PROVE  rec'[run'[s].doc].status \notin Unclaimed
    OBVIOUS
  <2>1. CASE s = r
    BY <1>8, <1>9, <2>1 DEF Working
  <2>2. CASE s # r
    <3>1. rec[run[s].doc].status \notin Unclaimed /\ run[s].doc \in Docs
      BY <1>4, <2>2 DEF UntouchedInv, WorkIsClaimed, TypeOK, RunsOK, Working
    <3> QED
      BY <1>4, <1>5, <2>2, <3>1
  <2> QED
    BY <2>1, <2>2
<1> QED
  BY <1>7, <1>10, <1>11, ClaimingKeeps

\* Each action keeps what PendingUntouched rests on.
LEMMA NextUntouched ==
    TypeOK /\ TypeOK' /\ AttemptsInv /\ UntouchedInv /\ [Next]_vars => UntouchedInv'
<1> SUFFICES ASSUME TypeOK, TypeOK', AttemptsInv, UntouchedInv, [Next]_vars
             PROVE  UntouchedInv'
  OBVIOUS
<1> USE Parameters DEF store, process
<1> DEFINE pending == [status |-> "pending", attempts |-> 0]
<1>0. /\ rec \in [Docs -> [status : Status, attempts : Nat]]
      /\ run \in [Runs -> RunType]
      /\ Sweeper \in Runs /\ Docs \subseteq Runs
  BY DEF TypeOK, RunType, Runs
<1>1. CASE Boot
  BY <1>1 DEF Boot, UntouchedInv, Storing, WorkIsClaimed, PendingRowless, RecordsStored
<1>2. CASE Crash
  <2>1. \A r \in Runs : run'[r].pc = "idle"
    BY <1>2, IdleType DEF Crash
  <2>2. UNCHANGED <<rec, rows, blobs>> /\ DOMAIN snap' = {}
        /\ \A q \in Requests : req'[q] = NoDoc
    BY <1>2 DEF Crash, NoSnap
  <2> QED
    BY <2>1, <2>2 DEF UntouchedInv, Storing, WorkIsClaimed, PendingRowless,
       RecordsStored, Working
<1>3. ASSUME NEW q \in Requests, NEW d \in Docs, UploadPut(q, d) PROVE UntouchedInv'
  <2>1. UNCHANGED <<rec, rows, run, snap>> /\ blobs' = blobs \cup {d}
        /\ \A p \in Requests : req'[p] = req[p] \/ req'[p] = d
    BY <1>3 DEF UploadPut, TypeOK
  <2> QED
    BY <2>1 DEF UntouchedInv, Storing, WorkIsClaimed, PendingRowless, RecordsStored
<1>4. ASSUME NEW q \in Requests, UploadInsert(q) \/ UploadInsertRaises(q)
      PROVE  UntouchedInv'
  <2> DEFINE d == req[q]
  <2>1. /\ d \in Docs /\ d \in blobs
        /\ \A p \in Requests : req'[p] = NoDoc \/ req'[p] = req[p]
        /\ UNCHANGED <<rows, blobs, snap>>
    BY <1>4 DEF UploadInsert, UploadInsertRaises, TypeOK, UntouchedInv, Storing
  <2>2. \/ UNCHANGED <<rec, run>>
        \/ /\ rec[d].status = "absent" /\ rec' = [rec EXCEPT ![d] = pending]
           /\ UNCHANGED run \/ run' = [run EXCEPT ![d] = Call("start", d)]
    BY <1>4 DEF UploadInsert, UploadInsertRaises
  <2>3. \A x \in Docs : \/ rec'[x] = rec[x]
                        \/ /\ x = d /\ rec[x].status = "absent"
                           /\ rec'[x].status = "pending"
    BY <1>0, <2>1, <2>2
  <2>4. \A r \in Runs : run'[r] = run[r] \/ (run'[r].doc = d /\ run'[r].pc = "start")
    BY <1>0, <2>1, <2>2 DEF Call
  <2>5. Storing'
    BY <2>1, <2>4 DEF UntouchedInv, Storing
  <2>6. WorkIsClaimed'
    <3> SUFFICES ASSUME NEW r \in Runs, run'[r].pc \in Working
                 PROVE  rec'[run'[r].doc].status \notin Unclaimed
      BY DEF WorkIsClaimed
    <3>1. run'[r] = run[r] /\ run[r].doc \in Docs
      BY <2>4 DEF Working, TypeOK, RunsOK
    <3>2. rec[run[r].doc].status \notin Unclaimed
      BY <3>1 DEF UntouchedInv, WorkIsClaimed
    <3> QED
      BY <2>3, <3>1, <3>2 DEF Unclaimed
  <2>7. PendingRowless' /\ RecordsStored'
    BY <2>1, <2>3 DEF UntouchedInv, PendingRowless, RecordsStored, Unclaimed
  <2> QED
    BY <2>5, <2>6, <2>7 DEF UntouchedInv
<1>5. ASSUME NEW r \in Runs, Step(r) PROVE UntouchedInv'
  BY <1>5, StepUntouched
<1>6. CASE SweepStep
  <2>1. CASE SweepList
    <3>1. DOMAIN snap' \subseteq {d \in Docs : rec[d].status # "absent"} \cup DOMAIN snap
          /\ UNCHANGED <<rec, rows, blobs, req, run>>
      BY <2>1 DEF SweepList, Recoverable
    <3> QED
      BY <3>1 DEF UntouchedInv, Storing, WorkIsClaimed, PendingRowless, RecordsStored
  <2>2. ASSUME NEW d \in Docs, SweepRetry(d) PROVE UntouchedInv'
    <3>1. /\ d \in blobs /\ DOMAIN snap' \subseteq DOMAIN snap
          /\ UNCHANGED <<rec, rows, blobs, req>>
      BY <2>2 DEF SweepRetry, Scanning, Forget, Drop, UntouchedInv, Storing
    <3>2. \A r \in Runs : run'[r] = run[r] \/ (run'[r].doc = d /\ run'[r].pc = "start")
      BY <1>0, <2>2 DEF SweepRetry, Call
    <3> QED
      BY <3>1, <3>2 DEF UntouchedInv, Storing, WorkIsClaimed, PendingRowless,
         RecordsStored, Working
  \* A document of the snapshot is stored and has been claimed.
  <2>3. ASSUME NEW d \in Docs,
               SweepAbandon(d) \/ SweepAbandonRaises(d) \/ SweepSkip(d)
        PROVE  UntouchedInv'
    <3>1. /\ d \in blobs
          /\ UNCHANGED <<rows, blobs, req, run>>
          /\ DOMAIN snap' \subseteq DOMAIN snap
          /\ UNCHANGED rec \/ rec' = [rec EXCEPT ![d].status = "failed"]
      BY <2>3 DEF SweepAbandon, SweepAbandonRaises, SweepSkip, Scanning, Forget, Drop,
         NoSnap, UntouchedInv, Storing
    <3>2. \A x \in Docs : rec'[x] = rec[x] \/ (x = d /\ rec'[x].status = "failed")
      BY <1>0, <3>1
    <3>3. Claiming
      BY <3>1, <3>2 DEF Claiming, Unclaimed
    <3>4. \A r \in Runs : run'[r].pc # "idle" => run'[r].doc \in blobs
      BY <3>1 DEF UntouchedInv, Storing
    <3>5. \A r \in Runs : run'[r].pc \in Working =>
             rec'[run'[r].doc].status \notin Unclaimed
      BY <3>1, <3>2 DEF UntouchedInv, WorkIsClaimed, TypeOK, RunsOK, Working, Unclaimed
    <3> QED
      BY <3>3, <3>4, <3>5, ClaimingKeeps
  <2> QED
    BY <1>6, <2>1, <2>2, <2>3 DEF SweepStep
<1>7. CASE UNCHANGED vars
  BY <1>7 DEF vars, UntouchedInv, Storing, WorkIsClaimed, PendingRowless, RecordsStored
<1> QED
  BY <1>1, <1>2, <1>3, <1>4, <1>5, <1>6, <1>7 DEF Next

\* The order of create_document and process_document: no record without its
\* blob, and no attempt and no chunk of a document still `pending`, whatever
\* crashes, raises or is uploaded twice.
THEOREM NothingBeforeClaim == Spec => []PendingUntouched
<1>1. Init => TypeOK /\ AttemptsInv /\ UntouchedInv
  BY InitTypeOK, InitAttempts, InitUntouched
<1>2. TypeOK /\ AttemptsInv /\ UntouchedInv /\ [Next]_vars
        => TypeOK' /\ AttemptsInv' /\ UntouchedInv'
  BY NextTypeOK, NextAttempts, NextUntouched
<1>3. AttemptsInv /\ UntouchedInv => PendingUntouched
  BY DEF AttemptsInv, UntouchedInv, PendingUncounted, PendingRowless, RecordsStored,
     PendingUntouched, Unclaimed
<1> QED
  BY <1>1, <1>2, <1>3, PTL DEF Spec

-----------------------------------------------------------------------------
(* AttemptsCountClaims, an action property: each step is looked at by itself,
   from a state that has the types and the invariant of the retry bound (a
   record that an upload inserts counted 0 before, too). *)

\* Each step of process_document counts nothing unless it claims.
LEMMA StepCounts ==
    ASSUME TypeOK, NEW r \in Runs, Step(r), NEW d \in Docs
    PROVE  CountsClaims(d)
<1> USE DEF store, process
<1>1. /\ rec \in [Docs -> [status : Status, attempts : Nat]]
      /\ run[r].pc # "idle" => run[r].doc \in Docs
  BY DEF TypeOK, RunsOK
<1>2. CASE Claim(r)
  BY <1>1, <1>2 DEF Claim, At, CountsClaims
<1>3. CASE ~Claim(r)
  <2>1. \/ UNCHANGED rec
        \/ \E st \in {"ready", "failed"} : rec' = [rec EXCEPT ![run[r].doc].status = st]
    BY <1>3 DEF Step, GetRecord, Work, FindExisting, Embed, DeleteStale, Reindex,
       InsertChunk, SetReady, StepRaises, SetFailed, HandlerRaises
  <2>2. rec'[d].attempts = rec[d].attempts
        /\ (rec'[d] = rec[d] \/ rec'[d].status \in {"ready", "failed"})
    BY <1>1, <2>1
  <2> QED
    BY <2>2 DEF CountsClaims
<1> QED
  BY <1>2, <1>3

\* So does every other action.
LEMMA NextCounts ==
    TypeOK /\ PendingUncounted /\ [Next]_vars => [\A d \in Docs : CountsClaims(d)]_vars
<1> SUFFICES ASSUME TypeOK, PendingUncounted, Next, NEW d \in Docs
             PROVE  CountsClaims(d)
  OBVIOUS
<1> USE DEF store, process
<1>1. /\ rec \in [Docs -> [status : Status, attempts : Nat]]
      /\ rec[d].status = "absent" => rec[d].attempts = 0
  BY DEF TypeOK, PendingUncounted, Unclaimed
<1>2. CASE Boot \/ Crash
  BY <1>2 DEF Boot, Crash, CountsClaims
<1>3. ASSUME NEW q \in Requests,
             \/ \E x \in Docs : UploadPut(q, x)
             \/ UploadInsert(q) \/ UploadInsertRaises(q)
      PROVE  CountsClaims(d)
  <2>1. \/ rec'[d] = rec[d]
        \/ /\ rec[d].status = "absent"
           /\ rec'[d] = [status |-> "pending", attempts |-> 0]
    BY <1>1, <1>3 DEF UploadPut, UploadInsert, UploadInsertRaises
  <2> QED
    BY <1>1, <2>1 DEF CountsClaims
<1>4. ASSUME NEW r \in Runs, Step(r) PROVE CountsClaims(d)
  BY <1>4, StepCounts
<1>5. CASE SweepStep
  <2>1. UNCHANGED rec \/ \E x \in Docs : rec' = [rec EXCEPT ![x].status = "failed"]
    BY <1>5 DEF SweepStep, SweepList, SweepRetry, SweepAbandon, SweepAbandonRaises,
       SweepSkip
  <2>2. rec'[d].attempts = rec[d].attempts
        /\ (rec'[d] = rec[d] \/ rec'[d].status = "failed")
    BY <1>1, <2>1
  <2> QED
    BY <2>2 DEF CountsClaims
<1> QED
  BY <1>2, <1>3, <1>4, <1>5 DEF Next

\* The count of attempts is the count of claims: it goes up by one when a call
\* claims the document and at no other step, and no document returns to `pending`.
THEOREM ClaimsAreCounted == Spec => AttemptsCountClaims
<1>1. Init => TypeOK /\ AttemptsInv
  BY InitTypeOK, InitAttempts
<1>2. TypeOK /\ AttemptsInv /\ [Next]_vars => TypeOK' /\ AttemptsInv'
  BY NextTypeOK, NextAttempts
<1>3. TypeOK /\ AttemptsInv /\ [Next]_vars => [\A d \in Docs : CountsClaims(d)]_vars
  BY NextCounts DEF AttemptsInv
<1> QED
  BY <1>1, <1>2, <1>3, PTL DEF Spec, AttemptsCountClaims

-----------------------------------------------------------------------------
(* The invariant. *)

Target(r) == Layout[run[r].doc][conf]
Planned == {"embed", "write"}

\* What a plan still to be carried out says of the rows now stored: whatever is
\* not to be there is still to be deleted, whatever is not yet in its place is
\* still to be moved or inserted.
PlanOK(call, stored, target) ==
    /\ call.stale \cap DOMAIN target = {}
    /\ call.moved \subseteq DOMAIN stored \cap DOMAIN target
    /\ DOMAIN stored \subseteq DOMAIN target \cup call.stale
    /\ \A c \in DOMAIN target \ (call.moved \cup call.missing) :
          c \in DOMAIN stored /\ stored[c] = target[c]

PlansHold ==
    \A r \in Runs : run[r].pc \in Planned => PlanOK(run[r], rows[run[r].doc], Target(r))

\* A call that has claimed a document another call has made `ready` since finds
\* its own work done.
ReadySettled ==
    \A r \in Runs :
        run[r].pc \in Working /\ rec[run[r].doc].status = "ready"
            => rows[run[r].doc] = Target(r)

ReadyInv == ReadyComplete /\ PlansHold /\ ReadySettled

\* A call works a document that has a record.
CallsRecorded ==
    \A r \in Runs : run[r].pc # "idle" => rec[run[r].doc].status # "absent"

-----------------------------------------------------------------------------
(* What a write does to stored rows. *)

\* new follows old on the way to target: it loses no row of the target, gains
\* none outside, and moves a row only to its place.
Toward(old, new, target) ==
    /\ DOMAIN old \cap DOMAIN target \subseteq DOMAIN new
    /\ DOMAIN new \subseteq DOMAIN old \cup DOMAIN target
    /\ \A c \in DOMAIN new \cap DOMAIN target :
          new[c] = target[c] \/ (c \in DOMAIN old /\ new[c] = old[c])

\* Two sets of rows that agree everywhere are the same.
LEMMA RowsEqual ==
    ASSUME NEW f \in Rows, NEW g \in Rows,
           DOMAIN f = DOMAIN g, \A c \in DOMAIN f : f[c] = g[c]
    PROVE  f = g
<1>1. PICK S \in SUBSET Chunks : f \in [S -> Indexes]
  BY DEF Rows
<1>2. PICK T \in SUBSET Chunks : g \in [T -> Indexes]
  BY DEF Rows
<1>3. f = [c \in DOMAIN f |-> f[c]] /\ g = [c \in DOMAIN g |-> g[c]]
  BY <1>1, <1>2
<1> QED
  BY <1>3

\* Rows that have arrived stay.
LEMMA TowardArrived ==
    ASSUME NEW target \in Rows, NEW new \in Rows, Toward(target, new, target)
    PROVE  new = target
BY RowsEqual DEF Toward

\* A plan outlives the writes of another call on the same document.
LEMMA TowardKeepsPlan ==
    ASSUME NEW call, NEW old, NEW new, NEW target,
           PlanOK(call, old, target), Toward(old, new, target)
    PROVE  PlanOK(call, new, target)
BY DEF PlanOK, Toward

\* Rows over which nothing is left to do are the target.
LEMMA PlanDone ==
    ASSUME NEW call, NEW stored \in Rows, NEW target \in Rows,
           PlanOK(call, stored, target),
           call.stale = {}, call.moved = {}, call.missing = {}
    PROVE  stored = target
<1>1. DOMAIN stored = DOMAIN target /\ \A c \in DOMAIN target : stored[c] = target[c]
  BY DEF PlanOK
<1> QED
  BY <1>1, RowsEqual

\* Each of the three writes of a sync goes toward the target.
LEMMA WritesToward ==
    ASSUME NEW old, NEW target, NEW c
    PROVE  /\ Toward(old, old, target)
           /\ c \notin DOMAIN target => Toward(old, Drop(old, c), target)
           /\ c \in DOMAIN target => Toward(old, Put(old, c, target[c]), target)
BY DEF Toward, Drop, Put

\* What a step of process_document does to the stored rows and to its plan.
StepWrites(r) ==
    LET d == run[r].doc IN
    /\ \A x \in Docs \ {d} : rows'[x] = rows[x]
    /\ Toward(rows[d], rows'[d], Target(r))
    /\ run[r].pc # "write" => UNCHANGED rows
    /\ run'[r].pc # "idle" => run'[r].doc = d
    /\ run'[r].pc \in Planned => PlanOK(run'[r], rows'[d], Target(r))
    /\ \A s \in Runs \ {r} : run'[s] = run[s]

\* Every step of process_document keeps to that.
LEMMA StepWritesOK ==
    ASSUME TypeOK, PlansHold, NEW r \in Runs, Step(r)
    PROVE  StepWrites(r)
<1> USE Parameters DEF store, process
<1> DEFINE d == run[r].doc
           target == Target(r)
<1>1. /\ run[r].pc # "idle"
      /\ run \in [Runs -> RunType] /\ run[r] \in RunType
      /\ rows \in [Docs -> Rows]
  BY DEF TypeOK, RunType, Step, GetRecord, Claim, Work, FindExisting, Embed, DeleteStale,
         Reindex, InsertChunk, SetReady, StepRaises, SetFailed, HandlerRaises, At
<1>2. d \in Docs /\ run[r].moved \cup run[r].missing \subseteq DOMAIN target
  BY <1>1 DEF TypeOK, RunsOK, Target
<1>3. run[r].pc \in Planned => PlanOK(run[r], rows[d], target)
  BY DEF PlansHold
<1>4. /\ Toward(rows[d], rows[d], target)
      /\ \A c : c \notin DOMAIN target => Toward(rows[d], Drop(rows[d], c), target)
      /\ \A c \in DOMAIN target : Toward(rows[d], Put(rows[d], c, target[c]), target)
  BY WritesToward
\* A step that writes no row and leaves a call without a plan, or its plan alone.
<1>5. ASSUME UNCHANGED rows, NEW new, run' = [run EXCEPT ![r] = new],
             new.pc # "idle" => new.doc = d,
             new.pc \in Planned =>
                /\ run[r].pc \in Planned
                /\ new.stale = run[r].stale /\ new.moved = run[r].moved
                /\ new.missing = run[r].missing
      PROVE  StepWrites(r)
  <2>1. new.pc \in Planned => PlanOK(new, rows[d], target)
    BY <1>3, <1>5 DEF PlanOK
  <2> QED
    BY <1>1, <1>4, <1>5, <2>1 DEF StepWrites
<1>6. ASSUME NEW pc \in Steps, Goto(r, pc), UNCHANGED rows,
             pc \in Planned => run[r].pc \in Planned
      PROVE  StepWrites(r)
  <2> DEFINE new == [run[r] EXCEPT !.pc = pc]
  <2>1. /\ run' = [run EXCEPT ![r] = new]
        /\ new.pc = pc /\ new.doc = d
        /\ new.stale = run[r].stale /\ new.moved = run[r].moved
        /\ new.missing = run[r].missing
    BY <1>1, <1>6 DEF Goto, RunType
  <2> HIDE DEF new
  <2> QED
    BY <1>5, <1>6, <2>1
<1>7. Abort(r) /\ UNCHANGED rows => StepWrites(r)
  BY <1>5 DEF Abort, Call, Planned
<1>8. Finish(r) /\ UNCHANGED rows => StepWrites(r)
  BY <1>5 DEF Finish, Idle, Call, Planned
<1>9. CASE GetRecord(r) \/ Claim(r) \/ Work(r) \/ Embed(r)
  BY <1>6, <1>8, <1>9 DEF GetRecord, Claim, Work, Embed, At, Steps, Planned
<1>10. CASE FindExisting(r)
  <2> DEFINE new == run'[r]
  <2>1. /\ UNCHANGED rows
        /\ new.doc = d
        /\ new.stale = DOMAIN rows[d] \ DOMAIN target
        /\ new.moved = MovedRows(rows[d], target)
        /\ new.missing = DOMAIN target \ DOMAIN rows[d]
        /\ \A s \in Runs \ {r} : run'[s] = run[s]
    BY <1>1, <1>10 DEF FindExisting, Target
  <2>2. PlanOK(new, rows[d], target)
    BY <2>1 DEF PlanOK, MovedRows
  <2> QED
    BY <1>4, <2>1, <2>2 DEF StepWrites
<1>11. ASSUME NEW c \in Chunks, DeleteStale(r, c) PROVE StepWrites(r)
  <2> DEFINE new == run'[r]
  <2>1. /\ run[r].pc = "write" /\ c \in run[r].stale
        /\ rows' = [rows EXCEPT ![d] = Drop(rows[d], c)]
        /\ new.doc = d /\ new.stale = run[r].stale \ {c}
        /\ new.moved = run[r].moved /\ new.missing = run[r].missing
        /\ \A s \in Runs \ {r} : run'[s] = run[s]
    BY <1>1, <1>11 DEF DeleteStale, At, RunType
  <2>2. PlanOK(run[r], rows[d], target) /\ c \notin DOMAIN target
    BY <1>3, <2>1 DEF Planned, PlanOK
  <2>3. PlanOK(new, Drop(rows[d], c), target)
    BY <2>1, <2>2 DEF PlanOK, Drop
  <2> QED
    BY <1>1, <1>2, <1>4, <2>1, <2>2, <2>3 DEF StepWrites
<1>12. ASSUME NEW c \in Chunks, Reindex(r, c) PROVE StepWrites(r)
  <2> DEFINE new == run'[r]
  <2>1. /\ run[r].pc = "write" /\ c \in run[r].moved
        /\ rows' = IF c \in DOMAIN rows[d]
                   THEN [rows EXCEPT ![d] = Put(rows[d], c, target[c])] ELSE rows
        /\ new.doc = d /\ new.stale = run[r].stale
        /\ new.moved = run[r].moved \ {c} /\ new.missing = run[r].missing
        /\ \A s \in Runs \ {r} : run'[s] = run[s]
    BY <1>1, <1>12 DEF Reindex, At, RunType, FirstOf, Target
  \* The row it moves is still there: nobody deletes a row of the target.
  <2>2. PlanOK(run[r], rows[d], target) /\ c \in DOMAIN target /\ c \in DOMAIN rows[d]
    BY <1>3, <2>1 DEF Planned, PlanOK
  <2>3. PlanOK(new, Put(rows[d], c, target[c]), target)
    BY <2>1, <2>2 DEF PlanOK, Put
  <2> QED
    BY <1>1, <1>2, <1>4, <2>1, <2>2, <2>3 DEF StepWrites
<1>13. ASSUME NEW c \in Chunks, InsertChunk(r, c) PROVE StepWrites(r)
  <2>1. CASE c \in DOMAIN rows[d]
    BY <1>7, <1>13, <2>1 DEF InsertChunk
  <2>2. CASE c \notin DOMAIN rows[d]
    <3> DEFINE new == run'[r]
    <3>0. /\ c \in run[r].missing /\ run[r].pc = "write"
          /\ rows' = [rows EXCEPT ![d] = Put(rows[d], c, target[c])]
          /\ run' = [run EXCEPT ![r].missing = @ \ {c}]
      BY <1>13, <2>2 DEF InsertChunk, FirstOf, At, Target
    <3>1. /\ run[r].pc = "write" /\ c \in run[r].missing /\ c \in DOMAIN target
          /\ rows' = [rows EXCEPT ![d] = Put(rows[d], c, target[c])]
          /\ new.doc = d /\ new.stale = run[r].stale
          /\ new.moved = run[r].moved /\ new.missing = run[r].missing \ {c}
          /\ \A s \in Runs \ {r} : run'[s] = run[s]
      BY <1>1, <1>2, <3>0 DEF RunType
    <3>2. PlanOK(run[r], rows[d], target)
      BY <1>3, <3>1 DEF Planned
    <3>3. PlanOK(new, Put(rows[d], c, target[c]), target)
      BY <3>1, <3>2 DEF PlanOK, Put
    <3> QED
      BY <1>1, <1>2, <1>4, <3>1, <3>3 DEF StepWrites
  <2> QED
    BY <2>1, <2>2
<1>14. CASE SetReady(r) \/ StepRaises(r) \/ SetFailed(r) \/ HandlerRaises(r)
  BY <1>7, <1>8, <1>14 DEF SetReady, StepRaises, SetFailed, HandlerRaises
<1> QED
  BY <1>9, <1>10, <1>11, <1>12, <1>13, <1>14 DEF Step

-----------------------------------------------------------------------------
(* The invariant is inductive. *)

\* Nothing is `ready` and nothing runs before the first boot.
LEMMA InitReady == Init => ReadyInv
BY DEF Init, ReadyInv, ReadyComplete, PlansHold, ReadySettled, Planned, Working,
   Idle, Call, Runs

\* A call sets its document `ready` over the target, and rows that are the
\* target of a live call stay as they are.
LEMMA StepReady ==
    ASSUME TypeOK, TypeOK', ReadyInv, NEW r \in Runs, Step(r)
    PROVE  ReadyInv'
<1> USE Parameters DEF store, process
<1> DEFINE d == run[r].doc
           target == Target(r)
<1>1. /\ run[r].pc # "idle" /\ conf' = conf
      /\ rows \in [Docs -> Rows] /\ rows' \in [Docs -> Rows]
      /\ rec \in [Docs -> [status : Status, attempts : Nat]]
  BY DEF TypeOK, Step, GetRecord, Claim, Work, FindExisting, Embed, DeleteStale,
         Reindex, InsertChunk, SetReady, StepRaises, SetFailed, HandlerRaises, At
<1>2. d \in Docs /\ conf \in Versions /\ target = Layout[d][conf] /\ target \in Rows
  BY <1>1 DEF TypeOK, RunsOK, Target
<1>3. StepWrites(r)
  BY StepWritesOK DEF ReadyInv
<1>4. /\ \A x \in Docs \ {d} : rows'[x] = rows[x] /\ rec'[x] = rec[x]
      /\ rec'[d].status = "ready" => rec[d].status = "ready" \/ SetReady(r)
      /\ Claim(r) => rec'[d].status = "processing"
  <2>1. \A x \in Docs \ {d} : rec'[x] = rec[x]
    BY <1>1, <1>2 DEF Step, GetRecord, Claim, Work, FindExisting, Embed, DeleteStale,
       Reindex, InsertChunk, SetReady, StepRaises, SetFailed, HandlerRaises
  <2>2. rec'[d].status = "ready" => rec[d].status = "ready" \/ SetReady(r)
    <3>1. \/ rec' = rec \/ SetReady(r)
          \/ rec' = [rec EXCEPT ![d] = [status |-> "processing", attempts |-> rec[d].attempts + 1]]
          \/ rec' = [rec EXCEPT ![d].status = "failed"]
      BY <1>1 DEF Step, GetRecord, Claim, Work, FindExisting, Embed, DeleteStale, Reindex,
         InsertChunk, StepRaises, SetFailed, HandlerRaises
    <3> QED
      BY <1>1, <1>2, <3>1
  <2>3. Claim(r) => rec'[d].status = "processing"
    BY <1>1, <1>2 DEF Claim
  <2> QED
    BY <1>3, <2>1, <2>2, <2>3 DEF StepWrites
<1>5. SetReady(r) => rows'[d] = target
  <2> SUFFICES ASSUME SetReady(r) PROVE rows'[d] = target
    OBVIOUS
  <2>1. /\ run[r].pc = "write" /\ UNCHANGED rows
        /\ run[r].stale = {} /\ run[r].moved = {} /\ run[r].missing = {}
    BY DEF SetReady, At
  <2>2. PlanOK(run[r], rows[d], target) /\ rows[d] \in Rows
    BY <1>1, <1>2, <2>1 DEF ReadyInv, PlansHold, Planned
  <2> QED
    BY <1>2, <2>1, <2>2, PlanDone
<1>6. rows[d] = target => rows'[d] = target
  BY <1>1, <1>2, <1>3, TowardArrived DEF StepWrites
<1>7. run'[r].pc \in Working => run[r].pc \in Working \/ Claim(r)
  <2>1. run \in [Runs -> RunType]
    BY DEF TypeOK, RunType
  <2> QED
    BY <2>1 DEF Step, GetRecord, Work, FindExisting, Embed, DeleteStale, Reindex,
       InsertChunk, SetReady, StepRaises, SetFailed, HandlerRaises, Goto, Abort, Finish,
       Call, Idle, RunType, At, Working
<1>8. ReadyComplete'
  <2> SUFFICES ASSUME NEW x \in Docs, rec'[x].status = "ready"
               PROVE  \E v \in Versions : rows'[x] = Layout[x][v]
    BY DEF ReadyComplete
  <2>1. CASE x = d /\ SetReady(r)
    BY <1>2, <1>5, <2>1
  <2>2. CASE rec[x].status = "ready"
    <3>1. CASE x = d /\ run[r].pc = "write"
      BY <1>2, <1>6, <2>2, <3>1 DEF ReadyInv, ReadySettled, Working
    <3>2. CASE x # d \/ run[r].pc # "write"
      BY <1>3, <1>4, <2>2, <3>2 DEF ReadyInv, ReadyComplete, StepWrites
    <3> QED
      BY <3>1, <3>2
  <2> QED
    BY <1>4, <2>1, <2>2
<1>9. ReadySettled'
  <2> SUFFICES ASSUME NEW s \in Runs, run'[s].pc \in Working,
                      rec'[run'[s].doc].status = "ready"
               PROVE  rows'[run'[s].doc] = Layout[run'[s].doc][conf']
    BY DEF ReadySettled, Target
  <2> DEFINE e == run'[s].doc
  <2>1. e \in Docs /\ (s = r => e = d) /\ (s # r => run'[s] = run[s])
    BY <1>3 DEF StepWrites, TypeOK, RunsOK, Working
  <2>2. CASE SetReady(r) /\ e = d
    BY <1>1, <1>2, <1>5, <2>2
  <2>3. CASE ~(SetReady(r) /\ e = d)
    <3>1. rec[e].status = "ready" /\ run[s].pc \in Working
      BY <1>4, <1>7, <2>1, <2>3
    <3>2. run[s].doc = e
      BY <2>1
    <3>3. rows[e] = Layout[e][conf]
      BY <3>1, <3>2 DEF ReadyInv, ReadySettled, Target
    <3> QED
      BY <1>1, <1>2, <1>4, <1>6, <2>1, <3>3
  <2> QED
    BY <2>2, <2>3
<1>10. PlansHold'
  <2> SUFFICES ASSUME NEW s \in Runs, run'[s].pc \in Planned
               PROVE  PlanOK(run'[s], rows'[run'[s].doc], Layout[run'[s].doc][conf'])
    BY DEF PlansHold, Target
  <2>1. CASE s = r
    BY <1>1, <1>2, <1>3, <2>1 DEF StepWrites, Planned
  <2>2. CASE s # r
    <3> DEFINE e == run[s].doc
    <3>1. /\ run'[s] = run[s] /\ e \in Docs
          /\ PlanOK(run[s], rows[e], Layout[e][conf])
      BY <1>3, <2>2 DEF StepWrites, ReadyInv, PlansHold, Target, TypeOK, RunsOK, Planned
    <3>2. CASE e = d
      BY <1>1, <1>2, <1>3, <3>1, <3>2, TowardKeepsPlan DEF StepWrites
    <3>3. CASE e # d
      BY <1>1, <1>4, <3>1, <3>3
    <3> QED
      BY <3>2, <3>3
  <2> QED
    BY <2>1, <2>2
<1> QED
  BY <1>8, <1>9, <1>10 DEF ReadyInv

\* Every other action leaves the rows alone and makes nothing `ready`.
LEMMA NextReady == TypeOK /\ TypeOK' /\ ReadyInv /\ [Next]_vars => ReadyInv'
<1> SUFFICES ASSUME TypeOK, TypeOK', ReadyInv, [Next]_vars PROVE ReadyInv'
  OBVIOUS
<1> USE DEF store, process
<1>1. ASSUME UNCHANGED rows,
             \A x \in Docs : rec'[x].status = "ready" => rec[x].status = "ready",
             \A r \in Runs :
                 \/ run'[r].pc \notin Working
                 \/ run'[r] = run[r] /\ conf' = conf
      PROVE  ReadyInv'
  <2>1. ReadyComplete'
    BY <1>1 DEF ReadyInv, ReadyComplete
  <2>2. PlansHold'
    BY <1>1 DEF ReadyInv, PlansHold, Target, Planned, Working
  <2>3. ReadySettled'
    BY <1>1 DEF ReadyInv, ReadySettled, Target, TypeOK, RunsOK, Working
  <2> QED
    BY <2>1, <2>2, <2>3 DEF ReadyInv
<1>2. CASE Boot
  <2>1. \A r \in Runs : run'[r].pc = "idle"
    BY <1>2 DEF Boot, TypeOK, RunsOK
  <2> QED
    BY <1>1, <1>2, <2>1 DEF Boot, Working
<1>3. CASE Crash
  <2>1. \A r \in Runs : run'[r].pc = "idle"
    BY <1>3, IdleType DEF Crash
  <2> QED
    BY <1>1, <1>3, <2>1 DEF Crash, Working
<1>4. ASSUME NEW q \in Requests,
             \/ \E d \in Docs : UploadPut(q, d)
             \/ UploadInsert(q) \/ UploadInsertRaises(q)
      PROVE  ReadyInv'
  <2>1. \A x \in Docs : rec'[x] = rec[x] \/ rec'[x].status = "pending"
    BY <1>4 DEF UploadPut, UploadInsert, UploadInsertRaises, TypeOK
  <2>2. \A r \in Runs : run'[r] = run[r] \/ run'[r].pc = "start"
    BY <1>4 DEF UploadPut, UploadInsert, UploadInsertRaises, TypeOK, Call
  <2>3. UNCHANGED <<rows, conf>>
    BY <1>4 DEF UploadPut, UploadInsert, UploadInsertRaises
  <2> QED
    BY <1>1, <2>1, <2>2, <2>3 DEF Working
<1>5. ASSUME NEW r \in Runs, Step(r) PROVE ReadyInv'
  BY <1>5, StepReady
<1>6. CASE SweepStep
  <2>1. UNCHANGED <<rows, conf>>
    BY <1>6 DEF SweepStep, SweepList, SweepRetry, SweepAbandon, SweepAbandonRaises,
       SweepSkip
  <2>2. \A x \in Docs : rec'[x] = rec[x] \/ rec'[x].status = "failed"
    BY <1>6 DEF SweepStep, SweepList, SweepRetry, SweepAbandon, SweepAbandonRaises,
       SweepSkip, TypeOK
  <2>3. \A r \in Runs : run'[r] = run[r] \/ run'[r].pc = "start"
    BY <1>6 DEF SweepStep, SweepList, SweepRetry, SweepAbandon, SweepAbandonRaises,
       SweepSkip, TypeOK, Call
  <2> QED
    BY <1>1, <2>1, <2>2, <2>3 DEF Working
<1>7. CASE UNCHANGED vars
  BY <1>1, <1>7 DEF vars
<1> QED
  BY <1>2, <1>3, <1>4, <1>5, <1>6, <1>7 DEF Next

\* A document is `ready` only over the complete rows of some settings, although
\* its upload task and the sweep may both be writing them, and either may be
\* cut short by a crash or a raising call.
THEOREM ReadyMeansWhole == Spec => []ReadyComplete
<1>1. Init => TypeOK /\ ReadyInv
  BY InitTypeOK, InitReady
<1>2. TypeOK /\ ReadyInv /\ [Next]_vars => TypeOK' /\ ReadyInv'
  BY NextTypeOK, NextReady
<1>3. ReadyInv => ReadyComplete
  BY DEF ReadyInv
<1> QED
  BY <1>1, <1>2, <1>3, PTL DEF Spec

-----------------------------------------------------------------------------
(* The refinement: each step of the pipeline is a step of DocumentPromise or
   changes neither records nor rows. *)

\* No call runs before the first boot.
LEMMA InitRecorded == Init => CallsRecorded
BY DEF Init, CallsRecorded, Idle, Call

\* A record never goes away, and a call starts on a document that has one.
LEMMA NextRecorded ==
    TypeOK /\ AttemptsInv /\ CallsRecorded /\ [Next]_vars => CallsRecorded'
<1> SUFFICES ASSUME TypeOK, AttemptsInv, CallsRecorded, Next PROVE CallsRecorded'
  BY DEF vars, CallsRecorded
<1> USE DEF store, process
<1>1. \A d \in Docs : rec[d].status # "absent" => rec'[d].status # "absent"
  <2>1. [\A d \in Docs : CountsClaims(d)]_vars
    BY NextCounts DEF AttemptsInv
  <2>2. (\A d \in Docs : CountsClaims(d)) \/ UNCHANGED rec
    BY <2>1 DEF vars
  <2> QED
    BY <2>2 DEF CountsClaims
\* Calls that went on, ended or died.
<1>2. ASSUME \A r \in Runs : run'[r].pc # "idle" =>
                run[r].pc # "idle" /\ run'[r].doc = run[r].doc
      PROVE  CallsRecorded'
  BY <1>1, <1>2 DEF CallsRecorded, TypeOK, RunsOK
\* A call that has begun.
<1>3. ASSUME NEW d \in Docs, NEW s \in Runs, run' = [run EXCEPT ![s] = Call("start", d)],
             rec'[d].status # "absent"
      PROVE  CallsRecorded'
  <2>1. \A r \in Runs : run'[r] = run[r] \/ run'[r].doc = d
    BY <1>3 DEF TypeOK, Call
  <2> QED
    BY <1>1, <1>3, <2>1 DEF CallsRecorded, TypeOK, RunsOK
<1>4. CASE Boot
  BY <1>2, <1>4 DEF Boot
<1>5. CASE Crash
  BY <1>2, <1>5, IdleType DEF Crash
<1>6. ASSUME NEW q \in Requests,
             (\E d \in Docs : UploadPut(q, d)) \/ UploadInsertRaises(q)
      PROVE  CallsRecorded'
  BY <1>2, <1>6 DEF UploadPut, UploadInsertRaises
<1>7. ASSUME NEW q \in Requests, UploadInsert(q) PROVE CallsRecorded'
  <2>1. req[q] \in Docs /\ req[q] \in Runs
    BY <1>7 DEF UploadInsert, TypeOK, Runs
  <2>2. CASE rec[req[q]].status = "absent"
    <3>1. rec'[req[q]].status = "pending"
      BY <1>7, <2>1, <2>2 DEF UploadInsert, TypeOK
    <3> QED
      BY <1>3, <1>7, <2>1, <2>2, <3>1 DEF UploadInsert
  <2> QED
    BY <1>2, <1>7, <2>2 DEF UploadInsert
<1>8. ASSUME NEW r \in Runs, Step(r) PROVE CallsRecorded'
  <2>1. run[r].pc # "idle" /\ run \in [Runs -> RunType]
    BY <1>8 DEF TypeOK, RunType, Step, GetRecord, Claim, Work, FindExisting, Embed,
       DeleteStale, Reindex, InsertChunk, SetReady, StepRaises, SetFailed, HandlerRaises, At
  <2>2. \A s \in Runs \ {r} : run'[s] = run[s]
    BY <1>8, <2>1 DEF Step, GetRecord, Claim, Work, FindExisting, Embed, DeleteStale, Reindex,
       InsertChunk, SetReady, StepRaises, SetFailed, HandlerRaises, Goto, Abort, Finish
  <2>3. run'[r].pc # "idle" => run'[r].doc = run[r].doc
    BY <1>8, <2>1 DEF Step, GetRecord, Claim, Work, FindExisting, Embed, DeleteStale,
       Reindex, InsertChunk, SetReady, StepRaises, SetFailed, HandlerRaises, Goto, Abort,
       Finish, Call, Idle, RunType
  <2> QED
    BY <1>2, <2>1, <2>2, <2>3
<1>9. CASE SweepStep
  <2>1. ASSUME NEW d \in Docs, SweepRetry(d) PROVE CallsRecorded'
    <3>1. rec'[d].status # "absent"
      BY <2>1 DEF SweepRetry, Scanning, AttemptsInv, SnapExact, Unclaimed
    <3> QED
      BY <1>3, <2>1, <3>1 DEF SweepRetry, Runs
  <2> QED
    BY <1>2, <1>9, <2>1 DEF SweepStep, SweepList, SweepAbandon, SweepAbandonRaises, SweepSkip
<1> QED
  BY <1>4, <1>5, <1>6, <1>7, <1>8, <1>9 DEF Next

PromiseInv == TypeOK /\ AttemptsInv /\ UntouchedInv /\ ReadyInv /\ CallsRecorded
Shows == Promise!Next \/ UNCHANGED <<rec, rows>>

\* A step of process_document claims, writes rows of a document that is not
\* `ready`, publishes whole rows, or fails.
LEMMA StepPromise ==
    ASSUME PromiseInv, TypeOK', NEW r \in Runs, Step(r)
    PROVE  Shows
<1> USE Parameters DEF store, process
<1> DEFINE d == run[r].doc
<1>1. /\ run[r].pc # "idle"
      /\ rows \in [Docs -> Rows] /\ rows' \in [Docs -> Rows]
      /\ rec \in [Docs -> [status : Status, attempts : Nat]]
  BY DEF PromiseInv, TypeOK, Step, GetRecord, Claim, Work, FindExisting, Embed,
         DeleteStale, Reindex, InsertChunk, SetReady, StepRaises, SetFailed, HandlerRaises,
         At
<1>2. /\ d \in Docs /\ (r = Sweeper \/ r = d)
      /\ conf \in Versions /\ Target(r) = Layout[d][conf] /\ Target(r) \in Rows
      /\ rec[d].status # "absent"
  BY <1>1 DEF PromiseInv, TypeOK, RunsOK, Target, CallsRecorded
<1>3. run[r].pc \in Working => rec[d].status \in {"processing", "failed", "ready"}
  BY <1>1, <1>2 DEF PromiseInv, UntouchedInv, WorkIsClaimed, Unclaimed, Status
<1>4. CASE Claim(r)
  <2>1. rec[d].attempts < Bound
    BY <1>1, <1>2, <1>4 DEF Claim, At, PromiseInv, AttemptsInv, UploadClaimsPending,
       SweepClaimsInBudget, PendingUncounted, BeforeClaim, Unclaimed, Bound
  <2>2. Promise!Attempt(d)
    BY <1>2, <1>4, <2>1 DEF Claim, Promise!Attempt
  <2> QED
    BY <1>2, <2>2 DEF Shows, Promise!Next
<1>5. CASE SetReady(r)
  <2>1. /\ run[r].pc = "write" /\ UNCHANGED rows
        /\ run[r].stale = {} /\ run[r].moved = {} /\ run[r].missing = {}
        /\ rec' = [rec EXCEPT ![d].status = "ready"]
    BY <1>5 DEF SetReady, At
  <2>2. PlanOK(run[r], rows[d], Target(r)) /\ rows[d] \in Rows
    BY <1>1, <1>2, <2>1 DEF PromiseInv, ReadyInv, PlansHold, Planned
  <2>3. rows[d] \in Wholes(d)
    BY <1>2, <2>1, <2>2, PlanDone DEF Wholes
  <2>4. Promise!Publish(d)
    BY <1>3, <2>1, <2>3 DEF Promise!Publish, Working
  <2> QED
    BY <1>2, <2>4 DEF Shows, Promise!Next
<1>6. CASE SetFailed(r) \/ HandlerRaises(r)
  <2>1. UNCHANGED rows /\ (UNCHANGED rec \/ rec' = [rec EXCEPT ![d].status = "failed"])
    BY <1>6 DEF SetFailed, HandlerRaises
  <2>2. UNCHANGED rec \/ Promise!Fail(d)
    BY <1>2, <2>1 DEF Promise!Fail
  <2> QED
    BY <1>2, <2>1, <2>2 DEF Shows, Promise!Next
<1>7. ASSUME NEW c \in Chunks, DeleteStale(r, c) \/ Reindex(r, c) \/ InsertChunk(r, c)
      PROVE  Shows
  <2>1. run[r].pc = "write" /\ UNCHANGED rec
    BY <1>7 DEF DeleteStale, Reindex, InsertChunk, At
  <2>2. StepWrites(r)
    BY StepWritesOK DEF PromiseInv, ReadyInv
  <2>3. rows' = [rows EXCEPT ![d] = rows'[d]] /\ rows'[d] \in Rows
    BY <1>1, <1>2, <2>2 DEF StepWrites
  \* A `ready` document has its rows already.
  <2>4. CASE rec[d].status = "ready"
    <3>1. rows[d] = Target(r)
      BY <2>1, <2>4 DEF PromiseInv, ReadyInv, ReadySettled, Working
    <3>2. rows'[d] = rows[d]
      BY <1>2, <2>2, <2>3, <3>1, TowardArrived DEF StepWrites
    <3> QED
      BY <1>1, <2>1, <2>3, <3>2 DEF Shows
  <2>5. CASE rec[d].status # "ready"
    <3>1. rec[d].status \in {"processing", "failed"}
      BY <1>3, <2>1, <2>5 DEF Working
    <3>2. Promise!Revise(d)
      BY <2>1, <2>3, <3>1 DEF Promise!Revise
    <3> QED
      BY <1>2, <3>2 DEF Shows, Promise!Next
  <2> QED
    BY <2>4, <2>5
<1>8. CASE GetRecord(r) \/ Work(r) \/ FindExisting(r) \/ Embed(r) \/ StepRaises(r)
  BY <1>8 DEF GetRecord, Work, FindExisting, Embed, StepRaises, Shows
<1> QED
  BY <1>4, <1>5, <1>6, <1>7, <1>8 DEF Step

\* So is every other action.
LEMMA NextPromise == PromiseInv /\ TypeOK' /\ [Next]_vars => Shows
<1> SUFFICES ASSUME PromiseInv, TypeOK', [Next]_vars PROVE Shows
  OBVIOUS
<1> USE DEF store, process
<1>1. rec \in [Docs -> [status : Status, attempts : Nat]]
  BY DEF PromiseInv, TypeOK
<1>2. CASE Boot \/ Crash \/ UNCHANGED vars
  BY <1>2 DEF Boot, Crash, vars, Shows
<1>3. ASSUME NEW q \in Requests, UploadInsert(q) \/ UploadInsertRaises(q) PROVE Shows
  <2> DEFINE d == req[q]
  <2>1. d \in Docs /\ UNCHANGED rows
    BY <1>3 DEF UploadInsert, UploadInsertRaises, PromiseInv, TypeOK
  <2>2. \/ UNCHANGED rec
        \/ /\ rec[d].status = "absent"
           /\ rec' = [rec EXCEPT ![d] = [status |-> "pending", attempts |-> 0]]
    BY <1>3 DEF UploadInsert, UploadInsertRaises
  <2>3. rec[d].status = "absent" => rec[d] = [status |-> "absent", attempts |-> 0]
    BY <1>1, <2>1 DEF PromiseInv, AttemptsInv, PendingUncounted, Unclaimed
  <2>4. UNCHANGED rec \/ Promise!Submit(d)
    BY <1>1, <2>1, <2>2, <2>3 DEF Promise!Submit
  <2> QED
    BY <2>1, <2>4 DEF Shows, Promise!Next
<1>4. ASSUME NEW q \in Requests, NEW d \in Docs, UploadPut(q, d) PROVE Shows
  BY <1>4 DEF UploadPut, Shows
<1>5. ASSUME NEW r \in Runs, Step(r) PROVE Shows
  BY <1>5, StepPromise
<1>6. CASE SweepStep
  <2>1. ASSUME NEW d \in Docs, SweepAbandon(d) \/ SweepAbandonRaises(d) PROVE Shows
    <3>1. rec[d].status # "absent"
      BY <2>1 DEF SweepAbandon, SweepAbandonRaises, Scanning, PromiseInv, AttemptsInv,
         SnapExact, Unclaimed
    <3>2. UNCHANGED rows /\ (UNCHANGED rec \/ Promise!Fail(d))
      BY <2>1, <3>1 DEF SweepAbandon, SweepAbandonRaises, Promise!Fail
    <3> QED
      BY <3>2 DEF Shows, Promise!Next
  <2> QED
    BY <1>6, <2>1 DEF SweepStep, SweepList, SweepRetry, SweepSkip, Shows
<1> QED
  BY <1>2, <1>3, <1>4, <1>5, <1>6 DEF Next

\* Uploads, tasks, sweep, crashes and lost writes together show a client nothing
\* but the steps of DocumentPromise: chunks change only while a document is not
\* `ready`, and it becomes `ready` only over one complete set of them.
THEOREM PipelineKeepsPromise == Spec => PromiseKept
<1>1. Init => PromiseInv /\ Promise!Init
  <2>1. Init => Promise!Init
    BY DEF Init, Promise!Init
  <2> QED
    BY <2>1, InitTypeOK, InitAttempts, InitUntouched, InitReady, InitRecorded
       DEF PromiseInv
<1>2. PromiseInv /\ [Next]_vars => PromiseInv' /\ TypeOK'
  BY NextTypeOK, NextAttempts, NextUntouched, NextReady, NextRecorded DEF PromiseInv
<1>3. PromiseInv /\ TypeOK' /\ [Next]_vars => [Promise!Next]_<<rec, rows>>
  BY NextPromise DEF Shows
<1> QED
  BY <1>1, <1>2, <1>3, PTL DEF Spec, PromiseKept, Promise!Spec, Promise!vars
-----------------------------------------------------------------------------
(* Recovery: nothing stays `processing` with nobody to finish it.          *)
(*                                                                         *)
(* ProcessingIsOwned is not inductive: the sweep drops a document that its *)
(* snapshot shows `failed` and out of attempts without a look at the       *)
(* record.  That is right only because the record cannot have been claimed *)
(* since the query: an upload task claims what is still `pending`, and the *)
(* sweep's own call works a document it has taken out of the snapshot.     *)

\* The conditions: every call of the driver succeeds, and to_list(length=1000)
\* is no limit.
QuietDatabase == ~DbErrors /\ IsFiniteSet(Docs) /\ Cardinality(Docs) <= SweepLimit

\* What the snapshot shows `failed` is not `processing` now.
FailedInSnapUnclaimed ==
    \A d \in DOMAIN snap : snap[d].status = "failed" => rec[d].status # "processing"

OwnedInv == ProcessingIsOwned /\ FailedInSnapUnclaimed

\* Everything the owner of a document rests on.
RecoveryInv == TypeOK /\ AttemptsInv /\ CallsRecorded /\ OwnedInv

-----------------------------------------------------------------------------
Owning == {"work", "find", "embed", "write", "handler"}

\* Whoever is about to claim a document, the snapshot does not hold it.
LEMMA ClaimerOutOfSnap ==
    ASSUME TypeOK, AttemptsInv, NEW r \in Runs, run[r].pc \in BeforeClaim
    PROVE  run[r].doc \notin DOMAIN snap
<1>1. run[r].doc \in Docs /\ (r # Sweeper => run[r].doc = r)
  BY DEF TypeOK, RunsOK, BeforeClaim
<1> QED
  BY <1>1 DEF AttemptsInv, UploadClaimsPending, SweepClaimsInBudget, SnapExact, Unclaimed,
     Runs

\* A call that ends has given its document a terminal status; until then it owns
\* it, or the sweep does.
LEMMA StepOwned ==
    ASSUME ~DbErrors, RecoveryInv, TypeOK', NEW r \in Runs, Step(r)
    PROVE  OwnedInv'
<1> USE DEF store, process
<1> DEFINE d == run[r].doc
           Ends == rec'[d].status # "processing"
           Holds == run'[r].doc = d /\ run'[r].pc \in Owning
           Waits == /\ rec'[d] = rec[d]
                    /\ run'[r].doc = d /\ {run[r].pc, run'[r].pc} \subseteq BeforeClaim
<1>1. /\ run[r].pc # "idle"
      /\ run \in [Runs -> RunType] /\ run[r] \in RunType
      /\ rec \in [Docs -> [status : Status, attempts : Nat]]
  BY DEF RecoveryInv, TypeOK, RunType, Step, GetRecord, Claim, Work, FindExisting, Embed,
         DeleteStale, Reindex, InsertChunk, SetReady, StepRaises, SetFailed, HandlerRaises,
         At
<1>2. d \in Docs /\ Sweeper \in Runs
  BY <1>1 DEF RecoveryInv, TypeOK, RunsOK, Runs
<1>3. /\ UNCHANGED <<up, sweep, snap>>
      /\ \A s \in Runs \ {r} : run'[s] = run[s]
      /\ \A x \in Docs \ {d} : rec'[x] = rec[x]
  BY <1>1, <1>2 DEF Step, GetRecord, Claim, Work, FindExisting, Embed, DeleteStale,
     Reindex, InsertChunk, SetReady, StepRaises, SetFailed, HandlerRaises, Goto, Abort,
     Finish
<1>4. Ends \/ Holds \/ Waits
  <2>1. \A pc \in Steps : Goto(r, pc) => run'[r].pc = pc /\ run'[r].doc = d
    BY <1>1 DEF Goto, RunType
  <2>2. Abort(r) => Holds
    BY <1>1 DEF Abort, Call, Owning
  <2>3. CASE GetRecord(r)
    BY <1>1, <2>1, <2>3 DEF GetRecord, At, BeforeClaim, Steps
  <2>4. CASE Claim(r) \/ Work(r) \/ Embed(r)
    BY <2>1, <2>4 DEF Claim, Work, Embed, Owning, Steps
  <2>5. CASE FindExisting(r)
    BY <1>1, <2>5 DEF FindExisting, Owning
  <2>6. ASSUME NEW c \in Chunks, DeleteStale(r, c) \/ Reindex(r, c) \/ InsertChunk(r, c)
        PROVE  Holds
    BY <1>1, <2>2, <2>6 DEF DeleteStale, Reindex, InsertChunk, At, RunType, Owning
  <2>7. CASE SetReady(r) \/ SetFailed(r)
    BY <1>1, <1>2, <2>7 DEF SetReady, SetFailed
  <2>8. CASE StepRaises(r)
    BY <2>2, <2>8 DEF StepRaises
  <2> QED
    BY <2>3, <2>4, <2>5, <2>6, <2>7, <2>8 DEF Step, HandlerRaises
<1>5. ProcessingIsOwned'
  <2> SUFFICES ASSUME NEW x \in Docs, up', rec'[x].status = "processing"
               PROVE  Worked(x)' \/ ToBeSwept(x)'
    BY DEF ProcessingIsOwned
  <2>1. CASE x = d /\ Holds
    BY <2>1 DEF Worked, Owning
  <2>2. CASE x # d \/ Waits
    <3>1. Worked(x) \/ ToBeSwept(x)
      BY <1>3, <2>2 DEF RecoveryInv, OwnedInv, ProcessingIsOwned
    <3>2. \A s \in Runs : run[s].doc = x /\ run[s].pc \in Owning \cup BeforeClaim =>
             run'[s] = run[s] \/ (s = r /\ Waits /\ x = d)
      BY <1>3, <2>2
    <3>3. Worked(x) => Worked(x)'
      BY <3>2 DEF Worked, Owning, BeforeClaim
    <3>4. ToBeSwept(x) => ToBeSwept(x)'
      BY <1>2, <1>3, <3>2 DEF ToBeSwept, BeforeClaim
    <3> QED
      BY <3>1, <3>3, <3>4
  <2> QED
    BY <1>4, <2>1, <2>2
<1>6. FailedInSnapUnclaimed'
  <2>1. Claim(r) => d \notin DOMAIN snap
    BY ClaimerOutOfSnap DEF Claim, At, BeforeClaim, RecoveryInv
  <2>2. rec'[d].status = "processing" => Claim(r) \/ rec[d].status = "processing"
    BY <1>1, <1>2 DEF Step, GetRecord, Work, FindExisting, Embed, DeleteStale, Reindex,
       InsertChunk, SetReady, StepRaises, SetFailed, HandlerRaises
  <2>3. DOMAIN snap \subseteq Docs
    BY DEF RecoveryInv, TypeOK
  <2> QED
    BY <1>3, <2>1, <2>2, <2>3 DEF RecoveryInv, OwnedInv, FailedInSnapUnclaimed
<1> QED
  BY <1>5, <1>6 DEF OwnedInv

\* Under a quiet database the query returns every document left `processing`.
LEMMA ListReturnsAll ==
    ASSUME QuietDatabase, SweepList
    PROVE  DOMAIN snap' = Recoverable /\ \A d \in Recoverable : snap'[d] = rec[d]
<1>1. PICK S \in SUBSET Recoverable :
         /\ Cardinality(S) = SweepLimit
              \/ (Cardinality(S) < SweepLimit /\ S = Recoverable)
         /\ snap' = [d \in S |-> rec[d]]
  BY DEF SweepList, QuietDatabase
<1>2. Recoverable \in SUBSET Docs /\ S \in SUBSET Docs
  BY DEF Recoverable
<1>3. S = Recoverable
  <2> SUFFICES ASSUME Cardinality(S) = SweepLimit PROVE S = Recoverable
    BY <1>1
  <2>1. Cardinality(S) <= Cardinality(Docs) /\ Cardinality(S) \in Nat
        /\ Cardinality(Docs) \in Nat /\ (Cardinality(Docs) = Cardinality(S) => Docs = S)
    BY <1>2, FS_Subset, FS_CardinalityType DEF QuietDatabase
  <2>2. Cardinality(Docs) = Cardinality(S)
    BY <2>1, Parameters DEF QuietDatabase
  <2> QED
    BY <1>2, <2>1, <2>2
<1> QED
  BY <1>1, <1>3

\* Each other action leaves every document with its owner, or hands it over.
LEMMA NextOwned ==
    ASSUME QuietDatabase, RecoveryInv, TypeOK', [Next]_vars
    PROVE  OwnedInv'
<1> USE DEF store, process
<1>0. /\ rec \in [Docs -> [status : Status, attempts : Nat]]
      /\ run \in [Runs -> RunType] /\ Sweeper \in Runs /\ DOMAIN snap \subseteq Docs
  BY DEF RecoveryInv, TypeOK, RunType, Runs
\* Calls, sweep and statuses are as they were, but for records not `processing`.
<1>1. ASSUME UNCHANGED <<up, run, sweep, snap>>,
             \A x \in Docs : rec'[x].status = "processing" => rec[x].status = "processing"
      PROVE  OwnedInv'
  BY <1>0, <1>1 DEF RecoveryInv, OwnedInv, ProcessingIsOwned, Worked, ToBeSwept,
     FailedInSnapUnclaimed
<1>2. CASE Boot
  BY <1>0, <1>2 DEF Boot, RecoveryInv, OwnedInv, ProcessingIsOwned, ToBeSwept,
     FailedInSnapUnclaimed
<1>3. CASE Crash
  BY <1>3 DEF Crash, OwnedInv, ProcessingIsOwned, FailedInSnapUnclaimed, NoSnap
<1>4. ASSUME NEW q \in Requests, NEW d \in Docs, UploadPut(q, d) PROVE OwnedInv'
  BY <1>1, <1>4 DEF UploadPut
<1>5. ASSUME NEW q \in Requests, UploadInsert(q) PROVE OwnedInv'
  <2> DEFINE d == req[q]
  <2>1. d \in Docs /\ d \in Runs /\ UNCHANGED <<up, sweep, snap>>
    BY <1>5 DEF UploadInsert, TypeOK, RecoveryInv, Runs
  <2>2. CASE rec[d].status = "absent"
    <3>1. /\ rec'[d].status = "pending" /\ \A x \in Docs \ {d} : rec'[x] = rec[x]
          /\ \A r \in Runs \ {d} : run'[r] = run[r]
      BY <1>0, <1>5, <2>1, <2>2 DEF UploadInsert
    \* The task it starts was not there before.
    <3>2. run[d].pc = "idle" /\ d # Sweeper
      BY <2>1, <2>2, Parameters DEF RecoveryInv, CallsRecorded, TypeOK, RunsOK
    <3>3. \A x \in Docs : /\ Worked(x) => Worked(x)'
                          /\ ToBeSwept(x) => ToBeSwept(x)'
      BY <1>0, <2>1, <3>1, <3>2 DEF Worked, ToBeSwept
    <3>4. ProcessingIsOwned'
      BY <2>1, <3>1, <3>3 DEF RecoveryInv, OwnedInv, ProcessingIsOwned
    <3>5. FailedInSnapUnclaimed'
      BY <1>0, <2>1, <3>1 DEF RecoveryInv, OwnedInv, FailedInSnapUnclaimed
    <3> QED
      BY <3>4, <3>5 DEF OwnedInv
  <2>3. CASE rec[d].status # "absent"
    BY <1>1, <1>5, <2>3 DEF UploadInsert
  <2> QED
    BY <2>2, <2>3
<1>6. ASSUME NEW q \in Requests, UploadInsertRaises(q) PROVE OwnedInv'
  BY <1>6 DEF UploadInsertRaises, QuietDatabase
<1>7. ASSUME NEW r \in Runs, Step(r) PROVE OwnedInv'
  BY <1>7, StepOwned DEF QuietDatabase
<1>8. CASE SweepStep
  <2>1. CASE SweepList
    <3>1. /\ DOMAIN snap' = Recoverable /\ \A d \in Recoverable : snap'[d] = rec[d]
          /\ UNCHANGED rec
      BY <2>1, ListReturnsAll DEF SweepList
    <3>2. \A d \in Docs : rec'[d].status = "processing" => d \in DOMAIN snap'
      BY <3>1 DEF Recoverable
    <3>3. \A d \in DOMAIN snap' : snap'[d].status = rec'[d].status
      BY <3>1
    <3> QED
      BY <3>2, <3>3 DEF OwnedInv, ProcessingIsOwned, ToBeSwept, FailedInSnapUnclaimed
  <2>2. ASSUME NEW d \in Docs, SweepRetry(d) PROVE OwnedInv'
    <3>1. /\ run[Sweeper].pc = "idle" /\ UNCHANGED <<up, rec, sweep>>
          /\ run'[Sweeper].pc = "start" /\ run'[Sweeper].doc = d
          /\ \A r \in Runs \ {Sweeper} : run'[r] = run[r]
          /\ DOMAIN snap' = DOMAIN snap \ {d}
          /\ \A x \in DOMAIN snap' : snap'[x] = snap[x]
      BY <1>0, <2>2 DEF SweepRetry, Scanning, Forget, Drop, Call
    <3>2. \A x \in Docs : Worked(x) => Worked(x)'
      BY <1>0, <3>1 DEF Worked
    <3>3. \A x \in Docs : ToBeSwept(x) => ToBeSwept(x)'
      BY <1>0, <3>1 DEF ToBeSwept
    <3> QED
      BY <3>1, <3>2, <3>3
         DEF RecoveryInv, OwnedInv, ProcessingIsOwned, FailedInSnapUnclaimed
  \* A document the sweep is done with is not `processing`.
  <2>3. ASSUME NEW d \in Docs, SweepAbandon(d) \/ SweepSkip(d) PROVE OwnedInv'
    <3>1. /\ UNCHANGED <<up, run, sweep>> /\ d \in DOMAIN snap
          /\ DOMAIN snap' = DOMAIN snap \ {d}
          /\ \A x \in DOMAIN snap' : snap'[x] = snap[x]
      BY <2>3 DEF SweepAbandon, SweepSkip, Scanning, Forget, Drop
    <3>2. rec'[d].status # "processing" /\ \A x \in Docs \ {d} : rec'[x] = rec[x]
      BY <1>0, <2>3, <3>1
         DEF SweepAbandon, SweepSkip, RecoveryInv, OwnedInv, FailedInSnapUnclaimed
    <3>3. \A x \in Docs : /\ Worked(x) => Worked(x)'
                          /\ ToBeSwept(x) /\ x # d => ToBeSwept(x)'
      BY <1>0, <3>1 DEF Worked, ToBeSwept
    <3> QED
      BY <1>0, <3>1, <3>2, <3>3
         DEF RecoveryInv, OwnedInv, ProcessingIsOwned, FailedInSnapUnclaimed
  <2> QED
    BY <1>8, <2>1, <2>2, <2>3 DEF SweepStep, SweepAbandonRaises, QuietDatabase
<1>9. CASE UNCHANGED vars
  BY <1>1, <1>9 DEF vars
<1> QED
  BY <1>2, <1>3, <1>4, <1>5, <1>6, <1>7, <1>8, <1>9 DEF Next

\* No document is `processing` with neither a live call on it nor the sweep to
\* come, wherever the process crashed: where no database call raises and the
\* recovery query returns every document it finds.
THEOREM ProcessingHasOwner ==
    ASSUME QuietDatabase
    PROVE  Spec => []ProcessingIsOwned
<1>1. Init => RecoveryInv
  <2>1. Init => OwnedInv
    BY DEF Init, OwnedInv, ProcessingIsOwned, FailedInSnapUnclaimed, NoSnap
  <2> QED
    BY <2>1, InitTypeOK, InitAttempts, InitRecorded DEF RecoveryInv
<1>2. RecoveryInv /\ [Next]_vars => RecoveryInv'
  BY NextTypeOK, NextAttempts, NextRecorded, NextOwned DEF RecoveryInv
<1>3. RecoveryInv => ProcessingIsOwned
  BY DEF RecoveryInv, OwnedInv
<1> QED
  BY <1>1, <1>2, <1>3, PTL DEF Spec
=============================================================================
