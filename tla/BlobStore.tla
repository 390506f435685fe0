------------------------------ MODULE BlobStore ------------------------------
(***************************************************************************)
(* FilesystemStorage at one content-addressed key: the blob's path, the    *)
(* temporary file next to it, and the inodes behind them.  Each put runs   *)
(* _put_sync in a worker thread (asyncio.to_thread), so two puts of the    *)
(* same bytes interleave at every system call.  Keys share nothing but     *)
(* their directory, so one key stands for all.                             *)
(***************************************************************************)
EXTENDS Naturals, FiniteSets

CONSTANTS
    Puts,      \* put calls that may be in flight together
    Readers,   \* get calls that may be in flight together
    Inodes, NoFile,
    Size,      \* bound: pieces the bytes are written in
    IoErrors   \* may writing fail (a full disk)?

ASSUME Parameters ==
    /\ NoFile \notin Inodes /\ Size \in Nat /\ Puts \cap Readers = {}
    /\ IsFiniteSet(Inodes) /\ IsFiniteSet(Puts) /\ IsFiniteSet(Readers)
    /\ Cardinality(Inodes) >= Cardinality(Puts) + Cardinality(Readers) + 2

VARIABLES
    path, tmp,  \* the inodes the two names are linked to
    data,       \* the pieces each inode holds
    pc,         \* where each put is
    pos,        \* the pieces it has written
    fd,         \* the inode a put or a get has open
    failed,     \* puts whose try block raised
    up,         \* is the server process running?
    result,     \* what each put returned: none, ok or error
    got,        \* what each get returned: nothing yet, or the pieces it read
    stored,     \* history: a put no delete overtook has returned ok, with no delete since
    overtaken,  \* history: puts in flight when delete was last called
    raced       \* history: a put has begun to write with another not done

vars == <<path, tmp, data, pc, pos, fd, failed, up, result, got, stored, overtaken, raced>>
names == <<path, tmp>>
history == <<stored, overtaken, raced>>
answers == <<result, got, history>>

Pieces == 1..Size
Callers == Puts \cup Readers
Nothing == {0}

Init ==
    /\ path = NoFile /\ tmp = NoFile
    /\ data = [i \in Inodes |-> {}]
    /\ pc = [c \in Puts |-> "idle"] /\ pos = [c \in Puts |-> 0]
    /\ fd = [c \in Callers |-> NoFile]
    /\ failed = {} /\ up = TRUE
    /\ result = [c \in Puts |-> "none"] /\ got = [r \in Readers |-> Nothing]
    /\ stored = FALSE /\ overtaken = {} /\ raced = FALSE

At(c, where) == up /\ pc[c] = where
Goto(c, where) == pc' = [pc EXCEPT ![c] = where]

-----------------------------------------------------------------------------
\* put.

Acknowledge(c) ==
    /\ result' = [result EXCEPT ![c] = "ok"]
    /\ stored' = (stored \/ c \notin overtaken)

\* path.exists() on the event loop: bytes already there are not written again.
PutExists(c) ==
    /\ At(c, "idle")
    /\ IF path # NoFile
         THEN Acknowledge(c) /\ UNCHANGED <<pc, raced>>
         ELSE /\ Goto(c, "open")
              /\ raced' = (raced \/ \E other \in Puts : pc[other] # "idle")
              /\ result' = [result EXCEPT ![c] = "none"] /\ UNCHANGED stored
    /\ UNCHANGED <<names, data, pos, fd, failed, up, got, overtaken>>

\* mkdir of the parent raises: it comes before the try block, so nothing is
\* unlinked.  Where it does not raise it changes nothing of this key.
MkdirRaises(c) ==
    /\ IoErrors /\ At(c, "open")
    /\ failed' = failed \cup {c}
    /\ Goto(c, "return")
    /\ UNCHANGED <<names, data, pos, fd, up, answers>>

\* write_bytes opens the temporary name, which is the same for every put of the
\* key: an existing file is truncated, whoever is writing it.
Free == Inodes \ ({path, tmp} \cup {fd[c] : c \in Callers})

\* Slip: no temporary name, the path itself is opened for writing.
OpenPath(c) ==
    LET inode == CHOOSE i \in Free : TRUE IN
    /\ At(c, "open")
    /\ path' = inode
    /\ fd' = [fd EXCEPT ![c] = inode] /\ pos' = [pos EXCEPT ![c] = 0]
    /\ Goto(c, "write")
    /\ UNCHANGED <<tmp, data, failed, up, answers>>

OpenTmp(c) ==
    LET inode == IF tmp = NoFile THEN CHOOSE i \in Free : TRUE ELSE tmp IN
    /\ At(c, "open")
    /\ tmp' = inode
    /\ data' = [data EXCEPT ![inode] = {}]
    /\ fd' = [fd EXCEPT ![c] = inode] /\ pos' = [pos EXCEPT ![c] = 0]
    /\ Goto(c, "write")
    /\ UNCHANGED <<path, failed, up, answers>>

\* Slip: one piece past the end.
WritePastEnd(c) ==
    /\ At(c, "write") /\ pos[c] <= Size
    /\ pos' = [pos EXCEPT ![c] = @ + 1]
    /\ data' = [data EXCEPT ![fd[c]] = @ \cup {pos[c] + 1}]
    /\ UNCHANGED <<names, pc, fd, failed, up, answers>>

\* Each put writes at its own offset into the file it has open.
WritePiece(c) ==
    /\ At(c, "write") /\ pos[c] < Size
    /\ pos' = [pos EXCEPT ![c] = @ + 1]
    /\ data' = [data EXCEPT ![fd[c]] = @ \cup {pos[c] + 1}]
    /\ UNCHANGED <<names, pc, fd, failed, up, answers>>

\* Slip: the file is linked at the path and keeps its temporary name.
LinkOnly(c) ==
    /\ At(c, "write") /\ pos[c] = Size /\ tmp # NoFile
    /\ path' = tmp
    /\ fd' = [fd EXCEPT ![c] = NoFile] /\ Goto(c, "unlink")
    /\ UNCHANGED <<tmp, data, pos, failed, up, answers>>

\* tmp.replace(path) moves the name, whoever's file it now is; a name that is
\* gone is a FileNotFoundError.
Replace(c) ==
    /\ At(c, "write") /\ pos[c] = Size
    /\ IF tmp = NoFile
         THEN failed' = failed \cup {c} /\ UNCHANGED names
         ELSE path' = tmp /\ tmp' = NoFile /\ UNCHANGED failed
    /\ fd' = [fd EXCEPT ![c] = NoFile] /\ Goto(c, "unlink")
    /\ UNCHANGED <<data, pos, up, answers>>

\* In the try block: opening the file, which leaves a file of that name as it
\* was, or writing it raises, a full disk for instance.
WriteRaises(c) ==
    /\ IoErrors /\ (At(c, "open") \/ At(c, "write"))
    /\ failed' = failed \cup {c}
    /\ fd' = [fd EXCEPT ![c] = NoFile] /\ Goto(c, "unlink")
    /\ UNCHANGED <<names, data, pos, up, answers>>

\* finally: tmp.unlink(missing_ok=True).
UnlinkTmp(c) ==
    /\ At(c, "unlink")
    /\ tmp' = NoFile
    /\ Goto(c, "return")
    /\ UNCHANGED <<path, data, pos, fd, failed, up, answers>>

\* Slip: the error is swallowed.
PutReturnsOk(c) ==
    /\ At(c, "return")
    /\ Acknowledge(c)
    /\ failed' = failed \ {c} /\ overtaken' = overtaken \ {c}
    /\ pos' = [pos EXCEPT ![c] = 0]
    /\ Goto(c, "idle")
    /\ UNCHANGED <<names, data, fd, up, got, raced>>

\* An OSError becomes a StorageError, anything else a StoredBlob.
PutReturns(c) ==
    /\ At(c, "return")
    /\ IF c \in failed
         THEN result' = [result EXCEPT ![c] = "error"] /\ UNCHANGED stored
         ELSE Acknowledge(c)
    /\ failed' = failed \ {c} /\ overtaken' = overtaken \ {c}
    /\ pos' = [pos EXCEPT ![c] = 0]
    /\ Goto(c, "idle")
    /\ UNCHANGED <<names, data, fd, up, got, raced>>

-----------------------------------------------------------------------------
\* get: read_bytes opens the path, then reads; a missing path is BlobNotFound.

GetOpen(r) ==
    /\ up /\ fd[r] = NoFile /\ path # NoFile
    /\ fd' = [fd EXCEPT ![r] = path]
    /\ got' = [got EXCEPT ![r] = Nothing]
    /\ UNCHANGED <<names, data, pc, pos, failed, up, result, history>>

GetRead(r) ==
    /\ up /\ fd[r] # NoFile
    /\ got' = [got EXCEPT ![r] = data[fd[r]]]
    /\ fd' = [fd EXCEPT ![r] = NoFile]
    /\ UNCHANGED <<names, data, pc, pos, failed, up, result, history>>

-----------------------------------------------------------------------------
\* delete, and the death and return of the process.

Delete ==
    /\ up
    /\ path' = NoFile
    /\ stored' = FALSE /\ overtaken' = {c \in Puts : pc[c] # "idle"}
    /\ UNCHANGED <<tmp, data, pc, pos, fd, failed, up, result, got, raced>>

Crash ==
    /\ up /\ up' = FALSE
    /\ pc' = [c \in Puts |-> "idle"] /\ pos' = [c \in Puts |-> 0]
    /\ fd' = [c \in Callers |-> NoFile] /\ failed' = {} /\ overtaken' = {}
    /\ UNCHANGED <<names, data, result, got, stored, raced>>

Restart ==
    /\ ~up /\ up' = TRUE
    /\ UNCHANGED <<names, data, pc, pos, fd, failed, answers>>

PutStep(c) ==
    \/ PutExists(c) \/ MkdirRaises(c) \/ OpenTmp(c) \/ WritePiece(c) \/ Replace(c)
    \/ WriteRaises(c) \/ UnlinkTmp(c) \/ PutReturns(c)

Next ==
    \/ \E c \in Puts : PutStep(c)
    \/ \E r \in Readers : GetOpen(r) \/ GetRead(r)
    \/ Delete \/ Crash \/ Restart

Spec == Init /\ [][Next]_vars

-----------------------------------------------------------------------------
(* Properties *)

\* Every variable keeps its type.
TypeOK ==
    /\ path \in Inodes \cup {NoFile} /\ tmp \in Inodes \cup {NoFile}
    /\ data \in [Inodes -> SUBSET Pieces]
    /\ pc \in [Puts -> {"idle", "open", "write", "unlink", "return"}]
    /\ pos \in [Puts -> 0..Size]
    /\ fd \in [Callers -> Inodes \cup {NoFile}]
    /\ failed \subseteq Puts /\ overtaken \subseteq Puts
    /\ up \in BOOLEAN /\ stored \in BOOLEAN /\ raced \in BOOLEAN
    /\ result \in [Puts -> {"none", "ok", "error"}]
    /\ got \in [Readers -> SUBSET (0..Size)]

\* What a name that promises a digest's content holds is that content, at every
\* instant and after every crash (storage_service.py:131-133), and no get reads
\* less.  As long as no two puts of the key have been in flight together.
BlobIsWhole ==
    ~raced =>
    /\ path # NoFile => data[path] = Pieces
    /\ \A r \in Readers : got[r] \in {Nothing, Pieces}

\* A temporary file that no put is using is left over from a crash, and then
\* nothing is at the path, so the next put reuses the name and clears it
\* (test_storage_service.py:58-64).  As long as no two puts of the key have been
\* in flight together.
NoTempBesideBlob ==
    ~raced /\ tmp # NoFile /\ (\A c \in Puts : pc[c] = "idle") => path = NoFile

\* Once a put has answered ok the blob is there to stay, whatever other puts of
\* the same key fail or crash, until the next delete; and again after every
\* delete, for a put that began behind it.  A put that a delete overtook may
\* answer ok of a blob that is gone.
OkMeansStored == stored => path # NoFile

-----------------------------------------------------------------------------
(* What a comment of the code says, and two puts of one key break. *)

\* storage_service.py:131-133: "a crash mid-write can't leave a half-written
\* blob at a key whose digest promises complete content".
CrashLeavesWholeBlob == ~up /\ path # NoFile => data[path] = Pieces

=============================================================================
