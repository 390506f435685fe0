------------------------------ MODULE BlobProofs ------------------------------
(***************************************************************************)
(* What FilesystemStorage keeps of its promises, for every number of puts  *)
(* and gets of one key, whatever fails or crashes.                         *)
(***************************************************************************)
EXTENDS BlobStore, TLAPS, FiniteSetTheorems

-----------------------------------------------------------------------------
(* Types.  An inode is always to be had for a new temporary file: the names
   and the open files hold fewer than there are. *)

\* While the temporary name is unused some inode is free.
LEMMA FreeInode ==
    ASSUME TypeOK, tmp = NoFile
    PROVE  \E i \in Inodes : i \in Free
<1> USE Parameters
<1> DEFINE Open == {fd[c] : c \in Callers}
           Used == (Open \cup {path}) \cap Inodes
<1>1. fd \in Surjection(Callers, Open)
  <2>1. fd \in [Callers -> Open] /\ \A i \in Open : \E c \in Callers : fd[c] = i
    BY DEF TypeOK
  <2> QED
    BY <2>1 DEF Surjection
<1>2. /\ IsFiniteSet(Callers) /\ Cardinality(Callers) \in Nat
      /\ Cardinality(Callers) <= Cardinality(Puts) + Cardinality(Readers)
  <2>1. IsFiniteSet(Puts \cup Readers) /\ IsFiniteSet(Puts \cap Readers)
        /\ Cardinality(Puts \cup Readers)
             = Cardinality(Puts) + Cardinality(Readers) - Cardinality(Puts \cap Readers)
    BY FS_Union, FS_Intersection
  <2> QED
    BY <2>1, FS_CardinalityType DEF Callers
<1>3. IsFiniteSet(Open) /\ Cardinality(Open) <= Cardinality(Callers)
  BY <1>1, <1>2, FS_Surjection
<1>4. /\ IsFiniteSet(Open \cup {path})
      /\ Cardinality(Open \cup {path}) <= Cardinality(Open) + 1
      /\ Cardinality(Open) \in Nat
  <2> HIDE DEF Open
  <2>1. Cardinality(Open) \in Nat
    BY <1>3, FS_CardinalityType
  <2>2. /\ IsFiniteSet(Open \cup {path})
        /\ Cardinality(Open \cup {path})
             = IF path \in Open THEN Cardinality(Open) ELSE Cardinality(Open) + 1
    BY <1>3, FS_AddElement
  <2> QED
    BY <2>1, <2>2
<1>5. IsFiniteSet(Used) /\ Cardinality(Used) <= Cardinality(Open \cup {path})
      /\ Cardinality(Used) \in Nat /\ Cardinality(Open \cup {path}) \in Nat
  <2>1. Used \in SUBSET (Open \cup {path})
    OBVIOUS
  <2> HIDE DEF Used
  <2> QED
    BY <1>4, <2>1, FS_Subset, FS_CardinalityType
<1>6. Cardinality(Puts) \in Nat /\ Cardinality(Readers) \in Nat /\ Cardinality(Inodes) \in Nat
  BY FS_CardinalityType
<1>7. Cardinality(Used) < Cardinality(Inodes)
  <2> HIDE DEF Used, Open
  <2> QED
    BY <1>2, <1>3, <1>4, <1>5, <1>6
<1>8. Used # Inodes
  <2> HIDE DEF Used
  <2> QED
    BY <1>5, <1>7
<1>9. PICK i \in Inodes : i \notin Used
  BY <1>8
<1> QED
  BY <1>9 DEF Free

\* The file OpenTmp opens.
Opened == IF tmp = NoFile THEN CHOOSE i \in Free : TRUE ELSE tmp

\* It is an inode, and a new one unless a temporary file was left.
LEMMA OpenedType ==
    ASSUME TypeOK
    PROVE  Opened \in Inodes /\ (tmp = NoFile => Opened \in Free)
<1>1. CASE tmp = NoFile
  <2>1. \E i \in Inodes : i \in Free
    BY <1>1, FreeInode
  <2>2. (CHOOSE i \in Free : TRUE) \in Free
    BY <2>1
  <2> QED
    BY <1>1, <2>2 DEF Opened, Free
<1>2. CASE tmp # NoFile
  BY <1>2 DEF Opened, TypeOK
<1> QED
  BY <1>1, <1>2

\* A put starts at the first piece.
LEMMA StartPos == 0 \in 0..Size /\ Nothing \in SUBSET (0..Size)
BY Parameters DEF Nothing

\* The types hold in an empty directory.
LEMMA InitTypeOK == Init => TypeOK
BY StartPos DEF Init, TypeOK, Callers

\* Each step of put keeps the types.
LEMMA PutTypeOK == ASSUME TypeOK, NEW c \in Puts, PutStep(c) PROVE TypeOK'
<1> USE DEF TypeOK, names, history, answers, At, Goto, Acknowledge
<1>0. c \in Callers
  BY DEF Callers
<1>1. CASE PutExists(c)
  BY <1>1 DEF PutExists
<1>2. CASE OpenTmp(c)
  <2>1. /\ tmp' = Opened /\ data' = [data EXCEPT ![Opened] = {}]
        /\ fd' = [fd EXCEPT ![c] = Opened] /\ Opened \in Inodes
    BY <1>2, OpenedType DEF OpenTmp, Opened
  <2>2. /\ pos' = [pos EXCEPT ![c] = 0] /\ pc' = [pc EXCEPT ![c] = "write"]
        /\ UNCHANGED <<path, failed, up, answers>>
    BY <1>2 DEF OpenTmp
  <2>3. data' \in [Inodes -> SUBSET Pieces]
    BY <2>1
  <2>4. fd' \in [Callers -> Inodes \cup {NoFile}]
    BY <1>0, <2>1
  <2> QED
    BY <2>1, <2>2, <2>3, <2>4, StartPos
<1>3. CASE WritePiece(c)
  <2>1. pos[c] + 1 \in Pieces /\ pos[c] + 1 \in 0..Size
    BY <1>3, Parameters DEF WritePiece, Pieces
  <2>2. data' \in [Inodes -> SUBSET Pieces]
    BY <1>3, <2>1 DEF WritePiece
  <2> QED
    BY <1>3, <2>1, <2>2 DEF WritePiece
<1>4. CASE Replace(c)
  BY <1>0, <1>4 DEF Replace
<1>5. CASE WriteRaises(c)
  BY <1>0, <1>5 DEF WriteRaises
<1>6. CASE UnlinkTmp(c)
  BY <1>6 DEF UnlinkTmp
<1>7. CASE PutReturns(c)
  BY <1>7, StartPos DEF PutReturns
<1>8. CASE MkdirRaises(c)
  BY <1>8 DEF MkdirRaises
<1> QED
  BY <1>1, <1>2, <1>3, <1>4, <1>5, <1>6, <1>7, <1>8 DEF PutStep

\* So does every other action.
LEMMA NextTypeOK == TypeOK /\ [Next]_vars => TypeOK'
<1> SUFFICES ASSUME TypeOK, [Next]_vars PROVE TypeOK'
  OBVIOUS
<1> USE DEF TypeOK, names, history, answers
<1>1. ASSUME NEW c \in Puts, PutStep(c) PROVE TypeOK'
  BY <1>1, PutTypeOK
<1>2. ASSUME NEW r \in Readers, GetOpen(r) PROVE TypeOK'
  BY <1>2, StartPos DEF GetOpen, Callers
<1>3. ASSUME NEW r \in Readers, GetRead(r) PROVE TypeOK'
  <2>1. fd[r] \in Inodes /\ data[fd[r]] \in SUBSET (0..Size)
    BY <1>3, Parameters DEF GetRead, Callers, Pieces
  <2> QED
    BY <1>3, <2>1 DEF GetRead, Callers
<1>4. CASE Delete
  BY <1>4 DEF Delete
<1>5. CASE Crash
  BY <1>5, StartPos DEF Crash
<1>6. CASE Restart
  BY <1>6 DEF Restart
<1>7. CASE UNCHANGED vars
  BY <1>7 DEF vars
<1> QED
  BY <1>1, <1>2, <1>3, <1>4, <1>5, <1>6, <1>7 DEF Next

\* Names, files, puts and gets keep their types, and a put always finds an inode
\* for its temporary file.
THEOREM TypeCorrect == Spec => []TypeOK
<1>1. TypeOK /\ [Next]_vars => TypeOK'
  BY NextTypeOK
<1> QED
  BY <1>1, InitTypeOK, PTL DEF Spec

-----------------------------------------------------------------------------
(* The content of the blob, while no two puts of the key are in flight
   together.  BlobIsWhole and NoTempBesideBlob need to know where a lone put is
   with the temporary file, that no reader has that file open, and that the
   path and the temporary name are not in use at once. *)

Alone == \A c, e \in Puts : pc[c] # "idle" /\ pc[e] # "idle" => c = e

LonePut ==
    \A c \in Puts :
        /\ pc[c] \in {"open", "write"} => path = NoFile
        /\ pc[c] = "write" => tmp # NoFile /\ fd[c] = tmp /\ data[tmp] = 1..pos[c]

OneName == path = NoFile \/ tmp = NoFile

ReadersWhole == \A r \in Readers : fd[r] # NoFile => fd[r] # tmp /\ data[fd[r]] = Pieces

WholeInv == BlobIsWhole /\ (~raced => Alone /\ LonePut /\ OneName /\ ReadersWhole)

(* An acknowledgement.  A put that has got past its write without an error has
   linked the blob, and only a delete unlinks it, which overtakes the put; one
   that begins behind the delete has not been overtaken. *)

Linked ==
    \A c \in Puts :
        pc[c] \in {"unlink", "return"} /\ c \notin failed /\ c \notin overtaken
            => path # NoFile

StoredInv == OkMeansStored /\ Linked

\* Nothing is stored yet.
LEMMA InitWhole == Init => WholeInv /\ StoredInv
BY Parameters DEF Init, WholeInv, StoredInv, BlobIsWhole, Alone, LonePut, OneName,
   ReadersWhole, OkMeansStored, Linked, Callers

Calm == Alone /\ LonePut /\ OneName /\ ReadersWhole
             /\ (path # NoFile => data[path] = Pieces)
             /\ \A r \in Readers : got[r] \in {Nothing, Pieces}

\* The invariant says what holds while nothing has raced.
LEMMA WholeIsCalm ==
    /\ WholeInv <=> (~raced => Calm)
    /\ WholeInv' <=> (~raced' => Calm')
BY DEF WholeInv, Calm, BlobIsWhole

\* A put that is alone writes its file out before it gives it the blob's name.
LEMMA PutCalm ==
    ASSUME TypeOK, Calm, NEW c \in Puts, PutStep(c), ~raced'
    PROVE  Calm'
<1> USE Parameters DEF At, Goto, names, answers, history
<1>0. /\ c \in Callers /\ c \notin Readers /\ Readers \subseteq Callers /\ Puts \subseteq Callers
      /\ pc \in [Puts -> {"idle", "open", "write", "unlink", "return"}]
      /\ fd \in [Callers -> Inodes \cup {NoFile}] /\ pos \in [Puts -> 0..Size]
      /\ data \in [Inodes -> SUBSET Pieces]
      /\ path \in Inodes \cup {NoFile} /\ tmp \in Inodes \cup {NoFile}
  BY DEF TypeOK, Callers
\* A put that finds the blob changes nothing; one that does not is alone.
<1>1. CASE PutExists(c)
  <2>1. UNCHANGED <<path, tmp, data, pos, fd, got>>
    BY <1>1 DEF PutExists
  <2>2. CASE path # NoFile
    BY <1>1, <2>1, <2>2
       DEF PutExists, Acknowledge, Calm, Alone, LonePut, OneName, ReadersWhole
  <2>3. CASE path = NoFile
    <3>1. \A e \in Puts : pc[e] = "idle"
      BY <1>1, <2>3 DEF PutExists
    <3>2. pc'[c] = "open" /\ \A e \in Puts \ {c} : pc'[e] = "idle"
      BY <1>0, <1>1, <2>3, <3>1 DEF PutExists
    <3>3. Alone' /\ LonePut'
      BY <2>1, <2>3, <3>2 DEF Alone, LonePut
    <3> QED
      BY <2>1, <3>3 DEF Calm, OneName, ReadersWhole
  <2> QED
    BY <2>2, <2>3
<1> SUFFICES ASSUME ~PutExists(c) PROVE Calm'
  BY <1>1
\* Otherwise c is in flight: the other puts are idle, and stay so.
<1>2. \A e \in Puts \ {c} : pc'[e] = "idle"
  <2>1. pc[c] # "idle" /\ \A e \in Puts \ {c} : pc'[e] = pc[e]
    BY <1>0 DEF PutStep, MkdirRaises, OpenTmp, WritePiece, Replace, WriteRaises, UnlinkTmp, PutReturns
  <2> QED
    BY <2>1 DEF Calm, Alone
<1>3. Alone'
  BY <1>2 DEF Alone
<1>4. UNCHANGED got
  BY DEF PutStep, MkdirRaises, OpenTmp, WritePiece, Replace, WriteRaises, UnlinkTmp, PutReturns
<1>5. CASE OpenTmp(c)
  <2>1. /\ tmp' = Opened /\ data' = [data EXCEPT ![Opened] = {}]
        /\ fd' = [fd EXCEPT ![c] = Opened] /\ pos' = [pos EXCEPT ![c] = 0]
        /\ pc'[c] = "write" /\ UNCHANGED path /\ path = NoFile
        /\ Opened \in Inodes /\ Opened # NoFile
    BY <1>0, <1>5, OpenedType DEF OpenTmp, Opened, Calm, LonePut
  <2>2. \A r \in Readers : fd[r] # NoFile => fd[r] # Opened
    BY <1>0, OpenedType DEF Free, Opened, Calm, ReadersWhole
  <2> HIDE DEF Opened
  <2>3. fd'[c] = tmp' /\ data'[tmp'] = {} /\ pos'[c] = 0 /\ 1..0 = {}
    BY <1>0, <2>1
  <2>4. LonePut'
    BY <1>2, <2>1, <2>3 DEF LonePut
  <2>5. ReadersWhole'
    BY <1>0, <2>1, <2>2 DEF Calm, ReadersWhole
  <2> QED
    BY <1>3, <1>4, <2>1, <2>4, <2>5 DEF Calm, OneName
<1>6. CASE WritePiece(c)
  <2>1. /\ pc[c] = "write" /\ UNCHANGED <<path, tmp, pc, fd>> /\ path = NoFile
        /\ tmp \in Inodes /\ fd[c] = tmp /\ data[tmp] = 1..pos[c]
        /\ pos' = [pos EXCEPT ![c] = @ + 1]
        /\ data' = [data EXCEPT ![tmp] = @ \cup {pos[c] + 1}]
    BY <1>0, <1>6 DEF WritePiece, Calm, LonePut
  <2>2. data'[tmp] = 1..pos'[c]
    BY <1>0, <2>1
  <2>3. LonePut'
    BY <1>2, <2>1, <2>2 DEF LonePut
  <2>4. ReadersWhole'
    BY <1>0, <2>1 DEF Calm, ReadersWhole
  <2> QED
    BY <1>3, <1>4, <2>1, <2>3, <2>4 DEF Calm, OneName
<1>7. CASE Replace(c)
  <2>1. /\ tmp # NoFile /\ data[tmp] = Pieces /\ path' = tmp /\ tmp' = NoFile
        /\ UNCHANGED data /\ pc'[c] = "unlink" /\ \A r \in Readers : fd'[r] = fd[r]
    BY <1>0, <1>7 DEF Replace, Calm, LonePut, Pieces
  <2>2. LonePut'
    BY <1>2, <2>1 DEF LonePut
  <2> QED
    BY <1>3, <1>4, <2>1, <2>2 DEF Calm, OneName, ReadersWhole
<1>8. CASE MkdirRaises(c) \/ WriteRaises(c) \/ UnlinkTmp(c) \/ PutReturns(c)
  <2>1. /\ pc'[c] \in {"unlink", "return", "idle"} /\ UNCHANGED <<path, data>>
        /\ tmp' = tmp \/ tmp' = NoFile
        /\ \A r \in Readers : fd'[r] = fd[r]
    BY <1>0, <1>8 DEF MkdirRaises, WriteRaises, UnlinkTmp, PutReturns
  <2>2. LonePut'
    BY <1>2, <2>1 DEF LonePut
  <2> QED
    BY <1>3, <1>4, <2>1, <2>2 DEF Calm, OneName, ReadersWhole
<1> QED
  BY <1>5, <1>6, <1>7, <1>8 DEF PutStep

\* Reads, deletes, crashes and restarts keep it too.
LEMMA NextWhole == TypeOK /\ WholeInv /\ [Next]_vars => WholeInv'
<1> SUFFICES ASSUME TypeOK, Calm, [Next]_vars, ~raced' PROVE Calm'
  <2>1. [Next]_vars => (raced => raced')
    BY DEF TypeOK, Next, PutStep, PutExists, MkdirRaises, OpenTmp, WritePiece, Replace, WriteRaises,
       UnlinkTmp, PutReturns, GetOpen, GetRead, Delete, Crash, Restart, Acknowledge,
       answers, history, vars
  <2> QED
    BY <2>1, WholeIsCalm
<1> USE Parameters DEF names, history, answers
<1>0. /\ Readers \subseteq Callers /\ Puts \cap Readers = {} /\ Puts \subseteq Callers
      /\ fd \in [Callers -> Inodes \cup {NoFile}] /\ got \in [Readers -> SUBSET (0..Size)]
  BY DEF TypeOK, Callers
<1>1. ASSUME NEW c \in Puts, PutStep(c) PROVE Calm'
  BY <1>1, PutCalm
\* A reader opens the blob, which is not the temporary file.
<1>2. ASSUME NEW r \in Readers, GetOpen(r) PROVE Calm'
  <2>1. /\ UNCHANGED <<path, tmp, data, pc, pos>> /\ path # NoFile
        /\ \A c \in Callers \ {r} : fd'[c] = fd[c]
        /\ fd'[r] = path
        /\ \A s \in Readers : got'[s] = got[s] \/ got'[s] = Nothing
    BY <1>0, <1>2 DEF GetOpen
  <2> QED
    BY <1>0, <2>1 DEF Calm, Alone, LonePut, OneName, ReadersWhole
<1>3. ASSUME NEW r \in Readers, GetRead(r) PROVE Calm'
  <2>1. /\ UNCHANGED <<path, tmp, data, pc, pos>>
        /\ \A c \in Callers \ {r} : fd'[c] = fd[c]
        /\ fd'[r] = NoFile
        /\ \A s \in Readers : got'[s] = got[s] \/ got'[s] = Pieces
    BY <1>0, <1>3 DEF GetRead, Calm, ReadersWhole
  <2> QED
    BY <1>0, <2>1 DEF Calm, Alone, LonePut, OneName, ReadersWhole
<1>4. CASE Delete
  BY <1>4 DEF Delete, Calm, Alone, LonePut, OneName, ReadersWhole
<1>5. CASE Crash
  BY <1>0, <1>5 DEF Crash, Calm, Alone, LonePut, OneName, ReadersWhole
<1>6. CASE Restart \/ UNCHANGED vars
  BY <1>6 DEF Restart, vars, Calm, Alone, LonePut, OneName, ReadersWhole
<1> QED
  BY <1>1, <1>2, <1>3, <1>4, <1>5, <1>6 DEF Next

\* As long as no two puts of the key have been in flight together: the blob's
\* name only ever names all of its bytes, at every instant, a crash in the
\* middle of a put included, and no get returns less.
THEOREM BlobsAreWhole == Spec => []BlobIsWhole
<1>1. TypeOK /\ WholeInv /\ [Next]_vars => TypeOK' /\ WholeInv'
  BY NextTypeOK, NextWhole
<1>2. WholeInv => BlobIsWhole
  BY DEF WholeInv
<1> QED
  BY <1>1, <1>2, InitTypeOK, InitWhole, PTL DEF Spec

\* Under the same proviso: a temporary file a crash left behind lies beside no
\* blob, so the next put of the key starts over in it and no get depends on it.
THEOREM LeftoverIsHarmless == Spec => []NoTempBesideBlob
<1>1. TypeOK /\ WholeInv /\ [Next]_vars => TypeOK' /\ WholeInv'
  BY NextTypeOK, NextWhole
<1>2. WholeInv => NoTempBesideBlob
  BY DEF WholeInv, OneName, NoTempBesideBlob
<1> QED
  BY <1>1, <1>2, InitTypeOK, InitWhole, PTL DEF Spec

\* Each step keeps what an acknowledgement rests on.
LEMMA NextStored == TypeOK /\ StoredInv /\ [Next]_vars => StoredInv'
<1> SUFFICES ASSUME TypeOK, StoredInv, [Next]_vars PROVE StoredInv'
  OBVIOUS
<1> USE DEF names, history, answers, At, Goto, StoredInv
<1>0. pc \in [Puts -> {"idle", "open", "write", "unlink", "return"}]
  BY DEF TypeOK
<1>1. ASSUME NEW c \in Puts, PutStep(c) PROVE StoredInv'
  <2>1. CASE PutExists(c)
    BY <1>0, <2>1 DEF PutExists, Acknowledge, OkMeansStored, Linked
  <2>2. CASE OpenTmp(c) \/ WritePiece(c) \/ UnlinkTmp(c)
    BY <1>0, <2>2 DEF OpenTmp, WritePiece, UnlinkTmp, OkMeansStored, Linked
  \* Either it links the blob or it has failed.
  <2>3. CASE MkdirRaises(c) \/ Replace(c) \/ WriteRaises(c)
    <3>1. /\ path' = path \/ path' # NoFile
          /\ path' # NoFile \/ c \in failed'
          /\ failed \subseteq failed' /\ UNCHANGED <<stored, overtaken>>
          /\ \A e \in Puts \ {c} : pc'[e] = pc[e] /\ (e \in failed' <=> e \in failed)
      BY <1>0, <2>3 DEF MkdirRaises, Replace, WriteRaises
    <3> QED
      BY <3>1 DEF OkMeansStored, Linked
  <2>4. CASE PutReturns(c)
    <3>1. /\ UNCHANGED path /\ pc[c] = "return" /\ pc'[c] = "idle"
          /\ \A e \in Puts \ {c} : /\ pc'[e] = pc[e]
                                   /\ e \in failed' <=> e \in failed
                                   /\ e \in overtaken' <=> e \in overtaken
          /\ stored' => stored \/ (c \notin failed /\ c \notin overtaken)
      BY <1>0, <2>4 DEF PutReturns, Acknowledge
    <3> QED
      BY <3>1 DEF OkMeansStored, Linked
  <2> QED
    BY <1>1, <2>1, <2>2, <2>3, <2>4 DEF PutStep
<1>2. ASSUME NEW r \in Readers, GetOpen(r) \/ GetRead(r) PROVE StoredInv'
  BY <1>2 DEF GetOpen, GetRead, OkMeansStored, Linked
<1>3. CASE Delete
  BY <1>3 DEF Delete, OkMeansStored, Linked
<1>4. CASE Crash
  BY <1>4 DEF Crash, OkMeansStored, Linked
<1>5. CASE Restart \/ UNCHANGED vars
  BY <1>5 DEF Restart, vars, OkMeansStored, Linked
<1> QED
  BY <1>1, <1>2, <1>3, <1>4, <1>5 DEF Next

\* Once a put that no delete overtook has answered ok the blob is there, until the
\* next delete, and so after each of them: with any number of puts of the same key
\* in flight, failing or crashing.
THEOREM AcknowledgedStays == Spec => []OkMeansStored
<1>1. TypeOK /\ StoredInv /\ [Next]_vars => TypeOK' /\ StoredInv'
  BY NextTypeOK, NextStored
<1>2. StoredInv => OkMeansStored
  BY DEF StoredInv
<1> QED
  BY <1>1, <1>2, InitTypeOK, InitWhole, PTL DEF Spec
=============================================================================
