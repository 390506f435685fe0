----------------------------- MODULE SchemaSetup -----------------------------
(***************************************************************************)
(* connect_to_mongo and _ensure_schema: what a boot does to a database an  *)
(* earlier boot, of this or another version of the code, left behind.  One *)
(* collection with one reconciled index stands for the five; the search    *)
(* indexes over it are dropped by Atlas in its own time.  A boot may die   *)
(* at every call, and every call may raise.                                *)
(***************************************************************************)
EXTENDS Naturals, Sequences

CONSTANTS
    Versions,      \* versions of the code, in the order of their release
    Unique,        \* Unique[v]: does v declare the index unique?
    Kinds,         \* the search indexes, in the order they are ensured
    Definition,    \* Definition[v][k]: what v declares for search index k
    NoDefinition,
    Polls,         \* attempts of _wait_until_search_index_absent
    Rollbacks,     \* may an older version be booted after a newer one?
    Duplicates,    \* may rows come to share a key the index does not make unique?
    MaxBoots       \* bound: boots in one behaviour

KindSet == {Kinds[i] : i \in DOMAIN Kinds}

ASSUME Parameters ==
    /\ Versions \subseteq Nat \ {0}
    /\ Kinds \in Seq(KindSet) /\ Kinds # <<>>
    /\ \A i, j \in DOMAIN Kinds : Kinds[i] = Kinds[j] => i = j
    /\ Unique \in [Versions -> BOOLEAN]
    /\ Polls \in Nat /\ MaxBoots \in Nat
    /\ Rollbacks \in BOOLEAN /\ Duplicates \in BOOLEAN

VARIABLES
    pc,        \* down, collection, index, recreate, list, drop, wait, create or serving
    code,      \* the version that is booting or serving
    boots,     \* how often the process has started
    validator, \* the version whose validator the collection has; NoVersion: no collection
    index,     \* the reconciled index: none, unique or plain
    doubled,   \* do two rows share its key?
    search,    \* each search index: its definition, and whether it is on its way out
    at,        \* the search index being ensured, as a position in Kinds
    polls,     \* polls left
    degraded   \* search indexes this boot gave up on, with a warning

vars == <<pc, code, boots, validator, index, doubled, search, at, polls, degraded>>
process == <<code, boots>>
database == <<validator, index, doubled, search>>

NoVersion == 0

Declared(v) == IF Unique[v] THEN "unique" ELSE "plain"
Kind == Kinds[at]
Found == search[Kind]
Wanted == Definition[code][Kind]
Absent == [def |-> NoDefinition, leaving |-> FALSE]

Init ==
    /\ pc = "down" /\ code \in Versions /\ boots = 0
    /\ validator = NoVersion /\ index = "none" /\ doubled = FALSE
    /\ search = [k \in KindSet |-> Absent]
    /\ at = 1 /\ polls = 0 /\ degraded = {}

-----------------------------------------------------------------------------
\* The process.

Boot(v) ==
    /\ pc = "down" /\ boots < MaxBoots
    /\ Rollbacks \/ v >= code
    /\ pc' = "collection" /\ code' = v /\ boots' = boots + 1
    /\ at' = 1 /\ degraded' = {}
    /\ UNCHANGED <<database, polls>>

\* A kill, or a call outside the search index's try block that raises: lifespan
\* fails and the process ends.
Crash ==
    /\ pc # "down" /\ boots < MaxBoots
    /\ pc' = "down"
    /\ UNCHANGED <<process, database, at, polls, degraded>>

-----------------------------------------------------------------------------
\* _ensure_collection and _ensure_index.

\* create_collection with the validator, or collMod of one that is there, whatever
\* validator it has: nobody looks.
EnsureCollection ==
    /\ pc = "collection"
    /\ validator' = code /\ pc' = "index"
    /\ UNCHANGED <<process, index, doubled, search, at, polls, degraded>>

\* Slip: an index with the same key is taken for the declared one.
AnyUniqueness == index # "none"

\* index_information has an index with this key and the declared option.
IndexMatches == index = Declared(code)

\* An index with the other option is dropped first.
EnsureIndex ==
    /\ pc = "index"
    /\ IF IndexMatches
         THEN pc' = "list" /\ UNCHANGED index
         ELSE pc' = "recreate" /\ index' = "none"
    /\ UNCHANGED <<process, validator, doubled, search, at, polls, degraded>>

\* create_index; over rows that share the key a unique index is refused, and
\* the startup ends.
CreateIndex ==
    /\ pc = "recreate"
    /\ IF Unique[code] /\ doubled
         THEN pc' = "down" /\ UNCHANGED index
         ELSE pc' = "list" /\ index' = Declared(code)
    /\ UNCHANGED <<process, validator, doubled, search, at, polls, degraded>>

-----------------------------------------------------------------------------
\* _ensure_search_index, for each kind in turn.

\* Slip: one search index too many.
OnwardPastEnd ==
    IF at <= Len(Kinds) THEN pc' = "list" /\ at' = at + 1
                          ELSE pc' = "serving" /\ UNCHANGED at

\* Done with this index: on to the next one, or startup is complete.
Onward ==
    IF at < Len(Kinds) THEN pc' = "list" /\ at' = at + 1
                         ELSE pc' = "serving" /\ UNCHANGED at

\* Slip: skipped by name, whatever the definition.
MatchesByName == Found.def # NoDefinition

\* _vector_index_matches, _text_index_matches.
SearchMatches == Found.def = Wanted

\* A call raises: one warning, and startup goes on.
GiveUp == degraded' = degraded \cup {Kind} /\ Onward

\* list_search_indexes shows an index until it is gone, on its way out or not.
ListSearch ==
    /\ pc = "list"
    /\ \/ SearchMatches /\ Onward
       \/ ~SearchMatches /\ Found # Absent /\ pc' = "drop" /\ UNCHANGED at
       \/ Found = Absent /\ pc' = "create" /\ UNCHANGED at
    /\ UNCHANGED <<process, database, polls, degraded>>

\* An index that has gone since it was listed cannot be dropped.
DropSearch ==
    /\ pc = "drop"
    /\ IF Found = Absent
         THEN GiveUp /\ UNCHANGED <<search, polls>>
         ELSE /\ search' = [search EXCEPT ![Kind].leaving = TRUE]
              /\ pc' = "wait" /\ polls' = Polls
              /\ UNCHANGED <<at, degraded>>
    /\ UNCHANGED <<process, validator, index, doubled>>

\* Slip: the wait is not bounded.
WaitForever ==
    /\ pc = "wait"
    /\ pc' = IF Found = Absent THEN "create" ELSE "wait"
    /\ UNCHANGED <<process, database, at, polls, degraded>>

\* One poll; when none is left, the create is tried all the same.
WaitAbsent ==
    /\ pc = "wait"
    /\ IF Found = Absent \/ polls = 0
         THEN pc' = "create" /\ UNCHANGED polls
         ELSE polls' = polls - 1 /\ UNCHANGED pc
    /\ UNCHANGED <<process, database, at, degraded>>

\* A create under a name that is still taken is rejected.
CreateSearch ==
    /\ pc = "create"
    /\ IF Found = Absent
         THEN /\ search' = [search EXCEPT ![Kind] = [def |-> Wanted, leaving |-> FALSE]]
              /\ Onward /\ UNCHANGED degraded
         ELSE GiveUp /\ UNCHANGED search
    /\ UNCHANGED <<process, validator, index, doubled, polls>>

\* Any of these calls raises, on a server without Atlas Search each of them.
SearchRaises ==
    /\ pc \in {"list", "drop", "wait", "create"}
    /\ GiveUp
    /\ UNCHANGED <<process, database, polls>>

-----------------------------------------------------------------------------
\* Outside: Atlas completes a drop; rows come to share a key, as when a sync is
\* cut short between two chunk_index updates, and no longer share it.

Settle(k) ==
    /\ search[k].leaving
    /\ search' = [search EXCEPT ![k] = Absent]
    /\ UNCHANGED <<pc, process, validator, index, doubled, at, polls, degraded>>

Double ==
    /\ Duplicates /\ pc = "serving" /\ index = "plain"
    /\ doubled' = ~doubled
    /\ UNCHANGED <<pc, process, validator, index, search, at, polls, degraded>>

Startup ==
    \/ EnsureCollection \/ EnsureIndex \/ CreateIndex
    \/ ListSearch \/ DropSearch \/ WaitAbsent \/ CreateSearch

Next ==
    \/ \E v \in Versions : Boot(v)
    \/ Crash \/ Startup \/ SearchRaises
    \/ \E k \in DOMAIN search : Settle(k)
    \/ Double

Spec == Init /\ [][Next]_vars

\* The restart policy boots again, and a startup goes on.  Nothing need raise,
\* and Atlas may take for ever.
FairSpec ==
    /\ Spec
    /\ WF_vars(\E v \in Versions : Boot(v)) /\ WF_vars(Startup)

-----------------------------------------------------------------------------
(* Properties *)

\* Every variable keeps its type, and only an index that is there is on its way
\* out.
TypeOK ==
    /\ pc \in {"down", "collection", "index", "recreate", "list", "drop", "wait",
               "create", "serving"}
    /\ code \in Versions /\ boots \in 0..MaxBoots
    /\ validator \in Versions \cup {NoVersion} /\ index \in {"none", "unique", "plain"} /\ doubled \in BOOLEAN
    /\ DOMAIN search = KindSet
    /\ \A k \in KindSet :
          /\ search[k] \in [def : {NoDefinition} \cup {Definition[v][k] : v \in Versions},
                            leaving : BOOLEAN]
          /\ search[k].leaving => search[k].def # NoDefinition
    /\ at \in DOMAIN Kinds /\ polls \in 0..Polls
    /\ degraded \subseteq KindSet

\* A process that serves has its own version's validator and index in force,
\* whichever version ran before and wherever it was killed, between the drop and the
\* create included; and while a unique index is, no two rows share its key.
IndexAsDeclared ==
    /\ pc = "serving" => validator = code /\ index = Declared(code)
    /\ index = "unique" => ~doubled

\* What mongodb.py:216-219 promises of a search index: where the startup logged
\* no warning, it has the declared definition and stays.  As long as no older
\* version is booted, and no version declares again what another has replaced:
\* the index they find and keep may be on its way out.
SearchAsDeclared ==
    pc = "serving" =>
        \A k \in DOMAIN search \ degraded :
            search[k] = [def |-> Definition[code][k], leaving |-> FALSE]

\* Startup never hangs on a drop that does not complete (mongodb.py:161-163):
\* in the end the process serves.  As long as no version makes unique an index
\* whose rows have come to share a key.
EndsServing == <>[](pc = "serving")

=============================================================================
