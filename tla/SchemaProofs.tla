----------------------------- MODULE SchemaProofs -----------------------------
(***************************************************************************)
(* What a startup leaves in force, for every sequence of versions, any     *)
(* number of search indexes and boots, wherever a boot was killed.         *)
(***************************************************************************)
EXTENDS SchemaSetup, TLAPS

-----------------------------------------------------------------------------
(* Types. *)

SearchType(k) ==
    [def : {NoDefinition} \cup {Definition[v][k] : v \in Versions}, leaving : BOOLEAN]

\* There is always a search index at hand while they are being ensured.
LEMMA KindType == ASSUME TypeOK PROVE Kind \in KindSet /\ Found \in SearchType(Kind)
BY DEF TypeOK, Kind, KindSet, Found, SearchType

\* Startup begins with the first search index.
LEMMA FirstKind == 1 \in DOMAIN Kinds /\ DOMAIN Kinds = 1..Len(Kinds) /\ Len(Kinds) \in Nat
BY Parameters

\* The types hold before the first boot.
LEMMA InitTypeOK == Init => TypeOK
<1>1. 0 \in 0..MaxBoots /\ 0 \in 0..Polls
  BY Parameters
<1>2. \A k \in KindSet : Absent \in SearchType(k) /\ ~Absent.leaving
  BY DEF Absent, SearchType
<1> QED
  BY <1>1, <1>2, FirstKind DEF Init, TypeOK, SearchType

\* A step on to the next search index stays within them.
LEMMA OnwardType ==
    ASSUME TypeOK, Onward
    PROVE  pc' \in {"list", "serving"} /\ at' \in DOMAIN Kinds
BY FirstKind DEF TypeOK, Onward

\* Each action keeps the types.
LEMMA NextTypeOK == TypeOK /\ [Next]_vars => TypeOK'
<1> SUFFICES ASSUME TypeOK, [Next]_vars PROVE TypeOK'
  OBVIOUS
<1> USE Parameters DEF process, database
<1>0. /\ Kind \in KindSet /\ Found \in SearchType(Kind)
      /\ Wanted \in {Definition[v][Kind] : v \in Versions}
      /\ Onward => pc' \in {"list", "serving"} /\ at' \in DOMAIN Kinds
  BY KindType, OnwardType DEF Wanted, TypeOK
\* A step that changes one search index.
<1>s. ASSUME NEW k \in KindSet, NEW new \in SearchType(k),
             new.leaving => new.def # NoDefinition,
             search' = [search EXCEPT ![k] = new]
      PROVE  /\ DOMAIN search' = KindSet
             /\ \A x \in KindSet : /\ search'[x] \in SearchType(x)
                                   /\ search'[x].leaving => search'[x].def # NoDefinition
  BY <1>s DEF TypeOK, SearchType
<1>1. ASSUME NEW v \in Versions, Boot(v) PROVE TypeOK'
  BY <1>1, FirstKind DEF Boot, TypeOK
<1>2. CASE Crash \/ EnsureCollection \/ EnsureIndex \/ CreateIndex
  BY <1>2 DEF Crash, EnsureCollection, EnsureIndex, CreateIndex, Declared, TypeOK
<1>3. CASE ListSearch \/ SearchRaises
  <2>1. /\ UNCHANGED <<code, boots, validator, index, doubled, search, polls>>
        /\ pc' \in {"list", "serving", "drop", "create"} /\ at' \in DOMAIN Kinds
        /\ degraded' = degraded \/ degraded' = degraded \cup {Kind}
    BY <1>0, <1>3 DEF ListSearch, SearchRaises, GiveUp, TypeOK
  <2> QED
    BY <1>0, <2>1 DEF TypeOK
<1>4. CASE DropSearch
  <2>1. CASE Found = Absent
    BY <1>0, <1>4, <2>1 DEF DropSearch, GiveUp, TypeOK
  <2>2. CASE Found # Absent
    <3> DEFINE new == [Found EXCEPT !.leaving = TRUE]
    <3>1. new \in SearchType(Kind) /\ new.def # NoDefinition
      BY <1>0, <2>2 DEF SearchType, Absent, Found, TypeOK
    <3>2. search' = [search EXCEPT ![Kind] = new]
      BY <1>4, <2>2 DEF DropSearch, Found
    <3>3. /\ UNCHANGED <<code, boots, validator, index, doubled, at, degraded>>
          /\ pc' = "wait" /\ polls' = Polls
      BY <1>4, <2>2 DEF DropSearch
    <3> HIDE DEF new
    <3> QED
      BY <1>0, <1>s, <3>1, <3>2, <3>3 DEF TypeOK, SearchType
  <2> QED
    BY <2>1, <2>2
<1>5. CASE WaitAbsent
  BY <1>5 DEF WaitAbsent, TypeOK
<1>6. CASE CreateSearch
  <2>1. CASE Found = Absent
    <3> DEFINE new == [def |-> Wanted, leaving |-> FALSE]
    <3>1. new \in SearchType(Kind) /\ ~new.leaving
      BY <1>0 DEF SearchType
    <3>2. search' = [search EXCEPT ![Kind] = new]
      BY <1>6, <2>1 DEF CreateSearch
    <3>3. /\ UNCHANGED <<code, boots, validator, index, doubled, polls, degraded>> /\ Onward
      BY <1>6, <2>1 DEF CreateSearch
    <3> HIDE DEF new
    <3> QED
      BY <1>0, <1>s, <3>1, <3>2, <3>3 DEF TypeOK, SearchType
  <2>2. CASE Found # Absent
    BY <1>0, <1>6, <2>2 DEF CreateSearch, GiveUp, TypeOK
  <2> QED
    BY <2>1, <2>2
<1>7. ASSUME NEW k \in DOMAIN search, Settle(k) PROVE TypeOK'
  <2>1. Absent \in SearchType(k) /\ ~Absent.leaving /\ k \in KindSet
    BY <1>7 DEF Absent, SearchType, TypeOK
  <2> QED
    BY <1>7, <1>s, <2>1 DEF Settle, TypeOK, SearchType
<1>8. CASE Double
  BY <1>8 DEF Double, TypeOK
<1>9. CASE UNCHANGED vars
  BY <1>9 DEF vars, TypeOK
<1> QED
  BY <1>1, <1>2, <1>3, <1>4, <1>5, <1>6, <1>7, <1>8, <1>9 DEF Next, Startup

\* The process, the database and the search indexes keep their types, and only
\* an index that is there is on its way out.
THEOREM TypeCorrect == Spec => []TypeOK
<1>1. TypeOK /\ [Next]_vars => TypeOK'
  BY NextTypeOK
<1> QED
  BY <1>1, InitTypeOK, PTL DEF Spec

-----------------------------------------------------------------------------
(* The reconciled index.  Once _ensure_index is past it has the declared
   option, and nothing but the next boot's _ensure_index touches it. *)

Ensuring == {"list", "drop", "wait", "create", "serving"}

IndexInv ==
    /\ pc \in Ensuring => index = Declared(code)
    /\ pc \notin {"down", "collection"} => validator = code
    /\ index = "unique" => ~doubled

\* There is no index before the first boot.
LEMMA InitIndex == Init => IndexInv
BY DEF Init, IndexInv, Ensuring

\* Each action leaves the declared index in force from there on.
LEMMA NextIndex == TypeOK /\ IndexInv /\ [Next]_vars => IndexInv'
<1> SUFFICES ASSUME TypeOK, IndexInv, [Next]_vars PROVE IndexInv'
  OBVIOUS
<1> USE DEF process, database, IndexInv
<1>1. ASSUME NEW v \in Versions, Boot(v) PROVE IndexInv'
  BY <1>1 DEF Boot, Ensuring
<1>2. CASE Crash \/ EnsureCollection
  BY <1>2 DEF Crash, EnsureCollection, Ensuring
<1>3. CASE EnsureIndex
  BY <1>3 DEF EnsureIndex, IndexMatches, Declared, Ensuring
<1>4. CASE CreateIndex
  BY <1>4 DEF CreateIndex, Declared, Ensuring
<1>5. CASE ListSearch \/ DropSearch \/ WaitAbsent \/ CreateSearch \/ SearchRaises
  <2>1. UNCHANGED <<code, validator, index, doubled>> /\ pc \in Ensuring /\ pc' \in Ensuring
    BY <1>5 DEF ListSearch, DropSearch, WaitAbsent, CreateSearch, SearchRaises, GiveUp,
       Onward, Ensuring
  <2> QED
    BY <2>1 DEF Declared, Ensuring
<1>6. ASSUME NEW k \in DOMAIN search, Settle(k) PROVE IndexInv'
  BY <1>6 DEF Settle, Declared
<1>7. CASE Double
  BY <1>7 DEF Double, Declared
<1>8. CASE UNCHANGED vars
  BY <1>8 DEF vars, Declared
<1> QED
  BY <1>1, <1>2, <1>3, <1>4, <1>5, <1>6, <1>7, <1>8 DEF Next, Startup

\* A process that serves has the declared validator and index, whichever versions ran before,
\* in whatever order, and wherever they were killed.
THEOREM DeclaredIndexInForce == Spec => []IndexAsDeclared
<1>1. TypeOK /\ IndexInv /\ [Next]_vars => TypeOK' /\ IndexInv'
  BY NextTypeOK, NextIndex
<1>2. IndexInv => IndexAsDeclared
  BY DEF IndexInv, IndexAsDeclared, Ensuring
<1> QED
  BY <1>1, <1>2, InitTypeOK, InitIndex, PTL DEF Spec

-----------------------------------------------------------------------------
(* The search indexes.  The startup skips an index whose definition it finds
   to its liking, on its way out or not.  What makes that right is that no
   version is followed by one that declares what it has dropped. *)

ReleasesOnly ==
    /\ ~Rollbacks
    /\ \A k \in KindSet : \A u, v, w \in Versions :
          u <= v /\ v <= w /\ Definition[u][k] = Definition[w][k]
              => Definition[v][k] = Definition[u][k]

\* The definition of an index is one that a version up to this one declared.
FromEarlier ==
    \A k \in KindSet : search[k].def # NoDefinition =>
        \E u \in Versions : u <= code /\ search[k].def = Definition[u][k]

\* An index on its way out was dropped by a later version that declares another.
DroppedSince ==
    \A k \in KindSet : search[k].leaving =>
        \E u, v \in Versions :
            u <= v /\ v <= code /\ search[k].def = Definition[u][k]
            /\ Definition[v][k] # Definition[u][k]

\* What is about to be dropped is not what this version declares.
DropsUnwanted == pc = "drop" => Found = Absent \/ Found.def # Wanted

Ensured(i) ==
    Kinds[i] \notin degraded =>
        search[Kinds[i]] = [def |-> Definition[code][Kinds[i]], leaving |-> FALSE]

\* How far the startup has got.
InOrder ==
    /\ pc \in {"collection", "index", "recreate"} => at = 1
    /\ pc \in Ensuring => \A i \in DOMAIN Kinds : i < at => Ensured(i)
    /\ pc = "serving" => \A i \in DOMAIN Kinds : Ensured(i)

SearchInv == FromEarlier /\ DroppedSince /\ DropsUnwanted /\ InOrder

\* Before the first boot there is no search index.
LEMMA InitSearch == Init => SearchInv
BY DEF Init, SearchInv, FromEarlier, DroppedSince, DropsUnwanted, InOrder, Ensuring, Absent

\* Where an index is as declared, it stays.
LEMMA MatchStays ==
    ASSUME ReleasesOnly, TypeOK, DroppedSince, NEW k \in KindSet,
           search[k].def = Definition[code][k]
    PROVE  search[k] = [def |-> Definition[code][k], leaving |-> FALSE]
<1>1. search[k] \in SearchType(k) /\ code \in Versions /\ Versions \subseteq Nat
  BY Parameters DEF TypeOK, SearchType
<1>2. ~search[k].leaving
  BY <1>1 DEF ReleasesOnly, DroppedSince
<1> QED
  BY <1>1, <1>2 DEF SearchType

\* Going on from an index that is ensured.
LEMMA OnwardInOrder ==
    ASSUME TypeOK, Onward, \A i \in DOMAIN Kinds : i <= at => Ensured(i)'
    PROVE  InOrder' /\ pc' # "drop"
<1>1. DOMAIN Kinds = 1..Len(Kinds) /\ Len(Kinds) \in Nat /\ at \in 1..Len(Kinds)
  BY FirstKind DEF TypeOK
<1> QED
  BY <1>1 DEF Onward, InOrder

\* Each step of ensuring a search index keeps what is known of them.
LEMMA EnsureStep ==
    ASSUME ReleasesOnly, TypeOK, SearchInv,
           ListSearch \/ DropSearch \/ WaitAbsent \/ CreateSearch \/ SearchRaises
    PROVE  SearchInv'
<1> USE DEF process, database
<1>0. /\ UNCHANGED code /\ code \in Versions /\ Versions \subseteq Nat
      /\ Kind \in KindSet /\ Found \in SearchType(Kind) /\ DOMAIN search = KindSet
      /\ \A k \in KindSet : search[k] \in SearchType(k)
      /\ DOMAIN Kinds = 1..Len(Kinds) /\ Len(Kinds) \in Nat /\ at \in 1..Len(Kinds)
      /\ \A i \in DOMAIN Kinds : Kinds[i] \in KindSet /\ (Kinds[i] = Kind => i = at)
      /\ pc \in Ensuring \ {"serving"}
  BY KindType, FirstKind, Parameters
     DEF ListSearch, DropSearch, WaitAbsent, CreateSearch, SearchRaises, TypeOK, Kind,
         KindSet, SearchType, Ensuring
<1>1. \A i \in DOMAIN Kinds : i < at => Ensured(i)
  BY <1>0 DEF SearchInv, InOrder
\* The index at hand is given up.
<1>2. ASSUME GiveUp, UNCHANGED search PROVE SearchInv'
  <2>1. \A i \in DOMAIN Kinds : i <= at => Ensured(i)'
    BY <1>0, <1>1, <1>2 DEF GiveUp, Ensured, Kind
  <2>2. InOrder' /\ pc' # "drop"
    BY <1>2, <2>1, OnwardInOrder DEF GiveUp
  <2> QED
    BY <1>0, <1>2, <2>2 DEF SearchInv, FromEarlier, DroppedSince, DropsUnwanted
\* The startup stays with it.
<1>3. ASSUME UNCHANGED <<search, at, degraded>>, pc' \in {"drop", "wait", "create"},
             pc' = "drop" => Found.def # Wanted
      PROVE  SearchInv'
  <2>1. InOrder'
    BY <1>0, <1>1, <1>3 DEF InOrder, Ensured
  <2> QED
    BY <1>0, <1>3, <2>1
       DEF SearchInv, FromEarlier, DroppedSince, DropsUnwanted, Found, Wanted, Kind
<1>4. CASE ListSearch
  <2>1. CASE SearchMatches /\ Onward
    <3>1. UNCHANGED <<code, search, degraded>>
      BY <1>4 DEF ListSearch
    <3>2. Found = [def |-> Wanted, leaving |-> FALSE]
      BY <1>0, <2>1, MatchStays DEF SearchMatches, SearchInv, Found, Wanted
    <3>3. ASSUME NEW i \in DOMAIN Kinds, i <= at PROVE Ensured(i)'
      <4>1. CASE i < at
        BY <1>1, <3>1, <4>1 DEF Ensured
      <4>2. CASE i = at
        BY <3>1, <3>2, <4>2 DEF Ensured, Found, Wanted, Kind
      <4> QED
        BY <1>0, <3>3, <4>1, <4>2
    <3>4. InOrder' /\ pc' # "drop"
      BY <2>1, <3>3, OnwardInOrder
    <3> QED
      BY <3>1, <3>4 DEF SearchInv, FromEarlier, DroppedSince, DropsUnwanted
  <2>2. CASE ~(SearchMatches /\ Onward)
    BY <1>3, <1>4, <2>2 DEF ListSearch, SearchMatches
  <2> QED
    BY <2>1, <2>2
<1>5. CASE DropSearch
  <2>1. CASE Found = Absent
    BY <1>2, <1>5, <2>1 DEF DropSearch
  <2>2. CASE Found # Absent
    <3>1. /\ UNCHANGED <<at, degraded>> /\ pc' = "wait"
          /\ search' = [search EXCEPT ![Kind].leaving = TRUE]
          /\ Found.def # Wanted
      BY <1>5, <2>2 DEF DropSearch, SearchInv, DropsUnwanted
    <3>2. /\ search'[Kind].def = Found.def
          /\ \A k \in KindSet \ {Kind} : search'[k] = search[k]
      BY <1>0, <3>1 DEF Found, SearchType
    <3>3. Found.def # NoDefinition
      BY <1>0, <2>2 DEF SearchType, Absent, TypeOK, Found
    <3>4. FromEarlier'
      BY <1>0, <3>2 DEF SearchInv, FromEarlier, Found
    <3>5. DroppedSince'
      <4>1. PICK u \in Versions : u <= code /\ Found.def = Definition[u][Kind]
        BY <1>0, <3>3 DEF SearchInv, FromEarlier, Found
      <4>2. u <= code /\ code <= code /\ Definition[code][Kind] # Definition[u][Kind]
        BY <1>0, <3>1, <4>1 DEF Wanted
      <4> QED
        BY <1>0, <3>2, <4>1, <4>2 DEF SearchInv, DroppedSince
    <3>6. InOrder'
      BY <1>0, <1>1, <3>1, <3>2 DEF InOrder, Ensured
    <3> QED
      BY <3>1, <3>4, <3>5, <3>6 DEF SearchInv, DropsUnwanted
  <2> QED
    BY <2>1, <2>2
<1>6. CASE WaitAbsent
  BY <1>3, <1>6 DEF WaitAbsent
<1>7. CASE CreateSearch
  <2>1. CASE Found = Absent
    <3>1. /\ UNCHANGED degraded /\ Onward
          /\ search' = [search EXCEPT ![Kind] = [def |-> Wanted, leaving |-> FALSE]]
      BY <1>7, <2>1 DEF CreateSearch
    <3>2. /\ search'[Kind] = [def |-> Definition[code][Kind], leaving |-> FALSE]
          /\ \A k \in KindSet \ {Kind} : search'[k] = search[k]
      BY <1>0, <3>1 DEF Wanted
    <3>3. ASSUME NEW i \in DOMAIN Kinds, i <= at PROVE Ensured(i)'
      <4>1. CASE i < at
        BY <1>0, <1>1, <3>1, <3>2, <4>1 DEF Ensured
      <4>2. CASE i = at
        BY <1>0, <3>2, <4>2 DEF Ensured, Kind
      <4> QED
        BY <1>0, <3>3, <4>1, <4>2
    <3>4. InOrder' /\ pc' # "drop"
      BY <3>1, <3>3, OnwardInOrder
    <3>5. FromEarlier' /\ DroppedSince'
      BY <1>0, <3>2 DEF SearchInv, FromEarlier, DroppedSince
    <3> QED
      BY <3>4, <3>5 DEF SearchInv, DropsUnwanted
  <2>2. CASE Found # Absent
    BY <1>2, <1>7, <2>2 DEF CreateSearch
  <2> QED
    BY <2>1, <2>2
<1>8. CASE SearchRaises
  BY <1>2, <1>8 DEF SearchRaises
<1> QED
  BY <1>4, <1>5, <1>6, <1>7, <1>8

\* So does every other action.
LEMMA NextSearch ==
    ASSUME ReleasesOnly, TypeOK, SearchInv, [Next]_vars
    PROVE  SearchInv'
<1> USE DEF process, database
<1>0. /\ code \in Versions /\ Versions \subseteq Nat /\ DOMAIN search = KindSet
      /\ DOMAIN Kinds = 1..Len(Kinds) /\ Len(Kinds) \in Nat /\ at \in 1..Len(Kinds)
      /\ \A i \in DOMAIN Kinds : Kinds[i] \in KindSet
  BY FirstKind, Parameters DEF TypeOK, KindSet
<1>1. ASSUME NEW v \in Versions, Boot(v) PROVE SearchInv'
  <2>1. /\ code' = v /\ code <= v /\ pc' = "collection" /\ at' = 1 /\ UNCHANGED search
    BY <1>1 DEF Boot, ReleasesOnly
  <2>2. FromEarlier' /\ DroppedSince'
    BY <1>0, <2>1 DEF SearchInv, FromEarlier, DroppedSince
  <2> QED
    BY <2>1, <2>2 DEF SearchInv, DropsUnwanted, InOrder, Ensuring
<1>2. CASE Crash \/ EnsureCollection \/ EnsureIndex \/ CreateIndex
  <2>1. /\ UNCHANGED <<code, search, at>>
        /\ \/ pc' = "down"
           \/ at = 1 /\ pc' \in {"index", "recreate", "list"}
    BY <1>2 DEF Crash, EnsureCollection, EnsureIndex, CreateIndex, SearchInv, InOrder
  <2>2. InOrder'
    BY <1>0, <2>1 DEF InOrder, Ensuring
  <2> QED
    BY <2>1, <2>2 DEF SearchInv, FromEarlier, DroppedSince, DropsUnwanted
<1>3. CASE ListSearch \/ DropSearch \/ WaitAbsent \/ CreateSearch \/ SearchRaises
  BY <1>3, EnsureStep
\* What settles was on its way out, and so was not ensured.
<1>4. ASSUME NEW k \in DOMAIN search, Settle(k) PROVE SearchInv'
  <2>1. /\ search[k].leaving /\ k \in KindSet
        /\ search' = [search EXCEPT ![k] = Absent]
        /\ UNCHANGED <<pc, code, at, degraded>>
    BY <1>0, <1>4 DEF Settle
  <2>2. search'[k] = Absent /\ \A x \in KindSet \ {k} : search'[x] = search[x]
    BY <1>0, <2>1
  <2>3. Absent.def = NoDefinition /\ ~Absent.leaving
    BY DEF Absent
  <2>4. FromEarlier' /\ DroppedSince'
    BY <2>1, <2>2, <2>3 DEF SearchInv, FromEarlier, DroppedSince
  <2>5. \A i \in DOMAIN Kinds : Ensured(i) => Ensured(i)'
    BY <1>0, <2>1, <2>2 DEF Ensured
  <2>6. InOrder'
    BY <2>1, <2>5 DEF SearchInv, InOrder
  <2>7. DropsUnwanted'
    BY <1>0, <2>1, <2>2 DEF SearchInv, DropsUnwanted, Found, Wanted, Kind
  <2> QED
    BY <2>4, <2>6, <2>7 DEF SearchInv
<1>5. CASE Double \/ UNCHANGED vars
  <2>1. UNCHANGED <<pc, code, search, at, degraded>>
    BY <1>5 DEF Double, vars
  <2> QED
    BY <2>1 DEF SearchInv, FromEarlier, DroppedSince, DropsUnwanted, InOrder, Ensured,
       Found, Wanted, Kind
<1> QED
  BY <1>1, <1>2, <1>3, <1>4, <1>5 DEF Next, Startup

\* A search index the startup logged no warning about has the declared
\* definition and stays, whatever Atlas is still dropping: where boots follow the
\* order of release and no version declares again what another has replaced.
THEOREM DeclaredSearchInForce ==
    ASSUME ReleasesOnly
    PROVE  Spec => []SearchAsDeclared
<1>1. TypeOK /\ SearchInv /\ [Next]_vars => TypeOK' /\ SearchInv'
  BY NextTypeOK, NextSearch
<1>2. TypeOK /\ SearchInv => SearchAsDeclared
  BY DEF SearchInv, InOrder, Ensured, SearchAsDeclared, TypeOK, KindSet
<1> QED
  BY <1>1, <1>2, InitTypeOK, InitSearch, PTL DEF Spec
=============================================================================
