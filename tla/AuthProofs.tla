----------------------------- MODULE AuthProofs -----------------------------
(***************************************************************************)
(* What holds of AuthSessions for any number of requests in flight, any    *)
(* lives of the tokens, and behaviours of any length.                      *)
(***************************************************************************)
EXTENDS AuthSessions, FiniteSetTheorems, TLAPS

-----------------------------------------------------------------------------
(* Types. *)

HandlerType ==
    [pc : {"free", "login", "user", "refuse", "rotate", "insert", "check", "accepted",
           "deny"},
     access : Ids \cup {0}, refresh : Ids \cup {0}, late : BOOLEAN]

\* Where a handler has a refresh token of the request in hand, and an access
\* token.
Refreshing == {"user", "refuse", "rotate", "insert"}
Bearing == {"check", "accepted", "deny"}

\* The tokens in a handler's hands were issued.
Fits(v) ==
    /\ v \in HandlerType
    /\ v.pc \in Refreshing \cup Bearing => v.refresh \in Issued
    /\ v.pc \in Bearing => v.access \in Issued

\* Pairs are numbered as they are issued, and expire at some time.
Numbered == \E n \in Nat : Issued = 1..n
Dated == \A t \in Issued : pairs[t].refresh \in Nat /\ pairs[t].access \in Nat

Base == TypeOK /\ Numbered /\ Dated /\ \A x \in Handlers : Fits(h[x])

\* Nothing is wrong before the first request.
LEMMA InitBase == Init => Base
<1> SUFFICES ASSUME Init PROVE Base
  OBVIOUS
<1> USE Parameters DEF Init, Issued, Ids
<1>1. Numbered
  <2>1. 0 \in Nat /\ 1..0 = {}
    OBVIOUS
  <2> QED
    BY <2>1 DEF Numbered
<1>2. Dated
  BY DEF Dated
<1>3. TypeOK /\ \A x \in Handlers : Fits(h[x])
  BY DEF TypeOK, Fits, HandlerType, Free, Refreshing, Bearing
<1> QED
  BY <1>1, <1>2, <1>3 DEF Base

\* What issuing a pair does to the pairs and the rows: a new number joins both,
\* with its dates, and nothing else changes.
Issues(t) ==
    /\ t \in Ids \ Issued
    /\ Issued' = Issued \cup {t} /\ DOMAIN rows' = DOMAIN rows \cup {t}
    /\ pairs'[t].refresh = now + RefreshLife /\ pairs'[t].access = now + AccessLife
    /\ rows'[t] = now + RefreshLife
    /\ \A s \in Issued \ {t} : pairs'[s] = pairs[s]
    /\ \A s \in DOMAIN rows \ {t} : rows'[s] = rows[s]

\* A mint issues the next pair, under a number that was free.
LEMMA MintIssues ==
    ASSUME Base, Mint
    PROVE  Numbered' /\ \E t \in Ids : Issues(t)
<1> USE Parameters
<1>1. PICK n \in Nat : Issued = 1..n
  BY DEF Base, Numbered
<1>2. Cardinality(Issued) = n
  BY <1>1, FS_Interval
<1> DEFINE t == n + 1
<1>3. t \in Ids \ Issued /\ Issued \cup {t} = 1..t
  BY <1>1, <1>2 DEF Mint, Ids
<1>4. /\ pairs' = With(pairs, t, [refresh |-> now + RefreshLife,
                                 access |-> now + AccessLife])
      /\ rows' = With(rows, t, now + RefreshLife)
  BY <1>2 DEF Mint
<1>5. Issued' = Issued \cup {t}
  BY <1>4 DEF With, Issued
<1>6. Issues(t)
  BY <1>3, <1>4, <1>5 DEF Issues, With, Issued
<1>7. Numbered'
  <2>1. t \in Nat /\ Issued' = 1..t
    BY <1>3, <1>5
  <2> QED
    BY <2>1 DEF Numbered
<1> QED
  BY <1>6, <1>7, <1>3

-----------------------------------------------------------------------------
(* The handlers. *)

\* A handler that moves on keeps its tokens.
LEMMA GotoFits ==
    ASSUME NEW x \in Handlers, Fits(h[x]), NEW pc \in Refreshing \cup Bearing,
           h[x].pc \in Refreshing \/ h[x].pc \in Bearing,
           pc \in Bearing => h[x].pc \in Bearing
    PROVE  Fits([h[x] EXCEPT !.pc = pc])
BY DEF Fits, HandlerType, Refreshing, Bearing

\* A handler that has answered holds nothing.
LEMMA FreeFits == Fits(Free)
BY DEF Fits, Free, HandlerType, Refreshing, Bearing

\* Every step of a handler leaves it with tokens that were issued.
LEMMA HandleFits ==
    ASSUME Base, NEW x \in Handlers, Handle(x)
    PROVE  \E v : Fits(v) /\ h' = [h EXCEPT ![x] = v]
<1> USE DEF Refreshing, Bearing
<1>1. Fits(h[x]) /\ h[x] \in HandlerType
  BY DEF Base, Fits
<1>2. CASE Answer(x)
  BY <1>2, FreeFits DEF Answer
<1>3. CASE Login(x)
  <2>1. Fits([h[x] EXCEPT !.pc = "login"])
    BY <1>1 DEF Fits, HandlerType
  <2> QED
    BY <1>3, <2>1 DEF Login, Goto
<1>4. ASSUME NEW t \in Issued, Verify(x, t)
      PROVE  \E v : Fits(v) /\ h' = [h EXCEPT ![x] = v]
  <2>1. Fits([pc |-> "user", access |-> 0, refresh |-> t, late |-> account # "active"])
    BY DEF Fits, HandlerType, Base, TypeOK
  <2> QED
    BY <1>4, <2>1 DEF Verify
<1>5. ASSUME NEW a \in Issued, NEW t \in Issued, Decode(x, a, t)
      PROVE  \E v : Fits(v) /\ h' = [h EXCEPT ![x] = v]
  <2>1. Fits([pc |-> "check", access |-> a, refresh |-> t, late |-> a \in out])
    BY DEF Fits, HandlerType, Base, TypeOK
  <2> QED
    BY <1>5, <2>1 DEF Decode
<1>6. CASE ReadUser(x) \/ RotateDelete(x)
  <2>1. PICK pc \in Refreshing : Goto(x, pc)
    BY <1>6 DEF ReadUser, RotateDelete
  <2> QED
    BY <1>1, <1>6, <2>1, GotoFits DEF ReadUser, RotateDelete, At, Goto
<1>7. CASE CheckDenied(x) \/ LogoutDelete(x)
  <2>1. Answer(x) \/ \E pc \in Bearing : Goto(x, pc)
    BY <1>7 DEF CheckDenied, LogoutDelete
  <2> QED
    BY <1>1, <1>2, <1>7, <2>1, GotoFits DEF CheckDenied, LogoutDelete, At, Goto
<1> QED
  BY <1>2, <1>3, <1>4, <1>5, <1>6, <1>7
     DEF Handle, LoginInsert, Refuse, RotateInsert, Serve, LogoutDeny, Drop

-----------------------------------------------------------------------------
(* The collections. *)

\* What a step may do to the pairs and the refresh tokens: issue a pair, delete
\* the token of a handler, purge an expired one, or nothing.
Deletes(t) ==
    /\ rows' = Without(rows, t) /\ spent' = spent \cup {t}
    /\ UNCHANGED <<pairs, swaps>>
Purges(t) ==
    /\ t \in DOMAIN rows /\ rows[t] <= now
    /\ rows' = Without(rows, t) /\ UNCHANGED <<pairs, spent, swaps>>
Exchanges(x) ==
    At(x, "insert") /\ swaps' = [swaps EXCEPT ![h[x].refresh] = @ + 1]
Effect ==
    \/ UNCHANGED <<rows, pairs, spent, swaps>>
    \/ /\ Mint /\ UNCHANGED spent
       /\ UNCHANGED swaps \/ \E x \in Handlers : Exchanges(x)
    \/ \E t \in Issued : Deletes(t) \/ Purges(t)

\* No step does more to pairs and rows than Effect says.
LEMMA NextEffect == ASSUME Base, Next \/ UNCHANGED vars PROVE Effect
<1> USE DEF Effect, history
<1>1. ASSUME NEW x \in Handlers, Handle(x) PROVE Effect
  <2>1. Fits(h[x])
    BY DEF Base
  <2>2. CASE Refuse(x) \/ RotateDelete(x) \/ LogoutDelete(x)
    BY <2>1, <2>2 DEF Refuse, RotateDelete, LogoutDelete, At, Fits, Refreshing, Bearing,
       Deletes
  <2>3. CASE LoginInsert(x)
    BY <2>3 DEF LoginInsert
  <2>4. CASE RotateInsert(x)
    BY <2>4 DEF RotateInsert, Exchanges
  <2> QED
    BY <1>1, <2>2, <2>3, <2>4 DEF Handle, Login, Verify, ReadUser, Decode, CheckDenied,
       Serve, LogoutDeny, Drop
<1>2. CASE Register \/ Deactivate \/ Tick
  BY <1>2 DEF Register, Deactivate, Tick
<1>3. ASSUME NEW t \in Issued, PurgeRefresh(t) PROVE Effect
  BY <1>3 DEF PurgeRefresh, Purges
<1>4. ASSUME NEW t \in Issued, PurgeDenied(t) PROVE Effect
  BY <1>4 DEF PurgeDenied
<1>5. CASE UNCHANGED vars
  BY <1>5 DEF vars
<1> QED
  BY <1>1, <1>2, <1>3, <1>4, <1>5 DEF Next

\* Pairs and rows keep their types.
RowsTyped ==
    /\ Issued \subseteq Ids /\ DOMAIN rows \subseteq Issued
    /\ \A t \in DOMAIN rows : rows[t] = pairs[t].refresh
    /\ spent \subseteq Issued /\ swaps \in [Ids -> Nat]

\* That keeps the types of pairs and rows, and no pair is taken back or changed.
LEMMA EffectTypes ==
    ASSUME Base, Effect
    PROVE  /\ RowsTyped' /\ Numbered' /\ Dated'
           /\ Issued \subseteq Issued' /\ \A t \in Issued : pairs'[t] = pairs[t]
<1> DEFINE Keeps == Issued \subseteq Issued' /\ \A t \in Issued : pairs'[t] = pairs[t]
           Goal == RowsTyped' /\ Numbered' /\ Dated' /\ Keeps
<1> USE DEF Base, TypeOK, RowsTyped, Issued, Numbered, Dated
<1>1. CASE UNCHANGED <<rows, pairs, spent, swaps>>
  BY <1>1
<1>2. CASE /\ Mint /\ UNCHANGED spent
           /\ UNCHANGED swaps \/ \E x \in Handlers : Exchanges(x)
  <2>1. Numbered' /\ \E t \in Ids : Issues(t)
    BY <1>2, MintIssues
  <2>2. PICK t \in Ids : Issues(t)
    BY <2>1
  <2>3. now + RefreshLife \in Nat /\ now + AccessLife \in Nat
    BY Parameters
  <2>4. Dated' /\ Keeps
    BY <2>2, <2>3 DEF Issues
  <2>5. swaps' \in [Ids -> Nat]
    BY <1>2 DEF Exchanges
  <2>6. RowsTyped'
    BY <1>2, <2>2, <2>5 DEF Issues
  <2> QED
    BY <2>1, <2>4, <2>6
<1>3. ASSUME NEW t \in Issued, Deletes(t) \/ Purges(t) PROVE Goal
  BY <1>3 DEF Deletes, Purges, Without
<1> QED
  BY <1>1, <1>2, <1>3 DEF Effect

\* So do the clock, the account, the denylist and the answered logouts.
RestTyped ==
    /\ now \in 0..MaxTime /\ account \in {"none", "active", "inactive"}
    /\ DOMAIN denied \subseteq Issued /\ out \subseteq Issued
    /\ \A a \in DOMAIN denied : denied[a] = pairs[a].access

\* Each step keeps the types of everything else.
LEMMA RestTypes ==
    ASSUME Base, Next \/ UNCHANGED vars,
           Issued \subseteq Issued', \A t \in Issued : pairs'[t] = pairs[t]
    PROVE  RestTyped'
<1> USE DEF Base, TypeOK, RestTyped, history
<1>1. CASE UNCHANGED <<now, account, denied, out>>
  BY <1>1
<1>2. ASSUME NEW x \in Handlers, LogoutDeny(x) PROVE RestTyped'
  <2>1. h[x].access \in Issued
    BY <1>2 DEF LogoutDeny, At, Fits, Bearing
  <2> QED
    BY <1>2, <2>1 DEF LogoutDeny, DenyUntil, With
<1>3. CASE Register \/ Deactivate
  BY <1>3 DEF Register, Deactivate
<1>4. CASE Tick
  BY <1>4, Parameters DEF Tick
<1>5. ASSUME NEW a \in Issued, PurgeDenied(a) PROVE RestTyped'
  BY <1>5 DEF PurgeDenied, Without
<1>6. ASSUME NEW x \in Handlers, Handle(x), ~LogoutDeny(x)
      PROVE  UNCHANGED <<now, account, denied, out>>
  BY <1>6 DEF Handle, Login, LoginInsert, Verify, ReadUser, Refuse, RotateDelete,
     RotateInsert, Decode, CheckDenied, Serve, LogoutDelete, Drop
<1> QED
  BY <1>1, <1>2, <1>3, <1>4, <1>5, <1>6 DEF Next, PurgeRefresh, vars

\* The environment moves no handler.
LEMMA NextMoves ==
    ASSUME Base, Next \/ UNCHANGED vars
    PROVE  \/ UNCHANGED h
           \/ \E x \in Handlers, v \in HandlerType :
                 Fits(v) /\ h' = [h EXCEPT ![x] = v]
BY HandleFits DEF Next, Register, Deactivate, Tick, PurgeRefresh, PurgeDenied, vars,
   history, Fits

\* Every step keeps the base of the invariants.
LEMMA NextBase == Base /\ [Next]_vars => Base'
<1> SUFFICES ASSUME Base, [Next]_vars PROVE Base'
  OBVIOUS
<1>1. Effect
  BY NextEffect
<1>2. /\ RowsTyped' /\ Numbered' /\ Dated'
      /\ Issued \subseteq Issued' /\ \A t \in Issued : pairs'[t] = pairs[t]
  BY <1>1, EffectTypes
<1>3. RestTyped'
  BY <1>2, RestTypes
<1>4. h' \in [Handlers -> HandlerType] /\ \A x \in Handlers : Fits(h[x])'
  <2>1. h \in [Handlers -> HandlerType] /\ \A x \in Handlers : Fits(h[x])
    BY DEF Base, TypeOK, HandlerType
  <2>2. CASE UNCHANGED h
    BY <1>2, <2>1, <2>2 DEF Fits
  <2>3. ASSUME NEW x \in Handlers, NEW v \in HandlerType, Fits(v),
               h' = [h EXCEPT ![x] = v]
        PROVE  h' \in [Handlers -> HandlerType] /\ \A y \in Handlers : Fits(h[y])'
    BY <1>2, <2>1, <2>3 DEF Fits
  <2> QED
    BY <2>2, <2>3, NextMoves
<1> QED
  BY <1>2, <1>3, <1>4 DEF Base, TypeOK, RowsTyped, RestTyped, HandlerType

\* Every variable keeps its type, a stored refresh token expires with the token it
\* is for, and a denylist entry with its access token.
THEOREM TypeCorrect == Spec => []TypeOK
<1>1. Base => TypeOK
  BY DEF Base
<1> QED
  BY <1>1, InitBase, NextBase, PTL DEF Spec

-----------------------------------------------------------------------------
(* Spent refresh tokens, and live ones. *)

\* A token is spent before it is exchanged, and by then it is gone.
Spending ==
    /\ spent \cap DOMAIN rows = {}
    /\ \A t \in Ids : swaps[t] > 0 => t \in spent
    /\ \A x \in Handlers : At(x, "insert") => h[x].refresh \in spent

\* No step brings a spent token back.
LEMMA NextSpending == Base /\ Spending /\ [Next]_vars => Spending'
<1> SUFFICES ASSUME Base, Spending, [Next]_vars PROVE Spending'
  OBVIOUS
<1> USE DEF Spending, Base, TypeOK
<1>1. Effect
  BY NextEffect
<1>2. spent \subseteq spent'
  BY <1>1 DEF Effect, Deletes, Purges
<1>3. spent' \cap DOMAIN rows' = {}
  <2>1. CASE Mint /\ UNCHANGED spent
    <3>1. PICK t \in Ids : Issues(t)
      BY <2>1, MintIssues
    <3> QED
      BY <2>1, <3>1 DEF Issues
  <2> QED
    BY <1>1, <2>1 DEF Effect, Deletes, Purges, Without
<1>4. \A t \in Ids : swaps'[t] > 0 => t \in spent'
  BY <1>1, <1>2 DEF Effect, Deletes, Purges, Exchanges
<1>5. \A x \in Handlers : h'[x].pc = "insert" => h'[x].refresh \in spent'
  <2>1. ASSUME NEW y \in Handlers, Handle(y), NEW x \in Handlers, h'[x].pc = "insert"
        PROVE  h'[x] = h[x] \/ (RotateDelete(y) /\ x = y)
    <3>1. PICK v : Fits(v) /\ h' = [h EXCEPT ![y] = v]
      BY <2>1, HandleFits
    <3>2. h'[y] = v /\ \A z \in Handlers \ {y} : h'[z] = h[z]
      BY <3>1
    <3>3. CASE Answer(y)
      BY <2>1, <3>2, <3>3 DEF Answer, Free
    <3>4. ASSUME NEW pc, Goto(y, pc), pc # "insert" PROVE h'[y].pc # "insert"
      BY <3>4 DEF Goto
    <3>5. CASE Login(y) \/ ReadUser(y) \/ CheckDenied(y) \/ LogoutDelete(y)
      BY <2>1, <3>2, <3>3, <3>4, <3>5 DEF Login, ReadUser, CheckDenied, LogoutDelete
    <3>6. ASSUME \/ \E t \in Issued : Verify(y, t)
                 \/ \E a \in Issued, t \in Issued : Decode(y, a, t)
          PROVE  h'[y].pc # "insert"
      BY <3>6 DEF Verify, Decode
    <3> QED
      BY <2>1, <3>2, <3>3, <3>5, <3>6 DEF Handle, LoginInsert, Refuse, RotateInsert,
         Serve, LogoutDeny, Drop
  <2>2. ASSUME NEW y \in Handlers, RotateDelete(y)
        PROVE  h'[y].refresh \in spent'
    BY <2>2 DEF RotateDelete, Goto
  <2>3. CASE UNCHANGED h
    BY <1>2, <2>3 DEF At
  <2> QED
    BY <1>2, <2>1, <2>2, <2>3 DEF At, Next, Register, Deactivate, Tick, PurgeRefresh,
       PurgeDenied, vars, history
<1> QED
  BY <1>3, <1>4, <1>5 DEF At

\* A refresh token that was exchanged, refused or logged out is in the collection
\* no more, whatever requests interleave and wherever a crash cuts them short.
THEOREM SpentIsGone == Spec => []SpentBuysNothing
<1>1. Init => Base /\ Spending
  BY InitBase DEF Init, Spending, Ids, At, Free
<1>2. Base /\ Spending /\ [Next]_vars => Base' /\ Spending'
  BY NextBase, NextSpending
<1>3. Spending => SpentBuysNothing
  BY DEF Spending, SpentBuysNothing
<1> QED
  BY <1>1, <1>2, <1>3, PTL DEF Spec

\* The clock does not go back.
LEMMA TimeGoesOn == ASSUME Base, [Next]_vars PROVE now \in Nat /\ now' \in {now, now + 1}
BY Parameters DEF Base, TypeOK, Next, Handle, Login, LoginInsert, Verify, ReadUser,
   Refuse, RotateDelete, RotateInsert, Decode, CheckDenied, Serve, LogoutDelete,
   LogoutDeny, Drop, Register, Deactivate, Tick, PurgeRefresh, PurgeDenied, vars, history

\* No step takes a token that is alive and unspent.
LEMMA NextLive == Base /\ LiveTokenStays /\ [Next]_vars => LiveTokenStays'
<1> SUFFICES ASSUME Base, LiveTokenStays, [Next]_vars PROVE LiveTokenStays'
  OBVIOUS
<1> USE DEF Base, TypeOK, Dated, LiveTokenStays
<1>1. Effect
  BY NextEffect
<1>2. /\ \A t \in Issued : pairs'[t] = pairs[t]
      /\ \A t \in Issued : pairs[t].refresh <= now => pairs'[t].refresh <= now'
  BY <1>1, EffectTypes, TimeGoesOn
<1>3. CASE UNCHANGED <<rows, pairs, spent, swaps>>
  BY <1>2, <1>3 DEF Issued
<1>4. CASE Mint /\ UNCHANGED spent
  <2>1. PICK t \in Ids : Issues(t)
    BY <1>4, MintIssues
  <2> QED
    BY <1>2, <1>4, <2>1 DEF Issues
<1>5. ASSUME NEW t \in Issued, Deletes(t) PROVE LiveTokenStays'
  BY <1>2, <1>5 DEF Deletes, Without, Issued
<1>6. ASSUME NEW t \in Issued, Purges(t) PROVE LiveTokenStays'
  <2>1. pairs[t].refresh <= now
    BY <1>6 DEF Purges
  <2> QED
    BY <1>2, <1>6, <2>1 DEF Purges, Without, Issued
<1> QED
  BY <1>1, <1>3, <1>4, <1>5, <1>6 DEF Effect

\* A refresh token that no handler spent is in the collection until it expires:
\* no rotation of another token and no purge takes it.
THEOREM LiveTokensStay == Spec => []LiveTokenStays
<1>1. Init => LiveTokenStays
  BY DEF Init, Issued, LiveTokenStays
<1>2. Base /\ LiveTokenStays /\ [Next]_vars => LiveTokenStays'
  BY NextLive
<1> QED
  BY <1>1, <1>2, InitBase, NextBase, PTL DEF Spec

-----------------------------------------------------------------------------
(* Inactive accounts, and logout. *)

\* A handler is moved by its own steps only.
LEMMA OwnStep ==
    ASSUME Base, [Next]_vars, NEW x \in Handlers
    PROVE  h'[x] = h[x] \/ Handle(x)
<1>1. ASSUME NEW y \in Handlers, Handle(y), y # x PROVE h'[x] = h[x]
  BY <1>1, HandleFits DEF Base, TypeOK
<1> QED
  BY <1>1 DEF Next, Register, Deactivate, Tick, PurgeRefresh, PurgeDenied, vars, history

\* What a step of its own may make of a handler.
Becomes(x) ==
    \/ h'[x].pc \in {"free", "login"}
    \/ /\ h'[x].pc = "user"
       /\ h'[x].late = (account # "active") /\ UNCHANGED account /\ Issued # {}
    \/ /\ At(x, "user") /\ h'[x].late = h[x].late
       /\ IF account = "active" THEN h'[x].pc = "rotate" ELSE h'[x].pc = "refuse"
    \/ At(x, "rotate") /\ h'[x].pc = "insert" /\ h'[x].late = h[x].late
    \/ /\ h'[x].pc = "check" /\ h'[x].late = (h'[x].access \in out)
       /\ UNCHANGED out /\ Issued # {}
    \/ /\ At(x, "check") /\ h'[x].pc = "accepted" /\ UNCHANGED <<now, pairs, out>>
       /\ h'[x].late = h[x].late /\ h'[x].access = h[x].access
       /\ h[x].access \notin DOMAIN denied
    \/ /\ At(x, "accepted") /\ h'[x].pc = "deny"
       /\ h'[x].late = h[x].late /\ h'[x].access = h[x].access
       /\ UNCHANGED <<now, pairs, out>>

\* Each step of a handler is one of these.
LEMMA HandleBecomes == ASSUME Base, NEW x \in Handlers, Handle(x) PROVE Becomes(x)
<1> USE DEF Becomes
<1>1. h \in [Handlers -> HandlerType]
  BY DEF Base, TypeOK, HandlerType
<1>2. CASE Answer(x)
  BY <1>1, <1>2 DEF Answer, Free
<1>3. ASSUME NEW pc, Goto(x, pc)
      PROVE  /\ h'[x].pc = pc /\ h'[x].late = h[x].late /\ h'[x].access = h[x].access
  BY <1>1, <1>3 DEF Goto, HandlerType
<1>4. CASE Login(x) \/ ReadUser(x) \/ RotateDelete(x)
  BY <1>3, <1>4 DEF Login, ReadUser, RotateDelete
<1>5. CASE CheckDenied(x) \/ LogoutDelete(x)
  BY <1>2, <1>3, <1>5 DEF CheckDenied, LogoutDelete, history
<1>6. ASSUME NEW t \in Issued, Verify(x, t) PROVE Becomes(x)
  BY <1>1, <1>6 DEF Verify
<1>7. ASSUME NEW a \in Issued, NEW t \in Issued, Decode(x, a, t) PROVE Becomes(x)
  BY <1>1, <1>7 DEF Decode, history
<1> QED
  BY <1>2, <1>4, <1>5, <1>6, <1>7 DEF Handle, LoginInsert, Refuse, RotateInsert, Serve,
     LogoutDeny, Drop

\* A late refresh that still has to read its account will find it inactive: there
\* is no token to refresh before an account is registered, and none is reactivated.
Late ==
    /\ account = "none" => Issued = {} /\ \A x \in Handlers : At(x, "free")
    /\ \A x \in Handlers : At(x, "user") /\ h[x].late => account = "inactive"
    /\ InactiveMintsNothing

\* Each step keeps what is known of refreshes that began too late.
LEMMA NextLate == Base /\ Late /\ [Next]_vars => Late'
<1> SUFFICES ASSUME Base, Late, [Next]_vars PROVE Late'
  OBVIOUS
<1>1. account \in {"none", "active", "inactive"}
  BY DEF Base, TypeOK
<1>2. CASE account = "none"
  <2>1. \A x \in Handlers : ~Handle(x)
    BY <1>2 DEF Late, Handle, Login, LoginInsert, Verify, ReadUser, Refuse, RotateDelete,
       RotateInsert, Decode, CheckDenied, Serve, LogoutDelete, LogoutDeny, Drop, At
  <2>2. UNCHANGED <<h, pairs>>
    BY <2>1 DEF Next, Register, Deactivate, Tick, PurgeRefresh, PurgeDenied, vars
  <2> QED
    BY <1>2, <2>2 DEF Late, At, InactiveMintsNothing, Issued
<1>3. CASE account # "none"
  <2>1. \/ UNCHANGED account
        \/ account = "active" /\ account' = "inactive"
    BY <1>3 DEF Next, Handle, Login, LoginInsert, Verify, ReadUser, Refuse, RotateDelete,
       RotateInsert, Decode, CheckDenied, Serve, LogoutDelete, LogoutDeny, Drop,
       Register, Deactivate, Tick, PurgeRefresh, PurgeDenied, vars
  <2>2. ASSUME NEW x \in Handlers
        PROVE  /\ h'[x].pc = "user" /\ h'[x].late => account' = "inactive"
               /\ h'[x].pc \in {"rotate", "insert"} => ~h'[x].late
    <3>1. CASE h'[x] = h[x]
      BY <2>1, <3>1 DEF Late, At, InactiveMintsNothing
    <3>2. CASE Becomes(x)
      BY <1>1, <1>3, <3>2 DEF Becomes, Late, At, InactiveMintsNothing
    <3> QED
      BY <3>1, <3>2, OwnStep, HandleBecomes
  <2> QED
    BY <1>3, <2>1, <2>2 DEF Late, At, InactiveMintsNothing
<1> QED
  BY <1>2, <1>3

\* An account that is inactive when a refresh begins gets no new pair from it.
THEOREM InactiveGetsNothing == Spec => []InactiveMintsNothing
<1>1. Init => Late
  BY DEF Init, Late, Issued, At, Free, InactiveMintsNothing
<1>2. Late => InactiveMintsNothing
  BY DEF Late
<1> QED
  BY <1>1, <1>2, InitBase, NextBase, NextLate, PTL DEF Spec

\* A logged-out access token is denied for as long as it lasts.
LoggedOut ==
    /\ \A a \in out : a \in DOMAIN denied \/ pairs[a].access <= now
    /\ \A x \in Handlers : h[x].pc \in Bearing /\ h[x].late => h[x].access \in out
    /\ LoggedOutStaysOut

\* Nothing takes a logged-out token off the denylist before it expires.
LEMMA NextDenied ==
    ASSUME Base, LoggedOut, [Next]_vars,
           Issued \subseteq Issued', \A t \in Issued : pairs'[t] = pairs[t]
    PROVE  /\ out \subseteq out'
           /\ \A a \in out' : a \in DOMAIN denied' \/ pairs'[a].access <= now'
<1> USE DEF LoggedOut, Base, TypeOK, Dated, history
<1>1. \A a \in Issued : pairs[a].access <= now => pairs'[a].access <= now'
  BY TimeGoesOn
<1>2. CASE UNCHANGED <<denied, out>>
  BY <1>1, <1>2
<1>3. ASSUME NEW x \in Handlers, LogoutDeny(x)
      PROVE  /\ out \subseteq out' /\ DOMAIN denied \subseteq DOMAIN denied'
             /\ \A a \in out' \ out : a \in DOMAIN denied'
  BY <1>3 DEF LogoutDeny, With
<1>4. ASSUME NEW b \in Issued, PurgeDenied(b)
      PROVE  /\ UNCHANGED out /\ pairs[b].access <= now
             /\ DOMAIN denied' = DOMAIN denied \ {b}
  BY <1>4 DEF PurgeDenied, Without
<1>5. \/ UNCHANGED <<denied, out>>
      \/ \E x \in Handlers : LogoutDeny(x)
      \/ \E b \in Issued : PurgeDenied(b)
  BY DEF Next, Handle, Login, LoginInsert, Verify, ReadUser, Refuse, RotateDelete,
     RotateInsert, Decode, CheckDenied, Serve, LogoutDelete, Drop, Register, Deactivate,
     Tick, PurgeRefresh, vars
<1> QED
  BY <1>1, <1>2, <1>3, <1>4, <1>5

\* Each step keeps what a logout rests on.
LEMMA NextLoggedOut == Base /\ LoggedOut /\ [Next]_vars => LoggedOut'
<1> SUFFICES ASSUME Base, LoggedOut, [Next]_vars PROVE LoggedOut'
  OBVIOUS
<1>1. Issued \subseteq Issued' /\ \A t \in Issued : pairs'[t] = pairs[t]
  BY NextEffect, EffectTypes
<1>2. /\ out \subseteq out'
      /\ \A a \in out' : a \in DOMAIN denied' \/ pairs'[a].access <= now'
  BY <1>1, NextDenied
<1>3. \A a \in Issued : pairs[a].access <= now => pairs'[a].access <= now'
  BY <1>1, TimeGoesOn DEF Base, Dated
<1>4. ASSUME NEW x \in Handlers
      PROVE  /\ h'[x].pc \in Bearing /\ h'[x].late => h'[x].access \in out'
             /\ h'[x].pc \in {"accepted", "deny"} /\ h'[x].late
                  => pairs'[h'[x].access].access <= now'
  <2>1. h[x].pc \in Bearing => h[x].access \in Issued
    BY DEF Base, Fits
  <2>2. CASE h'[x] = h[x]
    BY <1>2, <1>3, <2>1, <2>2 DEF LoggedOut, LoggedOutStaysOut, Bearing
  <2>3. CASE Becomes(x)
    BY <1>2, <1>3, <2>1, <2>3 DEF Becomes, LoggedOut, LoggedOutStaysOut, Bearing, At
  <2> QED
    BY <2>2, <2>3, OwnStep, HandleBecomes
<1>5. \A x \in Handlers : h'[x].pc \in Bearing => pairs'[h'[x].access].access \in Nat
  BY NextBase DEF Base, Fits, Dated
<1> QED
  BY <1>2, <1>4, <1>5, TimeGoesOn DEF LoggedOut, LoggedOutStaysOut, Bearing

\* An access token whose logout was answered is accepted from no request that
\* comes later: the denylist entry is there until the token itself expires.
THEOREM LogoutHolds == Spec => []LoggedOutStaysOut
<1>1. Init => LoggedOut
  BY DEF Init, LoggedOut, LoggedOutStaysOut, Free, Bearing
<1>2. LoggedOut => LoggedOutStaysOut
  BY DEF LoggedOut
<1> QED
  BY <1>1, <1>2, InitBase, NextBase, NextLoggedOut, PTL DEF Spec

=============================================================================
