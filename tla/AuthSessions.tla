---------------------------- MODULE AuthSessions ----------------------------
(***************************************************************************)
(* The credentials of one account: registration, login, refresh with       *)
(* rotation, logout with the denylist, and the use of an access token, as  *)
(* request handlers that interleave at every database call; MongoDB's TTL  *)
(* purge; time; and a crash that drops every handler.  Passwords, hashes and signatures are *)
(* taken to be right: a token is the number of the pair it was issued in.  *)
(***************************************************************************)
EXTENDS Naturals, FiniteSets

CONSTANTS
    Handlers,     \* requests that may be in flight together
    AccessLife,   \* access_token_expire_minutes
    RefreshLife,  \* refresh_token_expire_days
    MaxPairs,     \* bound: token pairs issued in one behaviour
    MaxTime       \* bound: clock ticks in one behaviour

ASSUME Parameters == {AccessLife, RefreshLife, MaxPairs, MaxTime} \subseteq Nat

VARIABLES
    now,
    account,  \* the row in users: "none", or by its is_active
    rows,     \* refresh_tokens: pair -> expires_at
    denied,   \* revoked_tokens: pair -> expires_at
    pairs,    \* the pairs issued: pair -> [refresh, access] expiry
    h,        \* the handlers
    spent,    \* history: refresh tokens a handler deleted
    swaps,    \* history: pairs each refresh token was exchanged for
    out       \* history: pairs whose logout was answered

vars == <<now, account, rows, denied, pairs, h, spent, swaps, out>>
history == <<spent, swaps, out>>

Ids == 1..MaxPairs
Issued == DOMAIN pairs
\* `access` and `refresh` are the tokens of the request; `late` is whether the
\* token was logged out, or the account inactive, when the handler began.
Free == [pc |-> "free", access |-> 0, refresh |-> 0, late |-> FALSE]

Init ==
    /\ now = 0 /\ account = "none"
    /\ rows = [t \in {} |-> 0] /\ denied = [t \in {} |-> 0]
    /\ pairs = [t \in {} |-> 0]
    /\ h = [x \in Handlers |-> Free]
    /\ spent = {} /\ swaps = [t \in Ids |-> 0] /\ out = {}

Goto(x, pc) == h' = [h EXCEPT ![x].pc = pc]
Answer(x) == h' = [h EXCEPT ![x] = Free]
At(x, pc) == h[x].pc = pc
With(f, t, v) == [y \in DOMAIN f \cup {t} |-> IF y = t THEN v ELSE f[y]]
Without(f, t) == [y \in DOMAIN f \ {t} |-> f[y]]

\* Slip: the stored row expires with the access token.
MintShort ==
    LET t == Cardinality(Issued) + 1 IN
    /\ t \in Ids
    /\ pairs' = With(pairs, t, [refresh |-> now + RefreshLife, access |-> now + AccessLife])
    /\ rows' = With(rows, t, now + AccessLife)

\* create_refresh_token and create_access_token: the row is what the database
\* keeps of the pair.
Mint ==
    LET t == Cardinality(Issued) + 1 IN
    /\ t \in Ids
    /\ pairs' = With(pairs, t, [refresh |-> now + RefreshLife, access |-> now + AccessLife])
    /\ rows' = With(rows, t, now + RefreshLife)

-----------------------------------------------------------------------------
\* register and login.

\* register_user, create_user: the insert against the unique indexes.  A name
\* already taken is a 400 and changes nothing, the account's state included.
Register ==
    /\ account = "none" /\ account' = "active"
    /\ UNCHANGED <<now, rows, denied, pairs, h, history>>

\* authenticate_user: the query asks for an active account.
Login(x) ==
    /\ At(x, "free") /\ account = "active"
    /\ Goto(x, "login")
    /\ UNCHANGED <<now, account, rows, denied, pairs, history>>

LoginInsert(x) ==
    /\ At(x, "login")
    /\ Mint
    /\ Answer(x)
    /\ UNCHANGED <<now, account, denied, history>>

-----------------------------------------------------------------------------
\* refresh.

\* verify_refresh_token: expires_at is compared, whatever the purge has done.
\* A token that does not verify is a 401 and changes nothing.
Verify(x, t) ==
    /\ At(x, "free") /\ t \in DOMAIN rows /\ rows[t] > now
    /\ h' = [h EXCEPT ![x] = [pc |-> "user", access |-> 0, refresh |-> t, late |-> account # "active"]]
    /\ UNCHANGED <<now, account, rows, denied, pairs, history>>

\* Slip: only the token is checked.
ReadNobody(x) ==
    /\ At(x, "user")
    /\ Goto(x, "rotate")
    /\ UNCHANGED <<now, account, rows, denied, pairs, history>>

\* get_user_by_id: an inactive account loses the token and gets none.
ReadUser(x) ==
    /\ At(x, "user")
    /\ Goto(x, IF account = "active" THEN "rotate" ELSE "refuse")
    /\ UNCHANGED <<now, account, rows, denied, pairs, history>>

Refuse(x) ==
    /\ At(x, "refuse")
    /\ rows' = Without(rows, h[x].refresh) /\ spent' = spent \cup {h[x].refresh}
    /\ Answer(x)
    /\ UNCHANGED <<now, account, denied, pairs, swaps, out>>

\* Slip: the new pair is issued first, and the old token deleted after it.
RotateMintsFirst(x) ==
    /\ At(x, "rotate")
    /\ Mint
    /\ swaps' = [swaps EXCEPT ![h[x].refresh] = @ + 1]
    /\ Goto(x, "refuse")
    /\ UNCHANGED <<now, account, denied, spent, out>>

\* rotate_refresh_token: delete_one, whose count nobody looks at, ...
RotateDelete(x) ==
    /\ At(x, "rotate")
    /\ rows' = Without(rows, h[x].refresh) /\ spent' = spent \cup {h[x].refresh}
    /\ Goto(x, "insert")
    /\ UNCHANGED <<now, account, denied, pairs, swaps, out>>

\* ... then the new token, and an access token with it.
RotateInsert(x) ==
    /\ At(x, "insert")
    /\ Mint
    /\ swaps' = [swaps EXCEPT ![h[x].refresh] = @ + 1]
    /\ Answer(x)
    /\ UNCHANGED <<now, account, denied, spent, out>>

-----------------------------------------------------------------------------
\* get_current_user, and logout behind it.

\* jwt.decode: an expired access token is a 401.
Decode(x, a, t) ==
    /\ At(x, "free") /\ now < pairs[a].access
    /\ h' = [h EXCEPT ![x] = [pc |-> "check", access |-> a, refresh |-> t,
                              late |-> a \in out]]
    /\ UNCHANGED <<now, account, rows, denied, pairs, history>>

\* is_access_token_revoked.
CheckDenied(x) ==
    /\ At(x, "check")
    /\ IF h[x].access \in DOMAIN denied THEN Answer(x) ELSE Goto(x, "accepted")
    /\ UNCHANGED <<now, account, rows, denied, pairs, history>>

\* Any other authenticated endpoint goes on from here and touches no token.
Serve(x) ==
    /\ At(x, "accepted")
    /\ Answer(x)
    /\ UNCHANGED <<now, account, rows, denied, pairs, history>>

\* logout: revoke_refresh_token of the token in the body ...
LogoutDelete(x) ==
    /\ At(x, "accepted")
    /\ rows' = Without(rows, h[x].refresh) /\ spent' = spent \cup {h[x].refresh}
    /\ Goto(x, "deny")
    /\ UNCHANGED <<now, account, denied, pairs, swaps, out>>

\* Slips: the entry lasts as long as the refresh token, or no time at all.
DenyUntilRefreshEnds(a) == pairs[a].refresh
DenyUntilNow(a) == now

\* The entry expires with the token itself.
DenyUntil(a) == pairs[a].access

\* ... then revoke_access_token; an entry already there is left as it is.
LogoutDeny(x) ==
    LET a == h[x].access IN
    /\ At(x, "deny")
    /\ denied' = IF a \in DOMAIN denied THEN denied ELSE With(denied, a, DenyUntil(a))
    /\ out' = out \cup {a}
    /\ Answer(x)
    /\ UNCHANGED <<now, account, rows, pairs, spent, swaps>>

-----------------------------------------------------------------------------
\* The environment: an operator, the clock, MongoDB's TTL monitor, a crash.

Deactivate ==
    /\ account = "active" /\ account' = "inactive"
    /\ UNCHANGED <<now, rows, denied, pairs, h, history>>

Tick ==
    /\ now < MaxTime /\ now' = now + 1
    /\ UNCHANGED <<account, rows, denied, pairs, h, history>>

PurgeRefresh(t) ==
    /\ t \in DOMAIN rows /\ rows[t] <= now
    /\ rows' = Without(rows, t)
    /\ UNCHANGED <<now, account, denied, pairs, h, history>>

PurgeDenied(a) ==
    /\ a \in DOMAIN denied /\ denied[a] <= now
    /\ denied' = Without(denied, a)
    /\ UNCHANGED <<now, account, rows, pairs, h, history>>

\* The handler of x dies, by a crash or because a database call raised.
Drop(x) ==
    /\ ~At(x, "free")
    /\ Answer(x)
    /\ UNCHANGED <<now, account, rows, denied, pairs, history>>

Handle(x) ==
    \/ Login(x) \/ LoginInsert(x)
    \/ \E t \in Issued : Verify(x, t)
    \/ ReadUser(x) \/ Refuse(x) \/ RotateDelete(x) \/ RotateInsert(x)
    \/ \E a \in Issued, t \in Issued : Decode(x, a, t)
    \/ CheckDenied(x) \/ Serve(x) \/ LogoutDelete(x) \/ LogoutDeny(x)
    \/ Drop(x)

Next ==
    \/ \E x \in Handlers : Handle(x)
    \/ Register \/ Deactivate \/ Tick
    \/ \E t \in Issued : PurgeRefresh(t) \/ PurgeDenied(t)

Spec == Init /\ [][Next]_vars

-----------------------------------------------------------------------------
(* Properties *)

\* Every variable keeps its type, and a row expires with the token it is for.
TypeOK ==
    /\ now \in 0..MaxTime /\ account \in {"none", "active", "inactive"}
    /\ Issued \subseteq Ids
    /\ DOMAIN rows \subseteq Issued /\ DOMAIN denied \subseteq Issued
    /\ \A t \in DOMAIN rows : rows[t] = pairs[t].refresh
    /\ \A a \in DOMAIN denied : denied[a] = pairs[a].access
    /\ h \in [Handlers -> [pc : {"free", "login", "user", "refuse", "rotate", "insert",
                                 "check", "accepted", "deny"},
                           access : Ids \cup {0}, refresh : Ids \cup {0},
                           late : BOOLEAN]]
    /\ spent \subseteq Issued /\ out \subseteq Issued /\ swaps \in [Ids -> Nat]

\* A token that was logged out is not accepted from a request that comes after
\* the logout was answered (README.md:26-28): the denylist entry, purged by TTL,
\* lasts as long as the token would.  Unless it expires inside the request.
LoggedOutStaysOut ==
    \A x \in Handlers :
        h[x].pc \in {"accepted", "deny"} /\ h[x].late => now >= pairs[h[x].access].access

\* An account that is inactive when a refresh begins gets no new tokens from it
\* (README.md:29-30), however the handlers interleave.
InactiveMintsNothing ==
    \A x \in Handlers : h[x].pc \in {"rotate", "insert"} => ~h[x].late

\* A refresh token that no handler spent is in the collection until it expires:
\* neither a rotation of another token nor the TTL purge takes a live one.
LiveTokenStays ==
    \A t \in Issued : t \in DOMAIN rows \/ t \in spent \/ pairs[t].refresh <= now

\* A refresh token that was exchanged, refused or logged out is gone: a request
\* that begins later gets nothing from it, though a crash may have cut the
\* rotation in two (README.md:23-25, for requests that do not overlap).
SpentBuysNothing ==
    \A t \in Ids : t \in spent \/ swaps[t] > 0 => t \notin DOMAIN rows

-----------------------------------------------------------------------------
(* What the repository's README says, and two requests break. *)

\* README.md:23-25 "so each refresh token is single-use": it is exchanged for at
\* most one pair.
SingleUse == \A t \in Ids : swaps[t] <= 1

=============================================================================
