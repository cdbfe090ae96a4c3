------------------------------ MODULE Sessions ------------------------------
(***************************************************************************)
(* Refresh-token sessions of one user (modules/auth/router.py): a login    *)
(* starts a family of auth_sessions rows, a refresh rotates the family's   *)
(* newest row and adds its successor, and five kinds of request revoke a   *)
(* family or all of them with one UPDATE.                                  *)
(*                                                                         *)
(* Requests are PostgreSQL transactions at READ COMMITTED.  What they have *)
(* not committed is invisible; a row another transaction has locked is     *)
(* waited for and then read again; but an UPDATE visits only the rows that *)
(* were committed when the statement began.  A blocked request is simply   *)
(* one whose next action is disabled.                                      *)
(***************************************************************************)
EXTENDS Integers, FiniteSets

CONSTANTS
    Families,    \* session families (family_id)
    Requests,    \* requests in flight
    NoRequest,
    Kinds,       \* the endpoints in use
    MaxRows      \* bound: rows of one family

ASSUME SessionsAssumption ==
    /\ NoRequest \notin Requests
    /\ Kinds \subseteq {"refresh", "logout", "revoke_session", "revoke_all",
                       "reset_password"}
    /\ MaxRows \in Nat \ {0}

\* A row is <<f, g>>, the g-th refresh token of family f.
Rows == Families \X (1 .. MaxRows)

\* The UPDATE of these endpoints has the predicate revoked_at IS NULL.
UnrevokedOnly == {"logout", "revoke_all"}

VARIABLES
    count,     \* count[f]: committed rows of f
    rotated,   \* rows with rotated_at
    revoked,   \* rows with revoked_at
    expired,   \* families whose expires_at has passed
    active,    \* users.is_active
    lock,      \* lock[r]: the request whose transaction has locked row r
    pc,        \* pc[q]: what request q does next
    kind,      \* kind[q]: which endpoint it runs
    scope,     \* scope[q]: the families its UPDATE is about
    todo,      \* todo[q]: rows its UPDATE has still to lock
    ended,     \* <<k, f>>: a request of kind k that revoked f has committed
    missed,    \* history: missed[q]: families rotated while the UPDATE of q ran
    raced      \* history: families whose last revocation had missed a rotation

request == <<pc, kind, scope, todo>>
race == <<missed, raced>>
vars == <<count, rotated, revoked, expired, active, lock, request, ended, race>>

Committed == {r \in Rows : r[2] <= count[r[1]]}

\* The rows that let current_principal accept an access token of family f.
Live(f) ==
    {r \in Committed : r[1] = f /\ r \notin rotated /\ r \notin revoked}

Mine(q) == {r \in Rows : lock[r] = q}

Init ==
    /\ count = [f \in Families |-> 0]
    /\ rotated = {}
    /\ revoked = {}
    /\ expired = {}
    /\ active = TRUE
    /\ lock = [r \in Rows |-> NoRequest]
    /\ pc = [q \in Requests |-> "idle"]
    /\ kind = [q \in Requests |-> "none"]
    /\ scope = [q \in Requests |-> {}]
    /\ todo = [q \in Requests |-> {}]
    /\ ended = {}
    /\ missed = [q \in Requests |-> {}]
    /\ raced = {}

\* Plausible bug: the session of a request is not closed when it ends.
DoneKeepingLocks(q) ==
    /\ pc' = [pc EXCEPT ![q] = "idle"]
    /\ kind' = [kind EXCEPT ![q] = "none"]
    /\ scope' = [scope EXCEPT ![q] = {}]
    /\ todo' = [todo EXCEPT ![q] = {}]
    /\ UNCHANGED lock

\* The transaction of q ends and its row locks are released.
Done(q) ==
    /\ pc' = [pc EXCEPT ![q] = "idle"]
    /\ kind' = [kind EXCEPT ![q] = "none"]
    /\ scope' = [scope EXCEPT ![q] = {}]
    /\ todo' = [todo EXCEPT ![q] = {}]
    /\ lock' = [r \in Rows |-> IF lock[r] = q THEN NoRequest ELSE lock[r]]

\* The next statement of q is an UPDATE that revokes the families fs.
WillRevoke(q, k, fs) ==
    /\ pc' = [pc EXCEPT ![q] = "update"]
    /\ kind' = [kind EXCEPT ![q] = k]
    /\ scope' = [scope EXCEPT ![q] = fs]
    /\ UNCHANGED todo

-----------------------------------------------------------------------------
\* login: the password is right and the user active; a new family.
Login(f) ==
    /\ active
    /\ count[f] = 0
    /\ count' = [count EXCEPT ![f] = 1]
    /\ UNCHANGED <<rotated, revoked, expired, active, lock, request, ended, race>>

\* Time passes the expires_at that all rows of a family share.
Expire(f) ==
    /\ count[f] > 0
    /\ f \notin expired
    /\ expired' = expired \cup {f}
    /\ UNCHANGED <<count, rotated, revoked, active, lock, request, ended, race>>

\* An operator deactivates or reactivates the user (no endpoint does).
SetActive ==
    /\ active' = ~active
    /\ UNCHANGED <<count, rotated, revoked, expired, lock, request, ended, race>>

-----------------------------------------------------------------------------
\* Plausible bug: refresh accepts a revoked row.
RefreshUsableRevoked(q, r) ==
    /\ pc[q] = "idle"
    /\ r \in Committed
    /\ lock[r] = NoRequest
    /\ r \notin rotated /\ r[1] \notin expired
    /\ count[r[1]] < MaxRows
    /\ lock' = [lock EXCEPT ![r] = q]
    /\ pc' = [pc EXCEPT ![q] = "user"]
    /\ kind' = [kind EXCEPT ![q] = "refresh"]
    /\ UNCHANGED <<count, rotated, revoked, expired, active, scope, todo, ended, race>>

\* Plausible bug: refresh does not look at expires_at.
RefreshUsableExpired(q, r) ==
    /\ pc[q] = "idle"
    /\ r \in Committed
    /\ lock[r] = NoRequest
    /\ r \notin rotated /\ r \notin revoked
    /\ count[r[1]] < MaxRows
    /\ lock' = [lock EXCEPT ![r] = q]
    /\ pc' = [pc EXCEPT ![q] = "user"]
    /\ kind' = [kind EXCEPT ![q] = "refresh"]
    /\ UNCHANGED <<count, rotated, revoked, expired, active, scope, todo, ended, race>>

\* refresh: SELECT ... FOR UPDATE of the presented row waits for its lock and
\* then sees the row's newest version.  A row that is not rotated, but
\* revoked or expired, is refused and nothing is written.
RefreshUsable(q, r) ==
    /\ pc[q] = "idle"
    /\ r \in Committed
    /\ lock[r] = NoRequest
    /\ r \notin rotated /\ r \notin revoked /\ r[1] \notin expired
    /\ count[r[1]] < MaxRows
    /\ lock' = [lock EXCEPT ![r] = q]
    /\ pc' = [pc EXCEPT ![q] = "user"]
    /\ kind' = [kind EXCEPT ![q] = "refresh"]
    /\ UNCHANGED <<count, rotated, revoked, expired, active, scope, todo, ended, race>>

\* refresh: the presented row was rotated before, which revokes the family.
RefreshReused(q, r) ==
    /\ pc[q] = "idle"
    /\ r \in Committed
    /\ lock[r] = NoRequest
    /\ r \in rotated
    /\ lock' = [lock EXCEPT ![r] = q]
    /\ WillRevoke(q, "refresh", {r[1]})
    /\ UNCHANGED <<count, rotated, revoked, expired, active, ended, race>>

\* refresh: db.get(User) in the same transaction.
RefreshUser(q) ==
    /\ pc[q] = "user"
    /\ \/ /\ active
          /\ pc' = [pc EXCEPT ![q] = "rotate"]
          /\ UNCHANGED <<kind, scope, todo>>
       \/ /\ ~active
          /\ WillRevoke(q, "refresh", {r[1] : r \in Mine(q)})
    /\ UNCHANGED <<count, rotated, revoked, expired, active, lock, ended, race>>

\* Plausible bug: the successor commits and rotated_at does not.
RefreshCommitUnrotated(q, r) ==
    /\ pc[q] = "rotate"
    /\ r \in Mine(q)
    /\ count' = [count EXCEPT ![r[1]] = @ + 1]
    /\ Done(q)
    /\ UNCHANGED <<rotated, revoked, expired, active, ended, race>>

\* refresh: rotated_at is set, the successor row inserted, and both commit.
RefreshCommit(q, r) ==
    /\ pc[q] = "rotate"
    /\ r \in Mine(q)
    /\ rotated' = rotated \cup {r}
    /\ count' = [count EXCEPT ![r[1]] = @ + 1]
    /\ missed' = [u \in Requests |-> IF pc[u] = "updating" /\ r[1] \in scope[u]
                                    THEN missed[u] \cup {r[1]} ELSE missed[u]]
    /\ Done(q)
    /\ UNCHANGED <<revoked, expired, active, ended, raced>>

-----------------------------------------------------------------------------
\* The families a request of kind k may be about.  logout revokes the family
\* its own access token names; revoke_session any family of the user;
\* reset_password needs a token from an email and no session.
Authorised(k, fs) ==
    \/ k = "logout" /\ \E f \in Families : fs = {f} /\ Live(f) # {}
    \/ k = "revoke_session" /\ \E f \in Families : fs = {f} /\ \E g \in Families : Live(g) # {}
    \/ k = "revoke_all" /\ fs = Families /\ \E g \in Families : Live(g) # {}
    \/ k = "reset_password" /\ fs = Families

\* current_principal (or the one-time token) lets the request in.
Authenticate(q, k, fs) ==
    /\ pc[q] = "idle"
    /\ k \in Kinds \ {"refresh"}
    /\ Authorised(k, fs)
    /\ active \/ k = "reset_password"
    /\ WillRevoke(q, k, fs)
    /\ UNCHANGED <<count, rotated, revoked, expired, active, lock, ended, race>>

\* Plausible bug: the UPDATE goes by the row of the login, not by the family.
UpdateRowsOfLogin(q) == {r \in Committed : r[1] \in scope[q] /\ r[2] = 1}

\* The rows the UPDATE visits: those committed when it begins that satisfy
\* its WHERE clause.
UpdateRows(q) ==
    {r \in Committed :
        r[1] \in scope[q] /\ (kind[q] \in UnrevokedOnly => r \notin revoked)}

UpdateBegin(q) ==
    /\ pc[q] = "update"
    /\ pc' = [pc EXCEPT ![q] = "updating"]
    /\ todo' = [todo EXCEPT ![q] = UpdateRows(q)]
    /\ scope' = [scope EXCEPT ![q] = {f \in @ : count[f] > 0}]
    /\ UNCHANGED <<count, rotated, revoked, expired, active, lock, kind, ended, race>>

\* The UPDATE gets the lock of one more row, and looks at its newest version.
UpdateLock(q, r) ==
    /\ pc[q] = "updating"
    /\ r \in todo[q]
    /\ lock[r] \in {NoRequest, q}
    /\ todo' = [todo EXCEPT ![q] = @ \ {r}]
    /\ lock' = [lock EXCEPT ![r] =
                   IF kind[q] \in UnrevokedOnly /\ r \in revoked THEN @ ELSE q]
    /\ UNCHANGED <<count, rotated, revoked, expired, active, pc, kind, scope, ended, race>>

UpdateCommit(q) ==
    /\ pc[q] = "updating"
    /\ todo[q] = {}
    /\ revoked' = revoked \cup Mine(q)
    /\ ended' = ended \cup {<<kind[q], f>> : f \in scope[q]}
    /\ raced' = (raced \ scope[q]) \cup missed[q]
    /\ missed' = [missed EXCEPT ![q] = {}]
    /\ Done(q)
    /\ UNCHANGED <<count, rotated, expired, active>>

-----------------------------------------------------------------------------
WaitsFor(q, u) == q # u /\ pc[q] = "updating" /\ \E r \in todo[q] : lock[r] = u

\* Two reuse detections in one family each hold the row they were given and
\* want the other's: PostgreSQL aborts one of them.
DeadlockVictim(q) ==
    /\ \E S \in SUBSET Requests :
           /\ q \in S
           /\ \A u \in S : /\ \E v \in S : WaitsFor(u, v)
                         /\ \E v \in S : WaitsFor(v, u)
    /\ missed' = [missed EXCEPT ![q] = {}]
    /\ Done(q)
    /\ UNCHANGED <<count, rotated, revoked, expired, active, ended, raced>>

\* The client or the database goes away before the commit.
Rollback(q) ==
    /\ pc[q] # "idle"
    /\ missed' = [missed EXCEPT ![q] = {}]
    /\ Done(q)
    /\ UNCHANGED <<count, rotated, revoked, expired, active, ended, raced>>

\* The steps of a request once it has begun.
Proceed(q) ==
    \/ RefreshUser(q)
    \/ \E r \in Rows : RefreshCommit(q, r) \/ UpdateLock(q, r)
    \/ UpdateBegin(q)
    \/ UpdateCommit(q)

Next ==
    \/ \E f \in Families : Login(f) \/ Expire(f)
    \/ SetActive
    \/ \E q \in Requests :
           \/ \E r \in Rows : RefreshUsable(q, r) \/ RefreshReused(q, r)
           \/ \E k \in Kinds, fs \in SUBSET Families : Authenticate(q, k, fs)
           \/ Proceed(q)
           \/ DeadlockVictim(q)
           \/ Rollback(q)

\* The server runs every request on, PostgreSQL grants row locks in the order
\* they were asked for (hence strong fairness: a waiting UPDATE is not passed
\* over for ever) and its deadlock detector resolves every cycle.  Nobody has
\* to send a request or to lose one.
Fairness ==
    \A q \in Requests : SF_vars(Proceed(q)) /\ WF_vars(DeadlockVictim(q))

Spec == Init /\ [][Next]_vars /\ Fairness

-----------------------------------------------------------------------------
\* The variables hold values of their types, and only a request in progress
\* has rows locked.
TypeOK ==
    /\ count \in [Families -> 0 .. MaxRows]
    /\ rotated \in SUBSET Rows
    /\ revoked \in SUBSET Rows
    /\ expired \in SUBSET Families
    /\ active \in BOOLEAN
    /\ lock \in [Rows -> Requests \cup {NoRequest}]
    /\ pc \in [Requests -> {"idle", "user", "rotate", "update", "updating"}]
    /\ kind \in [Requests -> Kinds \cup {"refresh", "none"}]
    /\ scope \in [Requests -> SUBSET Families]
    /\ todo \in [Requests -> SUBSET Rows]
    /\ ended \in SUBSET ((Kinds \cup {"refresh"}) \X Families)
    /\ missed \in [Requests -> SUBSET Families]
    /\ raced \in SUBSET Families
    /\ \A r \in Rows : lock[r] = NoRequest \/ pc[lock[r]] # "idle"

\* Exactly one row of a family is not rotated, its newest one, however many
\* refreshes of the same token race (refresh locks the row it was given).
\* current_principal relies on it: a second such row would make its
\* scalar_one_or_none raise.
OneTip ==
    \A f \in Families : \A g \in 1 .. count[f] :
        <<f, g>> \in rotated <=> g < count[f]

\* A family that was revoked stays dead, unless a refresh of it committed
\* while the last UPDATE that revoked it ran: then the successor row, which the
\* UPDATE could not see, is the only one that survives, until the next
\* revocation that is not raced.
SurvivorsWereRaced ==
    \A k \in Kinds \cup {"refresh"}, f \in Families :
        <<k, f>> \in ended /\ Live(f) # {} => f \in raced /\ count[f] > 1

\* No request touches a family it is not about: a row is revoked only if a
\* request about its family has committed.  "Current logout revokes only the
\* JWT's session, while global logout revokes all families."
RevokedOnRequest ==
    \A r \in revoked : \E k \in Kinds \cup {"refresh"} : <<k, r[1]>> \in ended

\* The generations of the rows of family f in a set of rows.
Generations(f, rows) == {g \in 1 .. MaxRows : <<f, g>> \in rows}

Spent == [f \in Families |-> Generations(f, rotated)]
Cut == [f \in Families |-> Generations(f, revoked)]

\* The families of which a refresh has accepted a token, whose row it has
\* locked, and has not answered yet.
InExchange ==
    {f \in Families : \E q \in Requests, r \in Rows :
        pc[q] \in {"user", "rotate"} /\ lock[r] = q /\ r[1] = f}

Chain == INSTANCE SessionChain WITH
    issued <- count,
    spent <- Spent,
    cut <- Cut,
    over <- expired,
    inExchange <- InExchange

\* The sessions implement chains of tokens: whatever requests race, whoever is
\* lost or chosen as a victim, a credential is its family's first or is issued
\* in exchange for the newest one, which was accepted while it was neither
\* revoked nor expired and is still not revoked; and the revocations that have
\* committed are together a cut of the family, although an UPDATE locks its
\* rows one by one and misses those that appear meanwhile.
ChainSpec == Chain!Spec

\* Every request comes to an end, with an answer or as a deadlock victim:
\* row locks are never left behind.
EveryRequestEnds == \A q \in Requests : pc[q] # "idle" ~> pc[q] = "idle"

\* "reuse revokes the entire logical session. Current logout revokes only the
\* JWT's session, while global logout revokes all families"
\* (docs/architecture.md:5): once a request that revokes a family has been
\* answered, nothing of the family is usable.
RevocationEndsSession ==
    \A k \in Kinds \cup {"refresh"}, f \in Families :
        <<k, f>> \in ended => Live(f) = {}
=============================================================================
