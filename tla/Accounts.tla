------------------------------ MODULE Accounts ------------------------------
(***************************************************************************)
(* One account, its password and its one-time tokens                       *)
(* (modules/auth/router.py): register, verify_email, resend_verification,  *)
(* request_reset, reset_password, and login as far as the password goes.   *)
(*                                                                         *)
(* Requests are PostgreSQL transactions at READ COMMITTED.  A token that   *)
(* is presented is locked (SELECT ... FOR UPDATE) to the commit; the row   *)
(* of the account is locked by whoever inserts or updates it.  Sessions    *)
(* has the row locks of the reset's UPDATE on auth_sessions; here only     *)
(* which logins that UPDATE sees matters.  A token may be presented as     *)
(* soon as it is committed, for the outbox mails it then (AtLeastOnce).    *)
(***************************************************************************)
EXTENDS Integers, FiniteSets

CONSTANTS
    Tokens,      \* bound: one-time tokens that can be issued
    Logins,      \* bound: sessions that can be opened
    Requests,    \* requests in flight
    NoRequest

ASSUME AccountsAssumption ==
    /\ NoRequest \notin Requests
    /\ IsFiniteSet(Tokens) /\ IsFiniteSet(Logins) /\ IsFiniteSet(Requests)

VARIABLES
    password,     \* 0: no account yet; then the number of passwords it had
    verified,     \* email_verified_at IS NOT NULL
    purpose,      \* purpose[t]: what token t was issued for
    used,         \* tokens with used_at
    expired,      \* tokens past expires_at
    opened,       \* opened[s]: the password that login s proved
    revoked,      \* logins whose sessions a reset has revoked
    late,         \* logins that committed after a reset had looked for sessions
    tokenLock,    \* tokenLock[t]: the request that has t FOR UPDATE
    userLock,     \* the request that has written the account's row
    req           \* req[q]: what request q is doing and has read

account == <<password, verified>>
tokens == <<purpose, used, expired>>
sessions == <<opened, revoked, late>>
vars == <<account, tokens, sessions, tokenLock, userLock, req>>

Idle == [pc |-> "idle"]

Unissued == {t \in Tokens : purpose[t] = "none"}
Unopened == {s \in Logins : opened[s] = 0}
Doing(pcs) == {q \in Requests : req[q].pc \in pcs}

Init ==
    /\ password = 0
    /\ verified = FALSE
    /\ purpose = [t \in Tokens |-> "none"]
    /\ used = {}
    /\ expired = {}
    /\ opened = [s \in Logins |-> 0]
    /\ revoked = {}
    /\ late = {}
    /\ tokenLock = [t \in Tokens |-> NoRequest]
    /\ userLock = NoRequest
    /\ req = [q \in Requests |-> Idle]

Goto(q, r) == req' = [req EXCEPT ![q] = r]

\* Plausible bug: the session of a request is not closed when it ends.
DoneKeepingLocks(q) == Goto(q, Idle) /\ UNCHANGED <<tokenLock, userLock>>

\* The transaction of q ends and its row locks are released.
Done(q) ==
    /\ Goto(q, Idle)
    /\ tokenLock' = [t \in Tokens |-> IF tokenLock[t] = q THEN NoRequest ELSE tokenLock[t]]
    /\ userLock' = IF userLock = q THEN NoRequest ELSE userLock

-----------------------------------------------------------------------------
\* A request may begin to issue a token while one is left for it.
TokenLeft == Cardinality(Unissued) > Cardinality(Doing({"register", "resend"}))

Issue(t, p) ==
    /\ t \in Unissued
    /\ purpose' = [purpose EXCEPT ![t] = p]

\* register: the flush inserts the account.  The unique index on the address
\* waits for another insertion in flight.
Register(q) ==
    /\ req[q].pc = "idle"
    /\ password = 0
    /\ userLock = NoRequest
    /\ TokenLeft
    /\ userLock' = q
    /\ Goto(q, [pc |-> "register"])
    /\ UNCHANGED <<account, tokens, sessions, tokenLock>>

\* register: the unique index refuses a second account (409), and the
\* transaction is rolled back.
RegisterRefused(q) ==
    /\ req[q].pc = "idle"
    /\ password # 0
    /\ UNCHANGED vars

\* register: the account, its verification token, the outbox and the audit
\* event commit.
RegisterCommit(q, t) ==
    /\ req[q].pc = "register"
    /\ password' = 1
    /\ Issue(t, "verify_email")
    /\ Done(q)
    /\ UNCHANGED <<verified, used, expired, sessions>>

\* resend_verification: somebody logged in asks for it, and email_verified_at
\* is read.
Resend(q) ==
    /\ req[q].pc = "idle"
    /\ \E s \in Logins : opened[s] # 0 /\ s \notin revoked
    /\ ~verified
    /\ TokenLeft
    /\ Goto(q, [pc |-> "resend"])
    /\ UNCHANGED <<account, tokens, sessions, tokenLock, userLock>>

\* resend_verification: the token and the outbox event commit.
ResendCommit(q, t) ==
    /\ req[q].pc = "resend"
    /\ Issue(t, "verify_email")
    /\ Done(q)
    /\ UNCHANGED <<account, used, expired, sessions>>

\* request_reset: the account is looked up, and the token and the outbox event
\* commit.  Nothing is decided on what was read but that the account exists.
RequestReset(t) ==
    /\ password # 0
    /\ TokenLeft
    /\ Issue(t, "password_reset")
    /\ UNCHANGED <<account, used, expired, sessions, tokenLock, userLock, req>>

\* The hours of a token pass.
Expire(t) ==
    /\ purpose[t] # "none"
    /\ t \notin expired
    /\ expired' = expired \cup {t}
    /\ UNCHANGED <<account, purpose, used, sessions, tokenLock, userLock, req>>

-----------------------------------------------------------------------------
\* A token is looked up by its hash and its endpoint's purpose.  A token that
\* is used or expired is refused and nothing is written.
Usable(t, p) ==
    /\ purpose[t] = p
    /\ t \notin used /\ t \notin expired

Endpoint(p) == IF p = "verify_email" THEN "verify" ELSE "reset"

\* Plausible bug: the token is read without FOR UPDATE.
PresentUnlocked(q, t, p) ==
    /\ req[q].pc = "idle"
    /\ Usable(t, p)
    /\ Goto(q, [pc |-> Endpoint(p), token |-> t])
    /\ UNCHANGED <<account, tokens, sessions, tokenLock, userLock>>

\* verify_email and reset_password: SELECT ... FOR UPDATE waits for the token's
\* lock and sees its newest version.
Present(q, t, p) ==
    /\ req[q].pc = "idle"
    /\ tokenLock[t] = NoRequest
    /\ Usable(t, p)
    /\ tokenLock' = [tokenLock EXCEPT ![t] = q]
    /\ Goto(q, [pc |-> Endpoint(p), token |-> t])
    /\ UNCHANGED <<account, tokens, sessions, userLock>>

\* verify_email: used_at and email_verified_at commit.
VerifyCommit(q) ==
    /\ req[q].pc = "verify"
    /\ userLock = NoRequest
    /\ verified' = TRUE
    /\ used' = used \cup {req[q].token}
    /\ Done(q)
    /\ UNCHANGED <<password, purpose, expired, sessions>>

\* reset_password: before its UPDATE of the sessions runs, the session flushes
\* the new password_hash and used_at, and so waits for the account's row.
ResetFlush(q) ==
    /\ req[q].pc = "reset"
    /\ userLock = NoRequest
    /\ userLock' = q
    /\ Goto(q, [pc |-> "revoke", token |-> req[q].token])
    /\ UNCHANGED <<account, tokens, sessions, tokenLock>>

Opened == {s \in Logins : opened[s] # 0}

\* reset_password: the UPDATE is about the sessions that are committed when it
\* begins.
ResetRevoke(q) ==
    /\ req[q].pc = "revoke"
    /\ Goto(q, [pc |-> "commit", token |-> req[q].token, seen |-> Opened])
    /\ UNCHANGED <<account, tokens, sessions, tokenLock, userLock>>

\* Plausible bug: the sessions are left alone.
ResetCommitKeepingSessions(q) ==
    /\ req[q].pc = "commit"
    /\ password' = password + 1
    /\ used' = used \cup {req[q].token}
    /\ Done(q)
    /\ UNCHANGED <<verified, purpose, expired, sessions>>

\* reset_password: the password, used_at and the revocations commit.
ResetCommit(q) ==
    /\ req[q].pc = "commit"
    /\ password' = password + 1
    /\ used' = used \cup {req[q].token}
    /\ revoked' = revoked \cup req[q].seen
    /\ Done(q)
    /\ UNCHANGED <<verified, purpose, expired, opened, late>>

-----------------------------------------------------------------------------
\* login: the password that was sent is the account's.
Login(q) ==
    /\ req[q].pc = "idle"
    /\ password # 0
    /\ Cardinality(Unopened) > Cardinality(Doing({"login"}))
    /\ Goto(q, [pc |-> "login", proved |-> password])
    /\ UNCHANGED <<account, tokens, sessions, tokenLock, userLock>>

\* login: the session and the audit event commit.
LoginCommit(q, s) ==
    /\ req[q].pc = "login"
    /\ s \in Unopened
    /\ opened' = [opened EXCEPT ![s] = req[q].proved]
    /\ late' = IF req[q].proved # password \/ Doing({"commit"}) # {}
               THEN late \cup {s} ELSE late
    /\ Done(q)
    /\ UNCHANGED <<account, tokens, revoked>>

\* The client or the database goes away before the commit.
Rollback(q) ==
    /\ req[q].pc # "idle"
    /\ Done(q)
    /\ UNCHANGED <<account, tokens, sessions>>

-----------------------------------------------------------------------------
\* The steps of a request once it has begun.
Proceed(q) ==
    \/ \E t \in Tokens : RegisterCommit(q, t) \/ ResendCommit(q, t)
    \/ VerifyCommit(q)
    \/ ResetFlush(q)
    \/ ResetRevoke(q)
    \/ ResetCommit(q)
    \/ \E s \in Logins : LoginCommit(q, s)

Next ==
    \/ \E t \in Tokens : RequestReset(t) \/ Expire(t)
    \/ \E q \in Requests :
           \/ Register(q) \/ RegisterRefused(q)
           \/ Resend(q)
           \/ \E t \in Tokens, p \in {"verify_email", "password_reset"} : Present(q, t, p)
           \/ Login(q)
           \/ Proceed(q)
           \/ Rollback(q)

\* The server runs every request on and PostgreSQL grants the account's row in
\* the order it was asked for (hence strong fairness).
Fairness == \A q \in Requests : SF_vars(Proceed(q))

Spec == Init /\ [][Next]_vars /\ Fairness

-----------------------------------------------------------------------------
Purposes == {"none", "verify_email", "password_reset"}

Requested ==
    [pc : {"idle", "register", "resend"}]
    \cup [pc : {"verify", "reset", "revoke"}, token : Tokens]
    \cup [pc : {"commit"}, token : Tokens, seen : SUBSET Logins]
    \cup [pc : {"login"}, proved : Nat]

\* The variables hold values of their types; a token is locked by the request
\* it was presented to, and the account's row from the first write to the
\* commit.
TypeOK ==
    /\ password \in Nat
    /\ verified \in BOOLEAN
    /\ purpose \in [Tokens -> Purposes]
    /\ used \in SUBSET Tokens
    /\ expired \in SUBSET Tokens
    /\ opened \in [Logins -> Nat]
    /\ revoked \in SUBSET Logins
    /\ late \in SUBSET Logins
    /\ tokenLock \in [Tokens -> Requests \cup {NoRequest}]
    /\ userLock \in Requests \cup {NoRequest}
    /\ req \in [Requests -> Requested]
    /\ \A q \in Requests :
           /\ userLock = q <=> req[q].pc \in {"register", "revoke", "commit"}
           /\ \A t \in Tokens :
                  tokenLock[t] = q <=>
                      req[q].pc \in {"verify", "reset", "revoke", "commit"} /\ req[q].token = t

\* A reset ends every session that was opened with an older password, unless
\* its login checked the password before the reset committed and committed
\* after the reset had looked for sessions.
OldPasswordsAreLate ==
    \A s \in Logins :
        opened[s] # 0 /\ opened[s] # password /\ s \notin revoked => s \in late

ResetsUsed == {t \in used : purpose[t] = "password_reset"}

\* However many tokens are out and whoever presents them how often, the account
\* has had as many passwords as reset tokens were used, and one, and its address
\* is verified exactly when a token was used for it: another token that a reset
\* leaves usable replaces the password again, but only once.
EffectsAreAccounted ==
    /\ password # 0 => password = 1 + Cardinality(ResetsUsed)
    /\ verified <=> \E t \in used : purpose[t] = "verify_email"

Contract == INSTANCE AccountContract WITH
    looked <- Doing({"commit"}) # {}

\* The account honours its contract: however requests race, are lost or find
\* their tokens expired, what commits is a token's one effect, the issue of a
\* token or a login; a token is used up once and never without its effect; and
\* a reset ends the sessions in the step that replaces the password.
ContractSpec == Contract!Spec

\* Every request comes to an end: neither a token's lock nor the account's row
\* is left behind.
EveryRequestEnds == \A q \in Requests : req[q].pc # "idle" ~> req[q].pc = "idle"
=============================================================================
