--------------------------- MODULE AccountsProofs ---------------------------
(***************************************************************************)
(* One-time tokens and resets, for any number of tokens, logins and        *)
(* requests.                                                               *)
(*                                                                         *)
(* Whoever has a token locked still finds it unused at its commit (Held);  *)
(* whoever has inserted the account still is the first (First); and a      *)
(* reset that has looked for sessions has seen all that are not late       *)
(* (Seen).                                                                 *)
(*                                                                         *)
(* For the refinement of AccountContract, what requests remember must have *)
(* been there: tokens, passwords and sessions (Grounded).                  *)
(***************************************************************************)
EXTENDS Accounts, FiniteSetTheorems, TLAPS

USE AccountsAssumption

Presenting == {"verify", "reset", "revoke", "commit"}

Held ==
    \A q \in Requests : req[q].pc \in Presenting =>
        /\ req[q].token \notin used
        /\ purpose[req[q].token] =
               IF req[q].pc = "verify" THEN "verify_email" ELSE "password_reset"

First ==
    /\ \A q \in Requests : req[q].pc = "register" => password = 0
    /\ password = 0 => \A s \in Logins : opened[s] = 0
    /\ password = 0 => \A q \in Requests : req[q].pc # "login"

Seen ==
    \A q \in Requests : req[q].pc = "commit" =>
        \A s \in Logins : opened[s] # 0 /\ s \notin late => s \in req[q].seen

IInv == TypeOK /\ OldPasswordsAreLate /\ Held /\ First /\ Seen

\* An initial state satisfies the inductive invariant.
THEOREM InitEstablishes == ASSUME Init PROVE IInv
<1>1. \A q \in Requests : req[q] = Idle
  BY DEF Init
<1>2. req \in [Requests -> Requested]
  BY DEF Init, Requested, Idle
<1>3. TypeOK
  BY <1>1, <1>2 DEF Init, TypeOK, Purposes, Idle
<1>4. OldPasswordsAreLate /\ Held /\ First /\ Seen
  BY <1>1 DEF Init, OldPasswordsAreLate, Held, First, Seen, Presenting, Idle
<1> QED BY <1>3, <1>4 DEF IInv

\* What the end of a request does to it and to the locks.
LEMMA DoneReleases ==
    ASSUME TypeOK, NEW q \in Requests, Done(q)
    PROVE  /\ req' \in [Requests -> Requested]
           /\ req'[q].pc = "idle" /\ \A p \in Requests \ {q} : req'[p] = req[p]
           /\ tokenLock' \in [Tokens -> Requests \cup {NoRequest}]
           /\ userLock' \in Requests \cup {NoRequest}
           /\ \A p \in Requests :
                  userLock' = p <=> req'[p].pc \in {"register", "revoke", "commit"}
           /\ \A p \in Requests, t \in Tokens :
                  tokenLock'[t] = p <=> req'[p].pc \in Presenting /\ req'[p].token = t
<1> USE DEF Done, Goto
<1>1. /\ req' \in [Requests -> Requested]
      /\ req'[q].pc = "idle" /\ \A p \in Requests \ {q} : req'[p] = req[p]
  <2>1. Idle \in Requested /\ Idle.pc = "idle"
    BY DEF Idle, Requested
  <2> QED BY <2>1 DEF TypeOK
<1>2. /\ tokenLock' \in [Tokens -> Requests \cup {NoRequest}]
      /\ userLock' \in Requests \cup {NoRequest}
  BY DEF TypeOK
<1>3. \A p \in Requests : userLock' = p <=> req'[p].pc \in {"register", "revoke", "commit"}
  BY <1>1 DEF TypeOK
<1>4. ASSUME NEW p \in Requests, NEW t \in Tokens
      PROVE  tokenLock'[t] = p <=> req'[p].pc \in Presenting /\ req'[p].token = t
  BY <1>1 DEF TypeOK, Presenting
<1> QED BY <1>1, <1>2, <1>3, <1>4

\* A request that ends, with a commit or without.
LEMMA Ends ==
    ASSUME IInv, NEW q \in Requests, Done(q),
           password' \in Nat, verified' \in BOOLEAN, purpose' \in [Tokens -> Purposes],
           used' \in SUBSET Tokens, expired' \in SUBSET Tokens,
           opened' \in [Logins -> Nat], revoked' \in SUBSET Logins, late' \in SUBSET Logins,
           OldPasswordsAreLate',
           \A t \in Tokens : purpose[t] # "none" => purpose'[t] = purpose[t],
           \A p \in Requests \ {q} : req[p].pc \in Presenting => req[p].token \notin used' \ used,
           password # 0 => password' # 0,
           password' # password => \A p \in Requests \ {q} : req[p].pc # "register",
           password' = 0 => opened' = opened,
           (\E p \in Requests \ {q} : req[p].pc = "commit") =>
               \A s \in Logins : opened'[s] # 0 /\ s \notin late' => opened[s] # 0 /\ s \notin late
    PROVE  IInv'
<1>1. TypeOK
  BY DEF IInv
<1>2. /\ req'[q].pc = "idle" /\ \A p \in Requests \ {q} : req'[p] = req[p]
  BY <1>1, DoneReleases
<1>3. TypeOK'
  BY <1>1, DoneReleases DEF TypeOK, Presenting
<1>4. Held'
  <2>1. ASSUME NEW p \in Requests \ {q}, req[p].pc \in Presenting
        PROVE  /\ req[p].token \in Tokens /\ req[p].token \notin used'
               /\ purpose'[req[p].token] = purpose[req[p].token]
    <3>1. req[p].token \in Tokens
      BY <1>1, <2>1 DEF TypeOK, Requested, Presenting
    <3>2. purpose[req[p].token] # "none" /\ req[p].token \notin used
      BY <2>1 DEF IInv, Held
    <3> QED BY <2>1, <3>1, <3>2
  <2> QED BY <1>2, <2>1 DEF IInv, Held, Presenting
<1>5. First'
  BY <1>2 DEF IInv, First
<1>6. Seen'
  BY <1>2 DEF IInv, Seen
<1> QED BY <1>3, <1>4, <1>5, <1>6 DEF IInv

\* A request that goes on to a step where it holds no new lock and has
\* nothing to remember but a token it holds.
LEMMA Begins ==
    ASSUME IInv, NEW q \in Requests, req[q].pc = "idle", NEW r \in Requested,
           r.pc \in {"register", "resend", "login", "verify", "reset"},
           req' = [req EXCEPT ![q] = r],
           UNCHANGED <<account, tokens, sessions>>,
           r.pc \in {"register", "login"} => (r.pc = "register" <=> password = 0),
           IF r.pc = "register" THEN userLock = NoRequest /\ userLock' = q
                                ELSE userLock' = userLock,
           IF r.pc \in Presenting
           THEN /\ r.token \in Tokens /\ tokenLock[r.token] = NoRequest
                /\ tokenLock' = [tokenLock EXCEPT ![r.token] = q]
                /\ r.token \notin used
                /\ purpose[r.token] = IF r.pc = "verify" THEN "verify_email" ELSE "password_reset"
           ELSE tokenLock' = tokenLock
    PROVE  IInv'
<1> USE DEF account, tokens, sessions
<1>1. TypeOK
  BY DEF IInv
<1>2. /\ req' \in [Requests -> Requested]
      /\ req'[q] = r /\ \A p \in Requests \ {q} : req'[p] = req[p]
  BY <1>1 DEF TypeOK
<1>3. /\ tokenLock' \in [Tokens -> Requests \cup {NoRequest}]
      /\ userLock' \in Requests \cup {NoRequest}
  BY <1>1 DEF TypeOK
<1>4. \A p \in Requests : userLock' = p <=> req'[p].pc \in {"register", "revoke", "commit"}
  BY <1>1, <1>2 DEF TypeOK
<1>5. ASSUME NEW p \in Requests, NEW t \in Tokens
      PROVE  tokenLock'[t] = p <=> req'[p].pc \in Presenting /\ req'[p].token = t
  <2>1. CASE r.pc \in Presenting
    BY <1>1, <1>2, <2>1 DEF TypeOK, Presenting
  <2>2. CASE r.pc \notin Presenting
    BY <1>1, <1>2, <2>2 DEF TypeOK, Presenting
  <2> QED BY <2>1, <2>2
<1>6. TypeOK'
  BY <1>1, <1>2, <1>3, <1>4, <1>5 DEF TypeOK, Presenting
<1>7. Held'
  BY <1>2 DEF IInv, Held, Presenting
<1>8. First'
  BY <1>2 DEF IInv, First
<1>9. Seen' /\ OldPasswordsAreLate'
  BY <1>2 DEF IInv, Seen, OldPasswordsAreLate
<1> QED BY <1>6, <1>7, <1>8, <1>9 DEF IInv

\* A reset takes the account's row, and then looks for sessions.
LEMMA ResetGoesOn ==
    ASSUME IInv, NEW q \in Requests, ResetFlush(q) \/ ResetRevoke(q) PROVE IInv'
<1> USE DEF account, tokens, sessions
<1>1. TypeOK /\ req[q].pc \in {"reset", "revoke"}
  BY DEF IInv, ResetFlush, ResetRevoke
<1>2. req[q].token \in Tokens
  BY <1>1 DEF TypeOK, Requested
<1>3. PICK r \in Requested :
          /\ req' = [req EXCEPT ![q] = r] /\ r.token = req[q].token
          /\ r.pc \in {"revoke", "commit"}
          /\ r.pc = "commit" => r.seen = Opened /\ req[q].pc = "revoke"
          /\ r.pc = "revoke" => userLock = NoRequest /\ userLock' = q
          /\ r.pc = "commit" => userLock' = userLock
  <2>1. CASE ResetFlush(q)
    <3>1. [pc |-> "revoke", token |-> req[q].token] \in Requested
      BY <1>2 DEF Requested
    <3> QED BY <2>1, <3>1 DEF ResetFlush, Goto
  <2>2. CASE ResetRevoke(q)
    <3>1. Opened \in SUBSET Logins
      BY DEF Opened
    <3>2. [pc |-> "commit", token |-> req[q].token, seen |-> Opened] \in Requested
      BY <1>2, <3>1 DEF Requested
    <3> QED BY <2>2, <3>2 DEF ResetRevoke, Goto
  <2> QED BY <2>1, <2>2
<1>4. UNCHANGED <<account, tokens, sessions, tokenLock>>
  BY DEF ResetFlush, ResetRevoke
<1>5. /\ req' \in [Requests -> Requested]
      /\ req'[q] = r /\ \A p \in Requests \ {q} : req'[p] = req[p]
  BY <1>1, <1>3 DEF TypeOK
<1>6. /\ userLock' \in Requests \cup {NoRequest}
      /\ \A p \in Requests : userLock' = p <=> req'[p].pc \in {"register", "revoke", "commit"}
  BY <1>1, <1>3, <1>5 DEF TypeOK
<1>7. TypeOK'
  BY <1>1, <1>3, <1>4, <1>5, <1>6 DEF TypeOK
<1>8. Held'
  BY <1>1, <1>3, <1>4, <1>5 DEF IInv, Held, Presenting
<1>9. First' /\ OldPasswordsAreLate'
  BY <1>3, <1>4, <1>5 DEF IInv, First, OldPasswordsAreLate
<1>10. Seen'
  BY <1>3, <1>4, <1>5 DEF IInv, Seen, Opened
<1> QED BY <1>7, <1>8, <1>9, <1>10 DEF IInv

-----------------------------------------------------------------------------
\* Registration is the first commit of the account: it comes from no password, so
\* nobody has logged in yet.
LEMMA RegisterCommitStep ==
    ASSUME IInv, NEW q \in Requests, NEW t \in Tokens, RegisterCommit(q, t) PROVE IInv'
<1> USE DEF RegisterCommit, Issue, sessions
<1>1. TypeOK /\ Done(q) /\ password = 0 /\ password' = 1
  BY DEF IInv, First
<1>2. \A s \in Logins : opened'[s] = 0
  BY <1>1 DEF IInv, First
<1>3. OldPasswordsAreLate'
  BY <1>2 DEF OldPasswordsAreLate
<1>4. purpose' \in [Tokens -> Purposes]
  BY <1>1 DEF TypeOK, Purposes
<1>5. \A p \in Requests \ {q} : req[p].pc # "register"
  BY <1>1 DEF TypeOK
<1>6. \A u \in Tokens : purpose[u] # "none" => purpose'[u] = purpose[u]
  BY <1>1 DEF TypeOK, Unissued
<1> QED BY <1>1, <1>3, <1>4, <1>5, <1>6, Ends DEF TypeOK

\* Verification uses up the token it has locked, which nobody else has in hand.
LEMMA VerifyCommitStep ==
    ASSUME IInv, NEW q \in Requests, VerifyCommit(q) PROVE IInv'
<1> USE DEF VerifyCommit, sessions
<1>1. TypeOK /\ Done(q) /\ req[q].token \in Tokens
  BY DEF IInv, TypeOK, Requested
<1>2. OldPasswordsAreLate'
  BY DEF IInv, OldPasswordsAreLate
<1>3. \A p \in Requests \ {q} : req[p].pc \in Presenting => req[p].token # req[q].token
  BY <1>1 DEF TypeOK, Presenting
<1> QED BY <1>1, <1>2, <1>3, Ends DEF TypeOK

\* A reset revokes all it has seen, which are all that are not late.
LEMMA ResetCommitStep ==
    ASSUME IInv, NEW q \in Requests, ResetCommit(q) PROVE IInv'
<1> USE DEF ResetCommit, sessions
<1>1. TypeOK /\ Done(q) /\ req[q].token \in Tokens /\ req[q].seen \in SUBSET Logins
  BY DEF IInv, TypeOK, Requested
<1>2. OldPasswordsAreLate'
  BY DEF IInv, OldPasswordsAreLate, Seen
<1>3. \A p \in Requests \ {q} : /\ req[p].pc \in Presenting => req[p].token # req[q].token
                                /\ req[p].pc \notin {"register", "commit"}
  BY <1>1 DEF TypeOK, Presenting
<1> QED BY <1>1, <1>2, <1>3, Ends DEF TypeOK

\* A login whose password has changed, or that a reset has already missed, is
\* late.
LEMMA LoginCommitStep ==
    ASSUME IInv, NEW q \in Requests, NEW s \in Logins, LoginCommit(q, s) PROVE IInv'
<1> USE DEF LoginCommit, account, tokens
<1>1. /\ TypeOK /\ Done(q) /\ req[q].proved \in Nat /\ password # 0
      /\ opened' = [opened EXCEPT ![s] = req[q].proved] /\ opened[s] = 0
      /\ late' \in SUBSET Logins /\ late \subseteq late'
      /\ req[q].proved # password \/ Doing({"commit"}) # {} => s \in late'
  BY DEF IInv, TypeOK, Requested, First, Unopened
<1>2. opened' \in [Logins -> Nat]
  BY <1>1 DEF TypeOK
<1>3. OldPasswordsAreLate'
  BY <1>1 DEF IInv, OldPasswordsAreLate, TypeOK
<1>4. ASSUME NEW p \in Requests \ {q}, req[p].pc = "commit"
      PROVE  \A x \in Logins : opened'[x] # 0 /\ x \notin late' => opened[x] # 0 /\ x \notin late
  <2>1. s \in late'
    BY <1>1, <1>4 DEF Doing
  <2> QED BY <1>1, <2>1 DEF TypeOK
<1> QED BY <1>1, <1>2, <1>3, <1>4, Ends DEF TypeOK

\* Every step, and every stutter, preserves the inductive invariant.
LEMMA StepPreserves == ASSUME IInv, [Next]_vars PROVE IInv'
<1> USE DEF account, tokens, sessions
<1>1. TypeOK
  BY DEF IInv
<1>2. CASE UNCHANGED vars
  BY <1>2 DEF vars, IInv, TypeOK, OldPasswordsAreLate, Held, First, Seen
<1>3. ASSUME NEW t \in Tokens, RequestReset(t) \/ Expire(t) PROVE IInv'
  <2>1. /\ purpose' \in [Tokens -> Purposes] /\ expired' \in SUBSET Tokens
        /\ \A u \in Tokens : purpose[u] # "none" => purpose'[u] = purpose[u]
        /\ UNCHANGED <<account, used, sessions, tokenLock, userLock, req>>
    BY <1>1, <1>3 DEF RequestReset, Expire, Issue, Unissued, TypeOK, Purposes
  <2>2. \A q \in Requests : req[q].pc \in Presenting => req[q].token \in Tokens
    BY <1>1 DEF TypeOK, Requested, Presenting
  <2>3. TypeOK'
    BY <1>1, <2>1 DEF TypeOK
  <2>4. Held'
    BY <2>1, <2>2 DEF IInv, Held
  <2> QED BY <2>1, <2>3, <2>4 DEF IInv, OldPasswordsAreLate, First, Seen
<1>4. ASSUME NEW q \in Requests, Register(q) PROVE IInv'
  <2>1. [pc |-> "register"] \in Requested
    BY DEF Requested
  <2> QED BY <1>4, <2>1, Begins DEF Register, Goto, Presenting
<1>5. ASSUME NEW q \in Requests, Resend(q) PROVE IInv'
  <2>1. [pc |-> "resend"] \in Requested
    BY DEF Requested
  <2> QED BY <1>5, <2>1, Begins DEF Resend, Goto, Presenting
<1>6. ASSUME NEW q \in Requests, Login(q) PROVE IInv'
  <2>1. PICK r : r = [pc |-> "login", proved |-> password]
    OBVIOUS
  <2>2. r \in Requested
    BY <1>1, <2>1 DEF Requested, TypeOK
  <2> QED BY <1>6, <2>1, <2>2, Begins DEF Login, Goto, Presenting
<1>7. ASSUME NEW q \in Requests, NEW t \in Tokens, NEW p \in {"verify_email", "password_reset"},
             Present(q, t, p)
      PROVE  IInv'
  <2>1. PICK r : r = [pc |-> Endpoint(p), token |-> t]
    OBVIOUS
  <2>2. r \in Requested /\ r.pc = (IF p = "verify_email" THEN "verify" ELSE "reset")
    BY <2>1 DEF Requested, Endpoint
  <2> QED BY <1>7, <2>1, <2>2, Begins DEF Present, Usable, Goto, Presenting
<1>8. ASSUME NEW q \in Requests, NEW t \in Tokens, ResendCommit(q, t) PROVE IInv'
  <2>1. /\ purpose' \in [Tokens -> Purposes]
        /\ \A u \in Tokens : purpose[u] # "none" => purpose'[u] = purpose[u]
    BY <1>1, <1>8 DEF ResendCommit, Issue, Unissued, TypeOK, Purposes
  <2>2. OldPasswordsAreLate'
    BY <1>8 DEF ResendCommit, IInv, OldPasswordsAreLate
  <2> QED BY <1>1, <1>8, <2>1, <2>2, Ends DEF ResendCommit, TypeOK
<1>9. ASSUME NEW q \in Requests, Rollback(q) PROVE IInv'
  <2>1. OldPasswordsAreLate'
    BY <1>9 DEF Rollback, IInv, OldPasswordsAreLate
  <2> QED BY <1>1, <1>9, <2>1, Ends DEF Rollback, TypeOK
<1>10. ASSUME NEW q \in Requests, RegisterRefused(q) PROVE IInv'
  BY <1>2, <1>10 DEF RegisterRefused
<1> QED
  BY <1>2, <1>3, <1>4, <1>5, <1>6, <1>7, <1>8, <1>9, <1>10, RegisterCommitStep,
     VerifyCommitStep, ResetGoesOn, ResetCommitStep, LoginCommitStep DEF Next, Proceed

\* The inductive invariant holds in every reachable state.
THEOREM Inductive == Spec => []IInv
<1>1. Init => IInv
  BY InitEstablishes
<1>2. IInv /\ [Next]_vars => IInv'
  BY StepPreserves
<1> QED BY <1>1, <1>2, PTL DEF Spec

\* The variables of Accounts keep their types, and both kinds of lock are held
\* exactly from the statement that takes them to the commit.
THEOREM TypeCorrect == Spec => []TypeOK
<1>1. IInv => TypeOK
  BY DEF IInv
<1> QED BY <1>1, Inductive, PTL

\* Only late logins keep a session that proved a password which a reset has
\* replaced (login, reset_password).
THEOREM OnlyLateLogins == Spec => []OldPasswordsAreLate
<1>1. IInv => OldPasswordsAreLate
  BY DEF IInv
<1> QED BY <1>1, Inductive, PTL

\* The commits that write the account or use up a token.
LEMMA Effects ==
    ASSUME IInv, [Next]_vars
    PROVE  \/ UNCHANGED <<password, verified, used>>
           \/ password = 0 /\ password' = 1 /\ UNCHANGED <<verified, used>>
           \/ \E t \in Tokens : /\ purpose[t] = "verify_email" /\ t \notin used
                                /\ used' = used \cup {t}
                                /\ verified' = TRUE /\ password' = password
           \/ \E t \in Tokens : /\ purpose[t] = "password_reset" /\ t \notin used
                                /\ used' = used \cup {t}
                                /\ verified' = verified /\ password' = password + 1
<1> USE DEF account, tokens, sessions
<1>1. TypeOK
  BY DEF IInv
<1>2. CASE UNCHANGED <<password, verified, used>>
  BY <1>2
<1>3. ASSUME NEW q \in Requests, NEW t \in Tokens, RegisterCommit(q, t)
      PROVE  password = 0 /\ password' = 1 /\ UNCHANGED <<verified, used>>
  BY <1>3 DEF RegisterCommit, IInv, First
<1>4. ASSUME NEW q \in Requests, VerifyCommit(q) \/ ResetCommit(q)
      PROVE  /\ req[q].token \in Tokens /\ req[q].token \notin used
             /\ used' = used \cup {req[q].token}
             /\ VerifyCommit(q) => /\ purpose[req[q].token] = "verify_email"
                                   /\ verified' = TRUE /\ password' = password
             /\ ResetCommit(q) => /\ purpose[req[q].token] = "password_reset"
                                  /\ verified' = verified /\ password' = password + 1
  <2>1. req[q].pc \in {"verify", "commit"} /\ req[q].token \in Tokens
    BY <1>1, <1>4 DEF VerifyCommit, ResetCommit, TypeOK, Requested
  <2> QED BY <1>4, <2>1 DEF VerifyCommit, ResetCommit, IInv, Held, Presenting
<1>5. CASE ~UNCHANGED <<password, verified, used>>
  <2>1. \/ \E q \in Requests, t \in Tokens : RegisterCommit(q, t)
        \/ \E q \in Requests : VerifyCommit(q) \/ ResetCommit(q)
    BY <1>5 DEF Next, Proceed, vars, RequestReset, Expire, Register, RegisterRefused, Resend,
                Present, Login, ResendCommit, ResetFlush, ResetRevoke, LoginCommit, Rollback
  <2> QED BY <1>3, <1>4, <2>1
<1> QED BY <1>2, <1>5

\* "Verification, reset, and invitation tokens are one-time hashed records"
\* (docs/architecture.md:5): the password changes, and the address is verified,
\* only by using up a token of that purpose that was not used before, and a
\* token is used up only by that effect.
TokensAreOneTime ==
    [][/\ password' # password /\ password # 0 =>
              \E t \in Tokens : purpose[t] = "password_reset" /\ used' = used \cup {t} /\ t \notin used
       /\ verified' # verified =>
              \E t \in Tokens : purpose[t] = "verify_email" /\ used' = used \cup {t} /\ t \notin used
       /\ \A t \in used' \ used :
              IF purpose[t] = "password_reset" THEN password' = password + 1 ELSE verified']_vars

\* A password is replaced and an address verified only by using up an unused
\* token of that purpose, and only that uses a token up (verify_email,
\* reset_password).
THEOREM OneTime == Spec => TokensAreOneTime
<1>1. ASSUME IInv, [Next]_vars, password' # password, password # 0
      PROVE  \E t \in Tokens : purpose[t] = "password_reset" /\ used' = used \cup {t} /\ t \notin used
  BY <1>1, Effects
<1>2. ASSUME IInv, [Next]_vars, verified' # verified
      PROVE  \E t \in Tokens : purpose[t] = "verify_email" /\ used' = used \cup {t} /\ t \notin used
  BY <1>2, Effects
<1>3. ASSUME IInv, [Next]_vars, NEW t \in used' \ used
      PROVE  IF purpose[t] = "password_reset" THEN password' = password + 1 ELSE verified'
  BY <1>3, Effects
<1>4. IInv /\ [Next]_vars =>
          [/\ password' # password /\ password # 0 =>
                 \E t \in Tokens : purpose[t] = "password_reset" /\ used' = used \cup {t} /\ t \notin used
           /\ verified' # verified =>
                 \E t \in Tokens : purpose[t] = "verify_email" /\ used' = used \cup {t} /\ t \notin used
           /\ \A t \in used' \ used :
                 IF purpose[t] = "password_reset" THEN password' = password + 1 ELSE verified']_vars
  BY <1>1, <1>2, <1>3
<1> QED BY <1>4, Inductive, PTL DEF Spec, TokensAreOneTime

-----------------------------------------------------------------------------
(* Accounts implements AccountContract *)

\* What requests rely on when they commit is still so: the sessions a reset has
\* found were opened, the password a login has proved was the account's, and
\* there is an account that asked for a token.
Grounded ==
    \A q \in Requests :
        /\ req[q].pc = "commit" => req[q].seen \subseteq Opened
        /\ req[q].pc = "login" => req[q].proved \in 1 .. password
        /\ req[q].pc = "resend" => password # 0

\* A step that neither closes sessions nor takes passwords back, and begins no
\* request that would have to be grounded.
LEMMA GroundedKept ==
    ASSUME TypeOK, TypeOK', Grounded, password \in Nat, password' \in Nat, password <= password',
           \A s \in Logins : opened[s] # 0 => opened'[s] # 0,
           \A q \in Requests : req'[q] = req[q] \/ req'[q].pc \notin {"commit", "login", "resend"}
    PROVE  Grounded'
<1>1. ASSUME NEW q \in Requests, req'[q] = req[q]
      PROVE  /\ req'[q].pc = "commit" => req'[q].seen \subseteq Opened'
             /\ req'[q].pc = "login" => req'[q].proved \in 1 .. password'
             /\ req'[q].pc = "resend" => password' # 0
  <2>1. Opened \subseteq Opened'
    BY DEF Opened
  <2> QED BY <1>1, <2>1 DEF Grounded
<1> QED BY <1>1 DEF Grounded

\* Every step keeps them grounded.
LEMMA StepGrounded == ASSUME IInv, Grounded, [Next]_vars PROVE Grounded'
<1> USE DEF account, tokens, sessions
<1>1. TypeOK /\ TypeOK' /\ password \in Nat /\ password' \in Nat
  BY StepPreserves DEF IInv, TypeOK
<1>2. CASE UNCHANGED vars
  BY <1>2 DEF vars, Grounded, Opened
<1>3. ASSUME NEW t \in Tokens, RequestReset(t) \/ Expire(t) PROVE Grounded'
  BY <1>3 DEF RequestReset, Expire, Grounded, Opened
<1>4. ASSUME NEW q \in Requests,
             \/ Register(q)
             \/ \E t \in Tokens, p \in {"verify_email", "password_reset"} : Present(q, t, p)
             \/ ResetFlush(q)
      PROVE  Grounded'
  <2>1. /\ UNCHANGED <<password, opened>>
        /\ req'[q].pc \in {"register", "verify", "reset", "revoke"}
        /\ \A p \in Requests \ {q} : req'[p] = req[p]
    BY <1>1, <1>4 DEF Register, Present, Endpoint, ResetFlush, Goto, TypeOK
  <2> QED BY <1>1, <2>1, GroundedKept
<1>5. ASSUME NEW q \in Requests,
             \/ Rollback(q) \/ VerifyCommit(q) \/ ResetCommit(q)
             \/ \E t \in Tokens : RegisterCommit(q, t) \/ ResendCommit(q, t)
      PROVE  Grounded'
  <2>1. Done(q) /\ UNCHANGED opened
    BY <1>5 DEF Rollback, VerifyCommit, ResetCommit, RegisterCommit, ResendCommit
  <2>2. password <= password'
    BY <1>1, <1>5 DEF Rollback, VerifyCommit, ResetCommit, RegisterCommit, ResendCommit, IInv, First
  <2>3. \A p \in Requests : req'[p] = req[p] \/ req'[p].pc \notin {"commit", "login", "resend"}
    BY <1>1, <2>1, DoneReleases
  <2> QED BY <1>1, <2>1, <2>2, <2>3, GroundedKept
<1>6. ASSUME NEW q \in Requests, NEW s \in Logins, LoginCommit(q, s) PROVE Grounded'
  <2>1. /\ Done(q) /\ UNCHANGED password /\ s \in Unopened
        /\ opened' = [opened EXCEPT ![s] = req[q].proved]
    BY <1>6 DEF LoginCommit
  <2>2. \A x \in Logins : opened[x] # 0 => opened'[x] # 0
    BY <1>1, <2>1 DEF Unopened, TypeOK
  <2>3. \A p \in Requests : req'[p] = req[p] \/ req'[p].pc \notin {"commit", "login", "resend"}
    BY <1>1, <2>1, DoneReleases
  <2> QED BY <1>1, <2>1, <2>2, <2>3, GroundedKept
<1>7. ASSUME NEW q \in Requests, Resend(q) PROVE Grounded'
  <2>1. /\ UNCHANGED <<password, opened>> /\ req'[q].pc = "resend"
        /\ \A p \in Requests \ {q} : req'[p] = req[p]
    BY <1>1, <1>7 DEF Resend, Goto, TypeOK
  <2>2. password # 0
    BY <1>7 DEF Resend, IInv, First
  <2> QED BY <2>1, <2>2 DEF Grounded, Opened
<1>8. ASSUME NEW q \in Requests, ResetRevoke(q) \/ Login(q) PROVE Grounded'
  <2>1. /\ UNCHANGED <<password, opened>>
        /\ \A p \in Requests \ {q} : req'[p] = req[p]
        /\ req'[q].pc \in {"commit", "login"}
        /\ req'[q].pc = "commit" => req'[q].seen = Opened
        /\ req'[q].pc = "login" => req'[q].proved = password /\ password # 0
    BY <1>1, <1>8 DEF ResetRevoke, Login, Goto, TypeOK
  <2> QED BY <1>1, <2>1 DEF Grounded, Opened
<1>9. ASSUME NEW q \in Requests, RegisterRefused(q) PROVE Grounded'
  BY <1>2, <1>9 DEF RegisterRefused
<1> QED
  BY <1>2, <1>3, <1>4, <1>5, <1>6, <1>7, <1>8, <1>9 DEF Next, Proceed

Looked == Doing({"commit"}) # {}

\* At most one reset has looked for sessions; whether one has changes only with
\* the request that takes a step.
LEMMA LookedStep ==
    ASSUME TypeOK, TypeOK', NEW q \in Requests, \A p \in Requests \ {q} : req'[p] = req[p]
    PROVE  /\ req[q].pc = "commit" => Looked
           /\ req'[q].pc = "commit" => Looked'
           /\ req[q].pc \in {"revoke", "commit"} /\ req'[q].pc # "commit" => ~Looked'
           /\ req[q].pc = "revoke" => ~Looked
           /\ req[q].pc # "commit" /\ req'[q].pc # "commit" => (Looked' <=> Looked)
<1>1. \A p \in Requests \ {q} :
          req[q].pc \in {"revoke", "commit"} => req[p].pc # "commit" /\ req'[p].pc # "commit"
  BY DEF TypeOK
<1> QED BY <1>1 DEF Looked, Doing

\* A registration is the contract's, and issues the first token.
LEMMA RegisterIsRegister ==
    ASSUME IInv, TypeOK', NEW q \in Requests, NEW t \in Tokens, RegisterCommit(q, t)
    PROVE  Contract!Register(t)
<1>1. /\ TypeOK /\ password = 0 /\ Done(q) /\ req[q].pc = "register"
  BY DEF RegisterCommit, IInv, First
<1>2. Looked' <=> Looked
  BY <1>1, DoneReleases, LookedStep
<1> QED BY <1>1, <1>2 DEF RegisterCommit, Issue, Unissued, sessions, Looked, Contract!Register

\* A token is issued by request_reset, or to an account that exists.
LEMMA IssueIsIssue ==
    ASSUME IInv, TypeOK', Grounded, NEW t \in Tokens,
           RequestReset(t) \/ \E q \in Requests : ResendCommit(q, t)
    PROVE  \E p \in {"verify_email", "password_reset"} : Contract!Issue(t, p)
<1> USE DEF Issue, Unissued, account, sessions, Contract!Issue
<1>1. CASE RequestReset(t)
  <2>1. Looked' = Looked
    BY <1>1 DEF RequestReset, Looked, Doing
  <2> QED BY <1>1, <2>1 DEF RequestReset, Looked
<1>2. ASSUME NEW q \in Requests, ResendCommit(q, t)
      PROVE  Contract!Issue(t, "verify_email")
  <2>1. TypeOK /\ Done(q) /\ req[q].pc = "resend" /\ password # 0
    BY <1>2 DEF ResendCommit, IInv, Grounded
  <2>2. Looked' <=> Looked
    BY <2>1, DoneReleases, LookedStep
  <2> QED BY <1>2, <2>1, <2>2 DEF ResendCommit, Looked
<1> QED BY <1>1, <1>2

\* A verification takes a token of its purpose that nobody has used.
LEMMA VerifyIsVerify ==
    ASSUME IInv, TypeOK', NEW q \in Requests, VerifyCommit(q)
    PROVE  req[q].token \in Tokens /\ Contract!Verify(req[q].token)
<1>1. TypeOK /\ Done(q) /\ req[q].pc = "verify"
  BY DEF VerifyCommit, IInv
<1>2. Looked' <=> Looked
  BY <1>1, DoneReleases, LookedStep
<1>3. req[q].token \in Tokens /\ req[q].token \notin used /\ purpose[req[q].token] = "verify_email"
  BY <1>1 DEF IInv, Held, Presenting, TypeOK, Requested
<1> QED BY <1>1, <1>2, <1>3 DEF VerifyCommit, sessions, Looked, Contract!Verify

\* A reset takes one too, and revokes every session that was not opened late.
LEMMA ResetIsReset ==
    ASSUME IInv, TypeOK', Grounded, NEW q \in Requests, ResetCommit(q)
    PROVE  req[q].token \in Tokens /\ Contract!Reset(req[q].token)
<1>1. TypeOK /\ Done(q) /\ req[q].pc = "commit"
  BY DEF ResetCommit, IInv
<1>2. Looked /\ ~Looked'
  BY <1>1, DoneReleases, LookedStep
<1>3. /\ req[q].token \in Tokens /\ req[q].token \notin used
      /\ purpose[req[q].token] = "password_reset"
  BY <1>1 DEF IInv, Held, Presenting, TypeOK, Requested
<1>4. Opened \ late \subseteq req[q].seen /\ req[q].seen \subseteq Opened
  BY <1>1 DEF IInv, Seen, Grounded, Opened
<1>5. Contract!Opened = Opened
  BY DEF Contract!Opened, Opened
<1> QED BY <1>1, <1>2, <1>3, <1>4, <1>5 DEF ResetCommit, Looked, Contract!Reset

\* A login has proved a password that the account had or has.
LEMMA LoginIsLogin ==
    ASSUME IInv, TypeOK', Grounded, NEW q \in Requests, NEW s \in Logins, LoginCommit(q, s)
    PROVE  req[q].proved \in 1 .. password /\ Contract!Login(s, req[q].proved)
<1>1. TypeOK /\ Done(q) /\ req[q].pc = "login"
  BY DEF LoginCommit, IInv
<1>2. Looked' <=> Looked
  BY <1>1, DoneReleases, LookedStep
<1>3. req[q].proved \in 1 .. password
  BY <1>1 DEF Grounded
<1> QED BY <1>1, <1>2, <1>3
        DEF LoginCommit, Unopened, account, tokens, Looked, Contract!Login

\* Looking for sessions, and giving up, are the only other steps the contract
\* knows; everything else a request does is invisible to it.
LEMMA QuietIsQuiet ==
    ASSUME IInv, TypeOK', NEW q \in Requests, UNCHANGED <<account, purpose, used, sessions>>,
           \A p \in Requests \ {q} : req'[p] = req[p],
           req'[q].pc = "commit" => req[q].pc = "revoke"
    PROVE  Contract!Look \/ Contract!GiveUp \/ UNCHANGED Contract!vars
<1> USE DEF account, sessions
<1>1. TypeOK
  BY DEF IInv
<1>2. CASE req'[q].pc = "commit"
  BY <1>1, <1>2, LookedStep DEF Looked, Contract!Look
<1>3. CASE req'[q].pc # "commit" /\ req[q].pc = "commit"
  BY <1>1, <1>3, LookedStep DEF Looked, Contract!GiveUp
<1>4. CASE req'[q].pc # "commit" /\ req[q].pc # "commit"
  BY <1>1, <1>4, LookedStep DEF Looked, Contract!vars
<1> QED BY <1>2, <1>3, <1>4

\* The refinement, step by step.
LEMMA ContractStep ==
    ASSUME IInv, Grounded, [Next]_vars PROVE [Contract!Next]_Contract!vars
<1> USE DEF account, tokens, sessions
<1>1. TypeOK /\ TypeOK'
  BY StepPreserves DEF IInv
<1>2. CASE UNCHANGED vars
  BY <1>2 DEF vars, Contract!vars, Doing
<1>3. ASSUME NEW t \in Tokens, Expire(t) PROVE UNCHANGED Contract!vars
  BY <1>3 DEF Expire, Contract!vars, Doing
<1>4. ASSUME NEW q \in Requests,
             \/ Register(q) \/ Resend(q) \/ Login(q) \/ ResetFlush(q) \/ ResetRevoke(q)
             \/ \E t \in Tokens, p \in {"verify_email", "password_reset"} : Present(q, t, p)
             \/ Rollback(q)
      PROVE  Contract!Look \/ Contract!GiveUp \/ UNCHANGED Contract!vars
  <2>1. /\ UNCHANGED <<account, purpose, used, sessions>>
        /\ \A p \in Requests \ {q} : req'[p] = req[p]
        /\ req'[q].pc = "commit" => req[q].pc = "revoke"
    <3>1. CASE Rollback(q)
      BY <1>1, <3>1, DoneReleases DEF Rollback
    <3>2. CASE ~Rollback(q)
      BY <1>1, <1>4, <3>2
      DEF Register, Resend, Login, ResetFlush, ResetRevoke, Present, Endpoint, Goto, TypeOK
    <3> QED BY <3>1, <3>2
  <2> QED BY <1>1, <2>1, QuietIsQuiet
<1>5. ASSUME NEW q \in Requests, RegisterRefused(q) PROVE UNCHANGED Contract!vars
  BY <1>2, <1>5 DEF RegisterRefused, vars, Contract!vars, Doing
<1>6. ASSUME \/ \E t \in Tokens : RequestReset(t)
             \/ \E q \in Requests :
                   \/ VerifyCommit(q) \/ ResetCommit(q)
                   \/ \E t \in Tokens : RegisterCommit(q, t) \/ ResendCommit(q, t)
                   \/ \E s \in Logins : LoginCommit(q, s)
      PROVE  Contract!Next
  BY <1>1, <1>6, RegisterIsRegister, IssueIsIssue, VerifyIsVerify, ResetIsReset, LoginIsLogin
  DEF Contract!Next
<1> QED
  BY <1>2, <1>3, <1>4, <1>5, <1>6 DEF Next, Proceed, Contract!Next

\* The account honours its contract (register, verify_email,
\* resend_verification, request_reset, reset_password, login).
THEOREM Implements == Spec => ContractSpec
<1>1. Init => IInv /\ Grounded /\ Contract!Init
  <2> SUFFICES ASSUME Init PROVE IInv /\ Grounded /\ Contract!Init
    OBVIOUS
  <2>1. \A q \in Requests : req[q].pc = "idle"
    BY DEF Init, Idle
  <2>2. Doing({"commit"}) = {} /\ Grounded
    BY <2>1 DEF Doing, Grounded
  <2> QED BY <2>2, InitEstablishes DEF Init, Contract!Init
<1>2. IInv /\ Grounded /\ [Next]_vars => IInv' /\ Grounded' /\ [Contract!Next]_Contract!vars
  BY StepPreserves, StepGrounded, ContractStep
<1> QED BY <1>1, <1>2, PTL DEF Spec, ContractSpec, Contract!Spec

-----------------------------------------------------------------------------
(* The effects of tokens, counted *)

\* Before the account there are no tokens, and what was used had been issued.
Accounted ==
    /\ EffectsAreAccounted
    /\ \A t \in used : purpose[t] # "none"
    /\ password = 0 => \A t \in Tokens : purpose[t] = "none"

\* Tokens keep their purpose, and an account that is there before it has tokens.
LEMMA PurposesStay ==
    ASSUME IInv, Grounded, [Next]_vars
    PROVE  /\ \A t \in Tokens : purpose[t] # "none" => purpose'[t] = purpose[t]
           /\ purpose' # purpose => password' # 0
<1> USE DEF account, tokens, sessions
<1>1. TypeOK
  BY DEF IInv
<1>2. CASE purpose' = purpose
  BY <1>2
<1>3. CASE purpose' # purpose
  <2>1. PICK t \in Tokens :
            \/ RequestReset(t)
            \/ \E q \in Requests : RegisterCommit(q, t) \/ ResendCommit(q, t)
    BY <1>3 DEF Next, Proceed, vars, Expire, Register, RegisterRefused, Resend, Present, Login,
                VerifyCommit, ResetFlush, ResetRevoke, ResetCommit, LoginCommit, Rollback
  <2>2. purpose[t] = "none" /\ \A u \in Tokens \ {t} : purpose'[u] = purpose[u]
    BY <1>1, <2>1 DEF RequestReset, RegisterCommit, ResendCommit, Issue, Unissued, TypeOK
  <2>3. password' # 0
    BY <2>1 DEF RequestReset, RegisterCommit, ResendCommit, Grounded
  <2> QED BY <2>2, <2>3
<1> QED BY <1>2, <1>3

\* Tokens that are used already count as before.
LEMMA UsedStay ==
    ASSUME Accounted, TypeOK, \A t \in Tokens : purpose[t] # "none" => purpose'[t] = purpose[t]
    PROVE  /\ \A t \in used : purpose'[t] = purpose[t]
           /\ IsFiniteSet(ResetsUsed) /\ Cardinality(ResetsUsed) \in Nat
<1>1. IsFiniteSet(ResetsUsed)
  <2>1. ResetsUsed \subseteq Tokens /\ IsFiniteSet(Tokens)
    BY AccountsAssumption DEF ResetsUsed, TypeOK
  <2> QED BY <2>1, FS_Subset
<1> QED BY <1>1, FS_CardinalityType DEF Accounted, TypeOK

\* Every step keeps the account.
LEMMA StepAccounts == ASSUME IInv, Grounded, Accounted, [Next]_vars PROVE Accounted'
<1>1. TypeOK /\ password \in Nat
  BY DEF IInv, TypeOK
<1>2. /\ \A t \in Tokens : purpose[t] # "none" => purpose'[t] = purpose[t]
      /\ purpose' # purpose => password' # 0
  BY PurposesStay
<1>3. /\ \A t \in used : purpose'[t] = purpose[t]
      /\ IsFiniteSet(ResetsUsed) /\ Cardinality(ResetsUsed) \in Nat
  BY <1>1, <1>2, UsedStay
<1>4. CASE UNCHANGED <<password, verified, used>>
  <2>1. ResetsUsed' = ResetsUsed
    BY <1>3, <1>4 DEF ResetsUsed
  <2> QED BY <1>2, <1>3, <1>4, <2>1 DEF Accounted, EffectsAreAccounted
<1>5. CASE password = 0 /\ password' = 1 /\ UNCHANGED <<verified, used>>
  <2>1. used = {}
    BY <1>1, <1>5 DEF Accounted, TypeOK
  <2>2. ResetsUsed' = {}
    BY <1>5, <2>1 DEF ResetsUsed
  <2>3. Cardinality({}) = 0
    BY FS_EmptySet
  <2>4. ~verified
    BY <2>1 DEF Accounted, EffectsAreAccounted
  <2>5. EffectsAreAccounted'
    BY <1>5, <2>1, <2>2, <2>3, <2>4 DEF EffectsAreAccounted
  <2> QED BY <1>5, <2>1, <2>5 DEF Accounted
<1>6. ASSUME NEW t \in Tokens, purpose[t] = "verify_email", t \notin used,
             used' = used \cup {t}, verified' = TRUE, password' = password
      PROVE  Accounted'
  <2>1. purpose'[t] = "verify_email" /\ password # 0
    BY <1>2, <1>6 DEF Accounted
  <2>2. ResetsUsed' = ResetsUsed
    BY <1>3, <1>6, <2>1 DEF ResetsUsed
  <2> QED BY <1>3, <1>6, <2>1, <2>2 DEF Accounted, EffectsAreAccounted
<1>7. ASSUME NEW t \in Tokens, purpose[t] = "password_reset", t \notin used,
             used' = used \cup {t}, verified' = verified, password' = password + 1
      PROVE  Accounted'
  <2>1. purpose'[t] = "password_reset" /\ password # 0 /\ password' # 0
    BY <1>1, <1>2, <1>7 DEF Accounted
  <2>2. ResetsUsed' = ResetsUsed \cup {t} /\ t \notin ResetsUsed
    BY <1>3, <1>7, <2>1 DEF ResetsUsed
  <2>3. Cardinality(ResetsUsed') = Cardinality(ResetsUsed) + 1
    BY <1>3, <2>2, FS_AddElement
  <2>4. password' = 1 + Cardinality(ResetsUsed')
    BY <1>1, <1>3, <1>7, <2>1, <2>3 DEF Accounted, EffectsAreAccounted
  <2>5. verified' <=> \E u \in used' : purpose'[u] = "verify_email"
    BY <1>3, <1>7, <2>1 DEF Accounted, EffectsAreAccounted
  <2> QED BY <1>3, <1>7, <2>1, <2>4, <2>5 DEF Accounted, EffectsAreAccounted
<1> QED BY <1>4, <1>5, <1>6, <1>7, Effects

\* The number of passwords is that of the reset tokens used, and one; a used
\* verification token is what verifies (verify_email, reset_password).
THEOREM EffectsCounted == Spec => []EffectsAreAccounted
<1>1. Init => IInv /\ Grounded /\ Accounted
  <2> SUFFICES ASSUME Init PROVE IInv /\ Grounded /\ Accounted
    OBVIOUS
  <2>1. \A q \in Requests : req[q].pc = "idle"
    BY DEF Init, Idle
  <2>2. Grounded
    BY <2>1 DEF Grounded
  <2>3. Accounted
    BY DEF Init, Accounted, EffectsAreAccounted
  <2> QED BY <2>2, <2>3, InitEstablishes
<1>2. IInv /\ Grounded /\ Accounted /\ [Next]_vars => IInv' /\ Grounded' /\ Accounted'
  BY StepPreserves, StepGrounded, StepAccounts
<1>3. Accounted => EffectsAreAccounted
  BY DEF Accounted
<1> QED BY <1>1, <1>2, <1>3, PTL DEF Spec
=============================================================================
