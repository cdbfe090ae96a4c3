-------------------------- MODULE AccountContract ---------------------------
(***************************************************************************)
(* What an account's owner may rely on ("Verification, reset, and          *)
(* invitation tokens are one-time hashed records", docs/architecture.md):  *)
(* a token has its one effect at once, or none; a reset replaces the       *)
(* password and ends the sessions in the same step, all but those that     *)
(* were logged in too late for it: with a password that has been replaced  *)
(* meanwhile, or while a reset had looked for sessions already.  Requests, *)
(* row locks, time limits and lost connections are the business of         *)
(* Accounts, which is shown to implement this module.                      *)
(***************************************************************************)
EXTENDS Integers

CONSTANTS Tokens, Logins

VARIABLES
    password,    \* 0: no account yet; then the number of passwords it had
    verified,    \* whether the address is
    purpose,     \* purpose[t]: what token t is for, "none" before it is issued
    used,        \* tokens that had their effect
    opened,      \* opened[s]: the password that session s proved, 0 before it
    revoked,     \* sessions that were ended
    late,        \* sessions that were logged in too late for a reset
    looked       \* a reset has looked for sessions and not committed

vars == <<password, verified, purpose, used, opened, revoked, late, looked>>

Opened == {s \in Logins : opened[s] # 0}

Init ==
    /\ password = 0
    /\ verified = FALSE
    /\ purpose = [t \in Tokens |-> "none"]
    /\ used = {}
    /\ opened = [s \in Logins |-> 0]
    /\ revoked = {}
    /\ late = {}
    /\ looked = FALSE

\* The account comes with a token to verify its address.
Register(t) ==
    /\ password = 0
    /\ purpose[t] = "none"
    /\ password' = 1
    /\ purpose' = [purpose EXCEPT ![t] = "verify_email"]
    /\ UNCHANGED <<verified, used, opened, revoked, late, looked>>

Issue(t, p) ==
    /\ password # 0
    /\ purpose[t] = "none"
    /\ purpose' = [purpose EXCEPT ![t] = p]
    /\ UNCHANGED <<password, verified, used, opened, revoked, late, looked>>

Verify(t) ==
    /\ purpose[t] = "verify_email"
    /\ t \notin used
    /\ verified' = TRUE
    /\ used' = used \cup {t}
    /\ UNCHANGED <<password, purpose, opened, revoked, late, looked>>

Look ==
    /\ ~looked
    /\ looked' = TRUE
    /\ UNCHANGED <<password, verified, purpose, used, opened, revoked, late>>

GiveUp ==
    /\ looked
    /\ looked' = FALSE
    /\ UNCHANGED <<password, verified, purpose, used, opened, revoked, late>>

Reset(t) ==
    /\ looked
    /\ looked' = FALSE
    /\ purpose[t] = "password_reset"
    /\ t \notin used
    /\ password' = password + 1
    /\ used' = used \cup {t}
    /\ revoked \cup (Opened \ late) \subseteq revoked'
    /\ revoked' \subseteq revoked \cup Opened
    /\ UNCHANGED <<verified, purpose, opened, late>>

Login(s, p) ==
    /\ opened[s] = 0
    /\ opened' = [opened EXCEPT ![s] = p]
    /\ late' = IF p # password \/ looked THEN late \cup {s} ELSE late
    /\ UNCHANGED <<password, verified, purpose, used, revoked, looked>>

Next ==
    \/ \E t \in Tokens :
           \/ Register(t) \/ Verify(t) \/ Reset(t)
           \/ \E p \in {"verify_email", "password_reset"} : Issue(t, p)
    \/ \E s \in Logins, p \in 1 .. password : Login(s, p)
    \/ Look \/ GiveUp

Spec == Init /\ [][Next]_vars
=============================================================================
