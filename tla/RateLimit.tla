----------------------------- MODULE RateLimit ------------------------------
(***************************************************************************)
(* The rate limiter of login, request_reset, resend_verification and       *)
(* invite: enforce_rate_limit (api/rate_limit.py) runs one Lua script in   *)
(* Redis (infrastructure/redis.py) before anything else the endpoint does. *)
(* One key is modelled, that is one scope, client address and account;     *)
(* keys share nothing.                                                     *)
(*                                                                         *)
(* Redis runs a script atomically.  The reply may be lost on its way: the  *)
(* script has counted and the caller gets a RedisError.  A client library  *)
(* that sends the command again after that is a ReplyLost followed by      *)
(* another Hit.  When the command does not reach Redis nothing is counted  *)
(* and the endpoint answers 503: the state does not change.                *)
(***************************************************************************)
EXTENDS Integers

CONSTANTS
    Limit,      \* requests that a window admits
    Window      \* length of a window, in ticks

ASSUME LimiterAssumption ==
    /\ Limit \in Nat \ {0}
    /\ Window \in Nat \ {0}

VARIABLES
    count,     \* value of the key, 0 when there is none (bound: counts above
               \* Limit + 1 are taken as Limit + 1)
    ttl,       \* ticks until the key expires, 0 when it does not
    watch,     \* history: ticks that remain of an interval somebody watches
    admitted   \* history: requests let through in that interval

limiterVars == <<count, ttl, watch, admitted>>

LimiterInit ==
    /\ count = 0
    /\ ttl = 0
    /\ watch = 0
    /\ admitted = 0

-----------------------------------------------------------------------------
Counted == IF count > Limit THEN count ELSE count + 1

\* Plausible bug: INCR and EXPIRE are two commands and only one arrives.
IncrementOnly ==
    /\ count' = Counted
    /\ UNCHANGED ttl

\* RATE_LIMIT_SCRIPT: INCR, and EXPIRE when the key is new.
Script ==
    /\ count' = Counted
    /\ ttl' = IF Counted = 1 THEN Window ELSE ttl

Admit ==
    /\ admitted' = IF watch > 0 THEN admitted + 1 ELSE admitted
    /\ UNCHANGED watch

Refuse == UNCHANGED <<watch, admitted>>

\* enforce_rate_limit: the request is let through up to the limit, and
\* answered 429 above it.
Hit ==
    /\ Script
    /\ IF Counted <= Limit THEN Admit ELSE Refuse

\* Plausible bug: a request whose count is unknown is let through.
FailOpen ==
    /\ Script
    /\ Admit

\* enforce_rate_limit: the script has run but the reply is lost; the request
\* is answered 503.
ReplyLost ==
    /\ Script
    /\ Refuse

\* Time passes; Redis drops the key when it expires.
Tick ==
    /\ ttl > 0 \/ watch > 0
    /\ ttl' = IF ttl > 0 THEN ttl - 1 ELSE 0
    /\ count' = IF ttl = 1 THEN 0 ELSE count
    /\ watch' = IF watch > 0 THEN watch - 1 ELSE 0
    /\ UNCHANGED admitted

\* Somebody begins to count, at any moment and for as long as a window.
Watch ==
    /\ watch = 0
    /\ watch' = Window
    /\ admitted' = 0
    /\ UNCHANGED <<count, ttl>>

LimiterNext ==
    \/ Hit
    \/ ReplyLost
    \/ Tick
    \/ Watch

\* Time passes.
LimiterFairness == WF_limiterVars(Tick)

LimiterSpec == LimiterInit /\ [][LimiterNext]_limiterVars /\ LimiterFairness

-----------------------------------------------------------------------------
\* The variables hold values of their types; a key always expires.
LimiterTypeOK ==
    /\ count \in 0 .. Limit + 1
    /\ ttl \in 0 .. Window
    /\ watch \in 0 .. Window
    /\ admitted \in Nat
    /\ count > 0 <=> ttl > 0

\* However the requests fall, across the edge of two windows and with replies
\* lost, no interval as long as a window lets more than twice the limit
\* through.
AtMostTwiceTheLimit == admitted <= 2 * Limit

\* Who is refused does not stay refused, even by trying all the time.
RefusalEnds == count >= Limit ~> count < Limit
=============================================================================
