---------------------------- MODULE AtLeastOnce ----------------------------
(***************************************************************************)
(* What the transactional outbox promises to the code that writes events   *)
(* into it (docs/architecture.md, "Business mutations and outbox events    *)
(* commit together"): an event that was committed is mailed at least once  *)
(* before it counts as processed, it is given up only after MaxTries       *)
(* failed tries, and the raw token stays in its row until it is processed. *)
(* How workers, leases and clocks achieve this is the business of Outbox,  *)
(* which is shown to implement this module.                                *)
(***************************************************************************)
EXTENDS Integers

CONSTANTS Events, MaxTries

VARIABLES
    stage,    \* stage[e]: "unborn", "pending", "processed" or "dead"
    tries,    \* tries[e]: failed tries that were recorded
    mailed,   \* the events that the mail server accepted at least once
    secret    \* the events whose row holds the raw token

vars == <<stage, tries, mailed, secret>>

Init ==
    /\ stage = [e \in Events |-> "unborn"]
    /\ tries = [e \in Events |-> 0]
    /\ mailed = {}
    /\ secret = {}

Publish(e) ==
    /\ stage[e] = "unborn"
    /\ stage' = [stage EXCEPT ![e] = "pending"]
    /\ secret' = secret \cup {e}
    /\ UNCHANGED <<tries, mailed>>

\* A mail may leave late: a worker that lost its lease still delivers.
Mail(e) ==
    /\ stage[e] # "unborn"
    /\ mailed' = mailed \cup {e}
    /\ UNCHANGED <<stage, tries, secret>>

Acknowledge(e) ==
    /\ stage[e] = "pending"
    /\ e \in mailed
    /\ stage' = [stage EXCEPT ![e] = "processed"]
    /\ secret' = secret \ {e}
    /\ UNCHANGED <<tries, mailed>>

Retry(e) ==
    /\ stage[e] = "pending"
    /\ tries[e] + 1 < MaxTries
    /\ tries' = [tries EXCEPT ![e] = @ + 1]
    /\ UNCHANGED <<stage, mailed, secret>>

GiveUp(e) ==
    /\ stage[e] = "pending"
    /\ tries[e] + 1 = MaxTries
    /\ tries' = [tries EXCEPT ![e] = MaxTries]
    /\ stage' = [stage EXCEPT ![e] = "dead"]
    /\ UNCHANGED <<mailed, secret>>

Next ==
    \E e \in Events :
        Publish(e) \/ Mail(e) \/ Acknowledge(e) \/ Retry(e) \/ GiveUp(e)

Spec == Init /\ [][Next]_vars
=============================================================================
