---------------------------- MODULE SessionChain ----------------------------
(***************************************************************************)
(* What refresh-token sessions come to for those who hold the tokens       *)
(* ("Rotated refresh credentials are separate rows [...]; reuse revokes    *)
(* the entire logical session", docs/architecture.md:5): a session is a    *)
(* chain of tokens. Only its newest token can be exchanged, once and for   *)
(* one successor, and only while it has not been revoked. A chain expires  *)
(* as a whole: from then on no exchange of its tokens begins, and at most  *)
(* the one that had begun is completed. A revocation cuts off the tokens   *)
(* of a chain from the first up to some point of it, and what is cut off   *)
(* stays so. The chain goes on exactly if the newest token lies beyond the *)
(* cut. How requests, row locks and UPDATE statements come to this is the  *)
(* business of Sessions, which is shown to implement this module.          *)
(***************************************************************************)
EXTENDS Integers

CONSTANT Families

VARIABLES
    issued,    \* issued[f]: how many tokens the chain f has
    spent,     \* spent[f]: the tokens that were exchanged
    cut,       \* cut[f]: the tokens that were revoked
    over,      \* the chains that have expired
    inExchange \* the chains whose newest token has been accepted for exchange

vars == <<issued, spent, cut, over, inExchange>>

Init ==
    /\ issued = [f \in Families |-> 0]
    /\ spent = [f \in Families |-> {}]
    /\ cut = [f \in Families |-> {}]
    /\ over = {}
    /\ inExchange = {}

Open(f) ==
    /\ issued[f] = 0
    /\ issued' = [issued EXCEPT ![f] = 1]
    /\ UNCHANGED <<spent, cut, over, inExchange>>

Usable(f) == issued[f] > 0 /\ issued[f] \notin spent[f] \cup cut[f]

\* One exchange of a chain is under way at a time.
Accept(f) ==
    /\ Usable(f)
    /\ f \notin over \cup inExchange
    /\ inExchange' = inExchange \cup {f}
    /\ UNCHANGED <<issued, spent, cut, over>>

\* The request is lost, or the user not active.
GiveUp(f) ==
    /\ f \in inExchange
    /\ inExchange' = inExchange \ {f}
    /\ UNCHANGED <<issued, spent, cut, over>>

Exchange(f) ==
    /\ Usable(f)
    /\ f \in inExchange
    /\ inExchange' = inExchange \ {f}
    /\ spent' = [spent EXCEPT ![f] = @ \cup {issued[f]}]
    /\ issued' = [issued EXCEPT ![f] = @ + 1]
    /\ UNCHANGED <<cut, over>>

Expire(f) ==
    /\ issued[f] > 0
    /\ over' = over \cup {f}
    /\ UNCHANGED <<issued, spent, cut, inExchange>>

\* One request may cut several chains, each at a point of its own: a token is
\* cut off with all that came before it.
Revoke ==
    /\ cut' \in [Families -> SUBSET Nat]
    /\ \A f \in Families :
           /\ cut[f] \subseteq cut'[f] /\ cut'[f] \subseteq 1 .. issued[f]
           /\ \A g \in cut'[f] : 1 .. g \subseteq cut'[f]
    /\ UNCHANGED <<issued, spent, over, inExchange>>

Next ==
    \/ \E f \in Families :
           Open(f) \/ Accept(f) \/ GiveUp(f) \/ Exchange(f) \/ Expire(f)
    \/ Revoke

Spec == Init /\ [][Next]_vars
=============================================================================
