----------------------------- MODULE MCServices -----------------------------
(***************************************************************************)
(* Instances of RateLimit, Labels and Listing for TLC.  The three share no *)
(* state, so that a behaviour of one, with the others in their initial     *)
(* states, shows what it does next to them: each behaviour checked here is *)
(* one of the component that "part" names.                                 *)
(***************************************************************************)
EXTENDS RateLimit, Labels, Listing

VARIABLE part

Init ==
    /\ LimiterInit /\ LabelsInit /\ ListingInit
    /\ part \in {"limiter", "labels", "listing"}

Next ==
    \/ part = "limiter" /\ LimiterNext /\ UNCHANGED <<part, labelVars, listingVars>>
    \/ part = "labels" /\ LabelsNext /\ UNCHANGED <<part, limiterVars, listingVars>>
    \/ part = "listing" /\ ListingNext /\ UNCHANGED <<part, limiterVars, labelVars>>

vars == <<part, limiterVars, labelVars, listingVars>>

Spec == Init /\ [][Next]_vars /\ LimiterFairness

\* The type invariants of the three components.
TypeOK == LimiterTypeOK /\ LabelsTypeOK /\ ListingTypeOK
=============================================================================
