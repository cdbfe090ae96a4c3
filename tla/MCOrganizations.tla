-------------------------- MODULE MCOrganizations --------------------------
(* Instances of Organizations for TLC.                                     *)
EXTENDS Organizations, TLC

\* Users, requests and invitations are interchangeable in every safety
\* property.
MCSymmetry ==
    Permutations(Users) \cup Permutations(Requests) \cup Permutations(Invites)
=============================================================================
