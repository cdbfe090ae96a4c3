------------------------------- MODULE Roster -------------------------------
(***************************************************************************)
(* What an organization promises about who belongs to it                   *)
(* (modules/organizations/service.py), with neither locks nor reads.       *)
(*                                                                         *)
(* Whatever managers do is done under a mandate that require_membership    *)
(* gave the request when it began.  A mandate is not withdrawn: it says    *)
(* what its bearer was then, and is used once, however the bearer's own    *)
(* membership has changed since.  Joining needs no mandate but an          *)
(* invitation, which is used once too.                                     *)
(***************************************************************************)
EXTENDS Integers

CONSTANTS
    Users,
    Requests,
    Invites,
    NoUser

VARIABLES
    founded,    \* the organization exists
    role,       \* role[u]: what u is in it; "none" if not a member
    invitee,    \* invitee[i]: whom invitation i is for, if it exists
    offer,      \* offer[i]: the role it offers
    accepted,   \* invitations that have been accepted
    revoked,    \* invitations that have been revoked
    mandate     \* mandate[q]: on whose behalf q acts, and what they were

vars == <<founded, role, invitee, offer, accepted, revoked, mandate>>

NoMandate == [by |-> NoUser, as |-> "none"]

\* Renaming, inviting and revoking are for every manager alike; which of them
\* it was does not matter later.
Errand == [by |-> NoUser, as |-> "admin"]

Init ==
    /\ founded = FALSE
    /\ role = [u \in Users |-> "none"]
    /\ invitee = [i \in Invites |-> NoUser]
    /\ offer = [i \in Invites |-> "none"]
    /\ accepted = {}
    /\ revoked = {}
    /\ mandate = [q \in Requests |-> NoMandate]

\* The organization is created, once, and its creator owns it.
Found(u) ==
    /\ ~founded
    /\ founded' = TRUE
    /\ role' = [role EXCEPT ![u] = "owner"]
    /\ UNCHANGED <<invitee, offer, accepted, revoked, mandate>>

\* q is let in for u, who manages the organization, to change who belongs.
Mandate(q, u) ==
    /\ mandate[q] = NoMandate
    /\ role[u] \in {"owner", "admin"}
    /\ mandate' = [mandate EXCEPT ![q] = [by |-> u, as |-> role[u]]]
    /\ UNCHANGED <<founded, role, invitee, offer, accepted, revoked>>

\* q is let in, for some manager, on an errand.
Send(q) ==
    /\ mandate[q] = NoMandate
    /\ \E u \in Users : role[u] \in {"owner", "admin"}
    /\ mandate' = [mandate EXCEPT ![q] = Errand]
    /\ UNCHANGED <<founded, role, invitee, offer, accepted, revoked>>

\* q renames the organization, is refused, or is given up.
GiveUp == UNCHANGED <<founded, role, invitee, offer, accepted, revoked>>

\* What q may make of u: only owners give roles, and only to members; an owner
\* stays one until somebody who was an owner says otherwise and another owner
\* remains; but whoever was an admin may leave, whatever they have become.
Permitted(q, u, r) ==
    /\ r # "none" => mandate[q].as = "owner" /\ role[u] # "none"
    /\ role[u] = "owner" /\ r # "owner" =>
           \/ mandate[q].as = "owner" /\ \E o \in Users \ {u} : role[o] = "owner"
           \/ mandate[q] = [by |-> u, as |-> "admin"] /\ r = "none"

\* q gives u another role, or ends the membership.
SetRole(q, u, r) ==
    /\ Permitted(q, u, r)
    /\ role' = [role EXCEPT ![u] = r]
    /\ UNCHANGED <<founded, invitee, offer, accepted, revoked>>

\* u is invited; ownership is not offered.
Invite(i, u, r) ==
    /\ invitee[i] = NoUser
    /\ invitee' = [invitee EXCEPT ![i] = u]
    /\ offer' = [offer EXCEPT ![i] = r]
    /\ UNCHANGED <<founded, role, accepted, revoked>>

\* An invitation is revoked, which may be one that has been accepted.
Revoke(i) ==
    /\ invitee[i] # NoUser
    /\ revoked' = revoked \cup {i}
    /\ UNCHANGED <<founded, role, invitee, offer, accepted>>

\* The mandate of q is used, once, or comes to nothing.
Use(q) ==
    /\ mandate[q] # NoMandate
    /\ mandate' = [mandate EXCEPT ![q] = NoMandate]
    /\ \/ GiveUp
       \/ \E u \in Users, r \in {"owner", "admin", "member", "none"} : SetRole(q, u, r)
       \/ \E i \in Invites, u \in Users, r \in {"admin", "member"} : Invite(i, u, r)
       \/ \E i \in Invites : Revoke(i)

\* The one invited uses the invitation up.  Somebody who was a member when
\* asked keeps what they have, even if that is nothing any more.
Accept(i) ==
    /\ invitee[i] # NoUser
    /\ i \notin accepted \cup revoked
    /\ accepted' = accepted \cup {i}
    /\ \/ role[invitee[i]] = "none" /\ role' = [role EXCEPT ![invitee[i]] = offer[i]]
       \/ UNCHANGED role
    /\ UNCHANGED <<founded, invitee, offer, revoked, mandate>>

Next ==
    \/ \E u \in Users : Found(u)
    \/ \E i \in Invites : Accept(i)
    \/ \E q \in Requests :
           \/ \E u \in Users : Mandate(q, u)
           \/ Send(q)
           \/ Use(q)

Spec == Init /\ [][Next]_vars
=============================================================================
