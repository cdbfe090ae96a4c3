--------------------------- MODULE Organizations ---------------------------
(***************************************************************************)
(* One organization and its memberships (modules/organizations/service.py):*)
(* its creation and renaming, role changes and removals, which lock the    *)
(* organization's row, and invitations, which lock their own.              *)
(*                                                                         *)
(* A request is a PostgreSQL transaction at READ COMMITTED with one        *)
(* SQLAlchemy session.  It is authorised before it locks anything, and the *)
(* session goes on using a membership object it still refers to instead of *)
(* reading the row again.  Inserting a membership, an invitation or an     *)
(* audit event needs a key-share lock on the organization, for the foreign *)
(* key, and so waits for whoever has locked the row FOR UPDATE.  The lock  *)
(* is kept to the commit, which matters for accept alone: only there may   *)
(* something be waited for after it, the primary key of memberships.       *)
(***************************************************************************)
EXTENDS Integers, FiniteSets

CONSTANTS
    Users,
    Requests,    \* requests in flight
    NoRequest,
    Invites,     \* bound: invitations that can be created
    NoUser

ASSUME OrganizationsAssumption ==
    /\ NoRequest \notin Requests
    /\ NoUser \notin Users
    /\ IsFiniteSet(Users)

\* Nothing here tells a viewer from a member; "none" is the absence of a row.
Roles == {"owner", "admin", "member"}
Managers == {"owner", "admin"}

VARIABLES
    founded,    \* the organization's row has been committed
    role,       \* role[u]: the membership row of u
    orgLock,    \* the request that has the organization FOR UPDATE
    invitee,    \* invitee[i]: whose address invitation i went to, if it exists
    offer,      \* offer[i]: the role it offers
    accepted,   \* invitations with accepted_at
    revoked,    \* invitations with revoked_at
    expired,    \* invitations past expires_at
    invLock,    \* invLock[i]: the request that has i FOR UPDATE
    req         \* req[q]: what request q is doing and has read

invitations == <<invitee, offer, accepted, revoked, expired, invLock>>
vars == <<founded, role, orgLock, invitations, req>>

Idle == [pc |-> "idle"]

Owners == {u \in Users : role[u] = "owner"}

Init ==
    /\ founded = FALSE
    /\ role = [u \in Users |-> "none"]
    /\ orgLock = NoRequest
    /\ invitee = [i \in Invites |-> NoUser]
    /\ offer = [i \in Invites |-> "none"]
    /\ accepted = {}
    /\ revoked = {}
    /\ expired = {}
    /\ invLock = [i \in Invites |-> NoRequest]
    /\ req = [q \in Requests |-> Idle]

\* Plausible bug: the session of a request is not closed when it ends.
DoneKeepingLocks(q) ==
    /\ req' = [req EXCEPT ![q] = Idle]
    /\ UNCHANGED <<orgLock, invLock>>

\* The transaction of q ends and its row locks are released.
Done(q) ==
    /\ req' = [req EXCEPT ![q] = Idle]
    /\ orgLock' = IF orgLock = q THEN NoRequest ELSE orgLock
    /\ invLock' = [i \in Invites |-> IF invLock[i] = q THEN NoRequest ELSE invLock[i]]

-----------------------------------------------------------------------------
\* create: the flush inserts the row, which only this transaction sees.  The
\* unique index on the slug makes another creation wait here; once the first
\* has committed it is refused, with nothing written.
CreateFlush(q, creator) ==
    /\ req[q].pc = "idle"
    /\ ~founded
    /\ orgLock = NoRequest
    /\ orgLock' = q
    /\ req' = [req EXCEPT ![q] = [pc |-> "found", actor |-> creator]]
    /\ UNCHANGED <<founded, role, invitations>>

\* create: the organization, its creator's membership and the audit event
\* commit.
CreateCommit(q) ==
    /\ req[q].pc = "found"
    /\ founded' = TRUE
    /\ role' = [role EXCEPT ![req[q].actor] = "owner"]
    /\ Done(q)
    /\ UNCHANGED <<invitee, offer, accepted, revoked, expired>>

\* update: require_membership.
UpdateAuthorise(q, actor) ==
    /\ req[q].pc = "idle"
    /\ role[actor] \in Managers
    /\ req' = [req EXCEPT ![q] = [pc |-> "rename"]]
    /\ UNCHANGED <<founded, role, orgLock, invitations>>

\* update: the name, which nothing here depends on, is overwritten, with an
\* audit event.
UpdateCommit(q) ==
    /\ req[q].pc = "rename"
    /\ orgLock = NoRequest
    /\ Done(q)
    /\ UNCHANGED <<founded, role, invitee, offer, accepted, revoked, expired>>

-----------------------------------------------------------------------------
\* change_role and remove_member: require_membership lets the request in.
\* The session keeps the membership object only while remove_member refers to
\* it; change_role drops it.
Authorise(q, kind, actor, target, to) ==
    /\ req[q].pc = "idle"
    /\ \/ kind = "change_role" /\ role[actor] = "owner" /\ to \in Roles
       \/ kind = "remove_member" /\ role[actor] \in Managers /\ to = "none"
    /\ req' = [req EXCEPT ![q] =
                  [pc |-> "lock", kind |-> kind, actor |-> actor,
                   target |-> target, to |-> to, cached |-> role[actor], seen |-> "none"]]
    /\ UNCHANGED <<founded, role, orgLock, invitations>>

\* What lock_member's db.get returns: the row as it is now, or the object that
\* require_membership loaded when remove_member is about the actor itself.
RoleRead(q) ==
    IF req[q].kind = "remove_member" /\ req[q].actor = req[q].target
    THEN req[q].cached ELSE role[req[q].target]

\* Plausible bug: protect_owner is off by one.
RefusedLate(q, read) ==
    \/ read = "none"
    \/ req[q].kind = "remove_member" /\ req[q].cached = "admin" /\ read = "owner"
    \/ read = "owner" /\ req[q].to # "owner" /\ Cardinality(Owners) < 1

\* The refusals after the lock: no such member, an admin against an owner,
\* and protect_owner, which counts the owners in the database.
Refused(q, read) ==
    \/ read = "none"
    \/ req[q].kind = "remove_member" /\ req[q].cached = "admin" /\ read = "owner"
    \/ read = "owner" /\ req[q].to # "owner" /\ Cardinality(Owners) <= 1

\* Plausible bug: lock_member reads without SELECT ... FOR UPDATE.
LockMemberUnlocked(q) ==
    /\ req[q].pc = "lock"
    /\ LET read == RoleRead(q) IN
       \/ Refused(q, read) /\ Done(q)
       \/ /\ ~Refused(q, read)
          /\ req' = [req EXCEPT ![q] = [@ EXCEPT !.pc = "write", !.seen = read]]
          /\ UNCHANGED <<orgLock, invLock>>
    /\ UNCHANGED <<founded, role, invitee, offer, accepted, revoked, expired>>

\* Acceptances that have inserted what they have to and not committed, and so
\* have the organization's key share-locked.
KeySharers == {q \in Requests : req[q].pc = "joined"}

\* lock_member, then the checks.  Nobody else can write a membership once the
\* organization is locked, so the reads that follow are one step with it.
LockMember(q) ==
    /\ req[q].pc = "lock"
    /\ orgLock = NoRequest
    /\ KeySharers = {}
    /\ LET read == RoleRead(q) IN
       \/ Refused(q, read) /\ Done(q)
       \/ /\ ~Refused(q, read)
          /\ orgLock' = q
          /\ req' = [req EXCEPT ![q] = [@ EXCEPT !.pc = "write", !.seen = read]]
          /\ UNCHANGED invLock
    /\ UNCHANGED <<founded, role, invitee, offer, accepted, revoked, expired>>

\* The role is changed or the row deleted (a row that is gone already matches
\* nothing), the audit event inserted, and both commit.
WriteMember(q) ==
    /\ req[q].pc = "write"
    /\ role' = [role EXCEPT ![req[q].target] = req[q].to]
    /\ Done(q)
    /\ UNCHANGED <<founded, invitee, offer, accepted, revoked, expired>>

-----------------------------------------------------------------------------
\* invite: require_membership; the invitation has an id of its own.
InviteAuthorise(q, actor, i, u, r) ==
    /\ req[q].pc = "idle"
    /\ role[actor] \in Managers
    /\ invitee[i] = NoUser
    /\ \A p \in Requests : req[p].pc = "invite" => req[p].inv # i
    /\ req' = [req EXCEPT ![q] = [pc |-> "invite", inv |-> i, target |-> u, to |-> r]]
    /\ UNCHANGED <<founded, role, orgLock, invitations>>

\* invite: the invitation, its audit event and the outbox event commit.
InviteCommit(q) ==
    /\ req[q].pc = "invite"
    /\ orgLock = NoRequest
    /\ invitee' = [invitee EXCEPT ![req[q].inv] = req[q].target]
    /\ offer' = [offer EXCEPT ![req[q].inv] = req[q].to]
    /\ Done(q)
    /\ UNCHANGED <<founded, role, accepted, revoked, expired>>

\* Seven days pass.
Expire(i) ==
    /\ invitee[i] # NoUser
    /\ i \notin expired
    /\ expired' = expired \cup {i}
    /\ UNCHANGED <<founded, role, orgLock, invitee, offer, accepted, revoked, invLock, req>>

\* revoke_invitation: require_membership.
RevokeAuthorise(q, actor, i) ==
    /\ req[q].pc = "idle"
    /\ invitee[i] # NoUser
    /\ role[actor] \in Managers
    /\ req' = [req EXCEPT ![q] = [pc |-> "revoke", inv |-> i]]
    /\ UNCHANGED <<founded, role, orgLock, invitations>>

\* revoke_invitation: the row is locked.  Whether it has been accepted is not
\* looked at.
RevokeLock(q) ==
    /\ req[q].pc = "revoke"
    /\ invLock[req[q].inv] = NoRequest
    /\ invLock' = [invLock EXCEPT ![req[q].inv] = q]
    /\ req' = [req EXCEPT ![q].pc = "revoking"]
    /\ UNCHANGED <<founded, role, orgLock, invitee, offer, accepted, revoked, expired>>

\* revoke_invitation: revoked_at and the audit event commit.
RevokeCommit(q) ==
    /\ req[q].pc = "revoking"
    /\ orgLock = NoRequest
    /\ revoked' = revoked \cup {req[q].inv}
    /\ Done(q)
    /\ UNCHANGED <<founded, role, invitee, offer, accepted, expired>>

\* Plausible bug: accept reads the invitation without FOR UPDATE.
AcceptReadUnlocked(q, i) ==
    /\ req[q].pc = "idle"
    /\ invitee[i] # NoUser
    /\ i \notin accepted \cup revoked \cup expired
    /\ req' = [req EXCEPT ![q] = [pc |-> "accept", actor |-> invitee[i], inv |-> i]]
    /\ UNCHANGED <<founded, role, orgLock, invitations>>

\* accept: the invited account presents the token, and the row is locked and
\* checked.  (A revoked, expired or accepted invitation, or another account,
\* ends the request here with nothing written.)
AcceptLock(q, i) ==
    /\ req[q].pc = "idle"
    /\ invitee[i] # NoUser
    /\ invLock[i] = NoRequest
    /\ i \notin accepted \cup revoked \cup expired
    /\ invLock' = [invLock EXCEPT ![i] = q]
    /\ req' = [req EXCEPT ![q] = [pc |-> "accept", actor |-> invitee[i], inv |-> i]]
    /\ UNCHANGED <<founded, role, orgLock, invitee, offer, accepted, revoked, expired>>

\* accept: db.get(Membership), with only the invitation locked.
AcceptRead(q) ==
    /\ req[q].pc = "accept"
    /\ req' = [req EXCEPT ![q] =
                  [pc |-> "accepting", actor |-> req[q].actor, inv |-> req[q].inv,
                   absent |-> role[req[q].actor] = "none"]]
    /\ UNCHANGED <<founded, role, orgLock, invitations>>

\* Acceptances that have inserted a membership of u and not committed.
Inserting(u) == {q \in KeySharers : req[q].absent /\ req[q].actor = u}

\* accept: the commit flushes the audit event, which share-locks the
\* organization's key, then accepted_at, and last the membership if there was
\* none.  Its primary key makes it wait for another acceptance of the same
\* account that has inserted the row too; if that one, or an earlier one, has
\* committed, everything is rolled back.
AcceptInsert(q) ==
    /\ req[q].pc = "accepting"
    /\ orgLock = NoRequest
    /\ req[q].absent => Inserting(req[q].actor) = {}
    /\ IF req[q].absent /\ role[req[q].actor] # "none"
       THEN Done(q)
       ELSE /\ req' = [req EXCEPT ![q].pc = "joined"]
            /\ UNCHANGED <<orgLock, invLock>>
    /\ UNCHANGED <<founded, role, invitee, offer, accepted, revoked, expired>>

\* accept: what has been flushed commits.
AcceptCommit(q) ==
    /\ req[q].pc = "joined"
    /\ accepted' = accepted \cup {req[q].inv}
    /\ role' = IF req[q].absent
               THEN [role EXCEPT ![req[q].actor] = offer[req[q].inv]]
               ELSE role
    /\ Done(q)
    /\ UNCHANGED <<founded, invitee, offer, revoked, expired>>

-----------------------------------------------------------------------------
\* The client or the database goes away before the commit.
Rollback(q) ==
    /\ req[q].pc # "idle"
    /\ Done(q)
    /\ UNCHANGED <<founded, role, invitee, offer, accepted, revoked, expired>>

\* The steps of a request once it has begun.
Proceed(q) ==
    \/ CreateCommit(q)
    \/ UpdateCommit(q)
    \/ LockMember(q)
    \/ WriteMember(q)
    \/ InviteCommit(q)
    \/ RevokeLock(q)
    \/ RevokeCommit(q)
    \/ AcceptRead(q)
    \/ AcceptInsert(q)
    \/ AcceptCommit(q)

Next ==
    \/ \E i \in Invites : Expire(i)
    \/ \E q \in Requests :
           \/ \E creator \in Users : CreateFlush(q, creator)
           \/ \E actor \in Users : UpdateAuthorise(q, actor)
           \/ \E kind \in {"change_role", "remove_member"}, actor, target \in Users,
                 to \in Roles \cup {"none"} : Authorise(q, kind, actor, target, to)
           \/ \E actor, u \in Users, i \in Invites, r \in {"admin", "member"} :
                  InviteAuthorise(q, actor, i, u, r)
           \/ \E actor \in Users, i \in Invites : RevokeAuthorise(q, actor, i)
           \/ \E i \in Invites : AcceptLock(q, i)
           \/ Proceed(q)
           \/ Rollback(q)

Spec == Init /\ [][Next]_vars

-----------------------------------------------------------------------------
Requested ==
    {Idle}
    \cup [pc : {"found"}, actor : Users]
    \cup [pc : {"rename"}]
    \cup [pc : {"lock", "write"}, kind : {"change_role", "remove_member"},
          actor : Users, target : Users, to : Roles \cup {"none"},
          cached : Managers, seen : Roles \cup {"none"}]
    \cup [pc : {"invite"}, inv : Invites, target : Users, to : {"admin", "member"}]
    \cup [pc : {"revoke", "revoking"}, inv : Invites]
    \cup [pc : {"accept"}, actor : Users, inv : Invites]
    \cup [pc : {"accepting", "joined"}, actor : Users, inv : Invites, absent : BOOLEAN]

\* The variables hold values of their types, and a lock is held by a request
\* that is between taking it and its commit.
TypeOK ==
    /\ founded \in BOOLEAN
    /\ role \in [Users -> Roles \cup {"none"}]
    /\ orgLock \in Requests \cup {NoRequest}
    /\ invitee \in [Invites -> Users \cup {NoUser}]
    /\ offer \in [Invites -> {"admin", "member", "none"}]
    /\ accepted \in SUBSET Invites
    /\ revoked \in SUBSET Invites
    /\ expired \in SUBSET Invites
    /\ invLock \in [Invites -> Requests \cup {NoRequest}]
    /\ req \in [Requests -> Requested]
    /\ \A q \in Requests : orgLock = q <=> req[q].pc \in {"found", "write"}
    /\ \A i \in Invites, q \in Requests :
           invLock[i] = q <=>
               req[q].pc \in {"revoking", "accept", "accepting", "joined"} /\ req[q].inv = i

\* Two requests about memberships exclude each other from the lock to the
\* commit, so a role change writes the audit event's "from" as the role it
\* replaces; only a removal of oneself may act on an older role.
AuditedRoleIsCurrent ==
    \A q \in Requests : req[q].pc = "write" =>
        \/ req[q].seen = role[req[q].target]
        \/ req[q].kind = "remove_member" /\ req[q].actor = req[q].target

\* An organization comes to be without an owner only in one way: the last one
\* removes itself with a request that was authorised before it was promoted,
\* whose session still has the role admin.  Whatever else races, creation
\* leaves an owner and protect_owner keeps one.
LastOwnerLeavesOnlyStale ==
    [][(founded => Owners # {}) /\ founded' /\ Owners' = {} =>
          \E q \in Requests :
              /\ req[q].pc = "write" /\ req[q].kind = "remove_member"
              /\ req[q].actor = req[q].target
              /\ req[q].cached = "admin"]_vars

\* On whose behalf a request writes, and what that manager was when
\* require_membership let the request in.
MandateOf(r) ==
    IF r.pc \in {"lock", "write"} THEN [by |-> r.actor, as |-> r.cached]
    ELSE IF r.pc \in {"rename", "invite", "revoke", "revoking"}
    THEN [by |-> NoUser, as |-> "admin"]
    ELSE [by |-> NoUser, as |-> "none"]

Mandates == [q \in Requests |-> MandateOf(req[q])]

R == INSTANCE Roster WITH mandate <- Mandates

\* Whatever the requests read early and however their locks interleave, who is
\* a member changes as Roster allows: each change by a request that was let in
\* for it and commits once, each admission by an invitation neither used nor
\* revoked, and no owner ends but by an owner's request that leaves another, or
\* by leaving as the admin they were.
RosterSpec == R!Spec

\* A request waits for the one that holds the row it has to lock, or whose
\* key it has to share-lock for what it inserts; for those that have the key
\* share-locked; and for the one that has inserted the same membership.
WaitsFor(q, p) ==
    \/ req[q].pc \in {"rename", "lock", "invite", "revoking", "accepting"} /\ orgLock = p
    \/ req[q].pc = "lock" /\ p \in KeySharers
    \/ req[q].pc = "revoke" /\ invLock[req[q].inv] = p
    \/ req[q].pc = "accepting" /\ req[q].absent /\ p \in Inserting(req[q].actor)

Waits(q) == \E p \in Requests : WaitsFor(q, p)

\* While a request is under way, one that is waits for nobody.
SomebodyProceeds ==
    (\E q \in Requests : req[q].pc # "idle") =>
        \E q \in Requests : req[q].pc # "idle" /\ ~Waits(q)

\* Requests never all wait for each other: the locks of invitations, of the
\* organization and of a membership's key are always taken in that order and
\* never left behind; and nothing but these keeps a request from its next step.
NoStandstill ==
    /\ SomebodyProceeds
    /\ \A q \in Requests : req[q].pc # "idle" => (Waits(q) <=> ~ENABLED Proceed(q))

\* "Organization row locks serialize owner changes, preserving the final-owner
\* invariant" (docs/architecture.md:7): an organization never loses its last
\* owner.
FinalOwner == founded => Owners # {}
=============================================================================
