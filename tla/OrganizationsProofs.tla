------------------------ MODULE OrganizationsProofs ------------------------
(***************************************************************************)
(* Who can lose or gain a membership, for any number of users, requests    *)
(* and invitations.                                                        *)
(*                                                                         *)
(* Between lock_member and its commit a request is alone with the          *)
(* memberships: what its checks found (Checked) stays true.  An acceptance *)
(* is alone with its invitation (Admitting), whose columns are written     *)
(* once (Inviting).                                                        *)
(*                                                                         *)
(* Row locks are taken in one order, invitations first, so that requests   *)
(* never wait for each other in a circle (WaitingIsShort).                 *)
(*                                                                         *)
(* What a request had read still binds it at its commit, so that its       *)
(* steps are steps of Roster: with its mandate, or with an invitation.     *)
(***************************************************************************)
EXTENDS Organizations, FiniteSetTheorems, TLAPS

USE OrganizationsAssumption

\* A request about a membership carries what its endpoint takes.
Asked ==
    \A q \in Requests : req[q].pc \in {"lock", "write"} =>
        IF req[q].kind = "remove_member"
        THEN req[q].to = "none"
        ELSE req[q].to # "none" /\ req[q].cached = "owner"

\* What the checks after lock_member have established.
Checked ==
    \A q \in Requests : req[q].pc = "write" =>
        /\ req[q].seen # "none"
        /\ req[q].kind = "remove_member" /\ req[q].cached = "admin" => req[q].seen # "owner"
        /\ req[q].seen = "owner" /\ req[q].to # "owner" =>
               \E u \in Owners : u # req[q].target
        /\ IF req[q].kind = "remove_member" /\ req[q].actor = req[q].target
           THEN req[q].seen = req[q].cached
           ELSE req[q].seen = role[req[q].target]

\* An invitation being created is nobody's yet, and has one creator.
Inviting ==
    \A q \in Requests : req[q].pc = "invite" =>
        /\ invitee[req[q].inv] = NoUser
        /\ \A p \in Requests \ {q} : req[p].pc = "invite" => req[p].inv # req[q].inv

\* An invitation being accepted is its account's and can still be used.
Admitting ==
    \A q \in Requests : req[q].pc \in {"accept", "accepting", "joined"} =>
        /\ invitee[req[q].inv] = req[q].actor
        /\ req[q].inv \notin accepted \cup revoked

\* An invitation being revoked is there.
Revoking == \A q \in Requests :
    req[q].pc \in {"revoke", "revoking"} => invitee[req[q].inv] # NoUser

\* An organization being created is not there yet.
Founding == \A q \in Requests : req[q].pc = "found" => ~founded

\* What each request has found and still relies on.
Base == TypeOK /\ Founding /\ Asked /\ Checked /\ Inviting /\ Revoking /\ Admitting

\* Before the organization is founded there is nothing else to do.
FoundedFirst ==
    ~founded =>
        /\ \A u \in Users : role[u] = "none"
        /\ \A i \in Invites : invitee[i] = NoUser
        /\ \A q \in Requests : req[q].pc \in {"idle", "found"}

\* Two acceptances that have inserted the same membership.
SameKey(r1, r2) ==
    /\ r1.pc = "joined" /\ r1.absent
    /\ r2.pc = "joined" /\ r2.absent
    /\ r1.actor = r2.actor

\* An acceptance that has inserted its rows keeps lock_member out, and is the
\* only one to have inserted a membership of its account, which has none.
Joining ==
    \A q \in Requests : req[q].pc = "joined" =>
        /\ \A p \in Requests : req[p].pc # "write"
        /\ req[q].absent => role[req[q].actor] = "none"
        /\ \A p \in Requests \ {q} : ~SameKey(req[q], req[p])

IInv == Base /\ FoundedFirst /\ Joining

MemberRequests ==
    [pc : {"lock", "write"}, kind : {"change_role", "remove_member"},
     actor : Users, target : Users, to : Roles \cup {"none"},
     cached : Managers, seen : Roles \cup {"none"}]

\* What a request of each kind has in its record.
LEMMA Fields ==
    ASSUME req \in [Requests -> Requested], NEW q \in Requests
    PROVE  /\ req[q].pc \in {"lock", "write"} => req[q] \in MemberRequests
           /\ req[q].pc = "invite" =>
                  /\ req[q].inv \in Invites /\ req[q].target \in Users
                  /\ req[q].to \in {"admin", "member"}
           /\ req[q].pc \in {"revoke", "revoking"} => req[q].inv \in Invites
           /\ req[q].pc \in {"accept", "accepting", "joined"} =>
                  req[q].inv \in Invites /\ req[q].actor \in Users
BY DEF Requested, Idle, MemberRequests

\* Two owners: one of them is not the member a request is about.
LEMMA AnotherOwner ==
    ASSUME NEW t, ~(Cardinality(Owners) <= 1)
    PROVE  \E u \in Owners : u # t
<1> SUFFICES ASSUME Owners \subseteq {t} PROVE FALSE
  OBVIOUS
<1>1. IsFiniteSet({t}) /\ Cardinality({t}) = 1
  BY FS_Singleton
<1>2. Cardinality(Owners) \in Nat /\ Cardinality(Owners) <= 1
  BY <1>1, FS_Subset, FS_CardinalityType
<1> QED BY <1>2

\* An initial state satisfies the inductive invariant.
THEOREM InitEstablishes == ASSUME Init PROVE IInv
<1>1. \A q \in Requests : req[q] = Idle
  BY DEF Init
<1>2. req \in [Requests -> Requested]
  BY DEF Init, Requested
<1>3. role \in [Users -> Roles \cup {"none"}]
  BY DEF Init, Roles
<1>4. TypeOK /\ Founding
  BY <1>1, <1>2, <1>3 DEF Init, TypeOK, Founding, Idle
<1>5. Asked /\ Checked /\ Inviting /\ Revoking /\ Admitting
  BY <1>1 DEF Asked, Checked, Inviting, Revoking, Admitting, Idle
<1>6. FoundedFirst /\ Joining
  BY <1>1 DEF Init, FoundedFirst, Joining, Idle
<1> QED BY <1>4, <1>5, <1>6 DEF IInv, Base

\* The locks after a request has ended.
LEMMA DoneReleases ==
    ASSUME TypeOK, NEW q \in Requests, Done(q)
    PROVE  /\ req' \in [Requests -> Requested]
           /\ req'[q] = Idle
           /\ \A p \in Requests \ {q} : req'[p] = req[p]
           /\ orgLock' \in Requests \cup {NoRequest}
           /\ invLock' \in [Invites -> Requests \cup {NoRequest}]
           /\ \A p \in Requests : orgLock' = p <=> req'[p].pc \in {"found", "write"}
           /\ \A i \in Invites, p \in Requests :
                  invLock'[i] = p <=>
                      req'[p].pc \in {"revoking", "accept", "accepting", "joined"} /\ req'[p].inv = i
<1> USE DEF Done
<1>1. /\ req' \in [Requests -> Requested]
      /\ req'[q] = Idle
      /\ \A p \in Requests \ {q} : req'[p] = req[p]
  BY DEF TypeOK, Requested
<1>2. /\ orgLock' \in Requests \cup {NoRequest}
      /\ invLock' \in [Invites -> Requests \cup {NoRequest}]
  BY DEF TypeOK
<1>3. \A p \in Requests : orgLock' = p <=> req'[p].pc \in {"found", "write"}
  BY <1>1 DEF TypeOK, Idle
<1>4. ASSUME NEW i \in Invites, NEW p \in Requests
      PROVE  invLock'[i] = p <=>
                 req'[p].pc \in {"revoking", "accept", "accepting", "joined"} /\ req'[p].inv = i
  BY <1>1 DEF TypeOK, Idle
<1> QED BY <1>1, <1>2, <1>3, <1>4

\* A request that is authorised locks nothing yet.
LEMMA Begins ==
    ASSUME IInv, NEW q \in Requests, NEW r \in Requested,
           r.pc \in {"lock", "rename", "invite", "revoke"}, req[q].pc = "idle",
           req' = [req EXCEPT ![q] = r],
           UNCHANGED <<founded, role, orgLock, invitations>>,
           r.pc = "lock" =>
               IF r.kind = "remove_member"
               THEN r.to = "none" ELSE r.to # "none" /\ r.cached = "owner",
           r.pc = "invite" =>
               /\ invitee[r.inv] = NoUser
               /\ \A p \in Requests : req[p].pc = "invite" => req[p].inv # r.inv,
           r.pc = "revoke" => invitee[r.inv] # NoUser
    PROVE  Base'
<1> USE DEF invitations
<1>1. req' \in [Requests -> Requested] /\ req \in [Requests -> Requested]
  BY DEF IInv, Base, TypeOK
<1>2. TypeOK'
  BY <1>1 DEF IInv, Base, TypeOK
<1>3. Asked'
  BY <1>1 DEF IInv, Base, Asked
<1>4. Checked'
  BY <1>1 DEF IInv, Base, Checked, Owners
<1>5. Inviting'
  BY <1>1 DEF IInv, Base, Inviting
<1>6. Admitting'
  BY <1>1 DEF IInv, Base, Admitting
<1>7. Founding' /\ Revoking'
  BY <1>1 DEF IInv, Base, Founding, Revoking
<1> QED BY <1>2, <1>3, <1>4, <1>5, <1>6, <1>7 DEF Base

\* A request that ends and writes at most what nobody else relies on.
LEMMA Ends ==
    ASSUME IInv, NEW q \in Requests, Done(q),
           founded' \in BOOLEAN,
           founded' # founded => req[q].pc = "found",
           role' \in [Users -> Roles \cup {"none"}],
           invitee' \in [Invites -> Users \cup {NoUser}],
           offer' \in [Invites -> {"admin", "member", "none"}],
           accepted' \in SUBSET Invites, revoked' \in SUBSET Invites,
           expired' \in SUBSET Invites,
           \A p \in Requests \ {q} :
               /\ req[p].pc = "write" => UNCHANGED role
               /\ req[p].pc \in {"invite", "revoke", "revoking", "accept", "accepting", "joined"} =>
                      invitee'[req[p].inv] = invitee[req[p].inv]
               /\ req[p].pc \in {"accept", "accepting", "joined"} /\ req[p].inv \in accepted' \cup revoked' =>
                      req[p].inv \in accepted \cup revoked
    PROVE  Base'
<1>1. /\ req' \in [Requests -> Requested]
      /\ req'[q].pc = "idle"
      /\ \A p \in Requests \ {q} : req'[p] = req[p]
  BY DoneReleases DEF IInv, Base, Idle
<1>2. TypeOK'
  BY DoneReleases DEF IInv, Base, TypeOK
<1>3. Asked'
  BY <1>1 DEF IInv, Base, Asked
<1>4. Checked'
  BY <1>1 DEF IInv, Base, Checked, Owners
<1>5. Inviting'
  BY <1>1 DEF IInv, Base, Inviting
<1>6. Admitting'
  BY <1>1 DEF IInv, Base, Admitting
<1>7. Founding' /\ Revoking'
  BY <1>1 DEF IInv, Base, Founding, Revoking, TypeOK
<1> QED BY <1>2, <1>3, <1>4, <1>5, <1>6, <1>7 DEF Base

\* Taking the organization's lock brings the role that is read up to date, but
\* for a self-removal, and the checks made then are what Checked remembers.
LEMMA LockMemberStep ==
    ASSUME IInv, NEW q \in Requests, LockMember(q) PROVE Base'
<1> USE DEF LockMember
<1>1. req[q] \in MemberRequests /\ TypeOK
  BY Fields DEF IInv, Base, TypeOK
<1>2. CASE Refused(q, RoleRead(q))
  BY <1>2, Ends DEF IInv, Base, TypeOK
<1>3. CASE ~Refused(q, RoleRead(q))
  <2>1. PICK read : read = RoleRead(q)
    OBVIOUS
  <2>2. read \in Roles \cup {"none"}
    BY <1>1, <2>1 DEF TypeOK, RoleRead, MemberRequests, Managers, Roles
  <2>3. PICK r \in MemberRequests :
            /\ req' = [req EXCEPT ![q] = r]
            /\ r.pc = "write" /\ r.seen = read
            /\ r.kind = req[q].kind /\ r.actor = req[q].actor /\ r.target = req[q].target
            /\ r.to = req[q].to /\ r.cached = req[q].cached
    <3>1. PICK r : r = [req[q] EXCEPT !.pc = "write", !.seen = read]
      OBVIOUS
    <3>2. req' = [req EXCEPT ![q] = r]
      BY <1>3, <2>1, <3>1
    <3>3. /\ r \in MemberRequests /\ r.pc = "write" /\ r.seen = read
          /\ r.kind = req[q].kind /\ r.actor = req[q].actor /\ r.target = req[q].target
          /\ r.to = req[q].to /\ r.cached = req[q].cached
      BY <1>1, <2>2, <3>1 DEF MemberRequests
    <3> QED BY <3>2, <3>3
  <2>4. orgLock' = q /\ UNCHANGED <<founded, role, invitee, offer, accepted, revoked, expired, invLock>>
    BY <1>3
  <2>5. req' \in [Requests -> Requested] /\ req \in [Requests -> Requested]
    BY <1>1, <2>3 DEF TypeOK, Requested, MemberRequests
  <2>6. TypeOK'
    BY <1>1, <2>3, <2>4, <2>5 DEF TypeOK
  <2>7. Asked'
    BY <2>3, <2>5 DEF IInv, Base, Asked
  <2>8. /\ read # "none"
        /\ r.kind = "remove_member" /\ r.cached = "admin" => read # "owner"
        /\ read = "owner" /\ r.to # "owner" => \E u \in Owners : u # r.target
    BY <1>3, <2>1, <2>3, AnotherOwner DEF Refused
  <2>9. Checked'
    <3>1. ASSUME NEW p \in Requests \ {q} PROVE req'[p].pc # "write"
      BY <2>4, <2>6, <3>1 DEF TypeOK
    <3>2. req'[q] = r
      BY <2>3, <2>5
    <3>3. IF r.kind = "remove_member" /\ r.actor = r.target
          THEN read = r.cached ELSE read = role[r.target]
      BY <2>1, <2>3 DEF RoleRead
    <3> QED BY <2>3, <2>4, <2>8, <3>1, <3>2, <3>3 DEF Checked, Owners
  <2>10. Inviting'
    BY <2>3, <2>4, <2>5 DEF IInv, Base, Inviting
  <2>11. Admitting'
    BY <2>3, <2>4, <2>5 DEF IInv, Base, Admitting
  <2>12. Founding' /\ Revoking'
    BY <2>3, <2>4, <2>5 DEF IInv, Base, Founding, Revoking
  <2> QED BY <2>6, <2>7, <2>9, <2>10, <2>11, <2>12 DEF Base
<1> QED BY <1>2, <1>3

\* The row of a new organization is locked by the request that inserts it.
LEMMA CreateFlushStep ==
    ASSUME IInv, NEW q \in Requests, NEW creator \in Users, CreateFlush(q, creator)
    PROVE  Base'
<1> USE DEF CreateFlush, invitations
<1>1. PICK r : r = [pc |-> "found", actor |-> creator]
  OBVIOUS
<1>2. r \in Requested /\ TypeOK
  BY <1>1 DEF Requested, IInv, Base
<1>3. req' \in [Requests -> Requested] /\ req \in [Requests -> Requested]
  BY <1>1, <1>2 DEF TypeOK
<1>4. req'[q] = r /\ \A p \in Requests \ {q} : req'[p] = req[p]
  BY <1>1, <1>3
<1>5. TypeOK'
  BY <1>1, <1>2, <1>3, <1>4 DEF TypeOK
<1>6. Founding' /\ Asked' /\ Revoking'
  BY <1>1, <1>4 DEF IInv, Base, Founding, Asked, Revoking
<1>7. Checked' /\ Inviting' /\ Admitting'
  BY <1>1, <1>4 DEF IInv, Base, Checked, Inviting, Admitting, Owners
<1> QED BY <1>5, <1>6, <1>7 DEF Base

\* While an organization is being created, nobody is writing memberships.
LEMMA CreateCommitStep ==
    ASSUME IInv, NEW q \in Requests, CreateCommit(q) PROVE Base'
<1> USE DEF CreateCommit
<1>1. TypeOK /\ role' \in [Users -> Roles \cup {"none"}]
  BY DEF IInv, Base, TypeOK, Roles
<1>2. \A p \in Requests \ {q} : req[p].pc # "write"
  BY <1>1 DEF TypeOK
<1> QED BY <1>1, <1>2, Ends DEF TypeOK

\* The write at the end of a role change or a removal.
LEMMA WriteMemberStep ==
    ASSUME IInv, NEW q \in Requests, WriteMember(q) PROVE Base'
<1> USE DEF WriteMember
<1>1. req[q] \in MemberRequests /\ TypeOK
  BY Fields DEF IInv, Base, TypeOK
<1>2. role' \in [Users -> Roles \cup {"none"}]
  BY <1>1 DEF TypeOK, MemberRequests
<1>3. \A p \in Requests \ {q} : req[p].pc # "write"
  BY <1>1 DEF TypeOK
<1> QED BY <1>1, <1>2, <1>3, Ends DEF TypeOK

\* An invitation is created once, by the request that has it to itself.
LEMMA InviteCommitStep ==
    ASSUME IInv, NEW q \in Requests, InviteCommit(q) PROVE Base'
<1> USE DEF InviteCommit
<1>1. TypeOK /\ req[q].inv \in Invites /\ req[q].target \in Users /\ req[q].to \in {"admin", "member"}
  BY Fields DEF IInv, Base, TypeOK
<1>2. /\ invitee' \in [Invites -> Users \cup {NoUser}]
      /\ offer' \in [Invites -> {"admin", "member", "none"}]
  BY <1>1 DEF TypeOK
<1>3. ASSUME NEW p \in Requests \ {q},
             req[p].pc \in {"invite", "revoke", "revoking", "accept", "accepting", "joined"}
      PROVE  invitee'[req[p].inv] = invitee[req[p].inv]
  <2>1. req[p].inv # req[q].inv
    <3>1. CASE req[p].pc = "invite"
      BY <3>1 DEF IInv, Base, Inviting
    <3>2. CASE req[p].pc \in {"accept", "accepting", "joined"}
      BY <1>1, <3>2, Fields DEF IInv, Base, Inviting, Admitting, TypeOK
    <3>3. CASE req[p].pc \in {"revoke", "revoking"}
      BY <3>3 DEF IInv, Base, Inviting, Revoking
    <3> QED BY <1>3, <3>1, <3>2, <3>3
  <2>2. req[p].inv \in Invites
    BY <1>1, <1>3, Fields DEF TypeOK
  <2> QED BY <1>1, <2>1, <2>2 DEF TypeOK
<1> QED BY <1>1, <1>2, <1>3, Ends DEF TypeOK

\* A revocation has the invitation locked, so no acceptance holds it.
LEMMA RevokeCommitStep ==
    ASSUME IInv, NEW q \in Requests, RevokeCommit(q) PROVE Base'
<1> USE DEF RevokeCommit
<1>1. TypeOK /\ req[q].inv \in Invites
  BY Fields DEF IInv, Base, TypeOK
<1>2. invLock[req[q].inv] = q
  BY <1>1 DEF TypeOK
<1>3. ASSUME NEW p \in Requests \ {q}, req[p].pc \in {"accept", "accepting", "joined"}
      PROVE  req[p].inv # req[q].inv
  BY <1>1, <1>2, <1>3 DEF TypeOK
<1> QED BY <1>1, <1>3, Ends DEF TypeOK

\* A request gets the lock of its invitation, or reads under it.
LEMMA HoldsInvitation ==
    ASSUME IInv, NEW q \in Requests, NEW r \in Requested,
           r.pc \in {"revoking", "accept", "accepting", "joined"},
           req' = [req EXCEPT ![q] = r],
           r.inv \in Invites, invLock' = [invLock EXCEPT ![r.inv] = q],
           req[q].pc \notin {"found", "write"},
           \/ invLock[r.inv] = NoRequest /\ req[q].pc \in {"idle", "revoke"}
           \/ invLock[r.inv] = q /\ req[q].inv = r.inv,
           r.pc \in {"accept", "accepting", "joined"} =>
               invitee[r.inv] = r.actor /\ r.inv \notin accepted \cup revoked,
           r.pc = "revoking" => invitee[r.inv] # NoUser,
           UNCHANGED <<founded, role, orgLock, invitee, offer, accepted, revoked, expired>>
    PROVE  Base'
<1>1. req' \in [Requests -> Requested] /\ req \in [Requests -> Requested] /\ TypeOK
  BY DEF IInv, Base, TypeOK
<1>2. req'[q] = r /\ \A p \in Requests \ {q} : req'[p] = req[p]
  BY <1>1
<1>3. invLock' \in [Invites -> Requests \cup {NoRequest}]
  BY <1>1 DEF TypeOK
<1>4. ASSUME NEW i \in Invites, NEW p \in Requests
      PROVE  invLock'[i] = p <=>
                 req'[p].pc \in {"revoking", "accept", "accepting", "joined"} /\ req'[p].inv = i
  <2>1. CASE p = q
    BY <1>1, <1>2, <2>1 DEF TypeOK
  <2>2. CASE p # q
    BY <1>1, <1>2, <2>2 DEF TypeOK
  <2> QED BY <2>1, <2>2
<1>5. TypeOK'
  BY <1>1, <1>2, <1>3, <1>4 DEF TypeOK
<1>6. Asked'
  BY <1>2 DEF IInv, Base, Asked
<1>7. Checked'
  BY <1>2 DEF IInv, Base, Checked, Owners
<1>8. Inviting'
  BY <1>2 DEF IInv, Base, Inviting
<1>9. Admitting'
  BY <1>2 DEF IInv, Base, Admitting
<1>10. Founding' /\ Revoking'
  BY <1>2 DEF IInv, Base, Founding, Revoking
<1> QED BY <1>5, <1>6, <1>7, <1>8, <1>9, <1>10 DEF Base

\* An acceptance that has inserted its rows goes on holding its invitation.
LEMMA AcceptInsertStep ==
    ASSUME IInv, NEW q \in Requests, AcceptInsert(q) PROVE Base'
<1> USE DEF AcceptInsert
<1>1. TypeOK /\ req[q].inv \in Invites
  BY Fields DEF IInv, Base, TypeOK
<1>2. CASE req[q].absent /\ role[req[q].actor] # "none"
  BY <1>1, <1>2, Ends DEF TypeOK
<1>3. CASE ~(req[q].absent /\ role[req[q].actor] # "none")
  <2>1. PICK r : r = [req[q] EXCEPT !.pc = "joined"]
    OBVIOUS
  <2>2. req[q] \in [pc : {"accepting", "joined"}, actor : Users, inv : Invites,
                    absent : BOOLEAN]
    BY <1>1 DEF TypeOK, Requested, Idle
  <2>3. /\ r \in Requested /\ r.pc = "joined"
        /\ r.inv = req[q].inv /\ r.actor = req[q].actor
    BY <2>1, <2>2 DEF Requested
  <2>4. req' = [req EXCEPT ![q] = r] /\ UNCHANGED <<orgLock, invLock>>
    BY <1>3, <2>1
  <2>5. invLock[r.inv] = q /\ invLock' = [invLock EXCEPT ![r.inv] = q]
    BY <1>1, <2>3, <2>4 DEF TypeOK
  <2>6. invitee[r.inv] = r.actor /\ r.inv \notin accepted \cup revoked
    BY <2>3 DEF IInv, Base, Admitting
  <2> QED BY <1>1, <2>3, <2>4, <2>5, <2>6, HoldsInvitation
<1> QED BY <1>2, <1>3

\* An acceptance uses up the invitation it is alone with.
LEMMA AcceptCommitStep ==
    ASSUME IInv, NEW q \in Requests, AcceptCommit(q) PROVE Base'
<1> USE DEF AcceptCommit
<1>1. TypeOK /\ req[q].inv \in Invites /\ req[q].actor \in Users
  BY Fields DEF IInv, Base, TypeOK
<1>2. invLock[req[q].inv] = q
  BY <1>1 DEF TypeOK
<1>3. ASSUME NEW p \in Requests \ {q}
      PROVE  /\ req[p].pc # "write"
             /\ req[p].pc \in {"accept", "accepting", "joined"} => req[p].inv # req[q].inv
  BY <1>1, <1>2 DEF TypeOK, IInv, Joining
<1>4. offer[req[q].inv] \in Roles \cup {"none"}
  BY <1>1 DEF TypeOK, Roles
<1>5. role' \in [Users -> Roles \cup {"none"}] /\ accepted' \in SUBSET Invites
  BY <1>1, <1>4 DEF TypeOK
<1> QED BY <1>1, <1>3, <1>5, Ends DEF TypeOK

\* Every step, and every stutter, preserves the inductive invariant.
LEMMA StepPreserves == ASSUME IInv, [Next]_vars PROVE Base'
<1>1. CASE UNCHANGED vars
  BY <1>1 DEF vars, invitations, IInv, Base, TypeOK, Founding, Asked, Checked, Inviting, Revoking,
         Admitting, Owners
<1>2. TypeOK /\ req \in [Requests -> Requested]
  BY DEF IInv, Base, TypeOK
<1>3. ASSUME NEW i \in Invites, Expire(i) PROVE Base'
  BY <1>2, <1>3 DEF Expire, IInv, Base, TypeOK, Founding, Asked, Checked, Inviting, Revoking,
         Admitting, Owners
<1>4. ASSUME NEW q \in Requests, NEW kind \in {"change_role", "remove_member"},
             NEW actor \in Users, NEW target \in Users, NEW to \in Roles \cup {"none"},
             Authorise(q, kind, actor, target, to)
      PROVE  Base'
  <2>1. PICK r : r = [pc |-> "lock", kind |-> kind, actor |-> actor, target |-> target,
                      to |-> to, cached |-> role[actor], seen |-> "none"]
    OBVIOUS
  <2>2. role[actor] \in Managers
    BY <1>4 DEF Authorise, Managers
  <2>3. r \in Requested
    BY <2>1, <2>2 DEF Requested
  <2>4. IF kind = "remove_member"
        THEN to = "none" ELSE to # "none" /\ role[actor] = "owner"
    BY <1>4 DEF Authorise, Roles
  <2> QED BY <1>4, <2>1, <2>3, <2>4, Begins DEF Authorise
<1>5. ASSUME NEW q \in Requests, NEW actor \in Users, NEW u \in Users, NEW i \in Invites,
             NEW to \in {"admin", "member"}, InviteAuthorise(q, actor, i, u, to)
      PROVE  Base'
  <2>1. PICK r : r = [pc |-> "invite", inv |-> i, target |-> u, to |-> to]
    OBVIOUS
  <2>2. r \in Requested
    BY <2>1 DEF Requested
  <2> QED BY <1>5, <2>1, <2>2, Begins DEF InviteAuthorise
<1>6. ASSUME NEW q \in Requests, NEW actor \in Users, NEW i \in Invites,
             RevokeAuthorise(q, actor, i)
      PROVE  Base'
  <2>1. PICK r : r = [pc |-> "revoke", inv |-> i]
    OBVIOUS
  <2>2. r \in Requested
    BY <2>1 DEF Requested
  <2> QED BY <1>6, <2>1, <2>2, Begins DEF RevokeAuthorise
<1>7. ASSUME NEW q \in Requests, NEW i \in Invites, AcceptLock(q, i) PROVE Base'
  <2>1. PICK r : r = [pc |-> "accept", actor |-> invitee[i], inv |-> i]
    OBVIOUS
  <2>2. r \in Requested
    BY <1>2, <1>7, <2>1 DEF Requested, AcceptLock, TypeOK
  <2> QED BY <1>7, <2>1, <2>2, HoldsInvitation DEF AcceptLock
<1>8. ASSUME NEW q \in Requests, RevokeLock(q) PROVE Base'
  <2>1. PICK r : r = [req[q] EXCEPT !.pc = "revoking"]
    OBVIOUS
  <2>2. req[q] \in [pc : {"revoke", "revoking"}, inv : Invites]
    BY <1>2, <1>8 DEF RevokeLock, Requested, Idle
  <2>3. r \in Requested /\ r.pc = "revoking" /\ r.inv = req[q].inv /\ r.inv \in Invites
    BY <2>1, <2>2 DEF Requested
  <2>4. invitee[r.inv] # NoUser
    BY <1>8, <2>3 DEF RevokeLock, IInv, Base, Revoking
  <2> QED BY <1>8, <2>1, <2>3, <2>4, HoldsInvitation DEF RevokeLock
<1>9. ASSUME NEW q \in Requests, AcceptRead(q) PROVE Base'
  <2>1. PICK r : r = [pc |-> "accepting", actor |-> req[q].actor, inv |-> req[q].inv,
                      absent |-> role[req[q].actor] = "none"]
    OBVIOUS
  <2>2. req[q].inv \in Invites /\ req[q].actor \in Users
    BY <1>2, <1>9, Fields DEF AcceptRead
  <2>3. (role[req[q].actor] = "none") \in BOOLEAN
    OBVIOUS
  <2>4. r \in Requested
    BY <2>1, <2>2, <2>3 DEF Requested
  <2>5. invLock[req[q].inv] = q
    BY <1>2, <1>9, <2>2 DEF AcceptRead, TypeOK
  <2>6. invLock' = [invLock EXCEPT ![r.inv] = q]
    BY <1>2, <1>9, <2>1, <2>2, <2>5 DEF AcceptRead, invitations, TypeOK
  <2>7. invitee[r.inv] = r.actor /\ r.inv \notin accepted \cup revoked
    BY <1>9, <2>1 DEF AcceptRead, IInv, Base, Admitting
  <2> QED BY <1>9, <2>1, <2>2, <2>4, <2>5, <2>6, <2>7, HoldsInvitation
          DEF AcceptRead, invitations
<1>10. ASSUME NEW q \in Requests, Rollback(q) PROVE Base'
  BY <1>2, <1>10, Ends DEF Rollback, TypeOK
<1>11. ASSUME NEW q \in Requests, NEW actor \in Users, UpdateAuthorise(q, actor) PROVE Base'
  <2>1. PICK r : r = [pc |-> "rename"]
    OBVIOUS
  <2>2. r \in Requested
    BY <2>1 DEF Requested
  <2> QED BY <1>11, <2>1, <2>2, Begins DEF UpdateAuthorise
<1>12. ASSUME NEW q \in Requests, UpdateCommit(q) PROVE Base'
  BY <1>2, <1>12, Ends DEF UpdateCommit, TypeOK
<1> QED
  BY <1>1, <1>3, <1>4, <1>5, <1>6, <1>7, <1>8, <1>9, <1>10, <1>11, <1>12, CreateFlushStep,
     CreateCommitStep, LockMemberStep, WriteMemberStep,
     InviteCommitStep, RevokeCommitStep, AcceptInsertStep, AcceptCommitStep
  DEF Next, Proceed

\* Nothing but the creation happens before it has committed.
LEMMA StepFounds == ASSUME IInv, [Next]_vars PROVE FoundedFirst'
<1>1. req \in [Requests -> Requested]
  BY DEF IInv, Base, TypeOK
<1>2. CASE UNCHANGED vars
  BY <1>2 DEF IInv, FoundedFirst, vars, invitations
<1>3. CASE founded /\ Next
  BY <1>3 DEF Next, Proceed, CreateFlush, CreateCommit, UpdateAuthorise, UpdateCommit, Expire,
     Authorise, LockMember, WriteMember, InviteAuthorise, InviteCommit, RevokeAuthorise,
     RevokeLock, RevokeCommit, AcceptLock, AcceptRead, AcceptInsert, AcceptCommit, Rollback,
     FoundedFirst
<1>4. CASE ~founded /\ Next
  <2>1. /\ \A u \in Users : role[u] = "none"
        /\ \A i \in Invites : invitee[i] = NoUser
        /\ \A q \in Requests : req[q].pc \in {"idle", "found"}
    BY <1>4 DEF IInv, FoundedFirst
  <2>2. ASSUME NEW q \in Requests, NEW creator \in Users, CreateFlush(q, creator)
        PROVE  FoundedFirst'
    BY <1>1, <2>1, <2>2 DEF CreateFlush, invitations, FoundedFirst
  <2>3. ASSUME NEW q \in Requests, CreateCommit(q) PROVE FoundedFirst'
    BY <2>3 DEF CreateCommit, FoundedFirst
  <2>4. ASSUME NEW q \in Requests, Rollback(q) PROVE FoundedFirst'
    BY <1>1, <2>1, <2>4 DEF Rollback, Done, Idle, FoundedFirst
  <2>5. ASSUME NEW q \in Requests, Proceed(q) PROVE CreateCommit(q)
    BY <2>1, <2>5 DEF Proceed, UpdateCommit, LockMember, WriteMember, InviteCommit, RevokeLock,
       RevokeCommit, AcceptRead, AcceptInsert, AcceptCommit
  <2>6. ASSUME NEW i \in Invites PROVE ~Expire(i) /\ \A q \in Requests : ~AcceptLock(q, i)
    BY <2>1 DEF Expire, AcceptLock
  <2>7. ASSUME NEW q \in Requests, NEW actor \in Users
        PROVE  /\ ~UpdateAuthorise(q, actor)
               /\ \A i \in Invites : ~RevokeAuthorise(q, actor, i)
               /\ \A u \in Users, i \in Invites, to \in {"admin", "member"} :
                      ~InviteAuthorise(q, actor, i, u, to)
               /\ \A kind \in {"change_role", "remove_member"}, target \in Users,
                     to \in Roles \cup {"none"} : ~Authorise(q, kind, actor, target, to)
    BY <2>1 DEF UpdateAuthorise, RevokeAuthorise, InviteAuthorise, Authorise, Managers
  <2> QED BY <1>4, <2>2, <2>3, <2>4, <2>5, <2>6, <2>7 DEF Next
<1> QED BY <1>2, <1>3, <1>4

\* A step that changes no role and leaves its request neither writing nor
\* having inserted a membership disturbs no acceptance.
LEMMA JoiningKept ==
    ASSUME Joining, req \in [Requests -> Requested], NEW q \in Requests, NEW r,
           r.pc \notin {"write", "joined"}, req' = [req EXCEPT ![q] = r], UNCHANGED role
    PROVE  Joining'
<1>1. \A p \in Requests : req'[p] = IF p = q THEN r ELSE req[p]
  OBVIOUS
<1> QED BY <1>1 DEF Joining, SameKey

\* Whoever ends is not joining any more.
LEMMA JoiningEnds ==
    ASSUME Joining, req \in [Requests -> Requested], NEW q \in Requests, Done(q),
           UNCHANGED role
    PROVE  Joining'
BY JoiningKept DEF Done, Idle

\* A step that leaves nobody joining.
LEMMA NobodyJoins ==
    ASSUME NEW q \in Requests, req \in [Requests -> Requested], NEW r, r.pc # "joined",
           req' = [req EXCEPT ![q] = r], \A p \in Requests \ {q} : req[p].pc # "joined"
    PROVE  Joining'
<1>1. \A p \in Requests : req'[p].pc # "joined"
  OBVIOUS
<1> QED BY <1>1 DEF Joining

\* The first to insert a membership of an account is alone with its key.
LEMMA AcceptInsertJoins ==
    ASSUME IInv, NEW q \in Requests, AcceptInsert(q) PROVE Joining'
<1> USE DEF AcceptInsert
<1>1. TypeOK /\ req \in [Requests -> Requested] /\ Joining
  BY DEF IInv, Base, TypeOK
<1>2. CASE req[q].absent /\ role[req[q].actor] # "none"
  BY <1>1, <1>2, JoiningEnds
<1>3. CASE ~(req[q].absent /\ role[req[q].actor] # "none")
  <2>1. PICK r : r = [req[q] EXCEPT !.pc = "joined"]
    OBVIOUS
  <2>2. req[q] \in [pc : {"accepting", "joined"}, actor : Users, inv : Invites,
                    absent : BOOLEAN]
    BY <1>1 DEF Requested, Idle
  <2>3. r.pc = "joined" /\ r.actor = req[q].actor /\ r.absent = req[q].absent
    BY <2>1, <2>2
  <2>4. \A p \in Requests : req'[p] = IF p = q THEN r ELSE req[p]
    BY <1>1, <1>3, <2>1
  <2>5. \A p \in Requests : req'[p].pc # "write"
    BY <1>1, <2>3, <2>4 DEF TypeOK
  <2>6. r.absent => role[r.actor] = "none" /\ Inserting(r.actor) = {}
    BY <1>3, <2>3
  <2>7. \A p \in Requests \ {q} : ~SameKey(r, req[p])
    BY <2>6 DEF SameKey, Inserting, KeySharers
  <2>8. \A p \in Requests \ {q} : ~SameKey(req[p], r)
    BY <2>7, <2>3 DEF SameKey
  <2> QED BY <1>1, <2>4, <2>5, <2>6, <2>7, <2>8 DEF Joining
<1> QED BY <1>2, <1>3

\* An acceptance that commits leaves the others theirs.
LEMMA AcceptCommitJoins ==
    ASSUME IInv, NEW q \in Requests, AcceptCommit(q) PROVE Joining'
<1> USE DEF AcceptCommit
<1>1. req \in [Requests -> Requested] /\ role \in [Users -> Roles \cup {"none"}] /\ Joining
  BY DEF IInv, Base, TypeOK
<1>2. \A p \in Requests : req'[p] = IF p = q THEN Idle ELSE req[p]
  BY <1>1 DEF Done
<1>3. Idle.pc = "idle"
  BY DEF Idle
<1>4. ASSUME NEW p \in Requests \ {q}, req[p].pc = "joined", req[p].absent
      PROVE  role'[req[p].actor] = "none"
  <2>1. req[p].actor \in Users /\ role[req[p].actor] = "none"
    BY <1>1, <1>4, Fields DEF Joining
  <2>2. req[q].absent => req[p].actor # req[q].actor
    BY <1>1, <1>4 DEF Joining, SameKey
  <2> QED BY <1>1, <2>1, <2>2
<1> QED BY <1>1, <1>2, <1>3, <1>4 DEF Joining, SameKey

\* Every step leaves the acceptances alone with what they have inserted.
LEMMA StepJoins == ASSUME IInv, [Next]_vars PROVE Joining'
<1>1. TypeOK /\ req \in [Requests -> Requested] /\ Joining /\ Idle.pc = "idle"
  BY DEF IInv, Base, TypeOK, Idle
<1>2. CASE UNCHANGED vars
  BY <1>1, <1>2 DEF vars, Joining, SameKey
<1>3. ASSUME NEW i \in Invites, Expire(i) PROVE Joining'
  BY <1>1, <1>3 DEF Expire, Joining, SameKey
<1>4. ASSUME NEW q \in Requests,
             \/ UpdateCommit(q) \/ InviteCommit(q) \/ RevokeCommit(q) \/ Rollback(q)
      PROVE  Joining'
  BY <1>1, <1>4, JoiningEnds DEF UpdateCommit, InviteCommit, RevokeCommit, Rollback
<1>5. ASSUME NEW q \in Requests, NEW creator \in Users, CreateFlush(q, creator)
      PROVE  Joining'
  BY <1>1, <1>5, JoiningKept DEF CreateFlush
<1>6. ASSUME NEW q \in Requests, NEW actor \in Users, UpdateAuthorise(q, actor) PROVE Joining'
  BY <1>1, <1>6, JoiningKept DEF UpdateAuthorise
<1>7. ASSUME NEW q \in Requests, NEW kind \in {"change_role", "remove_member"},
             NEW actor \in Users, NEW target \in Users, NEW to \in Roles \cup {"none"},
             Authorise(q, kind, actor, target, to)
      PROVE  Joining'
  BY <1>1, <1>7, JoiningKept DEF Authorise
<1>8. ASSUME NEW q \in Requests, NEW actor \in Users, NEW u \in Users, NEW i \in Invites,
             NEW to \in {"admin", "member"}, InviteAuthorise(q, actor, i, u, to)
      PROVE  Joining'
  BY <1>1, <1>8, JoiningKept DEF InviteAuthorise
<1>9. ASSUME NEW q \in Requests, NEW actor \in Users, NEW i \in Invites,
             RevokeAuthorise(q, actor, i)
      PROVE  Joining'
  BY <1>1, <1>9, JoiningKept DEF RevokeAuthorise
<1>10. ASSUME NEW q \in Requests, NEW i \in Invites, AcceptLock(q, i) PROVE Joining'
  BY <1>1, <1>10, JoiningKept DEF AcceptLock
<1>11. ASSUME NEW q \in Requests, RevokeLock(q) PROVE Joining'
  <2>1. req[q] \in [pc : {"revoke", "revoking"}, inv : Invites]
    BY <1>1, <1>11 DEF RevokeLock, Requested, Idle
  <2>2. [req[q] EXCEPT !.pc = "revoking"].pc = "revoking"
    BY <2>1
  <2> QED BY <1>1, <1>11, <2>2, JoiningKept DEF RevokeLock
<1>12. ASSUME NEW q \in Requests, AcceptRead(q) PROVE Joining'
  BY <1>1, <1>12, JoiningKept DEF AcceptRead
<1>13. ASSUME NEW q \in Requests, CreateCommit(q) PROVE Joining'
  <2>1. \A p \in Requests : req[p].pc # "joined"
    BY <1>13 DEF CreateCommit, IInv, Base, Founding, FoundedFirst
  <2> QED BY <1>1, <1>13, <2>1, NobodyJoins DEF CreateCommit, Done
<1>14. ASSUME NEW q \in Requests, WriteMember(q) PROVE Joining'
  <2>1. \A p \in Requests : req[p].pc # "joined"
    BY <1>1, <1>14 DEF WriteMember, Joining
  <2> QED BY <1>1, <1>14, <2>1, NobodyJoins DEF WriteMember, Done
<1>15. ASSUME NEW q \in Requests, LockMember(q) PROVE Joining'
  <2>1. CASE Refused(q, RoleRead(q))
    BY <1>1, <1>15, <2>1, JoiningEnds DEF LockMember
  <2>2. CASE ~Refused(q, RoleRead(q))
    <3>1. PICK r : r = [req[q] EXCEPT !.pc = "write", !.seen = RoleRead(q)]
      OBVIOUS
    <3>2. req[q] \in MemberRequests
      BY <1>1, <1>15, Fields DEF LockMember
    <3>3. r.pc = "write"
      BY <3>1, <3>2 DEF MemberRequests
    <3>4. \A p \in Requests : req[p].pc # "joined"
      BY <1>15 DEF LockMember, KeySharers
    <3>5. req' = [req EXCEPT ![q] = r]
      BY <1>15, <2>2, <3>1 DEF LockMember
    <3> QED BY <1>1, <3>3, <3>4, <3>5, NobodyJoins
  <2> QED BY <2>1, <2>2
<1> QED
  BY <1>2, <1>3, <1>4, <1>5, <1>6, <1>7, <1>8, <1>9, <1>10, <1>11, <1>12, <1>13, <1>14, <1>15,
     AcceptInsertJoins, AcceptCommitJoins DEF Next, Proceed

\* The inductive invariant holds in every reachable state.
THEOREM Inductive == Spec => []IInv
<1>1. Init => IInv
  BY InitEstablishes
<1>2. IInv /\ [Next]_vars => IInv'
  BY StepPreserves, StepFounds, StepJoins DEF IInv
<1> QED BY <1>1, <1>2, PTL DEF Spec

\* The variables of Organizations keep their types, and both kinds of lock
\* are held exactly between lock and commit.
THEOREM TypeCorrect == Spec => []TypeOK
<1>1. IInv => TypeOK
  BY DEF IInv, Base
<1> QED BY <1>1, Inductive, PTL

\* change_role audits the role that it replaces.
THEOREM AuditIsCurrent == Spec => []AuditedRoleIsCurrent
<1>1. IInv => AuditedRoleIsCurrent
  BY DEF IInv, Base, Checked, AuditedRoleIsCurrent
<1> QED BY <1>1, Inductive, PTL

\* Only three steps write a membership.
LEMMA RoleWriters ==
    ASSUME IInv, [Next]_vars, role' # role
    PROVE  \E q \in Requests :
               \/ /\ CreateCommit(q) /\ ~founded
                  /\ role' = [role EXCEPT ![req[q].actor] = "owner"]
               \/ /\ WriteMember(q) /\ req[q] \in MemberRequests
               \/ /\ AcceptCommit(q) /\ req[q].absent
                  /\ req[q].inv \in Invites /\ req[q].actor \in Users
                  /\ role[req[q].actor] = "none"
                  /\ role' = [role EXCEPT ![req[q].actor] = offer[req[q].inv]]
                  /\ accepted' = accepted \cup {req[q].inv}
<1>1. PICK q \in Requests : CreateCommit(q) \/ WriteMember(q) \/ AcceptCommit(q)
  BY DEF Next, Proceed, vars, invitations, CreateFlush, UpdateAuthorise, UpdateCommit, Expire,
         Authorise, InviteAuthorise, RevokeAuthorise, AcceptLock, LockMember, InviteCommit,
         RevokeLock, RevokeCommit, AcceptRead, AcceptInsert, Rollback
<1>2. req \in [Requests -> Requested]
  BY DEF IInv, Base, TypeOK
<1> QED BY <1>1, <1>2, Fields
        DEF CreateCommit, WriteMember, AcceptCommit, IInv, Base, Founding, Joining

\* The final owner leaves only by a removal of oneself that was authorised as
\* an admin (protect_owner, remove_member).
THEOREM LastOwner == Spec => LastOwnerLeavesOnlyStale
<1> DEFINE Stale == \E q \in Requests :
                        /\ req[q].pc = "write" /\ req[q].kind = "remove_member"
                        /\ req[q].actor = req[q].target
                        /\ req[q].cached = "admin"
<1> DEFINE Loses == (founded => Owners # {}) /\ founded' /\ Owners' = {}
<1>1. ASSUME IInv, [Next]_vars, Loses PROVE Stale
  <2>1. role \in [Users -> Roles \cup {"none"}] /\ req \in [Requests -> Requested]
    BY <1>1 DEF IInv, Base, TypeOK
  <2>2. ASSUME NEW q \in Requests, CreateCommit(q) PROVE FALSE
    <3>1. req[q].actor \in Users
      BY <2>1, <2>2 DEF CreateCommit, Requested, Idle
    <3>2. req[q].actor \in Owners'
      BY <2>1, <2>2, <3>1 DEF CreateCommit, Owners
    <3> QED BY <1>1, <3>2
  <2>3. founded
    BY <1>1, <2>2 DEF Next, Proceed, vars, invitations, CreateFlush, UpdateAuthorise,
          UpdateCommit, Expire, Authorise, InviteAuthorise, RevokeAuthorise, AcceptLock,
          LockMember, WriteMember, InviteCommit, RevokeLock, RevokeCommit, AcceptRead,
          AcceptInsert, AcceptCommit, Rollback
  <2>4. PICK u \in Users : role[u] = "owner" /\ role'[u] # "owner"
    BY <1>1, <2>3 DEF Owners
  <2>5. PICK q \in Requests : WriteMember(q) /\ req[q] \in MemberRequests
    BY <1>1, <2>1, <2>2, <2>4, RoleWriters
  <2>6. u = req[q].target /\ req[q].to # "owner" /\ req[q].pc = "write"
    BY <2>1, <2>4, <2>5 DEF WriteMember
  <2>7. \A o \in Owners : o = req[q].target
    BY <1>1, <2>1, <2>5 DEF WriteMember, Owners
  <2>8. req[q].seen # "owner"
    BY <1>1, <2>6, <2>7 DEF IInv, Base, Checked
  <2>9. /\ req[q].kind = "remove_member" /\ req[q].actor = req[q].target
        /\ req[q].cached # "owner"
    BY <1>1, <2>4, <2>6, <2>8 DEF IInv, Base, Checked
  <2> QED BY <2>5, <2>6, <2>9 DEF MemberRequests, Managers
<1>2. IInv /\ [Next]_vars => [Loses => Stale]_vars
  BY <1>1
<1> QED BY <1>2, Inductive, PTL DEF Spec, LastOwnerLeavesOnlyStale

\* An owner is removed by itself or by somebody who was an owner when the
\* request was authorised, never by an admin, however roles change between
\* the two.
AdminsRemoveNoOwner ==
    [][\A u \in Users : role[u] = "owner" /\ role'[u] = "none" =>
          \E q \in Requests :
              /\ req[q].pc = "write" /\ req[q].target = u
              /\ req[q].actor = u \/ req[q].cached = "owner"]_vars

\* No admin removes an owner (remove_member).
THEOREM OwnersRemoveOwners == Spec => AdminsRemoveNoOwner
<1>1. ASSUME IInv, [Next]_vars, NEW u \in Users, role[u] = "owner", role'[u] = "none"
      PROVE  \E q \in Requests :
                 /\ req[q].pc = "write" /\ req[q].target = u
                 /\ req[q].actor = u \/ req[q].cached = "owner"
  <2>1. role \in [Users -> Roles \cup {"none"}]
    BY <1>1 DEF IInv, Base, TypeOK
  <2>2. PICK q \in Requests : WriteMember(q) /\ req[q] \in MemberRequests
    BY <1>1, <2>1, RoleWriters
  <2>3. u = req[q].target /\ req[q].to = "none" /\ req[q].pc = "write"
    BY <1>1, <2>1, <2>2 DEF WriteMember
  <2>4. req[q].kind = "remove_member"
    BY <1>1, <2>3 DEF IInv, Base, Asked
  <2>5. req[q].actor # u => req[q].seen = "owner"
    BY <1>1, <2>3 DEF IInv, Base, Checked
  <2>6. req[q].actor # u => req[q].cached # "admin"
    BY <1>1, <2>3, <2>4, <2>5 DEF IInv, Base, Checked
  <2>7. req[q].cached \in {"owner", "admin"}
    BY <2>2 DEF MemberRequests, Managers
  <2> QED BY <2>3, <2>6, <2>7
<1>2. IInv /\ [Next]_vars =>
        [\A u \in Users : role[u] = "owner" /\ role'[u] = "none" =>
          \E q \in Requests :
              /\ req[q].pc = "write" /\ req[q].target = u
              /\ req[q].actor = u \/ req[q].cached = "owner"]_vars
  BY <1>1
<1> QED BY <1>2, Inductive, PTL DEF Spec, AdminsRemoveNoOwner

\* But for its creator, somebody becomes a member only through an invitation
\* of theirs that was neither revoked nor used before and is used up by it: an
\* accepted invitation cannot bring a removed member back.
AdmissionUsesInvitation ==
    [][\A u \in Users : founded /\ role[u] = "none" /\ role'[u] # "none" =>
          \E i \in Invites :
              /\ invitee[i] = u /\ role'[u] = offer[i]
              /\ i \notin accepted \cup revoked
              /\ i \in accepted']_vars

\* Every admission uses up one invitation of the account (accept).
THEOREM Admission == Spec => AdmissionUsesInvitation
<1>1. ASSUME IInv, [Next]_vars, NEW u \in Users, founded, role[u] = "none", role'[u] # "none"
      PROVE  \E i \in Invites :
              /\ invitee[i] = u /\ role'[u] = offer[i]
              /\ i \notin accepted \cup revoked
              /\ i \in accepted'
  <2>1. role \in [Users -> Roles \cup {"none"}]
    BY <1>1 DEF IInv, Base, TypeOK
  <2>2. ASSUME NEW q \in Requests, WriteMember(q), req[q] \in MemberRequests PROVE FALSE
    <3>1. u = req[q].target /\ req[q].to # "none" /\ req[q].pc = "write"
      BY <1>1, <2>1, <2>2 DEF WriteMember
    <3>2. req[q].kind # "remove_member" /\ req[q].seen # "none"
      BY <1>1, <3>1 DEF IInv, Base, Asked, Checked
    <3> QED BY <1>1, <3>1, <3>2 DEF IInv, Base, Checked
  <2>3. PICK q \in Requests :
            /\ AcceptCommit(q) /\ req[q].absent
            /\ req[q].inv \in Invites /\ req[q].actor \in Users
            /\ role' = [role EXCEPT ![req[q].actor] = offer[req[q].inv]]
            /\ accepted' = accepted \cup {req[q].inv}
    BY <1>1, <2>2, RoleWriters
  <2>4. u = req[q].actor /\ role'[u] = offer[req[q].inv]
    BY <1>1, <2>1, <2>3
  <2>5. invitee[req[q].inv] = u /\ req[q].inv \notin accepted \cup revoked
    BY <1>1, <2>3, <2>4 DEF IInv, Base, Admitting, AcceptCommit
  <2> QED BY <2>3, <2>4, <2>5
<1>2. IInv /\ [Next]_vars =>
        [\A u \in Users : founded /\ role[u] = "none" /\ role'[u] # "none" =>
          \E i \in Invites :
              /\ invitee[i] = u /\ role'[u] = offer[i]
              /\ i \notin accepted \cup revoked
              /\ i \in accepted']_vars
  BY <1>1
<1> QED BY <1>2, Inductive, PTL DEF Spec, AdmissionUsesInvitation

-----------------------------------------------------------------------------
\* Waiting ends after two: a request may wait for one that has an invitation,
\* that one for the one that has the organization or has inserted the same
\* membership, which waits for nobody; and the one waited for is under way.
WaitingIsShort ==
    \A q, p \in Requests : WaitsFor(q, p) =>
        /\ req[q].pc # "idle" /\ req[p].pc # "idle"
        /\ \A r \in Requests : WaitsFor(p, r) => ~Waits(r)

\* Who has the organization waits for nobody.
LEMMA HolderProceeds ==
    ASSUME TypeOK, NEW q \in Requests, orgLock = q
    PROVE  ~Waits(q) /\ req[q].pc # "idle"
<1>1. req[q].pc \in {"found", "write"}
  BY DEF TypeOK
<1> QED BY <1>1 DEF Waits, WaitsFor

\* Who has inserted what an acceptance inserts waits for nobody.
LEMMA SharerProceeds ==
    ASSUME NEW q \in KeySharers PROVE ~Waits(q) /\ req[q].pc # "idle"
<1>1. req[q].pc = "joined"
  BY DEF KeySharers
<1> QED BY <1>1 DEF Waits, WaitsFor

\* Who has an invitation waits for nobody but these.
LEMMA InvitationsFirst ==
    ASSUME TypeOK, NEW q \in Requests, NEW i \in Invites, invLock[i] = q
    PROVE  /\ req[q].pc # "idle"
           /\ \A r \in Requests : WaitsFor(q, r) => orgLock = r \/ r \in KeySharers
<1>1. req[q].pc \in {"revoking", "accept", "accepting", "joined"}
  BY DEF TypeOK
<1> QED BY <1>1 DEF WaitsFor, Inserting

\* The locks of invitations, of the organization and of the memberships' keys
\* are taken in one order (revoke_invitation, accept and lock_member), so that
\* no two requests wait for each other, however many there are.
THEOREM LocksAreOrdered == Spec => []WaitingIsShort
<1>1. ASSUME TypeOK, NEW q \in Requests, NEW p \in Requests, WaitsFor(q, p)
      PROVE  /\ req[q].pc # "idle" /\ req[p].pc # "idle"
             /\ \A r \in Requests : WaitsFor(p, r) => ~Waits(r)
  <2>1. req \in [Requests -> Requested] /\ req[q].pc # "idle"
    BY <1>1 DEF TypeOK, WaitsFor
  <2>2. CASE orgLock = p
    BY <1>1, <2>1, <2>2, HolderProceeds DEF Waits
  <2>3. CASE p \in KeySharers
    BY <1>1, <2>1, <2>3, SharerProceeds DEF Waits
  <2>4. CASE req[q].pc = "revoke" /\ invLock[req[q].inv] = p
    <3>1. req[q].inv \in Invites
      BY <2>1, <2>4, Fields
    <3> QED BY <1>1, <2>1, <2>4, <3>1, InvitationsFirst, HolderProceeds, SharerProceeds
  <2> QED BY <1>1, <2>2, <2>3, <2>4 DEF WaitsFor, Inserting
<1>2. TypeOK => WaitingIsShort
  BY <1>1 DEF WaitingIsShort
<1> QED BY <1>2, Inductive, PTL DEF IInv, Base

\* Whatever is under way, one of the requests is not waiting: there is no
\* deadlock among the organization's and the invitations' row locks.
THEOREM NoDeadlock == Spec => []SomebodyProceeds
<1>1. ASSUME WaitingIsShort PROVE SomebodyProceeds
  <2> SUFFICES ASSUME NEW q \in Requests, req[q].pc # "idle"
               PROVE  \E p \in Requests : req[p].pc # "idle" /\ ~Waits(p)
    BY DEF SomebodyProceeds
  <2>1. CASE ~Waits(q)
    BY <2>1
  <2>2. ASSUME NEW p \in Requests, WaitsFor(q, p)
        PROVE  \E r \in Requests : req[r].pc # "idle" /\ ~Waits(r)
    <3>1. req[p].pc # "idle" /\ \A r \in Requests : WaitsFor(p, r) => ~Waits(r)
      BY <1>1, <2>2 DEF WaitingIsShort
    <3>2. \A r \in Requests : WaitsFor(p, r) => req[r].pc # "idle"
      BY <1>1, <2>2 DEF WaitingIsShort
    <3> QED BY <2>2, <3>1, <3>2 DEF Waits
  <2> QED BY <2>1, <2>2 DEF Waits
<1> QED BY <1>1, LocksAreOrdered, PTL

-----------------------------------------------------------------------------
\* The mandate of a request that goes on from its record to another.
LEMMA MandatesMove ==
    ASSUME req \in [Requests -> Requested], NEW q \in Requests, NEW r,
           req' = [req EXCEPT ![q] = r]
    PROVE  /\ Mandates[q] = MandateOf(req[q])
           /\ Mandates' = [Mandates EXCEPT ![q] = MandateOf(r)]
           /\ MandateOf(r) = MandateOf(req[q]) => Mandates' = Mandates
<1>1. Mandates = [p \in Requests |-> MandateOf(req[p])]
  BY DEF Mandates
<1>2. Mandates' = [p \in Requests |-> MandateOf(req'[p])]
  BY DEF Mandates
<1>3. \A p \in Requests : req'[p] = IF p = q THEN r ELSE req[p]
  OBVIOUS
<1> HIDE DEF Mandates
<1> QED BY <1>1, <1>2, <1>3, Zenon

\* What kind of mandate goes with each point of a request.
LEMMA MandateKinds ==
    ASSUME req \in [Requests -> Requested], NEW q \in Requests
    PROVE  /\ req[q].pc \in {"lock", "write"} =>
                  /\ MandateOf(req[q]) = [by |-> req[q].actor, as |-> req[q].cached]
                  /\ MandateOf(req[q]) # R!NoMandate
           /\ req[q].pc \in {"rename", "invite", "revoke", "revoking"} =>
                  /\ MandateOf(req[q]) = R!Errand
                  /\ MandateOf(req[q]) # R!NoMandate
           /\ req[q].pc \in {"idle", "found", "accept", "accepting", "joined"} =>
                  MandateOf(req[q]) = R!NoMandate
<1>1. ASSUME req[q].pc \in {"lock", "write"} PROVE req[q].cached # "none"
  BY <1>1, Fields DEF MemberRequests, Managers
<1> QED BY <1>1 DEF MandateOf, R!NoMandate, R!Errand

\* A request that ends has no mandate any more.
LEMMA MandatesEnd ==
    ASSUME req \in [Requests -> Requested], NEW q \in Requests, Done(q)
    PROVE  /\ Mandates[q] = MandateOf(req[q])
           /\ Mandates' = [Mandates EXCEPT ![q] = R!NoMandate]
           /\ MandateOf(req[q]) = R!NoMandate => Mandates' = Mandates
<1>1. req' = [req EXCEPT ![q] = Idle]
  BY DEF Done
<1>2. MandateOf(Idle) = R!NoMandate
  BY DEF MandateOf, Idle, R!NoMandate
<1> QED BY <1>1, <1>2, MandatesMove, Zenon

\* A request that ends having written nothing gives its mandate up.
LEMMA GivesUp ==
    ASSUME req \in [Requests -> Requested], NEW q \in Requests, Done(q),
           UNCHANGED <<founded, role, invitee, offer, accepted, revoked>>
    PROVE  [R!Next]_(R!vars)
<1>1. CASE MandateOf(req[q]) = R!NoMandate
  BY <1>1, MandatesEnd DEF R!vars
<1>2. CASE MandateOf(req[q]) # R!NoMandate
  <2>1. R!Use(q)
    BY <1>2, MandatesEnd, Zenon DEF R!Use, R!GiveUp
  <2> QED BY <2>1 DEF R!Next
<1> QED BY <1>1, <1>2

\* A manager's request is let in on an errand.
LEMMA Sends ==
    ASSUME req \in [Requests -> Requested], NEW q \in Requests, NEW r,
           MandateOf(r) = R!Errand, req' = [req EXCEPT ![q] = r],
           req[q].pc = "idle", \E u \in Users : role[u] \in Managers,
           UNCHANGED <<founded, role, invitee, offer, accepted, revoked>>
    PROVE  R!Next
<1>1. Mandates[q] = R!NoMandate /\ Mandates' = [Mandates EXCEPT ![q] = R!Errand]
  BY MandatesMove, MandateKinds, Zenon
<1>2. \E u \in Users : role[u] \in {"owner", "admin"}
  BY DEF Managers
<1>3. R!Send(q)
  BY <1>1, <1>2, Zenon DEF R!Send
<1> QED BY <1>3 DEF R!Next

\* The role write keeps to what the mandate permits: the checks after
\* lock_member still hold at the commit.
LEMMA WriteIsPermitted ==
    ASSUME IInv, NEW q \in Requests, WriteMember(q) PROVE R!Next
<1>1. /\ req[q] \in MemberRequests /\ TypeOK /\ req \in [Requests -> Requested]
      /\ req[q].pc = "write"
  BY Fields DEF IInv, Base, TypeOK, WriteMember
<1>2. /\ req[q].target \in Users /\ req[q].to \in {"owner", "admin", "member", "none"}
      /\ req[q].cached \in {"owner", "admin"}
  BY <1>1 DEF MemberRequests, Roles, Managers
<1>3. /\ Mandates[q] = [by |-> req[q].actor, as |-> req[q].cached]
      /\ Mandates[q] # R!NoMandate
      /\ Mandates' = [Mandates EXCEPT ![q] = R!NoMandate]
  BY <1>1, MandatesEnd, MandateKinds, Zenon DEF WriteMember
<1>4. req[q].to # "none" => req[q].cached = "owner" /\ role[req[q].target] # "none"
  <2> SUFFICES ASSUME req[q].to # "none"
               PROVE  req[q].cached = "owner" /\ role[req[q].target] # "none"
    OBVIOUS
  <2>1. req[q].kind = "change_role"
    BY <1>1 DEF IInv, Base, Asked, MemberRequests
  <2>2. req[q].cached = "owner"
    BY <1>1, <2>1 DEF IInv, Base, Asked
  <2> QED BY <1>1, <2>1, <2>2 DEF IInv, Base, Checked
<1>5. ASSUME role[req[q].target] = "owner", req[q].to # "owner"
      PROVE  \/ req[q].cached = "owner" /\ \E o \in Users \ {req[q].target} : role[o] = "owner"
             \/ req[q].actor = req[q].target /\ req[q].cached = "admin" /\ req[q].to = "none"
  <2>1. CASE req[q].seen = "owner"
    <3>1. \E o \in Users \ {req[q].target} : role[o] = "owner"
      BY <1>1, <1>5, <2>1 DEF IInv, Base, Checked, Owners
    <3>2. req[q].cached = "owner"
      BY <1>1, <1>2, <2>1 DEF IInv, Base, Checked, Asked, MemberRequests
    <3> QED BY <3>1, <3>2
  <2>2. CASE req[q].seen # "owner"
    <3>1. req[q].kind = "remove_member" /\ req[q].actor = req[q].target /\ req[q].cached # "owner"
      BY <1>1, <1>5, <2>2 DEF IInv, Base, Checked
    <3> QED BY <1>1, <1>2, <3>1 DEF IInv, Base, Asked
  <2> QED BY <2>1, <2>2
<1>6. Mandates[q].as = req[q].cached
  BY <1>3
<1>7. req[q].actor = req[q].target /\ req[q].cached = "admin" =>
          Mandates[q] = [by |-> req[q].target, as |-> "admin"]
  BY <1>3
<1>8. R!Permitted(q, req[q].target, req[q].to)
  BY <1>4, <1>5, <1>6, <1>7, Zenon DEF R!Permitted
<1>9. R!SetRole(q, req[q].target, req[q].to)
  BY <1>8 DEF R!SetRole, WriteMember
<1>10. R!Use(q)
  BY <1>2, <1>3, <1>9, Zenon DEF R!Use
<1> QED BY <1>10 DEF R!Next

\* An acceptance that commits uses up an invitation that could be used.
LEMMA AcceptanceIsAllowed ==
    ASSUME IInv, NEW q \in Requests, AcceptCommit(q) PROVE [R!Next]_(R!vars)
<1>1. /\ req \in [Requests -> Requested] /\ req[q].pc = "joined"
      /\ req[q].inv \in Invites /\ req[q].actor \in Users
      /\ invitee[req[q].inv] = req[q].actor
      /\ req[q].inv \notin accepted \cup revoked
  BY Fields DEF IInv, Base, TypeOK, AcceptCommit, Admitting
<1>2. Mandates' = Mandates
  BY <1>1, MandatesEnd, MandateKinds DEF AcceptCommit
<1>3. req[q].absent => role[req[q].actor] = "none"
  BY <1>1 DEF IInv, Joining
<1>4. R!Accept(req[q].inv)
  BY <1>1, <1>2, <1>3, OrganizationsAssumption DEF AcceptCommit, R!Accept
<1> QED BY <1>1, <1>4 DEF R!Next

\* Every step of the requests is a step of the roster, or none.
LEMMA RosterStep == ASSUME IInv, [Next]_vars PROVE [R!Next]_(R!vars)
<1>1. TypeOK /\ req \in [Requests -> Requested]
  BY DEF IInv, Base, TypeOK
<1>2. ASSUME UNCHANGED vars PROVE [R!Next]_(R!vars)
  BY <1>2 DEF vars, invitations, R!vars, Mandates
<1>3. ASSUME NEW i \in Invites, Expire(i) PROVE [R!Next]_(R!vars)
  BY <1>3 DEF Expire, R!vars, Mandates
<1>4. ASSUME NEW q \in Requests, NEW creator \in Users, CreateFlush(q, creator)
      PROVE  [R!Next]_(R!vars)
  <2>1. MandateOf([pc |-> "found", actor |-> creator]) = R!NoMandate
    BY DEF MandateOf, R!NoMandate
  <2>2. Mandates' = Mandates
    BY <1>1, <1>4, <2>1, MandatesMove, MandateKinds DEF CreateFlush
  <2> QED BY <1>4, <2>2 DEF CreateFlush, invitations, R!vars
<1>5. ASSUME NEW q \in Requests, CreateCommit(q) PROVE [R!Next]_(R!vars)
  <2>1. req[q].actor \in Users
    BY <1>1, <1>5 DEF CreateCommit, Requested, Idle
  <2>2. Mandates' = Mandates
    BY <1>1, <1>5, MandatesEnd, MandateKinds DEF CreateCommit
  <2>3. R!Found(req[q].actor)
    BY <1>5, <2>2 DEF CreateCommit, R!Found, IInv, Base, Founding
  <2> QED BY <2>1, <2>3 DEF R!Next
<1>6. ASSUME NEW q \in Requests, NEW kind \in {"change_role", "remove_member"},
             NEW actor \in Users, NEW target \in Users, NEW to \in Roles \cup {"none"},
             Authorise(q, kind, actor, target, to)
      PROVE  [R!Next]_(R!vars)
  <2>1. PICK r : r = [pc |-> "lock", kind |-> kind, actor |-> actor, target |-> target,
                      to |-> to, cached |-> role[actor], seen |-> "none"]
    OBVIOUS
  <2>2. MandateOf(r) = [by |-> actor, as |-> role[actor]]
    BY <2>1 DEF MandateOf
  <2>3. req' = [req EXCEPT ![q] = r] /\ req[q].pc = "idle" /\ role[actor] \in {"owner", "admin"}
    BY <1>6, <2>1 DEF Authorise, Managers
  <2>4. /\ Mandates[q] = R!NoMandate
        /\ Mandates' = [Mandates EXCEPT ![q] = [by |-> actor, as |-> role[actor]]]
    <3>1. MandateOf(req[q]) = R!NoMandate
      BY <1>1, <2>3, MandateKinds
    <3>2. /\ Mandates[q] = MandateOf(req[q])
          /\ Mandates' = [Mandates EXCEPT ![q] = MandateOf(r)]
      BY <1>1, <2>3, MandatesMove
    <3> QED BY <2>2, <3>1, <3>2, Zenon
  <2>5. UNCHANGED <<founded, role, invitee, offer, accepted, revoked>>
    BY <1>6 DEF Authorise, invitations
  <2>6. R!Mandate(q, actor)
    BY <2>3, <2>4, <2>5, Zenon DEF R!Mandate
  <2> QED BY <2>6 DEF R!Next
<1>7. ASSUME NEW q \in Requests, NEW actor \in Users, UpdateAuthorise(q, actor)
      PROVE  [R!Next]_(R!vars)
  <2>1. PICK r : r = [pc |-> "rename"]
    OBVIOUS
  <2>2. /\ MandateOf(r) = R!Errand /\ req[q].pc = "idle"
        /\ role[actor] \in Managers /\ req' = [req EXCEPT ![q] = r]
        /\ UNCHANGED <<founded, role, invitee, offer, accepted, revoked>>
    BY <1>7, <2>1 DEF UpdateAuthorise, invitations, MandateOf, R!Errand
  <2>3. R!Next
    BY <1>1, <2>2, Sends
  <2> QED BY <2>3
<1>8. ASSUME NEW q \in Requests, NEW actor \in Users, NEW u \in Users, NEW i \in Invites,
             NEW to \in {"admin", "member"}, InviteAuthorise(q, actor, i, u, to)
      PROVE  [R!Next]_(R!vars)
  <2>1. PICK r : r = [pc |-> "invite", inv |-> i, target |-> u, to |-> to]
    OBVIOUS
  <2>2. /\ MandateOf(r) = R!Errand /\ req[q].pc = "idle"
        /\ role[actor] \in Managers /\ req' = [req EXCEPT ![q] = r]
        /\ UNCHANGED <<founded, role, invitee, offer, accepted, revoked>>
    BY <1>8, <2>1 DEF InviteAuthorise, invitations, MandateOf, R!Errand
  <2>3. R!Next
    BY <1>1, <2>2, Sends
  <2> QED BY <2>3
<1>9. ASSUME NEW q \in Requests, NEW actor \in Users, NEW i \in Invites,
             RevokeAuthorise(q, actor, i)
      PROVE  [R!Next]_(R!vars)
  <2>1. PICK r : r = [pc |-> "revoke", inv |-> i]
    OBVIOUS
  <2>2. /\ MandateOf(r) = R!Errand /\ req[q].pc = "idle"
        /\ role[actor] \in Managers /\ req' = [req EXCEPT ![q] = r]
        /\ UNCHANGED <<founded, role, invitee, offer, accepted, revoked>>
    BY <1>9, <2>1 DEF RevokeAuthorise, invitations, MandateOf, R!Errand
  <2>3. R!Next
    BY <1>1, <2>2, Sends
  <2> QED BY <2>3
<1>10. ASSUME NEW q \in Requests, LockMember(q) PROVE [R!Next]_(R!vars)
  <2>1. CASE Refused(q, RoleRead(q))
    BY <1>1, <1>10, <2>1, GivesUp DEF LockMember
  <2>2. CASE ~Refused(q, RoleRead(q))
    <3>1. PICK r : r = [req[q] EXCEPT !.pc = "write", !.seen = RoleRead(q)]
      OBVIOUS
    <3>2. req' = [req EXCEPT ![q] = r] /\ req[q].pc = "lock"
      BY <1>10, <2>2, <3>1 DEF LockMember
    <3>3. req[q] \in MemberRequests
      BY <1>1, <3>2, Fields
    <3>4. r.pc = "write" /\ r.actor = req[q].actor /\ r.cached = req[q].cached
      BY <3>1, <3>3 DEF MemberRequests
    <3>5. MandateOf(r) = MandateOf(req[q])
      BY <3>2, <3>4 DEF MandateOf
    <3>6. Mandates' = Mandates
      BY <1>1, <3>2, <3>5, MandatesMove
    <3> QED BY <1>10, <2>2, <3>6 DEF LockMember, R!vars
  <2> QED BY <2>1, <2>2
<1>11. ASSUME NEW q \in Requests, InviteCommit(q) PROVE [R!Next]_(R!vars)
  <2>1. /\ req[q].inv \in Invites /\ req[q].target \in Users /\ req[q].to \in {"admin", "member"}
        /\ invitee[req[q].inv] = NoUser
    BY <1>1, <1>11, Fields DEF InviteCommit, IInv, Base, Inviting
  <2>2. R!Invite(req[q].inv, req[q].target, req[q].to)
    BY <1>11, <2>1 DEF InviteCommit, R!Invite
  <2>3. Mandates[q] # R!NoMandate /\ Mandates' = [Mandates EXCEPT ![q] = R!NoMandate]
    BY <1>1, <1>11, MandatesEnd, MandateKinds, Zenon DEF InviteCommit
  <2>4. R!Use(q)
    BY <2>1, <2>2, <2>3, Zenon DEF R!Use
  <2> QED BY <2>4 DEF R!Next
<1>12. ASSUME NEW q \in Requests, RevokeLock(q) PROVE [R!Next]_(R!vars)
  <2>1. PICK r : r = [req[q] EXCEPT !.pc = "revoking"]
    OBVIOUS
  <2>2. req[q] \in [pc : {"revoke", "revoking"}, inv : Invites]
    BY <1>1, <1>12 DEF RevokeLock, Requested, Idle
  <2>3. MandateOf(r) = MandateOf(req[q])
    BY <1>12, <2>1, <2>2 DEF MandateOf, RevokeLock
  <2>4. req' = [req EXCEPT ![q] = r]
    BY <1>12, <2>1 DEF RevokeLock
  <2>5. Mandates' = Mandates
    BY <1>1, <2>3, <2>4, MandatesMove
  <2> QED BY <1>12, <2>5 DEF RevokeLock, R!vars
<1>13. ASSUME NEW q \in Requests, RevokeCommit(q) PROVE [R!Next]_(R!vars)
  <2>1. req[q].inv \in Invites /\ invitee[req[q].inv] # NoUser
    BY <1>1, <1>13, Fields DEF RevokeCommit, IInv, Base, Revoking
  <2>2. R!Revoke(req[q].inv)
    BY <1>13, <2>1 DEF RevokeCommit, R!Revoke
  <2>3. Mandates[q] # R!NoMandate /\ Mandates' = [Mandates EXCEPT ![q] = R!NoMandate]
    BY <1>1, <1>13, MandatesEnd, MandateKinds, Zenon DEF RevokeCommit
  <2>4. R!Use(q)
    BY <2>1, <2>2, <2>3, Zenon DEF R!Use
  <2> QED BY <2>4 DEF R!Next
<1>14. ASSUME NEW q \in Requests, NEW i \in Invites, AcceptLock(q, i) PROVE [R!Next]_(R!vars)
  <2>1. PICK r : r = [pc |-> "accept", actor |-> invitee[i], inv |-> i]
    OBVIOUS
  <2>2. MandateOf(r) = R!NoMandate
    BY <2>1 DEF MandateOf, R!NoMandate
  <2>3. Mandates' = Mandates
    BY <1>1, <1>14, <2>1, <2>2, MandatesMove, MandateKinds DEF AcceptLock
  <2> QED BY <1>14, <2>3 DEF AcceptLock, R!vars
<1>15. ASSUME NEW q \in Requests, AcceptRead(q) PROVE [R!Next]_(R!vars)
  <2>1. PICK r : r = [pc |-> "accepting", actor |-> req[q].actor, inv |-> req[q].inv,
                      absent |-> role[req[q].actor] = "none"]
    OBVIOUS
  <2>2. MandateOf(r) = R!NoMandate
    BY <2>1 DEF MandateOf, R!NoMandate
  <2>3. Mandates' = Mandates
    <3>1. req' = [req EXCEPT ![q] = r] /\ req[q].pc = "accept"
      BY <1>15, <2>1 DEF AcceptRead
    <3>2. MandateOf(r) = MandateOf(req[q])
      BY <1>1, <2>2, <3>1, MandateKinds
    <3> QED BY <1>1, <3>1, <3>2, MandatesMove
  <2> QED BY <1>15, <2>3 DEF AcceptRead, invitations, R!vars
<1>16. ASSUME NEW q \in Requests, AcceptInsert(q) PROVE [R!Next]_(R!vars)
  <2>1. CASE req[q].absent /\ role[req[q].actor] # "none"
    BY <1>1, <1>16, <2>1, GivesUp DEF AcceptInsert
  <2>2. CASE ~(req[q].absent /\ role[req[q].actor] # "none")
    <3>1. PICK r : r = [req[q] EXCEPT !.pc = "joined"]
      OBVIOUS
    <3>2. req[q] \in [pc : {"accepting", "joined"}, actor : Users, inv : Invites,
                      absent : BOOLEAN]
      BY <1>1, <1>16 DEF AcceptInsert, Requested, Idle
    <3>3. MandateOf(r) = MandateOf(req[q])
      BY <1>16, <3>1, <3>2 DEF MandateOf, AcceptInsert
    <3>4. req' = [req EXCEPT ![q] = r]
      BY <1>16, <2>2, <3>1 DEF AcceptInsert
    <3>5. Mandates' = Mandates
      BY <1>1, <3>3, <3>4, MandatesMove
    <3> QED BY <1>16, <3>5 DEF AcceptInsert, R!vars
  <2> QED BY <2>1, <2>2
<1>17. ASSUME NEW q \in Requests, UpdateCommit(q) \/ Rollback(q) PROVE [R!Next]_(R!vars)
  BY <1>1, <1>17, GivesUp DEF UpdateCommit, Rollback
<1> QED
  BY <1>2, <1>3, <1>4, <1>5, <1>6, <1>7, <1>8, <1>9, <1>10, <1>11, <1>12, <1>13, <1>14, <1>15,
     <1>16, <1>17, WriteIsPermitted, AcceptanceIsAllowed DEF Next, Proceed

\* The organization's requests implement Roster, for any number of users,
\* requests and invitations.
THEOREM Implements == Spec => RosterSpec
<1>1. Init => R!Init
  <2> SUFFICES ASSUME Init PROVE R!Init
    OBVIOUS
  <2>1. \A q \in Requests : MandateOf(req[q]) = R!NoMandate
    BY DEF Init, MandateOf, Idle, R!NoMandate
  <2>2. Mandates = [q \in Requests |-> R!NoMandate]
    BY <2>1, Zenon DEF Mandates
  <2> QED BY <2>2, Zenon DEF Init, R!Init
<1>2. IInv /\ [Next]_vars => [R!Next]_(R!vars)
  BY RosterStep
<1> QED BY <1>1, <1>2, Inductive, PTL DEF Spec, RosterSpec, R!Spec
=============================================================================
