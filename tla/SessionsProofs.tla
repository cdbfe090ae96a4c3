--------------------------- MODULE SessionsProofs ---------------------------
(***************************************************************************)
(* Rotation and revocation of session families, for any number of          *)
(* families and requests, whichever endpoints are used.                    *)
(*                                                                         *)
(* A refresh keeps the row it presented locked, and nobody else writes a   *)
(* locked row, so at its commit that row is still the usable tip of its    *)
(* family (Presented).  A revoking UPDATE that is not raced by a refresh   *)
(* has revoked, locked or still to lock every row of its families          *)
(* (Covering), so at its commit they are dead and stay dead (Settled).     *)
(*                                                                         *)
(* The revoked rows of a family, as far as revocations have committed, are *)
(* its first ones (RevokedIsCut), which is what lets the module implement  *)
(* SessionChain.                                                           *)
(*                                                                         *)
(* Requests do wait for each other in circles; but whenever no request can *)
(* go on there is a circle of which the deadlock detector chooses a victim *)
(* (StuckOnlyInCircles), for a smallest set of requests that wait for each *)
(* other is one.                                                           *)
(***************************************************************************)
EXTENDS Sessions, FiniteSetTheorems, TLAPS

USE SessionsAssumption DEF race

\* Rows that are locked, rotated or about to be locked exist.
Existing ==
    /\ \A r \in Rows : lock[r] # NoRequest => r[2] <= count[r[1]]
    /\ \A r \in rotated : r[2] <= count[r[1]]
    /\ \A q \in Requests : \A r \in todo[q] : r[2] <= count[r[1]]

\* The row a refresh has locked is its family's tip and usable.
Presented ==
    \A q \in Requests, r \in Rows : pc[q] \in {"user", "rotate"} /\ lock[r] = q =>
        /\ r[2] = count[r[1]] /\ count[r[1]] < MaxRows
        /\ r \notin rotated /\ r \notin revoked

\* What a request that is not idle is about.
Scoped ==
    \A q \in Requests :
        /\ pc[q] # "idle" => kind[q] # "none"
        /\ pc[q] # "updating" => todo[q] = {}
        /\ pc[q] = "updating" => \A f \in scope[q] : count[f] > 0
        /\ pc[q] \in {"update", "updating"} =>
               \A r \in Rows : lock[r] = q \/ r \in todo[q] => r[1] \in scope[q]

\* An UPDATE misses no row of a family that was not rotated meanwhile.
Covering ==
    \A q \in Requests : pc[q] = "updating" =>
        \A r \in Rows : r[1] \in scope[q] /\ r[1] \notin missed[q] /\ r[2] <= count[r[1]] =>
            r \in revoked \/ r \in todo[q] \/ lock[r] = q

\* A family whose last revocation missed no rotation is dead.
Settled ==
    /\ \A k \in Kinds \cup {"refresh"}, f \in Families : <<k, f>> \in ended =>
           /\ count[f] > 0
           /\ f \notin raced => \A r \in Rows : r[1] = f /\ r[2] <= count[f] => r \in revoked
    /\ \A f \in raced : count[f] > 1
    /\ \A q \in Requests : \A f \in missed[q] : count[f] > 1

IInv ==
    /\ TypeOK /\ OneTip /\ RevokedOnRequest
    /\ Existing /\ Presented /\ Scoped /\ Covering /\ Settled

\* Rows are pairs of a family and a generation.
LEMMA RowsAre ==
    /\ \A r \in Rows : r[1] \in Families /\ r[2] \in 1 .. MaxRows /\ r = <<r[1], r[2]>>
    /\ \A f \in Families, g \in 1 .. MaxRows :
           <<f, g>> \in Rows /\ <<f, g>>[1] = f /\ <<f, g>>[2] = g
BY DEF Rows

\* OneTip speaks of generations, the steps of rows.
LEMMA TipByRows ==
    ASSUME NEW c \in [Families -> 0 .. MaxRows], NEW rot \in SUBSET Rows
    PROVE  (\A f \in Families : \A g \in 1 .. c[f] : <<f, g>> \in rot <=> g < c[f])
           <=> (\A r \in Rows : r[2] <= c[r[1]] => (r \in rot <=> r[2] < c[r[1]]))
<1>1. ASSUME \A f \in Families : \A g \in 1 .. c[f] : <<f, g>> \in rot <=> g < c[f],
             NEW r \in Rows, r[2] <= c[r[1]]
      PROVE  r \in rot <=> r[2] < c[r[1]]
  <2>1. r[1] \in Families /\ r[2] \in 1 .. c[r[1]] /\ r = <<r[1], r[2]>>
    BY <1>1, RowsAre
  <2> QED BY <1>1, <2>1
<1>2. ASSUME \A r \in Rows : r[2] <= c[r[1]] => (r \in rot <=> r[2] < c[r[1]]),
             NEW f \in Families, NEW g \in 1 .. c[f]
      PROVE  <<f, g>> \in rot <=> g < c[f]
  <2>1. g \in 1 .. MaxRows /\ g <= c[f]
    OBVIOUS
  <2>2. <<f, g>> \in Rows /\ <<f, g>>[1] = f /\ <<f, g>>[2] = g
    BY <2>1, RowsAre
  <2> QED BY <1>2, <2>1, <2>2
<1> QED BY <1>1, <1>2

\* An initial state satisfies the inductive invariant.
THEOREM InitEstablishes == ASSUME Init PROVE IInv
<1> USE DEF Init
<1>1. TypeOK
  BY DEF TypeOK
<1>2. OneTip /\ RevokedOnRequest
  BY DEF OneTip, RevokedOnRequest
<1>3. Existing /\ Presented /\ Scoped /\ Covering /\ Settled
  BY DEF Existing, Presented, Scoped, Covering, Settled
<1> QED BY <1>1, <1>2, <1>3 DEF IInv

-----------------------------------------------------------------------------
\* A login starts a family, which no UPDATE that has begun is about.
LEMMA LoginStep ==
    ASSUME IInv, NEW f \in Families, Login(f) PROVE IInv'
<1> USE RowsAre DEF Login, request
<1>1. TypeOK /\ count[f] = 0 /\ count \in [Families -> 0 .. MaxRows]
  BY DEF IInv, TypeOK
<1>2. count' \in [Families -> 0 .. MaxRows] /\ count'[f] = 1
      /\ \A h \in Families \ {f} : count'[h] = count[h]
  BY <1>1
<1>3. TypeOK'
  BY <1>1, <1>2 DEF TypeOK
<1>4. OneTip'
  <2>1. rotated' \in SUBSET Rows /\ \A r \in Rows : r \in rotated' => r[2] <= count[r[1]]
    BY <1>1 DEF IInv, Existing, TypeOK
  <2>2. \A r \in Rows : r[2] <= count[r[1]] => (r \in rotated <=> r[2] < count[r[1]])
    BY <1>1, TipByRows DEF IInv, OneTip, TypeOK
  <2>3. \A r \in Rows : r[2] <= count'[r[1]] => (r \in rotated' <=> r[2] < count'[r[1]])
    BY <1>1, <1>2, <2>1, <2>2
  <2> QED BY <1>2, <2>1, <2>3, TipByRows DEF OneTip
<1>5. RevokedOnRequest' /\ Existing'
  BY <1>1, <1>2 DEF IInv, RevokedOnRequest, Existing, TypeOK
<1>6. Presented'
  BY <1>1, <1>2 DEF IInv, Presented, Existing, TypeOK
<1>7. Scoped'
  BY <1>1, <1>2 DEF IInv, Scoped, TypeOK
<1>8. Covering'
  BY <1>1, <1>2 DEF IInv, Covering, Scoped, TypeOK
<1>9. Settled'
  BY <1>1, <1>2 DEF IInv, Settled, TypeOK
<1> QED BY <1>3, <1>4, <1>5, <1>6, <1>7, <1>8, <1>9 DEF IInv

\* A request that is idle presents a row and locks it.
LEMMA Presents ==
    ASSUME IInv, NEW q \in Requests, NEW r \in Rows, NEW to \in {"user", "update"},
           pc[q] = "idle", r[2] <= count[r[1]], lock[r] = NoRequest,
           lock' = [lock EXCEPT ![r] = q], pc' = [pc EXCEPT ![q] = to],
           kind' = [kind EXCEPT ![q] = "refresh"],
           to = "user" => /\ scope' = scope /\ r \notin rotated /\ r \notin revoked
                          /\ count[r[1]] < MaxRows,
           to = "update" => scope' = [scope EXCEPT ![q] = {r[1]}],
           UNCHANGED <<count, rotated, revoked, expired, active, todo, ended, race>>
    PROVE  IInv'
<1> USE RowsAre
<1>1. TypeOK /\ \A s \in Rows : lock[s] # q
  BY DEF IInv, TypeOK
<1>2. /\ pc'[q] = to /\ \A p \in Requests \ {q} : pc'[p] = pc[p]
      /\ lock'[r] = q /\ \A s \in Rows \ {r} : lock'[s] = lock[s]
      /\ kind'[q] = "refresh" /\ \A p \in Requests \ {q} : kind'[p] = kind[p]
      /\ \A p \in Requests \ {q} : scope'[p] = scope[p]
      /\ to = "update" => scope'[q] = {r[1]}
  BY <1>1 DEF TypeOK
<1>3. /\ lock' \in [Rows -> Requests \cup {NoRequest}]
      /\ pc' \in [Requests -> {"idle", "user", "rotate", "update", "updating"}]
      /\ kind' \in [Requests -> Kinds \cup {"refresh", "none"}]
      /\ scope' \in [Requests -> SUBSET Families]
  BY <1>1 DEF TypeOK
<1>4. \A s \in Rows : lock'[s] = NoRequest \/ pc'[lock'[s]] # "idle"
  BY <1>1, <1>2 DEF TypeOK
<1>5. TypeOK'
  BY <1>1, <1>3, <1>4 DEF TypeOK
<1>6. OneTip' /\ RevokedOnRequest'
  BY DEF IInv, OneTip, RevokedOnRequest
<1>7. Existing'
  BY <1>2 DEF IInv, Existing
<1>8. Presented'
  <2>1. \A s \in Rows : s[2] <= count[s[1]] => (s \in rotated <=> s[2] < count[s[1]])
    BY <1>1, TipByRows DEF IInv, OneTip, TypeOK
  <2>2. count[r[1]] \in Nat /\ r[2] \in Nat
    BY <1>1 DEF TypeOK
  <2>3. r \notin rotated => r[2] = count[r[1]]
    BY <2>1, <2>2
  <2> QED BY <1>1, <1>2, <2>3 DEF IInv, Presented
<1>9. Scoped'
  BY <1>1, <1>2 DEF IInv, Scoped
<1>10. Covering'
  BY <1>1, <1>2 DEF IInv, Covering
<1>11. Settled'
  BY DEF IInv, Settled
<1> QED BY <1>5, <1>6, <1>7, <1>8, <1>9, <1>10, <1>11 DEF IInv
\* A refresh finds its user active or not.
LEMMA RefreshUserStep ==
    ASSUME IInv, NEW q \in Requests, RefreshUser(q) PROVE IInv'
<1> USE RowsAre DEF RefreshUser, WillRevoke
<1>1. TypeOK
  BY DEF IInv
<1>2. CASE active
  <2>1. pc' = [pc EXCEPT ![q] = "rotate"] /\ UNCHANGED <<kind, scope, todo>>
    BY <1>2
  <2>2. pc'[q] = "rotate" /\ \A p \in Requests \ {q} : pc'[p] = pc[p]
    BY <1>1, <2>1 DEF TypeOK
  <2>3. TypeOK'
    BY <1>1, <2>1, <2>2 DEF TypeOK
  <2>4. OneTip' /\ RevokedOnRequest' /\ Existing' /\ Settled'
    BY <2>1 DEF IInv, OneTip, RevokedOnRequest, Existing, Settled
  <2>5. Presented'
    BY <2>1, <2>2 DEF IInv, Presented
  <2>6. Scoped' /\ Covering'
    BY <2>1, <2>2 DEF IInv, Scoped, Covering
  <2> QED BY <2>3, <2>4, <2>5, <2>6 DEF IInv
<1>3. CASE ~active
  <2>1. /\ pc' = [pc EXCEPT ![q] = "update"] /\ kind' = [kind EXCEPT ![q] = "refresh"]
        /\ scope' = [scope EXCEPT ![q] = {r[1] : r \in Mine(q)}] /\ UNCHANGED todo
    BY <1>3
  <2>2. /\ pc'[q] = "update" /\ \A p \in Requests \ {q} : pc'[p] = pc[p]
        /\ kind'[q] = "refresh" /\ \A p \in Requests \ {q} : kind'[p] = kind[p]
        /\ \A p \in Requests \ {q} : scope'[p] = scope[p]
        /\ \A r \in Rows : lock[r] = q => r[1] \in scope'[q]
    BY <1>1, <2>1 DEF TypeOK, Mine
  <2>3. {r[1] : r \in Mine(q)} \in SUBSET Families
    BY DEF Mine
  <2>4. TypeOK'
    <3>1. scope' \in [Requests -> SUBSET Families]
      BY <1>1, <2>1, <2>3 DEF TypeOK
    <3> QED BY <1>1, <2>1, <2>2, <3>1 DEF TypeOK
  <2>5. OneTip' /\ RevokedOnRequest' /\ Existing' /\ Settled'
    BY <2>1 DEF IInv, OneTip, RevokedOnRequest, Existing, Settled
  <2>6. Presented'
    BY <2>2 DEF IInv, Presented
  <2>7. Scoped'
    <3>1. pc[q] = "user" /\ todo[q] = {} /\ todo' = todo /\ UNCHANGED <<lock, count>>
      BY <2>1 DEF IInv, Scoped
    <3>2. \A r \in Rows : lock'[r] = q \/ r \in todo'[q] => r[1] \in scope'[q]
      BY <2>2, <3>1
    <3> QED BY <2>2, <3>1, <3>2 DEF IInv, Scoped
  <2>8. Covering'
    BY <2>1, <2>2 DEF IInv, Covering
  <2> QED BY <2>4, <2>5, <2>6, <2>7, <2>8 DEF IInv
<1> QED BY <1>2, <1>3

\* What the end of a request does to it and to the locks.
LEMMA DoneReleases ==
    ASSUME TypeOK, NEW q \in Requests, Done(q)
    PROVE  /\ pc' \in [Requests -> {"idle", "user", "rotate", "update", "updating"}]
           /\ kind' \in [Requests -> Kinds \cup {"refresh", "none"}]
           /\ scope' \in [Requests -> SUBSET Families]
           /\ todo' \in [Requests -> SUBSET Rows]
           /\ lock' \in [Rows -> Requests \cup {NoRequest}]
           /\ pc'[q] = "idle" /\ todo'[q] = {}
           /\ \A p \in Requests \ {q} : /\ pc'[p] = pc[p] /\ kind'[p] = kind[p]
                                        /\ scope'[p] = scope[p] /\ todo'[p] = todo[p]
           /\ \A r \in Rows : lock'[r] = IF lock[r] = q THEN NoRequest ELSE lock[r]
           /\ \A r \in Rows : lock'[r] = NoRequest \/ pc'[lock'[r]] # "idle"
<1> USE DEF Done
<1>1. /\ pc' \in [Requests -> {"idle", "user", "rotate", "update", "updating"}]
      /\ kind' \in [Requests -> Kinds \cup {"refresh", "none"}]
      /\ scope' \in [Requests -> SUBSET Families]
      /\ todo' \in [Requests -> SUBSET Rows]
      /\ lock' \in [Rows -> Requests \cup {NoRequest}]
  BY DEF TypeOK
<1>2. /\ pc'[q] = "idle" /\ todo'[q] = {}
      /\ \A p \in Requests \ {q} : /\ pc'[p] = pc[p] /\ kind'[p] = kind[p]
                                   /\ scope'[p] = scope[p] /\ todo'[p] = todo[p]
  BY DEF TypeOK
<1>3. \A r \in Rows : lock'[r] = IF lock[r] = q THEN NoRequest ELSE lock[r]
  OBVIOUS
<1>4. \A r \in Rows : lock'[r] = NoRequest \/ pc'[lock'[r]] # "idle"
  BY <1>2, <1>3 DEF TypeOK
<1> QED BY <1>1, <1>2, <1>3, <1>4

\* A request that is lost or chosen as the deadlock's victim.
LEMMA Abandons ==
    ASSUME IInv, NEW q \in Requests, Done(q), missed' = [missed EXCEPT ![q] = {}],
           UNCHANGED <<count, rotated, revoked, expired, active, ended, raced>>
    PROVE  IInv'
<1>1. /\ TypeOK /\ missed' \in [Requests -> SUBSET Families] /\ missed'[q] = {}
      /\ \A p \in Requests \ {q} : missed'[p] = missed[p]
  BY DEF IInv, TypeOK
<1>2. TypeOK'
  BY <1>1, DoneReleases DEF TypeOK
<1>3. OneTip' /\ RevokedOnRequest' /\ Settled'
  BY <1>1 DEF IInv, OneTip, RevokedOnRequest, Settled
<1>4. Existing'
  BY <1>1, DoneReleases DEF IInv, Existing
<1>5. Presented'
  BY <1>1, DoneReleases DEF IInv, Presented
<1>6. Scoped'
  BY <1>1, DoneReleases DEF IInv, Scoped
<1>7. Covering'
  BY <1>1, DoneReleases DEF IInv, Covering
<1> QED BY <1>2, <1>3, <1>4, <1>5, <1>6, <1>7 DEF IInv

\* A refresh replaces its family's tip by a new one; the UPDATEs in flight for
\* the family are raced.
LEMMA RefreshCommitStep ==
    ASSUME IInv, NEW q \in Requests, NEW r \in Rows, RefreshCommit(q, r) PROVE IInv'
<1> USE RowsAre
<1>1. /\ TypeOK /\ Done(q) /\ pc[q] = "rotate" /\ lock[r] = q
      /\ rotated' = rotated \cup {r} /\ count' = [count EXCEPT ![r[1]] = @ + 1]
      /\ UNCHANGED <<revoked, expired, active, ended, raced>>
      /\ missed' = [u \in Requests |-> IF pc[u] = "updating" /\ r[1] \in scope[u]
                                      THEN missed[u] \cup {r[1]} ELSE missed[u]]
  BY DEF RefreshCommit, Mine, IInv
<1>2. count \in [Families -> 0 .. MaxRows]
  BY <1>1 DEF TypeOK
<1>3. /\ r[2] = count[r[1]] /\ count[r[1]] < MaxRows
      /\ r \notin rotated /\ r \notin revoked
  BY <1>1 DEF IInv, Presented
<1>4. /\ count' \in [Families -> 0 .. MaxRows] /\ count'[r[1]] = count[r[1]] + 1
      /\ \A f \in Families \ {r[1]} : count'[f] = count[f]
  BY <1>1, <1>2, <1>3
<1>5. \A s \in Rows : s[2] <= count[s[1]] => s[2] <= count'[s[1]]
  BY <1>2, <1>4
<1>14. missed' \in [Requests -> SUBSET Families]
  BY <1>1 DEF TypeOK
<1>6. TypeOK'
  BY <1>1, <1>4, <1>14, DoneReleases DEF TypeOK
<1>7. OneTip'
  <2>1. rotated' \in SUBSET Rows
    BY <1>1 DEF TypeOK
  <2>2. \A s \in Rows : s[2] <= count[s[1]] => (s \in rotated <=> s[2] < count[s[1]])
    BY <1>1, TipByRows DEF IInv, OneTip, TypeOK
  <2>3. ASSUME NEW s \in Rows, s[2] <= count'[s[1]]
        PROVE  s \in rotated' <=> s[2] < count'[s[1]]
    <3>1. CASE s[1] # r[1]
      BY <1>1, <1>4, <2>2, <2>3, <3>1
    <3>2. CASE s[1] = r[1] /\ s[2] = r[2]
      BY <1>1, <1>2, <1>3, <1>4, <3>2
    <3>3. CASE s[1] = r[1] /\ s[2] # r[2]
      BY <1>1, <1>2, <1>3, <1>4, <2>2, <2>3, <3>3 DEF IInv, Existing
    <3> QED BY <3>1, <3>2, <3>3
  <2> QED BY <1>4, <2>1, <2>3, TipByRows DEF OneTip
<1>8. RevokedOnRequest'
  BY <1>1 DEF IInv, RevokedOnRequest
<1>9. Existing'
  <2>1. \A s \in Rows : lock'[s] # NoRequest => s[2] <= count'[s[1]]
    BY <1>1, <1>5, DoneReleases DEF IInv, Existing
  <2>2. \A s \in rotated' : s[2] <= count'[s[1]]
    BY <1>1, <1>2, <1>3, <1>5 DEF IInv, Existing, TypeOK
  <2>3. \A p \in Requests : \A s \in todo'[p] : s[2] <= count'[s[1]]
    BY <1>1, <1>5, DoneReleases DEF IInv, Existing, TypeOK
  <2> QED BY <2>1, <2>2, <2>3 DEF Existing
<1>10. Presented'
  <2>1. ASSUME NEW p \in Requests, NEW s \in Rows,
               pc'[p] \in {"user", "rotate"}, lock'[s] = p
        PROVE  /\ s[2] = count'[s[1]] /\ count'[s[1]] < MaxRows
               /\ s \notin rotated' /\ s \notin revoked'
    <3>1. p # q /\ pc[p] \in {"user", "rotate"} /\ lock[s] = p
      BY <1>1, <2>1, DoneReleases
    <3>2. s[2] = count[s[1]] /\ count[s[1]] < MaxRows /\ s \notin rotated /\ s \notin revoked
      BY <3>1 DEF IInv, Presented
    <3>3. s[1] # r[1]
      BY <1>1, <1>3, <3>1, <3>2
    <3> QED BY <1>1, <1>4, <3>2, <3>3
  <2> QED BY <2>1 DEF Presented
<1>11. Scoped'
  BY <1>1, <1>2, <1>4, DoneReleases DEF IInv, Scoped, TypeOK
<1>12. Covering'
  <2>1. ASSUME NEW p \in Requests, pc'[p] = "updating", NEW s \in Rows,
               s[1] \in scope'[p], s[1] \notin missed'[p], s[2] <= count'[s[1]]
        PROVE  s \in revoked' \/ s \in todo'[p] \/ lock'[s] = p
    <3>1. p # q /\ pc[p] = "updating" /\ scope'[p] = scope[p] /\ todo'[p] = todo[p]
      BY <1>1, <2>1, DoneReleases
    <3>2. s[1] # r[1] /\ s[1] \notin missed[p]
      BY <1>1, <2>1, <3>1
    <3> QED BY <1>1, <1>4, <2>1, <3>1, <3>2, DoneReleases DEF IInv, Covering
  <2> QED BY <2>1 DEF Covering
<1>13. Settled'
  <2>1. ASSUME NEW k \in Kinds \cup {"refresh"}, NEW f \in Families, <<k, f>> \in ended'
        PROVE  /\ count'[f] > 0
               /\ f \notin raced' => \A s \in Rows : s[1] = f /\ s[2] <= count'[f] => s \in revoked'
    <3>1. count[f] > 0
      BY <1>1, <2>1 DEF IInv, Settled
    <3>2. f \notin raced => f # r[1]
      BY <1>1, <1>2, <1>3, <2>1 DEF IInv, Settled
    <3> QED BY <1>1, <1>2, <1>4, <2>1, <3>1, <3>2 DEF IInv, Settled
  <2>2. \A f \in raced' : count'[f] > 1
    BY <1>1, <1>2, <1>3, <1>4 DEF IInv, Settled, TypeOK
  <2>3. \A p \in Requests : \A f \in missed'[p] : count'[f] > 1
    <3> SUFFICES ASSUME NEW p \in Requests, NEW f \in missed'[p] PROVE count'[f] > 1
      OBVIOUS
    <3>1. f \in Families /\ (f = r[1] \/ f \in missed[p])
      BY <1>1, <1>14
    <3>2. f \in missed[p] => count[f] > 1
      BY DEF IInv, Settled
    <3> QED BY <1>2, <1>3, <1>4, <3>1, <3>2
  <2> QED BY <2>1, <2>2, <2>3 DEF Settled
<1> QED BY <1>6, <1>7, <1>8, <1>9, <1>10, <1>11, <1>12, <1>13 DEF IInv

-----------------------------------------------------------------------------
\* A request of another kind is let in.
LEMMA AuthenticateStep ==
    ASSUME IInv, NEW q \in Requests, NEW k \in Kinds, NEW fs \in SUBSET Families,
           Authenticate(q, k, fs)
    PROVE  IInv'
<1>1. /\ TypeOK /\ pc[q] = "idle" /\ k # "none"
      /\ pc' = [pc EXCEPT ![q] = "update"] /\ kind' = [kind EXCEPT ![q] = k]
      /\ scope' = [scope EXCEPT ![q] = fs]
      /\ UNCHANGED <<todo, count, rotated, revoked, expired, active, lock, ended, race>>
  BY DEF IInv, Authenticate, WillRevoke
<1>2. /\ pc'[q] = "update" /\ \A p \in Requests \ {q} : pc'[p] = pc[p]
      /\ kind'[q] = k /\ \A p \in Requests \ {q} : kind'[p] = kind[p]
      /\ \A p \in Requests \ {q} : scope'[p] = scope[p]
  BY <1>1 DEF TypeOK
<1>3. \A r \in Rows : lock[r] # q
  BY <1>1 DEF TypeOK
<1>4. TypeOK'
  BY <1>1, <1>2 DEF TypeOK
<1>5. OneTip' /\ RevokedOnRequest' /\ Existing' /\ Settled'
  BY <1>1 DEF IInv, OneTip, RevokedOnRequest, Existing, Settled
<1>6. Presented' /\ Covering'
  BY <1>1, <1>2 DEF IInv, Presented, Covering
<1>7. Scoped'
  BY <1>1, <1>2, <1>3 DEF IInv, Scoped
<1> QED BY <1>4, <1>5, <1>6, <1>7 DEF IInv

\* The rows an UPDATE fixes are all the rows its families have.
LEMMA UpdateBeginStep ==
    ASSUME IInv, NEW q \in Requests, UpdateBegin(q) PROVE IInv'
<1>1. /\ TypeOK /\ pc[q] = "update"
      /\ pc' = [pc EXCEPT ![q] = "updating"] /\ todo' = [todo EXCEPT ![q] = UpdateRows(q)]
      /\ scope' = [scope EXCEPT ![q] = {f \in scope[q] : count[f] > 0}]
      /\ UNCHANGED <<count, rotated, revoked, expired, active, lock, kind, ended, race>>
  BY DEF IInv, TypeOK, UpdateBegin
<1>2. /\ pc'[q] = "updating" /\ \A p \in Requests \ {q} : pc'[p] = pc[p]
      /\ todo'[q] = UpdateRows(q) /\ \A p \in Requests \ {q} : todo'[p] = todo[p]
      /\ scope'[q] = {f \in scope[q] : count[f] > 0}
      /\ \A p \in Requests \ {q} : scope'[p] = scope[p]
  BY <1>1 DEF TypeOK
<1>3. \A r \in Rows : r \in UpdateRows(q) =>
          r[2] <= count[r[1]] /\ r[1] \in scope[q]
  BY DEF UpdateRows, Committed
<1>4. \A r \in Rows : r[2] <= count[r[1]] => count[r[1]] > 0
  BY <1>1, RowsAre DEF TypeOK
<1>5. TypeOK'
  <2>1. UpdateRows(q) \in SUBSET Rows
    BY DEF UpdateRows, Committed
  <2>2. {f \in scope[q] : count[f] > 0} \in SUBSET Families
    BY <1>1 DEF TypeOK
  <2>3. todo' \in [Requests -> SUBSET Rows] /\ scope' \in [Requests -> SUBSET Families]
    BY <1>1, <2>1, <2>2 DEF TypeOK
  <2> QED BY <1>1, <1>2, <2>3 DEF TypeOK
<1>6. OneTip' /\ RevokedOnRequest' /\ Settled'
  BY <1>1 DEF IInv, OneTip, RevokedOnRequest, Settled
<1>7. Existing'
  BY <1>1, <1>2, <1>3 DEF IInv, Existing, TypeOK, UpdateRows, Committed
<1>8. Presented'
  BY <1>1, <1>2 DEF IInv, Presented
<1>9. Scoped'
  <2>1. \A r \in Rows : lock[r] = q => r[1] \in scope'[q]
    BY <1>1, <1>2, <1>4 DEF IInv, Existing, Scoped, TypeOK
  <2>2. \A r \in Rows : r \in todo'[q] => r[1] \in scope'[q]
    BY <1>2, <1>3, <1>4
  <2> QED BY <1>1, <1>2, <2>1, <2>2 DEF IInv, Scoped
<1>10. Covering'
  <2>1. \A r \in Rows : r[1] \in scope'[q] /\ r[2] <= count[r[1]] =>
            r \in revoked \/ r \in todo'[q]
    BY <1>2 DEF UpdateRows, Committed
  <2> QED BY <1>1, <1>2, <2>1 DEF IInv, Covering
<1> QED BY <1>5, <1>6, <1>7, <1>8, <1>9, <1>10 DEF IInv

\* Locking a row moves it from those still to lock to those locked.
LEMMA UpdateLockStep ==
    ASSUME IInv, NEW q \in Requests, NEW r \in Rows, UpdateLock(q, r) PROVE IInv'
<1>1. /\ TypeOK /\ pc[q] = "updating" /\ r \in todo[q] /\ lock[r] \in {NoRequest, q}
      /\ todo' = [todo EXCEPT ![q] = todo[q] \ {r}]
      /\ \/ r \in revoked /\ lock' = lock
         \/ lock' = [lock EXCEPT ![r] = q]
      /\ UNCHANGED <<count, rotated, revoked, expired, active, pc, kind, scope, ended, race>>
  <2>1. CASE kind[q] \in UnrevokedOnly /\ r \in revoked
    <3>1. lock' = lock
      BY <2>1 DEF UpdateLock, IInv, TypeOK
    <3> QED BY <2>1, <3>1 DEF UpdateLock, IInv, TypeOK
  <2>2. CASE ~(kind[q] \in UnrevokedOnly /\ r \in revoked)
    BY <2>2 DEF UpdateLock, IInv, TypeOK
  <2> QED BY <2>1, <2>2
<1>2. /\ todo'[q] = todo[q] \ {r} /\ \A p \in Requests \ {q} : todo'[p] = todo[p]
      /\ \A s \in Rows \ {r} : lock'[s] = lock[s]
      /\ lock'[r] \in {lock[r], q}
      /\ r \in revoked \/ lock'[r] = q
  BY <1>1 DEF TypeOK
<1>3. TypeOK'
  <2>1. lock' \in [Rows -> Requests \cup {NoRequest}] /\ todo' \in [Requests -> SUBSET Rows]
    BY <1>1 DEF TypeOK
  <2>2. \A s \in Rows : lock'[s] = NoRequest \/ pc'[lock'[s]] # "idle"
    BY <1>1, <1>2 DEF TypeOK
  <2> QED BY <1>1, <2>1, <2>2 DEF TypeOK
<1>4. OneTip' /\ RevokedOnRequest' /\ Settled'
  BY <1>1 DEF IInv, OneTip, RevokedOnRequest, Settled
<1>5. Existing'
  BY <1>1, <1>2 DEF IInv, Existing
<1>6. Presented'
  BY <1>1, <1>2 DEF IInv, Presented
<1>7. Scoped'
  BY <1>1, <1>2 DEF IInv, Scoped
<1>8. Covering'
  BY <1>1, <1>2 DEF IInv, Covering
<1> QED BY <1>3, <1>4, <1>5, <1>6, <1>7, <1>8 DEF IInv

\* An UPDATE that was not raced has every row of its families, and leaves them
\* revoked for good.
LEMMA UpdateCommitStep ==
    ASSUME IInv, NEW q \in Requests, UpdateCommit(q) PROVE IInv'
<1> USE RowsAre
<1>1. /\ TypeOK /\ Done(q) /\ pc[q] = "updating" /\ todo[q] = {}
      /\ revoked' = revoked \cup {r \in Rows : lock[r] = q}
      /\ ended' = ended \cup {<<kind[q], f>> : f \in scope[q]}
      /\ raced' = (raced \ scope[q]) \cup missed[q]
      /\ missed' = [missed EXCEPT ![q] = {}]
      /\ UNCHANGED <<count, rotated, expired, active>>
  BY DEF UpdateCommit, Mine, IInv
<1>12. /\ missed' \in [Requests -> SUBSET Families] /\ missed'[q] = {}
       /\ \A p \in Requests \ {q} : missed'[p] = missed[p]
       /\ raced' \in SUBSET Families
  BY <1>1 DEF TypeOK
<1>2. kind[q] \in Kinds \cup {"refresh"} /\ scope[q] \in SUBSET Families
  BY <1>1 DEF IInv, Scoped, TypeOK
<1>3. ASSUME NEW k \in Kinds \cup {"refresh"}, NEW f \in Families
      PROVE  <<k, f>> \in ended' <=> <<k, f>> \in ended \/ (k = kind[q] /\ f \in scope[q])
  <2>1. <<k, f>> \in {<<kind[q], h>> : h \in scope[q]} <=> k = kind[q] /\ f \in scope[q]
    OBVIOUS
  <2>2. ended' = ended \cup {<<kind[q], h>> : h \in scope[q]}
    BY <1>1, Zenon
  <2> QED BY <2>1, <2>2
<1>4. TypeOK'
  <2>1. ended' \in SUBSET ((Kinds \cup {"refresh"}) \X Families)
    BY <1>1, <1>2 DEF TypeOK
  <2>2. revoked' \in SUBSET Rows
    BY <1>1 DEF TypeOK
  <2> QED BY <1>1, <1>12, <2>1, <2>2, DoneReleases DEF TypeOK
<1>5. OneTip'
  BY <1>1 DEF IInv, OneTip
<1>6. RevokedOnRequest'
  <2>1. ASSUME NEW r \in Rows, lock[r] = q PROVE <<kind[q], r[1]>> \in ended'
    BY <1>1, <1>3, <2>1 DEF IInv, Scoped
  <2> QED BY <1>1, <1>2, <2>1 DEF IInv, RevokedOnRequest
<1>7. Existing'
  BY <1>1, DoneReleases DEF IInv, Existing
<1>8. Presented'
  BY <1>1, DoneReleases DEF IInv, Presented
<1>9. Scoped'
  BY <1>1, DoneReleases DEF IInv, Scoped
<1>10. Covering'
  BY <1>1, <1>12, DoneReleases DEF IInv, Covering
<1>11. Settled'
  <2>1. ASSUME NEW f \in scope[q]
        PROVE  /\ count[f] > 0
               /\ f \notin raced' => \A r \in Rows : r[1] = f /\ r[2] <= count[f] => r \in revoked'
    <3>1. count[f] > 0
      BY <1>1 DEF IInv, Scoped
    <3>2. f \notin missed[q] => \A r \in Rows : r[1] = f /\ r[2] <= count[f] => r \in revoked \/ lock[r] = q
      BY <1>1 DEF IInv, Covering
    <3> QED BY <1>1, <3>1, <3>2
  <2>2. \A k \in Kinds \cup {"refresh"}, f \in Families : <<k, f>> \in ended' =>
           /\ count[f] > 0
           /\ f \notin raced' => \A r \in Rows : r[1] = f /\ r[2] <= count[f] => r \in revoked'
    BY <1>1, <1>3, <2>1 DEF IInv, Settled
  <2>3. \A f \in raced' : count'[f] > 1
    BY <1>1 DEF IInv, Settled
  <2>4. \A p \in Requests : \A f \in missed'[p] : count'[f] > 1
    BY <1>1, <1>12 DEF IInv, Settled
  <2> QED BY <1>1, <2>2, <2>3, <2>4 DEF Settled
<1> QED BY <1>4, <1>5, <1>6, <1>7, <1>8, <1>9, <1>10, <1>11 DEF IInv

-----------------------------------------------------------------------------
\* Every step, and every stutter, preserves the inductive invariant.
LEMMA StepPreserves == ASSUME IInv, [Next]_vars PROVE IInv'
<1>1. CASE UNCHANGED vars
  BY <1>1 DEF vars, request, IInv, TypeOK, OneTip, RevokedOnRequest, Existing, Presented,
              Scoped, Covering, Settled
<1>2. ASSUME NEW f \in Families, Login(f) PROVE IInv'
  BY <1>2, LoginStep
<1>3. ASSUME SetActive \/ \E f \in Families : Expire(f) PROVE IInv'
  <2>1. /\ active' \in BOOLEAN /\ expired' \in SUBSET Families
        /\ UNCHANGED <<count, rotated, revoked, lock, request, ended, race>>
    BY <1>3 DEF SetActive, Expire, IInv, TypeOK
  <2>2. TypeOK'
    BY <2>1 DEF request, IInv, TypeOK
  <2> QED BY <2>1, <2>2 DEF request, IInv, OneTip, RevokedOnRequest, Existing, Presented,
                            Scoped, Covering, Settled
<1>4. ASSUME NEW q \in Requests, NEW r \in Rows, RefreshUsable(q, r) PROVE IInv'
  BY <1>4, Presents DEF RefreshUsable, Committed
<1>5. ASSUME NEW q \in Requests, NEW r \in Rows, RefreshReused(q, r) PROVE IInv'
  BY <1>5, Presents DEF RefreshReused, Committed, WillRevoke
<1>6. ASSUME NEW q \in Requests, NEW k \in Kinds, NEW fs \in SUBSET Families,
             Authenticate(q, k, fs)
      PROVE  IInv'
  BY <1>6, AuthenticateStep
<1>7. ASSUME NEW q \in Requests, Proceed(q) PROVE IInv'
  BY <1>7, RefreshUserStep, RefreshCommitStep, UpdateBeginStep, UpdateLockStep, UpdateCommitStep
     DEF Proceed
<1>8. ASSUME NEW q \in Requests, DeadlockVictim(q) \/ Rollback(q) PROVE IInv'
  BY <1>8, Abandons DEF DeadlockVictim, Rollback
<1> QED
  BY <1>1, <1>2, <1>3, <1>4, <1>5, <1>6, <1>7, <1>8 DEF Next

\* The inductive invariant holds in every reachable state.
THEOREM Inductive == Spec => []IInv
<1>1. Init => IInv
  BY InitEstablishes
<1>2. IInv /\ [Next]_vars => IInv'
  BY StepPreserves
<1> QED BY <1>1, <1>2, PTL DEF Spec

\* The variables of Sessions keep their types, and only requests in progress
\* have rows locked.
THEOREM TypeCorrect == Spec => []TypeOK
<1>1. IInv => TypeOK
  BY DEF IInv
<1> QED BY <1>1, Inductive, PTL

\* A family has one row that is not rotated (refresh).
THEOREM Tip == Spec => []OneTip
<1>1. IInv => OneTip
  BY DEF IInv
<1> QED BY <1>1, Inductive, PTL

\* A row is revoked only by a request about its family (logout,
\* revoke_session, revoke_all, reset_password and refresh).
THEOREM NothingElse == Spec => []RevokedOnRequest
<1>1. IInv => RevokedOnRequest
  BY DEF IInv
<1> QED BY <1>1, Inductive, PTL

\* A revoked family lives on only if a refresh raced its last revocation.
THEOREM Survivors == Spec => []SurvivorsWereRaced
<1>1. IInv => SurvivorsWereRaced
  <2> SUFFICES ASSUME IInv, NEW k \in Kinds \cup {"refresh"}, NEW f \in Families,
                      <<k, f>> \in ended, NEW r \in Live(f)
               PROVE  f \in raced /\ count[f] > 1
    BY DEF SurvivorsWereRaced
  <2>1. r \in Rows /\ r[1] = f /\ r[2] <= count[f] /\ r \notin revoked
    BY DEF Live, Committed
  <2> QED BY <2>1 DEF IInv, Settled
<1> QED BY <1>1, Inductive, PTL

-----------------------------------------------------------------------------
(* Sessions implements SessionChain *)

\* What is revoked of a family, and what an UPDATE in flight will add to it, are
\* its first rows up to one of them.
RevokedIsCut ==
    /\ \A r \in revoked : r[2] <= count[r[1]]
    /\ \A r \in revoked, s \in Rows : s[1] = r[1] /\ s[2] <= r[2] => s \in revoked
    /\ \A q \in Requests, r, s \in Rows :
           /\ pc[q] = "updating" /\ s[1] = r[1] /\ s[2] <= r[2]
           /\ r \in todo[q] \/ lock[r] = q
           => s \in todo[q] \/ lock[s] = q \/ s \in revoked

\* A step that revokes nothing and leaves alone the rows that the UPDATEs in
\* flight have locked and have still to lock.
LEMMA CutKept ==
    ASSUME RevokedIsCut, revoked' = revoked,
           \A r \in revoked : count'[r[1]] >= count[r[1]],
           TypeOK, TypeOK',
           \A q \in Requests : pc'[q] = "updating" =>
               /\ pc[q] = "updating" /\ todo'[q] = todo[q]
               /\ \A r \in Rows : lock'[r] = q <=> lock[r] = q
    PROVE  RevokedIsCut'
<1>1. \A r \in revoked : r[2] <= count'[r[1]]
  <2> SUFFICES ASSUME NEW r \in revoked PROVE r[2] <= count'[r[1]]
    OBVIOUS
  <2>1. r \in Rows /\ r[2] <= count[r[1]] /\ count'[r[1]] >= count[r[1]]
    BY DEF RevokedIsCut, TypeOK
  <2>2. count[r[1]] \in Nat /\ count'[r[1]] \in Nat /\ r[2] \in Nat
    BY <2>1, RowsAre DEF TypeOK
  <2> QED BY <2>1, <2>2
<1> QED BY <1>1 DEF RevokedIsCut

\* The rows that an UPDATE fixes, with those revoked before, are all there are.
LEMMA UpdateBeginCut ==
    ASSUME IInv, RevokedIsCut, NEW q \in Requests, UpdateBegin(q) PROVE RevokedIsCut'
<1>1. /\ TypeOK /\ pc[q] = "update"
      /\ pc' = [pc EXCEPT ![q] = "updating"] /\ todo' = [todo EXCEPT ![q] = UpdateRows(q)]
      /\ UNCHANGED <<count, revoked, lock>>
  BY DEF IInv, UpdateBegin
<1>2. /\ todo'[q] = UpdateRows(q)
      /\ \A p \in Requests \ {q} : pc'[p] = pc[p] /\ todo'[p] = todo[p]
  BY <1>1 DEF TypeOK
<1>3. ASSUME NEW r \in Rows, NEW s \in Rows, s[1] = r[1], s[2] <= r[2],
             r \in todo'[q] \/ lock[r] = q
      PROVE  s \in todo'[q] \/ s \in revoked
  <2>1. r[1] \in scope[q] /\ r[2] <= count[r[1]]
    BY <1>1, <1>2, <1>3 DEF IInv, Scoped, Existing, TypeOK, UpdateRows, Committed
  <2>2. s[2] <= count[s[1]]
    BY <1>1, <1>3, <2>1, RowsAre DEF TypeOK
  <2> QED BY <1>2, <1>3, <2>1, <2>2 DEF UpdateRows, Committed
<1> QED BY <1>1, <1>2, <1>3 DEF RevokedIsCut

\* A row that is not locked when its turn comes has been revoked meanwhile.
LEMMA UpdateLockCut ==
    ASSUME IInv, RevokedIsCut, NEW q \in Requests, NEW r \in Rows, UpdateLock(q, r)
    PROVE  RevokedIsCut'
<1>1. /\ TypeOK /\ pc[q] = "updating" /\ r \in todo[q] /\ lock[r] \in {NoRequest, q}
      /\ todo' = [todo EXCEPT ![q] = todo[q] \ {r}]
      /\ lock' = [lock EXCEPT ![r] = IF kind[q] \in UnrevokedOnly /\ r \in revoked
                                    THEN lock[r] ELSE q]
      /\ UNCHANGED <<count, revoked, pc>>
  BY DEF IInv, UpdateLock
<1>2. /\ todo'[q] = todo[q] \ {r} /\ \A p \in Requests \ {q} : todo'[p] = todo[p]
      /\ \A s \in Rows \ {r} : lock'[s] = lock[s]
      /\ lock'[r] \in {lock[r], q}
      /\ r \in revoked \/ lock'[r] = q
  BY <1>1 DEF TypeOK
<1> QED BY <1>1, <1>2 DEF RevokedIsCut

\* At its commit an UPDATE has locked all that it will revoke.
LEMMA UpdateCommitCut ==
    ASSUME IInv, RevokedIsCut, NEW q \in Requests, UpdateCommit(q) PROVE RevokedIsCut'
<1>1. /\ TypeOK /\ Done(q) /\ pc[q] = "updating" /\ todo[q] = {}
      /\ revoked' = revoked \cup {r \in Rows : lock[r] = q}
      /\ UNCHANGED count
  BY DEF UpdateCommit, Mine, IInv
<1>2. \A r \in revoked' : r[2] <= count'[r[1]]
  BY <1>1, RowsAre DEF RevokedIsCut, IInv, Existing
<1>3. \A r \in revoked', s \in Rows : s[1] = r[1] /\ s[2] <= r[2] => s \in revoked'
  BY <1>1 DEF RevokedIsCut, TypeOK
<1>4. ASSUME NEW p \in Requests, NEW r \in Rows, NEW s \in Rows, pc'[p] = "updating",
             s[1] = r[1], s[2] <= r[2], r \in todo'[p] \/ lock'[r] = p
      PROVE  s \in todo'[p] \/ lock'[s] = p \/ s \in revoked'
  <2>1. p # q
    BY <1>1, <1>4, DoneReleases
  <2>2. pc[p] = "updating" /\ todo'[p] = todo[p]
    BY <1>1, <1>4, <2>1, DoneReleases
  <2>3. \A x \in Rows : lock'[x] = p <=> lock[x] = p
    BY <1>1, <2>1, DoneReleases
  <2> QED BY <1>1, <1>4, <2>2, <2>3 DEF RevokedIsCut
<1> QED BY <1>2, <1>3, <1>4 DEF RevokedIsCut

\* Every step keeps what is revoked a cut.
LEMMA StepKeepsCut ==
    ASSUME IInv, RevokedIsCut, [Next]_vars PROVE RevokedIsCut'
<1>1. TypeOK /\ TypeOK'
  BY StepPreserves DEF IInv
<1>2. count \in [Families -> 0 .. MaxRows] /\ \A r \in revoked : r[1] \in Families
  BY <1>1, RowsAre DEF TypeOK
<1>3. CASE UNCHANGED vars
  BY <1>3 DEF vars, request, RevokedIsCut
<1>4. ASSUME NEW f \in Families, Login(f) PROVE RevokedIsCut'
  <2>1. \A r \in revoked : count'[r[1]] >= count[r[1]]
    BY <1>2, <1>4 DEF Login
  <2> QED BY <1>1, <1>4, <2>1, CutKept DEF Login, request
<1>5. ASSUME SetActive \/ \E f \in Families : Expire(f) PROVE RevokedIsCut'
  BY <1>5 DEF SetActive, Expire, request, RevokedIsCut
<1>6. ASSUME NEW q \in Requests, NEW r \in Rows, RefreshUsable(q, r) \/ RefreshReused(q, r)
      PROVE  RevokedIsCut'
  <2>1. /\ UNCHANGED <<count, revoked, todo>> /\ pc[q] = "idle" /\ pc'[q] # "updating"
        /\ \A p \in Requests \ {q} : pc'[p] = pc[p]
        /\ lock[r] = NoRequest /\ lock' = [lock EXCEPT ![r] = q]
    BY <1>1, <1>6 DEF RefreshUsable, RefreshReused, WillRevoke, TypeOK
  <2>2. \A x \in revoked : count'[x[1]] >= count[x[1]]
    BY <1>2, <2>1
  <2>3. \A p \in Requests \ {q}, x \in Rows : lock'[x] = p <=> lock[x] = p
    BY <1>1, <2>1 DEF TypeOK
  <2> QED BY <1>1, <2>1, <2>2, <2>3, CutKept
<1>7. ASSUME NEW q \in Requests,
             RefreshUser(q) \/ \E k \in Kinds, fs \in SUBSET Families : Authenticate(q, k, fs)
      PROVE  RevokedIsCut'
  <2>1. /\ UNCHANGED <<count, revoked, todo, lock>> /\ pc'[q] # "updating"
        /\ \A p \in Requests \ {q} : pc'[p] = pc[p]
    BY <1>1, <1>7 DEF RefreshUser, Authenticate, WillRevoke, TypeOK
  <2>2. \A x \in revoked : count'[x[1]] >= count[x[1]]
    BY <1>2, <2>1
  <2> QED BY <1>1, <2>1, <2>2, CutKept
<1>8. ASSUME NEW q \in Requests,
             DeadlockVictim(q) \/ Rollback(q) \/ \E r \in Rows : RefreshCommit(q, r)
      PROVE  RevokedIsCut'
  <2>1. /\ Done(q) /\ UNCHANGED revoked
        /\ count' = count \/ \E r \in Rows : count' = [count EXCEPT ![r[1]] = @ + 1]
    BY <1>8 DEF DeadlockVictim, Rollback, RefreshCommit
  <2>2. \A x \in revoked : count'[x[1]] >= count[x[1]]
    BY <1>2, <2>1
  <2>3. \A p \in Requests : pc'[p] = "updating" =>
            /\ pc[p] = "updating" /\ todo'[p] = todo[p]
            /\ \A r \in Rows : lock'[r] = p <=> lock[r] = p
    BY <1>1, <2>1, DoneReleases
  <2> QED BY <1>1, <2>1, <2>2, <2>3, CutKept
<1> QED
  BY <1>3, <1>4, <1>5, <1>6, <1>7, <1>8, UpdateBeginCut, UpdateLockCut, UpdateCommitCut
  DEF Next, Proceed

\* What a refresh has locked until it commits or gives up: the row it presented.
Holding ==
    \A q \in Requests : pc[q] \in {"user", "rotate"} => \E r \in Rows : Mine(q) = {r}

\* Whoever keeps its locks, or gets its first one, holds a row.
LEMMA HoldingKept ==
    ASSUME Holding,
           \A p \in Requests : pc'[p] \in {"user", "rotate"} =>
               \/ \E r \in Rows : \A s \in Rows : lock'[s] = p <=> s = r
               \/ /\ pc[p] \in {"user", "rotate"}
                  /\ \A s \in Rows : lock'[s] = p <=> lock[s] = p
    PROVE  Holding'
<1> SUFFICES ASSUME NEW p \in Requests, pc'[p] \in {"user", "rotate"}
             PROVE  \E r \in Rows : Mine(p)' = {r}
  BY DEF Holding
<1>1. PICK r \in Rows : \A s \in Rows : lock'[s] = p <=> s = r
  BY DEF Holding, Mine
<1> QED BY <1>1 DEF Mine

LEMMA StepKeepsHolding ==
    ASSUME TypeOK, Holding, [Next]_vars PROVE Holding'
<1>1. CASE UNCHANGED <<pc, lock>>
  BY <1>1 DEF Holding, Mine
<1>2. ASSUME NEW q \in Requests, NEW r \in Rows, RefreshUsable(q, r) \/ RefreshReused(q, r)
      PROVE  Holding'
  <2>1. /\ \A p \in Requests \ {q} : pc'[p] = pc[p]
        /\ lock[r] = NoRequest /\ lock'[r] = q /\ \A s \in Rows : lock[s] # q
        /\ \A s \in Rows \ {r} : lock'[s] = lock[s]
    BY <1>2 DEF RefreshUsable, RefreshReused, WillRevoke, TypeOK
  <2> QED BY <2>1, HoldingKept
<1>3. ASSUME NEW q \in Requests,
             \/ RefreshUser(q)
             \/ \E k \in Kinds, fs \in SUBSET Families : Authenticate(q, k, fs)
             \/ UpdateBegin(q)
      PROVE  Holding'
  <2>1. /\ UNCHANGED lock /\ \A p \in Requests \ {q} : pc'[p] = pc[p]
        /\ pc'[q] \in {"user", "rotate"} => pc[q] = "user"
    BY <1>3 DEF RefreshUser, Authenticate, UpdateBegin, WillRevoke, TypeOK
  <2> QED BY <2>1, HoldingKept
<1>4. ASSUME NEW q \in Requests, NEW r \in Rows, UpdateLock(q, r) PROVE Holding'
  <2>1. /\ UNCHANGED pc /\ pc[q] = "updating"
        /\ lock[r] \in {NoRequest, q} /\ lock'[r] \in {lock[r], q}
        /\ \A s \in Rows \ {r} : lock'[s] = lock[s]
    BY <1>4 DEF UpdateLock, TypeOK
  <2> QED BY <2>1, HoldingKept
<1>5. ASSUME NEW q \in Requests, Done(q) PROVE Holding'
  <2>1. /\ pc'[q] = "idle" /\ \A p \in Requests \ {q} : pc'[p] = pc[p]
        /\ \A r \in Rows : lock'[r] = IF lock[r] = q THEN NoRequest ELSE lock[r]
    BY <1>5, DoneReleases
  <2> QED BY <2>1, HoldingKept
<1> QED
  BY <1>1, <1>2, <1>3, <1>4, <1>5
  DEF Next, Proceed, Login, Expire, SetActive, request, vars,
      UpdateCommit, RefreshCommit, DeadlockVictim, Rollback

\* The generations of a set of rows change with the rows.
LEMMA GenerationsOf ==
    ASSUME NEW rows, NEW f \in Families
    PROVE  /\ Generations(f, rows) \subseteq 1 .. MaxRows
           /\ \A g \in 1 .. MaxRows : g \in Generations(f, rows) <=> <<f, g>> \in rows
BY DEF Generations

\* What is rotated and revoked is what is spent and cut.
LEMMA RowsKept ==
    /\ UNCHANGED rotated => UNCHANGED Spent
    /\ UNCHANGED revoked => UNCHANGED Cut
BY DEF Spent, Cut, Generations

\* The tip of a family is in one exchange.
LEMMA OneExchange ==
    ASSUME IInv, NEW q \in Requests, NEW r \in Rows, pc[q] \in {"user", "rotate"}, lock[r] = q
    PROVE  /\ r[1] \in Families /\ r[2] = count[r[1]] /\ count[r[1]] \in 1 .. MaxRows
           /\ r = <<r[1], count[r[1]]>>
           /\ count[r[1]] \notin Spent[r[1]] \cup Cut[r[1]]
           /\ r[1] \in InExchange
           /\ \A p \in Requests, s \in Rows :
                  pc[p] \in {"user", "rotate"} /\ lock[s] = p /\ s[1] = r[1] => p = q
<1>1. /\ r[1] \in Families /\ r[2] \in 1 .. MaxRows /\ r = <<r[1], r[2]>>
      /\ r[2] = count[r[1]] /\ r \notin rotated /\ r \notin revoked
  BY RowsAre DEF IInv, Presented
<1>2. count[r[1]] \notin Generations(r[1], rotated) \cup Generations(r[1], revoked)
  BY <1>1, GenerationsOf
<1>3. Spent[r[1]] = Generations(r[1], rotated) /\ Cut[r[1]] = Generations(r[1], revoked)
  BY <1>1 DEF Spent, Cut
<1>4. ASSUME NEW p \in Requests, NEW s \in Rows,
             pc[p] \in {"user", "rotate"}, lock[s] = p, s[1] = r[1]
      PROVE  p = q
  <2>1. s[2] = count[s[1]] /\ s = <<s[1], s[2]>>
    BY <1>4, RowsAre DEF IInv, Presented
  <2>2. s = r
    BY <1>1, <1>4, <2>1
  <2> QED BY <1>4, <2>2
<1>5. r[1] \in InExchange
  BY <1>1 DEF InExchange
<1> QED BY <1>1, <1>2, <1>3, <1>4, <1>5

\* A step that lets no token in and no exchange go.
LEMMA ExchangesKept ==
    ASSUME \A p \in Requests :
               /\ pc'[p] \in {"user", "rotate"} <=> pc[p] \in {"user", "rotate"}
               /\ pc[p] \in {"user", "rotate"} =>
                      \A r \in Rows : lock'[r] = p <=> lock[r] = p
    PROVE  UNCHANGED InExchange
BY DEF InExchange

\* A request that stops being a refresh lets go the one exchange it had.
LEMMA ExchangeEnds ==
    ASSUME IInv, Holding, NEW q \in Requests,
           pc[q] \in {"user", "rotate"}, pc'[q] \notin {"user", "rotate"},
           \A p \in Requests \ {q} :
               pc'[p] = pc[p] /\ \A r \in Rows : lock'[r] = p <=> lock[r] = p
    PROVE  \E r \in Rows : /\ Mine(q) = {r} /\ r[1] \in InExchange
                           /\ InExchange' = InExchange \ {r[1]}
<1>1. PICK r \in Rows : Mine(q) = {r}
  BY DEF Holding
<1>2. lock[r] = q /\ \A s \in Rows : lock[s] = q => s = r
  BY <1>1 DEF Mine
<1>3. /\ r[1] \in InExchange
      /\ \A p \in Requests, s \in Rows :
             pc[p] \in {"user", "rotate"} /\ lock[s] = p /\ s[1] = r[1] => p = q
  BY <1>2, OneExchange
<1>4. ASSUME NEW f \in Families PROVE f \in InExchange' <=> f \in InExchange /\ f # r[1]
  <2>1. ASSUME f \in InExchange' PROVE f \in InExchange /\ f # r[1]
    <3>1. PICK p \in Requests, s \in Rows :
              pc'[p] \in {"user", "rotate"} /\ lock'[s] = p /\ s[1] = f
      BY <2>1 DEF InExchange
    <3>2. p # q /\ pc[p] \in {"user", "rotate"} /\ lock[s] = p
      BY <3>1
    <3> QED BY <1>3, <3>1, <3>2 DEF InExchange
  <2>2. ASSUME f \in InExchange, f # r[1] PROVE f \in InExchange'
    <3>1. PICK p \in Requests, s \in Rows :
              pc[p] \in {"user", "rotate"} /\ lock[s] = p /\ s[1] = f
      BY <2>2 DEF InExchange
    <3>2. p # q
      BY <1>2, <2>2, <3>1
    <3> QED BY <3>1, <3>2 DEF InExchange
  <2> QED BY <2>1, <2>2
<1>5. InExchange' = InExchange \ {r[1]}
  BY <1>4 DEF InExchange
<1> QED BY <1>1, <1>3, <1>5

-----------------------------------------------------------------------------
\* At first there are no chains.
LEMMA ChainInit == ASSUME Init PROVE Chain!Init
<1>1. \A f \in Families : Generations(f, {}) = {}
  BY DEF Generations
<1>2. Spent = [f \in Families |-> {}] /\ Cut = [f \in Families |-> {}]
  BY <1>1 DEF Init, Spent, Cut
<1>3. InExchange = {}
  BY DEF Init, InExchange
<1> QED BY <1>2, <1>3 DEF Init, Chain!Init

\* A login opens a chain, and time ends one.
LEMMA LoginIsOpen ==
    ASSUME NEW f \in Families, Login(f) PROVE Chain!Open(f)
<1>1. UNCHANGED InExchange
  BY DEF Login, request, InExchange
<1> QED BY <1>1, RowsKept DEF Login, Chain!Open

LEMMA ExpireIsExpire ==
    ASSUME NEW f \in Families, Expire(f) PROVE Chain!Expire(f)
<1>1. UNCHANGED InExchange
  BY DEF Expire, request, InExchange
<1> QED BY <1>1, RowsKept DEF Expire, Chain!Expire

\* A refresh that finds its token usable begins an exchange: the token is the
\* newest of its family, whose expires_at has not passed, and no other refresh
\* has its row.
LEMMA UsableIsAccepted ==
    ASSUME IInv, NEW q \in Requests, NEW r \in Rows, RefreshUsable(q, r)
    PROVE  Chain!Accept(r[1])
<1>1. /\ TypeOK /\ IInv' /\ pc[q] = "idle" /\ lock[r] = NoRequest /\ r[1] \notin expired
      /\ pc' = [pc EXCEPT ![q] = "user"] /\ lock' = [lock EXCEPT ![r] = q]
      /\ UNCHANGED <<count, rotated, revoked, expired>>
  <2>1. IInv'
    BY Presents DEF RefreshUsable, Committed
  <2> QED BY <2>1 DEF RefreshUsable, IInv
<1>2. /\ pc'[q] = "user" /\ \A p \in Requests \ {q} : pc'[p] = pc[p]
      /\ lock'[r] = q /\ \A s \in Rows \ {r} : lock'[s] = lock[s]
      /\ \A s \in Rows : lock[s] # q
  BY <1>1 DEF TypeOK
<1>3. r[2] = count[r[1]] /\ r \notin rotated /\ r \notin revoked
  BY <1>1, <1>2 DEF IInv, Presented
<1>4. /\ r[1] \in Families /\ r[2] \in 1 .. MaxRows /\ r = <<r[1], r[2]>>
  BY RowsAre
<1>5. Chain!Usable(r[1])
  <2>1. count[r[1]] \notin Generations(r[1], rotated) \cup Generations(r[1], revoked)
    BY <1>3, <1>4, GenerationsOf
  <2>2. Spent[r[1]] = Generations(r[1], rotated) /\ Cut[r[1]] = Generations(r[1], revoked)
    BY <1>4 DEF Spent, Cut
  <2> QED BY <1>3, <1>4, <2>1, <2>2 DEF Chain!Usable
<1>6. r[1] \notin InExchange
  <2> SUFFICES ASSUME NEW p \in Requests, NEW s \in Rows,
                      pc[p] \in {"user", "rotate"}, lock[s] = p, s[1] = r[1]
               PROVE  FALSE
    BY DEF InExchange
  <2>1. s = <<s[1], count[s[1]]>>
    BY OneExchange
  <2> QED BY <1>1, <1>3, <1>4, <2>1
<1>7. InExchange' = InExchange \cup {r[1]}
  <2>1. ASSUME NEW f \in Families PROVE f \in InExchange' <=> f \in InExchange \/ f = r[1]
    <3>1. ASSUME f \in InExchange' PROVE f \in InExchange \/ f = r[1]
      BY <1>2, <3>1 DEF InExchange
    <3>2. ASSUME f \in InExchange PROVE f \in InExchange'
      <4>1. PICK p \in Requests, s \in Rows :
                pc[p] \in {"user", "rotate"} /\ lock[s] = p /\ s[1] = f
        BY <3>2 DEF InExchange
      <4>2. p # q /\ s # r
        BY <1>1, <1>2, <4>1
      <4> QED BY <1>2, <4>1, <4>2 DEF InExchange
    <3>3. ASSUME f = r[1] PROVE f \in InExchange'
      BY <1>2, <3>3 DEF InExchange
    <3> QED BY <3>1, <3>2, <3>3
  <2> QED BY <1>4, <2>1 DEF InExchange
<1> QED BY <1>1, <1>5, <1>6, <1>7, RowsKept DEF Chain!Accept

\* A refresh that commits exchanges the newest token of its chain.
LEMMA RefreshIsExchange ==
    ASSUME IInv, Holding, NEW q \in Requests, NEW r \in Rows, RefreshCommit(q, r)
    PROVE  Chain!Exchange(r[1])
<1>1. /\ TypeOK /\ Done(q) /\ r \in Mine(q) /\ lock[r] = q /\ pc[q] = "rotate"
      /\ rotated' = rotated \cup {r} /\ count' = [count EXCEPT ![r[1]] = @ + 1]
      /\ UNCHANGED <<revoked, expired>>
  BY DEF RefreshCommit, Mine, IInv
<1>2. /\ r[1] \in Families /\ r[2] = count[r[1]] /\ count[r[1]] \in 1 .. MaxRows
      /\ r = <<r[1], count[r[1]]>>
      /\ count[r[1]] \notin Spent[r[1]] \cup Cut[r[1]] /\ r[1] \in InExchange
  BY <1>1, OneExchange
<1>3. ASSUME NEW f \in Families
      PROVE  Generations(f, rotated') =
                 IF f = r[1] THEN Generations(f, rotated) \cup {count[f]}
                 ELSE Generations(f, rotated)
  <2>1. \A g \in 1 .. MaxRows : <<f, g>> = r <=> f = r[1] /\ g = r[2]
    BY <1>2
  <2>2. CASE f = r[1]
    BY <1>1, <1>2, <2>1, <2>2 DEF Generations
  <2>3. CASE f # r[1]
    BY <1>1, <2>1, <2>3 DEF Generations
  <2> QED BY <2>2, <2>3
<1>4. Spent' = [Spent EXCEPT ![r[1]] = @ \cup {count[r[1]]}]
  BY <1>2, <1>3 DEF Spent
<1>5. InExchange' = InExchange \ {r[1]}
  <2>1. PICK s \in Rows : Mine(q) = {s} /\ InExchange' = InExchange \ {s[1]}
    BY <1>1, DoneReleases, ExchangeEnds
  <2> QED BY <1>1, <2>1
<1> QED BY <1>1, <1>2, <1>4, <1>5, RowsKept DEF Chain!Exchange, Chain!Usable

\* A refresh that ends without a successor gives its exchange up.
LEMMA EndsWithoutSuccessor ==
    ASSUME IInv, Holding, NEW q \in Requests,
           pc[q] \in {"user", "rotate"}, pc'[q] \notin {"user", "rotate"},
           \A p \in Requests \ {q} :
               pc'[p] = pc[p] /\ \A r \in Rows : lock'[r] = p <=> lock[r] = p,
           UNCHANGED <<count, rotated, revoked, expired>>
    PROVE  Chain!Next
<1>1. PICK r \in Rows : r[1] \in InExchange /\ InExchange' = InExchange \ {r[1]}
  BY ExchangeEnds
<1>2. r[1] \in Families
  BY RowsAre
<1>3. Chain!GiveUp(r[1])
  BY <1>1, RowsKept DEF Chain!GiveUp
<1> QED BY <1>2, <1>3 DEF Chain!Next

\* An UPDATE that commits cuts the chains it is about.
LEMMA UpdateIsRevoke ==
    ASSUME IInv, RevokedIsCut, RevokedIsCut', NEW q \in Requests, UpdateCommit(q)
    PROVE  Chain!Revoke
<1>1. /\ TypeOK /\ Done(q) /\ pc[q] = "updating" /\ UNCHANGED <<count, rotated, expired>>
      /\ revoked' = revoked \cup {r \in Rows : lock[r] = q}
  BY DEF UpdateCommit, Mine, IInv
<1>2. Cut' \in [Families -> SUBSET Nat]
  <2>1. \A f \in Families : Generations(f, revoked') \in SUBSET Nat
    BY GenerationsOf
  <2> QED BY <2>1 DEF Cut
<1>3. \A f \in Families : Cut[f] \subseteq Cut'[f]
  BY <1>1 DEF Generations, Cut
<1>4. \A f \in Families : Generations(f, revoked') \subseteq 1 .. count[f]
  <2> SUFFICES ASSUME NEW f \in Families, NEW g \in Generations(f, revoked')
               PROVE  g \in 1 .. count[f]
    OBVIOUS
  <2>1. g \in 1 .. MaxRows /\ <<f, g>> \in revoked'
    BY GenerationsOf
  <2> QED BY <1>1, <2>1, RowsAre DEF RevokedIsCut, TypeOK
<1>5. \A f \in Families : \A g \in Generations(f, revoked') :
          1 .. g \subseteq Generations(f, revoked')
  <2> SUFFICES ASSUME NEW f \in Families, NEW g \in Generations(f, revoked'), NEW h \in 1 .. g
               PROVE  h \in Generations(f, revoked')
    OBVIOUS
  <2>1. g \in 1 .. MaxRows /\ <<f, g>> \in revoked' /\ h \in 1 .. MaxRows
    BY GenerationsOf
  <2>2. <<f, h>> \in revoked'
    BY <2>1, RowsAre DEF RevokedIsCut
  <2> QED BY <2>1, <2>2, GenerationsOf
<1>6. \A f \in Families : Cut'[f] = Generations(f, revoked')
  BY DEF Cut
<1>7. UNCHANGED InExchange
  BY <1>1, DoneReleases, ExchangesKept
<1>8. UNCHANGED <<count, Spent, expired, InExchange>>
  BY <1>1, <1>7, RowsKept
<1> QED BY <1>2, <1>3, <1>4, <1>5, <1>6, <1>8 DEF Chain!Revoke

\* The refinement, step by step: a login opens a chain, a refresh begins an
\* exchange, completes it or gives it up, an UPDATE cuts, and whatever else
\* happens is invisible.
LEMMA ChainStep ==
    ASSUME IInv, RevokedIsCut, Holding, [Next]_vars PROVE [Chain!Next]_Chain!vars
<1>1. TypeOK /\ IInv' /\ RevokedIsCut'
  BY StepPreserves, StepKeepsCut DEF IInv
<1>2. ASSUME UNCHANGED <<count, rotated, revoked, expired>>, UNCHANGED InExchange
      PROVE  UNCHANGED Chain!vars
  BY <1>2, RowsKept DEF Chain!vars
<1>3. CASE UNCHANGED vars \/ SetActive
  <2>1. UNCHANGED <<count, rotated, revoked, expired, pc, lock>>
    BY <1>3 DEF vars, request, SetActive
  <2> QED BY <1>2, <2>1, ExchangesKept
<1>4. ASSUME NEW f \in Families, Login(f) \/ Expire(f) PROVE Chain!Next
  BY <1>4, LoginIsOpen, ExpireIsExpire DEF Chain!Next
<1>5. ASSUME NEW q \in Requests, NEW r \in Rows, RefreshUsable(q, r) PROVE Chain!Next
  BY <1>5, UsableIsAccepted, RowsAre DEF Chain!Next
<1>6. ASSUME NEW q \in Requests, NEW r \in Rows, RefreshReused(q, r)
      PROVE  UNCHANGED Chain!vars
  <2>1. /\ UNCHANGED <<count, rotated, revoked, expired>>
        /\ pc[q] = "idle" /\ pc'[q] = "update" /\ \A p \in Requests \ {q} : pc'[p] = pc[p]
        /\ \A s \in Rows, p \in Requests \ {q} : lock'[s] = p <=> lock[s] = p
    BY <1>1, <1>6 DEF RefreshReused, WillRevoke, TypeOK
  <2> QED BY <1>2, <2>1, ExchangesKept
<1>7. ASSUME NEW q \in Requests, RefreshUser(q) PROVE [Chain!Next]_Chain!vars
  <2>1. /\ UNCHANGED <<count, rotated, revoked, expired, lock>>
        /\ pc[q] = "user" /\ \A p \in Requests \ {q} : pc'[p] = pc[p]
        /\ pc'[q] \in {"rotate", "update"}
    BY <1>1, <1>7 DEF RefreshUser, WillRevoke, TypeOK
  <2>2. CASE pc'[q] = "rotate"
    BY <1>2, <2>1, <2>2, ExchangesKept
  <2>3. CASE pc'[q] = "update"
    BY <2>1, <2>3, EndsWithoutSuccessor
  <2> QED BY <2>1, <2>2, <2>3
<1>8. ASSUME NEW q \in Requests,
             \/ \E k \in Kinds, fs \in SUBSET Families : Authenticate(q, k, fs)
             \/ UpdateBegin(q)
      PROVE  UNCHANGED Chain!vars
  <2>1. /\ UNCHANGED <<count, rotated, revoked, expired, lock>>
        /\ {pc[q], pc'[q]} \subseteq {"idle", "update", "updating"}
        /\ \A p \in Requests \ {q} : pc'[p] = pc[p]
    BY <1>1, <1>8 DEF Authenticate, UpdateBegin, WillRevoke, TypeOK
  <2> QED BY <1>2, <2>1, ExchangesKept
<1>9. ASSUME NEW q \in Requests, NEW r \in Rows, UpdateLock(q, r)
      PROVE  UNCHANGED Chain!vars
  <2>1. /\ UNCHANGED <<count, rotated, revoked, expired, pc>> /\ pc[q] = "updating"
        /\ \A s \in Rows, p \in Requests \ {q} : lock'[s] = p <=> lock[s] = p
    BY <1>1, <1>9 DEF UpdateLock, TypeOK
  <2> QED BY <1>2, <2>1, ExchangesKept
<1>10. ASSUME NEW q \in Requests, NEW r \in Rows, RefreshCommit(q, r) PROVE Chain!Next
  BY <1>10, RefreshIsExchange, RowsAre DEF Chain!Next
<1>11. ASSUME NEW q \in Requests, UpdateCommit(q) PROVE Chain!Next
  BY <1>1, <1>11, UpdateIsRevoke DEF Chain!Next
<1>12. ASSUME NEW q \in Requests, DeadlockVictim(q) \/ Rollback(q)
       PROVE  [Chain!Next]_Chain!vars
  <2>1. Done(q) /\ UNCHANGED <<count, rotated, revoked, expired>>
    BY <1>12 DEF DeadlockVictim, Rollback
  <2>2. /\ pc'[q] = "idle" /\ \A p \in Requests \ {q} : pc'[p] = pc[p]
        /\ \A s \in Rows, p \in Requests \ {q} : lock'[s] = p <=> lock[s] = p
    BY <1>1, <2>1, DoneReleases
  <2>3. CASE pc[q] \in {"user", "rotate"}
    BY <2>1, <2>2, <2>3, EndsWithoutSuccessor
  <2>4. CASE pc[q] \notin {"user", "rotate"}
    BY <1>2, <2>1, <2>2, <2>4, ExchangesKept
  <2> QED BY <2>3, <2>4
<1> QED
  BY <1>3, <1>4, <1>5, <1>6, <1>7, <1>8, <1>9, <1>10, <1>11, <1>12 DEF Next, Proceed

\* What is true of every behaviour and lets its steps be steps of chains.
LEMMA ChainInvariant ==
    /\ Init => IInv /\ RevokedIsCut /\ Holding
    /\ IInv /\ RevokedIsCut /\ Holding /\ [Next]_vars =>
           IInv' /\ RevokedIsCut' /\ Holding' /\ [Chain!Next]_Chain!vars
<1>1. Init => IInv /\ RevokedIsCut /\ Holding
  BY InitEstablishes DEF Init, RevokedIsCut, Holding
<1>2. IInv /\ RevokedIsCut /\ Holding /\ [Next]_vars =>
          IInv' /\ RevokedIsCut' /\ Holding' /\ [Chain!Next]_Chain!vars
  BY StepPreserves, StepKeepsCut, StepKeepsHolding, ChainStep DEF IInv
<1> QED BY <1>1, <1>2

\* The sessions are chains of tokens.
THEOREM Implements == Spec => ChainSpec
<1>1. Init => Chain!Init
  BY ChainInit
<1> QED BY <1>1, ChainInvariant, PTL DEF Spec, ChainSpec, Chain!Spec

\* A refresh accepts only the newest token of a family, which has been neither
\* exchanged nor revoked, of a family that has not expired; and a successor is
\* issued only for a token accepted before, not exchanged or revoked since, and
\* uses it up.
RotationIsEarned ==
    [][\A f \in Families :
          /\ f \in InExchange' \ InExchange =>
                 /\ f \notin expired
                 /\ count[f] > 0 /\ <<f, count[f]>> \notin rotated \cup revoked
          /\ count[f] > 0 /\ count'[f] > count[f] =>
                 /\ f \in InExchange \ InExchange'
                 /\ <<f, count[f]>> \notin rotated \cup revoked
                 /\ <<f, count[f]>> \in rotated']_vars

\* The newest token of a family as SessionChain and as the rows have it.
LEMMA NewestToken ==
    ASSUME TypeOK, NEW f \in Families, count[f] > 0
    PROVE  /\ count[f] \in Spent[f] <=> <<f, count[f]>> \in rotated
           /\ count[f] \in Cut[f] <=> <<f, count[f]>> \in revoked
           /\ count[f] \in Spent'[f] <=> <<f, count[f]>> \in rotated'
           /\ count[f] \in Cut'[f] <=> <<f, count[f]>> \in revoked'
<1>1. count[f] \in 1 .. MaxRows
  BY DEF TypeOK
<1>2. /\ Spent[f] = Generations(f, rotated) /\ Cut[f] = Generations(f, revoked)
      /\ Spent'[f] = Generations(f, rotated') /\ Cut'[f] = Generations(f, revoked')
  BY DEF Spent, Cut
<1> QED BY <1>1, <1>2, GenerationsOf

\* A credential is issued only in exchange for one that was usable, and not
\* expired, when the refresh read it under its lock (refresh), and once.
THEOREM Earned == Spec => RotationIsEarned
<1>1. ASSUME IInv, RevokedIsCut, Holding, [Next]_vars, NEW f \in Families
      PROVE  /\ f \in InExchange' \ InExchange =>
                    /\ f \notin expired
                    /\ count[f] > 0 /\ <<f, count[f]>> \notin rotated \cup revoked
             /\ count[f] > 0 /\ count'[f] > count[f] =>
                    /\ f \in InExchange \ InExchange'
                    /\ <<f, count[f]>> \notin rotated \cup revoked
                    /\ <<f, count[f]>> \in rotated'
  <2>1. [Chain!Next]_Chain!vars
    BY <1>1, ChainStep
  <2>2. TypeOK /\ count \in [Families -> 0 .. MaxRows] /\ ~(count[f] > count[f])
    BY <1>1 DEF IInv, TypeOK
  <2>3. UNCHANGED Chain!vars \/ Chain!Revoke => UNCHANGED <<count, InExchange>>
    BY DEF Chain!vars, Chain!Revoke
  <2>4. ASSUME NEW g \in Families, Chain!Open(g)
        PROVE  UNCHANGED InExchange /\ (count[f] > 0 => count'[f] = count[f])
    BY <2>2, <2>4 DEF Chain!Open
  <2>5. ASSUME NEW g \in Families, Chain!GiveUp(g) \/ Chain!Expire(g)
        PROVE  InExchange' \subseteq InExchange /\ UNCHANGED count
    BY <2>5 DEF Chain!GiveUp, Chain!Expire
  <2>6. ASSUME NEW g \in Families, Chain!Accept(g)
        PROVE  /\ UNCHANGED count /\ InExchange' \subseteq InExchange \cup {g}
               /\ g \notin expired /\ count[g] > 0
               /\ <<g, count[g]>> \notin rotated \cup revoked
    BY <2>2, <2>6, NewestToken DEF Chain!Accept, Chain!Usable
  <2>7. ASSUME NEW g \in Families, Chain!Exchange(g)
        PROVE  /\ InExchange' \subseteq InExchange
               /\ f # g => count'[f] = count[f]
               /\ f = g => /\ f \in InExchange \ InExchange'
                           /\ <<f, count[f]>> \notin rotated \cup revoked
                           /\ <<f, count[f]>> \in rotated'
    <3>1. /\ count[g] > 0 /\ count[g] \notin Spent[g] \cup Cut[g]
          /\ g \in InExchange /\ InExchange' = InExchange \ {g}
          /\ count' = [count EXCEPT ![g] = @ + 1]
          /\ Spent' = [Spent EXCEPT ![g] = @ \cup {count[g]}]
      BY <2>7 DEF Chain!Exchange, Chain!Usable
    <3>2. count[g] \in Spent'[g]
      BY <3>1 DEF Spent
    <3> QED BY <2>2, <3>1, <3>2, NewestToken
  <2> QED BY <2>1, <2>2, <2>3, <2>4, <2>5, <2>6, <2>7 DEF Chain!Next
<1>2. IInv /\ RevokedIsCut /\ Holding /\ [Next]_vars =>
        [\A f \in Families :
          /\ f \in InExchange' \ InExchange =>
                 /\ f \notin expired
                 /\ count[f] > 0 /\ <<f, count[f]>> \notin rotated \cup revoked
          /\ count[f] > 0 /\ count'[f] > count[f] =>
                 /\ f \in InExchange \ InExchange'
                 /\ <<f, count[f]>> \notin rotated \cup revoked
                 /\ <<f, count[f]>> \in rotated']_vars
  BY <1>1
<1> QED BY <1>2, ChainInvariant, PTL DEF Spec, RotationIsEarned

\* Once the newest token of a family is revoked, the family is over.
RevokedTipIsFinal ==
    [][\A f \in Families : count[f] > 0 /\ <<f, count[f]>> \in revoked =>
          count'[f] = count[f] /\ <<f, count[f]>> \in revoked']_vars

\* A revocation that has reached the newest token of its family is final:
\* whatever requests are still in flight, none of them brings the family back.
\* (RevocationEndsSession is violated because a revocation may miss that one.)
THEOREM RevokedForGood == Spec => RevokedTipIsFinal
<1>1. ASSUME IInv, RevokedIsCut, Holding, [Next]_vars, NEW f \in Families,
             count[f] > 0, <<f, count[f]>> \in revoked
      PROVE  count'[f] = count[f] /\ <<f, count[f]>> \in revoked'
  <2>1. [Chain!Next]_Chain!vars
    BY <1>1, ChainStep
  <2>2. TypeOK /\ count \in [Families -> 0 .. MaxRows]
    BY <1>1 DEF IInv, TypeOK
  <2>3. count[f] \in Cut[f] /\ (count[f] \in Cut'[f] => <<f, count[f]>> \in revoked')
    BY <1>1, <2>2, NewestToken
  <2>4. UNCHANGED Chain!vars => UNCHANGED <<count, Cut>>
    BY DEF Chain!vars
  <2>5. ASSUME NEW g \in Families, Chain!Open(g)
        PROVE  UNCHANGED Cut /\ count'[f] = count[f]
    BY <1>1, <2>2, <2>5 DEF Chain!Open
  <2>6. ASSUME NEW g \in Families, Chain!Exchange(g)
        PROVE  UNCHANGED Cut /\ count'[f] = count[f]
    BY <2>2, <2>3, <2>6 DEF Chain!Exchange, Chain!Usable
  <2>7. ASSUME NEW g \in Families, Chain!Accept(g) \/ Chain!GiveUp(g) \/ Chain!Expire(g)
        PROVE  UNCHANGED <<count, Cut>>
    BY <2>7 DEF Chain!Accept, Chain!GiveUp, Chain!Expire
  <2>8. Chain!Revoke => Cut[f] \subseteq Cut'[f] /\ UNCHANGED count
    BY DEF Chain!Revoke
  <2> QED BY <2>1, <2>3, <2>4, <2>5, <2>6, <2>7, <2>8 DEF Chain!Next
<1>2. IInv /\ RevokedIsCut /\ Holding /\ [Next]_vars =>
        [\A f \in Families : count[f] > 0 /\ <<f, count[f]>> \in revoked =>
          count'[f] = count[f] /\ <<f, count[f]>> \in revoked']_vars
  BY <1>1
<1> QED BY <1>2, ChainInvariant, PTL DEF Spec, RevokedTipIsFinal

-----------------------------------------------------------------------------
\* What each request under way needs for its next step: nothing, unless its
\* UPDATE has rows to lock and other requests have locked all of them.
CanGoOn(q) ==
    \/ pc[q] \in {"user", "update"}
    \/ pc[q] = "rotate" /\ Mine(q) # {}
    \/ pc[q] = "updating" /\ (todo[q] = {} \/ \E r \in todo[q] : lock[r] \in {NoRequest, q})

\* What the deadlock detector looks for (DeadlockVictim): requests that each wait
\* for one of them, and are each waited for by one of them.
Circle(S) ==
    /\ S # {}
    /\ \A u \in S : (\E v \in S : WaitsFor(u, v)) /\ (\E v \in S : WaitsFor(v, u))

UnderWay == {q \in Requests : pc[q] # "idle"}

\* While finitely many requests are under way, one of them can go on or some
\* of them wait in a circle.
StuckOnlyInCircles ==
    UnderWay # {} /\ IsFiniteSet(UnderWay) =>
        \/ \E q \in UnderWay : CanGoOn(q)
        \/ \E S \in SUBSET UnderWay : Circle(S)

\* Requests that all wait for one another, if there are finitely many, have
\* among them a circle: a smallest set of such requests, for nobody can be
\* left out of it.
LEMMA WaitersHaveCircle ==
    ASSUME NEW S, IsFiniteSet(S), S # {}, \A u \in S : \E v \in S : WaitsFor(u, v)
    PROVE  \E D \in SUBSET S : Circle(D)
<1> DEFINE Waiting(T) == T # {} /\ \A u \in T : \E v \in T : WaitsFor(u, v)
           Closed == {T \in SUBSET S : Waiting(T)}
<1>1. IsWellFoundedOn(StrictSubsetOrdering(S), SUBSET S)
  BY FS_StrictSubsetOrderingWellFounded, FS_FiniteSubsetsOfFinite
<1>2. Closed \subseteq SUBSET S /\ S \in Closed
  OBVIOUS
<1>3. PICK D \in Closed : \A T \in Closed : <<T, D>> \notin StrictSubsetOrdering(S)
  <2> HIDE DEF Closed
  <2> QED BY <1>1, <1>2, WFMin
<1>4. ASSUME NEW u \in D, ~ \E v \in D : WaitsFor(v, u) PROVE FALSE
  <2> DEFINE T == D \ {u}
  <2>1. PICK v \in D : WaitsFor(u, v)
    BY <1>3
  <2>2. v # u
    BY <2>1, <1>4
  <2>3. \A w \in T : \E x \in T : WaitsFor(w, x)
    BY <1>3, <1>4
  <2>4. T \in Closed
    BY <1>3, <2>1, <2>2, <2>3
  <2>5. <<T, D>> \in StrictSubsetOrdering(S)
    BY <1>3, <2>4 DEF StrictSubsetOrdering
  <2> QED BY <1>3, <2>4, <2>5
<1> QED BY <1>3, <1>4 DEF Circle

\* Sessions' requests never all come to a standstill, however many there are:
\* two reuse detections may each have a row the other wants (refresh locks the
\* row it was given before its UPDATE locks the family's), and then PostgreSQL
\* finds the circle.
THEOREM CirclesAreFound == Spec => []StuckOnlyInCircles
<1>1. ASSUME TypeOK, Holding, UnderWay # {}, IsFiniteSet(UnderWay),
             \A q \in UnderWay : ~CanGoOn(q)
      PROVE  \E S \in SUBSET UnderWay : Circle(S)
  <2>1. ASSUME NEW q \in UnderWay PROVE \E u \in UnderWay : WaitsFor(q, u)
    <3>1. Mine(q) # {} \/ pc[q] # "rotate"
      BY <1>1 DEF Holding, Mine, UnderWay
    <3>2. pc[q] = "updating" /\ todo[q] # {} /\ \A r \in todo[q] : lock[r] \notin {NoRequest, q}
      BY <1>1, <3>1 DEF CanGoOn, UnderWay, TypeOK
    <3>3. PICK r \in todo[q] : lock[r] \notin {NoRequest, q}
      BY <3>2
    <3>4. q \in Requests /\ r \in Rows
      BY <1>1 DEF UnderWay, TypeOK
    <3>5. lock[r] \in UnderWay
      BY <1>1, <3>3, <3>4 DEF UnderWay, TypeOK
    <3> QED BY <3>2, <3>3, <3>5 DEF WaitsFor
  <2> QED BY <1>1, <2>1, WaitersHaveCircle
<1>2. IInv /\ Holding => StuckOnlyInCircles
  BY <1>1 DEF IInv, StuckOnlyInCircles
<1>3. Init => IInv /\ Holding
  BY InitEstablishes DEF Init, Holding
<1>4. IInv /\ Holding /\ [Next]_vars => IInv' /\ Holding'
  BY StepPreserves, StepKeepsHolding DEF IInv
<1> QED BY <1>2, <1>3, <1>4, PTL DEF Spec
=============================================================================
