--------------------------- MODULE ProjectsProofs ---------------------------
(***************************************************************************)
(* Issue numbers are unique and dense, and a project is archived as the    *)
(* audit log says, for any number of requests.                             *)
(*                                                                         *)
(* The inductive invariant adds three facts to the properties: a number in *)
(* flight is the counter itself (its request has the row locked), the      *)
(* numbers still to be taken fit under the bound MaxIssues, and a          *)
(* set_archived that has not been overtaken still knows whether there is   *)
(* something to write.                                                     *)
(*                                                                         *)
(* An archived project can be overrun only by the creations that are in    *)
(* flight when it is archived (BoundedOverrun).                            *)
(***************************************************************************)
EXTENDS Projects, FiniteSetTheorems, TLAPS

USE ProjectsAssumption

InFlight == \A q \in Requests : req[q].pc = "insert" => req[q].number = counter

RoomLeft == counter + Cardinality(Creating) <= MaxIssues + 1

AsLoaded ==
    \A q \in Requests :
        req[q].pc = "archive" /\ ~req[q].overtaken => req[q].write = (archived # req[q].to)

NumbersInv == TypeOK /\ NumbersAreDense /\ InFlight /\ RoomLeft

IInv == NumbersInv /\ ArchivedAsAudited /\ AsLoaded

\* Only finitely many requests create at once.
LEMMA CreatingFinite ==
    /\ IsFiniteSet(Creating)
    /\ Cardinality(Creating) \in Nat
BY FS_Subset, FS_CardinalityType DEF Creating

\* A request that creates is counted.
LEMMA CreatingCounted ==
    ASSUME NEW q \in Creating PROVE Cardinality(Creating) >= 1
<1>1. Cardinality(Creating) # 0
  BY CreatingFinite, FS_EmptySet
<1> QED BY <1>1, CreatingFinite

\* The set of creations after a step of q that sets its pc to label.
LEMMA CreatingAfter ==
    ASSUME NEW q \in Requests, NEW r,
           req \in [Requests -> Requested],
           req' = [req EXCEPT ![q] = r]
    PROVE  Creating' = IF r.pc \in {"allocate", "insert"}
                       THEN Creating \cup {q} ELSE Creating \ {q}
BY DEF Creating

\* The numbers are right in an initial state.
LEMMA InitNumbers == ASSUME Init PROVE NumbersInv
<1>1. TypeOK /\ NumbersAreDense /\ InFlight
  <2>1. \A q \in Requests : req[q] = Idle
    BY DEF Init
  <2>2. req \in [Requests -> Requested]
    BY DEF Init, Requested
  <2>3. counter = 1 /\ counter \in 1 .. MaxIssues + 1
    BY DEF Init
  <2>4. TypeOK
    BY <2>1, <2>2, <2>3 DEF Init, TypeOK, Idle
  <2>5. numbers = 1 .. counter - 1
    BY <2>3 DEF Init
  <2> QED BY <2>1, <2>4, <2>5 DEF NumbersAreDense, InFlight, Idle
<1>2. Creating = {}
  BY DEF Init, Creating, Idle
<1>3. Cardinality(Creating) = 0
  BY <1>2, FS_EmptySet
<1>4. RoomLeft
  BY <1>3 DEF Init, RoomLeft
<1> QED BY <1>1, <1>4 DEF NumbersInv

\* Steps that neither create nor write the counter.
LEMMA OtherStep ==
    ASSUME NumbersInv, NEW q \in Requests,
           req' \in [Requests -> Requested],
           req'[q].pc \in {"idle", "archive", "update"},
           \A p \in Requests \ {q} :
               /\ req'[p].pc = req[p].pc
               /\ req[p].pc = "insert" => req'[p] = req[p],
           rowLock' = IF rowLock = q THEN NoRequest ELSE rowLock,
           archived' \in BOOLEAN, name' \in Names \cup {NoName},
           audited' \in BOOLEAN, crossed' \in BOOLEAN,
           UNCHANGED <<counter, numbers>>
    PROVE  NumbersInv'
<1>1. req' \in [Requests -> Requested] /\ req \in [Requests -> Requested]
  BY DEF NumbersInv, TypeOK
<1>2. rowLock' \in Requests \cup {NoRequest}
  BY DEF NumbersInv, TypeOK
<1>3. \A p \in Requests : rowLock' = p <=> req'[p].pc \in {"insert", "project"}
  BY DEF NumbersInv, TypeOK
<1>4. TypeOK'
  BY <1>1, <1>2, <1>3 DEF NumbersInv, TypeOK
<1>5. InFlight'
  BY <1>1 DEF NumbersInv, InFlight
<1>6. NumbersAreDense'
  BY DEF NumbersInv, NumbersAreDense
<1>7. Creating' = Creating \ {q}
  BY <1>1 DEF Creating
<1>8. Cardinality(Creating') <= Cardinality(Creating)
  BY <1>7, CreatingFinite, FS_Subset
<1>9. Cardinality(Creating') \in Nat
  BY <1>7, CreatingFinite, FS_Subset, FS_CardinalityType
<1>10. RoomLeft'
  BY <1>8, <1>9, CreatingFinite DEF NumbersInv, TypeOK, RoomLeft
<1> QED BY <1>4, <1>5, <1>6, <1>10 DEF NumbersInv

\* A project that is being inserted locks its row and nothing else.
LEMMA ProjectInsertStep ==
    ASSUME NumbersInv, NEW q \in Requests, NEW to \in Names, ProjectInsert(q, to)
    PROVE  NumbersInv'
<1> USE DEF ProjectInsert, row, audit
<1>1. req' \in [Requests -> Requested] /\ req \in [Requests -> Requested]
  BY DEF NumbersInv, TypeOK, Requested
<1>2. TypeOK'
  BY <1>1 DEF NumbersInv, TypeOK
<1>3. InFlight' /\ NumbersAreDense'
  BY <1>1 DEF NumbersInv, InFlight, NumbersAreDense
<1>4. Creating' = Creating
  BY <1>1 DEF Creating
<1>5. RoomLeft'
  BY <1>4 DEF NumbersInv, RoomLeft
<1> QED BY <1>2, <1>3, <1>5 DEF NumbersInv

\* A creation that has only looked at the project holds no number.
LEMMA CreateReadStep ==
    ASSUME NumbersInv, NEW q \in Requests, CreateRead(q) PROVE NumbersInv'
<1> USE DEF CreateRead, row, audit
<1>1. Cardinality(Creating) \in Nat /\ IsFiniteSet(Creating)
  BY CreatingFinite
<1>2. counter \in Nat /\ counter <= MaxIssues
  BY <1>1 DEF NumbersInv, TypeOK
<1>3. [pc |-> "allocate"] \in Requested
  BY <1>2 DEF Requested, NumbersInv, TypeOK
<1>4. req' \in [Requests -> Requested] /\ req \in [Requests -> Requested]
  BY <1>3 DEF NumbersInv, TypeOK
<1>5. TypeOK'
  BY <1>4 DEF NumbersInv, TypeOK
<1>6. InFlight' /\ NumbersAreDense'
  BY <1>4 DEF NumbersInv, InFlight, NumbersAreDense
<1>7. Creating' = Creating \cup {q}
  BY <1>4 DEF Creating
<1>8. q \notin Creating
  BY DEF Creating
<1>9. Cardinality(Creating') = Cardinality(Creating) + 1
  BY <1>1, <1>7, <1>8, FS_AddElement
<1>10. RoomLeft'
  BY <1>1, <1>2, <1>9 DEF RoomLeft
<1> QED BY <1>5, <1>6, <1>10 DEF NumbersInv

\* The number that is handed out is the counter's, and the row is locked from
\* then on.
LEMMA CreateAllocateStep ==
    ASSUME NumbersInv, NEW q \in Requests, CreateAllocate(q) PROVE NumbersInv'
<1> USE DEF CreateAllocate, row, audit
<1>1. q \in Creating /\ Cardinality(Creating) \in Nat /\ IsFiniteSet(Creating)
  BY CreatingFinite DEF Creating
<1>2. Cardinality(Creating) >= 1
  BY <1>1, CreatingCounted
<1>3. counter \in Numbers
  BY <1>1, <1>2 DEF NumbersInv, TypeOK, RoomLeft, Numbers
<1>4. req' \in [Requests -> Requested] /\ req \in [Requests -> Requested]
  BY <1>3 DEF NumbersInv, TypeOK, Requested
<1>5. TypeOK'
  BY <1>4 DEF NumbersInv, TypeOK
<1>6. InFlight' /\ NumbersAreDense'
  BY <1>4 DEF NumbersInv, InFlight, NumbersAreDense
<1>7. Creating' = Creating
  BY <1>4 DEF Creating
<1>8. RoomLeft'
  BY <1>7 DEF NumbersInv, RoomLeft
<1> QED BY <1>5, <1>6, <1>8 DEF NumbersInv

\* The number committed is the next one.
LEMMA CreateCommitStep ==
    ASSUME NumbersInv, NEW q \in Requests, CreateCommit(q) PROVE NumbersInv'
<1> USE DEF CreateCommit, Done, audit
<1>1. q \in Creating /\ Cardinality(Creating) \in Nat /\ IsFiniteSet(Creating)
  BY CreatingFinite DEF Creating
<1>2. req[q].number = counter /\ counter \in Nat /\ rowLock = q
  BY DEF NumbersInv, InFlight, TypeOK
<1>3. req[q].number \notin numbers
  BY <1>2 DEF NumbersInv, NumbersAreDense
<1>4. numbers' = numbers \cup {counter} /\ counter' = counter + 1
  BY <1>2, <1>3
<1>5. req' \in [Requests -> Requested] /\ req \in [Requests -> Requested]
  BY DEF NumbersInv, TypeOK, Requested, Idle
<1>6. Creating' = Creating \ {q}
  BY <1>5, CreatingAfter DEF Idle
<1>7. Cardinality(Creating') = Cardinality(Creating) - 1
  BY <1>1, <1>6, FS_RemoveElement
<1>8. RoomLeft'
  BY <1>1, <1>2, <1>4, <1>7 DEF NumbersInv, RoomLeft
<1>9. Cardinality(Creating) >= 1
  BY <1>1, CreatingCounted
<1>10. counter \in Numbers
  BY <1>1, <1>2, <1>9 DEF NumbersInv, TypeOK, RoomLeft, Numbers
<1>11. counter' \in 1 .. MaxIssues + 1 /\ numbers' \in SUBSET Numbers
  BY <1>4, <1>10 DEF NumbersInv, TypeOK, Numbers
<1>12. TypeOK'
  BY <1>2, <1>5, <1>11 DEF NumbersInv, TypeOK, Idle
<1>13. NumbersAreDense'
  BY <1>2, <1>4 DEF NumbersInv, NumbersAreDense, TypeOK
<1>14. InFlight'
  BY <1>2, <1>12 DEF NumbersInv, TypeOK, InFlight
<1> QED BY <1>8, <1>12, <1>13, <1>14 DEF NumbersInv

\* Steps that only change what q does.
LEMMA SimpleStep ==
    ASSUME NumbersInv, NEW q \in Requests, NEW r \in Requested,
           r.pc \in {"idle", "archive", "update"},
           req' = [req EXCEPT ![q] = r],
           rowLock' = IF rowLock = q THEN NoRequest ELSE rowLock,
           name' \in Names \cup {NoName},
           UNCHANGED <<counter, archived, numbers, audit>>
    PROVE  NumbersInv'
<1>1. /\ req' \in [Requests -> Requested]
      /\ req'[q].pc \in {"idle", "archive", "update"}
      /\ \A p \in Requests \ {q} : req'[p] = req[p]
  BY DEF NumbersInv, TypeOK
<1>2. archived' \in BOOLEAN /\ audited' \in BOOLEAN /\ crossed' \in BOOLEAN
  BY DEF NumbersInv, TypeOK, audit
<1> QED BY <1>1, <1>2, OtherStep

\* set_archived commits, and overtakes the others if it changes the column.
LEMMA ArchiveCommitStep ==
    ASSUME NumbersInv, NEW q \in Requests, ArchiveCommit(q)
    PROVE  NumbersInv'
<1>1. req \in [Requests -> Requested] /\ req[q].pc = "archive" /\ rowLock # q
  BY DEF ArchiveCommit, NumbersInv, TypeOK
<1>2. req[q].to \in BOOLEAN /\ req[q].overtaken \in BOOLEAN
  BY <1>1 DEF Requested, Idle
<1>3. ASSUME NEW p \in Requests
      PROVE  /\ req'[p] \in Requested
             /\ p = q => req'[p].pc = "idle"
             /\ p # q => req'[p].pc = req[p].pc
             /\ p # q /\ req[p].pc = "insert" => req'[p] = req[p]
  <2>0. req'[p] = IF p = q THEN Idle
                  ELSE IF req[p].pc = "archive" /\ archived' # archived
                       THEN [req[p] EXCEPT !.overtaken = TRUE]
                       ELSE req[p]
    BY DEF ArchiveCommit, Overtake
  <2>1. CASE p = q
    BY <2>0, <2>1 DEF Idle, Requested
  <2>2. CASE p # q /\ req[p].pc = "archive"
    <3>1. req[p] \in [pc : {"archive"}, to : BOOLEAN, write : BOOLEAN, overtaken : BOOLEAN]
      BY <1>1, <2>2 DEF Requested, Idle
    <3> QED BY <2>0, <2>2, <3>1 DEF Requested
  <2>3. CASE p # q /\ req[p].pc # "archive"
    BY <1>1, <2>0, <2>3
  <2> QED BY <2>1, <2>2, <2>3
<1>4. req' \in [Requests -> Requested]
  BY <1>3 DEF ArchiveCommit, Overtake
<1>5. archived' \in BOOLEAN /\ audited' \in BOOLEAN /\ crossed' \in BOOLEAN
  BY <1>1, <1>2 DEF ArchiveCommit, Crosses, Requested, Idle, NumbersInv, TypeOK
<1> QED BY <1>1, <1>3, <1>4, <1>5, OtherStep DEF ArchiveCommit, NumbersInv, TypeOK

\* Every step, and every stutter, keeps the numbers right.
LEMMA StepNumbers == ASSUME NumbersInv, [Next]_vars PROVE NumbersInv'
<1>1. CASE UNCHANGED vars
  BY <1>1 DEF vars, row, audit, NumbersInv, TypeOK, NumbersAreDense, InFlight, RoomLeft,
              Creating
<1>2. ASSUME NEW q \in Requests, CreateRead(q) PROVE NumbersInv'
  BY <1>2, CreateReadStep
<1>3. ASSUME NEW q \in Requests, CreateAllocate(q) PROVE NumbersInv'
  BY <1>3, CreateAllocateStep
<1>4. ASSUME NEW q \in Requests, CreateCommit(q) PROVE NumbersInv'
  BY <1>4, CreateCommitStep
<1>5. ASSUME NEW q \in Requests, NEW to \in BOOLEAN, ArchiveRead(q, to) PROVE NumbersInv'
  <2>1. [pc |-> "archive", to |-> to, write |-> archived # to, overtaken |-> FALSE]
            \in Requested
    BY DEF Requested
  <2>2. rowLock # q
    BY <1>5 DEF ArchiveRead, NumbersInv, TypeOK
  <2> QED BY <1>5, <2>1, <2>2, SimpleStep DEF ArchiveRead, row, NumbersInv, TypeOK
<1>6. ASSUME NEW q \in Requests, NEW to \in Names, UpdateRead(q, to) PROVE NumbersInv'
  <2>1. [pc |-> "update", to |-> to, loaded |-> counter] \in Requested
    BY DEF Requested, NumbersInv, TypeOK
  <2>2. rowLock # q
    BY <1>6 DEF UpdateRead, NumbersInv, TypeOK
  <2> QED BY <1>6, <2>1, <2>2, SimpleStep DEF UpdateRead, row, NumbersInv, TypeOK
<1>7. ASSUME NEW q \in Requests, UpdateCommit(q) \/ ProjectCommit(q) \/ Rollback(q)
      PROVE  NumbersInv'
  <2>1. Idle \in Requested /\ Idle.pc = "idle"
    BY DEF Requested, Idle
  <2>2. req[q] \in Requested
    BY DEF NumbersInv, TypeOK
  <2>3. name' \in Names \cup {NoName}
    BY <1>7, <2>2
    DEF UpdateCommit, ProjectCommit, Rollback, row, NumbersInv, TypeOK, Requested, Idle
  <2> QED
    BY <1>7, <2>1, <2>3, SimpleStep
    DEF UpdateCommit, ProjectCommit, Rollback, Done, row, audit
<1>8. ASSUME NEW q \in Requests, NEW to \in Names, ProjectInsert(q, to) PROVE NumbersInv'
  BY <1>8, ProjectInsertStep
<1>9. ASSUME NEW q \in Requests, ArchiveCommit(q) PROVE NumbersInv'
  BY <1>9, ArchiveCommitStep
<1> QED
  BY <1>1, <1>2, <1>3, <1>4, <1>5, <1>6, <1>7, <1>8, <1>9 DEF Next, Proceed

\* Steps that leave archived and its audit event alone, and begin no
\* set_archived.
LEMMA ArchiveKept ==
    ASSUME IInv, UNCHANGED <<archived, audit>>,
           \A p \in Requests : req'[p].pc = "archive" => req'[p] = req[p]
    PROVE  ArchivedAsAudited' /\ AsLoaded'
BY DEF IInv, ArchivedAsAudited, AsLoaded, audit

\* Every step keeps the row in agreement with its audit event.
LEMMA StepArchive ==
    ASSUME IInv, [Next]_vars PROVE ArchivedAsAudited' /\ AsLoaded'
<1>0. req \in [Requests -> Requested]
  BY DEF IInv, NumbersInv, TypeOK
<1>1. CASE UNCHANGED vars
  BY <1>1, ArchiveKept DEF vars, row
<1>2. ASSUME NEW q \in Requests, CreateRead(q) \/ CreateAllocate(q)
      PROVE  ArchivedAsAudited' /\ AsLoaded'
  BY <1>0, <1>2, ArchiveKept DEF CreateRead, CreateAllocate, row
<1>3. ASSUME NEW q \in Requests,
             CreateCommit(q) \/ UpdateCommit(q) \/ ProjectCommit(q) \/ Rollback(q)
      PROVE  ArchivedAsAudited' /\ AsLoaded'
  BY <1>0, <1>3, ArchiveKept
  DEF CreateCommit, UpdateCommit, ProjectCommit, Rollback, Done, Idle, row
<1>4. ASSUME NEW q \in Requests, NEW to \in Names, UpdateRead(q, to) \/ ProjectInsert(q, to)
      PROVE  ArchivedAsAudited' /\ AsLoaded'
  BY <1>0, <1>4, ArchiveKept DEF UpdateRead, ProjectInsert, row
<1>5. ASSUME NEW q \in Requests, NEW to \in BOOLEAN, ArchiveRead(q, to)
      PROVE  ArchivedAsAudited' /\ AsLoaded'
  BY <1>0, <1>5 DEF ArchiveRead, row, audit, IInv, ArchivedAsAudited, AsLoaded
<1>6. ASSUME NEW q \in Requests, ArchiveCommit(q)
      PROVE  ArchivedAsAudited' /\ AsLoaded'
  <2>1. req[q].to \in BOOLEAN /\ req[q].overtaken \in BOOLEAN /\ req[q].write \in BOOLEAN
    BY <1>0, <1>6 DEF ArchiveCommit, Requested, Idle
  <2>2. ArchivedAsAudited'
    BY <1>6, <2>1 DEF ArchiveCommit, Crosses, IInv, NumbersInv, TypeOK, AsLoaded,
                      ArchivedAsAudited
  <2>3. ASSUME NEW p \in Requests, req'[p].pc = "archive"
        PROVE  \/ req'[p].overtaken
               \/ archived' = archived /\ req'[p] = req[p]
    <3>1. p # q /\ req'[p] = IF req[p].pc = "archive" /\ archived' # archived
                             THEN [req[p] EXCEPT !.overtaken = TRUE]
                             ELSE req[p]
      BY <1>6, <2>3 DEF ArchiveCommit, Overtake, Idle
    <3>2. req[p].pc = "archive" =>
              req[p] \in [pc : {"archive"}, to : BOOLEAN, write : BOOLEAN, overtaken : BOOLEAN]
      BY <1>0 DEF Requested, Idle
    <3> QED BY <2>3, <3>1, <3>2
  <2>4. AsLoaded'
    BY <2>3 DEF IInv, AsLoaded
  <2> QED BY <2>2, <2>4
<1> QED
  BY <1>1, <1>2, <1>3, <1>4, <1>5, <1>6 DEF Next, Proceed

\* The inductive invariant holds in every reachable state.
THEOREM Inductive == Spec => []IInv
<1>1. ASSUME Init PROVE IInv
  <2>1. \A q \in Requests : req[q].pc = "idle"
    BY <1>1 DEF Init, Idle
  <2>2. archived = audited
    BY <1>1 DEF Init
  <2>3. NumbersInv
    BY <1>1, InitNumbers
  <2> QED BY <2>1, <2>2, <2>3 DEF IInv, ArchivedAsAudited, AsLoaded
<1>2. IInv /\ [Next]_vars => IInv'
  BY StepNumbers, StepArchive DEF IInv
<1> QED BY <1>1, <1>2, PTL DEF Spec

\* The variables of Projects keep their types, and the row is locked exactly
\* by the request that has created it, or counted in it, and not committed.
THEOREM TypeCorrect == Spec => []TypeOK
<1>1. IInv => TypeOK
  BY DEF IInv, NumbersInv
<1> QED BY <1>1, Inductive, PTL

\* Issues are numbered without a gap (create_issue).
THEOREM Dense == Spec => []NumbersAreDense
<1>1. IInv => NumbersAreDense
  BY DEF IInv, NumbersInv
<1> QED BY <1>1, Inductive, PTL

\* Nobody else has, or is about to commit, a number that has been given out.
NumberIsFree ==
    \A q \in Requests : req[q].pc = "insert" =>
        /\ req[q].number \notin numbers
        /\ \A p \in Requests \ {q} :
               req[p].pc = "insert" => req[p].number # req[q].number

\* A number in flight belongs to one request and to no issue, so that the
\* unique constraint on (project_id, number) refuses none (create_issue).
THEOREM Unique == Spec => []NumberIsFree
<1>1. IInv => NumberIsFree
  BY DEF IInv, NumbersInv, TypeOK, NumbersAreDense, InFlight, NumberIsFree
<1> QED BY <1>1, Inductive, PTL

\* Row and audit event agree unless set_archived requests crossed.
THEOREM ArchivedAsAuditedHolds == Spec => []ArchivedAsAudited
<1>1. IInv => ArchivedAsAudited
  BY DEF IInv
<1> QED BY <1>1, Inductive, PTL

-----------------------------------------------------------------------------
\* While the project is archived, the issues and the creations that had looked
\* at it before do not become more: each of these adds one issue at most, and
\* none begins.
OverrunIsBounded ==
    [][archived =>
          counter' + Cardinality(Creating') <= counter + Cardinality(Creating)]_vars

\* A step of one request that does not begin a creation begins none.
LEMMA NoneBegins ==
    ASSUME NumbersInv, [Next]_vars, archived
    PROVE  Creating' \subseteq Creating
<1> USE DEF Creating
<1>1. req \in [Requests -> Requested]
  BY DEF NumbersInv, TypeOK
<1>2. ASSUME NEW q \in Requests, ArchiveCommit(q) PROVE Creating' \subseteq Creating
  <2>1. ASSUME NEW p \in Requests, p \in Creating' PROVE p \in Creating
    <3>1. p # q /\ req'[p] = IF req[p].pc = "archive" /\ archived' # archived
                             THEN [req[p] EXCEPT !.overtaken = TRUE]
                             ELSE req[p]
      BY <1>2, <2>1 DEF ArchiveCommit, Overtake, Idle
    <3>2. req[p].pc = "archive" =>
              req[p] \in [pc : {"archive"}, to : BOOLEAN, write : BOOLEAN, overtaken : BOOLEAN]
      BY <1>1 DEF Requested, Idle
    <3> QED BY <2>1, <3>1, <3>2
  <2> QED BY <2>1
<1>3. ASSUME NEW q \in Requests, CreateRead(q) \/ CreateAllocate(q)
      PROVE  Creating' \subseteq Creating
  BY <1>1, <1>3 DEF CreateRead, CreateAllocate
<1>4. ASSUME NEW q \in Requests,
             CreateCommit(q) \/ UpdateCommit(q) \/ ProjectCommit(q) \/ Rollback(q)
      PROVE  Creating' \subseteq Creating
  <2>1. req' = [req EXCEPT ![q] = Idle]
    BY <1>4 DEF CreateCommit, UpdateCommit, ProjectCommit, Rollback, Done
  <2> QED BY <1>1, <2>1 DEF Idle
<1>5. ASSUME NEW q \in Requests, NEW to \in BOOLEAN, ArchiveRead(q, to)
      PROVE  Creating' \subseteq Creating
  BY <1>1, <1>5 DEF ArchiveRead
<1>6. ASSUME NEW q \in Requests, NEW to \in Names, UpdateRead(q, to) \/ ProjectInsert(q, to)
      PROVE  Creating' \subseteq Creating
  BY <1>1, <1>6 DEF UpdateRead, ProjectInsert
<1>7. CASE UNCHANGED vars
  BY <1>7 DEF vars
<1> QED
  BY <1>2, <1>3, <1>4, <1>5, <1>6, <1>7 DEF Next, Proceed

\* How far create_issue can overrun an archived project, which it looks at
\* only before it locks the row: by the creations in flight, and no more.
THEOREM BoundedOverrun == Spec => OverrunIsBounded
<1>1. ASSUME NumbersInv, [Next]_vars, archived
      PROVE  counter' + Cardinality(Creating') <= counter + Cardinality(Creating)
  <2>1. Creating' \subseteq Creating
    BY <1>1, NoneBegins
  <2>2. /\ Cardinality(Creating) \in Nat /\ Cardinality(Creating') \in Nat
        /\ Cardinality(Creating') <= Cardinality(Creating)
    BY <2>1, CreatingFinite, FS_Subset, FS_CardinalityType
  <2>3. counter \in Nat /\ req \in [Requests -> Requested]
    BY <1>1 DEF NumbersInv, TypeOK
  <2>4. ASSUME NEW q \in Requests, CreateCommit(q)
        PROVE  counter' + Cardinality(Creating') <= counter + Cardinality(Creating)
    <3>1. req[q].number = counter /\ q \in Creating
      BY <1>1, <2>4 DEF CreateCommit, NumbersInv, InFlight, Creating
    <3>2. Creating' = Creating \ {q}
      BY <2>3, <2>4, CreatingAfter DEF CreateCommit, Done, Idle
    <3>3. Cardinality(Creating') = Cardinality(Creating) - 1
      BY <3>1, <3>2, CreatingFinite, FS_RemoveElement
    <3>4. counter' \in {counter, counter + 1}
      BY <2>4, <3>1 DEF CreateCommit
    <3> QED BY <2>2, <2>3, <3>3, <3>4
  <2>5. counter' = counter \/ \E q \in Requests : CreateCommit(q)
    BY <1>1 DEF Next, Proceed, vars, row, CreateRead, CreateAllocate, ArchiveRead,
                ArchiveCommit, UpdateRead, UpdateCommit, ProjectInsert, ProjectCommit, Rollback
  <2> QED BY <2>2, <2>3, <2>4, <2>5
<1>2. IInv /\ [Next]_vars =>
        [archived =>
          counter' + Cardinality(Creating') <= counter + Cardinality(Creating)]_vars
  BY <1>1 DEF IInv
<1> QED BY <1>2, Inductive, PTL DEF Spec, OverrunIsBounded
=============================================================================
