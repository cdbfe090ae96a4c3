---------------------------- MODULE IssuesProofs ----------------------------
(***************************************************************************)
(* Optimistic concurrency on an issue, for any number of requests.         *)
(*                                                                         *)
(* The version moves only under the row lock, so whoever has passed the    *)
(* UPDATE's predicate still has the newest version (Current).  A version   *)
(* is bound to one status: a request that read the version it is about to  *)
(* replace read the status it is about to replace (Snapshot).  A client    *)
(* that sends versions it was shown cannot be ahead of what its request    *)
(* read (Shown); without that the last step of the argument fails.         *)
(*                                                                         *)
(* With that the requests implement IssueLifecycle (Implements), whether   *)
(* clients guess or not.                                                   *)
(***************************************************************************)
EXTENDS Issues, TLAPS

USE IssuesAssumption

Writing(q) == req[q].pc \in {"update", "commit"}

Current ==
    \A q \in Requests : req[q].pc = "commit" => req[q].expected = version

Snapshot ==
    \A q \in Requests : Writing(q) =>
        /\ req[q].expected < MaxVersion
        /\ req[q].loaded <= version
        /\ req[q].op = "status" =>
               /\ req[q].to \in TRANSITIONS[req[q].from]
               /\ req[q].loaded = version => req[q].from = status

Shown ==
    \A q \in Requests : Writing(q) => ClientsGuess \/ req[q].expected <= req[q].loaded

\* The client of an assignment has sent its version before the issue is read.
Asked ==
    \A q \in Requests : req[q].pc = "validated" =>
        /\ req[q].expected < MaxVersion
        /\ ClientsGuess \/ req[q].expected <= version

IInv == TypeOK /\ OneWinnerPerVersion /\ Current /\ Snapshot /\ Shown /\ Asked

\* What a request that writes has in its record.
LEMMA WritingFields ==
    ASSUME TypeOK, NEW q \in Requests, Writing(q)
    PROVE  /\ req[q] \in Writes
           /\ req[q].expected \in Versions /\ req[q].loaded \in Versions
           /\ req[q].op = "status" => req[q].to \in Statuses /\ req[q].from \in Statuses
           /\ req[q].op = "assign" => req[q].to \in People \cup {Nobody}
<1>1. req[q] \in Writes
  BY DEF TypeOK, Requested, Writing, Idle
<1> QED BY <1>1 DEF Writes

\* And one that has validated an assignee.
LEMMA ValidatedFields ==
    ASSUME TypeOK, NEW q \in Requests, req[q].pc = "validated"
    PROVE  req[q].expected \in Versions /\ req[q].to \in People \cup {Nobody}
BY DEF TypeOK, Requested, Writes, Idle

\* A transition leads to a status.
LEMMA TransitionsType ==
    \A s \in Statuses : TRANSITIONS[s] \in SUBSET Statuses
BY DEF Statuses, TRANSITIONS

\* An initial state satisfies the inductive invariant.
THEOREM InitEstablishes == ASSUME Init PROVE IInv
<1>1. \A q \in Requests : req[q] = Idle
  BY DEF Init
<1>2. req \in [Requests -> Requested]
  BY DEF Init, Requested
<1>3. version = 1 /\ version \in Versions
  BY DEF Init, Versions
<1>4. TypeOK
  BY <1>1, <1>2, <1>3 DEF Init, TypeOK, Statuses, Idle
<1>5. OneWinnerPerVersion
  BY <1>3 DEF Init, OneWinnerPerVersion, Versions
<1>6. Current /\ Snapshot /\ Shown /\ Asked
  BY <1>1 DEF Current, Snapshot, Shown, Asked, Writing, Idle
<1> QED BY <1>4, <1>5, <1>6 DEF IInv

\* A request that reads, or ends without having written.
LEMMA Begins ==
    ASSUME IInv, NEW q \in Requests, NEW r \in Requested,
           r.pc \in {"idle", "validated", "update", "archive"},
           req' = [req EXCEPT ![q] = r],
           rowLock' = IF rowLock = q THEN NoRequest ELSE rowLock,
           archived' \in BOOLEAN,
           UNCHANGED <<status, version, assignee, members, replaced>>,
           r.pc \in {"validated", "update"} =>
               r.expected < MaxVersion /\ (ClientsGuess \/ r.expected <= version),
           r.pc = "update" =>
               /\ r.loaded = version
               /\ r.op = "status" => r.from = status /\ r.to \in TRANSITIONS[status]
    PROVE  IInv'
<1>1. req' \in [Requests -> Requested] /\ req \in [Requests -> Requested]
  BY DEF IInv, TypeOK
<1>2. rowLock' \in Requests \cup {NoRequest}
  BY DEF IInv, TypeOK
<1>3. \A p \in Requests : rowLock' = p <=> req'[p].pc = "commit"
  BY <1>1 DEF IInv, TypeOK
<1>4. TypeOK'
  BY <1>1, <1>2, <1>3 DEF IInv, TypeOK
<1>5. version \in Nat
  BY DEF IInv, TypeOK, Versions
<1>6. OneWinnerPerVersion'
  BY DEF IInv, OneWinnerPerVersion
<1>7. Current'
  BY <1>1 DEF IInv, Current
<1>8. Snapshot'
  BY <1>1, <1>5 DEF IInv, Snapshot, Writing
<1>9. Shown'
  BY <1>1, <1>5 DEF IInv, Shown, Writing
<1>10. Asked'
  BY <1>1 DEF IInv, Asked
<1> QED BY <1>4, <1>6, <1>7, <1>8, <1>9, <1>10 DEF IInv

\* The UPDATE finds the version it expects.
LEMMA PassesPredicate ==
    ASSUME IInv, NEW q \in Requests,
           req[q].pc = "update", version = req[q].expected, rowLock = NoRequest,
           rowLock' = q, req' = [req EXCEPT ![q].pc = "commit"],
           UNCHANGED <<issue, members, replaced>>
    PROVE  IInv'
<1>1. Writing(q) /\ TypeOK
  BY DEF Writing, IInv
<1>2. req[q] \in Writes
  BY <1>1, WritingFields
<1>3. /\ [req[q] EXCEPT !.pc = "commit"] \in Writes
      /\ [req[q] EXCEPT !.pc = "commit"].pc = "commit"
      /\ [req[q] EXCEPT !.pc = "commit"].op = req[q].op
      /\ [req[q] EXCEPT !.pc = "commit"].expected = req[q].expected
      /\ [req[q] EXCEPT !.pc = "commit"].loaded = req[q].loaded
      /\ req[q].op = "status" => /\ [req[q] EXCEPT !.pc = "commit"].from = req[q].from
                                 /\ [req[q] EXCEPT !.pc = "commit"].to = req[q].to
  BY <1>2 DEF Writes
<1>4. PICK r \in Writes :
          /\ req' = [req EXCEPT ![q] = r]
          /\ r.pc = "commit" /\ r.op = req[q].op
          /\ r.expected = req[q].expected /\ r.loaded = req[q].loaded
          /\ req[q].op = "status" => r.from = req[q].from /\ r.to = req[q].to
  BY <1>3
<1>5. req' \in [Requests -> Requested] /\ req \in [Requests -> Requested]
  BY <1>1, <1>4 DEF TypeOK, Requested
<1>6. TypeOK'
  BY <1>1, <1>4, <1>5 DEF TypeOK, issue
<1>7. OneWinnerPerVersion'
  BY DEF IInv, OneWinnerPerVersion, issue
<1>8. Current'
  BY <1>4, <1>5 DEF IInv, Current, issue
<1>9. Snapshot'
  BY <1>1, <1>4, <1>5 DEF IInv, Snapshot, Writing, issue
<1>10. Shown'
  BY <1>1, <1>4, <1>5 DEF IInv, Shown, Writing, issue
<1>11. Asked'
  BY <1>4, <1>5 DEF IInv, Asked, issue
<1> QED BY <1>6, <1>7, <1>8, <1>9, <1>10, <1>11 DEF IInv

\* A commit raises the version by one, so nobody else's expected version is
\* current any more.
LEMMA CommitStep ==
    ASSUME IInv, NEW q \in Requests, Commit(q) PROVE IInv'
<1> USE DEF Commit, Done
<1>1. Writing(q) /\ TypeOK
  BY DEF Writing, IInv
<1>2. /\ req[q].expected = version /\ version \in Nat /\ version < MaxVersion
      /\ version \in Versions /\ rowLock = q
  BY <1>1 DEF IInv, Current, Snapshot, TypeOK, Versions
<1>3. version' = version + 1 /\ version' \in Versions
  BY <1>2 DEF Versions
<1>4. req' \in [Requests -> Requested] /\ req \in [Requests -> Requested]
  BY <1>1 DEF TypeOK, Requested
<1>5. \A p \in Requests : req'[p].pc # "commit"
  BY <1>1, <1>2, <1>4 DEF TypeOK, Idle
<1>6. status' \in Statuses /\ assignee' \in People \cup {Nobody}
  BY <1>1, WritingFields DEF TypeOK
<1>7. replaced' \in [Versions -> Nat]
  BY <1>1, <1>2 DEF TypeOK
<1>8. TypeOK'
  BY <1>1, <1>2, <1>3, <1>4, <1>5, <1>6, <1>7 DEF TypeOK
<1>9. OneWinnerPerVersion'
  <2>1. \A v \in Versions : replaced'[v] = IF v = version THEN replaced[v] + 1 ELSE replaced[v]
    BY <1>1, <1>2 DEF TypeOK
  <2> QED BY <1>2, <1>3, <2>1 DEF IInv, OneWinnerPerVersion, Versions
<1>10. Current'
  BY <1>5 DEF Current
<1>11. ASSUME NEW p \in Requests, req'[p].pc \in {"update", "commit"}
       PROVE  /\ req'[p] = req[p] /\ Writing(p)
              /\ req[p].loaded \in Nat /\ req[p].loaded < version'
  <2>1. p # q /\ req'[p] = req[p] /\ Writing(p)
    BY <1>4, <1>11 DEF Writing, Idle
  <2> QED BY <1>1, <1>2, <1>3, <2>1, WritingFields DEF IInv, Snapshot, Versions
<1>12. Snapshot'
  BY <1>3, <1>11 DEF IInv, Snapshot, Writing
<1>13. Shown'
  BY <1>11 DEF IInv, Shown, Writing
<1>14. Asked'
  <2>1. ASSUME NEW p \in Requests, req'[p].pc = "validated"
        PROVE  req'[p] = req[p] /\ req[p].expected \in Nat
    BY <1>1, <1>4, <2>1, ValidatedFields DEF Versions, Idle
  <2> QED BY <1>2, <1>3, <2>1 DEF IInv, Asked
<1> QED BY <1>8, <1>9, <1>10, <1>12, <1>13, <1>14 DEF IInv

\* Every step, and every stutter, preserves the inductive invariant.
LEMMA StepPreserves == ASSUME IInv, [Next]_vars PROVE IInv'
<1>1. CASE UNCHANGED vars
  BY <1>1 DEF vars, issue, IInv, TypeOK, OneWinnerPerVersion, Current, Snapshot, Shown, Asked, Writing
<1>2. TypeOK /\ version \in Versions /\ version \in Nat /\ status \in Statuses
  BY DEF IInv, TypeOK, Versions
<1>3. \A v \in Expectable : /\ v \in Versions /\ v < MaxVersion
                            /\ ClientsGuess \/ v <= version
  BY DEF Expectable, Versions
<1>4. \A q \in Requests : req[q].pc = "idle" => rowLock # q
  BY <1>2 DEF TypeOK
<1>5. ASSUME NEW q \in Requests, NEW v \in Expectable, EditRead(q, v) PROVE IInv'
  <2>1. PICK r : r = [pc |-> "update", op |-> "edit", expected |-> v, loaded |-> version]
    OBVIOUS
  <2>2. r \in Requested
    BY <1>2, <1>3, <2>1 DEF Requested, Writes
  <2> QED BY <1>2, <1>3, <1>4, <1>5, <2>1, <2>2, Begins DEF EditRead, issue, TypeOK
<1>6. ASSUME NEW q \in Requests, NEW v \in Expectable, NEW to \in Statuses,
             StatusRead(q, v, to)
      PROVE  IInv'
  <2>1. PICK r : r = [pc |-> "update", op |-> "status", expected |-> v, loaded |-> version,
                      from |-> status, to |-> to]
    OBVIOUS
  <2>2. r \in Requested
    BY <1>2, <1>3, <2>1 DEF Requested, Writes
  <2> QED BY <1>2, <1>3, <1>4, <1>6, <2>1, <2>2, Begins DEF StatusRead, issue, TypeOK
<1>7. ASSUME NEW q \in Requests, NEW v \in Expectable, NEW u \in People \cup {Nobody},
             AssignValidate(q, v, u)
      PROVE  IInv'
  <2>1. PICK r : r = [pc |-> "validated", expected |-> v, to |-> u]
    OBVIOUS
  <2>2. r \in Requested
    BY <1>2, <1>3, <2>1 DEF Requested
  <2> QED BY <1>2, <1>3, <1>4, <1>7, <2>1, <2>2, Begins DEF AssignValidate, issue, TypeOK
<1>12. ASSUME NEW q \in Requests, AssignRead(q) PROVE IInv'
  <2>1. CASE archived
    <3>1. Idle \in Requested /\ Idle.pc = "idle"
      BY DEF Requested, Idle
    <3> QED BY <1>2, <1>12, <2>1, <3>1, Begins DEF AssignRead, Done, issue, TypeOK
  <2>2. CASE ~archived
    <3>1. req[q].pc = "validated" /\ rowLock # q
      BY <1>2, <1>12 DEF AssignRead, TypeOK
    <3>2. PICK r : r = [pc |-> "update", op |-> "assign", expected |-> req[q].expected,
                        loaded |-> version, to |-> req[q].to]
      OBVIOUS
    <3>3. r \in Requested
      BY <1>2, <3>1, <3>2, ValidatedFields DEF Requested, Writes
    <3>4. r.expected < MaxVersion /\ (ClientsGuess \/ r.expected <= version)
      BY <3>1, <3>2 DEF IInv, Asked
    <3> QED BY <1>2, <1>12, <2>2, <3>1, <3>2, <3>3, <3>4, Begins DEF AssignRead, issue, TypeOK
  <2> QED BY <2>1, <2>2
<1>13. ASSUME NEW u \in People, Join(u) \/ Leave(u) PROVE IInv'
  <2>1. members' \in SUBSET People /\ UNCHANGED <<issue, rowLock, req, replaced>>
    BY <1>2, <1>13 DEF Join, Leave, TypeOK
  <2> QED
    BY <2>1 DEF issue, IInv, TypeOK, OneWinnerPerVersion, Current, Snapshot, Shown, Asked, Writing
<1>8. ASSUME NEW q \in Requests, ArchiveRead(q) PROVE IInv'
  <2>1. [pc |-> "archive"] \in Requested
    BY DEF Requested
  <2> QED BY <1>2, <1>4, <1>8, <2>1, Begins DEF ArchiveRead, issue, TypeOK
<1>9. ASSUME NEW q \in Requests, OptimisticUpdate(q) PROVE IInv'
  <2>1. CASE version = req[q].expected
    BY <1>9, <2>1, PassesPredicate DEF OptimisticUpdate
  <2>2. CASE version # req[q].expected
    <3>1. Idle \in Requested /\ Idle.pc = "idle"
      BY DEF Requested, Idle
    <3> QED BY <1>2, <1>9, <2>2, <3>1, Begins DEF OptimisticUpdate, Done, issue, TypeOK
  <2> QED BY <2>1, <2>2
<1>10. ASSUME NEW q \in Requests, Commit(q) PROVE IInv'
  BY <1>10, CommitStep
<1>11. ASSUME NEW q \in Requests, ArchiveCommit(q) \/ Rollback(q) PROVE IInv'
  <2>1. Idle \in Requested /\ Idle.pc = "idle"
    BY DEF Requested, Idle
  <2> QED BY <1>2, <1>11, <2>1, Begins DEF ArchiveCommit, Rollback, Done, issue, TypeOK
<1> QED
  BY <1>1, <1>5, <1>6, <1>7, <1>8, <1>9, <1>10, <1>11, <1>12, <1>13 DEF Next, Proceed

\* The inductive invariant holds in every reachable state.
THEOREM Inductive == Spec => []IInv
<1>1. Init => IInv
  BY InitEstablishes
<1>2. IInv /\ [Next]_vars => IInv'
  BY StepPreserves
<1> QED BY <1>1, <1>2, PTL DEF Spec

\* The variables of Issues keep their types, and the row is locked exactly by
\* the request whose UPDATE has matched.
THEOREM TypeCorrect == Spec => []TypeOK
<1>1. IInv => TypeOK
  BY DEF IInv
<1> QED BY <1>1, Inductive, PTL

\* Every replaced version was replaced once, the newest never
\* (optimistic_update).
THEOREM OneWinner == Spec => []OneWinnerPerVersion
<1>1. IInv => OneWinnerPerVersion
  BY DEF IInv
<1> QED BY <1>1, Inductive, PTL

\* If clients send versions they were shown, whoever is about to commit read
\* the version, and with it the status, that it replaces.
LEMMA CommitsWhatItRead ==
    ASSUME ~ClientsGuess, IInv, NEW q \in Requests,
           req[q].pc = "commit", req[q].op = "status"
    PROVE  req[q].from = status /\ req[q].to \in TRANSITIONS[status]
<1>1. Writing(q) /\ TypeOK
  BY DEF Writing, IInv
<1>2. req[q].loaded \in Nat /\ version \in Nat
  BY <1>1, WritingFields DEF TypeOK, Versions
<1>3. req[q].loaded = version
  BY <1>1, <1>2 DEF IInv, Current, Snapshot, Shown
<1> QED BY <1>1, <1>3 DEF IInv, Snapshot

\* The audited "from" is exact as long as clients send versions they were
\* shown (change_status).
THEOREM AuditExact == ASSUME ~ClientsGuess PROVE Spec => []AuditIsExact
<1>1. IInv => AuditIsExact
  BY CommitsWhatItRead DEF AuditIsExact
<1> QED BY <1>1, Inductive, PTL

\* An issue moves only along TRANSITIONS, although the status is looked at
\* before the row is locked.
TransitionsAreAllowed == [][status' # status => status' \in TRANSITIONS[status]]_vars

\* Statuses move only along the policy, under the same condition
\* (change_status, policies.py).
THEOREM Allowed == ASSUME ~ClientsGuess PROVE Spec => TransitionsAreAllowed
<1>1. ASSUME IInv, [Next]_vars, status' # status
      PROVE  status' \in TRANSITIONS[status]
  <2>1. PICK q \in Requests : Commit(q)
    BY <1>1 DEF Next, Proceed, vars, issue, EditRead, StatusRead, AssignValidate, AssignRead,
                ArchiveRead, OptimisticUpdate, ArchiveCommit, Rollback, Join, Leave
  <2>2. req[q].op = "status" /\ status' = req[q].to /\ req[q].pc = "commit"
    BY <1>1, <2>1 DEF Commit
  <2> QED BY <1>1, <2>2, CommitsWhatItRead
<1>2. IInv /\ [Next]_vars
          => [status' # status => status' \in TRANSITIONS[status]]_vars
  BY <1>1
<1> QED BY <1>2, Inductive, PTL DEF Spec, TransitionsAreAllowed

-----------------------------------------------------------------------------
(* Issues implements IssueLifecycle *)

\* What q has sent, and whom it may assign, by its record.
SentBy(r) == IF r.pc \in {"update", "commit"} THEN r.expected ELSE 0

ChosenBy(r) ==
    IF r.pc = "validated" \/ (r.pc \in {"update", "commit"} /\ r.op = "assign")
    THEN {r.to} ELSE {}

Sent == [q \in Requests |-> SentBy(req[q])]
Chosen == [q \in Requests |-> ChosenBy(req[q])]

\* The mapping in the terms of this module.
LEMMA MappingIs ==
    /\ [q \in Requests |->
           IF req[q].pc \in {"update", "commit"} THEN req[q].expected ELSE 0] = Sent
    /\ [q \in Requests |->
           IF req[q].pc = "validated" \/ Assigns(q) THEN {req[q].to} ELSE {}] = Chosen
    /\ [q \in Requests |->
           IF req'[q].pc \in {"update", "commit"} THEN req'[q].expected ELSE 0] = Sent'
    /\ [q \in Requests |->
           IF req'[q].pc = "validated" \/ Assigns(q)' THEN {req'[q].to} ELSE {}] = Chosen'
BY DEF Sent, SentBy, Chosen, ChosenBy, Assigns

\* A request that is idle has neither.
LEMMA IdleSends == SentBy(Idle) = 0 /\ ChosenBy(Idle) = {}
BY DEF SentBy, ChosenBy, Idle

\* A step of one request changes what that one has sent and chosen, at most.
LEMMA MappingMoves ==
    ASSUME IInv, NEW q \in Requests, NEW r,
           req' = [req EXCEPT ![q] = r]
    PROVE  /\ Sent' = [Sent EXCEPT ![q] = SentBy(r)]
           /\ Chosen' = [Chosen EXCEPT ![q] = ChosenBy(r)]
           /\ SentBy(r) = SentBy(req[q]) => Sent' = Sent
           /\ ChosenBy(r) = ChosenBy(req[q]) => Chosen' = Chosen
           /\ Sent[q] = SentBy(req[q]) /\ Chosen[q] = ChosenBy(req[q])
<1>1. req \in [Requests -> Requested]
  BY DEF IInv, TypeOK
<1>2. \A p \in Requests : req'[p] = IF p = q THEN r ELSE req[p]
  BY <1>1
<1>3. \A p \in Requests : Sent'[p] = SentBy(req'[p]) /\ Sent[p] = SentBy(req[p])
  BY DEF Sent
<1>4. \A p \in Requests : Chosen'[p] = ChosenBy(req'[p]) /\ Chosen[p] = ChosenBy(req[p])
  BY DEF Chosen
<1>5. /\ Sent = [p \in Requests |-> Sent[p]] /\ Sent' = [p \in Requests |-> Sent'[p]]
      /\ Chosen = [p \in Requests |-> Chosen[p]] /\ Chosen' = [p \in Requests |-> Chosen'[p]]
  BY DEF Sent, Chosen
<1>6. Sent' = [Sent EXCEPT ![q] = SentBy(r)]
  BY <1>2, <1>3, <1>5
<1>7. Chosen' = [Chosen EXCEPT ![q] = ChosenBy(r)]
  BY <1>2, <1>4, <1>5
<1>8. SentBy(r) = SentBy(req[q]) => Sent' = Sent
  BY <1>2, <1>3, <1>5
<1>9. ChosenBy(r) = ChosenBy(req[q]) => Chosen' = Chosen
  BY <1>2, <1>4, <1>5
<1> QED BY <1>3, <1>4, <1>6, <1>7, <1>8, <1>9

\* A request that ends has neither any more.
LEMMA MappingEnds ==
    ASSUME IInv, NEW q \in Requests, req' = [req EXCEPT ![q] = Idle]
    PROVE  /\ Sent' = [Sent EXCEPT ![q] = 0] /\ Chosen' = [Chosen EXCEPT ![q] = {}]
           /\ SentBy(req[q]) = 0 => Sent' = Sent
           /\ ChosenBy(req[q]) = {} => Chosen' = Chosen
<1>1. /\ Sent' = [Sent EXCEPT ![q] = SentBy(Idle)]
      /\ Chosen' = [Chosen EXCEPT ![q] = ChosenBy(Idle)]
      /\ SentBy(Idle) = SentBy(req[q]) => Sent' = Sent
      /\ ChosenBy(Idle) = ChosenBy(req[q]) => Chosen' = Chosen
  BY MappingMoves
<1> QED BY <1>1, IdleSends, Zenon

\* A request that reads the issue begins.
LEMMA ReadIsBegin ==
    ASSUME IInv, NEW q \in Requests, NEW v \in 1 .. MaxVersion, NEW r,
           ClientsGuess \/ v <= version,
           SentBy(req[q]) = 0, ~archived,
           SentBy(r) = v, ChosenBy(r) = ChosenBy(req[q]),
           req' = [req EXCEPT ![q] = r], UNCHANGED <<issue, members>>
    PROVE  Lifecycle!Next
<1>1. Sent[q] = 0 /\ Sent' = [Sent EXCEPT ![q] = v] /\ Chosen' = Chosen
  BY MappingMoves
<1>2. Lifecycle!Begin(q, v)
  BY <1>1, MappingIs DEF Lifecycle!Begin, issue
<1> QED BY <1>2 DEF Lifecycle!Next

\* The request whose UPDATE has matched changes the version it sent.
LEMMA CommitIsChange ==
    ASSUME IInv, NEW q \in Requests, Commit(q)
    PROVE  Lifecycle!Next
<1>1. Writing(q) /\ TypeOK /\ req[q].pc = "commit"
  BY DEF Commit, Writing, IInv
<1>2. Sent[q] = version /\ Sent[q] # 0
  BY <1>1 DEF IInv, Current, Sent, SentBy, TypeOK, Versions
<1>3. Sent' = [Sent EXCEPT ![q] = 0] /\ Chosen' = [Chosen EXCEPT ![q] = {}]
  BY MappingEnds DEF Commit, Done
<1>4. Lifecycle!End(q)
  BY <1>2, <1>3, MappingIs DEF Lifecycle!End
<1>5. req[q].op = "assign" => req[q].to \in Chosen[q]
  BY <1>1 DEF Chosen, ChosenBy
<1>6. \/ UNCHANGED <<status, assignee>>
      \/ (ClientsGuess \/ status' \in TRANSITIONS[status]) /\ UNCHANGED assignee
      \/ assignee' \in Chosen[q] /\ UNCHANGED status
  BY <1>1, <1>5, WritingFields, CommitsWhatItRead DEF Commit
<1>7. Lifecycle!Change(q)
  BY <1>1, <1>2, <1>4, <1>6, MappingIs DEF Lifecycle!Change, Commit
<1> QED BY <1>7 DEF Lifecycle!Next

\* A request that ends without a change of its own.
LEMMA EndIsGiveUp ==
    ASSUME IInv, NEW q \in Requests, Done(q), UNCHANGED <<issue, members>>
    PROVE  Lifecycle!Next \/ UNCHANGED Lifecycle!vars
<1>1. /\ Sent' = [Sent EXCEPT ![q] = 0] /\ Chosen' = [Chosen EXCEPT ![q] = {}]
      /\ Sent[q] = 0 => Sent' = Sent
      /\ Chosen[q] = {} => Chosen' = Chosen
  BY MappingEnds DEF Done, Sent, Chosen
<1>2. CASE Sent[q] = 0 /\ Chosen[q] = {}
  <2>1. Sent' = Sent /\ Chosen' = Chosen
    BY <1>1, <1>2
  <2> QED BY <2>1, MappingIs DEF Lifecycle!vars, issue
<1>3. CASE Sent[q] # 0 \/ Chosen[q] # {}
  <2>1. Lifecycle!GiveUp(q)
    BY <1>1, <1>3, MappingIs DEF Lifecycle!GiveUp, Lifecycle!End, issue
  <2> QED BY <2>1 DEF Lifecycle!Next
<1> QED BY <1>2, <1>3

\* A step that changes neither the issue nor what anybody has sent or chosen.
LEMMA SendsNothing ==
    ASSUME IInv, NEW q \in Requests, NEW r,
           req' = [req EXCEPT ![q] = r], UNCHANGED <<issue, members>>,
           SentBy(r) = SentBy(req[q]), ChosenBy(r) = ChosenBy(req[q])
    PROVE  UNCHANGED Lifecycle!vars
<1>1. Sent' = Sent /\ Chosen' = Chosen
  BY MappingMoves
<1> QED BY <1>1, MappingIs DEF Lifecycle!vars, issue

\* Validating an assignee chooses one, who is a member now.
LEMMA ValidateIsChoose ==
    ASSUME IInv, NEW q \in Requests, NEW v \in Expectable, NEW u \in People \cup {Nobody},
           AssignValidate(q, v, u)
    PROVE  Lifecycle!Next
<1>1. PICK r : r = [pc |-> "validated", expected |-> v, to |-> u]
  OBVIOUS
<1>2. req[q].pc = "idle" /\ req' = [req EXCEPT ![q] = r]
  BY <1>1 DEF AssignValidate
<1>3. /\ Sent[q] = 0 /\ Sent' = Sent
      /\ Chosen[q] = {} /\ Chosen' = [Chosen EXCEPT ![q] = {u}]
  <2>1. SentBy(r) = 0 /\ ChosenBy(r) = {u} /\ SentBy(req[q]) = 0 /\ ChosenBy(req[q]) = {}
    BY <1>1, <1>2 DEF SentBy, ChosenBy
  <2>2. /\ Sent[q] = SentBy(req[q]) /\ Chosen[q] = ChosenBy(req[q])
        /\ SentBy(r) = SentBy(req[q]) => Sent' = Sent
        /\ Chosen' = [Chosen EXCEPT ![q] = ChosenBy(r)]
    BY <1>2, MappingMoves
  <2> QED BY <2>1, <2>2, Zenon
<1>4. Lifecycle!Choose(q, u)
  BY <1>3, MappingIs DEF Lifecycle!Choose, AssignValidate, issue
<1> QED BY <1>4 DEF Lifecycle!Next

\* Every step of the requests is a step of Lifecycle or changes nothing there.
LEMMA LifecycleStep ==
    ASSUME IInv, [Next]_vars
    PROVE  Lifecycle!Next \/ UNCHANGED Lifecycle!vars
<1>1. CASE UNCHANGED vars
  BY <1>1 DEF vars, issue, Lifecycle!vars, Assigns
<1>2. \A v \in Expectable : v \in 1 .. MaxVersion /\ (ClientsGuess \/ v <= version)
  BY DEF Expectable
<1>3. ASSUME NEW q \in Requests, NEW v \in Expectable, EditRead(q, v)
      PROVE  Lifecycle!Next
  BY <1>2, <1>3, ReadIsBegin DEF EditRead, SentBy, ChosenBy
<1>4. ASSUME NEW q \in Requests, NEW v \in Expectable, NEW to \in Statuses,
             StatusRead(q, v, to)
      PROVE  Lifecycle!Next
  BY <1>2, <1>4, ReadIsBegin DEF StatusRead, SentBy, ChosenBy
<1>5. ASSUME NEW q \in Requests, NEW v \in Expectable, NEW u \in People \cup {Nobody},
             AssignValidate(q, v, u)
      PROVE  Lifecycle!Next
  BY <1>5, ValidateIsChoose
<1>6. ASSUME NEW q \in Requests, AssignRead(q)
      PROVE  Lifecycle!Next \/ UNCHANGED Lifecycle!vars
  <2>1. CASE archived
    BY <1>6, <2>1, EndIsGiveUp DEF AssignRead
  <2>2. CASE ~archived
    <3>1. /\ req[q].pc = "validated" /\ req[q].expected \in 1 .. MaxVersion
          /\ ClientsGuess \/ req[q].expected <= version
      BY <1>6, ValidatedFields DEF AssignRead, IInv, Asked, Versions
    <3> QED BY <1>6, <2>2, <3>1, ReadIsBegin DEF AssignRead, SentBy, ChosenBy
  <2> QED BY <2>1, <2>2
<1>7. ASSUME NEW q \in Requests, ArchiveRead(q) PROVE UNCHANGED Lifecycle!vars
  BY <1>7, SendsNothing DEF ArchiveRead, SentBy, ChosenBy
<1>8. ASSUME NEW q \in Requests, OptimisticUpdate(q)
      PROVE  Lifecycle!Next \/ UNCHANGED Lifecycle!vars
  <2>1. CASE version = req[q].expected
    <3>1. req[q] \in Writes /\ req[q].pc = "update"
      BY <1>8, WritingFields DEF OptimisticUpdate, Writing, IInv
    <3>2. /\ [req[q] EXCEPT !.pc = "commit"].pc = "commit"
          /\ [req[q] EXCEPT !.pc = "commit"].op = req[q].op
          /\ [req[q] EXCEPT !.pc = "commit"].expected = req[q].expected
          /\ req[q].op = "assign" => [req[q] EXCEPT !.pc = "commit"].to = req[q].to
      BY <3>1 DEF Writes
    <3>3. /\ SentBy([req[q] EXCEPT !.pc = "commit"]) = SentBy(req[q])
          /\ ChosenBy([req[q] EXCEPT !.pc = "commit"]) = ChosenBy(req[q])
      BY <3>1, <3>2 DEF SentBy, ChosenBy
    <3> QED BY <1>8, <2>1, <3>3, SendsNothing DEF OptimisticUpdate
  <2>2. CASE version # req[q].expected
    BY <1>8, <2>2, EndIsGiveUp DEF OptimisticUpdate
  <2> QED BY <2>1, <2>2
<1>9. ASSUME NEW q \in Requests, Commit(q) PROVE Lifecycle!Next
  BY <1>9, CommitIsChange
<1>10. ASSUME NEW q \in Requests, ArchiveCommit(q)
       PROVE  Lifecycle!Next \/ UNCHANGED Lifecycle!vars
  <2>1. Sent' = Sent /\ Chosen' = Chosen
    <3>1. SentBy(req[q]) = 0 /\ ChosenBy(req[q]) = {}
      BY <1>10 DEF ArchiveCommit, SentBy, ChosenBy
    <3> QED BY <1>10, <3>1, MappingEnds DEF ArchiveCommit, Done
  <2>2. CASE archived
    BY <1>10, <2>1, <2>2, MappingIs DEF ArchiveCommit, Lifecycle!vars
  <2>3. CASE ~archived
    <3>1. Lifecycle!Archive
      BY <1>10, <2>1, <2>3, MappingIs DEF ArchiveCommit, Lifecycle!Archive
    <3> QED BY <3>1 DEF Lifecycle!Next
  <2> QED BY <2>2, <2>3, <1>10 DEF IInv, TypeOK
<1>11. ASSUME NEW q \in Requests, Rollback(q)
       PROVE  Lifecycle!Next \/ UNCHANGED Lifecycle!vars
  BY <1>11, EndIsGiveUp DEF Rollback
<1>12. ASSUME NEW u \in People, Join(u) \/ Leave(u) PROVE Lifecycle!Next
  <2>1. members' \in SUBSET People /\ UNCHANGED <<issue, req>>
    BY <1>12 DEF Join, Leave, IInv, TypeOK
  <2>2. Lifecycle!ComeOrGo
    BY <2>1 DEF Lifecycle!ComeOrGo, issue, Assigns
  <2> QED BY <2>2 DEF Lifecycle!Next
<1> QED
  BY <1>1, <1>3, <1>4, <1>5, <1>6, <1>7, <1>8, <1>9, <1>10, <1>11, <1>12 DEF Next, Proceed

\* The requests implement the promise that IssueLifecycle states: whatever
\* they read before the row was locked, each changes the issue at once and
\* from the version its client sent (optimistic_update), assigns only somebody
\* who was a member when it looked (validate_assignee), and none begins once
\* the issue is archived (get_issue).
THEOREM Implements == Spec => LifecycleSpec
<1>1. Init => Lifecycle!Init
  BY DEF Init, Lifecycle!Init, Idle, Assigns
<1>2. IInv /\ [Next]_vars => [Lifecycle!Next]_(Lifecycle!vars)
  BY LifecycleStep
<1> QED BY <1>1, <1>2, Inductive, PTL DEF Spec, LifecycleSpec, Lifecycle!Spec
=============================================================================
